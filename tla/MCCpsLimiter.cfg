CONSTANTS
  Originates = {r1, r2, r3}
  MaxCPS = 2
  LastSecond = 3
SYMMETRY Symmetry
SPECIFICATION LimiterSpec
INVARIANTS LimiterTypeOK PromptGrantsCapped
