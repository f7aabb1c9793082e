CONSTANTS
  Callers = {c1, c2}
  Keeper = keeper
  Nobody = Nobody
  MaxLate = 1
SPECIFICATION FairSpec
INVARIANT EslTypeOK
PROPERTIES Answered ImplementsEslCommands
