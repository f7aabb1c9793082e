--------------------------- MODULE MCAgentSession ---------------------------
EXTENDS AgentSession, TLC

Symmetries == Permutations(Requests) \cup Permutations(Passwords)
=============================================================================
