---------------------------- MODULE MCAgentCore ----------------------------
EXTENDS AgentCore, TLC

Independent == [t \in Tasks |-> NoTask]
Symmetry == Permutations(Messages)
=============================================================================
