------------------------------ MODULE MCGoals ------------------------------
EXTENDS GoalLedger, TLC

\* Clients are only compared for equality.
Symmetry == Permutations(Client)
=============================================================================
