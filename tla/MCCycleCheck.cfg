CONSTANT Node = {n1, n2, n3}
SPECIFICATION Spec
INVARIANTS SearchInvariant VerdictIsRight
PROPERTY Terminates
CHECK_DEADLOCK FALSE
