\* Two clients revise one goal, beside one attention item.
CONSTANTS
    Client = {p1, p2}
    Goal = {goal1}
    Attention = {i1}
    Text = {t1, t2}
    MaxRevision = 3
SPECIFICATION Spec
SYMMETRY Symmetry
INVARIANTS TypeOK RowIsLatestRevision LogCountsChanges
PROPERTY HistoryStands
CHECK_DEADLOCK FALSE
