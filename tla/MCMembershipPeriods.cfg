\* Four writes or reconciliations, two of them at a time.
SPECIFICATION Spec
CONSTANTS
    Coaches = {c1}
    Heads = {h1, h2}
    Gyms = {g1}
    None = None
    Open = Open
    Times = {0, 1}
    MaxTime = 1
    MaxWrites = 4
    Requests = {q1, q2}
SYMMETRY MCSymmetry
INVARIANTS
    PeriodsTypeOK
    HistoryFollowsRows
    HistoryIsDisjoint
    ScopeIsTheOverlap
    CurrentScopeIsCurrent
CHECK_DEADLOCK FALSE
