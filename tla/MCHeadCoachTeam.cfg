\* Three coaches: two of them can be the heads between which the third one moves.
SPECIFICATION Spec
CONSTANTS
    Coaches = {c1, c2, c3}
    Requests = {q1, q2}
    Nobody = Nobody
SYMMETRY TeamSymmetry
INVARIANTS
    TypeOK
    NoOrphanedTeam
\* The system stops when every account has been deleted.
CHECK_DEADLOCK FALSE
