\* One team request and one gym request at a time.
SPECIFICATION GymSpec
CONSTANTS
    Coaches = {c1, c2}
    Requests = {q1}
    Gyms = {g1}
    Invites = {i1}
    GymRequests = {r1}
    Nobody = Nobody
SYMMETRY GymSymmetry
INVARIANTS
    GymTypeOK
    NoOrphanedTeam
\* The system stops when every account has been deleted and every gym archived.
CHECK_DEADLOCK FALSE
