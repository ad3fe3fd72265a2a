\* One coach, two gym requests next to one of the admin.
SPECIFICATION GymSpec
CONSTANTS
    Coaches = {c1}
    Requests = {q1}
    Gyms = {g1}
    Invites = {i1}
    GymRequests = {r1, r2}
    Nobody = Nobody
SYMMETRY GymSymmetry
INVARIANTS
    MembershipsAreAccepted
    RightsAreGranted
PROPERTIES
    AnsweredOnce
\* The system stops when every account has been deleted.
CHECK_DEADLOCK FALSE
