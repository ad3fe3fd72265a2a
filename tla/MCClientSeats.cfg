\* Two requests in flight and three clients for one seat.
SPECIFICATION Spec
CONSTANTS
    k1 = k1
    Coaches = {k1}
    None = None
    Limits <- MCLimits
    Requests = {q1, q2}
    MaxClients = 3
    PageSize = 1
SYMMETRY MCRequests
INVARIANTS
    SeatsTypeOK
    SeatsNotOversold
    SeatsAreClients
    LinksStayValid
