\* Two users compete for one entry; the bounds keep the order of the code's (30 s, 30 s, 5 min).
SPECIFICATION FairSpec
CONSTANTS
    Users = {u1, u2}
    Requests = {q1, q2}
    Changing = {u1}
    Tokens <- MCTokens
    u1 = u1
    u2 = u2
    q1 = q1
    q2 = q2
    Anyone = Anyone
    TTL = 1
    NotFoundTTL = 1
    MaxStale = 2
    MaxEntries = 1
INVARIANT GateTypeOK
PROPERTIES
    WrongAnswersExpire
    EventuallyTruthful
    EveryRequestAnswered
