\* One coach and his client, one write at a time here and any number elsewhere.
SPECIFICATION Spec
CONSTANTS
    workouts = workouts
    exercises = exercises
    invitations = invitations
    Features = {workouts, exercises, invitations}
    ParentOf <- MCParentOf
    NoFeature = NoFeature
    ClientFeatures = {workouts, exercises}
    Limited = {workouts}
    MaxLimit = 0
    Coaches = {k1}
    Client = c1
    Nobody = Nobody
    Requests = {q1}
    Patches <- MCPatches
    DefaultPatches <- MCDefaultPatches
    EditedRoles = {"coach"}
    TTL = 2
    MaxVersion = 1
INVARIANTS
    TypeOK
    StaleAtMostPerLevel
    PurgeForgets
    RulesHold
PROPERTY ImplementsGrantStore
