\* Two requests at a time, two wrong guesses per budget, two issues per window.
SPECIFICATION Spec
CONSTANTS
    Requests = {q1, q2}
    MaxCodeAttempts = 2
    CodeLockout = 2
    CodeTTL = 2
    RegenCooldown = 1
    MaxRegensPerWindow = 2
    RegenWindow = 3
    MaxTime = 5
    MaxIssued = 3
    MaxTries = 3
SYMMETRY RequestSymmetry
INVARIANTS
    TypeOK
    GuessBudget
    RegenerationsSpaced
