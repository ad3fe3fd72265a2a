\* Two requests at a time; the address is used again after a deletion.
SPECIFICATION Spec
CONSTANTS
    Requests = {q1, q2}
    MaxSerials = 3
SYMMETRY RequestSymmetry
INVARIANTS
    TypeOK
    VouchedBeforeUse
    WipedStaysWiped
