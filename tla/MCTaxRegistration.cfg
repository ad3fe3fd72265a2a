\* Three users and two numbers, pages of one application, one submission in flight beside the admin
\* and the withdrawals.
SPECIFICATION TaxSpec
CONSTANTS
    Applicants = {u1, u2, u3}
    Numbers = {n1, n2}
    None = None
    Submissions = {q1}
    PageSize = 1
SYMMETRY MCSymmetry
INVARIANTS
    TaxTypeOK
    ReviewMissesFew
PROPERTY ApprovalsStand
