--------------------------- MODULE TaxRegistration ---------------------------
(***************************************************************************)
(* The tax numbers (matricule fiscale) of coaches and nutritionists:          *)
(* handlers/matricule.go, their part of services/auth.go and of                *)
(* repositories/User.go, and the unique sparse index on the number.            *)
(*                                                                         *)
(* One database call is one step.  Approve and Reject read the user before      *)
(* they write, but only to refuse a user who is not there or has another role,  *)
(* which the write or the set Applicants says again: they are one step.         *)
(***************************************************************************)
EXTENDS Integers, FiniteSets

CONSTANTS
    Applicants,   \* coaches and nutritionists
    Numbers,      \* trimmed, neither empty nor longer than 50
    None,
    Submissions,  \* submissions in flight
    PageSize      \* applications on one page of the admin's list

ASSUME TaxAssumption ==
    /\ None \notin Applicants \cup Numbers
    /\ IsFiniteSet(Applicants)
    /\ PageSize \in Nat \ {0}

VARIABLES
    users,       \* the users whose account was not deleted
    number,      \* matricule_fiscale
    status,      \* matricule_fiscale_status
    newer,       \* the pending applications by matricule_fiscale_submitted_at: pairs, the newer one first
    submission,  \* submissions that read their user and did not write yet
    review       \* an admin who reads the pending applications page by page

taxVars == <<users, number, status, newer, submission, review>>

Decisions == {"approved", "rejected"}
TaxStatuses == {"", "none", "pending"} \cup Decisions

NoSubmission == [user |-> None, number |-> None, overtaken |-> FALSE]

\* overtaken: an approval of the user was stored since the submission read it.
Submission == [user : Applicants, number : Numbers, overtaken : BOOLEAN] \cup {NoSubmission}

\* page: the next one to read, 0 when no list is read; seen: what the pages showed; waiting: pending
\* when the list was begun and, once it was read, also at its end; left: how often an application left
\* its place meanwhile, up to the number of users, past which it says nothing.
Review == [page : Nat, seen : SUBSET Applicants, waiting : SUBSET Applicants, left : 0 .. Cardinality(Applicants)]

Start == [page |-> 0, seen |-> {}, waiting |-> {}, left |-> 0]

Pending == {u \in users : status[u] = "pending"}

\* A user under review has a number, one without a submission has none, and nobody has the number of
\* somebody else.
NumbersAreOwn ==
    /\ \A u \in users : (status[u] \in {"", "none"} => number[u] = None)
                         /\ (status[u] = "pending" => number[u] # None)
    /\ \A u, v \in users : number[u] = number[v] /\ u # v => number[u] = None

\* The numbers stay so however submissions, decisions and withdrawals meet, and also when one is decided
\* that was withdrawn (UpdateMatriculeFiscale, ClearTaxRegistration, idx_users_matricule_fiscale).
TaxTypeOK ==
    /\ users \subseteq Applicants
    /\ number \in [Applicants -> Numbers \cup {None}]
    /\ status \in [Applicants -> TaxStatuses]
    /\ newer \subseteq Pending \X Pending
    /\ submission \in [Submissions -> Submission]
    /\ review \in Review
    /\ NumbersAreOwn

TaxInit ==
    /\ users = Applicants
    /\ number = [u \in Applicants |-> None]
    /\ status = [u \in Applicants |-> ""]
    /\ newer = {}
    /\ submission = [q \in Submissions |-> NoSubmission]
    /\ review = Start

\* The order without the application of u.
Without(u) == {p \in newer : u \notin {p[1], p[2]}}

\* The admin's reading when the application of u leaves its place in the list.
Left(u) ==
    [review EXCEPT !.left = IF review.page # 0 /\ u \in Pending /\ @ < Cardinality(Applicants) THEN @ + 1 ELSE @]

Leaves(u) ==
    /\ newer' = Without(u)
    /\ review' = Left(u)

-----------------------------------------------------------------------------
(* The user *)

\* Mutant of MaySubmit: an approved number can be replaced.
MaySubmit_Always(u) == u \in users

MaySubmit(u) == u \in users /\ status[u] # "approved"

SubmitRead(q, u, n) ==
    /\ submission[q] = NoSubmission
    /\ MaySubmit(u)
    /\ submission' = [submission EXCEPT ![q] = [NoSubmission EXCEPT !.user = u, !.number = n]]
    /\ UNCHANGED <<users, number, status, newer, review>>

\* Mutant of NumberIsFree: an index that is not unique.
NumberIsFree_Always(u, n) == TRUE

\* The index knows no deleted user and no user without a number.
NumberIsFree(u, n) == \A v \in users \ {u} : number[v] # n

\* The update has no filter on the status: what was decided since the read is overwritten.  The
\* reviewer of an earlier decision stays in the document.
SubmitWrite(q) ==
    LET u == submission[q].user
        n == submission[q].number
    IN  /\ submission[q] # NoSubmission
        /\ IF u \in users /\ NumberIsFree(u, n)
             THEN /\ number' = [number EXCEPT ![u] = n]
                  /\ status' = [status EXCEPT ![u] = "pending"]
                  /\ newer' = Without(u) \cup ({u} \X (Pending \ {u}))
                  /\ review' = Left(u)
             ELSE UNCHANGED <<number, status, newer, review>>
        /\ submission' = [submission EXCEPT ![q] = NoSubmission]
        /\ UNCHANGED users

\* A database error or a crash.
SubmitAbort(q) ==
    /\ submission[q] # NoSubmission
    /\ submission' = [submission EXCEPT ![q] = NoSubmission]
    /\ UNCHANGED <<users, number, status, newer, review>>

\* ClearTaxRegistration is one update, whose filter looks at the status.
MayClear(u) == u \in users /\ status[u] \in {"pending", "rejected"}

Withdraw(u) ==
    /\ MayClear(u)
    /\ number' = [number EXCEPT ![u] = None]
    /\ status' = [status EXCEPT ![u] = "none"]
    /\ Leaves(u)
    /\ UNCHANGED <<users, submission>>

\* An account is deleted with its number.
DeleteUser(u) ==
    /\ u \in users
    /\ users' = users \ {u}
    /\ Leaves(u)
    /\ UNCHANGED <<number, status, submission>>

-----------------------------------------------------------------------------
(* The admin *)

UpdateMatriculeFiscaleStatus(u, decision) == status' = [status EXCEPT ![u] = decision]

\* Neither the status nor the number is looked at: a decision can be about a number the admin did
\* not see, or about none.
Decide(u, decision) ==
    /\ u \in users
    /\ UpdateMatriculeFiscaleStatus(u, decision)
    /\ Leaves(u)
    /\ submission' = [q \in Submissions |->
                        [submission[q] EXCEPT !.overtaken = @ \/ (decision = "approved" /\ submission[q].user = u)]]
    /\ UNCHANGED <<users, number>>

Approve(u) == Decide(u, "approved")
Reject(u) == Decide(u, "rejected")

ListBegin ==
    /\ review.page = 0
    /\ review' = [Start EXCEPT !.page = 1, !.waiting = Pending]
    /\ UNCHANGED <<users, number, status, newer, submission>>

\* Mutant of Skipped: pages counted from 0.
Skipped_FromZero(page) == page * PageSize

Skipped(page) == (page - 1) * PageSize

\* How many applications the list shows before the one of u.
Before(u) == Cardinality({v \in Pending : <<v, u>> \in newer})

\* FindByMatriculeFiscaleStatus: filter, sort, skip, limit.
Page(page) == {u \in Pending : Skipped(page) <= Before(u) /\ Before(u) < Skipped(page) + PageSize}

\* An admin reads on until a page is not full; the total of the answer is counted before the page is
\* read and can disagree with it.
ListPage ==
    LET page == Page(review.page)
    IN  /\ review.page # 0
        /\ review' = IF Cardinality(page) = PageSize
                       THEN [review EXCEPT !.page = @ + 1, !.seen = @ \cup page]
                       ELSE [review EXCEPT !.page = 0, !.seen = @ \cup page, !.waiting = @ \cap Pending]
        /\ UNCHANGED <<users, number, status, newer, submission>>

-----------------------------------------------------------------------------

TaxNext ==
    \/ \E q \in Submissions : \/ \E u \in Applicants, n \in Numbers : SubmitRead(q, u, n)
                              \/ SubmitWrite(q) \/ SubmitAbort(q)
    \/ \E u \in Applicants : Withdraw(u) \/ DeleteUser(u) \/ Approve(u) \/ Reject(u)
    \/ ListBegin \/ ListPage

TaxSpec == TaxInit /\ [][TaxNext]_taxVars

-----------------------------------------------------------------------------
(* Properties *)

\* An approval only gives way to a rejection or to a submission that was already being handled when
\* it was stored; what a user begins after it, a new number or a withdrawal, cannot undo it
\* (SubmitMatriculeFiscale refuses an approved user, ClearTaxRegistration filters on the status).
ApprovalsStand ==
    [][\A u \in users' : status[u] = "approved" /\ status'[u] \notin Decisions
         => \E q \in Submissions : submission[q].user = u /\ submission[q].overtaken]_taxVars

\* Paging over a list that changes: of the applications that wait from the first page to the last, the
\* admin misses no more than the number of times that one left its place meanwhile; new ones push
\* nobody out of sight, because the list begins with the newest (FindByMatriculeFiscaleStatus).
ReviewMissesFew ==
    review.page = 0 => Cardinality(review.waiting \ review.seen) <= review.left

=============================================================================
