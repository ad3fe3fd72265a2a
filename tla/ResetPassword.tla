---------------------------- MODULE ResetPassword ----------------------------
(***************************************************************************)
(* The password-reset code of one account, under concurrent requests:      *)
(* InitResetPassword, VerifyResetPasswordCode, ConfirmResetPassword and     *)
(* the write-back of a login (TryToConnect), which stores the whole         *)
(* reset_password_code it read.  Every step is one MongoDB operation or     *)
(* the computation between two of them; other requests run in between.      *)
(***************************************************************************)
EXTENDS CodePolicy, Sequences

CONSTANTS
    Requests,    \* requests that may be in flight at the same time
    MaxTime,     \* bound on the clock
    MaxIssued,   \* bound on the codes generated
    MaxTries     \* bound on the attempt counter

ASSUME ResetPasswordAssumption ==
    MaxTime \in Nat /\ MaxIssued \in Nat /\ MaxTries \in Nat

VARIABLES
    now,      \* the clock
    rec,      \* the stored reset_password_code
    issued,   \* serial of the last code generated
    req,      \* what each request in flight holds
    wrong,    \* history: wrong guesses compared with a live code since the budget was refilled
    issues    \* history: the issues since a request last stored a code without having read one

vars == <<now, rec, issued, req, wrong, issues>>

Steps == {"idle", "plan", "store", "clear", "lock", "setPassword", "saveLogin"}

\* snap: the code record the request read; at: the time.Now() it works with; redeem: the
\* request is ConfirmResetPassword.
Request == [pc : Steps, snap : CodeRecord, at : Nat, redeem : BOOLEAN]

\* One issue in the history: when it was decided, and the start of the window it counts in.
Issue == [at : Nat, window : Nat]

Idle == [pc |-> "idle", snap |-> NoCode, at |-> ZeroTime, redeem |-> FALSE]

TypeOK ==
    /\ now \in Nat
    /\ rec \in CodeRecord
    /\ issued \in Nat
    /\ req \in [Requests -> Request]
    /\ wrong \in Nat
    /\ issues \in Seq(Issue)

Init ==
    /\ now = 1
    /\ rec = NoCode
    /\ issued = 0
    /\ req = [q \in Requests |-> Idle]
    /\ wrong = 0
    /\ issues = <<>>

At(q, step) == req[q].pc = step

Tick ==
    /\ now < MaxTime
    /\ now' = now + 1
    /\ UNCHANGED <<rec, issued, req, wrong, issues>>

-----------------------------------------------------------------------------
(* InitResetPassword: read, plan, store *)

\* GetByEmailToResetPassword: the request keeps the code it read.
ReadCode(q) ==
    /\ At(q, "idle")
    /\ req' = [req EXCEPT ![q] = [Idle EXCEPT !.pc = "plan", !.snap = rec]]
    /\ UNCHANGED <<now, rec, issued, wrong, issues>>

\* issueResetCode decides with the current time on the code read earlier; a refusal ends the
\* request with the generic answer.
PlanIssue(q) ==
    /\ At(q, "plan")
    /\ req' = [req EXCEPT ![q] =
                 IF MayIssue(req[q].snap, now) THEN [req[q] EXCEPT !.pc = "store", !.at = now]
                                               ELSE Idle]
    /\ UNCHANGED <<now, rec, issued, wrong, issues>>

HadCode(q) == req[q].snap # NoCode

\* Mutant of GuardHolds: the update is keyed by e-mail only.
GuardHolds_EmailOnly(q) == rec # NoCode

\* The conditional update of issueCodeQuery matches while lastissuedat is still the one read.
\* On a null sub-document the dotted $set is an error, so nothing is stored.
GuardHolds(q) == rec # NoCode /\ rec.last = req[q].snap.last

\* The issue a request adds to the history.
IssueOf(q) == [at |-> req[q].at, window |-> Planned(req[q].snap, req[q].at).window]

\* Two records that stand after the same issues.
SameIssues(r, s) == r.last = s.last /\ r.window = s.window /\ r.count = s.count

\* The caller read no code, so no cooldown was asked of it: the history starts over.
StoreFirst(q) ==
    /\ At(q, "store")
    /\ ~HadCode(q)
    /\ issued < MaxIssued
    /\ issued' = issued + 1
    /\ rec' = FirstIssue(issued', req[q].at, Planned(req[q].snap, req[q].at))
    /\ wrong' = 0
    /\ issues' = <<IssueOf(q)>>
    /\ req' = [req EXCEPT ![q] = Idle]
    /\ UNCHANGED now

\* The filter compares instants.  A code cleared and issued afresh within the instant of the one
\* the request read passes it although its window differs: there the history starts over, too.
StoreAgain(q) ==
    /\ At(q, "store")
    /\ HadCode(q)
    /\ GuardHolds(q)
    /\ issued < MaxIssued
    /\ issued' = issued + 1
    /\ LET refill == RefillsBudget(req[q].snap)
       IN  /\ rec' = ReIssue(rec, issued', req[q].at, Planned(req[q].snap, req[q].at), refill)
           /\ wrong' = IF refill THEN 0 ELSE wrong
    /\ issues' = IF rec.last = req[q].snap.last /\ ~SameIssues(rec, req[q].snap)
                   THEN <<IssueOf(q)>>
                   ELSE Append(issues, IssueOf(q))
    /\ req' = [req EXCEPT ![q] = Idle]
    /\ UNCHANGED now

\* A concurrent issue won, or the code is gone: no code is stored and no mail is sent.
StoreLost(q) ==
    /\ At(q, "store")
    /\ HadCode(q)
    /\ ~GuardHolds(q)
    /\ req' = [req EXCEPT ![q] = Idle]
    /\ UNCHANGED <<now, rec, issued, wrong, issues>>

-----------------------------------------------------------------------------
(* VerifyResetPasswordCode and ConfirmResetPassword: core.VerifyCode *)

\* Consume counts the try and returns the record after the increment, on which CheckCode and
\* ShouldLock decide.  A guess is a code that was issued, or 0 for any other string.
SubmitCode(q, given, redeem) ==
    /\ At(q, "idle")
    /\ rec # NoCode
    /\ rec.attempts < MaxTries
    /\ rec' = ConsumeTry(rec)
    /\ LET verdict == CheckCode(rec', given, now)
       IN  /\ req' = [req EXCEPT ![q] =
                        CASE verdict = "ok" ->
                               [Idle EXCEPT !.pc = "clear", !.redeem = redeem]
                          [] verdict # "ok" /\ ShouldLock(rec') ->
                               [Idle EXCEPT !.pc = "lock", !.at = now]
                          [] OTHER -> Idle]
           /\ wrong' = IF verdict = "invalid" /\ Live(rec', now) THEN wrong + 1 ELSE wrong
    /\ UNCHANGED <<now, issued, issues>>

\* A right code clears the budget; ConfirmResetPassword goes on to set the password.
Clear(q) ==
    /\ At(q, "clear")
    /\ rec' = ClearBudget(rec)
    /\ wrong' = 0
    /\ req' = [req EXCEPT ![q] = IF req[q].redeem THEN [Idle EXCEPT !.pc = "setPassword"] ELSE Idle]
    /\ UNCHANGED <<now, issued, issues>>

Lock(q) ==
    /\ At(q, "lock")
    /\ rec' = LockCode(rec, req[q].at + CodeLockout)
    /\ req' = [req EXCEPT ![q] = Idle]
    /\ UNCHANGED <<now, issued, wrong, issues>>

\* UpdatePasswordAndClearResetCode drops the whole sub-document, by e-mail only.
SetPassword(q) ==
    /\ At(q, "setPassword")
    /\ rec' = NoCode
    /\ wrong' = 0
    /\ issues' = <<>>
    /\ req' = [req EXCEPT ![q] = Idle]
    /\ UNCHANGED <<now, issued>>

-----------------------------------------------------------------------------
(* TryToConnect on the same account: read the user, later store it back *)

ReadLogin(q) ==
    /\ At(q, "idle")
    /\ req' = [req EXCEPT ![q] = [Idle EXCEPT !.pc = "saveLogin", !.snap = rec]]
    /\ UNCHANGED <<now, rec, issued, wrong, issues>>

\* UserRepository.Update sets reset_password_code to what the login read.  A login that read before
\* the last issue takes that issue out of the record: the history starts over.
SaveLogin(q) ==
    /\ At(q, "saveLogin")
    /\ rec' = req[q].snap
    /\ wrong' = 0
    /\ issues' = IF SameIssues(req[q].snap, rec) THEN issues ELSE <<>>
    /\ req' = [req EXCEPT ![q] = Idle]
    /\ UNCHANGED <<now, issued>>

\* A database error, a cancelled request or a crash ends a request between two steps.
Abort(q) ==
    /\ ~At(q, "idle")
    /\ req' = [req EXCEPT ![q] = Idle]
    /\ UNCHANGED <<now, rec, issued, wrong, issues>>

-----------------------------------------------------------------------------

Next ==
    \/ Tick
    \/ \E q \in Requests :
         \/ ReadCode(q) \/ PlanIssue(q) \/ StoreFirst(q) \/ StoreAgain(q) \/ StoreLost(q)
         \/ \E given \in 0 .. issued, redeem \in BOOLEAN : SubmitCode(q, given, redeem)
         \/ Clear(q) \/ Lock(q) \/ SetPassword(q)
         \/ ReadLogin(q) \/ SaveLogin(q)
         \/ Abort(q)

Spec == Init /\ [][Next]_vars

-----------------------------------------------------------------------------
(* Properties *)

\* However guesses, regenerations and lockouts interleave, at most MaxCodeAttempts wrong guesses
\* are compared with a live code before the budget is refilled.  It is refilled by a right code,
\* an elapsed lockout, a completed reset, a first issue and a login's write-back, by nothing else:
\* VerifyCode counts the try in the same update that returns the code, PlanIssue keeps attempts.
GuessBudget == wrong <= MaxCodeAttempts

\* Regenerations are rate limited whichever requests race: of the codes issued one after the other
\* by requests that had read a code, any two are RegenCooldown apart, at most MaxRegensPerWindow
\* fall into one window, and windows do not overlap (PlanIssue and the lastissuedat filter of
\* issueCodeQuery).  The sequence starts over at a first issue, a completed reset and a login's
\* write-back of an older record, which takes the last issue's stamp away: past those the code
\* promises nothing.
RegenerationsSpaced ==
    \A i, j \in 1 .. Len(issues) : i < j =>
        LET e == issues[i]
            l == issues[j]
        IN  /\ l.at - e.at >= RegenCooldown
            /\ l.window = e.window => j - i < MaxRegensPerWindow
            /\ l.window # e.window => l.window - e.window >= RegenWindow

=============================================================================
