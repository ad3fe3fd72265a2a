----------------------------- MODULE CodePolicy -----------------------------
(***************************************************************************)
(* The policy of the e-mailed verification codes (core/activation.go) and  *)
(* the single-document updates that store it (repositories/code_issue.go,  *)
(* repositories/User.go).  Both the signup-confirmation code and the       *)
(* password-reset code of an account are sub-documents of this shape.      *)
(*                                                                         *)
(* A code is abstracted to the serial number of its issue: 1, 2, ... for   *)
(* codes that were generated, 0 for the empty string.  Two random codes    *)
(* being equal by luck is left out.  Instants are naturals, and 0 is Go's  *)
(* zero time.                                                              *)
(***************************************************************************)
EXTENDS Integers

CONSTANTS
    MaxCodeAttempts,     \* wrong guesses allowed against one budget
    CodeLockout,         \* how long an exhausted budget blocks new codes
    CodeTTL,             \* validity of an issued code
    RegenCooldown,       \* minimum gap between two issues
    MaxRegensPerWindow,  \* issues per regeneration window
    RegenWindow          \* length of the regeneration window

ASSUME CodePolicyAssumption ==
    /\ MaxCodeAttempts \in Nat \ {0}
    /\ CodeLockout \in Nat \ {0}
    /\ CodeTTL \in Nat \ {0}
    /\ RegenCooldown \in Nat \ {0}
    /\ MaxRegensPerWindow \in Nat \ {0}
    /\ RegenWindow \in Nat \ {0}

Blank == 0
ZeroTime == 0

\* A stored code with its bookkeeping.  NoCode is the missing (null) sub-document: the readers
\* decode it to the zero value of the struct.
CodeRecord == [code : Nat, expiry : Nat, attempts : Nat, locked : Nat,
               last : Nat, window : Nat, count : Nat]

NoCode == [code |-> Blank, expiry |-> ZeroTime, attempts |-> 0, locked |-> ZeroTime,
           last |-> ZeroTime, window |-> ZeroTime, count |-> 0]

-----------------------------------------------------------------------------
(* Decisions *)

Live(r, now) == r.code # Blank /\ r.expiry > now

\* CheckCode on the state read back after the try was counted; given is the submitted code.
CheckCode(r, given, now) ==
    CASE r.attempts > MaxCodeAttempts -> "locked"
      [] r.attempts <= MaxCodeAttempts /\ Live(r, now) /\ given = r.code -> "ok"
      [] OTHER -> "invalid"

ShouldLock(r) == r.code # Blank /\ r.attempts >= MaxCodeAttempts

\* PlanIssue, split into the decision, the bookkeeping it stores and the permission to refill.
CoolingDown(r, now) == r.last # ZeroTime /\ now - r.last < RegenCooldown

WindowOver(r, now) == r.window = ZeroTime \/ now - r.window >= RegenWindow

MayIssue(r, now) ==
    /\ r.locked <= now
    /\ ~CoolingDown(r, now)
    /\ WindowOver(r, now) \/ r.count < MaxRegensPerWindow

Planned(r, now) ==
    [last |-> now,
     window |-> IF WindowOver(r, now) THEN now ELSE r.window,
     count |-> IF WindowOver(r, now) THEN 1 ELSE r.count + 1]

RefillsBudget(r) == r.locked # ZeroTime

-----------------------------------------------------------------------------
(* Single-document updates *)

ConsumeTry(r) == [r EXCEPT !.attempts = @ + 1]

\* Mutant of ClearBudget: hand back the one try instead of resetting the counter.
ClearBudget_RefundsOneTry(r) == IF r = NoCode THEN r ELSE [r EXCEPT !.attempts = @ - 1, !.locked = ZeroTime]

ClearBudget(r) == IF r = NoCode THEN r ELSE [r EXCEPT !.attempts = 0, !.locked = ZeroTime]

LockCode(r, until) == IF r = NoCode THEN r ELSE [r EXCEPT !.code = Blank, !.locked = until]

\* The caller saw no code: the whole sub-document is written, whatever is stored by now.
FirstIssue(code, at, plan) ==
    [code |-> code, expiry |-> at + CodeTTL, attempts |-> 0, locked |-> ZeroTime,
     last |-> plan.last, window |-> plan.window, count |-> plan.count]

\* Mutant of ReIssue: a resend starts a new attempt budget.
ReIssue_AlwaysRefills(r, code, at, plan, refill) ==
    [FirstIssue(code, at, plan) EXCEPT !.locked = r.locked]

\* The caller saw a code: a dotted update that keeps attempts unless the plan refills them.
ReIssue(r, code, at, plan, refill) ==
    [code |-> code, expiry |-> at + CodeTTL,
     attempts |-> IF refill THEN 0 ELSE r.attempts,
     locked |-> IF refill THEN ZeroTime ELSE r.locked,
     last |-> plan.last, window |-> plan.window, count |-> plan.count]

=============================================================================
