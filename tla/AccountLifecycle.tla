--------------------------- MODULE AccountLifecycle ---------------------------
(***************************************************************************)
(* The life of the account behind one e-mail address: signup, confirmation,*)
(* login, password reset, token refresh, Google sign-in, the steps that     *)
(* complete a registration, and the admin's status changes                  *)
(* (services/auth.go, services/admin_users_write.go).  Each request reads   *)
(* the user document, decides on what it read and stores it later; nothing  *)
(* is locked in between.  Updates by e-mail reach whatever account has the  *)
(* address by then, updates by external id only the account that was read.  *)
(*                                                                         *)
(* The expiry, the lockout and the budget of the e-mailed codes are the     *)
(* subject of CodePolicy and ResetPassword: here a code is pending or not,  *)
(* and whoever reads the mailbox can give it.  Suspended stands for         *)
(* Suspended and Deactivated, coach for coach and nutritionist.             *)
(***************************************************************************)
EXTENDS Integers

CONSTANTS
    Requests,      \* requests that may be in flight at the same time
    MaxSerials     \* bound on the accounts created for the address and the passwords chosen

ASSUME AccountLifecycleAssumption == MaxSerials \in Nat

VARIABLES
    acc,        \* the user document with this e-mail, NoAccount when there is none
    ids,        \* external ids generated so far
    passwords,  \* passwords chosen so far
    req,        \* the next step of each request and what it read
    vouched,    \* history: the owner of the mailbox, or an admin, stood for the address
    wiped       \* history: passwords of unconfirmed accounts that a Google sign-in took over

vars == <<acc, ids, passwords, req, vouched, wiped>>

Roles == {"coach", "client", "gym_owner"}

Inactive == {"Blocked", "Suspended"}

Onboarding == {"ComReg1", "ComReg2", "ComReg3"}

Usable == Onboarding \cup {"Active"}

Statuses == {"ToConfirm"} \cup Usable \cup Inactive

\* none is the null sub-document, blank one whose code is the empty string.
Codes == {"none", "blank", "pending"}

\* password 0: empty, or random and thrown away.  access and refresh: the tokens are stored.
Account == [id : Nat, role : Roles, status : Statuses, verified : BOOLEAN, confirm : Codes,
            reset : Codes, password : Nat, access : BOOLEAN, refresh : BOOLEAN]

NoAccount == [id |-> 0, role |-> "coach", status |-> "ToConfirm", verified |-> FALSE,
              confirm |-> "none", reset |-> "none", password |-> 0,
              access |-> FALSE, refresh |-> FALSE]

Steps == {"idle", "signupCreate", "signupResend", "issueConfirm", "confirmCode", "confirmStore",
          "loginStore", "issueReset", "resetCode", "resetStore", "refreshStore",
          "googleCreate", "googleWipe", "googleStore", "ownerCreate", "updateStore", "statusStore"}

Request == [pc : Steps, snap : Account]

Idle == [pc |-> "idle", snap |-> NoAccount]

Exists == acc.id # 0

TypeOK ==
    /\ acc \in Account
    /\ ids \in Nat
    /\ passwords \in Nat
    /\ req \in [Requests -> Request]
    /\ vouched \in BOOLEAN
    /\ wiped \subseteq Nat
    /\ ~Exists => acc = NoAccount
    /\ \A q \in Requests : req[q].snap.id <= ids

Init ==
    /\ acc = NoAccount
    /\ ids = 0
    /\ passwords = 0
    /\ req = [q \in Requests |-> Idle]
    /\ vouched = FALSE
    /\ wiped = {}

At(q, step) == req[q].pc = step

Snap(q) == req[q].snap

\* The request goes on with what it has just read.
Go(q, step, snap) == req' = [req EXCEPT ![q] = [pc |-> step, snap |-> snap]]

End(q) == req' = [req EXCEPT ![q] = Idle]

\* Mutant of UpdateByEmail: an update that matches no document inserts one.
UpdateByEmail_Upserts(new) == acc' = new

\* An update by e-mail, and one by the external id of the account that was read.
UpdateByEmail(new) == acc' = IF Exists THEN new ELSE acc

UpdateById(q, new) == acc' = IF acc.id = Snap(q).id THEN new ELSE acc

\* InsertOne under the unique e-mail index: a duplicate is refused, and what was generated for it
\* is never seen again.
CreateUser(new) ==
    /\ acc' = IF Exists THEN acc ELSE new
    /\ ids' = IF Exists THEN ids ELSE ids + 1

\* A password that was never used before.
NewPassword(stored) == passwords' = IF stored THEN passwords + 1 ELSE passwords

\* Bound: n more serials.
Room(n) == ids + passwords + n <= MaxSerials

FirstStatus(role) == IF role = "coach" THEN "ComReg1" ELSE "Active"

\* ValidateAndRefreshTokens: a valid access token is kept with whatever refresh token there is,
\* otherwise a new access token is minted and, where needed, a refresh token.
TokensFor(snap) ==
    {[snap EXCEPT !.access = TRUE, !.refresh = TRUE]} \cup (IF snap.access THEN {snap} ELSE {})

-----------------------------------------------------------------------------
(* Register and RegisterViaLink *)

\* EmailExists.
SignupCheck(q) ==
    /\ At(q, "idle")
    /\ Go(q, IF Exists THEN "signupResend" ELSE "signupCreate", NoAccount)
    /\ UNCHANGED <<acc, ids, passwords, vouched, wiped>>

SignupCreate(q, role) ==
    /\ At(q, "signupCreate")
    /\ Exists \/ Room(2)
    /\ NewPassword(~Exists)
    /\ CreateUser([id |-> ids + 1, role |-> role, status |-> "ToConfirm", verified |-> FALSE,
                   confirm |-> "pending", reset |-> "none", password |-> passwords + 1,
                   access |-> TRUE, refresh |-> TRUE])
    /\ End(q)
    /\ UNCHANGED <<vouched, wiped>>

\* GetByEmailToConfirm for a known address: only an account still to confirm gets a new code;
\* RegisterViaLink refuses at once.
SignupResend(q) ==
    /\ At(q, "signupResend")
    /\ IF Exists /\ ~acc.verified /\ acc.status = "ToConfirm"
         THEN Go(q, "issueConfirm", [NoAccount EXCEPT !.confirm = acc.confirm])
         ELSE End(q)
    /\ UNCHANGED <<acc, ids, passwords, vouched, wiped>>

-----------------------------------------------------------------------------
(* Confirm and ResendConfirmEmail *)

\* Both read the account with GetByEmailToConfirm, which refuses verified ones.  A missing or
\* expired code, and a resend, lead to a new code, anything else to the check of the code.
ConfirmRead(q) ==
    /\ At(q, "idle")
    /\ Exists /\ ~acc.verified /\ acc.role # "gym_owner"
    /\ \/ Go(q, "issueConfirm", [NoAccount EXCEPT !.confirm = acc.confirm])
       \/ /\ acc.confirm # "none"
          /\ Go(q, "confirmCode", [NoAccount EXCEPT !.role = acc.role, !.confirm = acc.confirm])
    /\ UNCHANGED <<acc, ids, passwords, vouched, wiped>>

\* IssueConfirmCode: a null sub-document takes no dotted update.  A refusal by the policy or by a
\* concurrent issue ends the request like Abort.
IssueConfirm(q) ==
    /\ At(q, "issueConfirm")
    /\ Snap(q).confirm = "none" \/ acc.confirm # "none"
    /\ UpdateByEmail([acc EXCEPT !.confirm = "pending"])
    /\ End(q)
    /\ UNCHANGED <<ids, passwords, vouched, wiped>>

\* checkConfirmCode accepts the code that is stored by now.
ConfirmCode(q) ==
    /\ At(q, "confirmCode")
    /\ acc.confirm = "pending"
    /\ vouched' = TRUE
    /\ Go(q, "confirmStore", Snap(q))
    /\ UNCHANGED <<acc, ids, passwords, wiped>>

\* UpdateConfirmationCode stores the new status and puts back the code that was read.
ConfirmStore(q) ==
    /\ At(q, "confirmStore")
    /\ UpdateByEmail([acc EXCEPT !.status = FirstStatus(Snap(q).role), !.verified = TRUE,
                                 !.confirm = Snap(q).confirm])
    /\ End(q)
    /\ UNCHANGED <<ids, passwords, vouched, wiped>>

\* The last wrong guess blanks the code.
LockConfirmCode ==
    /\ acc.confirm = "pending"
    /\ acc' = [acc EXCEPT !.confirm = "blank"]
    /\ UNCHANGED <<ids, passwords, req, vouched, wiped>>

-----------------------------------------------------------------------------
(* TryToConnect *)

\* Mutant of LoginRead: an account still to confirm is let in.
LoginRead_Unconfirmed(q) ==
    /\ At(q, "idle")
    /\ Exists
    /\ acc.status \notin Inactive
    /\ acc.password # 0
    /\ Go(q, "loginStore", [acc EXCEPT !.id = 0, !.role = NoAccount.role])
    /\ UNCHANGED <<acc, ids, passwords, vouched, wiped>>

\* The whole document is read, and the right password is given.  The id and the role, which Update
\* does not write, are dropped.
LoginRead(q) ==
    /\ At(q, "idle")
    /\ Exists
    /\ acc.status \notin Inactive \cup {"ToConfirm"}
    /\ acc.password # 0
    /\ Go(q, "loginStore", [acc EXCEPT !.id = 0, !.role = NoAccount.role])
    /\ UNCHANGED <<acc, ids, passwords, vouched, wiped>>

\* Update writes back the status, the codes, the password and the tokens.
LoginStore(q) ==
    /\ At(q, "loginStore")
    /\ \E new \in TokensFor(Snap(q)) :
         UpdateByEmail([new EXCEPT !.id = acc.id, !.role = acc.role])
    /\ End(q)
    /\ UNCHANGED <<ids, passwords, vouched, wiped>>

-----------------------------------------------------------------------------
(* InitResetPassword, ConfirmResetPassword *)

\* GetByEmailToResetPassword refuses blocked accounts only.
ResetRead(q) ==
    /\ At(q, "idle")
    /\ Exists /\ acc.status # "Blocked"
    /\ \/ Go(q, "issueReset", [NoAccount EXCEPT !.reset = acc.reset])
       \/ Go(q, "resetCode", NoAccount)
    /\ UNCHANGED <<acc, ids, passwords, vouched, wiped>>

IssueReset(q) ==
    /\ At(q, "issueReset")
    /\ Snap(q).reset = "none" \/ acc.reset # "none"
    /\ UpdateByEmail([acc EXCEPT !.reset = "pending"])
    /\ End(q)
    /\ UNCHANGED <<ids, passwords, vouched, wiped>>

ResetCode(q) ==
    /\ At(q, "resetCode")
    /\ acc.reset = "pending"
    /\ vouched' = TRUE
    /\ Go(q, "resetStore", NoAccount)
    /\ UNCHANGED <<acc, ids, passwords, wiped>>

ResetStore(q) ==
    /\ At(q, "resetStore")
    /\ Exists => Room(1)
    /\ NewPassword(Exists)
    /\ UpdateByEmail([acc EXCEPT !.password = passwords + 1, !.reset = "none"])
    /\ End(q)
    /\ UNCHANGED <<ids, vouched, wiped>>

LockResetCode ==
    /\ acc.reset = "pending"
    /\ acc' = [acc EXCEPT !.reset = "blank"]
    /\ UNCHANGED <<ids, passwords, req, vouched, wiped>>

-----------------------------------------------------------------------------
(* RefreshToken *)

\* The given refresh token is the stored one, and the account is not inactive.
RefreshRead(q) ==
    /\ At(q, "idle")
    /\ acc.refresh /\ acc.status \notin Inactive
    /\ Go(q, "refreshStore", [NoAccount EXCEPT !.id = acc.id])
    /\ UNCHANGED <<acc, ids, passwords, vouched, wiped>>

RefreshStore(q) ==
    /\ At(q, "refreshStore")
    /\ UpdateById(q, [acc EXCEPT !.access = TRUE])
    /\ End(q)
    /\ UNCHANGED <<ids, passwords, vouched, wiped>>

-----------------------------------------------------------------------------
(* Google sign-in *)

PendingCode(a) == a.confirm = "pending" \/ a.reset = "pending"

\* oauthLinkPlan: an account to confirm, or with a pending code, is taken over.
TakesOver(a) == a.status = "ToConfirm" \/ PendingCode(a)

NewStatus(a) == IF a.status = "ToConfirm" THEN FirstStatus(a.role) ELSE a.status

\* The identity token proves that the caller owns the mailbox.
GoogleRead(q) ==
    /\ At(q, "idle")
    /\ acc.status \notin Inactive
    /\ vouched' = TRUE
    /\ CASE ~Exists -> Go(q, "googleCreate", NoAccount)
         [] Exists /\ TakesOver(acc) ->
              Go(q, "googleWipe", [NoAccount EXCEPT !.role = acc.role, !.status = acc.status,
                                     !.verified = acc.verified, !.reset = acc.reset])
         [] Exists /\ ~TakesOver(acc) ->
              Go(q, "googleStore", [NoAccount EXCEPT !.access = acc.access, !.refresh = acc.refresh])
    /\ UNCHANGED <<acc, ids, passwords, wiped>>

\* createNewOAuthUser: the account starts without a password and is not marked as verified.
GoogleCreate(q, role) ==
    /\ At(q, "googleCreate")
    /\ Exists \/ Room(1)
    /\ CreateUser([id |-> ids + 1, role |-> role, status |-> FirstStatus(role), verified |-> FALSE,
                   confirm |-> "blank", reset |-> "none", password |-> 0,
                   access |-> TRUE, refresh |-> TRUE])
    /\ End(q)
    /\ UNCHANGED <<passwords, vouched, wiped>>

\* What ResetUnverifiedForOAuth leaves of an account.
Wiped(a, status) ==
    [a EXCEPT !.password = 0, !.confirm = "none", !.reset = "none", !.access = FALSE,
              !.refresh = FALSE, !.verified = TRUE, !.status = status]

\* ResetUnverifiedForOAuth, by e-mail, with the status planned from what was read; the request
\* forgets the tokens it read as well.
GoogleWipe(q) ==
    /\ At(q, "googleWipe")
    /\ IF Exists
         THEN /\ acc' = Wiped(acc, NewStatus(Snap(q)))
              /\ wiped' = IF acc.status = "ToConfirm" THEN wiped \cup ({acc.password} \ {0}) ELSE wiped
              /\ Go(q, "googleStore", NoAccount)
         ELSE UNCHANGED <<acc, wiped>> /\ End(q)
    /\ UNCHANGED <<ids, passwords, vouched>>

\* UpdateUserProviders links the identity and stores the tokens.
GoogleStore(q) ==
    /\ At(q, "googleStore")
    /\ \E new \in TokensFor(Snap(q)) :
         UpdateByEmail([acc EXCEPT !.access = new.access, !.refresh = new.refresh])
    /\ End(q)
    /\ UNCHANGED <<ids, passwords, vouched, wiped>>

-----------------------------------------------------------------------------
(* Admin operations, onboarding and deletion *)

\* CreateGymOwnerAccount; the admin's mail goes through InitResetPassword.
OwnerCheck(q) ==
    /\ At(q, "idle")
    /\ ~Exists
    /\ Go(q, "ownerCreate", NoAccount)
    /\ UNCHANGED <<acc, ids, passwords, vouched, wiped>>

OwnerCreate(q) ==
    /\ At(q, "ownerCreate")
    /\ Exists \/ Room(1)
    /\ vouched' = TRUE
    /\ CreateUser([id |-> ids + 1, role |-> "gym_owner", status |-> "Active", verified |-> TRUE,
                   confirm |-> "none", reset |-> "none", password |-> 0,
                   access |-> FALSE, refresh |-> FALSE])
    /\ End(q)
    /\ UNCHANGED <<passwords, wiped>>

\* UpdateUserStatus by an admin loads the account ...
StatusRead(q) ==
    /\ At(q, "idle")
    /\ Exists
    /\ \E s \in (Inactive \cup {"Active"}) \ {acc.status} :
         Go(q, "statusStore", [NoAccount EXCEPT !.id = acc.id, !.status = s])
    /\ UNCHANGED <<acc, ids, passwords, vouched, wiped>>

\* ... and UpdateStatusAndRevoke stores the new status; any but Active loses the tokens.
StatusStore(q) ==
    /\ At(q, "statusStore")
    /\ LET s == Snap(q).status
           keep == s = "Active"
       IN  /\ UpdateById(q, [acc EXCEPT !.status = s, !.access = @ /\ keep, !.refresh = @ /\ keep])
           /\ vouched' = (vouched \/ keep)
    /\ End(q)
    /\ UNCHANGED <<ids, passwords, wiped>>

NextStep(s) ==
    CASE s = "ComReg1" -> "ComReg2"
      [] s = "ComReg2" -> "ComReg3"
      [] s = "ComReg3" -> "Active"

\* UpdateUser advances the onboarding when the client names the status that was read.
UpdateRead(q) ==
    /\ At(q, "idle")
    /\ acc.status \in Onboarding
    /\ Go(q, "updateStore", [NoAccount EXCEPT !.id = acc.id, !.status = acc.status])
    /\ UNCHANGED <<acc, ids, passwords, vouched, wiped>>

UpdateStore(q) ==
    /\ At(q, "updateStore")
    /\ UpdateById(q, [acc EXCEPT !.status = NextStep(Snap(q).status)])
    /\ End(q)
    /\ UNCHANGED <<ids, passwords, vouched, wiped>>

DeleteUser ==
    /\ Exists
    /\ acc' = NoAccount
    /\ UNCHANGED <<ids, passwords, req, vouched, wiped>>

\* A refusal further on, a database error, a cancelled request or a crash.
Abort(q) ==
    /\ ~At(q, "idle")
    /\ End(q)
    /\ UNCHANGED <<acc, ids, passwords, vouched, wiped>>

-----------------------------------------------------------------------------

Signup(q) ==
    SignupCheck(q) \/ SignupResend(q) \/ \E role \in {"coach", "client"} : SignupCreate(q, role)

Confirm(q) == ConfirmRead(q) \/ IssueConfirm(q) \/ ConfirmCode(q) \/ ConfirmStore(q)

SignIn(q) == LoginRead(q) \/ LoginStore(q) \/ RefreshRead(q) \/ RefreshStore(q)

Reset(q) == ResetRead(q) \/ IssueReset(q) \/ ResetCode(q) \/ ResetStore(q)

Google(q) ==
    \/ GoogleRead(q) \/ GoogleWipe(q) \/ GoogleStore(q)
    \/ \E role \in {"coach", "client"} : GoogleCreate(q, role)

Administer(q) ==
    OwnerCheck(q) \/ OwnerCreate(q) \/ StatusRead(q) \/ StatusStore(q)

Onboard(q) == UpdateRead(q) \/ UpdateStore(q)

Next ==
    \/ LockConfirmCode \/ LockResetCode \/ DeleteUser
    \/ \E q \in Requests :
         \/ Signup(q) \/ Confirm(q) \/ SignIn(q) \/ Reset(q) \/ Google(q)
         \/ Administer(q) \/ Onboard(q) \/ Abort(q)

Spec == Init /\ [][Next]_vars

-----------------------------------------------------------------------------
(* Properties *)

\* Nobody signs in, and no account is usable, before the owner of the mailbox (a confirmation or
\* reset code, a Google identity) or an admin stood for the address, whatever stale requests
\* store over it: "The account is unconfirmed, so no session tokens are handed out".
VouchedBeforeUse ==
    /\ Exists /\ acc.status \in Usable => vouched
    /\ \A q \in Requests : At(q, "loginStore") => vouched

\* The password of an unconfirmed account that a Google sign-in took over never comes back, not
\* even through the write-back of a login in flight: "the password hash, codes and sessions are
\* wiped before the provider identity is linked" (oauthLinkPlan).
WipedStaysWiped == acc.password \notin wiped

=============================================================================
