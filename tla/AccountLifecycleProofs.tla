----------------------- MODULE AccountLifecycleProofs -----------------------
(***************************************************************************)
(* What holds of AccountLifecycle for any number of concurrent requests and *)
(* of accounts: its state is well typed, no account is used before its     *)
(* mailbox is vouched for, and a wiped password stays wiped.                *)
(***************************************************************************)
EXTENDS AccountLifecycle, TLAPS

USE AccountLifecycleAssumption

-----------------------------------------------------------------------------
(* The inductive invariant *)

Typed ==
    /\ acc \in Account
    /\ ids \in Nat
    /\ passwords \in Nat
    /\ req \in [Requests -> Request]
    /\ vouched \in BOOLEAN
    /\ wiped \subseteq 1 .. passwords

\* The stored account.
AccountInv ==
    /\ ~Exists => acc = NoAccount
    /\ acc.id <= ids /\ acc.password <= passwords
    /\ acc.password \notin wiped
    /\ acc.status \in Usable => vouched

\* Whoever stores a usable status, and every login, acts for an address that was vouched for.
Vouching == {"confirmStore", "resetStore", "loginStore", "updateStore",
             "googleCreate", "googleWipe", "googleStore"}

\* A login in flight never holds the password of an account that is still to confirm.
LoginInv(q) ==
    /\ Snap(q).status \in Usable
    /\ Snap(q).password \notin wiped \cup {0}
    /\ acc.status = "ToConfirm" => Snap(q).password # acc.password

\* What a request in flight holds.
RequestInv(q) ==
    /\ Snap(q).id <= ids /\ Snap(q).password <= passwords
    /\ req[q].pc \in Vouching => vouched
    /\ req[q].pc \in {"refreshStore", "updateStore", "statusStore"} => Snap(q).id # 0
    /\ At(q, "updateStore") => Snap(q).status \in Onboarding
    /\ At(q, "statusStore") => Snap(q).status \in Inactive \cup {"Active"}
    /\ At(q, "googleWipe") => Snap(q).status \notin Inactive
    /\ At(q, "loginStore") => LoginInv(q)

Inv == Typed /\ AccountInv /\ \A q \in Requests : RequestInv(q)

\* A condition under which the logins in flight stay clear of the account that is stored now: it
\* is not to confirm, or its password is no older than they are, or it is the one it was.
ClearOfLogins ==
    \/ acc'.status # "ToConfirm"
    \/ acc'.password = 0
    \/ acc'.password > passwords
    \/ acc'.status = acc.status /\ acc'.password = acc.password

-----------------------------------------------------------------------------
(* The two kinds of steps: a request reads, or it stores and ends *)

LEMMA IdleRequest == Idle \in Request
BY DEF Idle, Request, Steps, NoAccount, Account, Roles, Statuses, Codes

LEMMA NoAccountFacts ==
    /\ NoAccount \in Account
    /\ NoAccount.id = 0 /\ NoAccount.password = 0 /\ NoAccount.status = "ToConfirm"
BY DEF NoAccount, Account, Roles, Statuses, Codes

\* A step of q that leaves the stored account as it is.
LEMMA ReadStep ==
    ASSUME Inv, NEW q \in Requests, NEW r \in Request, req' = [req EXCEPT ![q] = r],
           UNCHANGED <<acc, ids, passwords, wiped>>, vouched' \in BOOLEAN, vouched => vouched',
           RequestInv(q)'
    PROVE  Inv'
<1>1. Typed'
  BY DEF Inv, Typed
<1>2. AccountInv'
  BY DEF Inv, Typed, AccountInv, Exists
<1>3. ASSUME NEW p \in Requests \ {q}
      PROVE  RequestInv(p)'
  <2>1. RequestInv(p) /\ req'[p] = req[p]
    BY DEF Inv, Typed
  <2>. QED
    BY <2>1 DEF RequestInv, LoginInv, At, Snap
<1>. QED
  BY <1>1, <1>2, <1>3 DEF Inv

\* A step of q that stores an account and ends the request.
LEMMA StoreStep ==
    ASSUME Inv, NEW q \in Requests, End(q),
           acc' \in Account, AccountInv',
           ids' \in Nat, ids' >= ids, passwords' \in Nat, passwords' >= passwords,
           wiped' = wiped, vouched' \in BOOLEAN, vouched => vouched',
           ClearOfLogins
    PROVE  Inv'
<1>1. Typed'
  BY IdleRequest DEF Inv, Typed, End
<1>2. RequestInv(q)'
  <2>1. req'[q] = Idle
    BY DEF End, Inv, Typed
  <2>. QED
    BY <2>1, <1>1, NoAccountFacts DEF RequestInv, At, Snap, Idle, Typed, Vouching
<1>3. ASSUME NEW p \in Requests \ {q}
      PROVE  RequestInv(p)'
  <2>1. RequestInv(p) /\ req'[p] = req[p] /\ Snap(p) \in Account
    BY DEF Inv, Typed, End, Snap, Request
  <2>2. At(p, "loginStore") => LoginInv(p)'
    BY <2>1 DEF RequestInv, LoginInv, At, Snap, ClearOfLogins, Account, Inv, Typed
  <2>. QED
    BY <2>1, <2>2 DEF RequestInv, At, Snap, Account, Inv, Typed
<1>. QED
  BY <1>1, <1>2, <1>3 DEF Inv

\* A step that changes the account while no request moves.
LEMMA AccountStep ==
    ASSUME Inv, UNCHANGED <<ids, passwords, req, vouched, wiped>>,
           acc' \in Account, AccountInv', ClearOfLogins
    PROVE  Inv'
<1>1. Typed'
  BY DEF Inv, Typed
<1>2. ASSUME NEW p \in Requests
      PROVE  RequestInv(p)'
  <2>1. RequestInv(p) /\ Snap(p) \in Account
    BY DEF Inv, Typed, Snap, Request
  <2>2. At(p, "loginStore") => LoginInv(p)'
    BY <2>1 DEF RequestInv, LoginInv, At, Snap, ClearOfLogins, Account, Inv, Typed
  <2>. QED
    BY <2>1, <2>2 DEF RequestInv, At, Snap, Account, Inv, Typed
<1>. QED
  BY <1>1, <1>2 DEF Inv

\* A request that ends, or goes on with a snapshot, without touching the account.
LEMMA EndStep ==
    ASSUME Inv, NEW q \in Requests, End(q), UNCHANGED <<acc, ids, passwords, vouched, wiped>>
    PROVE  Inv'
BY StoreStep DEF Inv, Typed, AccountInv, Exists, ClearOfLogins

LEMMA GoStep ==
    ASSUME Inv, NEW q \in Requests, NEW step \in Steps \ {"updateStore", "statusStore", "loginStore"},
           NEW snap \in Account, Go(q, step, snap),
           UNCHANGED <<acc, ids, passwords, wiped>>, vouched' \in BOOLEAN, vouched => vouched',
           step \in Vouching => vouched', step = "refreshStore" => snap.id # 0,
           step = "googleWipe" => snap.status \notin Inactive,
           snap.id <= ids, snap.password <= passwords
    PROVE  Inv'
<1> DEFINE r == [pc |-> step, snap |-> snap]
<1>1. r \in Request /\ req' = [req EXCEPT ![q] = r] /\ req'[q] = r
  BY DEF Request, Go, Inv, Typed
<1>2. RequestInv(q)'
  BY <1>1 DEF RequestInv, At, Snap
<1>. QED
  BY <1>1, <1>2, ReadStep

-----------------------------------------------------------------------------
(* One lemma per group of requests *)

\* What the reads take over from the stored account.
LEMMA AccountFacts ==
    ASSUME Inv
    PROVE  /\ acc \in Account /\ ids \in Nat /\ passwords \in Nat
           /\ acc.id \in Nat /\ acc.password \in Nat /\ acc.id <= ids /\ acc.password <= passwords
           /\ acc.role \in Roles /\ acc.status \in Statuses /\ acc.verified \in BOOLEAN
           /\ acc.confirm \in Codes /\ acc.reset \in Codes
           /\ acc.access \in BOOLEAN /\ acc.refresh \in BOOLEAN
           /\ vouched \in BOOLEAN
BY DEF Inv, Typed, AccountInv, Account

\* A new account, or the old one when the address is taken.
LEMMA CreateStep ==
    ASSUME Inv, NEW q \in Requests, NEW new \in Account, CreateUser(new), End(q),
           new.id = ids + 1, new.status \in Usable => vouched',
           \/ new.password = 0 /\ passwords' = passwords
           \/ new.password = passwords + 1 /\ NewPassword(~Exists),
           wiped' = wiped, vouched' \in BOOLEAN, vouched => vouched'
    PROVE  Inv'
<1>1. CASE Exists
  BY <1>1, StoreStep DEF Inv, Typed, AccountInv, Exists, ClearOfLogins, CreateUser, NewPassword
<1>2. CASE ~Exists
  <2>1. acc' = new /\ ids' = ids + 1 /\ passwords' >= passwords /\ passwords' \in Nat
        /\ new.password <= passwords' /\ new.password \in Nat
    BY <1>2 DEF CreateUser, NewPassword, Account, Inv, Typed
  <2>2. new.password \notin wiped
    BY DEF Inv, Typed
  <2>3. AccountInv'
    BY <2>1, <2>2 DEF AccountInv, Exists, Inv, Typed
  <2>4. ClearOfLogins
    BY <2>1 DEF ClearOfLogins, Inv, Typed
  <2>. QED
    BY <2>1, <2>3, <2>4, StoreStep DEF Inv, Typed
<1>. QED
  BY <1>1, <1>2

\* An update of the account by e-mail that keeps its id.
LEMMA UpdateStep ==
    ASSUME Inv, NEW q \in Requests, NEW new \in Account, UpdateByEmail(new), End(q),
           new.id = acc.id, new.status \in Usable => vouched',
           \/ new.password = acc.password /\ new.status = acc.status
           \/ new.status # "ToConfirm" /\ new.password \notin wiped /\ new.password <= passwords,
           UNCHANGED <<ids, passwords, wiped>>, vouched' \in BOOLEAN, vouched => vouched'
    PROVE  Inv'
<1>1. CASE Exists
  <2>1. acc' = new
    BY <1>1 DEF UpdateByEmail
  <2>2. AccountInv'
    BY <1>1, <2>1 DEF AccountInv, Exists, Inv, Typed
  <2>3. ClearOfLogins
    BY <2>1 DEF ClearOfLogins
  <2>. QED
    BY <2>1, <2>2, <2>3, StoreStep DEF Inv, Typed
<1>2. CASE ~Exists
  BY <1>2, StoreStep DEF Inv, Typed, AccountInv, Exists, ClearOfLogins, UpdateByEmail
<1>. QED
  BY <1>1, <1>2

\* The same by external id.
LEMMA UpdateByIdStep ==
    ASSUME Inv, NEW q \in Requests, NEW new \in Account, UpdateById(q, new), End(q),
           Snap(q).id # 0, new.id = acc.id, new.status \in Usable => vouched',
           new.password = acc.password, new.status = acc.status \/ new.status # "ToConfirm",
           UNCHANGED <<ids, passwords, wiped>>, vouched' \in BOOLEAN, vouched => vouched'
    PROVE  Inv'
<1>1. (acc' = new /\ Exists) \/ acc' = acc
  BY DEF UpdateById, Exists
<1>2. AccountInv'
  BY <1>1 DEF AccountInv, Exists, Inv, Typed
<1>3. ClearOfLogins
  BY <1>1 DEF ClearOfLogins
<1>. QED
  BY <1>1, <1>2, <1>3, StoreStep DEF Inv, Typed

LEMMA SignupPreserves ==
    ASSUME Inv, NEW q \in Requests, Signup(q)
    PROVE  Inv'
<1>1. CASE SignupCheck(q)
  BY <1>1, GoStep, NoAccountFacts, AccountFacts DEF SignupCheck, Steps, Vouching
<1>2. CASE SignupResend(q)
  <2> DEFINE snap == [NoAccount EXCEPT !.confirm = acc.confirm]
  <2>1. snap \in Account /\ snap.id = 0 /\ snap.password = 0
    BY NoAccountFacts, AccountFacts DEF Account
  <2>2. CASE Go(q, "issueConfirm", snap)
    <3>1. UNCHANGED <<acc, ids, passwords, vouched, wiped>>
      BY <1>2 DEF SignupResend
    <3>. HIDE DEF snap
    <3>. QED
      BY <2>1, <2>2, <3>1, GoStep, AccountFacts DEF Steps, Vouching
  <2>3. CASE End(q)
    BY <1>2, <2>3, EndStep DEF SignupResend
  <2>. QED
    BY <1>2, <2>2, <2>3 DEF SignupResend
<1>3. ASSUME NEW role \in {"coach", "client"}, SignupCreate(q, role)
      PROVE  Inv'
  <2> DEFINE new == [id |-> ids + 1, role |-> role, status |-> "ToConfirm", verified |-> FALSE,
                     confirm |-> "pending", reset |-> "none", password |-> passwords + 1,
                     access |-> TRUE, refresh |-> TRUE]
  <2>1. new \in Account
    BY AccountFacts DEF Account, Roles, Statuses, Codes
  <2>2. CreateUser(new) /\ End(q) /\ NewPassword(~Exists) /\ UNCHANGED <<vouched, wiped>>
    BY <1>3 DEF SignupCreate
  <2>3. new.id = ids + 1 /\ new.password = passwords + 1 /\ new.status \notin Usable
    BY DEF Usable, Onboarding
  <2>. QED
    BY <2>1, <2>2, <2>3, CreateStep, AccountFacts
<1>. QED
  BY <1>1, <1>2, <1>3 DEF Signup

LEMMA ConfirmPreserves ==
    ASSUME Inv, NEW q \in Requests, Confirm(q)
    PROVE  Inv'
<1>1. CASE ConfirmRead(q)
  <2> DEFINE issue == [NoAccount EXCEPT !.confirm = acc.confirm]
             check == [NoAccount EXCEPT !.role = acc.role, !.confirm = acc.confirm]
  <2>1. /\ issue \in Account /\ issue.id = 0 /\ issue.password = 0
        /\ check \in Account /\ check.id = 0 /\ check.password = 0
    BY NoAccountFacts, AccountFacts DEF Account
  <2>2. Go(q, "issueConfirm", issue) \/ Go(q, "confirmCode", check)
    BY <1>1 DEF ConfirmRead
  <2>3. UNCHANGED <<acc, ids, passwords, vouched, wiped>>
    BY <1>1 DEF ConfirmRead
  <2>. HIDE DEF issue, check
  <2>. QED
    BY <2>1, <2>2, <2>3, GoStep, AccountFacts DEF Steps, Vouching
<1>2. CASE IssueConfirm(q)
  <2> DEFINE new == [acc EXCEPT !.confirm = "pending"]
  <2>1. new \in Account /\ new.id = acc.id /\ new.password = acc.password /\ new.status = acc.status
    BY AccountFacts DEF Account, Codes
  <2>2. new.status \in Usable => vouched'
    BY <1>2, <2>1 DEF IssueConfirm, Inv, AccountInv
  <2>. QED
    BY <1>2, <2>1, <2>2, UpdateStep, AccountFacts DEF IssueConfirm
<1>3. CASE ConfirmCode(q)
  <2>1. Snap(q) \in Account /\ Snap(q).id <= ids /\ Snap(q).password <= passwords
    BY DEF Inv, Typed, RequestInv, Snap, Request
  <2>. QED
    BY <1>3, <2>1, GoStep DEF ConfirmCode, Steps, Vouching
<1>4. CASE ConfirmStore(q)
  <2> DEFINE new == [acc EXCEPT !.status = FirstStatus(Snap(q).role), !.verified = TRUE,
                                !.confirm = Snap(q).confirm]
  <2>1. new \in Account /\ new.id = acc.id /\ new.password = acc.password /\ new.status # "ToConfirm"
    BY AccountFacts DEF Account, Statuses, Usable, Onboarding, FirstStatus, Inv, Typed, Snap, Request
  <2>2. vouched
    BY <1>4 DEF ConfirmStore, At, Inv, RequestInv, Vouching
  <2>. QED
    BY <1>4, <2>1, <2>2, UpdateStep, AccountFacts DEF ConfirmStore, Inv, AccountInv
<1>. QED
  BY <1>1, <1>2, <1>3, <1>4 DEF Confirm

LEMMA SignInPreserves ==
    ASSUME Inv, NEW q \in Requests, SignIn(q)
    PROVE  Inv'
<1>1. CASE LoginRead(q)
  <2> DEFINE snap == [acc EXCEPT !.id = 0, !.role = NoAccount.role]
             r == [pc |-> "loginStore", snap |-> snap]
  <2>1. /\ snap \in Account /\ snap.id = 0 /\ snap.password = acc.password
        /\ snap.status = acc.status
    BY NoAccountFacts, AccountFacts DEF Account
  <2>2. r \in Request /\ req' = [req EXCEPT ![q] = r] /\ req'[q] = r
    BY <1>1, <2>1 DEF LoginRead, Go, Request, Steps, Inv, Typed
  <2>3. acc.status \in Usable /\ acc.password # 0 /\ UNCHANGED <<acc, ids, passwords, vouched, wiped>>
    BY <1>1, AccountFacts DEF LoginRead, Statuses
  <2>4. vouched /\ acc.password \notin wiped
    BY <2>3 DEF Inv, AccountInv
  <2>5. Snap(q)' = snap /\ req'[q].pc = "loginStore"
    BY <2>2 DEF Snap
  <2>. HIDE DEF snap, r
  <2>6. LoginInv(q)'
    BY <2>1, <2>3, <2>4, <2>5 DEF LoginInv, Usable, Onboarding
  <2>7. RequestInv(q)'
    BY <2>1, <2>3, <2>4, <2>5, <2>6, AccountFacts DEF RequestInv, At
  <2>. QED
    BY <2>2, <2>3, <2>7, ReadStep, AccountFacts
<1>2. CASE LoginStore(q)
  <2>1. /\ Snap(q) \in Account /\ Snap(q).password <= passwords
        /\ Snap(q).status \in Usable /\ Snap(q).password \notin wiped /\ vouched
    BY <1>2 DEF LoginStore, At, Inv, Typed, RequestInv, LoginInv, Snap, Request, Vouching
  <2>2. PICK old \in TokensFor(Snap(q)) : UpdateByEmail([old EXCEPT !.id = acc.id, !.role = acc.role])
    BY <1>2 DEF LoginStore
  <2> DEFINE new == [old EXCEPT !.id = acc.id, !.role = acc.role]
  <2>3. old \in Account /\ old.password = Snap(q).password /\ old.status = Snap(q).status
    BY <2>1 DEF TokensFor, Account
  <2>4. /\ new \in Account /\ new.id = acc.id /\ new.password = Snap(q).password
        /\ new.status \in Usable
    BY <2>1, <2>3, AccountFacts DEF Account
  <2>5. End(q) /\ UNCHANGED <<ids, passwords, vouched, wiped>>
    BY <1>2 DEF LoginStore
  <2>. HIDE DEF new
  <2>. QED
    BY <2>1, <2>2, <2>4, <2>5, UpdateStep, AccountFacts DEF Usable, Onboarding, new
<1>3. CASE RefreshRead(q)
  <2> DEFINE snap == [NoAccount EXCEPT !.id = acc.id]
  <2>1. snap \in Account /\ snap.id = acc.id /\ snap.password = 0
    BY NoAccountFacts, AccountFacts DEF Account
  <2>2. Go(q, "refreshStore", snap) /\ UNCHANGED <<acc, ids, passwords, vouched, wiped>>
    BY <1>3 DEF RefreshRead
  <2>3. snap.id # 0
    BY <1>3, <2>1 DEF RefreshRead, Inv, AccountInv, Exists, NoAccount
  <2>. HIDE DEF snap
  <2>. QED
    BY <2>1, <2>2, <2>3, GoStep, AccountFacts DEF Steps, Vouching
<1>4. CASE RefreshStore(q)
  <2> DEFINE new == [acc EXCEPT !.access = TRUE]
  <2>1. /\ new \in Account /\ new.id = acc.id /\ new.password = acc.password
        /\ new.status = acc.status
    BY AccountFacts DEF Account
  <2>2. /\ UpdateById(q, new) /\ End(q) /\ UNCHANGED <<ids, passwords, vouched, wiped>>
    BY <1>4 DEF RefreshStore
  <2>3. Snap(q).id # 0
    BY <1>4 DEF RefreshStore, At, Inv, RequestInv
  <2>4. new.status \in Usable => vouched'
    BY <2>1, <2>2 DEF Inv, AccountInv
  <2>. HIDE DEF new
  <2>. QED
    BY <2>1, <2>2, <2>3, <2>4, UpdateByIdStep, AccountFacts
<1>. QED
  BY <1>1, <1>2, <1>3, <1>4 DEF SignIn

LEMMA ResetPreserves ==
    ASSUME Inv, NEW q \in Requests, Reset(q)
    PROVE  Inv'
<1>1. CASE ResetRead(q)
  <2> DEFINE issue == [NoAccount EXCEPT !.reset = acc.reset]
  <2>1. issue \in Account /\ issue.id = 0 /\ issue.password = 0
    BY NoAccountFacts, AccountFacts DEF Account
  <2>2. Go(q, "issueReset", issue) \/ Go(q, "resetCode", NoAccount)
    BY <1>1 DEF ResetRead
  <2>3. UNCHANGED <<acc, ids, passwords, vouched, wiped>>
    BY <1>1 DEF ResetRead
  <2>. HIDE DEF issue
  <2>. QED
    BY <2>1, <2>2, <2>3, GoStep, NoAccountFacts, AccountFacts DEF Steps, Vouching
<1>2. CASE IssueReset(q)
  <2> DEFINE new == [acc EXCEPT !.reset = "pending"]
  <2>1. new \in Account /\ new.id = acc.id /\ new.password = acc.password /\ new.status = acc.status
    BY AccountFacts DEF Account, Codes
  <2>2. new.status \in Usable => vouched'
    BY <1>2, <2>1 DEF IssueReset, Inv, AccountInv
  <2>. QED
    BY <1>2, <2>1, <2>2, UpdateStep, AccountFacts DEF IssueReset
<1>3. CASE ResetCode(q)
  BY <1>3, GoStep, NoAccountFacts, AccountFacts DEF ResetCode, Steps, Vouching
<1>4. CASE ResetStore(q)
  <2> DEFINE fresh == passwords + 1
             new == [acc EXCEPT !.password = fresh, !.reset = "none"]
  <2>0. fresh \in Nat /\ fresh = passwords + 1
    BY AccountFacts
  <2>. HIDE DEF fresh
  <2>1. /\ new \in Account /\ new.id = acc.id /\ new.password = passwords + 1
        /\ new.status = acc.status
    BY <2>0, AccountFacts DEF Account, Codes
  <2>2. UpdateByEmail(new) /\ NewPassword(Exists) /\ End(q) /\ UNCHANGED <<ids, vouched, wiped>>
    BY <1>4, <2>0 DEF ResetStore
  <2>. HIDE DEF new
  <2>3. CASE Exists
    <3>1. acc' = new /\ passwords' = passwords + 1
      BY <2>2, <2>3 DEF UpdateByEmail, NewPassword
    <3>2. AccountInv'
      BY <2>1, <2>2, <2>3, <3>1 DEF Inv, Typed, AccountInv, Exists
    <3>3. ClearOfLogins
      BY <2>1, <3>1, AccountFacts DEF ClearOfLogins
    <3>. QED
      BY <2>1, <2>2, <3>1, <3>2, <3>3, StoreStep, AccountFacts
  <2>4. CASE ~Exists
    BY <2>2, <2>4, EndStep DEF UpdateByEmail, NewPassword
  <2>. QED
    BY <2>3, <2>4
<1>. QED
  BY <1>1, <1>2, <1>3, <1>4 DEF Reset

\* The one step that lets wiped grow: the logins in flight are clear of the password it takes.
LEMMA WipePreserves ==
    ASSUME Inv, NEW q \in Requests, GoogleWipe(q)
    PROVE  Inv'
<1>1. CASE ~Exists
  BY <1>1, EndStep DEF GoogleWipe
<1>2. CASE Exists
  <2> DEFINE status == NewStatus(Snap(q))
             r == [pc |-> "googleStore", snap |-> NoAccount]
  <2>1. /\ acc' = Wiped(acc, status) /\ Go(q, "googleStore", NoAccount)
        /\ wiped' = IF acc.status = "ToConfirm" THEN wiped \cup ({acc.password} \ {0}) ELSE wiped
        /\ UNCHANGED <<ids, passwords, vouched>>
    BY <1>2 DEF GoogleWipe
  <2>2. vouched /\ Snap(q) \in Account /\ Snap(q).status \notin Inactive
    BY DEF GoogleWipe, At, Inv, Typed, RequestInv, Snap, Request, Vouching
  <2>3. status \in Usable /\ status \in Statuses /\ status # "ToConfirm"
    BY <2>2 DEF NewStatus, FirstStatus, Account, Statuses, Usable, Onboarding, Inactive
  <2>. HIDE DEF status
  <2>4. /\ acc' \in Account /\ acc'.id = acc.id /\ acc'.password = 0 /\ acc'.status = status
    BY <2>1, <2>3, AccountFacts DEF Wiped, Account, Codes
  <2>5. r \in Request /\ req' = [req EXCEPT ![q] = r]
    BY <2>1, NoAccountFacts DEF Go, Request, Steps
  <2>6. Typed'
    <3>1. wiped' \subseteq 1 .. passwords
      <4>1. wiped' \subseteq wiped \cup ({acc.password} \ {0})
        BY <2>1
      <4>2. acc.password = 0 \/ acc.password \in 1 .. passwords
        BY AccountFacts
      <4>. QED
        BY <4>1, <4>2 DEF Inv, Typed
    <3>2. req' \in [Requests -> Request]
      BY <2>5 DEF Inv, Typed
    <3>. QED
      BY <2>1, <2>4, <3>1, <3>2, AccountFacts DEF Inv, Typed
  <2>7. AccountInv'
    BY <1>2, <2>1, <2>2, <2>4, AccountFacts DEF Inv, Typed, AccountInv, Exists
  <2>8. RequestInv(q)'
    <3>1. req'[q] = r
      BY <2>5 DEF Inv, Typed
    <3>. QED
      BY <2>1, <2>2, <3>1, NoAccountFacts, AccountFacts DEF RequestInv, At, Snap
  <2>9. ASSUME NEW p \in Requests \ {q}
        PROVE  RequestInv(p)'
    <3>1. RequestInv(p) /\ req'[p] = req[p]
      BY <2>5 DEF Inv, Typed
    <3>2. At(p, "loginStore") => LoginInv(p)'
      BY <2>1, <2>3, <2>4, <3>1 DEF RequestInv, LoginInv, At, Snap
    <3>. QED
      BY <2>1, <3>1, <3>2 DEF RequestInv, At, Snap
  <2>. QED
    BY <2>6, <2>7, <2>8, <2>9 DEF Inv
<1>. QED
  BY <1>1, <1>2

LEMMA GooglePreserves ==
    ASSUME Inv, NEW q \in Requests, Google(q)
    PROVE  Inv'
<1>1. CASE GoogleRead(q)
  <2> DEFINE plan == [NoAccount EXCEPT !.role = acc.role, !.status = acc.status,
                                       !.verified = acc.verified, !.reset = acc.reset]
             link == [NoAccount EXCEPT !.access = acc.access, !.refresh = acc.refresh]
  <2>1. /\ plan \in Account /\ plan.id = 0 /\ plan.password = 0 /\ plan.status = acc.status
        /\ link \in Account /\ link.id = 0 /\ link.password = 0
    BY NoAccountFacts, AccountFacts DEF Account
  <2>2. \/ Go(q, "googleCreate", NoAccount)
        \/ Go(q, "googleWipe", plan)
        \/ Go(q, "googleStore", link)
    BY <1>1 DEF GoogleRead
  <2>3. acc.status \notin Inactive /\ vouched' = TRUE /\ UNCHANGED <<acc, ids, passwords, wiped>>
    BY <1>1 DEF GoogleRead
  <2>. HIDE DEF plan, link
  <2>4. CASE Go(q, "googleCreate", NoAccount)
    BY <2>3, <2>4, GoStep, NoAccountFacts, AccountFacts DEF Steps, Vouching
  <2>5. CASE Go(q, "googleWipe", plan)
    BY <2>1, <2>3, <2>5, GoStep, AccountFacts DEF Steps, Vouching
  <2>6. CASE Go(q, "googleStore", link)
    BY <2>1, <2>3, <2>6, GoStep, AccountFacts DEF Steps, Vouching
  <2>. QED
    BY <2>2, <2>4, <2>5, <2>6
<1>2. ASSUME NEW role \in {"coach", "client"}, GoogleCreate(q, role)
      PROVE  Inv'
  <2> DEFINE new == [id |-> ids + 1, role |-> role, status |-> FirstStatus(role), verified |-> FALSE,
                     confirm |-> "blank", reset |-> "none", password |-> 0,
                     access |-> TRUE, refresh |-> TRUE]
  <2>1. new \in Account /\ new.id = ids + 1 /\ new.password = 0
    BY AccountFacts DEF Account, Roles, Statuses, Usable, Onboarding, Codes, FirstStatus
  <2>2. vouched /\ CreateUser(new) /\ End(q) /\ UNCHANGED <<passwords, vouched, wiped>>
    BY <1>2 DEF GoogleCreate, At, Inv, RequestInv, Vouching
  <2>. HIDE DEF new
  <2>. QED
    BY <2>1, <2>2, CreateStep
<1>3. CASE GoogleWipe(q)
  BY <1>3, WipePreserves
<1>4. CASE GoogleStore(q)
  <2>1. PICK old \in TokensFor(Snap(q)) :
          UpdateByEmail([acc EXCEPT !.access = old.access, !.refresh = old.refresh])
    BY <1>4 DEF GoogleStore
  <2> DEFINE new == [acc EXCEPT !.access = old.access, !.refresh = old.refresh]
  <2>2. old \in Account
    BY <2>1 DEF TokensFor, Account, Inv, Typed, Snap, Request
  <2>3. new \in Account /\ new.id = acc.id /\ new.password = acc.password /\ new.status = acc.status
    BY <2>2, AccountFacts DEF Account
  <2>4. End(q) /\ UNCHANGED <<ids, passwords, vouched, wiped>>
    BY <1>4 DEF GoogleStore
  <2>5. new.status \in Usable => vouched'
    BY <2>3, <2>4 DEF Inv, AccountInv
  <2>. HIDE DEF new
  <2>. QED
    BY <2>1, <2>3, <2>4, <2>5, UpdateStep, AccountFacts DEF new
<1>. QED
  BY <1>1, <1>2, <1>3, <1>4 DEF Google

LEMMA AdministerPreserves ==
    ASSUME Inv, NEW q \in Requests, Administer(q)
    PROVE  Inv'
<1>1. CASE OwnerCheck(q)
  BY <1>1, GoStep, NoAccountFacts, AccountFacts DEF OwnerCheck, Steps, Vouching
<1>2. CASE OwnerCreate(q)
  <2> DEFINE new == [id |-> ids + 1, role |-> "gym_owner", status |-> "Active", verified |-> TRUE,
                     confirm |-> "none", reset |-> "none", password |-> 0,
                     access |-> FALSE, refresh |-> FALSE]
  <2>1. new \in Account /\ new.id = ids + 1 /\ new.password = 0
    BY AccountFacts DEF Account, Roles, Statuses, Usable, Codes
  <2>2. vouched' = TRUE /\ CreateUser(new) /\ End(q) /\ UNCHANGED <<passwords, wiped>>
    BY <1>2 DEF OwnerCreate
  <2>. HIDE DEF new
  <2>. QED
    BY <2>1, <2>2, CreateStep
<1>3. CASE StatusRead(q)
  <2>1. PICK s \in Inactive \cup {"Active"} :
          Go(q, "statusStore", [NoAccount EXCEPT !.id = acc.id, !.status = s])
    BY <1>3 DEF StatusRead
  <2> DEFINE snap == [NoAccount EXCEPT !.id = acc.id, !.status = s]
             r == [pc |-> "statusStore", snap |-> snap]
  <2>2. snap \in Account /\ snap.id = acc.id /\ snap.password = 0 /\ snap.status = s
    BY NoAccountFacts, AccountFacts DEF Account, Statuses, Usable, Inactive
  <2>3. r \in Request /\ req' = [req EXCEPT ![q] = r] /\ req'[q] = r
    BY <2>1, <2>2 DEF Go, Request, Steps, Inv, Typed
  <2>4. Exists /\ UNCHANGED <<acc, ids, passwords, vouched, wiped>>
    BY <1>3 DEF StatusRead
  <2>5. Snap(q)' = snap /\ req'[q].pc = "statusStore"
    BY <2>3 DEF Snap
  <2>. HIDE DEF snap, r
  <2>6. RequestInv(q)'
    BY <2>2, <2>4, <2>5, AccountFacts DEF RequestInv, At, Exists, Vouching
  <2>. QED
    BY <2>3, <2>4, <2>6, ReadStep, AccountFacts
<1>4. CASE StatusStore(q)
  <2> DEFINE s    == Snap(q).status
             keep == s = "Active"
             new  == [acc EXCEPT !.status = s, !.access = @ /\ keep, !.refresh = @ /\ keep]
  <2>1. /\ UpdateById(q, new) /\ vouched' = (vouched \/ keep)
        /\ End(q) /\ UNCHANGED <<ids, passwords, wiped>>
    BY <1>4 DEF StatusStore
  <2>2. s \in Inactive \cup {"Active"} /\ Snap(q).id # 0
    BY <1>4 DEF StatusStore, At, Inv, RequestInv
  <2>. HIDE DEF s
  <2>3. new \in Account /\ new.id = acc.id /\ new.password = acc.password /\ new.status = s
    BY <2>2, AccountFacts DEF Account, Statuses, Usable
  <2>. HIDE DEF new
  <2>4. (new.status \in Usable => vouched') /\ new.status # "ToConfirm"
    BY <2>1, <2>2, <2>3 DEF Inactive, Usable, Onboarding
  <2>5. vouched' \in BOOLEAN /\ (vouched => vouched')
    BY <2>1
  <2>. QED
    BY <2>1, <2>2, <2>3, <2>4, <2>5, UpdateByIdStep
<1>. QED
  BY <1>1, <1>2, <1>3, <1>4 DEF Administer

LEMMA OnboardPreserves ==
    ASSUME Inv, NEW q \in Requests, Onboard(q)
    PROVE  Inv'
<1>1. CASE UpdateRead(q)
  <2> DEFINE snap == [NoAccount EXCEPT !.id = acc.id, !.status = acc.status]
             r == [pc |-> "updateStore", snap |-> snap]
  <2>1. /\ snap \in Account /\ snap.id = acc.id /\ snap.password = 0
        /\ snap.status = acc.status
    BY NoAccountFacts, AccountFacts DEF Account
  <2>2. r \in Request /\ req' = [req EXCEPT ![q] = r] /\ req'[q] = r
    BY <1>1, <2>1 DEF UpdateRead, Go, Request, Steps, Inv, Typed
  <2>3. acc.status \in Onboarding /\ UNCHANGED <<acc, ids, passwords, vouched, wiped>>
    BY <1>1 DEF UpdateRead
  <2>4. vouched /\ acc.id # 0
    BY <2>3, NoAccountFacts DEF Inv, AccountInv, Exists, Usable, Onboarding
  <2>5. Snap(q)' = snap /\ req'[q].pc = "updateStore"
    BY <2>2 DEF Snap
  <2>. HIDE DEF snap, r
  <2>6. RequestInv(q)'
    BY <2>1, <2>3, <2>4, <2>5, AccountFacts DEF RequestInv, At
  <2>. QED
    BY <2>2, <2>3, <2>6, ReadStep, AccountFacts
<1>2. CASE UpdateStore(q)
  <2> DEFINE step == NextStep(Snap(q).status)
             new  == [acc EXCEPT !.status = step]
  <2>1. UpdateById(q, new) /\ End(q) /\ UNCHANGED <<ids, passwords, vouched, wiped>>
    BY <1>2 DEF UpdateStore
  <2>2. Snap(q).status \in Onboarding /\ Snap(q).id # 0 /\ vouched
    BY <1>2 DEF UpdateStore, At, Inv, RequestInv, Vouching
  <2>3. step \in Usable
    BY <2>2 DEF NextStep, Onboarding, Usable
  <2>. HIDE DEF step
  <2>4. new \in Account /\ new.id = acc.id /\ new.password = acc.password /\ new.status = step
    BY <2>3, AccountFacts DEF Account, Statuses
  <2>5. new.status # "ToConfirm"
    BY <2>3, <2>4 DEF Usable, Onboarding
  <2>. HIDE DEF new
  <2>. QED
    BY <2>1, <2>2, <2>4, <2>5, UpdateByIdStep, AccountFacts
<1>. QED
  BY <1>1, <1>2 DEF Onboard

\* The steps that are nobody's request.
LEMMA OthersPreserve ==
    ASSUME Inv, LockConfirmCode \/ LockResetCode \/ DeleteUser
    PROVE  Inv'
<1>1. CASE LockConfirmCode
  <2>1. /\ acc' \in Account /\ acc'.id = acc.id /\ acc'.password = acc.password
        /\ acc'.status = acc.status
    BY <1>1, AccountFacts DEF LockConfirmCode, Account, Codes
  <2>2. Exists
    BY <1>1 DEF LockConfirmCode, Inv, AccountInv, NoAccount
  <2>. QED
    BY <1>1, <2>1, <2>2, AccountStep DEF LockConfirmCode, AccountInv, Exists, ClearOfLogins, Inv
<1>2. CASE LockResetCode
  <2>1. /\ acc' \in Account /\ acc'.id = acc.id /\ acc'.password = acc.password
        /\ acc'.status = acc.status
    BY <1>2, AccountFacts DEF LockResetCode, Account, Codes
  <2>2. Exists
    BY <1>2 DEF LockResetCode, Inv, AccountInv, NoAccount
  <2>. QED
    BY <1>2, <2>1, <2>2, AccountStep DEF LockResetCode, AccountInv, Exists, ClearOfLogins, Inv
<1>3. CASE DeleteUser
  <2>1. acc' = NoAccount /\ UNCHANGED <<ids, passwords, req, vouched, wiped>>
    BY <1>3 DEF DeleteUser
  <2>2. AccountInv'
    BY <2>1, NoAccountFacts, AccountFacts
       DEF AccountInv, Exists, Usable, Onboarding, Inv, Typed
  <2>3. ClearOfLogins
    BY <2>1, NoAccountFacts DEF ClearOfLogins
  <2>. QED
    BY <2>1, <2>2, <2>3, NoAccountFacts, AccountStep
<1>. QED
  BY <1>1, <1>2, <1>3

LEMMA InitInv == Init => Inv
<1>. SUFFICES ASSUME Init PROVE Inv
  OBVIOUS
<1>1. Typed
  BY IdleRequest, NoAccountFacts DEF Init, Typed
<1>2. AccountInv
  BY NoAccountFacts DEF Init, AccountInv, Exists, Usable, Onboarding
<1>3. ASSUME NEW q \in Requests
      PROVE  RequestInv(q)
  <2>1. req[q].pc = "idle" /\ Snap(q) = NoAccount
    BY DEF Init, Snap, Idle
  <2>2. Snap(q).id <= ids /\ Snap(q).password <= passwords
    BY <2>1, NoAccountFacts DEF Init
  <2>. QED
    BY <2>1, <2>2 DEF RequestInv, At, Vouching
<1>. QED
  BY <1>1, <1>2, <1>3 DEF Inv

LEMMA NextInv == Inv /\ [Next]_vars => Inv'
<1>. SUFFICES ASSUME Inv, [Next]_vars PROVE Inv'
  OBVIOUS
<1>1. CASE UNCHANGED vars
  BY <1>1 DEF vars, Inv, Typed, AccountInv, Exists, RequestInv, LoginInv, At, Snap
<1>2. CASE LockConfirmCode \/ LockResetCode \/ DeleteUser
  BY <1>2, OthersPreserve
<1>3. ASSUME NEW q \in Requests,
             \/ Signup(q) \/ Confirm(q) \/ SignIn(q) \/ Reset(q) \/ Google(q)
             \/ Administer(q) \/ Onboard(q)
      PROVE  Inv'
  BY <1>3, SignupPreserves, ConfirmPreserves, SignInPreserves, ResetPreserves, GooglePreserves,
     AdministerPreserves, OnboardPreserves
<1>4. ASSUME NEW q \in Requests, Abort(q)
      PROVE  Inv'
  BY <1>4, EndStep DEF Abort
<1>. QED
  BY <1>1, <1>2, <1>3, <1>4 DEF Next

LEMMA Invariance == Spec => []Inv
BY InitInv, NextInv, PTL DEF Spec

-----------------------------------------------------------------------------
(* The theorems *)

\* Whatever the requests interleave, the stored document keeps the shape of models/db/user.go and
\* a request never holds an external id that was not generated.
THEOREM TypeCorrect == Spec => []TypeOK
<1>1. Inv => TypeOK
  BY AccountFacts DEF Inv, Typed, AccountInv, RequestInv, TypeOK, Snap
<1>. QED
  BY <1>1, Invariance, PTL

\* For any number of concurrent requests, nobody signs in and no account becomes usable before the
\* mailbox was vouched for: no stale write-back of Login, UpdateUser or the Google link, and no
\* late status update, opens an account that nobody confirmed.
THEOREM UseIsVouched == Spec => []VouchedBeforeUse
<1>1. Inv => VouchedBeforeUse
  BY DEF Inv, AccountInv, RequestInv, Vouching, VouchedBeforeUse, At
<1>. QED
  BY <1>1, Invariance, PTL

\* For any number of concurrent requests, the password that ResetUnverifiedForOAuth wiped from an
\* unconfirmed account is never stored again, although Login writes the password it read back.
THEOREM WipeIsFinal == Spec => []WipedStaysWiped
<1>1. Inv => WipedStaysWiped
  BY DEF Inv, AccountInv, WipedStaysWiped
<1>. QED
  BY <1>1, Invariance, PTL
=============================================================================
