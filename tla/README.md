# Coachify account API: TLA+ models and proofs

The account API is a Go service over MongoDB. It keeps the accounts of coaches, clients, gym
owners and admins, signs them in, groups coaches into head-coach teams and head coaches into gyms,
sells clients to coaches as seats, and decides what each user may use. Nothing in it holds a lock
across two database calls and there are no transactions: a request reads documents, decides, and
writes single documents later, while other requests (on this or another instance) run in between.
Most of what can go wrong lives there, so every model takes **one MongoDB operation as one step** and
interleaves any number of requests, each of which may stop between two steps.

## Contents

| file | what it is |
|---|---|
| `CodePolicy` | the policy of e-mailed codes and the updates that store it, as operators |
| `ResetPassword` | the reset code of one account under concurrent requests and a clock |
| `AccountLifecycle` | the account behind one e-mail address, from signup to deletion |
| `HeadCoachTeam` | head-coach flags and team memberships |
| `Gym` | gyms, their invitations and head coaches, on top of `HeadCoachTeam` |
| `MembershipPeriods` | memberships, the history kept beside them, and its reconciliation at startup |
| `AnalyticsScope` | who may see whose numbers when, as operators on the history |
| `StatusGate` | the gate in front of every protected route, with its cache |
| `EntitlementRules` | the layers of feature access and the patches on them, as operators |
| `Entitlements` | grants, defaults and the nested caches of what is resolved from them |
| `GrantStore` | abstract: grants that change one patch at a time, at one moment |
| `Quota` | abstract: a quota that is taken all at once and only while it fits |
| `UsageCounters` | the counters that implement it, in three database writes per call |
| `ClientLists` | the lists of a coach's clients, as operators |
| `ClientSeats` | registration links, signups of clients, and the limit on their number |
| `TaxRegistration` | submission and review of tax numbers |
| `CircuitBreaker` | the breaker around the calls to other services |
| `...Proofs` | theorems and proofs about the module of that name; `GymProofs` also those about `HeadCoachTeam` |
| `StandaloneProofs` | theorems and proofs about the three components that interact with no other one in the models: `TaxRegistration`, `StatusGate`, `CircuitBreaker` |
| `MC*.tla`, `MC*.cfg` | the instances TLC checks |
| `PROJECT.json` | components, runs, mutants, the map from definitions to source lines, hazards, theorems |

`tlc -config MCGym.cfg MCGym.tla` checks an instance, `tlapm GymProofs.tla` the proofs of a module.

## Inventory

What each component keeps, does and depends on, what is hard about it, and what makes it correct.

**E-mailed code policy and storage** (`core/activation.go`, `services/code_budget.go`,
`repositories/code_issue.go`). State: two sub-documents of a user, `confirm_code` and
`reset_password_code`, with code, expiry, attempts, lock, last issue, window and count. Operations:
plan and store an issue, count a guess, compare, lock, clear. Hard: issue is read - plan - conditional
update; a guess is counted in one call, the lockout lands in another; a login writes the whole
sub-document back. Correct when guesses per budget stay bounded and regenerations keep their distance.
*CodePolicy, ResetPassword.*

**Account lifecycle and sign-in** (`services/auth.go`, `services/oauth_link.go`,
`repositories/User.go`). State: the user document (status, verified, codes, password, tokens).
Operations: signup, resend, confirm, login, refresh, reset, Google sign-in, onboarding, admin status
changes, deletion. Hard: some updates are keyed by e-mail and reach whatever account has the address
by then, others by external id; a login stores the status and password it read. Correct when nobody
gets in before the mailbox is vouched for, and a takeover really removes the old password.
*AccountLifecycle.*

**Head-coach teams** (`services/team.go`, `repositories/team.go`). State: the head-coach flag of a
user, one `coach_team_members` row per coach (unique index). Operations: promote, demote, assign,
unassign, remove, and the cleanup after an account is deleted. Hard: flag and membership are in
different collections, so each operation writes one, looks at the other again and undoes. Correct when
no one stays in the team of an account that is no head coach. *HeadCoachTeam.*

**Gyms and gym invitations** (`services/gym.go`, `repositories/gym.go`). State: gyms, one
`gym_head_coaches` row per head coach, invitations (one pending per gym and address). Operations:
create, archive, reactivate, invite, accept, decline, revoke, expire, admin add and remove, leave.
Accepting promotes an ordinary coach. Hard: an acceptance writes flag, membership and answer, and takes
them back in reverse; demotion and archiving run meanwhile. Correct when an invitation is answered
once and failed acceptances leave nothing. *Gym.*

**Membership periods** (`repositories/membership_periods.go`). State: history rows, one open per member
(partial unique index). They are written after the membership, and an error is only logged;
`ReconcileTeam` repairs the teams' history when an instance starts, from what it read; instances that
start together reconcile together. Correct when the
history says what the memberships say wherever no write failed or overlapped. *MembershipPeriods.*

**Analytics scope** (`services/analytics_scope.go`). Interval arithmetic on the history. Correct when a
gym sees a coach at exactly the instants at which he was in a team and its head in the gym, and when
the current scope is the current membership. *AnalyticsScope, checked on the histories of
MembershipPeriods.*

**Status gate** (`router/status_gate.go`, the middleware around it). State: one entry per user (status,
time), an LRU list, the lookups in flight. Hard: lookups are coalesced, missing users are remembered,
an expired entry is served while lookups fail, a slow lookup is stamped with the time at which it is
stored. Correct when an outdated answer expires and nobody waits for ever. *StatusGate.*

**Entitlements** (`services/entitlement*.go`, `repositories/entitlement.go`). State: a default per role,
a versioned grant per user. Access is computed in layers: registry, role default, plan, grant, master
switches, the coach's own access. Hard: versioned read - modify - write by admins, coaches and other
instances. Correct when no client has more than his coach, if that coach's account exists, no grant is
lost and each change happens at one moment. *EntitlementRules, Entitlements, GrantStore.*

**Read cache** (`services/readcache.go`). Caches the resolutions of entitlements, each inside the next,
with expiry, single flight and a purge after each write. Hard: a load begun before a purge stores after
it; the purge empties one cache after the other; other instances cannot purge; a value is computed from
values that are already old. *Entitlements.*

**Usage counters** (`Consume`, `Release`, `ConsumeUsage`, `ReleaseUsage`). State: a document per user
with a value per counter, some with the month in their key. Hard: one consumption is three writes; the
month ends in between; releases are repeated. Correct when a limit holds for all counters of a feature
at once and nothing that fits is refused. *UsageCounters, Quota.*

**Coach-client links, registration links** (`services/registration_link.go`, the signups of
`services/auth.go`, `repositories/Coach.go`). State: a link token per coach (unique index), a
`coach_clients` row per client. Hard: the limit is read long before the row is stored; row and account
are stored in either order depending on the way in. Correct when the limit is passed by no more than the
signups in flight, links stay valid, and a seat is somebody's. *ClientSeats, ClientLists.*

**Tax registration** (`handlers/matricule.go`, part of `services/auth.go` and `repositories/User.go`).
State: number (unique sparse index) and status of a user. Hard: read, then an unconditional write; an
admin pages through a list that his own decisions shorten. Correct when an approval stands and nobody
misses his review. *TaxRegistration.*

**Circuit breaker** (`utils/resilience.go`). State: state, failures, last failure. Hard: calls end in
another state than the one that admitted them. Correct when a broken service is spared and a recovered
one is called again. *CircuitBreaker.*

How they interact: everything goes through the user documents. Gyms reuse the promotion of teams;
deleting an account and demoting a head coach end in gyms. Periods follow the memberships and the
analytics scope reads the periods. The status gate and the read cache look at the same documents with a
delay. A client's entitlements depend on the coach his `coach_clients` row names; the limit on those rows
is an entitlement of the coach.

## The models

Every module of requests has the same layout: what is stored, a record per request in flight (`req`,
in Gym also `act`) with the next step `pc` and what the request remembers, and one action per database
operation. `Abort` (or `Crash`, `Fail`) ends a request between any two steps: a database error, a cancelled
context or a crash. Requests keep no state between two calls, so a crash of the server is an Abort of
each of its requests. Reads that lead nowhere (404, 409) end the request or are left out when they change
nothing. Variables marked *history* let a property speak of the past; the code has no such state, and no
guard reads them, except that only tokens that were handed out are followed (`handed`) and that `stray`
is bounded.

**CodePolicy / ResetPassword.** `rec` is the stored sub-document, `now` the clock, `issued` the serial
of the last code. `ReadCode`, `PlanIssue` and `StoreFirst`/`StoreAgain`/`StoreLost` are
InitResetPassword: what was read is in `snap`, and `GuardHolds` is the `lastissuedat` filter of
`issueCodeQuery`. `SubmitCode` is the counted guess, for VerifyResetPasswordCode and
ConfirmResetPassword, `Clear`, `Lock` and `SetPassword` what follows. `ReadLogin`/`SaveLogin` is the
write-back of a login. `wrong` is history: wrong guesses compared with a live code since the budget was
last refilled. `issues` is history, too: the instants and windows of the codes issued one after the
other by requests that had read one. It starts over where the code gives up counting: at an issue by a
request that read no code, at a completed reset, and when a login writes an older record back. A code
is its serial number; that two random codes are equal is left out.

**AccountLifecycle.** `acc` is the document with one address, or `NoAccount`; `snap` is what a request
read of it, reduced to the fields it uses later. `UpdateByEmail` and `UpdateById` are the two ways to
reach it. `Confirm` and `Reset` abstract the code policy to pending or not. `vouched` and `wiped` are
history. A deleted address can be used again, so a stale update by e-mail can meet another account;
`vouched` speaks of the mailbox and stays true for it, also for the account that comes next.

**HeadCoachTeam.** `status`, `isHead` and `headOf` are the two collections; Promote, Demote, Assign,
Unassign, RemoveMyCoach, DeleteUser follow the code call by call, rechecks and undo included. `loose` is
history: heads that lost their team's repair, to a request that stopped half-way or to a rollback of a
promotion. Until another request releases that team, the code has no promise left to keep.
`AssignRecheck` undoes the assignment also when the recheck itself fails. `ReleaseGym` is the last step
of a demotion and of the cleanup; the gym row is in the next module.

**Gym** extends HeadCoachTeam: `GymNext` is a team step, or a team's `ReleaseGym` that also drops the gym
row, or a gym step. `AcceptSet` and `AcceptRollback` write the same `isHead` as Promote. `granted` is
history of who is a head coach by an admin or an accepted invitation, `stopped` of whose acceptance
stopped half-way (also: whose membership could not be released by the undo, which the code only logs).
The request names an invitation that is stored when it begins.

**MembershipPeriods / AnalyticsScope.** `row` is the parent of each member in both collections: heads are
the parents of coaches, gyms of heads. Who may write a row is the business of HeadCoachTeam and Gym;
here every write of a repository can happen, followed by its history (`Find`, `CloseOther`, `Insert`,
`CloseMember`, `CloseOwn`, `CloseParent`), any of which can fail (`FailHistory`: logged, so the request
goes on where the code goes on). The time that a period gets is taken before the write. `ReadRows` to
`EndReconcile` are ReconcileTeam. Each instance runs it when it starts (`app/app.go:128`) and nothing
keeps two of them apart, so any number may run at once; `since` is the time each takes at its very start
and closes orphans at. `torn` and `raced` are history: members for whom a write of the history failed, or
two of them overlapped, until the next reconciliation and for good. `touched` says whom a
reconciliation in flight cannot put right any more: somebody whose row changed since, or owed history
when it began, or whom another one left between closing and opening when it crashed. The operators of
AnalyticsScope translate intersectPeriods, teamScope, gymScope and ListHeadClients.

**StatusGate.** `entry` and `order` are the map and the LRU list, `flight` the one lookup of a user,
`req[q].prev` the entry the request found. `Enter`, `Join`, `Lookup`, `Deliver`, `FinishFound`,
`FinishFailed` and `Leave` are status() and allow(). Times are ages that stop at the staleness bound,
past which no comparison of the code tells them apart; the clock never ends, so liveness can be stated.
`settled` is history: how long the stored status has been the only one around.

**EntitlementRules.** computeLayered, applyLayer, the master switches, capByCoach, applyPatch and
checkGrantable as operators. A feature has at most one limit, which stands for each of its limits; they
are merged and capped key by key.

**Entitlements.** `defaults`, `grant` and `link` are the database, `entry` the cached values, `flight` the
load of each key: a client's load waits for its coach's, and each for the defaults. `Store` hands the
result to everyone waiting and stores it, however long ago it was read. `SetCoachAccess`,
`SetClientAccess` and `ListDefaults` begin the writes; `ReplaceGrant` is the compare and swap,
`UpsertDefault` has none; `PurgeUsers` and `PurgeDefaults` follow, each under the lock of its own cache,
so loads run in between. `gone` are the coaches whose account was deleted (`DeleteCoach`): they resolve
to 404, which is not cached, and `loadEffective` then computes the client without a cap (`NotFound`,
`TrueCap`). `RemoteGrant`, `RemoteDefault`, `ChangeLink` and `DeleteCoach` happen on other
instances, or in other services of this one, and purge nothing here; another instance's coach was linked
when it looked, not necessarily when it writes. GrantStore is what the versions are for: a grant without
them, to which each change applies one patch. The operators `ListCoachAccess`,
`DisabledIn` and `GetClientAccess` are what admins and coaches are shown. `settled` and `suspect` are
history.

**UsageCounters / Quota.** `EnsureDocument`, `ZeroMissing` and `Grant`/`Deny` are the three writes of
ConsumeUsage; the month of their keys was read at the start. `ReleaseWrite` uses the current month, may
be repeated when its answer is lost, and stops at zero. `used` and `stray` are history, and the variables
of Quota: what is consumed and not given back, and what was given back on a counter it did not belong to.

**ClientSeats / ClientLists.** `Steps` is the order of the calls of each way in: through a link (check,
account, row), through Google with a link's token (row, account), by invitation (row, account), and
GetOrCreateLink. A failed AddCoachClient goes unnoticed, as in the code. `handed`, `checked`, `halted`,
`deleted` are history. ClientLists says what each list and its total show of rows and accounts.

**TaxRegistration.** `number`, `status`, `newer` (the order of the admin's list, as the pairs of pending
applications of which the first is the newer one). SubmitMatriculeFiscale is `SubmitRead` and
`SubmitWrite`; ClearTaxRegistration one filtered update; decisions are unconditional. `review` is an
admin who reads on from page to page while the list changes; `left` counts the departures meanwhile, not
those who left: somebody who leaves, comes back and leaves again moves the list twice.

**CircuitBreaker.** `Admit`/`Refuse` and `Fail`/`Succeed` are the two halves of Execute around the call,
which runs outside the lock. `Break` and `Recover` are the other service. `tries` and `late` are history.

## What is checked

Every property is about the interleavings; each instance also checks one type invariant. TLC must find
all of them to hold.

| run | instance | properties |
|---|---|---|
| `reset` | 2 requests, clock to 5 | `TypeOK`, `GuessBudget`, `RegenerationsSpaced` |
| `team` | 3 coaches, 2 requests | `TypeOK`, `NoOrphanedTeam` |
| `account` | 2 requests, 3 serials | `TypeOK`, `VouchedBeforeUse`, `WipedStaysWiped` |
| `gym` | 2 coaches, 1 gym, 1 team and 1 gym request | `GymTypeOK`, `NoOrphanedTeam` |
| `gym_accept` | 1 coach, 1 invitation, 1 team and 2 gym requests | `MembershipsAreAccepted`, `RightsAreGranted`, `AnsweredOnce` |
| `periods` | 1 coach, 2 heads, 1 gym, 4 writes, 2 at a time | `PeriodsTypeOK`, `HistoryFollowsRows`, `HistoryIsDisjoint`, `ScopeIsTheOverlap`, `CurrentScopeIsCurrent` |
| `gate` | 2 users, 2 requests, a cache of 1 | `GateTypeOK`, `WrongAnswersExpire`, `EventuallyTruthful`, `EveryRequestAnswered` |
| `access` | 1 coach, 1 client, 3 features, 1 write here | `TypeOK`, `RulesHold`, `StaleAtMostPerLevel`, `PurgeForgets`, `ImplementsGrantStore` |
| `usage` | 2 callers, 3 counters, 2 months | `UsageTypeOK`, `ImplementsQuota`, `NoFalseDenial` |
| `seats` | 1 coach with 1 seat, 3 clients, 2 requests | `SeatsTypeOK`, `SeatsNotOversold`, `SeatsAreClients`, `LinksStayValid` |
| `tax` | 3 users, 2 numbers, 1 submission in flight | `TaxTypeOK`, `ApprovalsStand`, `ReviewMissesFew` |
| `breaker` | 3 calls, threshold 3 | `BreakerTypeOK`, `LoadOnABrokenService`, `ClosesInTheEnd` |

**What they say.**

- `GuessBudget`: at most the budget of wrong guesses meets a live code. `RegenerationsSpaced`: of the
  codes issued one after the other by requests that had read one, any two are a cooldown apart, no window
  has more than its cap, and windows do not overlap. What starts the count afresh is said above.
- `VouchedBeforeUse`: no account is used before its mailbox was vouched for. `WipedStaysWiped`: a password
  wiped by a takeover is never stored again.
- `NoOrphanedTeam`: a member of somebody who is no head coach is about to be released, or a repair was lost.
- `MembershipsAreAccepted`, `RightsAreGranted`: failed acceptances leave neither membership nor flag;
  `AnsweredOnce`: an invitation's first answer is its last.
- `HistoryFollowsRows`: a member's open period is his membership unless a write of it failed or
  overlapped; a reconciliation puts it right again, whatever other reconciliations do meanwhile;
  `HistoryIsDisjoint`: then nobody was in two places at once. `ScopeIsTheOverlap`: whatever the
  histories, a gym sees exactly the instants that belong to it. `CurrentScopeIsCurrent`: who is in a
  scope now is who is there now.
- `WrongAnswersExpire`: an outdated answer is given within the entry's lifetime, or within the staleness
  bound when the own lookup failed. `EventuallyTruthful`: a status that no longer changes is in the end the only
  one served. `EveryRequestAnswered`: nobody waits for ever for somebody else's lookup.
- `RulesHold`: nothing is served under a switch that is off, at any moment; when the last write has come
  through, a client has nothing that his coach, if the account exists, does not have, and what is shown
  of it agrees. `StaleAtMostPerLevel`: cached access is at most one lifetime per level behind.
  `PurgeForgets`: a purge leaves nothing old but what it cannot reach, the loads in flight and the users
  loaded between its two halves.
  `ImplementsGrantStore`: every change of a grant is one patch on what is stored then, by somebody who may
  give it, and from nothing after a change of coach.
- `ImplementsQuota`: the counters implement Quota. `NoFalseDenial`: what is refused would have passed a limit.
- `SeatsNotOversold`: a limit is passed by less than the signups in flight. `SeatsAreClients`: who
  occupies a seat stands on exactly one page of each list, but for the partial failures the code allows.
  `LinksStayValid`: a token that was handed out stays the coach's link.
- `ApprovalsStand`: only a submission already in flight can undo an approval. `ReviewMissesFew`: the pages
  miss no more applications than left the list meanwhile.
- `LoadOnABrokenService`: how many calls a broken service gets between two openings. `ClosesInTheEnd`: the
  breaker of a service that is well closes for good.

**Refinement.** `usage` checks `UsageCounters!Spec => Quota!Spec` under the mapping `Bound <- the limits`,
with the history variables for `used` and `stray`; `access` checks `Entitlements!Spec => GrantStore!Spec`,
which forgets versions, caches and writes in flight. Both are also proved.

**Bounds.** Two requests at a time are enough for races between two operations, and every hazard listed
is one; three coaches are a head, another head and a member who moves between them. In the gym runs the
work of a second request of the same kind is split over two instances: `gym` lets teams have members and
other heads, `gym_accept` lets two acceptances, or an acceptance and any other answer, race with an
admin's request on the same coach, over one invitation that may be answered in every way. In `reset`, one
unit of the clock is the cooldown; the lockout equals the validity as in the code (both are fifteen
minutes) and lies between cooldown and window; `MaxTime` lets a window end, `MaxIssued` = 3 covers a
replaced replacement, `MaxTries` = 3 goes past the budget of two. `MaxSerials` = 3 covers a deleted
address that is used again, with its passwords. In `periods`, four writes are an assignment, a move, a
removal and a reconciliation, or two of them and two that overlap them, also two reconciliations; two
instants are enough for a period to be empty, to touch the next or to end before it starts. In `gate` the
lifetime of a status (30 s) and of a missing user (30 s) are one tick, and the staleness bound (5 min)
two: the order of the three is what the comparisons see; two users with a cache of one entry evict each
other. In `access` a lifetime is two ticks, so that a value is served one tick after it was stored: each
level can add one; one version of a grant, with any number of writes of the defaults, suffices for every
step of a write, and for a conflict (here and elsewhere); the patch turns a parent off and its child on.
The second patch is for coaches only and lets two writes of one grant be told apart. With one coach and
one version neither a client nor his grant changes hands in this run (the client can only leave his coach
and come back, and the coach be deleted); the proofs cover that. In `usage` a limit of two admits a use
of two exactly; `MaxStray` = 2 lets a release from the wrong counter take a whole use. In `seats`, three
clients for one seat with two signups in flight reach the excess. Pages of one entry are the smallest
that have a boundary. `breaker` has as many calls as the threshold. The theorems remove the bounds on
requests, coaches, gyms, users, features and counters. Symmetry permutes requests, coaches, users,
numbers and invitations where no definition distinguishes them, and is not used where liveness is
checked.

**Deadlock** is checked except in `team`, `gym`, `gym_accept` and `periods`. Teams and gyms may really stop:
once every account is deleted nothing is left to do. In `periods` nothing begins after the last write.

**Fairness.** Only `StatusGate` and `CircuitBreaker` have any. In the gate: time passes, a goroutine that
can run runs, and a lookup ends because it has a time limit of five seconds (`statusLookupLimit`);
nobody has to send a request. Around the breaker: time passes, a call ends because every client sets a
time limit, and somebody calls again and again, as each signup and each mail does. Elsewhere handlers
are not retried by the server, so "eventually" would be promised by a client's retry only.

**Mutants.** Each property comes with a plausible mistake in the code that violates it
(`..._TrustsTheLoad`, `..._OffByOne`, `..._NoFloor` and so on, defined just before the operator they
change): a recheck dropped, a filter dropped, an undo that forgets a row, calls in another order.

## Where the code falls short of what one might expect

The models contain these behaviours, found while modelling; no property above promises otherwise.

- Two first issues of a reset code: the second replaces the first and the guesses counted against it
  (`repositories/code_issue.go:21`).
- The cooldown and the hourly cap hold between codes only while nothing takes the last issue out of the
  record. After a completed reset the next issue comes at once, and a login that had read an older record
  writes it back (`repositories/User.go:839`), so that two regenerations can come in one instant. A code
  that is cleared and issued again within the instant of the one a request read passes its filter with
  another window.
- A login in flight stores the old attempt counter back (`repositories/User.go:839`), and, like an
  onboarding step (`services/auth.go:1232`), the status it read: it can undo an admin's block.
- Confirming the address makes a blocked or suspended account usable (`services/auth.go:856`).
- Confirm keeps the code it accepted, so the first Google sign-in on a confirmed account is planned as
  a takeover and wipes its password (`services/oauth_link.go:25`).
- Promote's recheck runs before Assign's write, and Assign never looks at the coach again: a head coach
  in somebody's team (`services/team.go:243`). The undo of Assign and RemoveMyCoach delete by coach only.
- An addition to a gym, or an acceptance by a coach who was a head coach when it loaded him, races with
  the demotion: an ordinary coach stays head coach of a gym (`services/gym.go:972`).
- An addition that saw the gym active stores its membership after the archiving has released everybody
  (`services/gym.go:900`).
- The gate: while lookups fail, a request is served the entry it read before its own lookup, even when
  another request has cached a newer refusal since (`router/status_gate.go:124`).
- Tax: a submission that read before an approval resets it to pending, after which it can be withdrawn
  (`services/auth.go:1429`). A decision can be about a number the admin never saw, or about none. A user
  who never submitted has the status "", which a list of "none" does not show.
- Seats: signups in flight together pass the last place (`services/auth.go:1326`); pending invitations
  count for nothing; rows of deleted accounts keep counting, also in the total of
  ListCoachClientsSummary.
- Entitlements: a deleted coach caps nothing. His `coach_clients` row stays (`services/auth.go:1280`), his
  resolution is a 404 that `loadEffective` passes over (`services/entitlement.go:511`), and the client is
  computed uncapped while the grant of that coach still counts.
- Purge: "same-process writers never read their own stale data" (`services/readcache.go:30`) is not so. A
  load that had read before the write stores after the purge, and a user who is loaded after the users'
  cache was emptied and before the defaults' was (`services/entitlement.go:886`) is computed from the old
  defaults. Either stays for a lifetime.
- Periods: a move is two writes, close and open; a reconciliation that crashes between the two leaves the
  coach without an open period although another one that runs at the same time ends well. Requests or
  reconciliations that overlap about one member can leave periods that overlap or end before they start.
- Usage: a release after the end of a month, or a repeated one, lowers a counter that it does not belong
  to (`services/entitlement.go:749`).
- The breaker: half-open admits every caller, and a call that its caller cancels counts as a failure of
  the service (`utils/resilience.go:46`). InstrumentedDo cancels its context before the caller has read
  the body (`utils/resilience.go:102`); this one is outside the models.

## What is proved

For any sets of requests, coaches, gyms, users, features and counters, and any limits, lifetimes and
policy constants that the assumptions allow:

| theorem | module | property |
|---|---|---|
| `TypeCorrect` | ResetPasswordProofs | `TypeOK` |
| `BudgetRespected` | ResetPasswordProofs | `GuessBudget` |
| `SpacingRespected` | ResetPasswordProofs | `RegenerationsSpaced` |
| `TypeCorrect` | AccountLifecycleProofs | `TypeOK` |
| `UseIsVouched` | AccountLifecycleProofs | `VouchedBeforeUse` |
| `WipeIsFinal` | AccountLifecycleProofs | `WipedStaysWiped` |
| `TypeCorrect` | GymProofs | `TypeOK` |
| `TeamsAreHeaded` | GymProofs | `NoOrphanedTeam` |
| `GymTypeCorrect` | GymProofs | `GymTypeOK` |
| `TeamsStayHeaded` | GymProofs | `NoOrphanedTeam`, with the steps of gyms |
| `InvitationsAreAnsweredOnce` | GymProofs | `AnsweredOnce` |
| `MembershipsAreBacked` | GymProofs | `MembershipsAreAccepted` |
| `RightsComeFromAGrant` | GymProofs | `RightsAreGranted` |
| `Spec_UsageTypeOK` | UsageCountersProofs | `UsageTypeOK` |
| `Spec_ImplementsQuota` | UsageCountersProofs | `ImplementsQuota` |
| `Spec_LimitHolds` | UsageCountersProofs | `Quota!Holds` of the counters |
| `Spec_NoFalseDenial` | UsageCountersProofs | `NoFalseDenial` |
| `Spec_TypeOK` | EntitlementsProofs | `TypeOK` |
| `Spec_RulesHold` | EntitlementsProofs | `RulesHold` |
| `Spec_NoLostGrant` | EntitlementsProofs | `NoLostGrant`: a grant replaces exactly the one it was computed from |
| `Spec_ImplementsGrantStore` | EntitlementsProofs | `ImplementsGrantStore` |
| `Spec_StaleAtMostPerLevel` | EntitlementsProofs | `StaleAtMostPerLevel` |
| `Spec_PurgeForgets` | EntitlementsProofs | `PurgeForgets` |
| `Spec_SeatsTypeOK` | ClientSeatsProofs | `SeatsTypeOK` |
| `Spec_SeatsNotOversold` | ClientSeatsProofs | `SeatsNotOversold` |
| `Spec_LinksStayValid` | ClientSeatsProofs | `LinksStayValid` |
| `Spec_SeatsAreClients` | ClientSeatsProofs | `SeatsAreClients` |
| `Spec_PeriodsTypeOK` | MembershipPeriodsProofs | `PeriodsTypeOK` |
| `Spec_HistoryFollowsRows` | MembershipPeriodsProofs | `HistoryFollowsRows` |
| `Spec_HistoryIsDisjoint` | MembershipPeriodsProofs | `HistoryIsDisjoint` |
| `Spec_ScopeIsTheOverlap` | MembershipPeriodsProofs | `ScopeIsTheOverlap` |
| `Spec_CurrentScopeIsCurrent` | MembershipPeriodsProofs | `CurrentScopeIsCurrent` |
| `Spec_TaxTypeOK` | StandaloneProofs | `TaxTypeOK` |
| `Spec_NumbersAreOwn` | StandaloneProofs | the part `NumbersAreOwn` of `TaxTypeOK` |
| `Spec_ApprovalsStand` | StandaloneProofs | `ApprovalsStand` |
| `Spec_ReviewMissesFew` | StandaloneProofs | `ReviewMissesFew` |
| `Spec_GateTypeOK` | StandaloneProofs | `GateTypeOK` |
| `Spec_WrongAnswersExpire` | StandaloneProofs | `WrongAnswersExpire` |
| `Spec_BreakerTypeOK` | StandaloneProofs | `BreakerTypeOK` |
| `Spec_LoadOnABrokenService` | StandaloneProofs | `LoadOnABrokenService` |

The assumptions are the named ones of the modules: policy constants are positive, `Nobody` and `None` are
not among what they stand in for, limits, bounds and pages are naturals, patches and uses are well formed, a
master switch has no master switch, a coach, a head and a gym are different things, the lifetimes of the
gate are within its staleness bound. The requests of ClientSeats, the calls around the breaker and the
applicants of TaxRegistration are finitely many, because the properties count them.

- *Guess budget.* `wrong <= MaxCodeAttempts` is not inductive: nothing in it relates the history to the
  counter. `GuessesCounted` adds `wrong <= rec.attempts`; a guess is compared only while the counter it
  has just raised is within the cap, and whatever lowers the counter resets the history.
- *Spacing.* A plan is allowed on what was read, and what was read is what is replaced: `PlansAllowed`
  and `IssuesStamped` (an issued record has a nonzero `last`, so equal stamps are enough for the filter).
  `IssuesRecorded` ties the history to the record: its last issue is the record's, the last `count` of it
  are the issues of the record's window, and all older ones lie in windows that were over. So an allowed
  plan extends a history that is spaced to one that is.
- *Accounts.* `Inv` says of each request in flight what it may still store: everything that can store a
  usable status acts for a vouched address, and a login in flight never holds the password of an
  account that is still to confirm. The second is why a takeover is final: the password it wipes is in
  no login's hands, because `LoginRead` refuses accounts to confirm.
- *Teams.* `NoOrphanedTeam` is inductive once split by coach (`Accounted`): a membership is well headed,
  lost for a recorded reason, or promised a repair by a request. `OthersRepair` says that a step of one
  request leaves the promises of the others in place, so each action answers only for its own.
- *Gyms.* The types carry what makes the undo right: a membership, and the acceptance that stored it,
  name the gym and the coach of the invitation (`MembershipOK`, `GymRequestOK`), and invitations never
  change these (`InvitesKept`). So releasing "the coach's row" releases the row that was stored. For the
  rights, `OthersPromote` plays the part of `OthersRepair`; deleted accounts are not restored
  (`TeamStepRestoresNobody`). The team lemmas are reused as they are: a gym step either leaves the
  team's state alone or writes the flag like Promote does.
- *Usage.* `Accounted`: what is used under a key is at most what is stored, plus what strayed; `Bounded`: what
  is stored is within the limit; `Empty`: nothing is stored without a document. With these a grant is a
  `Take` of Quota, a release a `GiveBack`, and every other write stutters. That nothing which fits is refused
  needs `Ready` besides: a call that reaches its update finds all its counters in place, because nobody
  ever removes a document or a counter.
- *Entitlement rules.* Lemmas about the operators, each on its own: a layer keeps whether a feature
  applies, the switches of parents carry over, the cap is within the coach's access and keeps the
  parents' rule. For `RulesHold`, `LawInv` says that every cached access and every cap that a load holds
  is lawful (within what the role may have, and under its parents), or is the missing cap of a
  deleted coach, under which the client's own layers keep the parents' rule; what is served later agrees
  with what is shown by `StaleAtMostPerLevel`.
- *Grants.* `SnapInv`: a write holds the stored grant for as long as the version it read is the stored
  one. Versions only grow (`GrantsGrow`), so a version that matches is the grant that was read.
  With `GiverInv` (a coach's own grant names nobody, and a write names who may give) a replacement that
  matches maps to one `Change` of GrantStore; every other step but a remote grant stutters.
- *Caches.* A cached value is wrong only because of a write, or because what it was computed from was
  wrong: `Passes` says of every step of a load that it becomes outdated only by what it takes from below,
  and stores only what it holds. By the depth of the keys, age plus level is bounded
  (`StaleAtMostPerLevel`); without a write that this instance did not see, nothing below is wrong, and
  so nothing is (`PurgeForgets`). The first half of a purge proves nothing; the second does when no load
  holds anything outdated and no user was loaded since the first, for then no cache holds anything.
- *Seats.* `ReqOK` is what a request knows at each of its calls, `Ids` that ids are fresh until they are
  stored, so that the row of a signup is a new one. A request that passes a check is at most one of the
  requests in flight, and a row was in flight before (`PassSold`): sold and about to be sold together never
  grow past the limit and the others in flight.
- *Lists of clients.* `RowsAccounted`: a row has an account, or the account was deleted, or the signup has
  halted before it or still is there. A signup through a link is no exception, because `LinkAdds` says that
  whoever stores a row there has stored the account. The lists: a place is on exactly one page of those the
  total announces (`OnOnePage`), and the join keeps every client with an account, at one place
  (`JoinedShows`), for any length of the pages and any order of the rows.
- *Periods.* `HistoryFollowsRows` needs to know of every request in flight what it still owes.
  `Discipline` says which rows a request has in hand and that it is in step with them (`RequestsInStep`,
  per member that is `Sound`: nothing failed or overlapped, or a reconciliation repairs it).
  `HistoryAwaited` is the property with its exception: a member's open period is his row's, or a request
  is there that will make it so. `InsertsFit` keeps a second open period out. About a member with whom
  nobody interfered since a reconciliation began, only reconciliations open periods (`RepairsAlone`), all
  of them from the same row; so the member is in order, or one of them is between its two writes
  (`Settling`). `RepairsReach` says how far each is with such a member, and is what makes its end clear
  `torn`.
- *Disjoint periods.* `OneAtATime`: a member who was never raced about is the business of one request at a
  time, and never torn; hence a reconciliation finds nothing to do about it (`NothingToRepair`). With
  `InThePast` (no time is ahead of the clock), what a request closes or opens comes after all that is
  stored (`InOrder`).
- *Scopes.* Lemmas about intersectPeriods and its callers, for any two histories: the overlap of two ranges
  covers what both cover, also when a range ends before it starts. The current scope then needs only
  `HistoryFollowsRows`.
- *Tax numbers.* `ReadBefore`: a submission for a user who is approved by now knows that it was overtaken.
- *Review of tax numbers.* `Ordered`: the list is an order of the pending applications. `SlippedFew`: of those
  who wait since the first page and were not shown, the ones that no longer stand on a later page are no
  more than the departures. An application slips before the page that is read next only by one place per
  departure, so each departure costs one at most; arrivals push the others back, never forward.
- *Gate.* Outdated entries, and what a request remembers of one, are at least as old as the status is
  settled (`EntriesAge`, `RememberedAge`); while an outdated result is on its way from a lookup into the
  cache the status does not settle (`CarriedIsUnsettled`). The types contain that the map and the LRU list
  name the same users, each once, within the capacity.
- *Breaker.* `LoadCounted` says of each call to the broken service where it is counted: it runs still, or its
  failure is in `failures`, or a late success has cleared it, and each of these clears less than the
  threshold. A breaker that opens or a service that recovers starts from zero.

Only model-checked: liveness (`EventuallyTruthful`, `EveryRequestAnswered`, `ClosesInTheEnd`), which needs
fairness and is out of the prover's reach, and that every action can happen. Every invariant and every
action property of a run is also a theorem.

## What is not modelled

- *Writes that are applied although the caller sees an error* (a timeout after the commit), except a
  release of usage that is repeated. The models take a failed call as one that did not happen; an error
  after the write is an Abort at the next step, which covers the stored state but not the code's own
  compensation.
- *Replica lag.* Reads are from the primary, the default of the driver, which the code never changes.
- Operations on several documents (`DeleteMany`, `UpdateMany`) are one step, except expiries, which come
  one at a time.
- *Entitlements*: the plan's layer (`plans` may be nil, and no user has a plan), audit entries, names of
  features and counters, the admin's pages. A load is taken to last less than a tick; a slower one adds
  what it takes to the age of what it stores. The read cache forgets everything when its map is full;
  that is a purge of one level, which only makes values newer.
- *Gyms*: owners and their transfer, renaming, the daily limit on invitations, the clock of their expiry (one
  may expire at any time), audit, lists and statistics.
- *Clients*: search and sorting of the lists, the conversation that a link opens, the invitation service.
- *Accounts*: the profile, e-mails, chat, payments, statistics; the change of a role between coach and
  nutritionist, which also calls the team's cleanup.
- HTTP handlers and routing (parsing and status codes, no state), the clients of the other services
  (outgoing HTTP; a failing call is an `Abort`), token signing, hashing and OAuth providers (assumed to
  do what they say), configuration and index creation (the unique indexes are part of the inserts that
  rely on them). `utils.Retry` is called nowhere.

## What could come next

1. A team membership with atomic assignments as an abstract specification, implemented by `HeadCoachTeam`
   where no repair is lost.
2. Gym invitations with their expiry clock and daily limit; gym owners.
3. The composition of ClientSeats with Entitlements: the limit is read through the cache.
