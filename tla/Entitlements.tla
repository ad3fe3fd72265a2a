---------------------------- MODULE Entitlements ----------------------------
(***************************************************************************)
(* The feature access of a client and of coaches on one instance of the      *)
(* service: grants and defaults in the database, the cached resolutions       *)
(* (services/readcache.go) nested in each other, and the versioned writes     *)
(* (services/entitlement.go).  Other instances write to the same database     *)
(* and cannot purge this one's caches.                                        *)
(*                                                                         *)
(* One database operation is one step.  The subscription plan is left out:     *)
(* nobody has one (plans may be nil).                                         *)
(***************************************************************************)
EXTENDS EntitlementRules

CONSTANTS
    Coaches, Client,
    Nobody,       \* the coach of a client that has none
    Requests,     \* writes on this instance
    Patches,      \* the patches that are sent
    EditedRoles,  \* the roles whose defaults are edited
    DefaultPatches,  \* the patches that are sent for a default
    TTL,          \* lifetime of a cached value; it is served for TTL - 1 ticks
    MaxVersion    \* bound on the version of a grant

ASSUME EntitlementsAssumption ==
    /\ Nobody \notin Coaches /\ Client \notin Coaches
    /\ "defaults" \notin Coaches \cup {Client}   \* the key of the cached defaults
    /\ \A patch \in Patches : /\ DOMAIN patch \subseteq Features
                             /\ \A f \in DOMAIN patch : patch[f] \in FeaturePatch
    /\ EditedRoles \subseteq {"coach", "client"} /\ DefaultPatches \subseteq Patches
    /\ TTL \in Nat \ {0} /\ MaxVersion \in Nat

Subjects == Coaches \cup {Client}
DefaultsKey == "defaults"
Keys == Subjects \cup {DefaultsKey}
\* Who is named on a grant: the client's coach at the time, nobody on a coach's own.
Givers == [s \in Subjects |-> IF s = Client THEN Coaches ELSE {Nobody}]
Role(s) == IF s = Client THEN "client" ELSE "coach"

VARIABLES
    defaults,  \* the default layer of each role
    grant,     \* the grant of each subject
    link,      \* the coach of the client
    gone,      \* the coaches whose account was deleted; their link and their grant stay
    entry,     \* the caches: what is stored and served for each key
    flight,    \* the load of each key that is running
    req,       \* the writes on this instance
    settled,   \* history: ticks since the last write to the database
    suspect    \* history: a cache or a load may hold something that this instance cannot know is old

db == <<defaults, grant, link, gone>>
vars == <<defaults, grant, link, gone, entry, flight, req, settled, suspect>>

Access == [Features -> FeatureState]
Defaults == [{"coach", "client"} -> Layer]
\* by is the coach who granted it (empty on a coach's own grant), version 0 no document.
Grant == [version : 0 .. MaxVersion, by : Coaches \cup {Nobody}, layer : Layer]
NoGrant == [version |-> 0, by |-> Nobody, layer |-> EmptyLayer]

NoDefaults == [r \in {"coach", "client"} |-> EmptyLayer]
NoAccess == [f \in Features |-> [applies |-> FALSE, enabled |-> FALSE, limit |-> 0]]

\* The deepest chain of cached values is client - coach - defaults.
Depth(k) == CASE k = DefaultsKey -> 1 [] k \in Coaches -> 2 [] OTHER -> 3
MaxSettled == 3 * (TTL - 1) + 1

\* An entry that expired is never served again and is the same as none.
Missing == [full |-> FALSE, age |-> 0, defaults |-> NoDefaults, access |-> NoAccess]
Full(k) == entry[k].full

\* What a load has read so far: the defaults, the grant, the client's coach and his access.
Off == [pc |-> "off", defaults |-> NoDefaults, grant |-> NoGrant, coach |-> Nobody, cap |-> NoAccess]

\* snap: the grant or the layer read before the write; by: the coach it acts for.
Idle == [pc |-> "idle", target |-> Nobody, by |-> Nobody, patch |-> << >>, snap |-> NoGrant]

Entry == [full : BOOLEAN, age : 0 .. TTL - 1, defaults : Defaults, access : Access]
Flight == [pc : {"off", "read", "defaults", "defaultsWait", "grant", "link", "coach", "coachWait", "store", "failed"},
           defaults : Defaults, grant : Grant, coach : Coaches \cup {Nobody}, cap : Access]
Write == [pc : {"idle", "get", "resolve", "resolveWait", "replace", "upsert", "purge", "purgeDefaults"},
          target : Subjects \cup {"coach", "client", Nobody}, by : Coaches \cup {Nobody},
          patch : Patches \cup {<< >>}, snap : Grant]

\* A grant without a version is none, and no age or version exceeds its bound.
TypeOK ==
    /\ defaults \in Defaults
    /\ grant \in [Subjects -> Grant]
    /\ \A s \in Subjects : grant[s].version = 0 => grant[s] = NoGrant
    /\ link \in Coaches \cup {Nobody}
    /\ gone \subseteq Coaches
    /\ entry \in [Keys -> Entry]
    /\ flight \in [Keys -> Flight]
    /\ req \in [Requests -> Write]
    /\ settled \in 0 .. MaxSettled
    /\ suspect \in BOOLEAN

Init ==
    /\ defaults = NoDefaults
    /\ grant = [s \in Subjects |-> NoGrant]
    /\ link \in Coaches \cup {Nobody}
    /\ gone = {}
    /\ entry = [k \in Keys |-> Missing]
    /\ flight = [k \in Keys |-> Off]
    /\ req = [q \in Requests |-> Idle]
    /\ settled = MaxSettled
    /\ suspect = FALSE

-----------------------------------------------------------------------------
(* What is true in the database *)

\* loadEffective: a client's grant counts only while its granting coach is the client's coach.
CoachOf(defs, g) == CoachAccess(defs["coach"], EmptyLayer, g.layer)

Counted(g, coach) == IF g.by = coach THEN g.layer ELSE EmptyLayer

ClientOf(defs, g, coach, cap) ==
    IF coach = Nobody THEN UncappedClientAccess(defs["client"], EmptyLayer, EmptyLayer)
                      ELSE ClientAccess(defs["client"], EmptyLayer, Counted(g, coach), cap)

TrueCoach(k) == CoachOf(defaults, grant[k])

\* The cap of the client: the access of a coach that is not found is left nil, and caps nothing, while
\* the grant he gave still counts.
TrueCap == IF link \in Coaches \ gone THEN TrueCoach(link) ELSE NoAccess
TrueClient == ClientOf(defaults, grant[Client], link, TrueCap)

\* The rows shown to an admin and to the coach are computed from a grant that is read for them, not by
\* resolve: clientRow leaves out the grant of another coach, and cap is the coach's access.
CoachRow(k) == CoachOf(defaults, grant[k])
ClientRow(k, cap) == ClientAccess(defaults["client"], EmptyLayer, Counted(grant[Client], k), cap)

ListCoachAccess == [k \in Coaches \ gone |-> CoachRow(k)]

\* The admin's filter looks at the override in the grant, not at the row.
DisabledIn(f) == {k \in Coaches \ gone : grant[k].layer[f].enabled = "off"}

\* What a coach is answered for a client: the row, his overrides, and the version to quote.
GetClientAccess(k, cap) ==
    [row |-> ClientRow(k, cap), version |-> grant[Client].version,
     overrides |-> IF grant[Client].version # 0 /\ grant[Client].by = k THEN grant[Client].layer ELSE EmptyLayer]

Right(k, e) ==
    CASE k = DefaultsKey -> e.defaults = defaults
      [] k \in Coaches -> k \notin gone /\ e.access = TrueCoach(k)
      [] OTHER -> e.access = TrueClient

\* A load that holds something the database no longer says.
Outdated(k) ==
    LET pc == flight[k].pc
        holdsDefaults == pc \in {"grant", "link", "coach", "coachWait", "store"}
        holdsGrant == k # DefaultsKey /\ pc \in {"link", "coach", "coachWait", "store"}
        holdsLink == k = Client /\ pc \in {"coach", "coachWait", "store"}
    IN  \/ holdsDefaults /\ flight[k].defaults # defaults
        \/ holdsGrant /\ flight[k].grant # grant[k]
        \/ holdsLink /\ flight[k].coach # link
        \/ holdsLink /\ pc = "store" /\ link # Nobody /\ flight[k].cap # TrueCap
        \/ k \in gone /\ pc \notin {"off", "failed"}

-----------------------------------------------------------------------------
(* cachedRead: hit, or join the one load of the key *)

Goto(k, pc) == flight' = [flight EXCEPT ![k].pc = pc]

\* The load of a coach reads the user first; a deleted one is answered 404, which is not cached.
LoadStart(k) ==
    /\ flight[k].pc = "off"
    /\ ~Full(k)
    /\ k \notin gone
    /\ Goto(k, IF k = DefaultsKey THEN "read" ELSE "defaults")
    /\ UNCHANGED <<db, entry, req, settled, suspect>>

\* ListPlanDefaults.
ReadDefaults ==
    /\ flight[DefaultsKey].pc = "read"
    /\ flight' = [flight EXCEPT ![DefaultsKey] = [Off EXCEPT !.pc = "store", !.defaults = defaults]]
    /\ UNCHANGED <<db, entry, req, settled, suspect>>

\* loadDefaults inside the load of a user: the cached defaults, or the load that runs for them.
TakeDefaults(k) ==
    /\ flight[k].pc = "defaults"
    /\ flight' = IF Full(DefaultsKey)
                   THEN [flight EXCEPT ![k].pc = "grant", ![k].defaults = entry[DefaultsKey].defaults]
                   ELSE [flight EXCEPT ![k].pc = "defaultsWait",
                           ![DefaultsKey].pc = IF @ = "off" THEN "read" ELSE @]
    /\ UNCHANGED <<db, entry, req, settled, suspect>>

ReadGrant(k) ==
    /\ flight[k].pc = "grant"
    /\ flight' = [flight EXCEPT ![k].grant = grant[k], ![k].pc = IF k = Client THEN "link" ELSE "store"]
    /\ UNCHANGED <<db, entry, req, settled, suspect>>

ReadLink ==
    /\ flight[Client].pc = "link"
    /\ flight' = [flight EXCEPT ![Client].coach = link,
                    ![Client].pc = IF link = Nobody THEN "store" ELSE "coach"]
    /\ UNCHANGED <<db, entry, req, settled, suspect>>

\* Whether the resolution of a coach ends in 404: nothing is cached, and no load has seen his account.
NotFound(k) == k \in gone /\ ~Full(k) /\ flight[k].pc = "off"

\* resolve of the coach inside the load of the client: cached, not found, or the load that runs.
TakeCoach ==
    LET k == flight[Client].coach
    IN  /\ flight[Client].pc = "coach"
        /\ flight' = IF Full(k) \/ NotFound(k)
                       THEN [flight EXCEPT ![Client].pc = "store",
                               ![Client].cap = IF Full(k) THEN entry[k].access ELSE NoAccess]
                       ELSE [flight EXCEPT ![Client].pc = "coachWait",
                               ![k].pc = IF @ = "off" THEN "defaults" ELSE @]
        /\ UNCHANGED <<db, entry, req, settled, suspect>>

Loaded(k) ==
    LET f == flight[k]
    IN  [Missing EXCEPT !.full = TRUE, !.defaults = IF k = DefaultsKey THEN f.defaults ELSE @,
           !.access = CASE k = DefaultsKey -> NoAccess
                        [] k \in Coaches -> CoachOf(f.defaults, f.grant)
                        [] OTHER -> ClientOf(f.defaults, f.grant, f.coach, f.cap)]

WaitsFor(j, k) ==
    \/ k = DefaultsKey /\ flight[j].pc = "defaultsWait"
    \/ k \in Coaches /\ j = Client /\ flight[j].pc = "coachWait" /\ flight[j].coach = k

\* A write that resolves the coach goes on when the patch is within the coach's access.
Checked(r, access) == IF Grantable(r.patch, access) THEN [r EXCEPT !.pc = "replace"] ELSE Idle

\* The load stores its result, however long ago it read, and hands it to everyone waiting.
Store(k) ==
    /\ flight[k].pc = "store"
    /\ entry' = [entry EXCEPT ![k] = Loaded(k)]
    /\ flight' = [j \in Keys |->
                    CASE j = k -> Off
                      [] j # k /\ WaitsFor(j, k) /\ k = DefaultsKey ->
                           [flight[j] EXCEPT !.pc = "grant", !.defaults = flight[k].defaults]
                      [] j # k /\ WaitsFor(j, k) /\ k # DefaultsKey ->
                           [flight[j] EXCEPT !.pc = "store", !.cap = Loaded(k).access]
                      [] OTHER -> flight[j]]
    /\ req' = [q \in Requests |->
                 IF req[q].pc = "resolveWait" /\ req[q].by = k THEN Checked(req[q], Loaded(k).access)
                                                               ELSE req[q]]
    /\ UNCHANGED <<db, settled, suspect>>

\* A database error ends the load and fails everyone waiting; errors are not cached.
Fail(k) ==
    /\ flight[k].pc \notin {"off", "defaultsWait", "coachWait"}
    /\ flight' = [j \in Keys |-> CASE j = k -> Off
                                   [] j # k /\ WaitsFor(j, k) -> [Off EXCEPT !.pc = "failed"]
                                   [] OTHER -> flight[j]]
    /\ req' = [q \in Requests |-> IF req[q].pc = "resolveWait" /\ req[q].by = k THEN Idle ELSE req[q]]
    /\ UNCHANGED <<db, entry, settled, suspect>>

\* Mutant of Served: expiry is checked at the store only.
Served_OneMoreTick(e) == e.age < TTL

\* An entry is served while now is before its expiry.
Served(e) == e.age < TTL - 1

\* Time passes.  A load takes less than a tick.
Tick ==
    /\ \A k \in Keys : flight[k].pc = "off"
    /\ entry' = [k \in Keys |-> IF Full(k) /\ Served(entry[k]) THEN [entry[k] EXCEPT !.age = @ + 1] ELSE Missing]
    /\ settled' = Lower(settled + 1, MaxSettled)
    /\ UNCHANGED <<db, flight, req, suspect>>

-----------------------------------------------------------------------------
(* Writes *)

Written == settled' = 0 /\ suspect' = TRUE

\* SetCoachAccess by an admin and SetClientAccess by the coach, which starts with requireLink.
SetCoachAccess(q, k, patch) ==
    /\ req[q].pc = "idle"
    /\ k \notin gone
    /\ ValidPatch(patch, "coach")
    /\ req' = [req EXCEPT ![q] = [Idle EXCEPT !.pc = "get", !.target = k, !.patch = patch]]
    /\ UNCHANGED <<db, entry, flight, settled, suspect>>

SetClientAccess(q, k, patch) ==
    /\ req[q].pc = "idle"
    /\ link = k
    /\ ValidPatch(patch, "client")
    /\ req' = [req EXCEPT ![q] = [Idle EXCEPT !.pc = "get", !.target = Client, !.by = k, !.patch = patch]]
    /\ UNCHANGED <<db, entry, flight, settled, suspect>>

GetGrant(q) ==
    /\ req[q].pc = "get"
    /\ req' = [req EXCEPT ![q].snap = grant[req[q].target],
                 ![q].pc = IF req[q].target = Client THEN "resolve" ELSE "replace"]
    /\ UNCHANGED <<db, entry, flight, settled, suspect>>

\* The coach's own access, cached or joined, is the ceiling of what the patch may give; a coach that
\* is not found gives nothing.
ResolveCoach(q) ==
    LET k == req[q].by
    IN  /\ req[q].pc = "resolve"
        /\ req' = [req EXCEPT ![q] = CASE Full(k) -> Checked(@, entry[k].access)
                                       [] NotFound(k) -> Idle
                                       [] OTHER -> [@ EXCEPT !.pc = "resolveWait"]]
        /\ flight' = IF Full(k) \/ NotFound(k) THEN flight
                       ELSE [flight EXCEPT ![k].pc = IF @ = "off" THEN "defaults" ELSE @]
        /\ UNCHANGED <<db, entry, settled, suspect>>

\* A grant left by a previous coach is replaced, not merged.
NextLayer(r) ==
    ApplyPatch(IF r.target = Client /\ r.snap.by # r.by THEN EmptyLayer ELSE r.snap.layer, r.patch)
IsNoOp(r) ==
    NextLayer(r) = IF r.target = Client /\ r.snap.by # r.by THEN EmptyLayer ELSE r.snap.layer

\* Mutant of VersionMatches: an upsert by subject.
VersionMatches_Upsert(r) == TRUE

\* InsertOne under the unique index on the subject, or ReplaceOne filtered by the version read.
VersionMatches(r) == grant[r.target].version = r.snap.version

\* writeGrant: nothing to do, a version conflict, or the next version.
ReplaceGrant(q) ==
    LET r == req[q]
    IN  /\ r.pc = "replace"
        /\ IF IsNoOp(r) \/ ~VersionMatches(r)
             THEN req' = [req EXCEPT ![q] = Idle] /\ UNCHANGED <<grant, settled, suspect>>
             ELSE /\ r.snap.version < MaxVersion
                  /\ grant' = [grant EXCEPT ![r.target] =
                                 [version |-> r.snap.version + 1, by |-> r.by, layer |-> NextLayer(r)]]
                  /\ req' = [req EXCEPT ![q] = [Idle EXCEPT !.pc = "purge"]]
                  /\ Written
        /\ UNCHANGED <<defaults, link, gone, entry, flight>>

\* SetPlanDefault reads the list, and stores the patched default whatever is stored by then.
ListDefaults(q, role, patch) ==
    /\ req[q].pc = "idle"
    /\ ValidPatch(patch, role)
    /\ ApplyPatch(defaults[role], patch) # defaults[role]
    /\ req' = [req EXCEPT ![q] = [Idle EXCEPT !.pc = "upsert", !.target = role, !.patch = patch,
                                              !.snap = [NoGrant EXCEPT !.layer = defaults[role]]]]
    /\ UNCHANGED <<db, entry, flight, settled, suspect>>

UpsertDefault(q) ==
    /\ req[q].pc = "upsert"
    /\ defaults' = [defaults EXCEPT ![req[q].target] = ApplyPatch(req[q].snap.layer, req[q].patch)]
    /\ req' = [req EXCEPT ![q] = [Idle EXCEPT !.pc = "purge"]]
    /\ Written
    /\ UNCHANGED <<grant, link, gone, entry, flight>>

\* purge() drops the users' entries, then the defaults, each under the lock of its own cache.  Loads
\* that are running go on with what they have read.
PurgeUsers(q) ==
    /\ req[q].pc = "purge"
    /\ entry' = [k \in Keys |-> IF k \in Subjects THEN Missing ELSE entry[k]]
    /\ req' = [req EXCEPT ![q] = [Idle EXCEPT !.pc = "purgeDefaults"]]
    /\ UNCHANGED <<db, flight, settled, suspect>>

\* Mutant of DefaultsPurged: the defaults stay cached.
DefaultsPurged_Kept == entry

DefaultsPurged == [entry EXCEPT ![DefaultsKey] = Missing]

\* Who was loaded since PurgeUsers may have been computed from the defaults that go only now.
PurgeDefaults(q) ==
    /\ req[q].pc = "purgeDefaults"
    /\ entry' = DefaultsPurged
    /\ suspect' = (suspect /\ ((\E k \in Keys : Outdated(k)) \/ \E k \in Subjects : Full(k)))
    /\ req' = [req EXCEPT ![q] = Idle]
    /\ UNCHANGED <<db, flight, settled>>

\* A database error, a cancelled request or a crash of the handler.
Abort(q) ==
    /\ req[q].pc \notin {"idle", "resolveWait"}
    /\ req' = [req EXCEPT ![q] = Idle]
    /\ UNCHANGED <<db, entry, flight, settled, suspect>>

-----------------------------------------------------------------------------
(* What happens elsewhere: other instances, and links, which purge nothing *)

\* The other instance looked for the link before it wrote, and writes nothing that changes nothing.
RemoteGrant(s, k, patch) ==
    LET base == IF grant[s].by = k THEN grant[s].layer ELSE EmptyLayer
    IN  /\ grant[s].version < MaxVersion
        /\ k \in Givers[s]
        /\ ValidPatch(patch, Role(s))
        /\ ApplyPatch(base, patch) # base
        /\ grant' = [grant EXCEPT ![s] =
                       [version |-> grant[s].version + 1, by |-> k, layer |-> ApplyPatch(base, patch)]]
        /\ Written
        /\ UNCHANGED <<defaults, link, gone, entry, flight, req>>

RemoteDefault(role, patch) ==
    /\ ValidPatch(patch, role)
    /\ defaults' = [defaults EXCEPT ![role] = ApplyPatch(@, patch)]
    /\ defaults' # defaults
    /\ Written
    /\ UNCHANGED <<grant, link, gone, entry, flight, req>>

\* AddCoachClient and Dissociate.
ChangeLink ==
    /\ link' \in Coaches \cup {Nobody}
    /\ link' # link
    /\ link = Nobody \/ link' = Nobody
    /\ Written
    /\ UNCHANGED <<defaults, grant, gone, entry, flight, req>>

\* DeleteUser of a coach: his row in coach_clients stays, and nothing is purged.
DeleteCoach ==
    /\ \E k \in Coaches \ gone : gone' = gone \cup {k}
    /\ Written
    /\ UNCHANGED <<defaults, grant, link, entry, flight, req>>

-----------------------------------------------------------------------------

Load(k) == LoadStart(k) \/ TakeDefaults(k) \/ ReadGrant(k) \/ Store(k) \/ Fail(k)

WriteStep(q) ==
    \/ \E patch \in Patches, k \in Coaches : SetCoachAccess(q, k, patch) \/ SetClientAccess(q, k, patch)
    \/ \E patch \in DefaultPatches, role \in EditedRoles : ListDefaults(q, role, patch)
    \/ GetGrant(q) \/ ResolveCoach(q) \/ ReplaceGrant(q) \/ UpsertDefault(q)
    \/ PurgeUsers(q) \/ PurgeDefaults(q) \/ Abort(q)

Elsewhere ==
    \/ ChangeLink \/ DeleteCoach
    \/ \E patch \in Patches, s \in Subjects, k \in Coaches \cup {Nobody} : RemoteGrant(s, k, patch)
    \/ \E patch \in DefaultPatches, role \in EditedRoles : RemoteDefault(role, patch)

Next ==
    \/ Tick \/ ReadDefaults \/ ReadLink \/ TakeCoach \/ Elsewhere
    \/ \E k \in Keys : Load(k)
    \/ \E q \in Requests : WriteStep(q)

Spec == Init /\ [][Next]_vars

-----------------------------------------------------------------------------
(* Properties *)

\* The last write is more than a lifetime per level ago: it has come through to k.
Settled(k) == settled > Depth(k) * (TTL - 1)

\* The caches are nested (a client's access is computed from the coach's cached one, that one from
\* the cached defaults), so what another instance writes may be missing for one lifetime per level:
\* three for a client, and never longer.
StaleAtMostPerLevel ==
    \A k \in Keys : Full(k) /\ Settled(k) => Right(k, entry[k])

\* What purge() leaves behind is only what it cannot reach: a load that had read before it, and a user
\* loaded between its two halves, who may have been computed from the old defaults.  Without either,
\* nothing old is served until another instance writes, a link changes or a coach is deleted.
PurgeForgets ==
    ~suspect => \A k \in Keys : Full(k) => Right(k, entry[k])

\* The promise of the versioned writes: whatever was read before and whoever writes in between, every
\* change of a grant is one patch applied to the grant that is stored then, by someone who may give it,
\* and starts from nothing where another coach had given it.  Versions are not part of it.
Grants == INSTANCE GrantStore WITH
    NoGiver <- Nobody, NoLayer <- EmptyLayer, Merge <- ApplyPatch,
    grants <- [s \in Subjects |-> [by |-> grant[s].by, layer |-> grant[s].layer]]

ImplementsGrantStore == Grants!Spec

\* What is served obeys the rules (computeLayered, capByCoach) and agrees with what is shown.  At every
\* moment no child of a feature that is off is on, however old the layers it was computed from.  Once a
\* lifetime per level has passed since the last write, a coach has what the admin is shown, with nothing
\* on that he is listed as disabled in; and a client of a coach whose account exists has nothing that
\* the coach does not have, exactly what the coach's page shows, and nothing on that an override shown
\* there turns off.  A deleted coach caps nothing.
RulesHold ==
    /\ \A k \in Subjects : Full(k) => ParentsRule(entry[k].access)
    /\ \A k \in Coaches : Full(k) /\ Settled(k) =>
         /\ entry[k].access = ListCoachAccess[k]
         /\ \A f \in Features : k \in DisabledIn(f) => ~entry[k].access[f].enabled
    /\ Full(Client) /\ Settled(Client) /\ link \in Coaches \ gone =>
         LET served == entry[Client].access
             shown == GetClientAccess(link, TrueCoach(link))
         IN  /\ Within(served, TrueCoach(link))
             /\ served = shown.row
             /\ \A f \in Features : shown.overrides[f].enabled = "off" => ~served[f].enabled

=============================================================================
