-------------------------- MODULE EntitlementsProofs --------------------------
(***************************************************************************)
(* The feature access of clients and coaches, whatever the features, the      *)
(* coaches, the patches, the writes in flight and the lifetime of the caches: *)
(* the rules of resolution, the freshness of what is cached, and the           *)
(* versioned writes.                                                          *)
(***************************************************************************)
EXTENDS Entitlements, TLAPS

-----------------------------------------------------------------------------
(* The rules *)

\* An access that is worked out for a role: what does not apply to it is off.
AccessOf(role) == {a \in Access : \A f \in Features : /\ a[f].applies = Applies(f, role)
                                                      /\ a[f].enabled => a[f].applies}

Limit == 0 .. Unlimited

LEMMA LimitIsNat == MaxLimit \in Nat /\ Unlimited \in Nat /\ Limit \subseteq Nat
  BY RulesAssumption DEF Unlimited, Limit

\* The lower of two limits is a limit, above neither.
LEMMA LowerLimit ==
    ASSUME NEW m \in Limit, NEW n \in Limit
    PROVE  Lower(m, n) \in Limit /\ Lower(m, n) <= m /\ Lower(m, n) <= n
  BY LimitIsNat DEF Lower, Limit

LEMMA InitialIsState ==
    ASSUME NEW f, NEW role
    PROVE  InitialState(f, role) \in FeatureState
  BY LimitIsNat DEF InitialState, FeatureState, Applies, Unlimited

\* A layer changes the switch and the limit, not whether the feature applies; a switch it turns off is off.
LEMMA ApplyLayerIsState ==
    ASSUME NEW st \in FeatureState, NEW f, NEW g \in FeatureGrant
    PROVE  /\ ApplyLayer(st, f, g) \in FeatureState
           /\ ApplyLayer(st, f, g).applies = st.applies
           /\ g.enabled = "off" => ~ApplyLayer(st, f, g).enabled
<1>1. st.applies \in BOOLEAN /\ st.enabled \in BOOLEAN /\ st.limit \in 0 .. Unlimited
  BY DEF FeatureState
<1>2. g.enabled \in {"on", "off", "inherit"} /\ g.limit \in {Inherit} \cup 0 .. MaxLimit
  BY DEF FeatureGrant
<1>3. g.limit # Inherit => g.limit \in 0 .. Unlimited
  BY <1>2, LimitIsNat DEF Inherit, Unlimited
<1> DEFINE res == ApplyLayer(st, f, g)
           limit == IF g.limit # Inherit /\ f \in Limited THEN g.limit ELSE st.limit
<1>4. limit \in 0 .. Unlimited
  BY <1>1, <1>3
<1>5. CASE g.enabled = "inherit"
  <2>1. res = [st EXCEPT !.enabled = st.enabled, !.limit = limit]
    BY <1>5 DEF ApplyLayer
  <2> HIDE DEF res, limit
  <2> QED BY <1>1, <1>4, <1>5, <2>1 DEF FeatureState, res
<1>6. CASE g.enabled = "on"
  <2>1. res = [st EXCEPT !.enabled = TRUE, !.limit = limit]
    BY <1>6 DEF ApplyLayer
  <2> HIDE DEF res, limit
  <2> QED BY <1>1, <1>4, <1>6, <2>1 DEF FeatureState, res
<1>7. CASE g.enabled = "off"
  <2>1. res = [st EXCEPT !.enabled = FALSE, !.limit = limit]
    BY <1>7 DEF ApplyLayer
  <2> HIDE DEF res, limit
  <2> QED BY <1>1, <1>4, <1>7, <2>1 DEF FeatureState, res
<1> QED BY <1>2, <1>5, <1>6, <1>7

LEMMA LayeredIsAccess ==
    ASSUME NEW role, NEW default \in Layer, NEW plan \in Layer, NEW g \in Layer
    PROVE  /\ Layered(role, default, plan, g) \in AccessOf(role)
           /\ \A f \in Features : g[f].enabled = "off" => ~Layered(role, default, plan, g)[f].enabled
<1> DEFINE out == Layered(role, default, plan, g)
<1>1. ASSUME NEW f \in Features
      PROVE  /\ out[f] \in FeatureState
             /\ out[f].applies = Applies(f, role)
             /\ out[f].enabled => out[f].applies
             /\ g[f].enabled = "off" => ~out[f].enabled
  <2>1. default[f] \in FeatureGrant /\ plan[f] \in FeatureGrant /\ g[f] \in FeatureGrant
    BY DEF Layer
  <2>2. InitialState(f, role) \in FeatureState /\ InitialState(f, role).applies = Applies(f, role)
        /\ InitialState(f, role).enabled = Applies(f, role)
    BY InitialIsState DEF InitialState
  <2>3. Applies(f, role) \in BOOLEAN
    BY DEF Applies
  <2>4. CASE Applies(f, role)
    <3> DEFINE a == ApplyLayer(InitialState(f, role), f, default[f])
               b == ApplyLayer(a, f, plan[f])
    <3>1. out[f] = ApplyLayer(b, f, g[f])
      BY <2>4 DEF Layered
    <3>2. a \in FeatureState /\ a.applies = Applies(f, role)
      BY <2>1, <2>2, ApplyLayerIsState
    <3>3. b \in FeatureState /\ b.applies = Applies(f, role)
      BY <2>1, <3>2, ApplyLayerIsState
    <3> HIDE DEF a, b
    <3>4. ApplyLayer(b, f, g[f]) \in FeatureState /\ ApplyLayer(b, f, g[f]).applies = Applies(f, role)
          /\ (g[f].enabled = "off" => ~ApplyLayer(b, f, g[f]).enabled)
      BY <2>1, <3>3, ApplyLayerIsState
    <3> QED BY <2>4, <3>1, <3>4
  <2>5. CASE ~Applies(f, role)
    <3>1. out[f] = InitialState(f, role)
      BY <2>5 DEF Layered
    <3> QED BY <2>2, <2>5, <3>1
  <2> QED BY <2>3, <2>4, <2>5
<1>2. out = [f \in Features |-> out[f]]
  BY DEF Layered
<1> HIDE DEF out
<1>3. out \in Access
  BY <1>1, <1>2 DEF Access
<1> QED BY <1>1, <1>3 DEF AccessOf, out

\* Under its parents an access is still one, nothing is switched on, and the rule of parents holds.
LEMMA UnderParentsRule ==
    ASSUME NEW role, NEW out \in AccessOf(role)
    PROVE  /\ UnderParents(out) \in AccessOf(role)
           /\ ParentsRule(UnderParents(out))
           /\ \A f \in Features : /\ UnderParents(out)[f].enabled => out[f].enabled
                                  /\ UnderParents(out)[f].limit = out[f].limit
<1> DEFINE res == UnderParents(out)
<1>0. out \in Access /\ \A f \in Features : out[f].applies = Applies(f, role) /\ (out[f].enabled => out[f].applies)
  BY DEF AccessOf
<1>1. ASSUME NEW f \in Features
      PROVE  /\ res[f] \in FeatureState
             /\ res[f].applies = out[f].applies
             /\ res[f].enabled => out[f].enabled
             /\ res[f].limit = out[f].limit
  <2>1. out[f] \in FeatureState
    BY <1>0 DEF Access
  <2>2. res[f] = out[f] \/ res[f] = [out[f] EXCEPT !.enabled = FALSE]
    BY DEF UnderParents
  <2> QED BY <2>1, <2>2 DEF FeatureState
<1>2. res = [f \in Features |-> res[f]]
  BY DEF UnderParents
<1>3. ASSUME NEW f \in Features, res[f].enabled, ParentOf[f] # NoFeature
      PROVE  res[ParentOf[f]].enabled
  <2> DEFINE p == ParentOf[f]
  <2>1. p \in Features /\ ParentOf[p] = NoFeature /\ (f \in ClientFeatures <=> p \in ClientFeatures)
    BY <1>3, RulesAssumption
  <2>2. out[f].enabled /\ out[f].applies
    BY <1>0, <1>1, <1>3
  <2>3. out[p].applies
    BY <1>0, <2>1, <2>2 DEF Applies
  <2>4. out[f] \in FeatureState
    BY <1>0 DEF Access
  <2>5. out[p].enabled
    BY <1>3, <2>2, <2>3, <2>4 DEF UnderParents, FeatureState
  <2>6. res[p] = out[p]
    BY <2>1 DEF UnderParents
  <2> QED BY <2>5, <2>6
<1> HIDE DEF res
<1>4. res \in Access
  BY <1>1, <1>2 DEF Access
<1>5. res \in AccessOf(role)
  BY <1>0, <1>1, <1>4 DEF AccessOf
<1>6. ParentsRule(res)
  BY <1>3 DEF ParentsRule
<1> QED BY <1>1, <1>5, <1>6 DEF res

\* The access of a coach, and of a client before the cap.
LEMMA CoachAccessRule ==
    ASSUME NEW default \in Layer, NEW plan \in Layer, NEW g \in Layer
    PROVE  /\ CoachAccess(default, plan, g) \in AccessOf("coach")
           /\ ParentsRule(CoachAccess(default, plan, g))
           /\ \A f \in Features : g[f].enabled = "off" => ~CoachAccess(default, plan, g)[f].enabled
  BY LayeredIsAccess, UnderParentsRule DEF CoachAccess

LEMMA UncappedRule ==
    ASSUME NEW default \in Layer, NEW plan \in Layer, NEW g \in Layer
    PROVE  /\ UncappedClientAccess(default, plan, g) \in AccessOf("client")
           /\ ParentsRule(UncappedClientAccess(default, plan, g))
           /\ \A f \in Features : g[f].enabled = "off" => ~UncappedClientAccess(default, plan, g)[f].enabled
  BY LayeredIsAccess, UnderParentsRule DEF UncappedClientAccess

\* The cap takes away what the coach does not have, and no more applies than before.
LEMMA CapIsWithin ==
    ASSUME NEW st \in FeatureState, NEW coach \in FeatureState
    PROVE  /\ CapByCoach(st, coach) \in FeatureState
           /\ CapByCoach(st, coach).applies = st.applies
           /\ st.applies /\ coach.applies =>
                /\ CapByCoach(st, coach).enabled = (st.enabled /\ coach.enabled)
                /\ CapByCoach(st, coach).limit <= coach.limit
           /\ CapByCoach(st, coach).enabled => st.enabled
<1>1. st.limit \in Limit /\ coach.limit \in Limit /\ st.applies \in BOOLEAN /\ st.enabled \in BOOLEAN
      /\ coach.enabled \in BOOLEAN
  BY DEF FeatureState, Limit
<1>2. Lower(st.limit, coach.limit) \in Limit /\ Lower(st.limit, coach.limit) <= coach.limit
  BY <1>1, LowerLimit
<1>3. CASE st.applies /\ coach.applies
  <2>1. CapByCoach(st, coach) = [applies |-> st.applies, enabled |-> st.enabled /\ coach.enabled,
                                 limit |-> Lower(st.limit, coach.limit)]
    BY <1>3 DEF CapByCoach, FeatureState
  <2> QED BY <1>1, <1>2, <2>1 DEF FeatureState, Limit
<1>4. CASE ~(st.applies /\ coach.applies)
  BY <1>4 DEF CapByCoach
<1> QED BY <1>3, <1>4

\* A capped client has nothing beyond his coach, and obeys the rule of parents.
LEMMA ClientAccessRule ==
    ASSUME NEW default \in Layer, NEW plan \in Layer, NEW g \in Layer,
           NEW coach \in AccessOf("coach"), ParentsRule(coach)
    PROVE  /\ ClientAccess(default, plan, g, coach) \in AccessOf("client")
           /\ ParentsRule(ClientAccess(default, plan, g, coach))
           /\ Within(ClientAccess(default, plan, g, coach), coach)
           /\ \A f \in Features : g[f].enabled = "off" => ~ClientAccess(default, plan, g, coach)[f].enabled
<1> DEFINE own == UncappedClientAccess(default, plan, g)
           res == ClientAccess(default, plan, g, coach)
<1>1. own \in AccessOf("client") /\ ParentsRule(own) /\ \A f \in Features : g[f].enabled = "off" => ~own[f].enabled
  BY UncappedRule
<1>2. res = [f \in Features |-> CapByCoach(own[f], coach[f])]
  BY DEF ClientAccess, UncappedClientAccess
<1> HIDE DEF own, res
<1>3. ASSUME NEW f \in Features
      PROVE  /\ own[f] \in FeatureState /\ coach[f] \in FeatureState
             /\ own[f].applies = Applies(f, "client") /\ (own[f].enabled => own[f].applies)
             /\ coach[f].applies
             /\ res[f] = CapByCoach(own[f], coach[f])
  BY <1>1, <1>2 DEF AccessOf, Access, Applies
<1>4. ASSUME NEW f \in Features
      PROVE  /\ res[f] \in FeatureState
             /\ res[f].applies = Applies(f, "client") /\ (res[f].enabled => res[f].applies)
             /\ res[f].enabled => own[f].enabled /\ coach[f].enabled
             /\ own[f].enabled /\ coach[f].enabled => res[f].enabled
             /\ f \in ClientFeatures => res[f].limit <= coach[f].limit
  <2> DEFINE cap == CapByCoach(own[f], coach[f])
  <2>1. /\ cap \in FeatureState
        /\ cap.applies = own[f].applies
        /\ own[f].applies => cap.enabled = (own[f].enabled /\ coach[f].enabled) /\ cap.limit <= coach[f].limit
        /\ cap.enabled => own[f].enabled
    BY <1>3, CapIsWithin
  <2> HIDE DEF cap
  <2>2. res[f] = cap
    BY <1>3 DEF cap
  <2>3. f \in ClientFeatures => own[f].applies
    BY <1>3 DEF Applies
  <2>4. own[f].enabled \in BOOLEAN /\ coach[f].enabled \in BOOLEAN /\ cap.enabled \in BOOLEAN
    BY <1>3, <2>1 DEF FeatureState
  <2>5. /\ cap.enabled => own[f].enabled /\ coach[f].enabled
        /\ own[f].enabled /\ coach[f].enabled => cap.enabled
    BY <1>3, <2>1, <2>4
  <2> QED BY <1>3, <2>1, <2>2, <2>3, <2>4, <2>5
<1>5. res \in AccessOf("client")
  BY <1>2, <1>4 DEF AccessOf, Access
<1>6. ParentsRule(res)
  <2> SUFFICES ASSUME NEW f \in Features, res[f].enabled, ParentOf[f] # NoFeature
               PROVE  res[ParentOf[f]].enabled
    BY DEF ParentsRule
  <2>1. ParentOf[f] \in Features
    BY RulesAssumption
  <2>2. own[ParentOf[f]].enabled /\ coach[ParentOf[f]].enabled
    BY <1>1, <1>4 DEF ParentsRule
  <2> QED BY <1>4, <2>1, <2>2
<1>7. Within(res, coach)
  <2>1. \A f \in ClientFeatures : f \in Features
    BY RulesAssumption
  <2> QED BY <1>4, <2>1 DEF Within
<1> QED BY <1>1, <1>4, <1>5, <1>6, <1>7 DEF res

-----------------------------------------------------------------------------
(* What is resolved and what is shown *)

LEMMA EmptyIsALayer == EmptyLayer \in Layer
  BY DEF EmptyLayer, Layer, Silent, FeatureGrant

LEMMA NoGrantIsOne == NoGrant \in Grant
  BY EmptyIsALayer, EntitlementsAssumption DEF NoGrant, Grant

\* The layers that a well-typed database has.
LEMMA LayersOf ==
    ASSUME NEW d \in Defaults, NEW g \in Grant, NEW k
    PROVE  d["coach"] \in Layer /\ d["client"] \in Layer /\ g.layer \in Layer /\ Counted(g, k) \in Layer
  BY EmptyIsALayer DEF Defaults, Grant, Counted

LEMMA CoachOfRule ==
    ASSUME NEW d \in Defaults, NEW g \in Grant
    PROVE  /\ CoachOf(d, g) \in AccessOf("coach")
           /\ ParentsRule(CoachOf(d, g))
           /\ \A f \in Features : g.layer[f].enabled = "off" => ~CoachOf(d, g)[f].enabled
<1>1. d["coach"] \in Layer /\ g.layer \in Layer
  BY LayersOf
<1> QED BY <1>1, EmptyIsALayer, CoachAccessRule DEF CoachOf

LEMMA ClientOfIsAccess ==
    ASSUME NEW d \in Defaults, NEW g \in Grant, NEW k, NEW cap \in Access
    PROVE  ClientOf(d, g, k, cap) \in Access
<1>1. d["client"] \in Layer /\ Counted(g, k) \in Layer
  BY LayersOf
<1>2. CASE k = Nobody
  BY <1>1, <1>2, EmptyIsALayer, UncappedRule DEF ClientOf, AccessOf
<1>3. CASE k # Nobody
  <2> DEFINE own == UncappedClientAccess(d["client"], EmptyLayer, Counted(g, k))
  <2>1. own \in Access
    BY <1>1, EmptyIsALayer, UncappedRule DEF AccessOf
  <2>2. ClientOf(d, g, k, cap) = [f \in Features |-> CapByCoach(own[f], cap[f])]
    BY <1>3 DEF ClientOf, ClientAccess, UncappedClientAccess
  <2> HIDE DEF own
  <2>3. \A f \in Features : CapByCoach(own[f], cap[f]) \in FeatureState
    BY <2>1, CapIsWithin DEF Access
  <2> QED BY <2>2, <2>3 DEF Access
<1> QED BY <1>2, <1>3

\* The access of no coach caps nothing.
LEMMA NoCap ==
    ASSUME NEW d \in Defaults, NEW g \in Grant, NEW k
    PROVE  ParentsRule(ClientOf(d, g, k, NoAccess)) /\ ParentsRule(ClientOf(d, g, Nobody, NoAccess))
<1> DEFINE own == UncappedClientAccess(d["client"], EmptyLayer, Counted(g, k))
<1>1. d["client"] \in Layer /\ Counted(g, k) \in Layer
  BY LayersOf
<1>2. ParentsRule(ClientOf(d, g, Nobody, NoAccess))
  BY <1>1, EmptyIsALayer, UncappedRule DEF ClientOf
<1>3. own \in Access /\ ParentsRule(own)
  BY <1>1, EmptyIsALayer, UncappedRule DEF AccessOf
<1>4. CASE k # Nobody
  <2>1. ClientOf(d, g, k, NoAccess) = [f \in Features |-> CapByCoach(own[f], NoAccess[f])]
    BY <1>4 DEF ClientOf, ClientAccess, UncappedClientAccess
  <2> HIDE DEF own
  <2>2. \A f \in Features : CapByCoach(own[f], NoAccess[f]) = own[f]
    BY DEF CapByCoach, NoAccess
  <2>3. ClientOf(d, g, k, NoAccess) = [f \in Features |-> own[f]]
    BY <2>1, <2>2
  <2>4. ParentsRule([f \in Features |-> own[f]])
    BY <1>3, RulesAssumption DEF ParentsRule
  <2> QED BY <1>2, <2>3, <2>4
<1> QED BY <1>2, <1>4

\* An access a coach may have.
Lawful(access) == access \in AccessOf("coach") /\ ParentsRule(access)

\* The cap of a client is nothing, or lawful.
LEMMA ClientOfRule ==
    ASSUME NEW d \in Defaults, NEW g \in Grant, NEW k, NEW cap, cap = NoAccess \/ Lawful(cap)
    PROVE  ParentsRule(ClientOf(d, g, k, cap))
<1>1. d["client"] \in Layer /\ Counted(g, k) \in Layer
  BY LayersOf
<1>2. CASE cap = NoAccess
  BY <1>2, NoCap
<1>3. CASE k = Nobody
  BY <1>1, <1>3, EmptyIsALayer, UncappedRule DEF ClientOf
<1>4. CASE k # Nobody /\ Lawful(cap)
  BY <1>1, <1>4, EmptyIsALayer, ClientAccessRule DEF ClientOf, Lawful
<1> QED BY <1>2, <1>3, <1>4

-----------------------------------------------------------------------------
(* Types *)

\* The load of the defaults reads nothing else, and a client's load resolves a coach.
FlightShape ==
    /\ flight[DefaultsKey].pc \in {"off", "read", "store", "failed"}
    /\ flight[Client].pc \in {"coach", "coachWait"} => flight[Client].coach \in Coaches

\* What a write in flight is about.
WriteShape(w) ==
    /\ w.pc \in {"get", "resolve", "resolveWait", "replace"} => w.target \in Subjects
    /\ w.pc \in {"resolve", "resolveWait"} => w.by \in Coaches
    /\ w.pc = "get" /\ w.target = Client => w.by \in Coaches
    /\ w.pc = "upsert" => w.target \in {"coach", "client"}
    /\ w.pc \in {"get", "resolve", "resolveWait", "replace", "upsert"} => w.patch \in Patches

TypeInv == TypeOK /\ FlightShape /\ \A q \in Requests : WriteShape(req[q])

LEMMA KeysOf ==
    /\ DefaultsKey \in Keys /\ Client \in Keys /\ Client \in Subjects
    /\ Coaches \subseteq Subjects /\ Subjects \subseteq Keys
    /\ DefaultsKey \notin Coaches /\ DefaultsKey # Client /\ Client \notin Coaches
    /\ Keys = {DefaultsKey, Client} \cup Coaches
    /\ Nobody \notin Coaches
  BY EntitlementsAssumption DEF Keys, Subjects, DefaultsKey

LEMMA Bounds == TTL \in Nat /\ TTL >= 1 /\ MaxSettled \in Nat /\ MaxVersion \in Nat /\ 0 \in 0 .. TTL - 1
  BY EntitlementsAssumption DEF MaxSettled

LEMMA NothingIsTyped ==
    /\ NoDefaults \in Defaults /\ NoAccess \in Access /\ NoGrant \in Grant
    /\ Missing \in Entry /\ Off \in Flight /\ Idle \in Write
<1>1. NoDefaults \in Defaults
  BY EmptyIsALayer DEF NoDefaults, Defaults
<1>2. NoAccess \in Access
  BY LimitIsNat DEF NoAccess, Access, FeatureState, Unlimited
<1>3. Missing \in Entry
  BY <1>1, <1>2, Bounds DEF Missing, Entry
<1>4. Off \in Flight
  BY <1>1, <1>2, NoGrantIsOne DEF Off, Flight
<1>5. Idle \in Write
  BY NoGrantIsOne DEF Idle, Write
<1> QED BY <1>1, <1>2, <1>3, <1>4, <1>5, NoGrantIsOne

LEMMA InitTypeInv == Init => TypeInv
<1> SUFFICES ASSUME Init PROVE TypeInv
  OBVIOUS
<1>1. TypeOK
  <2>1. settled \in 0 .. MaxSettled
    BY Bounds DEF Init
  <2> QED BY <2>1, NothingIsTyped, NoGrantIsOne DEF Init, TypeOK
<1>2. FlightShape
  BY KeysOf DEF Init, FlightShape, Off
<1>3. \A q \in Requests : WriteShape(req[q])
  BY DEF Init, WriteShape, Idle
<1> QED BY <1>1, <1>2, <1>3 DEF TypeInv

\* A step that changes flights only.
LEMMA FlightsTyped ==
    ASSUME TypeInv, UNCHANGED <<db, entry, req, settled, suspect>>, flight' \in [Keys -> Flight], FlightShape'
    PROVE  TypeInv'
  BY DEF TypeInv, TypeOK, db, WriteShape

LEMMA LoadStartTyped ==
    ASSUME TypeInv, NEW k \in Keys, LoadStart(k)
    PROVE  TypeInv'
<1>1. flight' \in [Keys -> Flight]
  BY DEF LoadStart, Goto, TypeInv, TypeOK, Flight
<1>2. FlightShape'
  BY KeysOf DEF LoadStart, Goto, TypeInv, TypeOK, Flight, FlightShape
<1> QED BY <1>1, <1>2, FlightsTyped DEF LoadStart

LEMMA ReadDefaultsTyped ==
    ASSUME TypeInv, ReadDefaults
    PROVE  TypeInv'
<1>0. [Off EXCEPT !.pc = "store", !.defaults = defaults] \in Flight
  BY NothingIsTyped DEF TypeInv, TypeOK, Flight
<1>1. flight' \in [Keys -> Flight]
  BY <1>0 DEF ReadDefaults, TypeInv, TypeOK
<1>2. FlightShape'
  BY KeysOf DEF ReadDefaults, TypeInv, TypeOK, Flight, FlightShape, Off
<1> QED BY <1>1, <1>2, FlightsTyped DEF ReadDefaults

LEMMA TakeDefaultsTyped ==
    ASSUME TypeInv, NEW k \in Keys, TakeDefaults(k)
    PROVE  TypeInv'
<1>0. k # DefaultsKey /\ entry[DefaultsKey].defaults \in Defaults /\ flight \in [Keys -> Flight] /\ FlightShape
  BY KeysOf DEF TakeDefaults, TypeInv, TypeOK, FlightShape, Entry
<1>1. flight' \in [Keys -> Flight] /\ FlightShape'
  <2>1. CASE Full(DefaultsKey)
    BY <1>0, <2>1, KeysOf DEF TakeDefaults, Flight, FlightShape
  <2>2. CASE ~Full(DefaultsKey)
    BY <1>0, <2>2, KeysOf DEF TakeDefaults, Flight, FlightShape
  <2> QED BY <2>1, <2>2
<1> QED BY <1>1, FlightsTyped DEF TakeDefaults

LEMMA ReadGrantTyped ==
    ASSUME TypeInv, NEW k \in Keys, ReadGrant(k)
    PROVE  TypeInv'
<1>0. k \in Subjects /\ grant[k] \in Grant /\ flight \in [Keys -> Flight] /\ FlightShape
  BY DEF ReadGrant, TypeInv, TypeOK, FlightShape, Keys
<1>1. flight' \in [Keys -> Flight] /\ FlightShape'
  BY <1>0, KeysOf DEF ReadGrant, Flight, FlightShape
<1> QED BY <1>1, FlightsTyped DEF ReadGrant

LEMMA ReadLinkTyped ==
    ASSUME TypeInv, ReadLink
    PROVE  TypeInv'
<1>0. link \in Coaches \cup {Nobody} /\ flight \in [Keys -> Flight] /\ FlightShape
  BY DEF TypeInv, TypeOK
<1>1. flight' \in [Keys -> Flight] /\ FlightShape'
  BY <1>0, KeysOf DEF ReadLink, Flight, FlightShape
<1> QED BY <1>1, FlightsTyped DEF ReadLink

LEMMA TakeCoachTyped ==
    ASSUME TypeInv, TakeCoach
    PROVE  TypeInv'
<1> DEFINE k == flight[Client].coach
<1>0. /\ k \in Coaches /\ entry[k].access \in Access /\ NoAccess \in Access
      /\ flight \in [Keys -> Flight] /\ FlightShape
  BY KeysOf, NothingIsTyped DEF TakeCoach, TypeInv, TypeOK, FlightShape, Entry
<1>1. flight' \in [Keys -> Flight] /\ FlightShape'
  <2>1. CASE Full(k) \/ NotFound(k)
    <3> DEFINE a == IF Full(k) THEN entry[k].access ELSE NoAccess
               f == [flight[Client] EXCEPT !.pc = "store", !.cap = a]
    <3>1. flight' = [flight EXCEPT ![Client].pc = "store", ![Client].cap = a]
      BY <2>1 DEF TakeCoach
    <3>2. a \in Access /\ flight[Client] \in Flight
      BY <1>0, KeysOf
    <3>3. flight' = [flight EXCEPT ![Client] = f]
      BY <3>1
    <3> HIDE DEF a, k
    <3>4. f \in Flight
      BY <3>2 DEF Flight
    <3>5. f.pc = "store"
      BY <3>2 DEF Flight
    <3> HIDE DEF f
    <3>6. flight' \in [Keys -> Flight] /\ FlightShape'
      BY <1>0, <3>3, <3>4, <3>5, KeysOf DEF FlightShape
    <3> QED BY <3>6
  <2>2. CASE ~(Full(k) \/ NotFound(k))
    <3>1. flight' = [flight EXCEPT ![Client].pc = "coachWait", ![k].pc = IF @ = "off" THEN "defaults" ELSE @]
      BY <2>2 DEF TakeCoach
    <3>2. flight[Client].coach \in Coaches
      BY <1>0
    <3> HIDE DEF k
    <3>3. flight' \in [Keys -> Flight]
      BY <1>0, <3>1, KeysOf DEF Flight
    <3>4. FlightShape'
      BY <1>0, <3>1, <3>2, KeysOf DEF Flight, FlightShape
    <3> QED BY <3>3, <3>4
  <2> QED BY <2>1, <2>2
<1> QED BY <1>1, FlightsTyped DEF TakeCoach

\* What a load stores is typed.
LEMMA LoadedTyped ==
    ASSUME TypeInv, NEW k \in Keys
    PROVE  Loaded(k) \in Entry /\ Loaded(k).full /\ Loaded(k).age = 0
<1> DEFINE f == flight[k]
           a == CASE k = DefaultsKey -> NoAccess
                  [] k \in Coaches -> CoachOf(f.defaults, f.grant)
                  [] OTHER -> ClientOf(f.defaults, f.grant, f.coach, f.cap)
           d == IF k = DefaultsKey THEN f.defaults ELSE NoDefaults
<1>0. f.defaults \in Defaults /\ f.grant \in Grant /\ f.cap \in Access
  BY DEF TypeInv, TypeOK, Flight
<1>1. NoAccess \in Access /\ NoDefaults \in Defaults
  BY NothingIsTyped
<1>2. CoachOf(f.defaults, f.grant) \in Access
  BY <1>0, CoachOfRule DEF AccessOf
<1>3. ClientOf(f.defaults, f.grant, f.coach, f.cap) \in Access
  BY <1>0, ClientOfIsAccess
<1> HIDE DEF f
<1>4. a \in Access /\ d \in Defaults
  BY <1>0, <1>1, <1>2, <1>3
<1>5. Loaded(k) = [Missing EXCEPT !.full = TRUE, !.defaults = d, !.access = a]
  BY Zenon DEF Loaded, Missing, f
<1> HIDE DEF a, d
<1>6. Loaded(k) = [full |-> TRUE, age |-> 0, defaults |-> d, access |-> a]
  BY <1>5 DEF Missing
<1> QED BY <1>4, <1>6, Bounds DEF Entry

\* A write that was checked goes on or ends.
LEMMA CheckedTyped ==
    ASSUME NEW w \in Write, WriteShape(w), w.pc \in {"resolve", "resolveWait"}, NEW access
    PROVE  Checked(w, access) \in Write /\ WriteShape(Checked(w, access))
           /\ (Checked(w, access) = Idle \/ Checked(w, access) = [w EXCEPT !.pc = "replace"])
<1>1. Idle \in Write /\ WriteShape(Idle)
  BY NothingIsTyped DEF WriteShape, Idle
<1>2. [w EXCEPT !.pc = "replace"] \in Write /\ WriteShape([w EXCEPT !.pc = "replace"])
  BY DEF Write, WriteShape
<1> QED BY <1>1, <1>2 DEF Checked

LEMMA StoreTyped ==
    ASSUME TypeInv, NEW k \in Keys, Store(k)
    PROVE  TypeInv'
<1>0. /\ flight \in [Keys -> Flight] /\ entry \in [Keys -> Entry] /\ req \in [Requests -> Write]
      /\ FlightShape /\ \A q \in Requests : WriteShape(req[q])
      /\ Loaded(k) \in Entry
  BY LoadedTyped DEF TypeInv, TypeOK
<1>1. entry' \in [Keys -> Entry]
  BY <1>0 DEF Store
<1>2. ASSUME NEW j \in Keys
      PROVE  /\ flight'[j] \in Flight
             /\ flight'[j] = Off \/ flight'[j] = flight[j] \/ (j # DefaultsKey /\ flight'[j].pc \in {"grant", "store"})
  <2>1. CASE j = k
    BY <2>1, NothingIsTyped DEF Store
  <2>2. CASE j # k /\ WaitsFor(j, k) /\ k = DefaultsKey
    <3>1. flight'[j] = [flight[j] EXCEPT !.pc = "grant", !.defaults = flight[k].defaults]
      BY <2>2 DEF Store
    <3>2. flight[j] \in Flight /\ flight[k].defaults \in Defaults
      BY <1>0 DEF Flight
    <3> QED BY <2>2, <3>1, <3>2 DEF Flight
  <2>3. CASE j # k /\ WaitsFor(j, k) /\ k # DefaultsKey
    <3>1. flight'[j] = [flight[j] EXCEPT !.pc = "store", !.cap = Loaded(k).access]
      BY <2>3 DEF Store
    <3>2. flight[j] \in Flight /\ Loaded(k).access \in Access
      BY <1>0 DEF Entry
    <3>3. j # DefaultsKey
      BY <2>3, KeysOf DEF WaitsFor
    <3> QED BY <3>1, <3>2, <3>3 DEF Flight
  <2>4. CASE j # k /\ ~WaitsFor(j, k)
    <3>1. flight'[j] = flight[j]
      BY <2>4 DEF Store
    <3> QED BY <1>0, <3>1
  <2> QED BY <2>1, <2>2, <2>3, <2>4
<1>3. flight' \in [Keys -> Flight]
  BY <1>2 DEF Store
<1>4. FlightShape'
  BY <1>0, <1>2, KeysOf DEF FlightShape, Off
<1>5. ASSUME NEW q \in Requests
      PROVE  req'[q] \in Write /\ WriteShape(req'[q])
  <2>1. CASE req[q].pc = "resolveWait" /\ req[q].by = k
    <3>1. req'[q] = Checked(req[q], Loaded(k).access)
      BY <2>1 DEF Store
    <3> QED BY <1>0, <2>1, <3>1, CheckedTyped
  <2>2. CASE ~(req[q].pc = "resolveWait" /\ req[q].by = k)
    <3>1. req'[q] = req[q]
      BY <2>2 DEF Store
    <3> QED BY <1>0, <3>1
  <2> QED BY <2>1, <2>2
<1>6. req' \in [Requests -> Write]
  BY <1>5 DEF Store
<1>7. TypeOK'
  BY <1>1, <1>3, <1>6 DEF Store, TypeInv, TypeOK, db
<1>8. (\A q \in Requests : WriteShape(req[q]))'
  BY <1>5 DEF WriteShape
<1> QED BY <1>4, <1>7, <1>8 DEF TypeInv

LEMMA FailTyped ==
    ASSUME TypeInv, NEW k \in Keys, Fail(k)
    PROVE  TypeInv'
<1>0. /\ flight \in [Keys -> Flight] /\ req \in [Requests -> Write] /\ FlightShape
      /\ \A q \in Requests : WriteShape(req[q])
      /\ Idle \in Write /\ WriteShape(Idle) /\ Off \in Flight
  BY NothingIsTyped DEF TypeInv, TypeOK, WriteShape, Idle
<1>1. [Off EXCEPT !.pc = "failed"] \in Flight
  BY <1>0 DEF Off, Flight
<1>2. ASSUME NEW j \in Keys
      PROVE  flight'[j] \in {Off, [Off EXCEPT !.pc = "failed"], flight[j]}
  BY DEF Fail
<1>3. flight' \in [Keys -> Flight]
  BY <1>0, <1>1, <1>2 DEF Fail
<1>4. FlightShape'
  BY <1>0, <1>2, KeysOf DEF FlightShape, Off
<1>5. ASSUME NEW q \in Requests PROVE req'[q] \in {req[q], Idle}
  BY DEF Fail
<1>6. req' \in [Requests -> Write]
  BY <1>0, <1>5 DEF Fail
<1>7. TypeOK'
  BY <1>3, <1>6 DEF Fail, TypeInv, TypeOK, db
<1>8. (\A q \in Requests : WriteShape(req[q]))'
  BY <1>0, <1>5 DEF WriteShape
<1> QED BY <1>4, <1>7, <1>8 DEF TypeInv

LEMMA TickTyped ==
    ASSUME TypeInv, Tick
    PROVE  TypeInv'
<1>0. entry \in [Keys -> Entry] /\ settled \in 0 .. MaxSettled
  BY DEF TypeInv, TypeOK
<1>1. ASSUME NEW k \in Keys PROVE entry'[k] \in Entry
  <2>1. CASE Full(k) /\ Served(entry[k])
    <3>1. entry'[k] = [entry[k] EXCEPT !.age = entry[k].age + 1]
      BY <2>1 DEF Tick
    <3>2. entry[k] \in Entry /\ entry[k].age \in 0 .. TTL - 1 /\ entry[k].age < TTL - 1
      BY <1>0, <2>1 DEF Served, Entry
    <3>3. entry[k].age + 1 \in 0 .. TTL - 1
      BY <3>2, Bounds
    <3> QED BY <3>1, <3>2, <3>3 DEF Entry
  <2>2. CASE ~(Full(k) /\ Served(entry[k]))
    BY <2>2, NothingIsTyped DEF Tick
  <2> QED BY <2>1, <2>2
<1>2. entry' \in [Keys -> Entry]
  BY <1>1 DEF Tick
<1>3. settled' \in 0 .. MaxSettled
  BY <1>0, Bounds DEF Tick, Lower
<1> QED BY <1>2, <1>3 DEF Tick, TypeInv, TypeOK, db, FlightShape, WriteShape

-----------------------------------------------------------------------------
(* Types: the writes *)

\* A patched layer is one.
LEMMA PatchedLayer ==
    ASSUME NEW layer \in Layer, NEW patch \in Patches
    PROVE  ApplyPatch(layer, patch) \in Layer
<1>1. ASSUME NEW f \in Features PROVE ApplyPatch(layer, patch)[f] \in FeatureGrant
  <2>1. layer[f] \in FeatureGrant
    BY DEF Layer
  <2>2. CASE f \notin DOMAIN patch
    BY <2>1, <2>2 DEF ApplyPatch
  <2>3. CASE f \in DOMAIN patch
    <3>1. patch[f] \in FeaturePatch
      BY <2>3, EntitlementsAssumption
    <3>2. patch[f].limit # Keep => patch[f].limit \in {Inherit} \cup 0 .. MaxLimit
      BY <3>1 DEF FeaturePatch
    <3>3. patch[f].enabled # "keep" => patch[f].enabled \in {"on", "off", "inherit"}
      BY <3>1 DEF FeaturePatch
    <3>4. ApplyPatch(layer, patch)[f] =
            [enabled |-> IF patch[f].enabled = "keep" THEN layer[f].enabled ELSE patch[f].enabled,
             limit |-> IF patch[f].limit = Keep THEN layer[f].limit ELSE patch[f].limit]
      BY <2>3 DEF ApplyPatch
    <3> QED BY <2>1, <3>2, <3>3, <3>4 DEF FeatureGrant
  <2> QED BY <2>2, <2>3
<1>2. ApplyPatch(layer, patch) = [f \in Features |-> ApplyPatch(layer, patch)[f]]
  BY DEF ApplyPatch
<1> QED BY <1>1, <1>2 DEF Layer

LEMMA NextLayerTyped ==
    ASSUME NEW w \in Write, w.patch \in Patches
    PROVE  NextLayer(w) \in Layer
<1> DEFINE base == IF w.target = Client /\ w.snap.by # w.by THEN EmptyLayer ELSE w.snap.layer
<1>1. w.snap.layer \in Layer
  BY DEF Write, Grant
<1>2. base \in Layer
  BY <1>1, EmptyIsALayer
<1>3. NextLayer(w) = ApplyPatch(base, w.patch)
  BY DEF NextLayer
<1> HIDE DEF base
<1> QED BY <1>2, <1>3, PatchedLayer

\* A step that changes one write only.
LEMMA OneWriteTyped ==
    ASSUME TypeInv, NEW q \in Requests, NEW w \in Write, WriteShape(w),
           UNCHANGED <<db, entry, flight, settled, suspect>>, req' = [req EXCEPT ![q] = w]
    PROVE  TypeInv'
<1>1. req' \in [Requests -> Write]
  BY DEF TypeInv, TypeOK
<1>2. ASSUME NEW j \in Requests PROVE req'[j] = w \/ req'[j] = req[j]
  BY DEF TypeInv, TypeOK
<1>3. ASSUME NEW j \in Requests PROVE WriteShape(req'[j])
  BY <1>2, <1>3 DEF TypeInv
<1>4. TypeOK' /\ FlightShape'
  BY <1>1 DEF TypeInv, TypeOK, FlightShape, db
<1>5. (\A j \in Requests : WriteShape(req[j]))'
  BY <1>3 DEF WriteShape
<1> QED BY <1>4, <1>5 DEF TypeInv

LEMMA IdleShape == Idle \in Write /\ WriteShape(Idle)
  BY NothingIsTyped DEF WriteShape, Idle

LEMMA SetCoachAccessTyped ==
    ASSUME TypeInv, NEW q \in Requests, NEW k \in Coaches, NEW patch \in Patches, SetCoachAccess(q, k, patch)
    PROVE  TypeInv'
<1> DEFINE w == [Idle EXCEPT !.pc = "get", !.target = k, !.patch = patch]
<1>1. w \in Write /\ WriteShape(w)
  BY NothingIsTyped, KeysOf, EntitlementsAssumption DEF Write, WriteShape, Idle
<1>2. UNCHANGED <<db, entry, flight, settled, suspect>> /\ req' = [req EXCEPT ![q] = w]
  BY DEF SetCoachAccess
<1> HIDE DEF w
<1> QED BY <1>1, <1>2, OneWriteTyped

LEMMA SetClientAccessTyped ==
    ASSUME TypeInv, NEW q \in Requests, NEW k \in Coaches, NEW patch \in Patches, SetClientAccess(q, k, patch)
    PROVE  TypeInv'
<1> DEFINE w == [Idle EXCEPT !.pc = "get", !.target = Client, !.by = k, !.patch = patch]
<1>1. w \in Write /\ WriteShape(w)
  BY NothingIsTyped, KeysOf DEF Write, WriteShape, Idle
<1>2. UNCHANGED <<db, entry, flight, settled, suspect>> /\ req' = [req EXCEPT ![q] = w]
  BY DEF SetClientAccess
<1> HIDE DEF w
<1> QED BY <1>1, <1>2, OneWriteTyped

LEMMA GetGrantTyped ==
    ASSUME TypeInv, NEW q \in Requests, GetGrant(q)
    PROVE  TypeInv'
<1> DEFINE r == req[q]
           w == [r EXCEPT !.snap = grant[r.target], !.pc = IF r.target = Client THEN "resolve" ELSE "replace"]
<1>0. r \in Write /\ WriteShape(r) /\ r.pc = "get" /\ r.target \in Subjects /\ r.patch \in Patches
      /\ req \in [Requests -> Write]
  BY DEF TypeInv, TypeOK, GetGrant, WriteShape
<1>1. grant[r.target] \in Grant
  BY <1>0 DEF TypeInv, TypeOK
<1>2. UNCHANGED <<db, entry, flight, settled, suspect>> /\ req' = [req EXCEPT ![q] = w]
  BY <1>0 DEF GetGrant
<1> HIDE DEF r
<1>3. w \in Write
  BY <1>0, <1>1 DEF Write
<1>4. WriteShape(w)
  BY <1>0, <1>1 DEF Write, WriteShape
<1> HIDE DEF w
<1> QED BY <1>2, <1>3, <1>4, OneWriteTyped

LEMMA ResolveCoachTyped ==
    ASSUME TypeInv, NEW q \in Requests, ResolveCoach(q)
    PROVE  TypeInv'
<1> DEFINE r == req[q]
           k == r.by
<1>0. r \in Write /\ WriteShape(r) /\ r.pc = "resolve" /\ k \in Coaches /\ req \in [Requests -> Write]
      /\ flight \in [Keys -> Flight] /\ FlightShape
  BY DEF TypeInv, TypeOK, ResolveCoach, WriteShape
<1>1. CASE Full(k)
  <2>1. UNCHANGED <<db, entry, flight, settled, suspect>> /\ req' = [req EXCEPT ![q] = Checked(r, entry[k].access)]
    BY <1>1 DEF ResolveCoach, NotFound
  <2>2. Checked(r, entry[k].access) \in Write /\ WriteShape(Checked(r, entry[k].access))
    BY <1>0, CheckedTyped
  <2> QED BY <2>1, <2>2, OneWriteTyped
<1>3. CASE ~Full(k) /\ NotFound(k)
  <2>1. UNCHANGED <<db, entry, flight, settled, suspect>> /\ req' = [req EXCEPT ![q] = Idle]
    BY <1>3 DEF ResolveCoach
  <2> QED BY <2>1, IdleShape, OneWriteTyped
<1>2. CASE ~Full(k) /\ ~NotFound(k)
  <2>1. /\ UNCHANGED <<db, entry, settled, suspect>>
        /\ req' = [req EXCEPT ![q].pc = "resolveWait"]
        /\ flight' = [flight EXCEPT ![k].pc = IF @ = "off" THEN "defaults" ELSE @]
    BY <1>0, <1>2 DEF ResolveCoach
  <2> HIDE DEF r, k
  <2>2. flight' \in [Keys -> Flight]
    BY <1>0, <2>1, KeysOf DEF Flight
  <2>3. FlightShape'
    BY <1>0, <2>1, KeysOf DEF Flight, FlightShape
  <2>4. req' \in [Requests -> Write]
    BY <1>0, <2>1 DEF Write
  <2>5. ASSUME NEW j \in Requests PROVE WriteShape(req'[j])
    <3>1. CASE j = q
      <4>1. req'[j] = [r EXCEPT !.pc = "resolveWait"]
        BY <1>0, <2>1, <3>1 DEF r
      <4> QED BY <1>0, <4>1 DEF Write, WriteShape, k
    <3>2. CASE j # q
      <4>1. req'[j] = req[j]
        BY <1>0, <2>1, <3>2
      <4> QED BY <4>1 DEF TypeInv
    <3> QED BY <3>1, <3>2
  <2>6. TypeOK'
    BY <2>1, <2>2, <2>4 DEF TypeInv, TypeOK, db
  <2>7. (\A j \in Requests : WriteShape(req[j]))'
    BY <2>5 DEF WriteShape
  <2> QED BY <2>3, <2>6, <2>7 DEF TypeInv
<1> QED BY <1>1, <1>2, <1>3

LEMMA ReplaceGrantTyped ==
    ASSUME TypeInv, NEW q \in Requests, ReplaceGrant(q)
    PROVE  TypeInv'
<1> DEFINE r == req[q]
           g == [version |-> r.snap.version + 1, by |-> r.by, layer |-> NextLayer(r)]
           w == [Idle EXCEPT !.pc = "purge"]
<1>0. /\ r \in Write /\ r.pc = "replace" /\ r.target \in Subjects /\ r.patch \in Patches
      /\ req \in [Requests -> Write] /\ grant \in [Subjects -> Grant]
      /\ \A j \in Requests : WriteShape(req[j])
  BY DEF TypeInv, TypeOK, ReplaceGrant, WriteShape
<1>1. CASE IsNoOp(r) \/ ~VersionMatches(r)
  <2>1. UNCHANGED <<db, entry, flight, settled, suspect>> /\ req' = [req EXCEPT ![q] = Idle]
    BY <1>1 DEF ReplaceGrant, db
  <2> QED BY <2>1, IdleShape, OneWriteTyped
<1>2. CASE ~(IsNoOp(r) \/ ~VersionMatches(r))
  <2>1. /\ r.snap.version < MaxVersion
        /\ grant' = [grant EXCEPT ![r.target] = g]
        /\ req' = [req EXCEPT ![q] = w]
        /\ settled' = 0 /\ suspect' = TRUE
        /\ UNCHANGED <<defaults, link, gone, entry, flight>>
    BY <1>2 DEF ReplaceGrant, Written
  <2>2. r.snap.version \in 0 .. MaxVersion /\ r.by \in Coaches \cup {Nobody} /\ NextLayer(r) \in Layer
    BY <1>0, NextLayerTyped DEF Write, Grant
  <2>3. r.snap.version + 1 \in 0 .. MaxVersion /\ r.snap.version + 1 # 0
    BY <2>1, <2>2, Bounds
  <2> HIDE DEF r
  <2>4. g \in Grant /\ g.version # 0
    BY <2>2, <2>3 DEF Grant
  <2>5. w \in Write /\ WriteShape(w)
    BY NothingIsTyped DEF Write, WriteShape, Idle
  <2> HIDE DEF g, w
  <2>6. grant' \in [Subjects -> Grant] /\ \A s \in Subjects : grant'[s] = g \/ grant'[s] = grant[s]
    BY <1>0, <2>1, <2>4
  <2>7. req' \in [Requests -> Write] /\ \A j \in Requests : req'[j] = w \/ req'[j] = req[j]
    BY <1>0, <2>1, <2>5
  <2>8. \A s \in Subjects : grant'[s].version = 0 => grant'[s] = NoGrant
    BY <2>4, <2>6 DEF TypeInv, TypeOK
  <2>9. TypeOK'
    BY <2>1, <2>6, <2>7, <2>8, Bounds DEF TypeInv, TypeOK
  <2>10. \A j \in Requests : WriteShape(req'[j])
    BY <1>0, <2>5, <2>7
  <2>11. (\A j \in Requests : WriteShape(req[j]))'
    BY <2>10 DEF WriteShape
  <2>12. FlightShape'
    BY <2>1 DEF TypeInv, FlightShape
  <2> QED BY <2>9, <2>11, <2>12 DEF TypeInv
<1> QED BY <1>1, <1>2

LEMMA ListDefaultsTyped ==
    ASSUME TypeInv, NEW q \in Requests, NEW role \in EditedRoles, NEW patch \in DefaultPatches, ListDefaults(q, role, patch)
    PROVE  TypeInv'
<1> DEFINE snap == [NoGrant EXCEPT !.layer = defaults[role]]
           w == [Idle EXCEPT !.pc = "upsert", !.target = role, !.patch = patch, !.snap = snap]
<1>1. role \in {"coach", "client"} /\ patch \in Patches /\ defaults[role] \in Layer
  BY EntitlementsAssumption DEF TypeInv, TypeOK, Defaults
<1>2. snap \in Grant
  BY <1>1, NoGrantIsOne DEF NoGrant, Grant
<1>3. UNCHANGED <<db, entry, flight, settled, suspect>> /\ req' = [req EXCEPT ![q] = w]
  BY DEF ListDefaults
<1> HIDE DEF snap
<1>4. w \in Write /\ WriteShape(w)
  BY <1>1, <1>2, NothingIsTyped DEF Write, WriteShape, Idle
<1> HIDE DEF w
<1> QED BY <1>3, <1>4, OneWriteTyped

LEMMA UpsertDefaultTyped ==
    ASSUME TypeInv, NEW q \in Requests, UpsertDefault(q)
    PROVE  TypeInv'
<1> DEFINE r == req[q]
           w == [Idle EXCEPT !.pc = "purge"]
           new == ApplyPatch(r.snap.layer, r.patch)
<1>0. /\ r \in Write /\ r.pc = "upsert" /\ r.target \in {"coach", "client"} /\ r.patch \in Patches
      /\ req \in [Requests -> Write] /\ defaults \in Defaults
      /\ \A j \in Requests : WriteShape(req[j])
  BY DEF TypeInv, TypeOK, UpsertDefault, WriteShape
<1>1. /\ defaults' = [defaults EXCEPT ![r.target] = new]
      /\ req' = [req EXCEPT ![q] = w]
      /\ settled' = 0 /\ suspect' = TRUE
      /\ UNCHANGED <<grant, link, gone, entry, flight>>
  BY DEF UpsertDefault, Written
<1>2. r.snap.layer \in Layer
  BY <1>0 DEF Write, Grant
<1>3. new \in Layer
  BY <1>0, <1>2, PatchedLayer
<1>4. w \in Write /\ WriteShape(w)
  BY NothingIsTyped DEF Write, WriteShape, Idle
<1> HIDE DEF r, new, w
<1>5. defaults' \in Defaults
  BY <1>0, <1>1, <1>3 DEF Defaults
<1>6. req' \in [Requests -> Write] /\ \A j \in Requests : req'[j] = w \/ req'[j] = req[j]
  BY <1>0, <1>1, <1>4
<1>7. TypeOK'
  BY <1>1, <1>5, <1>6, Bounds DEF TypeInv, TypeOK
<1>8. \A j \in Requests : WriteShape(req'[j])
  BY <1>0, <1>4, <1>6
<1>9. (\A j \in Requests : WriteShape(req[j]))'
  BY <1>8 DEF WriteShape
<1>10. FlightShape'
  BY <1>1 DEF TypeInv, FlightShape
<1> QED BY <1>7, <1>9, <1>10 DEF TypeInv

LEMMA PurgeTyped ==
    ASSUME TypeInv, NEW q \in Requests, PurgeUsers(q) \/ PurgeDefaults(q)
    PROVE  TypeInv'
<1> DEFINE w == IF PurgeUsers(q) THEN [Idle EXCEPT !.pc = "purgeDefaults"] ELSE Idle
<1>0. /\ req \in [Requests -> Write] /\ \A j \in Requests : WriteShape(req[j])
      /\ entry \in [Keys -> Entry] /\ suspect \in BOOLEAN
  BY DEF TypeInv, TypeOK
<1>1. entry' \in [Keys -> Entry]
  BY <1>0, NothingIsTyped DEF PurgeUsers, PurgeDefaults, DefaultsPurged
<1>2. w \in Write /\ WriteShape(w)
  BY NothingIsTyped, IdleShape DEF Write, WriteShape, Idle
<1>3. req' = [req EXCEPT ![q] = w]
  BY DEF PurgeUsers, PurgeDefaults
<1> HIDE DEF w
<1>4. req' \in [Requests -> Write] /\ \A j \in Requests : req'[j] = w \/ req'[j] = req[j]
  BY <1>0, <1>2, <1>3
<1>5. suspect' \in BOOLEAN
  BY <1>0 DEF PurgeUsers, PurgeDefaults
<1>6. UNCHANGED <<db, flight, settled>>
  BY DEF PurgeUsers, PurgeDefaults
<1>7. TypeOK'
  BY <1>1, <1>4, <1>5, <1>6 DEF TypeInv, TypeOK, db
<1>8. \A j \in Requests : WriteShape(req'[j])
  BY <1>0, <1>2, <1>4
<1>9. (\A j \in Requests : WriteShape(req[j]))'
  BY <1>8 DEF WriteShape
<1>10. FlightShape'
  BY <1>6 DEF TypeInv, FlightShape
<1> QED BY <1>7, <1>9, <1>10 DEF TypeInv

LEMMA AbortTyped ==
    ASSUME TypeInv, NEW q \in Requests, Abort(q)
    PROVE  TypeInv'
  BY IdleShape, OneWriteTyped DEF Abort

\* A write elsewhere: nothing of this instance changes.
LEMMA ElsewhereTyped ==
    ASSUME TypeInv, Written, UNCHANGED <<entry, flight, req>>,
           defaults' \in Defaults, grant' \in [Subjects -> Grant], link' \in Coaches \cup {Nobody},
           gone' \subseteq Coaches,
           \A s \in Subjects : grant'[s].version = 0 => grant'[s] = NoGrant
    PROVE  TypeInv'
<1>1. TypeOK'
  BY Bounds DEF TypeInv, TypeOK, Written
<1>2. FlightShape' /\ (\A j \in Requests : WriteShape(req[j]))'
  BY DEF TypeInv, FlightShape, WriteShape
<1> QED BY <1>1, <1>2 DEF TypeInv

LEMMA RemoteGrantTyped ==
    ASSUME TypeInv, NEW s \in Subjects, NEW k \in Coaches \cup {Nobody}, NEW patch \in Patches, RemoteGrant(s, k, patch)
    PROVE  TypeInv'
<1> DEFINE old == grant[s]
           base == IF old.by = k THEN old.layer ELSE EmptyLayer
           new == ApplyPatch(base, patch)
           g == [version |-> old.version + 1, by |-> k, layer |-> new]
<1>0. old \in Grant /\ grant \in [Subjects -> Grant] /\ \A j \in Subjects : grant[j].version = 0 => grant[j] = NoGrant
  BY DEF TypeInv, TypeOK
<1>1. old.layer \in Layer /\ old.version \in 0 .. MaxVersion
  BY <1>0 DEF Grant
<1>2. base \in Layer
  BY <1>1, EmptyIsALayer
<1>3. /\ old.version < MaxVersion
      /\ grant' = [grant EXCEPT ![s] = g]
      /\ Written
      /\ UNCHANGED <<defaults, link, gone, entry, flight, req>>
  BY DEF RemoteGrant
<1>4. old.version + 1 \in 0 .. MaxVersion /\ old.version + 1 # 0
  BY <1>1, <1>3, Bounds
<1> HIDE DEF old, base
<1>5. new \in Layer
  BY <1>2, PatchedLayer
<1> HIDE DEF new
<1>6. g \in Grant /\ g.version # 0
  BY <1>4, <1>5 DEF Grant
<1> HIDE DEF g
<1>7. grant' \in [Subjects -> Grant] /\ \A j \in Subjects : grant'[j] = g \/ grant'[j] = grant[j]
  BY <1>0, <1>3, <1>6
<1>8. \A j \in Subjects : grant'[j].version = 0 => grant'[j] = NoGrant
  BY <1>0, <1>6, <1>7
<1>9. defaults' \in Defaults /\ link' \in Coaches \cup {Nobody} /\ gone' \subseteq Coaches
  BY <1>3 DEF TypeInv, TypeOK
<1> QED BY <1>3, <1>7, <1>8, <1>9, ElsewhereTyped

LEMMA RemoteDefaultTyped ==
    ASSUME TypeInv, NEW role \in EditedRoles, NEW patch \in DefaultPatches, RemoteDefault(role, patch)
    PROVE  TypeInv'
<1> DEFINE new == ApplyPatch(defaults[role], patch)
<1>1. role \in {"coach", "client"} /\ patch \in Patches /\ defaults \in Defaults /\ defaults[role] \in Layer
  BY EntitlementsAssumption DEF TypeInv, TypeOK, Defaults
<1>2. new \in Layer
  BY <1>1, PatchedLayer
<1>3. defaults' = [defaults EXCEPT ![role] = new]
  BY DEF RemoteDefault
<1> HIDE DEF new
<1>4. defaults' \in Defaults
  BY <1>1, <1>2, <1>3 DEF Defaults
<1> QED BY <1>4, ElsewhereTyped DEF RemoteDefault, TypeInv, TypeOK

LEMMA ChangeLinkTyped ==
    ASSUME TypeInv, ChangeLink
    PROVE  TypeInv'
  BY ElsewhereTyped DEF ChangeLink, TypeInv, TypeOK

LEMMA DeleteCoachTyped ==
    ASSUME TypeInv, DeleteCoach
    PROVE  TypeInv'
  BY ElsewhereTyped DEF DeleteCoach, TypeInv, TypeOK

LEMMA StutterTyped ==
    ASSUME TypeInv, UNCHANGED vars
    PROVE  TypeInv'
  BY DEF vars, TypeInv, TypeOK, FlightShape, WriteShape, Full

LEMMA StepTypeInv ==
    ASSUME TypeInv, [Next]_vars
    PROVE  TypeInv'
<1>1. ASSUME NEW k \in Keys, Load(k) PROVE TypeInv'
  BY <1>1, LoadStartTyped, TakeDefaultsTyped, ReadGrantTyped, StoreTyped, FailTyped DEF Load
<1>2. ASSUME NEW q \in Requests, WriteStep(q) PROVE TypeInv'
  <2>1. ASSUME NEW patch \in Patches, NEW k \in Coaches, SetCoachAccess(q, k, patch) \/ SetClientAccess(q, k, patch)
        PROVE  TypeInv'
    BY <2>1, SetCoachAccessTyped, SetClientAccessTyped
  <2>2. ASSUME NEW patch \in DefaultPatches, NEW role \in EditedRoles, ListDefaults(q, role, patch)
        PROVE  TypeInv'
    BY <2>2, ListDefaultsTyped
  <2>3. CASE GetGrant(q) \/ ResolveCoach(q) \/ ReplaceGrant(q)
    BY <2>3, GetGrantTyped, ResolveCoachTyped, ReplaceGrantTyped
  <2>4. CASE UpsertDefault(q) \/ PurgeUsers(q) \/ PurgeDefaults(q) \/ Abort(q)
    BY <2>4, UpsertDefaultTyped, PurgeTyped, AbortTyped
  <2> QED BY <1>2, <2>1, <2>2, <2>3, <2>4 DEF WriteStep
<1>3. CASE Elsewhere
  <2>1. ASSUME NEW patch \in Patches, NEW s \in Subjects, NEW k \in Coaches \cup {Nobody}, RemoteGrant(s, k, patch)
        PROVE  TypeInv'
    BY <2>1, RemoteGrantTyped
  <2>2. ASSUME NEW patch \in DefaultPatches, NEW role \in EditedRoles, RemoteDefault(role, patch)
        PROVE  TypeInv'
    BY <2>2, RemoteDefaultTyped
  <2> QED BY <1>3, <2>1, <2>2, ChangeLinkTyped, DeleteCoachTyped DEF Elsewhere
<1>4. CASE Tick \/ ReadDefaults \/ ReadLink \/ TakeCoach
  BY <1>4, TickTyped, ReadDefaultsTyped, ReadLinkTyped, TakeCoachTyped
<1>5. CASE UNCHANGED vars
  BY <1>5, StutterTyped
<1> QED BY <1>1, <1>2, <1>3, <1>4, <1>5 DEF Next

\* The types hold together with the shapes of loads and writes (TypeInv is inductive, TypeOK is not).
THEOREM Spec_TypeInv == Spec => []TypeInv
  BY InitTypeInv, StepTypeInv, PTL DEF Spec

\* The database, the caches, the loads and the writes stay well-formed, whatever runs at once.
THEOREM Spec_TypeOK == Spec => []TypeOK
<1>1. TypeInv => TypeOK
  BY DEF TypeInv
<1> QED BY <1>1, Spec_TypeInv, PTL

-----------------------------------------------------------------------------
(* No grant is lost *)

\* A write that has read its grant.
Holds(w) == w.pc \in {"resolve", "resolveWait", "replace"}

\* The grant it read is the stored one as long as the version is.
SnapInv ==
    \A q \in Requests : Holds(req[q]) =>
      /\ req[q].snap.version <= grant[req[q].target].version
      /\ req[q].snap.version = grant[req[q].target].version => req[q].snap = grant[req[q].target]

\* The steps that change a grant.
LEMMA GrantSteps ==
    ASSUME [Next]_vars
    PROVE  \/ grant' = grant
           \/ \E q \in Requests : ReplaceGrant(q) /\ grant' # grant
           \/ \E patch \in Patches, s \in Subjects, k \in Coaches \cup {Nobody} : RemoteGrant(s, k, patch)
<1>1. ASSUME NEW q \in Requests, WriteStep(q), ~ReplaceGrant(q) PROVE grant' = grant
  BY <1>1 DEF WriteStep, SetCoachAccess, SetClientAccess, ListDefaults, GetGrant, ResolveCoach,
              UpsertDefault, PurgeUsers, PurgeDefaults, Abort, db
<1>2. ASSUME NEW k \in Keys, Load(k) PROVE grant' = grant
  BY <1>2 DEF Load, LoadStart, TakeDefaults, ReadGrant, Store, Fail, db
<1>3. CASE Tick \/ ReadDefaults \/ ReadLink \/ TakeCoach \/ UNCHANGED vars
  BY <1>3 DEF Tick, ReadDefaults, ReadLink, TakeCoach, vars, db
<1>4. CASE ChangeLink \/ DeleteCoach \/ \E patch \in DefaultPatches, role \in EditedRoles : RemoteDefault(role, patch)
  BY <1>4 DEF ChangeLink, DeleteCoach, RemoteDefault
<1> QED BY <1>1, <1>2, <1>3, <1>4 DEF Next, Elsewhere

\* Every change of a grant is a new version of it.
LEMMA GrantsGrow ==
    ASSUME TypeInv, [Next]_vars, NEW s \in Subjects
    PROVE  grant'[s] = grant[s] \/ grant'[s].version = grant[s].version + 1
<1>0. grant \in [Subjects -> Grant]
  BY DEF TypeInv, TypeOK
<1>1. ASSUME NEW q \in Requests, ReplaceGrant(q)
      PROVE  grant'[s] = grant[s] \/ grant'[s].version = grant[s].version + 1
  <2> DEFINE r == req[q]
             g == [version |-> r.snap.version + 1, by |-> r.by, layer |-> NextLayer(r)]
  <2>1. CASE IsNoOp(r) \/ ~VersionMatches(r)
    BY <1>1, <2>1 DEF ReplaceGrant
  <2>2. CASE ~(IsNoOp(r) \/ ~VersionMatches(r))
    <3>1. grant' = [grant EXCEPT ![r.target] = g] /\ grant[r.target].version = r.snap.version
      BY <1>1, <2>2 DEF ReplaceGrant, VersionMatches
    <3>2. g.version = r.snap.version + 1
      OBVIOUS
    <3> HIDE DEF g, r
    <3> QED BY <1>0, <3>1, <3>2
  <2> QED BY <2>1, <2>2
<1>2. ASSUME NEW patch \in Patches, NEW j \in Subjects, NEW k \in Coaches \cup {Nobody}, RemoteGrant(j, k, patch)
      PROVE  grant'[s] = grant[s] \/ grant'[s].version = grant[s].version + 1
  BY <1>0, <1>2 DEF RemoteGrant
<1> QED BY <1>1, <1>2, GrantSteps

\* A write changes no other one.
LEMMA OthersStay ==
    ASSUME TypeInv, NEW q \in Requests, NEW j \in Requests, WriteStep(j), j # q
    PROVE  req'[q] = req[q]
<1>0. req \in [Requests -> Write]
  BY DEF TypeInv, TypeOK
<1>1. ASSUME NEW w, req' = [req EXCEPT ![j] = w] PROVE req'[q] = req[q]
  BY <1>0, <1>1
<1>2. CASE ReplaceGrant(j)
  BY <1>0, <1>2 DEF ReplaceGrant
<1>3. CASE GetGrant(j)
  BY <1>0, <1>3 DEF GetGrant
<1>4. CASE ResolveCoach(j)
  BY <1>1, <1>4 DEF ResolveCoach
<1> QED BY <1>1, <1>2, <1>3, <1>4 DEF WriteStep, SetCoachAccess, SetClientAccess, ListDefaults,
                                       UpsertDefault, PurgeUsers, PurgeDefaults, Abort

\* A write keeps what it read, from the read that starts it.
LEMMA SnapsStay ==
    ASSUME TypeInv, [Next]_vars, NEW q \in Requests, Holds(req'[q])
    PROVE  \/ Holds(req[q]) /\ req'[q].snap = req[q].snap /\ req'[q].target = req[q].target
           \/ grant' = grant /\ req'[q].snap = grant[req'[q].target]
<1> DEFINE Stays == Holds(req[q]) /\ req'[q].snap = req[q].snap /\ req'[q].target = req[q].target
           Read == grant' = grant /\ req'[q].snap = grant[req'[q].target]
<1>0. req \in [Requests -> Write] /\ req[q] \in Write /\ WriteShape(req[q])
  BY DEF TypeInv, TypeOK
<1>1. ~Holds(Idle) /\ ~Holds([Idle EXCEPT !.pc = "purge"]) /\ ~Holds([Idle EXCEPT !.pc = "purgeDefaults"])
  BY DEF Holds, Idle
<1>2. CASE req'[q] = req[q]
  BY <1>2
<1>3. ASSUME NEW j \in Requests, WriteStep(j), j # q PROVE req'[q] = req[q]
  BY <1>3, OthersStay
<1>4. CASE WriteStep(q)
  <2>1. ASSUME NEW w, req' = [req EXCEPT ![q] = w] PROVE req'[q] = w
    BY <1>0, <2>1
  <2>2. ASSUME NEW patch \in Patches, NEW k \in Coaches, SetCoachAccess(q, k, patch) \/ SetClientAccess(q, k, patch)
        PROVE  FALSE
    <3>1. req'[q].pc = "get"
      BY <2>1, <2>2 DEF SetCoachAccess, SetClientAccess, Idle
    <3> QED BY <3>1 DEF Holds
  <2>3. ASSUME NEW patch \in DefaultPatches, NEW role \in EditedRoles, ListDefaults(q, role, patch)
        PROVE  FALSE
    <3>1. req'[q].pc = "upsert"
      BY <2>1, <2>3 DEF ListDefaults, Idle
    <3> QED BY <3>1 DEF Holds
  <2>4. CASE GetGrant(q)
    <3>1. grant' = grant /\ req'[q].snap = grant[req[q].target] /\ req'[q].target = req[q].target
      BY <1>0, <2>4 DEF GetGrant, db, Write
    <3> QED BY <3>1
  <2>5. CASE ResolveCoach(q)
    <3>1. Holds(req[q]) /\ req[q].pc \in {"resolve", "resolveWait"}
      BY <2>5 DEF ResolveCoach, Holds
    <3>2. CASE Full(req[q].by)
      <4> DEFINE w == Checked(req[q], entry[req[q].by].access)
      <4>1. req'[q] = w
        BY <1>0, <2>5, <3>2 DEF ResolveCoach, NotFound
      <4>2. w = Idle \/ w = [req[q] EXCEPT !.pc = "replace"]
        BY DEF Checked
      <4> HIDE DEF w
      <4>3. req'[q] = [req[q] EXCEPT !.pc = "replace"]
        BY <1>1, <4>1, <4>2
      <4> QED BY <1>0, <3>1, <4>3 DEF Write
    <3>3. CASE ~Full(req[q].by) /\ ~NotFound(req[q].by)
      <4>1. req'[q] = [req[q] EXCEPT !.pc = "resolveWait"]
        BY <1>0, <2>5, <3>3 DEF ResolveCoach
      <4> QED BY <1>0, <3>1, <4>1 DEF Write
    <3>4. CASE ~Full(req[q].by) /\ NotFound(req[q].by)
      <4>1. req'[q] = Idle
        BY <1>0, <2>5, <3>4 DEF ResolveCoach
      <4> QED BY <1>1, <4>1
    <3> QED BY <3>2, <3>3, <3>4
  <2>6. CASE ReplaceGrant(q)
    <3>1. req'[q] = Idle \/ req'[q] = [Idle EXCEPT !.pc = "purge"]
      BY <1>0, <2>6 DEF ReplaceGrant
    <3> QED BY <1>1, <3>1
  <2>7. CASE UpsertDefault(q) \/ PurgeUsers(q) \/ PurgeDefaults(q) \/ Abort(q)
    <3>1. req'[q] \in {Idle, [Idle EXCEPT !.pc = "purge"], [Idle EXCEPT !.pc = "purgeDefaults"]}
      BY <1>0, <2>7 DEF UpsertDefault, PurgeUsers, PurgeDefaults, Abort
    <3> QED BY <1>1, <3>1
  <2> QED BY <1>4, <2>2, <2>3, <2>4, <2>5, <2>6, <2>7 DEF WriteStep
<1>5. ASSUME NEW k \in Keys, Load(k) PROVE Stays
  <2>1. CASE Store(k)
    <3>1. CASE req[q].pc = "resolveWait" /\ req[q].by = k
      <4> DEFINE w == Checked(req[q], Loaded(k).access)
      <4>1. req'[q] = w
        BY <2>1, <3>1 DEF Store
      <4>2. w = Idle \/ w = [req[q] EXCEPT !.pc = "replace"]
        BY DEF Checked
      <4> HIDE DEF w
      <4>3. req'[q] = [req[q] EXCEPT !.pc = "replace"]
        BY <1>1, <4>1, <4>2
      <4> QED BY <1>0, <3>1, <4>3 DEF Write, Holds
    <3>2. CASE ~(req[q].pc = "resolveWait" /\ req[q].by = k)
      BY <2>1, <3>2 DEF Store
    <3> QED BY <3>1, <3>2
  <2>2. CASE Fail(k)
    <3>1. req'[q] = req[q] \/ req'[q] = Idle
      BY <2>2 DEF Fail
    <3> QED BY <1>1, <3>1
  <2>3. CASE LoadStart(k) \/ TakeDefaults(k) \/ ReadGrant(k)
    BY <2>3 DEF LoadStart, TakeDefaults, ReadGrant
  <2> QED BY <1>5, <2>1, <2>2, <2>3 DEF Load
<1>6. CASE Tick \/ ReadDefaults \/ ReadLink \/ TakeCoach \/ Elsewhere \/ UNCHANGED vars
  BY <1>6 DEF Tick, ReadDefaults, ReadLink, TakeCoach, Elsewhere, ChangeLink, DeleteCoach, RemoteGrant, RemoteDefault, vars
<1> QED BY <1>2, <1>3, <1>4, <1>5, <1>6 DEF Next

LEMMA StepSnapInv ==
    ASSUME TypeInv, SnapInv, [Next]_vars
    PROVE  SnapInv'
<1>0. TypeInv'
  BY StepTypeInv
<1>1. ASSUME NEW q \in Requests, Holds(req'[q])
      PROVE  /\ req'[q].snap.version <= grant'[req'[q].target].version
             /\ req'[q].snap.version = grant'[req'[q].target].version => req'[q].snap = grant'[req'[q].target]
  <2> DEFINE t == req'[q].target
             v == req'[q].snap
  <2>1. t \in Subjects
    BY <1>0, <1>1 DEF TypeInv, WriteShape, Holds
  <2>2. grant[t] \in Grant /\ grant'[t] \in Grant /\ v \in Grant
    BY <1>0, <2>1 DEF TypeInv, TypeOK, Write
  <2>3. grant[t].version \in Nat /\ grant'[t].version \in Nat /\ v.version \in Nat
    BY <2>2 DEF Grant
  <2>4. grant'[t] = grant[t] \/ grant'[t].version = grant[t].version + 1
    BY <2>1, GrantsGrow
  <2>5. CASE Holds(req[q]) /\ v = req[q].snap /\ t = req[q].target
    <3>1. v.version <= grant[t].version /\ (v.version = grant[t].version => v = grant[t])
      BY <2>5 DEF SnapInv
    <3> HIDE DEF t, v
    <3>2. v.version <= grant'[t].version /\ (v.version = grant'[t].version => v = grant'[t])
      BY <2>3, <2>4, <3>1
    <3> QED BY <3>2 DEF t, v
  <2>6. CASE grant' = grant /\ v = grant[t]
    <3> HIDE DEF t, v
    <3>1. v.version <= grant'[t].version /\ (v.version = grant'[t].version => v = grant'[t])
      BY <2>3, <2>6
    <3> QED BY <3>1 DEF t, v
  <2>7. \/ Holds(req[q]) /\ v = req[q].snap /\ t = req[q].target
        \/ grant' = grant /\ v = grant[t]
    BY <1>1, SnapsStay
  <2> QED BY <2>5, <2>6, <2>7
<1> QED BY <1>1 DEF SnapInv, Holds

LEMMA StepNoLostGrant ==
    ASSUME TypeInv, SnapInv, [Next]_vars,
           NEW q \in Requests, req[q].pc = "replace", grant' # grant, req'[q] # req[q]
    PROVE  req[q].snap = grant[req[q].target]
<1>0. req \in [Requests -> Write]
  BY DEF TypeInv, TypeOK
<1>1. ASSUME NEW j \in Requests, WriteStep(j) PROVE j = q /\ ReplaceGrant(q)
  <2>1. ReplaceGrant(j)
    BY <1>1 DEF WriteStep, SetCoachAccess, SetClientAccess, ListDefaults, GetGrant, ResolveCoach,
                UpsertDefault, PurgeUsers, PurgeDefaults, Abort, db
  <2>2. \E w : req' = [req EXCEPT ![j] = w]
    BY <2>1 DEF ReplaceGrant
  <2>3. j = q
    BY <1>0, <2>2
  <2> QED BY <2>1, <2>3
<1>2. ASSUME NEW k \in Keys, Load(k) PROVE FALSE
  BY <1>2 DEF Load, LoadStart, TakeDefaults, ReadGrant, Store, Fail, db
<1>3. ASSUME Tick \/ ReadDefaults \/ ReadLink \/ TakeCoach \/ Elsewhere \/ UNCHANGED vars
      PROVE  FALSE
  BY <1>3 DEF Tick, ReadDefaults, ReadLink, TakeCoach, Elsewhere, ChangeLink, DeleteCoach, RemoteGrant, RemoteDefault, vars, db
<1>4. ReplaceGrant(q)
  BY <1>1, <1>2, <1>3 DEF Next
<1>5. grant[req[q].target].version = req[q].snap.version
  BY <1>4 DEF ReplaceGrant, VersionMatches
<1> QED BY <1>5 DEF SnapInv, Holds

LEMMA InitSnapInv == Init => SnapInv
  BY DEF Init, SnapInv, Holds, Idle

\* However an admin, the coach and other instances interleave, a grant replaces exactly the one it
\* was computed from: no patch is lost (ReplaceGrant, the unique index on the subject).
NoLostGrant ==
    [][\A q \in Requests :
         req[q].pc = "replace" /\ grant' # grant /\ req'[q] # req[q] => req[q].snap = grant[req[q].target]]_vars

\* It holds whoever else writes, and for any number of them.
THEOREM Spec_NoLostGrant == Spec => NoLostGrant
<1> DEFINE Kept == \A q \in Requests :
                     req[q].pc = "replace" /\ grant' # grant /\ req'[q] # req[q] => req[q].snap = grant[req[q].target]
<1>1. TypeInv /\ SnapInv /\ [Next]_vars => SnapInv'
  BY StepSnapInv
<1>2. TypeInv /\ SnapInv /\ [Next]_vars => [Kept]_vars
  BY StepNoLostGrant
<1>3. Spec => []SnapInv
  BY <1>1, InitSnapInv, Spec_TypeInv, PTL DEF Spec
<1> QED BY <1>2, <1>3, Spec_TypeInv, PTL DEF Spec, NoLostGrant

-----------------------------------------------------------------------------
(* The versioned writes implement atomic changes *)

\* A write names who gives: the client's coach, or nobody for a coach's own grant.
GiverShape(w) ==
    /\ w.pc \in {"resolve", "resolveWait"} => w.target = Client
    /\ w.pc \in {"get", "resolve", "resolveWait", "replace"} => w.by \in Givers[w.target]

\* A coach's own grant names nobody.
GiverInv ==
    /\ \A k \in Coaches : grant[k].by = Nobody
    /\ \A q \in Requests : GiverShape(req[q])

LEMMA GiversOf ==
    /\ Givers[Client] = Coaches
    /\ \A k \in Coaches : Givers[k] = {Nobody}
    /\ \A s \in Subjects : Givers[s] \subseteq Coaches \cup {Nobody}
    /\ Subjects = Coaches \cup {Client}
  BY EntitlementsAssumption DEF Givers, Subjects

LEMMA InitGiverInv == Init => GiverInv
  BY KeysOf DEF Init, GiverInv, GiverShape, Idle, NoGrant

LEMMA IdleGives == /\ GiverShape(Idle) /\ GiverShape([Idle EXCEPT !.pc = "purge"])
                   /\ GiverShape([Idle EXCEPT !.pc = "purgeDefaults"])
  BY DEF GiverShape, Idle

\* What a write becomes when its coach is resolved.
LEMMA CheckedGives ==
    ASSUME NEW w \in Write, GiverShape(w), w.pc \in {"resolve", "resolveWait"}, NEW access
    PROVE  GiverShape(Checked(w, access))
<1>1. CASE Grantable(w.patch, access)
  <2>1. Checked(w, access) = [w EXCEPT !.pc = "replace"]
    BY <1>1 DEF Checked
  <2> QED BY <2>1 DEF Write, GiverShape
<1>2. CASE ~Grantable(w.patch, access)
  BY <1>2, IdleGives DEF Checked
<1> QED BY <1>1, <1>2

LEMMA StepGivers ==
    ASSUME TypeInv, GiverInv, [Next]_vars, NEW q \in Requests
    PROVE  GiverShape(req'[q])
<1>0. req \in [Requests -> Write] /\ req[q] \in Write /\ GiverShape(req[q]) /\ WriteShape(req[q])
  BY DEF TypeInv, TypeOK, GiverInv
<1>1. CASE req'[q] = req[q]
  BY <1>0, <1>1
<1>2. ASSUME NEW j \in Requests, WriteStep(j), j # q PROVE req'[q] = req[q]
  BY <1>2, OthersStay
<1>3. CASE WriteStep(q)
  <2>1. ASSUME NEW w, req' = [req EXCEPT ![q] = w] PROVE req'[q] = w
    BY <1>0, <2>1
  <2>2. ASSUME NEW patch \in Patches, NEW k \in Coaches, SetCoachAccess(q, k, patch)
        PROVE  GiverShape(req'[q])
    BY <2>1, <2>2, GiversOf DEF SetCoachAccess, Idle, GiverShape
  <2>3. ASSUME NEW patch \in Patches, NEW k \in Coaches, SetClientAccess(q, k, patch)
        PROVE  GiverShape(req'[q])
    BY <2>1, <2>3, GiversOf DEF SetClientAccess, Idle, GiverShape
  <2>4. ASSUME NEW patch \in DefaultPatches, NEW role \in EditedRoles, ListDefaults(q, role, patch)
        PROVE  GiverShape(req'[q])
    BY <2>1, <2>4 DEF ListDefaults, Idle, GiverShape
  <2>5. CASE GetGrant(q)
    <3>1. /\ req[q].pc = "get" /\ req'[q].by = req[q].by /\ req'[q].target = req[q].target
          /\ req'[q].pc = IF req[q].target = Client THEN "resolve" ELSE "replace"
      BY <1>0, <2>5 DEF GetGrant, Write
    <3> QED BY <1>0, <3>1 DEF GiverShape
  <2>6. CASE ResolveCoach(q)
    <3>0. req[q].pc = "resolve"
      BY <2>6 DEF ResolveCoach
    <3>1. CASE Full(req[q].by)
      <4>1. req'[q] = Checked(req[q], entry[req[q].by].access)
        BY <1>0, <2>6, <3>1 DEF ResolveCoach, NotFound
      <4> QED BY <1>0, <3>0, <4>1, CheckedGives
    <3>2. CASE ~Full(req[q].by) /\ ~NotFound(req[q].by)
      <4>1. req'[q] = [req[q] EXCEPT !.pc = "resolveWait"]
        BY <1>0, <2>6, <3>2 DEF ResolveCoach
      <4> QED BY <1>0, <3>0, <4>1 DEF Write, GiverShape
    <3>3. CASE ~Full(req[q].by) /\ NotFound(req[q].by)
      <4>1. req'[q] = Idle
        BY <1>0, <2>6, <3>3 DEF ResolveCoach
      <4> QED BY <4>1, IdleGives
    <3> QED BY <3>1, <3>2, <3>3
  <2>7. CASE ReplaceGrant(q) \/ UpsertDefault(q) \/ PurgeUsers(q) \/ PurgeDefaults(q) \/ Abort(q)
    <3>1. req'[q] \in {Idle, [Idle EXCEPT !.pc = "purge"], [Idle EXCEPT !.pc = "purgeDefaults"]}
      BY <1>0, <2>7 DEF ReplaceGrant, UpsertDefault, PurgeUsers, PurgeDefaults, Abort
    <3> QED BY <3>1, IdleGives
  <2> QED BY <1>3, <2>2, <2>3, <2>4, <2>5, <2>6, <2>7 DEF WriteStep
<1>4. ASSUME NEW k \in Keys, Load(k) PROVE GiverShape(req'[q])
  <2>1. CASE Store(k)
    <3>1. CASE req[q].pc = "resolveWait" /\ req[q].by = k
      <4>1. req'[q] = Checked(req[q], Loaded(k).access)
        BY <2>1, <3>1 DEF Store
      <4> QED BY <1>0, <3>1, <4>1, CheckedGives
    <3>2. CASE ~(req[q].pc = "resolveWait" /\ req[q].by = k)
      <4>1. req'[q] = req[q]
        BY <2>1, <3>2 DEF Store
      <4> QED BY <1>0, <4>1
    <3> QED BY <3>1, <3>2
  <2>2. CASE Fail(k)
    <3>1. req'[q] = req[q] \/ req'[q] = Idle
      BY <2>2 DEF Fail
    <3> QED BY <1>0, <3>1, IdleGives
  <2>3. CASE LoadStart(k) \/ TakeDefaults(k) \/ ReadGrant(k)
    <3>1. req' = req
      BY <2>3 DEF LoadStart, TakeDefaults, ReadGrant
    <3> QED BY <1>0, <3>1
  <2> QED BY <1>4, <2>1, <2>2, <2>3 DEF Load
<1>5. CASE Tick \/ ReadDefaults \/ ReadLink \/ TakeCoach \/ Elsewhere \/ UNCHANGED vars
  <2>1. req' = req
    BY <1>5 DEF Tick, ReadDefaults, ReadLink, TakeCoach, Elsewhere, ChangeLink, DeleteCoach, RemoteGrant, RemoteDefault, vars
  <2> QED BY <1>0, <2>1
<1> QED BY <1>1, <1>2, <1>3, <1>4, <1>5 DEF Next

\* A remote write names who may give.
LEMMA StepGiverInv ==
    ASSUME TypeInv, GiverInv, [Next]_vars
    PROVE  GiverInv'
<1>1. \A q \in Requests : GiverShape(req'[q])
  BY StepGivers
<1>2. ASSUME NEW k \in Coaches PROVE grant'[k].by = Nobody
  <2>0. grant \in [Subjects -> Grant] /\ k \in Subjects /\ grant[k].by = Nobody
    BY KeysOf DEF TypeInv, TypeOK, GiverInv
  <2>1. CASE grant' = grant
    BY <2>0, <2>1
  <2>2. ASSUME NEW q \in Requests, ReplaceGrant(q), grant' # grant PROVE grant'[k].by = Nobody
    <3> DEFINE t == req[q].target
               g == [version |-> req[q].snap.version + 1, by |-> req[q].by, layer |-> NextLayer(req[q])]
    <3>1. grant' = [grant EXCEPT ![t] = g] /\ req[q].pc = "replace"
      BY <2>2 DEF ReplaceGrant
    <3>2. req[q].by \in Givers[t]
      BY <3>1 DEF GiverInv, GiverShape
    <3>3. g.by = req[q].by
      OBVIOUS
    <3> HIDE DEF g, t
    <3>4. CASE t = k
      BY <2>0, <3>1, <3>2, <3>3, <3>4, GiversOf
    <3>5. CASE t # k
      BY <2>0, <3>1, <3>5
    <3> QED BY <3>4, <3>5
  <2>3. ASSUME NEW patch \in Patches, NEW s \in Subjects, NEW j \in Coaches \cup {Nobody}, RemoteGrant(s, j, patch)
        PROVE  grant'[k].by = Nobody
    <3>1. j \in Givers[s] /\ \E v, l : grant' = [grant EXCEPT ![s] = [version |-> v, by |-> j, layer |-> l]]
      BY <2>3 DEF RemoteGrant
    <3> QED BY <2>0, <3>1, GiversOf
  <2> QED BY <2>1, <2>2, <2>3, GrantSteps
<1>3. (\A q \in Requests : GiverShape(req[q]))'
  BY <1>1 DEF GiverShape
<1> QED BY <1>2, <1>3 DEF GiverInv

\* What the abstract store sees.
Given(s) == [by |-> grant[s].by, layer |-> grant[s].layer]

LEMMA GivenChange ==
    ASSUME NEW s \in Subjects, NEW k \in Givers[s], NEW patch \in Patches,
           [j \in Subjects |-> Given(j)'] =
             [[j \in Subjects |-> Given(j)] EXCEPT ![s] =
                [by |-> k, layer |-> ApplyPatch(IF Given(s).by = k THEN Given(s).layer ELSE EmptyLayer, patch)]]
    PROVE  Grants!Next
<1>1. Grants!Change(s, k, patch)
  BY DEF Grants!Change, Given
<1> QED BY <1>1 DEF Grants!Next

LEMMA OneChange ==
    ASSUME grant \in [Subjects -> Grant], NEW s \in Subjects, NEW k \in Givers[s], NEW patch \in Patches, NEW v,
           NEW layer, layer = ApplyPatch(IF grant[s].by = k THEN grant[s].layer ELSE EmptyLayer, patch),
           grant' = [grant EXCEPT ![s] = [version |-> v, by |-> k, layer |-> layer]]
    PROVE  Grants!Next
<1>1. ASSUME NEW j \in Subjects
      PROVE  Given(j)' = IF j = s THEN [by |-> k, layer |-> layer] ELSE Given(j)
  BY DEF Given
<1>2. Given(s).by = grant[s].by /\ Given(s).layer = grant[s].layer
  BY DEF Given
<1>3. [j \in Subjects |-> Given(j)'] = [[j \in Subjects |-> Given(j)] EXCEPT ![s] = [by |-> k, layer |-> layer]]
  BY <1>1
<1>4. layer = ApplyPatch(IF Given(s).by = k THEN Given(s).layer ELSE EmptyLayer, patch)
  BY <1>2
<1> QED BY <1>3, <1>4, GivenChange

\* A versioned write is one change of what is stored now.
LEMMA ReplaceIsChange ==
    ASSUME TypeInv, SnapInv, GiverInv, [Next]_vars, NEW q \in Requests, ReplaceGrant(q), grant' # grant
    PROVE  Grants!Next
<1> DEFINE r == req[q]
           s == r.target
           old == grant[s]
<1>1. /\ req \in [Requests -> Write] /\ r \in Write /\ s \in Subjects /\ r.patch \in Patches
      /\ r.pc = "replace" /\ grant \in [Subjects -> Grant] /\ r.by \in Givers[s]
  BY DEF TypeInv, TypeOK, WriteShape, ReplaceGrant, GiverInv, GiverShape
<1>2. /\ grant' = [grant EXCEPT ![s] = [version |-> r.snap.version + 1, by |-> r.by, layer |-> NextLayer(r)]]
      /\ req' = [req EXCEPT ![q] = [Idle EXCEPT !.pc = "purge"]]
  BY DEF ReplaceGrant
<1>3. req'[q] # req[q]
  <2>1. req'[q].pc = "purge"
    BY <1>1, <1>2 DEF Idle
  <2> QED BY <1>1, <2>1
<1>4. r.snap = old
  BY <1>1, <1>3, StepNoLostGrant
<1>5. NextLayer(r) = ApplyPatch(IF old.by = r.by THEN old.layer ELSE EmptyLayer, r.patch)
  <2>1. CASE s = Client
    BY <1>4, <2>1 DEF NextLayer
  <2>2. CASE s # Client
    <3>1. s \in Coaches
      BY <1>1, <2>2, GiversOf
    <3>2. old.by = Nobody /\ r.by = Nobody
      BY <1>1, <3>1, GiversOf DEF GiverInv
    <3> QED BY <1>4, <2>2, <3>2 DEF NextLayer
  <2> QED BY <2>1, <2>2
<1> HIDE DEF r
<1> QED BY <1>1, <1>2, <1>5, OneChange

LEMMA RemoteIsChange ==
    ASSUME TypeInv, NEW patch \in Patches, NEW s \in Subjects, NEW k \in Coaches \cup {Nobody}, RemoteGrant(s, k, patch)
    PROVE  Grants!Next
<1> DEFINE base == IF grant[s].by = k THEN grant[s].layer ELSE EmptyLayer
<1>1. /\ grant \in [Subjects -> Grant] /\ k \in Givers[s]
      /\ grant' = [grant EXCEPT ![s] = [version |-> grant[s].version + 1, by |-> k, layer |-> ApplyPatch(base, patch)]]
  BY DEF TypeInv, TypeOK, RemoteGrant
<1> QED BY <1>1, OneChange

LEMMA StepImplements ==
    ASSUME TypeInv, SnapInv, GiverInv, [Next]_vars
    PROVE  [Grants!Next]_[s \in Subjects |-> [by |-> grant[s].by, layer |-> grant[s].layer]]
<1>1. CASE grant' = grant
  BY <1>1
<1>2. ASSUME NEW q \in Requests, ReplaceGrant(q), grant' # grant PROVE Grants!Next
  BY <1>2, ReplaceIsChange
<1>3. ASSUME NEW patch \in Patches, NEW s \in Subjects, NEW k \in Coaches \cup {Nobody}, RemoteGrant(s, k, patch)
      PROVE  Grants!Next
  BY <1>3, RemoteIsChange
<1> QED BY <1>1, <1>2, <1>3, GrantSteps

\* A coach's own grant names nobody, a write names who may give: what the mapping of a write needs.
THEOREM Spec_GiverInv == Spec => []GiverInv
  BY InitGiverInv, StepGiverInv, Spec_TypeInv, PTL DEF Spec

\* Reads before the write, versions, caches and other instances do not show: every change of a grant is
\* one patch on what is stored at that moment, and starts from nothing after a change of coach.
THEOREM Spec_ImplementsGrantStore == Spec => ImplementsGrantStore
<1>1. Init => Grants!Init
  BY DEF Init, NoGrant, Grants!Init
<1>2. TypeInv /\ SnapInv /\ [Next]_vars => SnapInv'
  BY StepSnapInv
<1>3. Spec => []SnapInv
  BY <1>2, InitSnapInv, Spec_TypeInv, PTL DEF Spec
<1>4. TypeInv /\ SnapInv /\ GiverInv /\ [Next]_vars
        => [Grants!Next]_[s \in Subjects |-> [by |-> grant[s].by, layer |-> grant[s].layer]]
  BY StepImplements
<1> QED BY <1>1, <1>3, <1>4, Spec_TypeInv, Spec_GiverInv, PTL DEF Spec, ImplementsGrantStore, Grants!Spec

-----------------------------------------------------------------------------
(* Freshness: what no write and no purge touches passes errors only up the levels *)

\* A cached value that the database no longer says.
Wrong(k) == Full(k) /\ ~Right(k, entry[k])

\* Something wrong or outdated that k is computed from.
WrongBelow(k) == \E j \in Keys : Depth(j) < Depth(k) /\ (Wrong(j) \/ Outdated(j))

\* A load becomes outdated only by what it takes from below, and stores only what it has.
Passes ==
    /\ UNCHANGED <<db, settled, suspect>>
    /\ \A k \in Keys : entry'[k] = entry[k] \/ (flight[k].pc = "store" /\ entry'[k] = Loaded(k))
    /\ \A k \in Keys : Outdated(k)' => Outdated(k) \/ WrongBelow(k)

LEMMA DepthOf ==
    /\ Depth(DefaultsKey) = 1 /\ Depth(Client) = 3
    /\ \A k \in Coaches : Depth(k) = 2
    /\ \A k \in Keys : Depth(k) \in 1 .. 3 /\ (k # DefaultsKey => Depth(k) > 1)
  BY KeysOf DEF Depth

LEMMA SameTruth ==
    ASSUME UNCHANGED db
    PROVE  /\ defaults' = defaults /\ grant' = grant /\ link' = link /\ gone' = gone
           /\ \A k : TrueCoach(k)' = TrueCoach(k)
           /\ TrueCap' = TrueCap
           /\ TrueClient' = TrueClient
  BY DEF db, TrueCoach, TrueCap, TrueClient

\* What being right means for each key.
LEMMA RightMeans ==
    ASSUME NEW e
    PROVE  /\ Right(DefaultsKey, e) <=> e.defaults = defaults
           /\ \A k \in Coaches : Right(k, e) <=> k \notin gone /\ e.access = TrueCoach(k)
           /\ Right(Client, e) <=> e.access = TrueClient
<1>1. Right(DefaultsKey, e) <=> e.defaults = defaults
  BY KeysOf DEF Right
<1>2. ASSUME NEW k \in Coaches PROVE Right(k, e) <=> k \notin gone /\ e.access = TrueCoach(k)
  BY KeysOf DEF Right
<1>3. Right(Client, e) <=> e.access = TrueClient
  BY KeysOf DEF Right
<1> QED BY <1>1, <1>2, <1>3

\* A load in an early state holds nothing, unless it has seen an account that is deleted.
HoldsNone(k) ==
    \/ flight[k].pc \in {"off", "failed"}
    \/ flight[k].pc \in {"read", "defaults", "defaultsWait"} /\ k \notin gone

LEMMA HoldsNothing ==
    ASSUME NEW k, HoldsNone(k)'
    PROVE  ~Outdated(k)'
  BY DEF Outdated, HoldsNone

LEMMA SameLoad ==
    ASSUME UNCHANGED db, NEW k, flight'[k] = flight[k], Outdated(k)'
    PROVE  Outdated(k)
  BY SameTruth DEF Outdated

\* A load that is not outdated stores the truth.
LEMMA StoresTheTruth ==
    ASSUME TypeInv, NEW k \in Keys, flight[k].pc = "store", ~Outdated(k)
    PROVE  Right(k, Loaded(k))
<1> DEFINE f == flight[k]
<1>0. f.defaults = defaults /\ k \notin gone
  BY DEF Outdated
<1>1. CASE k = DefaultsKey
  <2>1. Loaded(k).defaults = f.defaults
    BY <1>1 DEF Loaded, Missing
  <2> QED BY <1>0, <1>1, <2>1, RightMeans
<1>2. CASE k \in Coaches
  <2>1. f.grant = grant[k]
    BY <1>2, KeysOf DEF Outdated
  <2>2. Loaded(k).access = CoachOf(f.defaults, f.grant)
    BY <1>2, KeysOf DEF Loaded, Missing
  <2>3. Loaded(k).access = TrueCoach(k)
    BY <1>0, <2>1, <2>2 DEF TrueCoach
  <2> QED BY <1>0, <1>2, <2>3, RightMeans
<1>3. CASE k = Client
  <2>1. f.grant = grant[k] /\ f.coach = link /\ (link # Nobody => f.cap = TrueCap)
    BY <1>3, KeysOf DEF Outdated
  <2>2. Loaded(k).access = ClientOf(f.defaults, f.grant, f.coach, f.cap)
    BY <1>3, KeysOf DEF Loaded, Missing
  <2>3. CASE link = Nobody
    <3>1. Loaded(k).access = TrueClient
      BY <1>0, <1>3, <2>1, <2>2, <2>3 DEF TrueClient, ClientOf
    <3> QED BY <1>3, <3>1, RightMeans
  <2>4. CASE link # Nobody
    <3>1. Loaded(k).access = TrueClient
      BY <1>0, <1>3, <2>1, <2>2, <2>4 DEF TrueClient
    <3> QED BY <1>3, <3>1, RightMeans
  <2> QED BY <2>3, <2>4
<1> QED BY <1>1, <1>2, <1>3, KeysOf

\* Steps that change one load, to what is not outdated unless it was or something below is.
LEMMA OneLoadPasses ==
    ASSUME NEW k \in Keys, UNCHANGED <<db, entry, settled, suspect>>,
           Outdated(k)' => Outdated(k) \/ WrongBelow(k),
           \A j \in Keys : j = k \/ flight'[j] = flight[j] \/ HoldsNone(j)'
    PROVE  Passes
<1>1. ASSUME NEW j \in Keys, Outdated(j)' PROVE Outdated(j) \/ WrongBelow(j)
  BY <1>1, SameLoad, HoldsNothing
<1> QED BY <1>1 DEF Passes

LEMMA LoadStartPasses ==
    ASSUME TypeInv, NEW k \in Keys, LoadStart(k)
    PROVE  Passes
<1>1. flight'[k].pc \in {"read", "defaults"} /\ \A j \in Keys : j = k \/ flight'[j] = flight[j]
  BY DEF LoadStart, Goto, TypeInv, TypeOK, Flight
<1>2. k \notin gone'
  BY DEF LoadStart, db
<1>3. ~Outdated(k)'
  BY <1>1, <1>2, HoldsNothing DEF HoldsNone
<1> QED BY <1>1, <1>3, OneLoadPasses DEF LoadStart

LEMMA ReadDefaultsPasses ==
    ASSUME TypeInv, ReadDefaults
    PROVE  Passes
<1>1. /\ flight'[DefaultsKey] = [Off EXCEPT !.pc = "store", !.defaults = defaults]
      /\ \A j \in Keys : j = DefaultsKey \/ flight'[j] = flight[j]
  BY KeysOf DEF ReadDefaults, TypeInv, TypeOK
<1>2. flight'[DefaultsKey].pc = "store" /\ flight'[DefaultsKey].defaults = defaults
  BY <1>1 DEF Off
<1>3. DefaultsKey \notin gone
  BY KeysOf DEF TypeInv, TypeOK
<1>4. ~Outdated(DefaultsKey)'
  BY <1>2, <1>3, SameTruth, KeysOf DEF ReadDefaults, Outdated
<1> QED BY <1>1, <1>4, KeysOf, OneLoadPasses DEF ReadDefaults

LEMMA TakeDefaultsPasses ==
    ASSUME TypeInv, NEW k \in Keys, TakeDefaults(k)
    PROVE  Passes
<1>0. /\ flight \in [Keys -> Flight] /\ k # DefaultsKey /\ UNCHANGED <<db, entry, settled, suspect>>
      /\ flight[k].pc = "defaults" /\ DefaultsKey \notin gone
  BY KeysOf DEF TakeDefaults, TypeInv, TypeOK, FlightShape
<1>1. CASE Full(DefaultsKey)
  <2>1. flight' = [flight EXCEPT ![k].pc = "grant", ![k].defaults = entry[DefaultsKey].defaults]
    BY <1>1 DEF TakeDefaults
  <2>2. /\ flight'[k].pc = "grant" /\ flight'[k].defaults = entry[DefaultsKey].defaults
        /\ \A j \in Keys : j = k \/ flight'[j] = flight[j]
    BY <1>0, <2>1 DEF Flight
  <2>3. ASSUME Outdated(k)', k \notin gone PROVE Wrong(DefaultsKey)
    <3>1. entry[DefaultsKey].defaults # defaults
      BY <1>0, <2>2, <2>3, SameTruth DEF Outdated
    <3> QED BY <1>1, <3>1, RightMeans DEF Wrong
  <2>4. Outdated(k)' => Outdated(k) \/ WrongBelow(k)
    <3>1. Depth(DefaultsKey) < Depth(k)
      BY <1>0, DepthOf
    <3>2. k \in gone => Outdated(k)
      BY <1>0 DEF Outdated
    <3> QED BY <2>3, <3>1, <3>2, KeysOf DEF WrongBelow
  <2> QED BY <1>0, <2>2, <2>4, OneLoadPasses
<1>2. CASE ~Full(DefaultsKey)
  <2>1. flight' = [flight EXCEPT ![k].pc = "defaultsWait", ![DefaultsKey].pc = IF @ = "off" THEN "read" ELSE @]
    BY <1>2 DEF TakeDefaults
  <2>2. /\ flight'[k].pc = "defaultsWait"
        /\ \A j \in Keys : j = k \/ flight'[j] = flight[j] \/ (j = DefaultsKey /\ flight'[j].pc = "read")
    BY <1>0, <2>1, KeysOf DEF Flight
  <2>3. DefaultsKey \notin gone' /\ (k \in gone' => k \in gone)
    BY <1>0, SameTruth
  <2>4. \A j \in Keys : j = k \/ flight'[j] = flight[j] \/ HoldsNone(j)'
    BY <2>2, <2>3 DEF HoldsNone
  <2>5. Outdated(k)' => Outdated(k)
    <3>1. CASE k \in gone
      BY <1>0, <3>1 DEF Outdated
    <3>2. CASE k \notin gone
      BY <2>2, <2>3, <3>2, HoldsNothing DEF HoldsNone
    <3> QED BY <3>1, <3>2
  <2> QED BY <1>0, <2>4, <2>5, OneLoadPasses
<1> QED BY <1>1, <1>2

LEMMA ReadGrantPasses ==
    ASSUME TypeInv, NEW k \in Keys, ReadGrant(k)
    PROVE  Passes
<1>0. /\ flight \in [Keys -> Flight] /\ UNCHANGED <<db, entry, settled, suspect>>
      /\ flight[k].pc = "grant"
  BY DEF ReadGrant, TypeInv, TypeOK
<1>1. /\ flight'[k].pc = (IF k = Client THEN "link" ELSE "store")
      /\ flight'[k].grant = grant[k] /\ flight'[k].defaults = flight[k].defaults
      /\ \A j \in Keys : j = k \/ flight'[j] = flight[j]
  BY <1>0 DEF ReadGrant, Flight
<1>2. ASSUME Outdated(k)' PROVE Outdated(k)
  <2>1. flight[k].defaults # defaults \/ k \in gone
    BY <1>0, <1>1, <1>2, SameTruth DEF Outdated
  <2> QED BY <1>0, <2>1 DEF Outdated
<1> QED BY <1>0, <1>1, <1>2, OneLoadPasses

LEMMA ReadLinkPasses ==
    ASSUME TypeInv, ReadLink
    PROVE  Passes
<1>0. /\ flight \in [Keys -> Flight] /\ UNCHANGED <<db, entry, settled, suspect>>
      /\ flight[Client].pc = "link"
  BY DEF ReadLink, TypeInv, TypeOK
<1>1. /\ flight'[Client].pc = (IF link = Nobody THEN "store" ELSE "coach")
      /\ flight'[Client].coach = link
      /\ flight'[Client].defaults = flight[Client].defaults /\ flight'[Client].grant = flight[Client].grant
      /\ \A j \in Keys : j = Client \/ flight'[j] = flight[j]
  BY <1>0, KeysOf DEF ReadLink, Flight
<1>2. ASSUME Outdated(Client)' PROVE Outdated(Client)
  <2>1. flight[Client].defaults # defaults \/ flight[Client].grant # grant[Client] \/ Client \in gone
    BY <1>0, <1>1, <1>2, SameTruth DEF Outdated
  <2> QED BY <1>0, <2>1, KeysOf DEF Outdated
<1> QED BY <1>0, <1>1, <1>2, KeysOf, OneLoadPasses

LEMMA TakeCoachPasses ==
    ASSUME TypeInv, TakeCoach
    PROVE  Passes
<1> DEFINE k == flight[Client].coach
           a == IF Full(k) THEN entry[k].access ELSE NoAccess
<1>0. /\ flight \in [Keys -> Flight] /\ UNCHANGED <<db, entry, settled, suspect>>
      /\ flight[Client].pc = "coach" /\ k \in Coaches /\ Client \notin gone
  BY KeysOf DEF TakeCoach, TypeInv, TypeOK, FlightShape
<1>1. CASE Full(k) \/ NotFound(k)
  <2>1. flight' = [flight EXCEPT ![Client].pc = "store", ![Client].cap = a]
    BY <1>1 DEF TakeCoach
  <2> HIDE DEF a
  <2>2. /\ flight'[Client].pc = "store" /\ flight'[Client].cap = a
        /\ flight'[Client].defaults = flight[Client].defaults /\ flight'[Client].grant = flight[Client].grant
        /\ flight'[Client].coach = k
        /\ \A j \in Keys : j = Client \/ flight'[j] = flight[j]
    BY <1>0, <2>1, KeysOf DEF Flight
  <2>3. ASSUME Outdated(Client)', ~Outdated(Client) PROVE Wrong(k)
    <3>1. flight[Client].defaults = defaults /\ flight[Client].grant = grant[Client] /\ k = link
      BY <1>0, <2>3, KeysOf DEF Outdated
    <3>2. a # TrueCap
      BY <1>0, <2>2, <2>3, <3>1, SameTruth, KeysOf DEF Outdated
    <3>3. CASE NotFound(k)
      <4>1. a = NoAccess /\ TrueCap = NoAccess
        BY <3>1, <3>3 DEF a, NotFound, TrueCap
      <4> QED BY <3>2, <4>1
    <3>4. CASE Full(k)
      <4>1. a = entry[k].access
        BY <3>4 DEF a
      <4>2. k \notin gone => TrueCap = TrueCoach(k)
        BY <1>0, <3>1 DEF TrueCap
      <4>3. ~Right(k, entry[k])
        BY <1>0, <3>2, <4>1, <4>2, RightMeans
      <4> QED BY <3>4, <4>3 DEF Wrong
    <3> QED BY <1>1, <3>3, <3>4
  <2>4. Outdated(Client)' => Outdated(Client) \/ WrongBelow(Client)
    <3>1. Depth(k) < Depth(Client)
      BY <1>0, DepthOf
    <3> QED BY <1>0, <2>3, <3>1, KeysOf DEF WrongBelow
  <2> QED BY <1>0, <2>2, <2>4, KeysOf, OneLoadPasses
<1>2. CASE ~(Full(k) \/ NotFound(k))
  <2>1. flight' = [flight EXCEPT ![Client].pc = "coachWait", ![k].pc = IF @ = "off" THEN "defaults" ELSE @]
    BY <1>2 DEF TakeCoach
  <2>0. flight[k].pc = "off" => k \notin gone
    BY <1>2 DEF NotFound
  <2>2. /\ flight'[Client] = [flight[Client] EXCEPT !.pc = "coachWait"]
        /\ \A j \in Keys : \/ j = Client
                           \/ flight'[j] = flight[j]
                           \/ j = k /\ flight[j].pc = "off" /\ flight'[j].pc = "defaults"
    BY <1>0, <2>1, KeysOf DEF Flight
  <2>3. /\ flight'[Client].pc = "coachWait"
        /\ flight'[Client].defaults = flight[Client].defaults /\ flight'[Client].grant = flight[Client].grant
        /\ flight'[Client].coach = flight[Client].coach
    BY <1>0, <2>2, KeysOf DEF Flight
  <2>4. Outdated(Client)' => Outdated(Client)
    BY <1>0, <2>3, KeysOf, SameTruth DEF Outdated
  <2> HIDE DEF k
  <2>5. \A j \in Keys : j = Client \/ flight'[j] = flight[j] \/ HoldsNone(j)'
    BY <1>0, <2>0, <2>2, SameTruth DEF HoldsNone
  <2> QED BY <1>0, <2>4, <2>5, KeysOf, OneLoadPasses
<1> QED BY <1>1, <1>2

LEMMA StorePasses ==
    ASSUME TypeInv, NEW k \in Keys, Store(k)
    PROVE  Passes
<1>0. /\ flight \in [Keys -> Flight] /\ entry \in [Keys -> Entry] /\ UNCHANGED <<db, settled, suspect>>
      /\ flight[k].pc = "store" /\ FlightShape
  BY DEF Store, TypeInv, TypeOK
<1>1. \A j \in Keys : entry'[j] = entry[j] \/ (flight[j].pc = "store" /\ entry'[j] = Loaded(j))
  BY <1>0 DEF Store
<1>2. ASSUME NEW j \in Keys, Outdated(j)' PROVE Outdated(j) \/ WrongBelow(j)
  <2>1. CASE j = k
    <3>1. flight'[j] = Off
      BY <2>1 DEF Store
    <3> QED BY <1>2, <3>1, HoldsNothing DEF Off, HoldsNone
  <2>2. CASE j # k /\ WaitsFor(j, k) /\ k = DefaultsKey
    <3>1. flight'[j] = [flight[j] EXCEPT !.pc = "grant", !.defaults = flight[k].defaults]
      BY <2>2 DEF Store
    <3>2. flight'[j].pc = "grant" /\ flight'[j].defaults = flight[k].defaults
      BY <1>0, <3>1 DEF Flight
    <3>3. flight[k].defaults # defaults \/ j \in gone
      BY <1>0, <1>2, <3>2, SameTruth DEF Outdated
    <3>4. CASE flight[k].defaults # defaults
      <4>1. Outdated(k) /\ Depth(k) < Depth(j)
        BY <1>0, <2>2, <3>4, DepthOf DEF Outdated
      <4> QED BY <4>1 DEF WrongBelow
    <3>5. CASE j \in gone
      <4>1. flight[j].pc = "defaultsWait"
        BY <2>2, KeysOf DEF WaitsFor
      <4>2. Outdated(j)
        BY <3>5, <4>1 DEF Outdated
      <4> QED BY <4>2
    <3> QED BY <3>3, <3>4, <3>5
  <2>3. CASE j # k /\ WaitsFor(j, k) /\ k # DefaultsKey
    <3>1. j = Client /\ k \in Coaches /\ flight[Client].coach = k /\ flight[Client].pc = "coachWait"
      BY <2>3 DEF WaitsFor
    <3>2. flight'[j] = [flight[j] EXCEPT !.pc = "store", !.cap = Loaded(k).access]
      BY <2>3 DEF Store
    <3>3. /\ flight'[j].pc = "store" /\ flight'[j].cap = Loaded(k).access
          /\ flight'[j].defaults = flight[j].defaults /\ flight'[j].grant = flight[j].grant
          /\ flight'[j].coach = flight[j].coach
      BY <1>0, <3>2 DEF Flight
    <3>4. CASE Outdated(k)
      <4>1. Depth(k) < Depth(j)
        BY <3>1, DepthOf
      <4> QED BY <3>4, <4>1 DEF WrongBelow
    <3>5. CASE ~Outdated(k)
      <4>1. Loaded(k).access = TrueCoach(k) /\ k \notin gone
        BY <1>0, <3>1, <3>5, StoresTheTruth, RightMeans
      <4>3. link = k => Loaded(k).access = TrueCap
        BY <3>1, <4>1 DEF TrueCap
      <4> DEFINE cap == Loaded(k).access
      <4>4. flight'[j].cap = cap /\ (link = k => cap = TrueCap)
        BY <3>3, <4>3
      <4> HIDE DEF cap
      <4>2. Outdated(j)
        BY <1>0, <1>2, <3>1, <3>3, <4>4, KeysOf, SameTruth DEF Outdated
      <4> QED BY <4>2
    <3> QED BY <3>4, <3>5
  <2>4. CASE j # k /\ ~WaitsFor(j, k)
    <3>1. flight'[j] = flight[j]
      BY <2>4 DEF Store
    <3> QED BY <1>0, <1>2, <3>1, SameLoad
  <2> QED BY <2>1, <2>2, <2>3, <2>4
<1> QED BY <1>0, <1>1, <1>2 DEF Passes

LEMMA FailPasses ==
    ASSUME TypeInv, NEW k \in Keys, Fail(k)
    PROVE  Passes
<1>1. ASSUME NEW j \in Keys
      PROVE  flight'[j] = flight[j] \/ flight'[j].pc \in {"off", "failed"}
  BY DEF Fail, Off
<1>2. flight'[k].pc = "off"
  BY DEF Fail, Off
<1>3. ~Outdated(k)'
  BY <1>2, HoldsNothing DEF HoldsNone
<1> QED BY <1>1, <1>3, OneLoadPasses DEF Fail, HoldsNone

LEMMA ResolveCoachPasses ==
    ASSUME TypeInv, NEW q \in Requests, ResolveCoach(q)
    PROVE  Passes
<1>0. flight \in [Keys -> Flight] /\ UNCHANGED <<db, entry, settled, suspect>> /\ req[q].by \in Keys
  BY KeysOf DEF ResolveCoach, TypeInv, TypeOK, WriteShape
<1> PICK k \in Keys : k = req[q].by
  BY <1>0
<1>1. CASE flight' = flight
  BY <1>0, <1>1, SameLoad, OneLoadPasses
<1>2. CASE ~NotFound(k) /\ ~Full(k)
  <2>1. flight' = [flight EXCEPT ![k].pc = IF @ = "off" THEN "defaults" ELSE @]
    BY <1>2 DEF ResolveCoach
  <2>2. flight[k].pc = "off" => k \notin gone'
    BY <1>0, <1>2, SameTruth DEF NotFound
  <2>3. flight'[k] = flight[k] \/ (flight[k].pc = "off" /\ flight'[k].pc = "defaults")
    BY <1>0, <2>1 DEF Flight
  <2>4. \A j \in Keys : j = k \/ flight'[j] = flight[j]
    BY <1>0, <2>1
  <2>5. Outdated(k)' => Outdated(k)
    BY <1>0, <2>2, <2>3, SameLoad, HoldsNothing DEF HoldsNone
  <2> QED BY <1>0, <2>4, <2>5, OneLoadPasses
<1> QED BY <1>1, <1>2 DEF ResolveCoach

\* The other steps of a write, and stuttering.
LEMMA OtherPasses ==
    ASSUME UNCHANGED <<db, entry, flight, settled, suspect>>
    PROVE  Passes
  BY SameLoad DEF Passes

-----------------------------------------------------------------------------
(* Freshness: the invariants *)

\* What was written that long ago has reached the level of k, and what k is computed from.
Reach(k) == (Depth(k) - 1) * (TTL - 1)

FreshInv ==
    \A k \in Keys : /\ Wrong(k) => settled <= Reach(k) + entry[k].age
                    /\ Outdated(k) => settled <= Reach(k)

PurgeInv == ~suspect => \A k \in Keys : ~Wrong(k) /\ ~Outdated(k)

LEMMA ReachOf ==
    ASSUME NEW k \in Keys
    PROVE  /\ Reach(k) \in Nat /\ Reach(k) + (TTL - 1) = Depth(k) * (TTL - 1)
           /\ \A j \in Keys : Depth(j) < Depth(k) => Reach(j) + (TTL - 1) <= Reach(k)
<1>1. ASSUME NEW j \in Keys
      PROVE  \/ Depth(j) = 1 /\ Reach(j) = 0 /\ Depth(j) * (TTL - 1) = TTL - 1
             \/ Depth(j) = 2 /\ Reach(j) = TTL - 1 /\ Depth(j) * (TTL - 1) = 2 * (TTL - 1)
             \/ Depth(j) = 3 /\ Reach(j) = 2 * (TTL - 1) /\ Depth(j) * (TTL - 1) = 3 * (TTL - 1)
  <2>1. TTL - 1 \in Nat
    BY Bounds
  <2>2. Depth(j) = 1 \/ Depth(j) = 2 \/ Depth(j) = 3
    BY DepthOf
  <2> QED BY <2>1, <2>2 DEF Reach
<1>2. TTL - 1 \in Nat
  BY Bounds
<1>3. ASSUME NEW j \in Keys, Depth(j) < Depth(k) PROVE Reach(j) + (TTL - 1) <= Reach(k)
  BY <1>1, <1>2, <1>3
<1> QED BY <1>1, <1>2, <1>3

LEMMA SameRight ==
    ASSUME UNCHANGED db, NEW k \in Keys, NEW e, entry'[k] = e
    PROVE  Right(k, entry[k])' <=> Right(k, e)
<1>1. CASE k = DefaultsKey
  BY <1>1, KeysOf, SameTruth DEF Right
<1>2. CASE k \in Coaches
  BY <1>2, KeysOf, SameTruth DEF Right
<1>3. CASE k = Client
  BY <1>3, KeysOf, SameTruth DEF Right
<1> QED BY <1>1, <1>2, <1>3, KeysOf

\* After a step that passes errors on, what is wrong was so before, or has just been stored by a load
\* that was outdated.
LEMMA WrongAfterPass ==
    ASSUME TypeInv, Passes, NEW k \in Keys, Wrong(k)'
    PROVE  (Wrong(k) /\ entry'[k] = entry[k]) \/ (Outdated(k) /\ entry'[k].age = 0)
<1>1. entry'[k].full /\ ~Right(k, entry[k])'
  BY DEF Wrong, Full
<1>2. CASE entry'[k] = entry[k]
  <2>1. ~Right(k, entry[k])
    BY <1>1, <1>2, SameRight DEF Passes
  <2> QED BY <1>1, <1>2, <2>1 DEF Wrong, Full
<1>3. CASE flight[k].pc = "store" /\ entry'[k] = Loaded(k)
  <2>1. ~Right(k, Loaded(k))
    BY <1>1, <1>3, SameRight DEF Passes
  <2>2. Outdated(k)
    BY <1>3, <2>1, StoresTheTruth
  <2> QED BY <1>3, <2>2, LoadedTyped
<1> QED BY <1>2, <1>3 DEF Passes

\* A write to the database leaves what is cached and what is loading.
Writes == Written /\ UNCHANGED <<entry, flight>>

LEMMA StepsOfNext ==
    ASSUME TypeInv, [Next]_vars
    PROVE  Passes \/ Tick \/ (\E q \in Requests : PurgeUsers(q) \/ PurgeDefaults(q)) \/ Writes
<1>1. ASSUME NEW k \in Keys, Load(k) PROVE Passes
  BY <1>1, LoadStartPasses, TakeDefaultsPasses, ReadGrantPasses, StorePasses, FailPasses DEF Load
<1>2. ASSUME NEW q \in Requests, WriteStep(q), ~PurgeUsers(q), ~PurgeDefaults(q) PROVE Passes \/ Writes
  <2>1. CASE ResolveCoach(q)
    BY <2>1, ResolveCoachPasses
  <2>2. CASE ReplaceGrant(q)
    <3>1. Writes \/ UNCHANGED <<db, entry, flight, settled, suspect>>
      BY <2>2 DEF ReplaceGrant, db, Writes
    <3> QED BY <3>1, OtherPasses
  <2>3. CASE UpsertDefault(q)
    BY <2>3 DEF UpsertDefault, Writes
  <2>4. CASE GetGrant(q) \/ Abort(q)
    BY <2>4, OtherPasses DEF GetGrant, Abort
  <2>5. ASSUME NEW patch \in Patches, NEW k \in Coaches, SetCoachAccess(q, k, patch) \/ SetClientAccess(q, k, patch)
        PROVE  Passes
    BY <2>5, OtherPasses DEF SetCoachAccess, SetClientAccess
  <2>6. ASSUME NEW patch \in DefaultPatches, NEW role \in EditedRoles, ListDefaults(q, role, patch)
        PROVE  Passes
    BY <2>6, OtherPasses DEF ListDefaults
  <2> QED BY <1>2, <2>1, <2>2, <2>3, <2>4, <2>5, <2>6 DEF WriteStep
<1>3. CASE ReadDefaults \/ ReadLink \/ TakeCoach
  BY <1>3, ReadDefaultsPasses, ReadLinkPasses, TakeCoachPasses
<1>4. CASE Elsewhere
  BY <1>4 DEF Elsewhere, ChangeLink, DeleteCoach, RemoteGrant, RemoteDefault, Writes
<1>5. CASE UNCHANGED vars
  BY <1>5, OtherPasses DEF vars, db
<1> QED BY <1>1, <1>2, <1>3, <1>4, <1>5 DEF Next

\* A tick: nothing is loading, and what is wrong was so before and has aged.
LEMMA WrongAfterTick ==
    ASSUME TypeInv, Tick, NEW k \in Keys
    PROVE  ~Outdated(k)' /\ (Wrong(k)' => Wrong(k) /\ entry'[k].age = entry[k].age + 1)
<1>0. entry \in [Keys -> Entry] /\ entry[k] \in Entry
  BY DEF TypeInv, TypeOK
<1>1. ~Outdated(k)'
  <2>1. flight'[k].pc = "off"
    BY DEF Tick
  <2> QED BY <2>1, HoldsNothing DEF HoldsNone
<1>2. ASSUME Wrong(k)' PROVE Wrong(k) /\ entry'[k].age = entry[k].age + 1
  <2>1. entry'[k].full /\ ~Right(k, entry[k])'
    BY <1>2 DEF Wrong, Full
  <2>2. Full(k) /\ entry'[k] = [entry[k] EXCEPT !.age = entry[k].age + 1]
    BY <2>1 DEF Tick, Missing
  <2> DEFINE e == [entry[k] EXCEPT !.age = entry[k].age + 1]
  <2>3. e.defaults = entry[k].defaults /\ e.access = entry[k].access /\ e.age = entry[k].age + 1
    BY <1>0 DEF Entry
  <2> HIDE DEF e
  <2>4. entry'[k] = e
    BY <2>2 DEF e
  <2>5. ~Right(k, e)
    BY <2>1, <2>4, SameRight DEF Tick
  <2>6. ~Right(k, entry[k])
    BY <2>3, <2>5, RightMeans, KeysOf
  <2> QED BY <2>2, <2>3, <2>4, <2>6 DEF Wrong
<1> QED BY <1>1, <1>2

\* A half of a purge: what it leaves is as it was, and so are the loads.
LEMMA WrongAfterPurge ==
    ASSUME TypeInv, NEW q \in Requests, PurgeUsers(q) \/ PurgeDefaults(q), NEW k \in Keys
    PROVE  (Wrong(k)' => Wrong(k) /\ entry'[k] = entry[k]) /\ (Outdated(k)' => Outdated(k))
<1>0. entry \in [Keys -> Entry] /\ UNCHANGED <<db, flight>>
  BY DEF TypeInv, TypeOK, PurgeUsers, PurgeDefaults
<1>1. entry'[k] = Missing \/ entry'[k] = entry[k]
  BY <1>0 DEF PurgeUsers, PurgeDefaults, DefaultsPurged
<1>2. ASSUME Wrong(k)' PROVE Wrong(k) /\ entry'[k] = entry[k]
  <2>1. entry'[k].full /\ ~Right(k, entry[k])'
    BY <1>2 DEF Wrong, Full
  <2>2. entry'[k] = entry[k]
    BY <1>1, <2>1 DEF Missing
  <2>3. ~Right(k, entry[k])
    BY <1>0, <2>1, <2>2, SameRight
  <2> QED BY <2>1, <2>2, <2>3 DEF Wrong, Full
<1> QED BY <1>0, <1>2, SameLoad

LEMMA StepFreshInv ==
    ASSUME TypeInv, FreshInv, [Next]_vars
    PROVE  FreshInv'
<1>0. /\ settled \in Nat /\ TypeInv'
      /\ \A k \in Keys : entry[k].age \in 0 .. TTL - 1 /\ entry'[k].age \in 0 .. TTL - 1
  <2>1. TypeInv'
    BY StepTypeInv
  <2> QED BY <2>1 DEF TypeInv, TypeOK, Entry
<1>1. CASE Passes
  <2>1. settled' = settled
    BY <1>1 DEF Passes
  <2>2. ASSUME NEW k \in Keys, Wrong(k)' PROVE settled <= Reach(k) + entry'[k].age
    <3>1. CASE Wrong(k) /\ entry'[k] = entry[k]
      BY <3>1 DEF FreshInv
    <3>2. CASE Outdated(k) /\ entry'[k].age = 0
      BY <1>0, <3>2, ReachOf DEF FreshInv
    <3> QED BY <1>1, <2>2, <3>1, <3>2, WrongAfterPass
  <2>3. ASSUME NEW k \in Keys, Outdated(k)' PROVE settled <= Reach(k)
    <3>1. CASE Outdated(k)
      BY <3>1 DEF FreshInv
    <3>2. CASE WrongBelow(k)
      <4>1. PICK j \in Keys : Depth(j) < Depth(k) /\ (Wrong(j) \/ Outdated(j))
        BY <3>2 DEF WrongBelow
      <4>2. settled <= Reach(j) + entry[j].age \/ settled <= Reach(j)
        BY <4>1 DEF FreshInv
      <4>3. Reach(j) + (TTL - 1) <= Reach(k) /\ Reach(j) \in Nat /\ Reach(k) \in Nat
        BY <4>1, ReachOf
      <4>4. entry[j].age \in Nat /\ entry[j].age <= TTL - 1
        BY <1>0, Bounds
      <4> QED BY <1>0, <4>2, <4>3, <4>4, Bounds
    <3> QED BY <1>1, <2>3, <3>1, <3>2 DEF Passes
  <2>4. \A k \in Keys : (Wrong(k)' => settled' <= Reach(k) + entry'[k].age) /\ (Outdated(k)' => settled' <= Reach(k))
    BY <2>1, <2>2, <2>3
  <2> QED BY <2>4 DEF FreshInv, Reach, Depth
<1>2. CASE Tick
  <2>1. settled' <= settled + 1
    BY <1>0, <1>2, Bounds DEF Tick, Lower
  <2>2. settled' \in Nat
    BY <1>0, Bounds DEF TypeInv, TypeOK
  <2>3. ASSUME NEW k \in Keys, Wrong(k)' PROVE settled' <= Reach(k) + entry'[k].age
    <3>1. Wrong(k) /\ entry'[k].age = entry[k].age + 1
      BY <1>2, <2>3, WrongAfterTick
    <3>2. settled <= Reach(k) + entry[k].age
      BY <3>1 DEF FreshInv
    <3>3. Reach(k) \in Nat /\ entry[k].age \in Nat
      BY <1>0, ReachOf, Bounds
    <3> QED BY <1>0, <2>1, <2>2, <3>1, <3>2, <3>3
  <2>4. \A k \in Keys : (Wrong(k)' => settled' <= Reach(k) + entry'[k].age) /\ (Outdated(k)' => settled' <= Reach(k))
    BY <1>2, <2>3, WrongAfterTick
  <2> QED BY <2>4 DEF FreshInv, Reach, Depth
<1>3. ASSUME NEW q \in Requests, PurgeUsers(q) \/ PurgeDefaults(q) PROVE FreshInv'
  <2>1. settled' = settled
    BY <1>3 DEF PurgeUsers, PurgeDefaults
  <2>2. \A k \in Keys : (Wrong(k)' => settled' <= Reach(k) + entry'[k].age) /\ (Outdated(k)' => settled' <= Reach(k))
    BY <1>3, <2>1, WrongAfterPurge DEF FreshInv
  <2> QED BY <2>2 DEF FreshInv, Reach, Depth
<1>4. CASE Writes
  <2>1. settled' = 0
    BY <1>4 DEF Writes, Written
  <2>2. \A k \in Keys : Reach(k) \in Nat /\ entry'[k].age \in Nat
    BY <1>0, ReachOf, Bounds
  <2>3. \A k \in Keys : (Wrong(k)' => settled' <= Reach(k) + entry'[k].age) /\ (Outdated(k)' => settled' <= Reach(k))
    BY <2>1, <2>2
  <2> QED BY <2>3 DEF FreshInv, Reach, Depth
<1> QED BY <1>1, <1>2, <1>3, <1>4, StepsOfNext

LEMMA StepPurgeInv ==
    ASSUME TypeInv, PurgeInv, [Next]_vars
    PROVE  PurgeInv'
<1> SUFFICES ASSUME ~suspect' PROVE \A k \in Keys : ~Wrong(k)' /\ ~Outdated(k)'
  BY DEF PurgeInv
<1>1. CASE Passes
  <2>1. ~suspect
    BY <1>1 DEF Passes
  <2>2. \A k \in Keys : ~Wrong(k) /\ ~Outdated(k) /\ ~WrongBelow(k)
    BY <2>1 DEF PurgeInv, WrongBelow
  <2>3. \A k \in Keys : ~Outdated(k)'
    BY <1>1, <2>2 DEF Passes
  <2>4. \A k \in Keys : ~Wrong(k)'
    BY <1>1, <2>2, WrongAfterPass
  <2> QED BY <2>3, <2>4
<1>2. CASE Tick
  <2>1. \A k \in Keys : ~Wrong(k)
    BY <1>2 DEF Tick, PurgeInv
  <2> QED BY <1>2, <2>1, WrongAfterTick
<1>3. ASSUME NEW q \in Requests, PurgeUsers(q) PROVE \A k \in Keys : ~Wrong(k)' /\ ~Outdated(k)'
  <2>1. \A k \in Keys : ~Wrong(k) /\ ~Outdated(k)
    BY <1>3 DEF PurgeUsers, PurgeInv
  <2> QED BY <1>3, <2>1, WrongAfterPurge
<1>5. ASSUME NEW q \in Requests, PurgeDefaults(q) PROVE \A k \in Keys : ~Wrong(k)' /\ ~Outdated(k)'
  <2>1. CASE ~suspect
    BY <1>5, <2>1, WrongAfterPurge DEF PurgeInv
  <2>2. CASE (\A k \in Keys : ~Outdated(k)) /\ \A k \in Subjects : ~Full(k)
    <3>1. ASSUME NEW k \in Keys PROVE ~Wrong(k)'
      <4>1. CASE k = DefaultsKey
        <5>1. entry'[k] = Missing
          BY <1>5, <4>1, KeysOf DEF PurgeDefaults, DefaultsPurged, TypeInv, TypeOK
        <5> QED BY <5>1 DEF Wrong, Full, Missing
      <4>2. CASE k # DefaultsKey
        <5>1. ~Wrong(k)
          BY <2>2, <4>2, KeysOf DEF Wrong
        <5> QED BY <1>5, <5>1, WrongAfterPurge
      <4> QED BY <4>1, <4>2
    <3> QED BY <1>5, <2>2, <3>1, WrongAfterPurge
  <2>3. ~suspect \/ ((\A k \in Keys : ~Outdated(k)) /\ \A k \in Subjects : ~Full(k))
    BY <1>5 DEF PurgeDefaults
  <2> QED BY <2>1, <2>2, <2>3
<1>4. CASE Writes
  BY <1>4 DEF Writes, Written
<1> QED BY <1>1, <1>2, <1>3, <1>4, <1>5, StepsOfNext

LEMMA InitFresh == Init => FreshInv /\ PurgeInv
<1> SUFFICES ASSUME Init PROVE FreshInv /\ PurgeInv
  OBVIOUS
<1>1. \A k \in Keys : ~Wrong(k) /\ ~Outdated(k)
  BY DEF Init, Wrong, Full, Missing, Outdated, Off
<1> QED BY <1>1 DEF FreshInv, PurgeInv

LEMMA FreshEnough == TypeInv /\ FreshInv => StaleAtMostPerLevel
<1> SUFFICES ASSUME TypeInv, FreshInv, NEW k \in Keys, Wrong(k)
             PROVE  ~Settled(k)
  BY DEF StaleAtMostPerLevel, Wrong
<1>1. settled <= Reach(k) + entry[k].age
  BY DEF FreshInv
<1>2. settled \in Nat /\ entry[k].age \in Nat /\ entry[k].age <= TTL - 1
  BY Bounds DEF TypeInv, TypeOK, Entry
<1>3. Reach(k) \in Nat /\ Reach(k) + (TTL - 1) = Depth(k) * (TTL - 1)
  BY ReachOf
<1>4. settled <= Depth(k) * (TTL - 1) /\ Depth(k) * (TTL - 1) \in Nat
  BY <1>1, <1>2, <1>3, Bounds
<1> HIDE DEF Depth
<1> QED BY <1>2, <1>4 DEF Settled

\* Whatever is written elsewhere and however the loads interleave, a cached access is at most one
\* lifetime per level behind the database.
THEOREM Spec_StaleAtMostPerLevel == Spec => []StaleAtMostPerLevel
<1>1. TypeInv /\ FreshInv /\ [Next]_vars => FreshInv'
  BY StepFreshInv
<1>2. Spec => []FreshInv
  BY <1>1, InitFresh, Spec_TypeInv, PTL DEF Spec
<1> QED BY <1>2, Spec_TypeInv, FreshEnough, PTL

\* A purge that leaves no load that had read before it, and no user loaded between its two halves, leaves
\* nothing old, and nothing old is served until the next write: no interleaving of loads, joins and
\* purges brings it back.
THEOREM Spec_PurgeForgets == Spec => []PurgeForgets
<1>1. TypeInv /\ PurgeInv /\ [Next]_vars => PurgeInv'
  BY StepPurgeInv
<1>2. Spec => []PurgeInv
  BY <1>1, InitFresh, Spec_TypeInv, PTL DEF Spec
<1>3. PurgeInv => PurgeForgets
  BY DEF PurgeInv, PurgeForgets, Wrong
<1> QED BY <1>2, <1>3, PTL

-----------------------------------------------------------------------------
(* The rules, as they are served *)

\* Whatever is cached and held was computed by the rules.
LawInv ==
    /\ \A k \in Coaches : Full(k) => Lawful(entry[k].access)
    /\ Full(Client) => ParentsRule(entry[Client].access)
    /\ flight[Client].cap = NoAccess \/ Lawful(flight[Client].cap)

\* What a load stores is lawful, however old what it read.
LEMMA LoadedLaw ==
    ASSUME TypeInv, LawInv, NEW k \in Keys
    PROVE  /\ k \in Coaches => Lawful(Loaded(k).access)
           /\ k = Client => ParentsRule(Loaded(k).access)
<1> DEFINE f == flight[k]
<1>0. f.defaults \in Defaults /\ f.grant \in Grant
  BY DEF TypeInv, TypeOK, Flight
<1>1. ASSUME k \in Coaches PROVE Lawful(Loaded(k).access)
  <2>1. Loaded(k).access = CoachOf(f.defaults, f.grant)
    BY <1>1, KeysOf DEF Loaded, Missing
  <2> HIDE DEF f
  <2> QED BY <1>0, <2>1, CoachOfRule DEF Lawful
<1>2. ASSUME k = Client PROVE ParentsRule(Loaded(k).access)
  <2>1. Loaded(k).access = ClientOf(f.defaults, f.grant, f.coach, f.cap)
    BY <1>2, KeysOf DEF Loaded, Missing
  <2>2. f.cap = NoAccess \/ Lawful(f.cap)
    BY <1>2 DEF LawInv
  <2> HIDE DEF f
  <2> QED BY <1>0, <2>1, <2>2, ClientOfRule
<1> QED BY <1>1, <1>2

\* What is cached was cached before, aged or not, or has just been stored.
LEMMA EntrySteps ==
    ASSUME TypeInv, [Next]_vars, NEW k \in Keys, Full(k)'
    PROVE  \/ Full(k) /\ entry'[k].access = entry[k].access
           \/ entry'[k] = Loaded(k)
<1>0. entry \in [Keys -> Entry] /\ entry'[k].full
  BY DEF TypeInv, TypeOK, Full
<1>1. CASE entry'[k] = entry[k]
  BY <1>0, <1>1 DEF Full
<1>2. CASE Passes
  BY <1>1, <1>2 DEF Passes
<1>3. CASE Tick
  <2>1. Full(k) /\ entry'[k] = [entry[k] EXCEPT !.age = entry[k].age + 1]
    BY <1>0, <1>3 DEF Tick, Missing
  <2>2. entry[k] \in Entry
    BY <1>0
  <2> QED BY <2>1, <2>2 DEF Entry
<1>4. ASSUME NEW q \in Requests, PurgeUsers(q) \/ PurgeDefaults(q) PROVE entry'[k] = entry[k]
  BY <1>0, <1>4 DEF PurgeUsers, PurgeDefaults, DefaultsPurged, Missing
<1>5. CASE Writes
  BY <1>1, <1>5 DEF Writes
<1> QED BY <1>1, <1>2, <1>3, <1>4, <1>5, StepsOfNext

\* The cap of a client is the one it had, none, or what a coach has cached or just loaded.
LEMMA CapSteps ==
    ASSUME TypeInv, LawInv, [Next]_vars
    PROVE  flight'[Client].cap = NoAccess \/ Lawful(flight'[Client].cap)
<1> DEFINE Law == flight'[Client].cap = NoAccess \/ Lawful(flight'[Client].cap)
<1>0. /\ flight \in [Keys -> Flight] /\ FlightShape /\ Client \in Keys
      /\ \A q \in Requests : WriteShape(req[q])
  BY KeysOf DEF TypeInv, TypeOK
<1>1. CASE flight'[Client].cap = flight[Client].cap
  BY <1>1 DEF LawInv
<1>2. ASSUME NEW k \in Keys, Load(k) PROVE Law
  <2>1. CASE LoadStart(k) \/ TakeDefaults(k) \/ ReadGrant(k)
    <3>1. flight'[Client].cap = flight[Client].cap
      BY <1>0, <2>1, KeysOf DEF LoadStart, Goto, TakeDefaults, ReadGrant, Flight
    <3> QED BY <1>1, <3>1
  <2>2. CASE Fail(k)
    <3>1. flight'[Client] \in {Off, [Off EXCEPT !.pc = "failed"], flight[Client]}
      BY <1>0, <2>2 DEF Fail
    <3>2. Off.cap = NoAccess /\ [Off EXCEPT !.pc = "failed"].cap = NoAccess
      BY DEF Off
    <3> QED BY <1>1, <3>1, <3>2
  <2>3. CASE Store(k)
    <3>1. CASE Client = k
      BY <1>0, <2>3, <3>1 DEF Store, Off
    <3>2. CASE Client # k /\ WaitsFor(Client, k) /\ k = DefaultsKey
      <4>1. flight'[Client] = [flight[Client] EXCEPT !.pc = "grant", !.defaults = flight[k].defaults]
        BY <1>0, <2>3, <3>2 DEF Store
      <4> QED BY <1>0, <1>1, <4>1 DEF Flight
    <3>3. CASE Client # k /\ WaitsFor(Client, k) /\ k # DefaultsKey
      <4>1. flight'[Client] = [flight[Client] EXCEPT !.pc = "store", !.cap = Loaded(k).access]
        BY <1>0, <2>3, <3>3 DEF Store
      <4>2. flight'[Client].cap = Loaded(k).access
        BY <1>0, <4>1 DEF Flight
      <4>3. k \in Coaches
        BY <3>3 DEF WaitsFor
      <4> QED BY <4>2, <4>3, LoadedLaw
    <3>4. CASE Client # k /\ ~WaitsFor(Client, k)
      <4>1. flight'[Client] = flight[Client]
        BY <1>0, <2>3, <3>4 DEF Store
      <4> QED BY <1>1, <4>1
    <3> QED BY <3>1, <3>2, <3>3, <3>4
  <2> QED BY <1>2, <2>1, <2>2, <2>3 DEF Load
<1>3. CASE TakeCoach
  <2> DEFINE k == flight[Client].coach
             a == IF Full(k) THEN entry[k].access ELSE NoAccess
  <2>0. k \in Coaches
    BY <1>0, <1>3 DEF TakeCoach, FlightShape
  <2>1. CASE Full(k) \/ NotFound(k)
    <3>1. flight' = [flight EXCEPT ![Client].pc = "store", ![Client].cap = a]
      BY <1>3, <2>1 DEF TakeCoach
    <3>2. a = NoAccess \/ Lawful(a)
      BY <2>0 DEF LawInv
    <3> HIDE DEF a
    <3>3. flight'[Client].cap = a
      BY <1>0, <3>1 DEF Flight
    <3> QED BY <3>2, <3>3
  <2>2. CASE ~(Full(k) \/ NotFound(k))
    <3>1. flight' = [flight EXCEPT ![Client].pc = "coachWait", ![k].pc = IF @ = "off" THEN "defaults" ELSE @]
      BY <1>3, <2>2 DEF TakeCoach
    <3> HIDE DEF k
    <3>2. flight'[Client].cap = flight[Client].cap
      BY <1>0, <2>0, <3>1, KeysOf DEF Flight
    <3> QED BY <1>1, <3>2
  <2> QED BY <2>1, <2>2
<1>4. CASE ReadDefaults \/ ReadLink
  <2>1. flight'[Client].cap = flight[Client].cap
    BY <1>0, <1>4, KeysOf DEF ReadDefaults, ReadLink, Flight
  <2> QED BY <1>1, <2>1
<1>5. ASSUME NEW q \in Requests, WriteStep(q) PROVE Law
  <2>1. CASE ResolveCoach(q)
    <3>1. flight' = flight \/ flight' = [flight EXCEPT ![req[q].by].pc = IF @ = "off" THEN "defaults" ELSE @]
      BY <2>1 DEF ResolveCoach
    <3>2. flight'[Client].cap = flight[Client].cap
      BY <1>0, <3>1 DEF Flight
    <3> QED BY <1>1, <3>2
  <2>2. CASE ~ResolveCoach(q)
    <3>1. flight' = flight
      BY <1>5, <2>2 DEF WriteStep, SetCoachAccess, SetClientAccess, ListDefaults, GetGrant, ReplaceGrant,
                        UpsertDefault, PurgeUsers, PurgeDefaults, Abort
    <3> QED BY <1>1, <3>1
  <2> QED BY <2>1, <2>2
<1>6. CASE Tick \/ Elsewhere \/ UNCHANGED vars
  <2>1. flight' = flight
    BY <1>6 DEF Tick, Elsewhere, ChangeLink, DeleteCoach, RemoteGrant, RemoteDefault, vars
  <2> QED BY <1>1, <2>1
<1> QED BY <1>2, <1>3, <1>4, <1>5, <1>6 DEF Next

LEMMA StepLawInv ==
    ASSUME TypeInv, LawInv, [Next]_vars
    PROVE  LawInv'
<1>1. ASSUME NEW k \in Coaches, Full(k)' PROVE Lawful(entry'[k].access)
  BY <1>1, EntrySteps, LoadedLaw, KeysOf DEF LawInv
<1>2. ASSUME Full(Client)' PROVE ParentsRule(entry'[Client].access)
  BY <1>2, EntrySteps, LoadedLaw, KeysOf DEF LawInv
<1>3. flight'[Client].cap = NoAccess \/ Lawful(flight'[Client].cap)
  BY CapSteps
<1>4. \A k : Full(k)' <=> entry'[k].full
  BY DEF Full
<1> QED BY <1>1, <1>2, <1>3, <1>4 DEF LawInv, Lawful, AccessOf, ParentsRule, Full

LEMMA InitLawInv == Init => LawInv
  BY KeysOf DEF Init, LawInv, Full, Missing, Off

\* The row that is shown of a client whose coach exists is the truth, within the coach, with the
\* overrides that are shown switched off.
LEMMA ShownRule ==
    ASSUME TypeInv, link \in Coaches \ gone
    PROVE  LET shown == GetClientAccess(link, TrueCoach(link))
           IN  /\ shown.row = TrueClient
               /\ Within(shown.row, TrueCoach(link))
               /\ \A f \in Features : shown.overrides[f].enabled = "off" => ~shown.row[f].enabled
<1> DEFINE shown == GetClientAccess(link, TrueCoach(link))
           g == Counted(grant[Client], link)
           row == ClientAccess(defaults["client"], EmptyLayer, g, TrueCoach(link))
<1>0. defaults \in Defaults /\ grant[link] \in Grant /\ grant[Client] \in Grant /\ link # Nobody
  BY KeysOf DEF TypeInv, TypeOK
<1>1. shown.row = row /\ TrueClient = row
  BY <1>0 DEF GetClientAccess, ClientRow, TrueClient, TrueCap, ClientOf
<1>2. TrueCoach(link) \in AccessOf("coach") /\ ParentsRule(TrueCoach(link))
  BY <1>0, CoachOfRule DEF TrueCoach
<1>3. defaults["client"] \in Layer /\ g \in Layer
  BY <1>0, LayersOf
<1>4. Within(row, TrueCoach(link)) /\ \A f \in Features : g[f].enabled = "off" => ~row[f].enabled
  BY <1>2, <1>3, EmptyIsALayer, ClientAccessRule
<1>5. ASSUME NEW f \in Features, shown.overrides[f].enabled = "off" PROVE g[f].enabled = "off"
  <2>1. shown.overrides = IF grant[Client].version # 0 /\ grant[Client].by = link
                            THEN grant[Client].layer ELSE EmptyLayer
    BY DEF GetClientAccess
  <2>2. EmptyLayer[f].enabled # "off"
    BY DEF EmptyLayer, Silent
  <2>3. grant[Client].by = link /\ grant[Client].layer[f].enabled = "off"
    BY <1>5, <2>1, <2>2
  <2> QED BY <2>3 DEF Counted
<1> QED BY <1>1, <1>4, <1>5

LEMMA LawAndFreshnessGiveRules == TypeInv /\ LawInv /\ StaleAtMostPerLevel => RulesHold
<1> SUFFICES ASSUME TypeInv, LawInv, StaleAtMostPerLevel PROVE RulesHold
  OBVIOUS
<1>1. ASSUME NEW k \in Subjects, Full(k) PROVE ParentsRule(entry[k].access)
  BY <1>1 DEF LawInv, Lawful, Subjects
<1>2. ASSUME NEW k \in Coaches, Full(k), Settled(k)
      PROVE  /\ entry[k].access = ListCoachAccess[k]
             /\ \A f \in Features : k \in DisabledIn(f) => ~entry[k].access[f].enabled
  <2>1. k \notin gone /\ entry[k].access = TrueCoach(k)
    BY <1>2, KeysOf, RightMeans DEF StaleAtMostPerLevel
  <2>2. ListCoachAccess[k] = TrueCoach(k)
    BY <2>1 DEF ListCoachAccess, CoachRow, TrueCoach
  <2>3. defaults \in Defaults /\ grant[k] \in Grant
    BY KeysOf DEF TypeInv, TypeOK
  <2>4. \A f \in Features : grant[k].layer[f].enabled = "off" => ~TrueCoach(k)[f].enabled
    BY <2>3, CoachOfRule DEF TrueCoach
  <2> QED BY <2>1, <2>2, <2>4 DEF DisabledIn
<1>3. ASSUME Full(Client), Settled(Client), link \in Coaches \ gone
      PROVE  LET served == entry[Client].access
                 shown == GetClientAccess(link, TrueCoach(link))
             IN  /\ Within(served, TrueCoach(link))
                 /\ served = shown.row
                 /\ \A f \in Features : shown.overrides[f].enabled = "off" => ~served[f].enabled
  <2>1. entry[Client].access = TrueClient
    BY <1>3, KeysOf, RightMeans DEF StaleAtMostPerLevel
  <2> QED BY <1>3, <2>1, ShownRule
<1> QED BY <1>1, <1>2, <1>3 DEF RulesHold

\* For every set of features, coaches and patches, whoever writes, loads and deletes: what is served
\* obeys the rule of parents, and once the last write is a lifetime per level ago it is what is shown,
\* and within what the client's coach has, unless his account is gone.
THEOREM Spec_RulesHold == Spec => []RulesHold
<1>1. TypeInv /\ LawInv /\ [Next]_vars => LawInv'
  BY StepLawInv
<1>2. Spec => []LawInv
  BY <1>1, InitLawInv, Spec_TypeInv, PTL DEF Spec
<1> QED BY <1>2, Spec_TypeInv, Spec_StaleAtMostPerLevel, LawAndFreshnessGiveRules, PTL

=============================================================================
