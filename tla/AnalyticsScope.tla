--------------------------- MODULE AnalyticsScope ---------------------------
(***************************************************************************)
(* Which coaches a caller may see, and when: computed from the membership    *)
(* periods (services/analytics_scope.go, GroupPeriodsByMember in              *)
(* repositories/membership_periods.go).  Lists are sets of periods here;       *)
(* their order, the names and the page of clients are left out.                *)
(***************************************************************************)
EXTENDS Integers

CONSTANTS
    Times,  \* the instants, numbers
    Open    \* the end of a period that is still open

ASSUME ScopeAssumption == Times \subseteq Nat /\ Open \notin Times

PeriodRange == [from : Times, to : Times \cup {Open}]

\* A period covers the instants from its start to before its end.
Covers(r, t) == r.from <= t /\ (r.to = Open \/ t < r.to)
CoveredBy(rs) == {t \in Times : \E r \in rs : Covers(r, t)}

Later(s, t) == IF s < t THEN t ELSE s

\* Mutant of EarlierEnd: a period that is still open leaves the overlap open.
EarlierEnd_OpenWins(x, y) ==
    IF x.to = Open \/ y.to = Open THEN Open ELSE IF x.to < y.to THEN x.to ELSE y.to

\* Mutant of EarlierEnd: the second period's end is taken whenever there is one.
EarlierEnd_SecondWins(x, y) == IF y.to = Open THEN x.to ELSE y.to

\* The switch of intersectPeriods.
EarlierEnd(x, y) ==
    CASE x.to = Open -> y.to
      [] x.to # Open /\ y.to = Open -> x.to
      [] OTHER -> IF x.to < y.to THEN x.to ELSE y.to

\* Empty overlaps are dropped.
IntersectPeriods(a, b) ==
    LET overlap(x, y) == [from |-> Later(x.from, y.from), to |-> EarlierEnd(x, y)]
    IN  {o \in {overlap(p[1], p[2]) : p \in a \X b} : o.to = Open \/ o.from < o.to}

HasOpenPeriod(rs) == \E r \in rs : r.to = Open

\* The ranges of one member under one parent, from the periods listed for the parent.
RangesOf(ps, member, parent) ==
    {[from |-> p.start, to |-> p.end] : p \in {x \in ps : x.member = member /\ x.parent = parent}}

\* teamScope: the head coach, and everyone who ever was in the team.  since is when he became one.
TeamScope(ps, head, since) ==
    {[coach |-> head, head |-> head, periods |-> {[from |-> since, to |-> Open]}]} \cup
    {[coach |-> m, head |-> head, periods |-> RangesOf(ps, m, head)] :
       m \in {p.member : p \in {x \in ps : x.parent = head}}}

\* gymScope: the heads that ever were in the gym, and each of their coaches while both were.
GymScope(teamPs, gymPs, gym) ==
    LET heads == {p.member : p \in {x \in gymPs : x.parent = gym}}
        during(h) == RangesOf(gymPs, h, gym)
        coaches(h) == {p.member : p \in {x \in teamPs : x.parent = h}}
    IN  {[coach |-> h, head |-> h, periods |-> during(h)] : h \in heads} \cup
        UNION {{[coach |-> m, head |-> h, periods |-> IntersectPeriods(RangesOf(teamPs, m, h), during(h))] :
                  m \in {x \in coaches(h) : IntersectPeriods(RangesOf(teamPs, x, h), during(h)) # {}}} :
               h \in heads}

\* finish: the coaches of a scope that are current; only their clients can be looked up.
CurrentCoaches(scope) == {e.coach : e \in {x \in scope : HasOpenPeriod(x.periods)}}

\* ListHeadClients works out for itself whose clients a head coach is shown.
HeadClientsCoaches(ps, head) ==
    {head} \cup {m \in {p.member : p \in ps} : HasOpenPeriod(RangesOf(ps, m, head))}

=============================================================================
