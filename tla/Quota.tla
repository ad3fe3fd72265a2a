-------------------------------- MODULE Quota --------------------------------
(***************************************************************************)
(* What the usage counters promise: a quota that is taken all at once and     *)
(* only while it fits.  Nothing here knows of documents, months or retries.    *)
(***************************************************************************)
EXTENDS Integers

CONSTANTS
    Keys,
    Bound   \* the limit of each key that has one, a natural number

VARIABLES
    used,   \* what is taken of each key
    stray   \* what was given back for a key it was not taken of

vars == <<used, stray>>

Init ==
    /\ used = [k \in Keys |-> 0]
    /\ stray = [k \in Keys |-> 0]

\* Every key that grows ends within its limit; one that does not fit holds back the others.
Take ==
    /\ used' \in [Keys -> Int]
    /\ \A k \in Keys : used[k] <= used'[k]
    /\ \A k \in DOMAIN Bound : used[k] < used'[k] => used'[k] <= Bound[k] + stray[k]
    /\ UNCHANGED stray

GiveBack ==
    /\ used' \in [Keys -> Int]
    /\ stray' \in [Keys -> Int]
    /\ \A k \in Keys : used'[k] <= used[k] /\ stray[k] <= stray'[k]

Next == Take \/ GiveBack

Spec == Init /\ [][Next]_vars

\* No more is taken than the limit and what strayed.
Holds == \A k \in DOMAIN Bound : used[k] <= Bound[k] + stray[k]

=============================================================================
