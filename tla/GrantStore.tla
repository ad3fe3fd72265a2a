----------------------------- MODULE GrantStore -----------------------------
(***************************************************************************)
(* What the versioned writes promise: each change of a grant happens at one   *)
(* moment, on what is stored at that moment.  Nothing here knows of versions,  *)
(* reads before a write, caches or instances.                                *)
(***************************************************************************)
CONSTANTS
    Subjects,
    Givers,        \* who may grant something to each subject
    NoGiver,       \* the giver of a subject without a grant
    Patches,
    NoLayer,       \* a grant that says nothing
    Merge(_, _)    \* a layer with a patch applied

VARIABLE grants    \* who gave each subject what he has, and what it says

Init == grants = [s \in Subjects |-> [by |-> NoGiver, layer |-> NoLayer]]

\* A giver patches what he gave himself; what another one gave is forgotten.
Change(s, k, patch) ==
    grants' = [grants EXCEPT ![s] =
                 [by |-> k, layer |-> Merge(IF @.by = k THEN @.layer ELSE NoLayer, patch)]]

Next == \E s \in Subjects : \E k \in Givers[s], patch \in Patches : Change(s, k, patch)

Spec == Init /\ [][Next]_grants

=============================================================================
