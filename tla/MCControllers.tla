---------------------------- MODULE MCControllers ----------------------------
(* Instances of Controllers for TLC. *)
EXTENDS Controllers, TLC

CONSTANTS b1, b2, a1, a2, m1, m2, m3, m4

\* Every object has a mutex of its own.
MCMutexOf == [k \in Keys |-> CASE k = b1 -> m1 [] k = b2 -> m2 [] k = a1 -> m3 [] k = a2 -> m4]
\* Two bundles whose names and namespaces join to the same text.
MCMutexShared == [k \in Keys |-> IF k \in Bundles THEN m1 ELSE m3]
\* b1 may name a1, and a1 may name a2.
MCChain == (b1 :> {a1, None}) @@ (a1 :> {a2, None}) @@ (a2 :> {None})
MCMayName == [k \in Keys |-> IF k \in Bundles THEN {a1, None} ELSE {None}]
MCClock == {31, 60}
=============================================================================
