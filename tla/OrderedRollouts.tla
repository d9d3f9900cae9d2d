---------------------------- MODULE OrderedRollouts ----------------------------
(***************************************************************************)
(* What the two controllers promise about rollouts, without queues,        *)
(* caches, locks and passes: users write bundles and bases, and now and    *)
(* then a bundle is rolled out, with the bases merged into it.  A rollout  *)
(* takes versions there have been, takes the bundle with the base it       *)
(* names, and takes nothing older than the rollout before it did.          *)
(***************************************************************************)
EXTENDS Naturals

CONSTANTS
  Bundles,   \* AppBundles
  Bases,     \* AppBundleBases
  Contents,  \* contents of a spec, its base field aside
  None       \* no object, no base, or no rollout yet

Objects == [content : Contents, base : Bases \cup {None}, rv : Nat]

VARIABLES
  cluster,  \* what users have written: key -> object, or None
  applied,  \* bundle -> what was last rolled out for it, or None
  writes    \* how many writes there have been

vars == <<cluster, applied, writes>>

Init ==
  /\ cluster \in [Bundles \cup Bases -> {None} \cup
                  [content : Contents, base : Bases \cup {None}, rv : {0}]]
  /\ applied = [b \in Bundles |-> None]
  /\ writes = 0

\* A user writes k, or deletes it.
Write(k) ==
  /\ writes' = writes + 1
  /\ cluster' = [cluster EXCEPT ![k] = cluster'[k]]
  /\ \/ cluster'[k] \in Objects /\ cluster'[k].rv = writes'
     \/ cluster'[k] = None
  /\ UNCHANGED applied

\* A rollout of b names what it took of the bundle and of the bases.
Rollout(b) ==
  /\ applied' = [applied EXCEPT ![b] = applied'[b]]
  /\ applied'[b] # None
  /\ LET took   == applied'[b].obj
         merged == applied'[b].merged
     IN /\ took \in Objects /\ took.rv <= writes
        /\ merged \subseteq Bases \X (0 .. writes)
        /\ took.base # None => \E m \in merged : m[1] = took.base
        /\ applied[b] # None =>
             /\ applied[b].obj.rv < took.rv \/ applied[b].obj = took
             /\ \A old \in applied[b].merged, m \in merged :
                  old[1] = m[1] => old[2] <= m[2]
  /\ UNCHANGED <<cluster, writes>>

Next ==
  \/ \E k \in Bundles \cup Bases : Write(k)
  \/ \E b \in Bundles : Rollout(b)

Spec == Init /\ [][Next]_vars
=============================================================================
