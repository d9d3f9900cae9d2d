------------------------------ MODULE ConfigMaps ------------------------------
(***************************************************************************)
(* ReconcileConfigMap (config_map.go): the ConfigMap of a bundle follows   *)
(* the bundle's configs, and the pod that mounts it is restarted, for it   *)
(* mounts single files (SubPath in deployment.go), which keep the content  *)
(* they had when the pod started.                                          *)
(***************************************************************************)
EXTENDS Upserts, FiniteSets

CONSTANTS
  Files,      \* keys of a bundle's configs
  Contents,   \* contents other than the empty one
  Empty,      \* the empty string
  OwnPods,    \* replicas of the bundle's Deployment
  OtherPods   \* pods of a bundle of the same name in another namespace

\* A config is in the ConfigMap ("plain"), in one named by the user
\* ("existing"), or in the Secret of the bundle ("secret").
Config == [kind : {"plain", "existing", "secret"}, content : Contents \cup {Empty}]

Bundles == MapsTo(Files, Config)
Data == MapsTo(Files, Contents \cup {Empty})

ASSUME ConfigMapsAssumption ==
  /\ Empty \notin Contents
  /\ None \notin Names \cup Data
  /\ Written \subseteq Bundles
  /\ OwnPods \cap OtherPods = {}

VARIABLES
  running,  \* pod -> the data it started with, or None when it is gone
  listed    \* the informer's pods: <<pod, "current">>, <<pod, "gone">>

Pods == OwnPods \cup OtherPods
podVars == <<running, listed>>
vars == <<upsertVars, podVars>>

TypeOK ==
  /\ UpsertTypeOK(Bundles, Data, {"delete", "pods"})
  /\ running \in [Pods -> Data \cup {None}]
  /\ listed \subseteq Pods \X {"current", "gone"}

-----------------------------------------------------------------------------

Plain(configs) == {f \in DOMAIN configs : configs[f].kind = "plain"}

CreateExpectedConfigMap(configs) ==
  IF Plain(configs) = {} THEN None
  ELSE [f \in Plain(configs) |-> configs[f].content]

\* Keys that expected lacks and contents it leaves empty are not compared.
DeepDerivative(expected, current) ==
  current # None /\ \A f \in DOMAIN expected :
    f \in DOMAIN current /\ expected[f] \in {Empty, current[f]}

\* Mutant: the arguments are swapped.
AsExpectedSwapped(expected, current) ==
  current # None /\ DeepDerivative(current, expected)

\* Mutant: never mind what is there.
NeverAsExpected(expected, current) == FALSE

AsExpected(expected, current) == DeepDerivative(expected, current)

-----------------------------------------------------------------------------
(***************************************************************************)
(* Get, compare, decide.  A pass that finds nothing to do changes nothing, *)
(* and neither does one whose Get fails.                                   *)
(***************************************************************************)
Reconcile(cm) ==
  /\ pc \in Between
  /\ LET expected == CreateExpectedConfigMap(bundle)
     IN \/ /\ expected = None /\ cached[cm] # None
           /\ pc' = "delete" /\ at' = cm /\ UNCHANGED new
        \/ /\ expected # None /\ ~AsExpected(expected, cached[cm])
           /\ Upsert(cm, expected, cached[cm] # None)
  /\ UNCHANGED <<userVars, apiVars, podVars>>

\* Mutant: the pod is restarted before the data are there.
UpsertAfterRestart ==
  /\ pc \in {"create", "update"}
  /\ Goto("pods")
  /\ UNCHANGED <<userVars, apiVars, podVars>>

UpsertResource ==
  /\ Delete("idle") \/ Create("pods") \/ Update(TRUE, "pods")
  /\ UNCHANGED podVars

Killed(p) ==
  /\ running' = [running EXCEPT ![p] = None]
  /\ listed' = (listed \ {<<p, "current">>}) \cup {<<p, "gone">>}

\* No pod in the list is fine, and two are an error: none is restarted.
NoSinglePod ==
  /\ pc = "pods"
  /\ Cardinality(listed) # 1
  /\ Goto(IF listed = {} THEN "idle" ELSE "backoff")
  /\ UNCHANGED <<userVars, apiVars, podVars>>

\* The one pod in the list is deleted, if it is still there.
RestartPod ==
  /\ pc = "pods"
  /\ Cardinality(listed) = 1
  /\ \E p \in Pods :
       \/ <<p, "current">> \in listed /\ Killed(p) /\ Goto("idle") /\ UNCHANGED faults
       \/ <<p, "gone">> \in listed /\ Goto("backoff") /\ UNCHANGED <<podVars, faults>>
       \/ Fault /\ <<p, "current">> \in listed /\ Killed(p) /\ Goto("backoff")
       \/ Fault /\ Goto("backoff") /\ UNCHANGED podVars
  /\ UNCHANGED <<userVars, live, cached, pending, crashes>>

WatchConfigMap(cm) == Watch(cm) /\ UNCHANGED podVars

\* The ReplicaSet replaces a pod, and the kubelet starts it once what it
\* mounts is there.
PodStarts(p) ==
  /\ running[p] = None
  /\ \/ p \in OwnPods /\ \E cm \in Names :
          /\ live[cm] # None \/ CreateExpectedConfigMap(bundle) = None
          /\ running' = [running EXCEPT ![p] = IF live[cm] = None THEN <<>> ELSE live[cm]]
     \/ p \in OtherPods /\ running' = [running EXCEPT ![p] = <<>>]
  /\ UNCHANGED <<upsertVars, listed>>

\* The informer of pods learns of a pod that started, or of one that went.
ListPod(p) ==
  /\ \/ /\ running[p] # None
        /\ <<p, "current">> \notin listed
        /\ listed' = listed \cup {<<p, "current">>}
     \/ /\ <<p, "gone">> \in listed
        /\ listed' = listed \ {<<p, "gone">>}
  /\ UNCHANGED <<upsertVars, running>>

Crash ==
  /\ Restart
  /\ listed' = {p \in Pods : running[p] # None} \X {"current"}
  /\ UNCHANGED running

ReconcileConfigMap(cm) ==
  Reconcile(cm) \/ UpsertResource \/ NoSinglePod \/ RestartPod

Init ==
  /\ bundle \in Written
  /\ live = [cm \in Names |-> CreateExpectedConfigMap(bundle)]
  /\ UpsertInit
  /\ running = [p \in Pods |-> None]
  /\ listed = {}

Next ==
  \/ (Edit \/ \E cm \in Names : Drift(cm)) /\ UNCHANGED podVars
  \/ \E cm \in Names : ReconcileConfigMap(cm) \/ WatchConfigMap(cm)
  \/ Crash
  \/ \E p \in Pods : PodStarts(p) \/ ListPod(p)

Spec == Init /\ [][Next]_vars

-----------------------------------------------------------------------------
(***************************************************************************)
(* When the pod is deleted to pick up new data, they are in place, or      *)
(* someone has deleted the ConfigMap since, and the pod that comes waits   *)
(* for it: it cannot start with the data from before the write.            *)
(***************************************************************************)
RestartedForNewData ==
  pc = "pods" => live[at] \in {new, None}

\* A pass has written what the bundle says, and the informer has seen it.
Settled ==
  /\ pc \in Between
  /\ \A cm \in Names :
       live[cm] = CreateExpectedConfigMap(bundle) /\ pending[cm] = <<>>

Following == INSTANCE FollowedBundle
  WITH Replacing <- FALSE,
       said      <- {[cm \in Names |-> CreateExpectedConfigMap(bundle)]},
       stored    <- live,
       taken     <- IF pc \in Between THEN {} ELSE {[cm \in Names |-> new]},
       settled   <- Settled

(***************************************************************************)
(* ReconcileConfigMap implements FollowedBundle: the ConfigMap is at any   *)
(* moment what one version of the bundle says, never older than before,    *)
(* and once it is what the bundle says now it is written no more.          *)
(***************************************************************************)
FollowsBundle == Following!Spec

(***************************************************************************)
(* The requeue brings passes back, the watches deliver, pods are replaced. *)
(***************************************************************************)
Fairness ==
  /\ \A cm \in Names : WF_vars(ReconcileConfigMap(cm)) /\ WF_vars(WatchConfigMap(cm))
  /\ \A p \in Pods : WF_vars(PodStarts(p)) /\ WF_vars(ListPod(p))

FairSpec == Spec /\ Fairness

\* current has every content that configs says and does not leave empty.
Carries(current, configs) ==
  \A f \in Plain(configs) : configs[f].content # Empty =>
    current # None /\ f \in DOMAIN current /\ current[f] = configs[f].content

(***************************************************************************)
(* Once the bundle is left alone its ConfigMap carries its configs, or is  *)
(* gone if it has none, whatever stale caches, lost answers and restarts   *)
(* did to the passes on the way, and however often the bundle changed.     *)
(***************************************************************************)
EventuallyCarried ==
  \A cm \in Names :
    <>[](/\ Carries(live[cm], bundle)
         /\ Plain(bundle) = {} <=> live[cm] = None)

(***************************************************************************)
(* A change restarts the pod a bounded number of times: passes that read   *)
(* the old data from the cache may restart it again, but not forever.      *)
(***************************************************************************)
EventuallyQuiet ==
  <>[][\A p \in Pods : running[p] # None => running'[p] # None]_vars

-----------------------------------------------------------------------------
\* "Restart the pod after the config map has been updated.": the pods come
\* to run with the data.
PodsFollow ==
  <>[](\A p \in OwnPods : running[p] # None /\ Carries(running[p], bundle))
=============================================================================
