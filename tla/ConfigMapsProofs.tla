--------------------------- MODULE ConfigMapsProofs ---------------------------
(***************************************************************************)
(* Proofs of the safety properties of ConfigMaps, and that it implements   *)
(* FollowedBundle, for all bundles, names, pods and bounds.                *)
(***************************************************************************)
EXTENDS ConfigMaps, UpsertsProofs

\* A pass that writes nothing, or is to delete, has no object in hand.
InHand == pc \in Between \cup {"delete"} => new = None

IInv == TypeOK /\ Places /\ Informed /\ InHand /\ RestartedForNewData

Steps == {"delete", "pods"}

-----------------------------------------------------------------------------

LEMMA ContentsType ==
  ASSUME NEW b \in Bundles
  PROVE  [f \in Plain(b) |-> b[f].content] \in Data
<1>1. PICK D \in SUBSET Files : IsFiniteSet(D) /\ b \in [D -> Config]
  BY DEF Bundles, MapsTo
<1>2. Plain(b) \in SUBSET D /\ \A f \in Plain(b) : b[f].content \in Contents \cup {Empty}
  BY <1>1 DEF Plain, Config
<1>3. [f \in Plain(b) |-> b[f].content] \in [Plain(b) -> Contents \cup {Empty}]
  BY <1>2
<1>4. IsFiniteSet(Plain(b))
  BY <1>1, <1>2, FS_Subset
<1> QED BY <1>1, <1>2, <1>3, <1>4 DEF Data, MapsTo

LEMMA ExpectedType ==
  ASSUME NEW b \in Bundles
  PROVE  CreateExpectedConfigMap(b) \in Data \cup {None}
BY ContentsType DEF CreateExpectedConfigMap

LEMMA InitIInv == Init => IInv
<1> SUFFICES ASSUME Init PROVE IInv
  OBVIOUS
<1>1. bundle \in Bundles
  BY ConfigMapsAssumption DEF Init
<1>2. live \in [Names -> Data \cup {None}]
  BY <1>1, ExpectedType DEF Init
<1>3. UpsertTypeOK(Bundles, Data, Steps)
  BY <1>1, <1>2, LagAssumption
  DEF Init, UpsertInit, UpsertTypeOK, UpsertSteps, Between
<1>4. TypeOK
  BY <1>3 DEF Init, TypeOK, Steps
<1> QED
  BY <1>2, <1>4
  DEF Init, UpsertInit, IInv, Places, Informed, InHand, RestartedForNewData, Between, AtName

-----------------------------------------------------------------------------

LEMMA NextType ==
  ASSUME TypeOK, Places, [Next]_vars
  PROVE  TypeOK'
<1> USE DEF Steps
<1>0. UpsertTypeOK(Bundles, Data, Steps)
  BY DEF TypeOK
<1> SUFFICES /\ UpsertTypeOK(Bundles, Data, Steps)'
             /\ running' \in [Pods -> Data \cup {None}]
             /\ listed' \subseteq Pods \X {"current", "gone"}
  BY DEF TypeOK
<1>1. ASSUME Edit \/ \E cm \in Names : Drift(cm), UNCHANGED podVars PROVE TypeOK'
  BY <1>0, <1>1, EditType, DriftType, ConfigMapsAssumption DEF podVars, TypeOK
<1>2. ASSUME NEW cm \in Names, Reconcile(cm) PROVE TypeOK'
  <2>1. bundle \in Bundles
    BY DEF TypeOK, UpsertTypeOK
  <2>2. CreateExpectedConfigMap(bundle) \in Data \cup {None}
    BY <2>1, ExpectedType
  <2>3. /\ pc' \in UpsertSteps \cup Steps
        /\ at' \in Names \cup {None}
        /\ new' \in Data \cup {None}
    BY <1>2, <2>2 DEF Reconcile, Upsert, TypeOK, UpsertTypeOK, UpsertSteps
  <2> QED BY <1>2, <2>3 DEF Reconcile, userVars, apiVars, podVars, TypeOK, UpsertTypeOK
<1>3. CASE UpsertResource
  <2>1. {"idle", "pods"} \subseteq UpsertSteps \cup Steps
    BY DEF UpsertSteps, Between
  <2>2. UpsertTypeOK(Bundles, Data, Steps)'
    BY <1>0, <1>3, <2>1, UpsertStepType DEF UpsertResource
  <2> QED BY <1>3, <2>2 DEF UpsertResource, podVars, TypeOK
<1>4. CASE NoSinglePod
  <2>1. /\ pc' \in UpsertSteps \cup Steps
        /\ at' \in Names \cup {None}
        /\ new' \in Data \cup {None}
    BY <1>0, <1>4, GotoType DEF NoSinglePod, UpsertSteps, Between
  <2> QED BY <1>4, <2>1 DEF NoSinglePod, userVars, apiVars, podVars, TypeOK, UpsertTypeOK
<1>5. CASE RestartPod
  <2>1. Goto("idle") \/ Goto("backoff")
    BY <1>5 DEF RestartPod
  <2>2. /\ pc' \in UpsertSteps \cup Steps
        /\ at' \in Names \cup {None}
        /\ new' \in Data \cup {None}
    BY <1>0, <2>1, GotoType DEF UpsertSteps, Between
  <2>3. faults' \in Nat
    BY <1>5 DEF RestartPod, Fault, TypeOK, UpsertTypeOK
  <2>4. UNCHANGED podVars \/ \E p \in Pods : Killed(p)
    BY <1>5 DEF RestartPod
  <2>5. /\ running' \in [Pods -> Data \cup {None}]
        /\ listed' \subseteq Pods \X {"current", "gone"}
    BY <2>4 DEF Killed, podVars, TypeOK
  <2> QED BY <1>5, <2>2, <2>3, <2>5 DEF RestartPod, userVars, TypeOK, UpsertTypeOK
<1>6. ASSUME NEW cm \in Names, WatchConfigMap(cm) PROVE TypeOK'
  BY <1>0, <1>6, WatchType DEF WatchConfigMap, podVars, TypeOK
<1>7. CASE Crash
  <2>1. UpsertTypeOK(Bundles, Data, Steps)'
    BY <1>0, <1>7, RestartType DEF Crash
  <2> QED BY <1>7, <2>1 DEF Crash, TypeOK
<1>8. ASSUME NEW p \in Pods, PodStarts(p) PROVE TypeOK'
  <2>1. <<>> \in Data
    <3>1. <<>> \in Seq(Contents \cup {Empty}) /\ Len(<<>>) = 0
      OBVIOUS
    <3>2. <<>> \in [{} -> Contents \cup {Empty}]
      BY <3>1
    <3> QED BY <3>2, FS_EmptySet DEF Data, MapsTo
  <2>2. \A cm \in Names : live[cm] \in Data \cup {None}
    BY <1>0 DEF UpsertTypeOK
  <2>3. running' \in [Pods -> Data \cup {None}]
    BY <1>8, <2>1, <2>2 DEF PodStarts, TypeOK
  <2> QED BY <1>8, <2>3 DEF PodStarts, upsertVars, userVars, apiVars, passVars, TypeOK, UpsertTypeOK
<1>9. ASSUME NEW p \in Pods, ListPod(p) PROVE TypeOK'
  BY <1>9 DEF ListPod, upsertVars, userVars, apiVars, passVars, TypeOK, UpsertTypeOK
<1>10. CASE UNCHANGED vars
  BY <1>10 DEF vars, podVars, upsertVars, userVars, apiVars, passVars, TypeOK, UpsertTypeOK
<1> QED
  BY <1>1, <1>2, <1>3, <1>4, <1>5, <1>6, <1>7, <1>8, <1>9, <1>10
  DEF Next, ReconcileConfigMap, TypeOK

\* The pass is the only one that writes, and goes to the pods from a write.
LEMMA NextRestarted ==
  ASSUME Places, RestartedForNewData, [Next]_vars
  PROVE  Places' /\ RestartedForNewData'
<1>1. CASE UNCHANGED <<live, passVars>>
  BY <1>1 DEF passVars, Places, AtName, RestartedForNewData
<1>2. ASSUME NEW cm \in Names, Reconcile(cm) PROVE Places' /\ RestartedForNewData'
  <2>1. live' = live /\ at' = cm /\ pc' # "pods"
    BY <1>2 DEF Reconcile, Upsert, apiVars
  <2> QED BY <2>1 DEF Places, AtName, RestartedForNewData
<1>3. CASE UpsertResource
  <2>1. CASE Delete("idle")
    BY <2>1, CallPlaces DEF Delete, RestartedForNewData, Between, AtName
  <2>2. CASE Create("pods")
    BY <2>2, CallPlaces DEF Create, RestartedForNewData, Between, AtName
  <2>3. CASE Update(TRUE, "pods")
    BY <2>3, CallPlaces DEF Update, RestartedForNewData, Between, AtName
  <2> QED BY <1>3, <2>1, <2>2, <2>3 DEF UpsertResource
<1>4. CASE NoSinglePod \/ RestartPod \/ Crash
  BY <1>4
  DEF NoSinglePod, RestartPod, Crash, Restart, Goto, Between, apiVars, Places, AtName, RestartedForNewData
<1>5. CASE \/ Edit
           \/ \E cm \in Names : WatchConfigMap(cm)
           \/ \E p \in Pods : PodStarts(p) \/ ListPod(p)
           \/ UNCHANGED vars
  BY <1>1, <1>5
  DEF Edit, WatchConfigMap, Watch, PodStarts, ListPod, vars, upsertVars, apiVars
<1>6. ASSUME NEW cm \in Names, Drift(cm) PROVE Places' /\ RestartedForNewData'
  <2>1. /\ DOMAIN live' = Names
        /\ \A n \in Names : live'[n] \in {live[n], None}
        /\ UNCHANGED passVars
    BY <1>6 DEF Drift, Put, Places
  <2> QED BY <2>1 DEF passVars, Places, AtName, RestartedForNewData
<1> QED
  BY <1>2, <1>3, <1>4, <1>5, <1>6 DEF Next, ReconcileConfigMap

LEMMA NextInformed ==
  ASSUME TypeOK, Places, Informed, [Next]_vars
  PROVE  Informed'
<1>0. UpsertTypeOK(Bundles, Data, Steps)
  BY DEF TypeOK, Steps
<1>1. CASE UpsertResource
  BY <1>0, <1>1, UpsertStepInformed DEF UpsertResource
<1>2. ASSUME NEW cm \in Names, WatchConfigMap(cm) PROVE Informed'
  BY <1>0, <1>2, WatchInformed DEF WatchConfigMap, UpsertTypeOK
<1>3. CASE Crash
  BY <1>3 DEF Crash, Restart, Informed
<1>4. CASE UNCHANGED <<live, cached, pending>>
  BY <1>4 DEF Informed
<1>5. CASE \/ Edit \/ NoSinglePod \/ RestartPod
           \/ \E cm \in Names : Reconcile(cm)
           \/ \E p \in Pods : PodStarts(p) \/ ListPod(p)
           \/ UNCHANGED vars
  BY <1>4, <1>5
  DEF Edit, NoSinglePod, RestartPod, Reconcile, PodStarts, ListPod, vars, upsertVars,
      apiVars
<1>6. ASSUME NEW cm \in Names, Drift(cm) PROVE Informed'
  BY <1>0, <1>6, PutInformed DEF Drift, UpsertTypeOK
<1> QED BY <1>1, <1>2, <1>3, <1>5, <1>6 DEF Next, ReconcileConfigMap

LEMMA NextInHand ==
  ASSUME InHand, [Next]_vars
  PROVE  InHand'
<1>1. CASE UNCHANGED passVars
  BY <1>1 DEF passVars, InHand
<1>2. ASSUME NEW cm \in Names, Reconcile(cm) PROVE InHand'
  BY <1>2 DEF Reconcile, Upsert, InHand, Between
<1>3. CASE UpsertResource
  <2>1. \E step \in {"idle", "pods", "backoff"} : Goto(step)
    BY <1>3 DEF UpsertResource, Create, Update, Delete, Call
  <2> QED BY <2>1 DEF Goto, InHand, Between
<1>4. CASE NoSinglePod \/ RestartPod \/ Crash
  BY <1>4 DEF NoSinglePod, RestartPod, Crash, Restart, Goto, InHand, Between
<1>5. CASE \/ Edit
           \/ \E cm \in Names : Drift(cm) \/ WatchConfigMap(cm)
           \/ \E p \in Pods : PodStarts(p) \/ ListPod(p)
           \/ UNCHANGED vars
  BY <1>1, <1>5 DEF Edit, Drift, WatchConfigMap, Watch, PodStarts, ListPod, vars, upsertVars
<1> QED BY <1>2, <1>3, <1>4, <1>5 DEF Next, ReconcileConfigMap

LEMMA Inductive == Spec => []IInv
<1>1. IInv /\ [Next]_vars => IInv'
  BY NextType, NextRestarted, NextInformed, NextInHand DEF IInv
<1> QED BY <1>1, InitIInv, PTL DEF Spec

-----------------------------------------------------------------------------
(***************************************************************************)
(* Bundles, objects, caches and pods keep their types.                     *)
(***************************************************************************)
THEOREM TypeCorrect == Spec => []TypeOK
<1>1. IInv => TypeOK
  BY DEF IInv
<1> QED BY <1>1, Inductive, PTL

(***************************************************************************)
(* ReconcileConfigMap (config_map.go) restarts a pod only when the data    *)
(* that the pod is to pick up are in place, or deleted by someone since.   *)
(***************************************************************************)
THEOREM RestartsAfterWrite == Spec => []RestartedForNewData
<1>1. IInv => RestartedForNewData
  BY DEF IInv
<1> QED BY <1>1, Inductive, PTL

-----------------------------------------------------------------------------
\* No step but a user's is one that disturbs what has settled.
LEMMA SettledStep ==
  ASSUME IInv, Settled, Next, UNCHANGED <<bundle, edits>>
  PROVE  Settled' /\ UNCHANGED live
<1>0. /\ bundle' = bundle /\ pc \in Between
      /\ \A cm \in Names : /\ pending[cm] = <<>> /\ cached[cm] = live[cm]
                            /\ live[cm] = CreateExpectedConfigMap(bundle)
  BY DEF IInv, Settled, Informed
<1>1. CASE UNCHANGED <<live, pending, pc>>
  BY <1>0, <1>1 DEF Settled
<1>2. CASE \E p \in Pods : PodStarts(p) \/ ListPod(p)
  BY <1>1, <1>2 DEF PodStarts, ListPod, upsertVars, apiVars, passVars
<1>3. ASSUME NEW cm \in Names, WatchConfigMap(cm) PROVE FALSE
  BY <1>0, <1>3 DEF WatchConfigMap, Watch
<1>4. ASSUME NEW cm \in Names, Reconcile(cm) PROVE FALSE
  <2> DEFINE expected == CreateExpectedConfigMap(bundle)
  <2>1. cached[cm] = expected
    BY <1>0
  <2>2. expected # None => AsExpected(expected, expected)
    BY DEF AsExpected, DeepDerivative
  <2> QED BY <1>4, <2>1, <2>2 DEF Reconcile
<1>5. CASE UpsertResource \/ NoSinglePod \/ RestartPod
  BY <1>0, <1>5 DEF UpsertResource, Create, Update, Delete, NoSinglePod, RestartPod, Between
<1>6. CASE Crash
  BY <1>0, <1>6 DEF Crash, Restart, Goto, Between, Settled
<1>7. CASE Edit \/ \E cm \in Names : Drift(cm)
  <2>1. edits \in Nat /\ edits' = edits + 1
    BY <1>7 DEF Edit, Drift, UserStep, IInv, TypeOK, UpsertTypeOK
  <2> QED BY <2>1
<1> QED BY <1>7, <1>2, <1>3, <1>4, <1>5, <1>6 DEF Next, ReconcileConfigMap

\* Every step is one of FollowedBundle, or none.
LEMMA Follows ==
  ASSUME IInv, [Next]_vars
  PROVE  [Following!Next]_(Following!vars)
<1>1. ASSUME Next, UNCHANGED <<bundle, edits>>,
             \/ Following!Take \/ Following!Finish
             \/ \E cm \in Names : Following!Write(cm)
      PROVE  Following!Next
  BY <1>1, SettledStep DEF Following!Operator, Following!Next
<1>2. CASE Edit \/ \E cm \in Names : Drift(cm)
  BY <1>2
  DEF Edit, Drift, Put, UserStep, apiVars, passVars, Following!User, Following!Next
<1>3. ASSUME NEW cm \in Names, Reconcile(cm) PROVE Following!Next
  \* What the pass has in hand is what the bundle says now.
  <2>1. pc \in Between /\ UNCHANGED <<bundle, edits, live>>
    BY <1>3 DEF Reconcile, userVars, apiVars
  <2>2. new' = CreateExpectedConfigMap(bundle) /\ pc' \notin Between
    BY <1>3, <2>1 DEF Reconcile, Upsert, IInv, InHand, Between
  <2>3. Following!Take
    BY <2>1, <2>2 DEF Following!Take
  <2> QED BY <1>1, <1>3, <2>1, <2>3 DEF Next, ReconcileConfigMap
<1>4. CASE UpsertResource
  <2>1. pc \notin Between /\ at \in Names /\ UNCHANGED <<bundle, edits>>
    BY <1>4
    DEF UpsertResource, Create, Update, Delete, Between, IInv, Places, AtName, userVars
  <2>2. pc' \notin Between => new' = new
    BY <1>4 DEF UpsertResource, Create, Update, Delete, Call, Goto
  <2>3. UNCHANGED live \/ live' = [live EXCEPT ![at] = new]
    BY <1>4 DEF UpsertResource, Create, Update, Delete, Call, Put, IInv, InHand
  <2>4. Following!Finish \/ Following!Write(at)
    BY <2>1, <2>2, <2>3 DEF Following!Finish, Following!Write
  <2> QED BY <1>1, <1>4, <2>1, <2>4 DEF Next, ReconcileConfigMap
<1>5. ASSUME Next,
             \/ NoSinglePod \/ RestartPod \/ Crash
             \/ \E cm \in Names : WatchConfigMap(cm)
             \/ \E p \in Pods : PodStarts(p) \/ ListPod(p)
      PROVE  Following!Next
  <2>1. Following!Finish /\ UNCHANGED <<bundle, edits>>
    BY <1>5
    DEF NoSinglePod, RestartPod, Crash, Restart, Goto, Between, WatchConfigMap, Watch,
        PodStarts, ListPod, upsertVars, userVars, apiVars, passVars, Following!Finish
  <2> QED BY <1>1, <1>5, <2>1
<1>6. CASE UNCHANGED vars
  BY <1>6
  DEF vars, upsertVars, userVars, apiVars, passVars, Settled, Following!vars
<1> QED
  BY <1>2, <1>3, <1>4, <1>5, <1>6 DEF Next, ReconcileConfigMap

(***************************************************************************)
(* What has settled is right: the ConfigMap has the content of every       *)
(* config that is not a secret, and is gone if there is none.              *)
(***************************************************************************)
THEOREM SettledCarries ==
  Spec => [](Settled => \A cm \in Names :
               /\ Carries(live[cm], bundle)
               /\ Plain(bundle) = {} <=> live[cm] = None)
<1>1. ASSUME bundle \in Bundles, NEW cm \in Names,
             live[cm] = CreateExpectedConfigMap(bundle)
      PROVE  Carries(live[cm], bundle) /\ (Plain(bundle) = {} <=> live[cm] = None)
  <2> DEFINE data == [f \in Plain(bundle) |-> bundle[f].content]
  <2>1. CASE Plain(bundle) = {}
    BY <1>1, <2>1 DEF CreateExpectedConfigMap, Carries
  <2>2. CASE Plain(bundle) # {}
    <3>1. live[cm] = data
      BY <1>1, <2>2 DEF CreateExpectedConfigMap
    <3>2. data \in Data
      BY <1>1, ContentsType
    <3> QED BY <2>2, <3>1, <3>2, ConfigMapsAssumption DEF Carries
  <2> QED BY <2>1, <2>2
<1>2. IInv /\ Settled => \A cm \in Names :
        /\ Carries(live[cm], bundle)
        /\ Plain(bundle) = {} <=> live[cm] = None
  <2> SUFFICES ASSUME IInv, Settled, NEW cm \in Names
               PROVE  Carries(live[cm], bundle) /\ (Plain(bundle) = {} <=> live[cm] = None)
    OBVIOUS
  <2>1. bundle \in Bundles /\ live[cm] = CreateExpectedConfigMap(bundle)
    BY DEF IInv, TypeOK, UpsertTypeOK, Settled
  <2> QED BY <1>1, <2>1
<1> QED BY <1>2, Inductive, PTL

(***************************************************************************)
(* ReconcileConfigMap implements FollowedBundle, whatever the informer     *)
(* shows it, whatever calls fail and whenever the operator restarts.       *)
(***************************************************************************)
THEOREM ImplementsFollowedBundle == Spec => FollowsBundle
<1>1. Init => Following!Init
  BY DEF Init, UpsertInit, Between, Following!Init
<1>2. IInv /\ [Next]_vars => [Following!Next]_(Following!vars)
  BY Follows
<1> QED
  BY <1>1, <1>2, Inductive, PTL DEF Spec, FollowsBundle, Following!Spec
=============================================================================
