--------------------------- MODULE DeploymentsProofs ---------------------------
(***************************************************************************)
(* Proofs about deployment.go.                                             *)
(*                                                                         *)
(* Of ReconcileDeployment (Deployments): a Deployment is deleted for its   *)
(* selector only, and follows the bundle, whatever the bundles, the names, *)
(* the lag of the informer and the bounds.                                 *)
(*                                                                         *)
(* Of CreateExpectedDeployment (Mounts): what the containers mount, for    *)
(* any number of volumes and configs.  The invariant adds to the two       *)
(* properties that slices stay within their arrays; the lemma about append *)
(* says what an append to volumeMounts may change: one place, just behind  *)
(* the slice.                                                              *)
(***************************************************************************)
EXTENDS Deployments, Mounts, UpsertsProofs

IInv == TypeOK /\ Places /\ Informed /\ DeletedForSelector

-----------------------------------------------------------------------------
\* What is expected of a bundle.

LEMMA EnvType ==
  ASSUME NEW b \in Bundles, Expressible(b)
  PROVE  Env(b) \in Seq(EnvVars)
<1> DEFINE both == Sorted(b.envs) \o Sorted(b.sourced)
<1>1. Sorted(b.envs) \in Seq(EnvVars)
  <2>1. Sorted(b.envs) \in Seq(Keys \X (Values \cup {Empty}))
    BY SortedByKey, DeploymentsAssumption DEF Bundles
  <2> QED BY <2>1 DEF EnvVars
<1>2. Sorted(b.sourced) \in Seq(EnvVars)
  <2>1. b.sourced \in MapsTo(Keys, Sources)
    BY DEF Bundles, MapsTo, Expressible
  <2>2. Sorted(b.sourced) \in Seq(Keys \X Sources)
    BY <2>1, SortedByKey, DeploymentsAssumption
  <2> QED BY <2>2 DEF EnvVars
<1>3. both \in Seq(EnvVars)
  BY <1>1, <1>2
<1>4. <<Nvidia, "all">> \in EnvVars
  BY DeploymentsAssumption DEF EnvVars
<1> HIDE DEF both
<1>5. WithNvidia(both) \in Seq(EnvVars)
  BY <1>3, <1>4 DEF WithNvidia
<1> QED BY <1>3, <1>5 DEF Env, both

\* The server leaves alone the numbers a probe has.
LEMMA CompletedType ==
  ASSUME NEW probe \in Probes \cup {None}
  PROVE  /\ Completed(probe) \in Probes \cup {None}
         /\ probe = None \/ probe.period # 0 => Completed(probe) = probe
BY DeploymentsAssumption DEF Completed, Probes

LEMMA StoredFields ==
  ASSUME NEW b \in Bundles
  PROVE  Says(b) = [spec   |-> [selector |-> Own, image |-> b.image, env |-> Env(b),
                                probe |-> Completed(b.probe), policy |-> "default"],
                    labels |-> b.labels]
<1> DEFINE env   == Env(b)
           probe == b.probe
<1>1. CreateExpectedDeployment(b)
        = [selector |-> Own, image |-> b.image, env |-> env, probe |-> probe,
           policy |-> None]
  BY DEF CreateExpectedDeployment
<1> HIDE DEF env, probe
<1>2. [CreateExpectedDeployment(b) EXCEPT !.policy = "default"]
        = [selector |-> Own, image |-> b.image, env |-> env, probe |-> probe,
           policy |-> "default"]
  BY <1>1
<1>3. [[CreateExpectedDeployment(b) EXCEPT !.policy = "default"]
         EXCEPT !.probe = Completed(@)]
        = [selector |-> Own, image |-> b.image, env |-> env, probe |-> Completed(probe),
           policy |-> "default"]
  <2> DEFINE done == Completed(probe)
             spec == [CreateExpectedDeployment(b) EXCEPT !.policy = "default"]
  <2>1. spec = [selector |-> Own, image |-> b.image, env |-> env, probe |-> probe,
                policy |-> "default"]
    BY <1>2
  <2>2. Completed(spec.probe) = done
    BY <2>1
  <2> HIDE DEF done, spec
  <2>3. [spec EXCEPT !.probe = done]
          = [selector |-> Own, image |-> b.image, env |-> env, probe |-> done,
             policy |-> "default"]
    BY <2>1
  <2>4. [spec EXCEPT !.probe = Completed(@)] = [spec EXCEPT !.probe = done]
    BY <2>2
  <2> QED BY <2>3, <2>4 DEF done, spec
<1> QED BY <1>3 DEF Says, Stored, env, probe

LEMMA SaysType ==
  ASSUME NEW b \in Bundles, Expressible(b)
  PROVE  Says(b) \in Objects
<1> DEFINE env   == Env(b)
           probe == Completed(b.probe)
<1>1. env \in Seq(EnvVars)
  BY EnvType
<1>2. probe \in Probes \cup {None}
  BY CompletedType DEF Bundles
<1>3. b.image \in Images /\ b.labels \in SUBSET Labels
  BY DEF Bundles
<1>4. Says(b) = [spec   |-> [selector |-> Own, image |-> b.image, env |-> env,
                             probe |-> probe, policy |-> "default"],
                 labels |-> b.labels]
  BY StoredFields
<1> HIDE DEF env, probe
<1>5. [selector |-> Own, image |-> b.image, env |-> env, probe |-> probe,
       policy |-> "default"] \in Specs
  BY <1>1, <1>2, <1>3, DeploymentsAssumption DEF Specs
<1> QED BY <1>3, <1>4, <1>5 DEF Objects

\* What a pass writes is as expected, although the server has filled it in,
\* where what it has filled in is no number.
LEMMA SaysAsExpected ==
  ASSUME bundle \in Bundles, Expressible(bundle), Complete(bundle)
  PROVE  AsExpected(CreateExpectedDeployment(bundle), Says(bundle))
<1> DEFINE expected == CreateExpectedDeployment(bundle)
           current  == Says(bundle)
<1>1. current # None
  BY SaysType, DeploymentsAssumption
<1>2. Completed(bundle.probe) = bundle.probe
  BY CompletedType DEF Bundles, Complete
<1>3. /\ current.labels = bundle.labels
      /\ current.spec.selector = expected.selector
      /\ current.spec.image = expected.image
      /\ current.spec.env = expected.env
      /\ current.spec.probe = expected.probe
  BY <1>2, StoredFields DEF CreateExpectedDeployment
<1>4. expected.env \in Seq(EnvVars)
  BY EnvType DEF CreateExpectedDeployment
<1> HIDE DEF expected, current
<1>5. Len(expected.env) <= Len(current.spec.env)
  BY <1>3, <1>4
<1>6. AsExpected(expected, current)
  BY <1>1, <1>3, <1>5 DEF AsExpected, DeepDerivative, StringMapsMatch
<1> QED BY <1>6 DEF expected, current

-----------------------------------------------------------------------------
LEMMA InitIInv == Init => IInv
<1> SUFFICES ASSUME Init PROVE IInv
  OBVIOUS
<1>1. bundle \in Bundles /\ live \in [Names -> Objects \cup {None}]
  BY DeploymentsAssumption DEF Init
<1>2. TypeOK
  BY <1>1, LagAssumption
  DEF Init, UpsertInit, TypeOK, UpsertTypeOK, UpsertSteps, Between
<1> QED
  BY <1>1, <1>2
  DEF Init, UpsertInit, IInv, Places, Informed, DeletedForSelector, Between, AtName

LEMMA NextType ==
  ASSUME IInv, [Next]_upsertVars
  PROVE  TypeOK' /\ Informed'
<1>0. UpsertTypeOK(Bundles, Objects, {}) /\ Places /\ Informed
  BY DEF IInv, TypeOK
<1> SUFFICES UpsertTypeOK(Bundles, Objects, {})' /\ Informed'
  BY DEF TypeOK
<1>1. CASE Edit
  BY <1>0, <1>1, EditType, DeploymentsAssumption DEF Edit, apiVars, Informed
<1>2. ASSUME NEW n \in Names, Drift(n)
      PROVE  UpsertTypeOK(Bundles, Objects, {})' /\ Informed'
  <2>1. Put(n, None) /\ UNCHANGED cached
    BY <1>2 DEF Drift
  <2> QED BY <1>0, <1>2, <2>1, DriftType, PutInformed DEF UpsertTypeOK
<1>3. ASSUME NEW n \in Names, Watch(n)
      PROVE  UpsertTypeOK(Bundles, Objects, {})' /\ Informed'
  <2>1. Informed'
    BY <1>0, <1>3, WatchInformed DEF UpsertTypeOK
  <2> QED BY <1>0, <1>3, <2>1, WatchType
<1>4. ASSUME NEW n \in Names, Reconcile(n)
      PROVE  UpsertTypeOK(Bundles, Objects, {})' /\ Informed'
  <2>1. bundle \in Bundles /\ Expressible(bundle) /\ UNCHANGED <<userVars, apiVars>>
    BY <1>0, <1>4 DEF Reconcile, UpsertTypeOK
  <2>2. new' \in Objects /\ at' = n /\ pc' \in UpsertSteps
    BY <1>4, <2>1, SaysType DEF Reconcile, Upsert, UpsertSteps
  <2> QED BY <1>0, <2>1, <2>2 DEF userVars, apiVars, UpsertTypeOK, Informed
<1>5. CASE Create("idle") \/ Update(TRUE, "idle") \/ DeleteRefused \/ CreateAgain
  <2>1. "idle" \in UpsertSteps \cup {}
    BY DEF UpsertSteps, Between
  <2> QED BY <1>0, <1>5, <2>1, UpsertStepType, UpsertStepInformed
<1>6. CASE UpdateRefused(SelectorChanges, FALSE)
  <2>1. /\ UNCHANGED <<userVars, live, cached, pending, crashes>>
        /\ UNCHANGED faults \/ Fault
        /\ Goto("recreate") \/ Goto("backoff")
    BY <1>6 DEF UpdateRefused
  <2>2. /\ pc' \in UpsertSteps \cup {}
        /\ at' \in Names \cup {None}
        /\ new' \in Objects \cup {None}
    BY <1>0, <2>1, GotoType DEF UpsertSteps, Between
  <2> QED BY <1>0, <2>1, <2>2 DEF Fault, userVars, UpsertTypeOK, Informed
<1>7. CASE Restart
  <2>1. Informed'
    BY <1>7 DEF Restart, Informed
  <2> QED BY <1>0, <1>7, <2>1, RestartType
<1>8. CASE UNCHANGED upsertVars
  BY <1>0, <1>8 DEF upsertVars, userVars, apiVars, passVars, UpsertTypeOK, Informed
<1> QED
  BY <1>1, <1>2, <1>3, <1>4, <1>5, <1>6, <1>7, <1>8
  DEF Next, ReconcileDeployment, UpsertResource

\* Between the answer that leads to the Delete and the Delete nobody writes.
LEMMA NextPlaces ==
  ASSUME Places, DeletedForSelector, [Next]_upsertVars
  PROVE  Places' /\ DeletedForSelector'
<1> DEFINE Kept == Places' /\ DeletedForSelector'
<1>1. CASE UNCHANGED <<live, passVars>>
  BY <1>1 DEF passVars, Places, AtName, DeletedForSelector, SelectorChanges
<1>2. ASSUME NEW n \in Names, Drift(n) PROVE Kept
  <2>1. UNCHANGED passVars /\ Put(n, None)
    BY <1>2 DEF Drift
  <2>2. Places'
    BY <2>1, PutElsewhere DEF passVars, Places, AtName
  <2>3. pc = "recreate" => live'[at] \in {None, live[at]}
    BY <2>1, PutElsewhere DEF Places, AtName, Between
  <2> QED BY <2>1, <2>2, <2>3 DEF passVars, DeletedForSelector, SelectorChanges
<1>3. ASSUME NEW n \in Names, Reconcile(n) PROVE Kept
  <2>1. live' = live /\ at' = n /\ pc' # "recreate"
    BY <1>3 DEF Reconcile, Upsert, apiVars
  <2> QED BY <2>1 DEF Places, AtName, DeletedForSelector
<1>4. CASE UpsertResource
  <2>1. CASE Create("idle")
    BY <2>1, CallPlaces DEF Create, DeletedForSelector, Between, AtName
  <2>2. CASE Update(TRUE, "idle")
    BY <2>2, CallPlaces DEF Update, DeletedForSelector, Between, AtName
  <2>3. CASE UpdateRefused(SelectorChanges, FALSE)
    \* The one step that leads to the Delete: the server has said why.
    <3>1. live' = live /\ SelectorChanges /\ pc = "update"
      BY <2>3 DEF UpdateRefused, apiVars
    <3>2. \/ pc' = "recreate" /\ UNCHANGED <<at, new>>
          \/ pc' = "backoff"
      BY <2>3 DEF UpdateRefused, Goto, Between
    <3> QED BY <3>1, <3>2 DEF Places, AtName, DeletedForSelector, SelectorChanges, Between
  <2>4. CASE DeleteRefused
    BY <2>4, CallPlaces DEF DeleteRefused, DeletedForSelector, Between, AtName
  <2>5. CASE CreateAgain
    BY <2>5, CallPlaces DEF CreateAgain, DeletedForSelector, Between, AtName
  <2> QED BY <1>4, <2>1, <2>2, <2>3, <2>4, <2>5 DEF UpsertResource
<1>5. CASE Restart
  BY <1>5 DEF Restart, Goto, Between, Places, AtName, DeletedForSelector
<1>6. CASE Edit \/ (\E n \in Names : Watch(n)) \/ UNCHANGED upsertVars
  BY <1>6, <1>1 DEF Edit, Watch, upsertVars, apiVars
<1> QED
  BY <1>2, <1>3, <1>4, <1>5, <1>6 DEF Next, ReconcileDeployment

LEMMA Inductive == Spec => []IInv
<1>1. IInv /\ [Next]_upsertVars => IInv'
  BY NextType, NextPlaces DEF IInv
<1> QED BY <1>1, InitIInv, PTL DEF Spec

-----------------------------------------------------------------------------
(***************************************************************************)
(* Bundles, Deployments, caches and what passes have in hand keep their    *)
(* types; the environment is a list however the maps are ranged over.      *)
(***************************************************************************)
THEOREM TypeCorrect == Spec => []TypeOK
<1>1. IInv => TypeOK
  BY DEF IInv
<1> QED BY <1>1, Inductive, PTL

(***************************************************************************)
(* UpsertResource (helpers.go) deletes and creates again a Deployment only *)
(* if its selector is not what the bundle's is, or it is gone already.     *)
(***************************************************************************)
THEOREM OnlyForSelector == Spec => []DeletedForSelector
<1>1. IInv => DeletedForSelector
  BY DEF IInv
<1> QED BY <1>1, Inductive, PTL

-----------------------------------------------------------------------------
\* No step but a user's is one that disturbs what has settled: what a pass
\* does not find as expected is incomplete, and it writes it as it is.
LEMMA SettledStep ==
  ASSUME IInv, Settled, Next, edits' = edits
  PROVE  Settled' /\ UNCHANGED live
<1>0. /\ bundle \in Bundles /\ edits \in Nat /\ Places
      /\ pc \in Between \cup {"update"}
      /\ pc = "update" => ~Complete(bundle) /\ new = Says(bundle)
      /\ live = [n \in Names |-> live[n]]
      /\ \A n \in Names : /\ pending[n] = <<>>
                          /\ cached[n] = live[n] /\ live[n] = Says(bundle)
  BY DEF IInv, TypeOK, UpsertTypeOK, Settled, Informed
<1>1. CASE Edit \/ \E n \in Names : Drift(n)
  BY <1>0, <1>1 DEF Edit, Drift, UserStep
<1>2. ASSUME NEW n \in Names, Watch(n) PROVE FALSE
  BY <1>0, <1>2 DEF Watch
<1>3. ASSUME NEW n \in Names, Reconcile(n) PROVE Settled' /\ UNCHANGED live
  <2>1. Expressible(bundle) /\ UNCHANGED <<userVars, apiVars>>
    BY <1>3 DEF Reconcile
  <2>2. ~AsExpected(CreateExpectedDeployment(bundle), Says(bundle))
    BY <1>0, <1>3 DEF Reconcile
  <2>3. ~Complete(bundle)
    BY <1>0, <2>1, <2>2, SaysAsExpected
  <2>4. cached[n] # None
    BY <1>0, <2>1, SaysType, DeploymentsAssumption
  <2>5. pc' = "update" /\ new' = Says(bundle)
    BY <1>3, <2>4 DEF Reconcile, Upsert
  <2>6. bundle' = bundle /\ live' = live /\ pending' = pending
    BY <2>1 DEF userVars, apiVars
  <2>7. Complete(bundle)' = Complete(bundle) /\ Says(bundle)' = Says(bundle)
    BY <2>6
  <2> QED BY <1>0, <2>3, <2>5, <2>6, <2>7 DEF Settled
<1>4. CASE UpsertResource
  <2>1. pc = "update" /\ at \in Names /\ new = Says(bundle) /\ live[at] = new
    BY <1>0, <1>4
    DEF UpsertResource, Create, Update, UpdateRefused, DeleteRefused, CreateAgain,
        Between, Places, AtName
  <2>2. ~UpdateRefused(SelectorChanges, FALSE)
    BY <2>1 DEF UpdateRefused, SelectorChanges
  <2>3. Update(TRUE, "idle")
    BY <1>4, <2>1, <2>2
    DEF UpsertResource, Create, DeleteRefused, CreateAgain
  \* The update changes nothing, and there is nothing to be seen of it.
  <2>4. UNCHANGED <<bundle, live, pending>> /\ pc' \in Between
    <3>1. Put(at, new) => UNCHANGED <<live, pending>>
      BY <1>0, <2>1 DEF Put
    <3> QED BY <2>3, <3>1 DEF Update, Call, Goto, Between, userVars
  <2> QED BY <1>0, <2>4 DEF Settled, Between
<1>5. CASE Restart
  BY <1>0, <1>5 DEF Restart, Goto, Between, userVars, Settled
<1> QED BY <1>1, <1>2, <1>3, <1>4, <1>5 DEF Next, ReconcileDeployment

\* Every step is one of FollowedBundle, or none.
LEMMA Follows ==
  ASSUME IInv, [Next]_upsertVars
  PROVE  [Following!Next]_(Following!vars)
<1>0. Places /\ DOMAIN live = Names
  BY DEF IInv, Places
<1>1. ASSUME Next, UNCHANGED <<bundle, edits>>,
             \/ Following!Take \/ Following!Finish
             \/ \E n \in Names : Following!Write(n) \/ Following!Replace(n)
      PROVE  Following!Next
  BY <1>1, SettledStep DEF Following!Operator, Following!Next
<1>2. CASE Edit
  BY <1>2 DEF Edit, UserStep, apiVars, passVars, Following!User, Following!Next
<1>3. ASSUME NEW n \in Names, Drift(n) PROVE Following!Next
  BY <1>3 DEF Drift, UserStep, Put, passVars, Following!User, Following!Next
<1>4. ASSUME NEW n \in Names, Reconcile(n) PROVE Following!Next
  \* What the pass has in hand is what the bundle says now.
  <2>1. Following!Take /\ UNCHANGED <<bundle, edits>>
    BY <1>4 DEF Reconcile, Upsert, Between, userVars, apiVars, Following!Take
  <2> QED BY <1>1, <1>4, <2>1 DEF Next, ReconcileDeployment
<1>5. CASE UpsertResource
  <2>1. pc \notin Between /\ at \in Names /\ UNCHANGED <<bundle, edits>>
    BY <1>0, <1>5
    DEF UpsertResource, Create, Update, UpdateRefused, DeleteRefused, CreateAgain,
        Between, Places, AtName, userVars
  <2>2. pc' \notin Between => new' = new
    BY <1>5
    DEF UpsertResource, Create, Update, UpdateRefused, DeleteRefused, CreateAgain,
        Call, Goto
  <2>3. CASE Create("idle") \/ Update(TRUE, "idle") \/ CreateAgain
    <3>1. UNCHANGED live \/ live' = [live EXCEPT ![at] = new]
      BY <2>3 DEF Create, Update, CreateAgain, Call, Put
    <3> QED
      BY <1>1, <1>5, <2>1, <2>2, <3>1
      DEF Following!Finish, Following!Write, Next, ReconcileDeployment
  <2>4. CASE DeleteRefused
    <3>1. UNCHANGED live \/ live' = [live EXCEPT ![at] = None]
      BY <2>4 DEF DeleteRefused, Call, Put
    <3> QED
      BY <1>1, <1>5, <2>1, <2>2, <3>1
      DEF Following!Finish, Following!Replace, Next, ReconcileDeployment
  <2>5. CASE UpdateRefused(SelectorChanges, FALSE)
    <3>1. UNCHANGED live
      BY <2>5 DEF UpdateRefused
    <3> QED
      BY <1>1, <1>5, <2>1, <2>2, <3>1
      DEF Following!Finish, Next, ReconcileDeployment
  <2> QED BY <1>5, <2>3, <2>4, <2>5 DEF UpsertResource
<1>6. CASE (\E n \in Names : Watch(n)) \/ Restart
  <2>1. Following!Finish /\ UNCHANGED <<bundle, edits>>
    BY <1>6 DEF Watch, Restart, Goto, Between, userVars, passVars, Following!Finish
  <2> QED BY <1>1, <1>6, <2>1 DEF Next
<1>7. CASE UNCHANGED upsertVars
  BY <1>7 DEF upsertVars, userVars, apiVars, passVars, Settled, Following!vars
<1> QED
  BY <1>2, <1>3, <1>4, <1>5, <1>6, <1>7 DEF Next, ReconcileDeployment

(***************************************************************************)
(* ReconcileDeployment implements FollowedBundle: what it writes is what   *)
(* one version of the bundle says, never older than before, and what it    *)
(* has written it accepts, with all that the server fills in; or where it  *)
(* does not, a number of a probe being left out (lines 224-226 and 350),   *)
(* it writes what is there already, and nothing changes.                   *)
(***************************************************************************)
THEOREM ImplementsFollowedBundle == Spec => FollowsBundle
<1>1. Init => Following!Init
  BY DEF Init, UpsertInit, Between, Following!Init
<1>2. IInv /\ [Next]_upsertVars => [Following!Next]_(Following!vars)
  BY Follows
<1> QED
  BY <1>1, <1>2, Inductive, PTL DEF Spec, FollowsBundle, Following!Spec

-----------------------------------------------------------------------------
(***************************************************************************)
(* What the environment of a container comes to: a variable that is listed *)
(* twice has the value of its last place.                                  *)
(***************************************************************************)

Lasts(env, k, v) ==
  \E i \in 1 .. Len(env) :
    env[i] = <<k, v>> /\ \A j \in 1 .. Len(env) : i < j => env[j][1] # k

LEMMA LastsEffective ==
  ASSUME NEW env \in Seq(EnvVars), NEW k, NEW v, Lasts(env, k, v)
  PROVE  Effective(env, k) = v
<1> DEFINE places == {i \in DOMAIN env : env[i][1] = k}
<1>1. PICK i \in 1 .. Len(env) :
        env[i] = <<k, v>> /\ \A j \in 1 .. Len(env) : i < j => env[j][1] # k
  BY DEF Lasts
<1>2. DOMAIN env = 1 .. Len(env) /\ Len(env) \in Nat
  OBVIOUS
<1>3. i \in places /\ \A j \in places : j <= i
  BY <1>1, <1>2
<1>4. \A l \in places : (\A j \in places : j <= l) => l = i
  BY <1>2, <1>3
<1> HIDE DEF places
<1>5. (CHOOSE l \in places : \A j \in places : j <= l) = i
  BY <1>3, <1>4
<1>6. env[i][2] = v
  BY <1>1
<1> QED BY <1>3, <1>5, <1>6 DEF Effective, places

\* A list made of a map has each key once.
LEMMA SortedLasts ==
  ASSUME NEW V, NEW map \in MapsTo(Keys, V), NEW k
  PROVE  /\ k \in DOMAIN map => Lasts(Sorted(map), k, map[k])
         /\ k \notin DOMAIN map => \A i \in 1 .. Len(Sorted(map)) : Sorted(map)[i][1] # k
<1> DEFINE env == Sorted(map)
<1>1. /\ env \in Seq(Keys \X V)
      /\ ToSet(env) = {<<l, map[l]>> : l \in DOMAIN map}
      /\ \A i, j \in DOMAIN env : i < j => env[i][1] < env[j][1]
  BY SortedByKey, DeploymentsAssumption
<1> HIDE DEF env
<1>2. DOMAIN env = 1 .. Len(env) /\ Len(env) \in Nat
  BY <1>1
<1>3. \A i \in 1 .. Len(env) : env[i] \in Keys \X V /\ env[i] \in ToSet(env)
  BY <1>1, <1>2 DEF ToSet
<1>4. ASSUME k \in DOMAIN map PROVE Lasts(env, k, map[k])
  <2>1. <<k, map[k]>> \in ToSet(env)
    BY <1>1, <1>4
  <2>2. PICK i \in 1 .. Len(env) : env[i] = <<k, map[k]>>
    BY <1>2, <2>1 DEF ToSet
  <2>3. ASSUME NEW j \in 1 .. Len(env), i < j PROVE env[j][1] # k
    <3>1. env[i][1] < env[j][1]
      BY <1>1, <1>2, <2>3
    <3>2. env[i][1] = k
      BY <2>2
    <3>3. env[i] \in Keys \X V /\ env[j] \in Keys \X V
      BY <1>3
    <3>4. env[i][1] \in Nat /\ env[j][1] \in Nat
      BY <3>3, DeploymentsAssumption
    <3> QED BY <3>1, <3>2, <3>4
  <2> QED BY <2>2, <2>3 DEF Lasts
<1>5. ASSUME k \notin DOMAIN map, NEW i \in 1 .. Len(env) PROVE env[i][1] # k
  <2>1. PICK l \in DOMAIN map : env[i] = <<l, map[l]>>
    BY <1>1, <1>3, <1>5
  <2> QED BY <1>5, <2>1
<1> QED BY <1>4, <1>5 DEF env

\* What comes last in a list comes last in a longer one, and what another
\* list does not name stays last in front of it.
LEMMA LastsInLonger ==
  ASSUME NEW s \in Seq(EnvVars), NEW t \in Seq(EnvVars), NEW k, NEW v
  PROVE  /\ Lasts(t, k, v) => Lasts(s \o t, k, v)
         /\ Lasts(s, k, v) /\ (\A i \in 1 .. Len(t) : t[i][1] # k) => Lasts(s \o t, k, v)
<1> DEFINE both == s \o t
<1>1. /\ Len(s) \in Nat /\ Len(t) \in Nat
      /\ Len(both) = Len(s) + Len(t)
      /\ \A i \in 1 .. Len(s) : both[i] = s[i]
      /\ \A i \in 1 .. Len(t) : both[Len(s) + i] = t[i]
  OBVIOUS
<1>2. \A j \in 1 .. Len(both) : Len(s) < j => j - Len(s) \in 1 .. Len(t) /\ both[j] = t[j - Len(s)]
  <2> SUFFICES ASSUME NEW j \in 1 .. Len(both), Len(s) < j
               PROVE  j - Len(s) \in 1 .. Len(t) /\ both[j] = t[j - Len(s)]
    OBVIOUS
  <2>1. j - Len(s) \in 1 .. Len(t) /\ Len(s) + (j - Len(s)) = j
    BY <1>1
  <2> QED BY <1>1, <2>1
<1> HIDE DEF both
<1>3. ASSUME Lasts(t, k, v) PROVE Lasts(both, k, v)
  <2>1. PICK i \in 1 .. Len(t) :
          t[i] = <<k, v>> /\ \A j \in 1 .. Len(t) : i < j => t[j][1] # k
    BY <1>3 DEF Lasts
  <2>2. Len(s) + i \in 1 .. Len(both) /\ both[Len(s) + i] = <<k, v>>
    BY <1>1, <2>1
  <2>3. ASSUME NEW j \in 1 .. Len(both), Len(s) + i < j PROVE both[j][1] # k
    <3>1. j - Len(s) \in 1 .. Len(t) /\ both[j] = t[j - Len(s)] /\ i < j - Len(s)
      BY <1>1, <1>2, <2>1, <2>3
    <3> QED BY <2>1, <3>1
  <2> QED BY <2>2, <2>3 DEF Lasts
<1>4. ASSUME Lasts(s, k, v), \A i \in 1 .. Len(t) : t[i][1] # k
      PROVE  Lasts(both, k, v)
  <2>1. PICK i \in 1 .. Len(s) :
          s[i] = <<k, v>> /\ \A j \in 1 .. Len(s) : i < j => s[j][1] # k
    BY <1>4 DEF Lasts
  <2>2. i \in 1 .. Len(both) /\ both[i] = <<k, v>>
    BY <1>1, <2>1
  <2>3. ASSUME NEW j \in 1 .. Len(both), i < j PROVE both[j][1] # k
    <3>1. CASE j <= Len(s)
      BY <1>1, <2>1, <2>3, <3>1
    <3>2. CASE Len(s) < j
      BY <1>2, <1>4, <3>2
    <3> QED BY <1>1, <3>1, <3>2
  <2> QED BY <2>2, <2>3 DEF Lasts
<1> QED BY <1>3, <1>4 DEF both

\* The variables of the bundle, in front of the one for the GPU.
LEMMA UserVariables ==
  ASSUME NEW b \in Bundles, Expressible(b), NEW k
  PROVE  LET both == Sorted(b.envs) \o Sorted(b.sourced)
         IN /\ both \in Seq(EnvVars)
            /\ k \in DOMAIN b.sourced => Lasts(both, k, b.sourced[k])
            /\ k \in DOMAIN b.envs \ DOMAIN b.sourced => Lasts(both, k, b.envs[k])
            /\ k \notin DOMAIN b.envs \cup DOMAIN b.sourced =>
                 \A i \in 1 .. Len(both) : both[i][1] # k
<1> DEFINE s    == Sorted(b.envs)
           t    == Sorted(b.sourced)
           both == s \o t
<1>0. b.envs \in MapsTo(Keys, Values \cup {Empty}) /\ b.sourced \in MapsTo(Keys, Sources)
  BY DEF Bundles, MapsTo, Expressible
<1>1. s \in Seq(EnvVars)
  <2>1. s \in Seq(Keys \X (Values \cup {Empty}))
    BY <1>0, SortedByKey, DeploymentsAssumption
  <2> QED BY <2>1 DEF EnvVars
<1>2. t \in Seq(EnvVars)
  <2>1. t \in Seq(Keys \X Sources)
    BY <1>0, SortedByKey, DeploymentsAssumption
  <2> QED BY <2>1 DEF EnvVars
<1>3. /\ k \in DOMAIN b.envs => Lasts(s, k, b.envs[k])
      /\ k \notin DOMAIN b.envs => \A i \in 1 .. Len(s) : s[i][1] # k
  BY <1>0, SortedLasts
<1>4. /\ k \in DOMAIN b.sourced => Lasts(t, k, b.sourced[k])
      /\ k \notin DOMAIN b.sourced => \A i \in 1 .. Len(t) : t[i][1] # k
  BY <1>0, SortedLasts
<1> HIDE DEF s, t
<1>5. both \in Seq(EnvVars)
  BY <1>1, <1>2
<1>6. \A v : /\ Lasts(t, k, v) => Lasts(both, k, v)
             /\ Lasts(s, k, v) /\ (\A i \in 1 .. Len(t) : t[i][1] # k) => Lasts(both, k, v)
  BY <1>1, <1>2, LastsInLonger
<1>7. \A i \in 1 .. Len(both) :
        \/ i \in 1 .. Len(s) /\ both[i] = s[i]
        \/ i - Len(s) \in 1 .. Len(t) /\ both[i] = t[i - Len(s)]
  BY <1>1, <1>2
<1> HIDE DEF both
<1> QED BY <1>3, <1>4, <1>5, <1>6, <1>7 DEF both, s, t

\* The variable for the GPU comes last and is there once, or not at all.
LEMMA GivesEveryVariable ==
  ASSUME NEW b \in Bundles, Expressible(b), NEW k \in Keys
  PROVE  Wanted(b, k) \in {None, Effective(Env(b), k)}
<1> DEFINE both == Sorted(b.envs) \o Sorted(b.sourced)
           gpu  == <<Nvidia, "all">>
           w    == Wanted(b, k)
<1>1. /\ both \in Seq(EnvVars)
      /\ k \in DOMAIN b.sourced => Lasts(both, k, b.sourced[k])
      /\ k \in DOMAIN b.envs \ DOMAIN b.sourced => Lasts(both, k, b.envs[k])
      /\ k \notin DOMAIN b.envs \cup DOMAIN b.sourced =>
           \A i \in 1 .. Len(both) : both[i][1] # k
  BY UserVariables
<1>2. Env(b) = IF b.nvidia THEN WithNvidia(both) ELSE both
  BY DEF Env
<1>3. <<gpu>> \in Seq(EnvVars)
  BY DeploymentsAssumption DEF EnvVars
<1> HIDE DEF both
<1>4. /\ WithNvidia(both) \in {both, Append(both, gpu)}
      /\ Append(both, gpu) = both \o <<gpu>>
      /\ ToSet(both) = {both[i] : i \in 1 .. Len(both)}
  <2>1. WithNvidia(both) \in {both, Append(both, gpu)}
    BY DEF WithNvidia
  <2>2. Append(both, gpu) = both \o <<gpu>>
    BY <1>1, <1>3
  <2>3. ToSet(both) = {both[i] : i \in 1 .. Len(both)}
    BY <1>1 DEF ToSet
  <2> QED BY <2>1, <2>2, <2>3
<1>5. CASE k \in DOMAIN b.sourced \cup DOMAIN b.envs
  <2> DEFINE v == IF k \in DOMAIN b.sourced THEN b.sourced[k] ELSE b.envs[k]
  <2>1. Lasts(both, k, v) /\ w = v
    BY <1>1, <1>5 DEF Wanted
  <2>2. v \in Values \cup Sources \cup {Empty}
    BY <1>5 DEF Bundles, MapsTo, Expressible
  <2> HIDE DEF v, w
  <2>3. Lasts(Env(b), k, v)
    <3>1. CASE k # Nvidia
      <4>1. \A i \in 1 .. Len(<<gpu>>) : <<gpu>>[i][1] # k
        BY <3>1
      <4>2. Lasts(both \o <<gpu>>, k, v)
        BY <1>1, <1>3, <2>1, <4>1, LastsInLonger
      <4> QED BY <1>2, <1>4, <2>1, <4>2
    <3>2. CASE k = Nvidia
      <4>1. <<Nvidia, v>> \in ToSet(both)
        BY <1>4, <2>1, <3>2 DEF Lasts
      <4>2. WithNvidia(both) = both
        BY <2>2, <4>1 DEF WithNvidia
      <4> QED BY <1>2, <2>1, <4>2
    <3> QED BY <3>1, <3>2
  <2>4. Effective(Env(b), k) = v
    BY <2>3, EnvType, LastsEffective
  <2> QED BY <2>1, <2>4 DEF w
<1>6. CASE k \notin DOMAIN b.sourced \cup DOMAIN b.envs
  <2>1. CASE b.nvidia /\ k = Nvidia
    <3>1. \A v : <<Nvidia, v>> \notin ToSet(both)
      BY <1>1, <1>4, <1>6, <2>1
    <3>2. Env(b) = both \o <<gpu>>
      BY <1>2, <1>4, <2>1, <3>1 DEF WithNvidia
    <3>3. Lasts(<<gpu>>, k, "all")
      BY <2>1 DEF Lasts
    <3>4. Lasts(Env(b), k, "all")
      BY <1>1, <1>3, <3>2, <3>3, LastsInLonger
    <3>5. Effective(Env(b), k) = "all"
      BY <3>4, EnvType, LastsEffective
    <3> QED BY <1>6, <2>1, <3>5 DEF Wanted
  <2>2. CASE ~(b.nvidia /\ k = Nvidia)
    BY <1>6, <2>2 DEF Wanted
  <2> QED BY <2>1, <2>2
<1> QED BY <1>5, <1>6

(***************************************************************************)
(* What has settled is right, if the bundle makes sense: the Deployment    *)
(* has the selector, image, labels and probe, and its container sees every *)
(* variable the bundle gives it, of whatever origin, a sourced one before  *)
(* one of the same name, and the GPUs unless the bundle says which.        *)
(***************************************************************************)
THEOREM SettledRolledOut ==
  Spec => [](Settled /\ Expressible(bundle) => \A n \in Names : RolledOut(live[n], bundle))
<1>1. IInv /\ Settled /\ Expressible(bundle) => \A n \in Names : RolledOut(live[n], bundle)
  <2> SUFFICES ASSUME IInv, Settled, Expressible(bundle), NEW n \in Names
               PROVE  RolledOut(live[n], bundle)
    OBVIOUS
  <2>1. /\ bundle \in Bundles
        /\ live[n] = Says(bundle)
    BY DEF IInv, TypeOK, UpsertTypeOK, Settled
  <2>2. live[n] # None
    BY <2>1, SaysType, DeploymentsAssumption
  <2>3. /\ live[n].labels = bundle.labels
        /\ live[n].spec.selector = Own
        /\ live[n].spec.image = bundle.image
        /\ live[n].spec.env = Env(bundle)
        /\ live[n].spec.probe = Completed(bundle.probe)
    BY <2>1, StoredFields
  <2>4. \A k \in Keys : Wanted(bundle, k) \in {None, Effective(Env(bundle), k)}
    BY <2>1, GivesEveryVariable
  <2> QED BY <2>2, <2>3, <2>4 DEF RolledOut
<1> QED BY <1>1, Inductive, PTL

-----------------------------------------------------------------------------
(***************************************************************************)
(* What the containers mount.                                              *)
(***************************************************************************)

\* s covers written places of an array there is, or is nil.
Valid(s) ==
  \/ s.of = 0 /\ s.len = 0
  \/ s.of \in 1 .. Len(array) /\ s.len <= Len(array[s.of])

SlicesValid ==
  /\ Valid(volumeMounts)
  /\ \A c \in Copied : initMounts[c] \in Slices /\ Valid(initMounts[c])

MountsIInv == MountsTypeOK /\ SlicesValid /\ ContainerMounts /\ InitContainersMountVolumes

\* A sequence with one element replaced.
LEMMA SeqExcept ==
  ASSUME NEW S, NEW q \in Seq(S), NEW i \in 1 .. Len(q), NEW x \in S
  PROVE  LET r == [q EXCEPT ![i] = x]
         IN /\ r \in Seq(S) /\ Len(r) = Len(q)
            /\ r[i] = x
            /\ \A j \in 1 .. Len(q) : j # i => r[j] = q[j]
<1> DEFINE r == [q EXCEPT ![i] = x]
<1>1. Len(q) \in Nat /\ DOMAIN q = 1 .. Len(q) /\ \A j \in 1 .. Len(q) : q[j] \in S
  OBVIOUS
<1>2. q \in [1 .. Len(q) -> S]
  OBVIOUS
<1>3. r \in [1 .. Len(q) -> S]
  BY <1>2
<1>4. r \in Seq(S)
  BY <1>1, <1>3
<1>5. Len(r) = Len(q)
  BY <1>1, <1>3
<1> QED BY <1>1, <1>2, <1>4, <1>5

\* The slice that append returns, and what the arrays hold then.
LEMMA AppendResult ==
  ASSUME MountsTypeOK, Valid(volumeMounts), NEW m \in Mount,
         array' = AppendArray(volumeMounts, m)
  PROVE  LET t == AppendSlice(volumeMounts)
         IN /\ array' \in Seq(Seq(Mount \cup {Nil}))
            /\ t \in Slices
            /\ t.len = volumeMounts.len + 1
            /\ t.of \in 1 .. Len(array') /\ t.len <= Len(array'[t.of])
            /\ \A i \in 1 .. volumeMounts.len :
                 array'[t.of][i] = array[volumeMounts.of][i]
            /\ array'[t.of][t.len] = m
<1> DEFINE s == volumeMounts
           t == AppendSlice(s)
<1>1. s \in Slices /\ s.of \in Nat /\ s.len \in Nat /\ array \in Seq(Seq(Mount \cup {Nil}))
  BY DEF MountsTypeOK, Slices
<1>2. CASE s.len < Cap(s)
  <2>1. s.of \in 1 .. Len(array) /\ array[s.of] \in Seq(Mount \cup {Nil}) /\ s.len < Len(array[s.of])
    BY <1>1, <1>2 DEF Valid, Cap
  <2>2. t = [of |-> s.of, len |-> s.len + 1]
    BY <1>2 DEF AppendSlice
  <2>3. array' = [array EXCEPT ![s.of] = [array[s.of] EXCEPT ![s.len + 1] = m]]
    BY <1>2 DEF AppendArray
  <2> DEFINE filled == [array[s.of] EXCEPT ![s.len + 1] = m]
  <2>4. /\ filled \in Seq(Mount \cup {Nil}) /\ Len(filled) = Len(array[s.of])
        /\ filled[s.len + 1] = m
        /\ \A j \in 1 .. Len(array[s.of]) : j # s.len + 1 => filled[j] = array[s.of][j]
    <3>1. s.len + 1 \in 1 .. Len(array[s.of]) /\ m \in Mount \cup {Nil}
      BY <1>1, <2>1
    <3> QED BY <2>1, <3>1, SeqExcept
  <2>5. array' \in Seq(Seq(Mount \cup {Nil})) /\ Len(array') = Len(array) /\ array'[s.of] = filled
    <3> HIDE DEF filled
    <3>1. array' = [array EXCEPT ![s.of] = filled]
      BY <2>3 DEF filled
    <3> QED BY <1>1, <2>1, <2>4, <3>1, SeqExcept
  <2>6. t \in Slices /\ t.of = s.of /\ t.len = s.len + 1
    BY <1>1, <2>2 DEF Slices
  <2> HIDE DEF filled, t
  <2>7. t.of \in 1 .. Len(array') /\ t.len <= Len(array'[t.of])
    BY <1>1, <2>1, <2>4, <2>5, <2>6
  <2>8. array'[t.of][t.len] = m
    BY <1>1, <2>4, <2>5, <2>6
  <2>9. \A i \in 1 .. s.len : array'[t.of][i] = array[s.of][i]
    <3> TAKE i \in 1 .. s.len
    <3>1. i \in 1 .. Len(array[s.of]) /\ i # s.len + 1
      BY <1>1, <2>1
    <3>2. filled[i] = array[s.of][i]
      BY <2>4, <3>1
    <3> QED BY <2>5, <2>6, <3>2
  <2> QED BY <2>5, <2>6, <2>7, <2>8, <2>9 DEF t
<1>3. CASE ~(s.len < Cap(s))
  <2> DEFINE fresh == [i \in 1 .. Grown(Cap(s)) |->
                         IF i <= s.len THEN array[s.of][i]
                         ELSE IF i = s.len + 1 THEN m ELSE Nil]
  <2>1. s.len = Cap(s) /\ Cap(s) \in Nat
    BY <1>1, <1>3 DEF Valid, Cap
  <2>2. Grown(Cap(s)) \in Nat /\ s.len + 1 <= Grown(Cap(s))
    BY <1>1, <2>1 DEF Grown
  <2>3. \A i \in 1 .. s.len : array[s.of][i] \in Mount \cup {Nil}
    BY <1>1, <2>1 DEF Valid, Cap
  <2>4. fresh \in Seq(Mount \cup {Nil}) /\ Len(fresh) = Grown(Cap(s))
    <3>1. fresh \in [1 .. Grown(Cap(s)) -> Mount \cup {Nil}]
      BY <1>1, <2>3
    <3> QED BY <2>2, <3>1
  <2>5. t = [of |-> Len(array) + 1, len |-> s.len + 1]
    BY <1>3 DEF AppendSlice
  <2>6. array' = Append(array, fresh)
    BY <1>3 DEF AppendArray
  <2>7. /\ array' \in Seq(Seq(Mount \cup {Nil}))
        /\ Len(array') = Len(array) + 1
        /\ array'[Len(array) + 1] = fresh
    <3> HIDE DEF fresh
    <3> QED BY <1>1, <2>4, <2>6
  <2>8. /\ \A i \in 1 .. s.len : fresh[i] = array[s.of][i]
        /\ fresh[s.len + 1] = m
    BY <1>1, <2>2
  <2> HIDE DEF fresh
  <2> QED BY <1>1, <2>2, <2>4, <2>5, <2>7, <2>8 DEF Slices
<1> QED BY <1>2, <1>3

\* Every other slice keeps what it had, the place behind volumeMounts aside.
LEMMA AppendElsewhere ==
  ASSUME MountsTypeOK, Valid(volumeMounts), NEW m \in Mount,
         array' = AppendArray(volumeMounts, m)
  PROVE  \A u \in Slices : Valid(u) =>
           /\ \/ u.of = 0 /\ u.len = 0
              \/ u.of \in 1 .. Len(array') /\ u.len <= Len(array'[u.of])
           /\ \A i \in 1 .. u.len : i <= volumeMounts.len =>
                array'[u.of][i] = array[u.of][i]
<1> DEFINE s == volumeMounts
<1>1. s \in Slices /\ s.of \in Nat /\ s.len \in Nat /\ array \in Seq(Seq(Mount \cup {Nil}))
  BY DEF MountsTypeOK, Slices
<1> SUFFICES ASSUME NEW u \in Slices, Valid(u)
             PROVE  /\ \/ u.of = 0 /\ u.len = 0
                       \/ u.of \in 1 .. Len(array') /\ u.len <= Len(array'[u.of])
                    /\ \A i \in 1 .. u.len : i <= volumeMounts.len =>
                         array'[u.of][i] = array[u.of][i]
  OBVIOUS
<1>2. u.of \in Nat /\ u.len \in Nat
  BY DEF Slices
<1>3. CASE s.len < Cap(s)
  <2>1. s.of \in 1 .. Len(array) /\ array[s.of] \in Seq(Mount \cup {Nil}) /\ s.len < Len(array[s.of])
    BY <1>1, <1>3 DEF Valid, Cap
  <2>2. array' = [array EXCEPT ![s.of] = [array[s.of] EXCEPT ![s.len + 1] = m]]
    BY <1>3 DEF AppendArray
  <2> DEFINE filled == [array[s.of] EXCEPT ![s.len + 1] = m]
  <2>3. /\ filled \in Seq(Mount \cup {Nil}) /\ Len(filled) = Len(array[s.of])
        /\ \A j \in 1 .. Len(array[s.of]) : j # s.len + 1 => filled[j] = array[s.of][j]
    <3>1. s.len + 1 \in 1 .. Len(array[s.of]) /\ m \in Mount \cup {Nil}
      BY <1>1, <2>1
    <3> QED BY <2>1, <3>1, SeqExcept
  <2>4. /\ Len(array') = Len(array) /\ array'[s.of] = filled
        /\ \A a \in 1 .. Len(array) : a # s.of => array'[a] = array[a]
    <3> HIDE DEF filled
    <3>1. array' = [array EXCEPT ![s.of] = filled]
      BY <2>2 DEF filled
    <3> QED BY <1>1, <2>1, <2>3, <3>1, SeqExcept
  <2> HIDE DEF filled
  <2>5. CASE u.of = s.of
    <3>1. u.of \in 1 .. Len(array') /\ u.len <= Len(array'[u.of])
      BY <1>1, <1>2, <2>1, <2>3, <2>4, <2>5 DEF Valid
    <3>2. ASSUME NEW i \in 1 .. u.len, i <= s.len
          PROVE  array'[u.of][i] = array[u.of][i]
      <4>1. i \in 1 .. Len(array[s.of]) /\ i # s.len + 1
        BY <1>1, <1>2, <2>1, <3>2
      <4>2. filled[i] = array[s.of][i]
        BY <2>3, <4>1
      <4> QED BY <2>4, <2>5, <4>2
    <3> QED BY <3>1, <3>2
  <2>6. CASE u.of # s.of
    BY <1>1, <1>2, <2>4, <2>6 DEF Valid
  <2> QED BY <2>5, <2>6
<1>4. CASE ~(s.len < Cap(s))
  <2>1. PICK fresh : array' = Append(array, fresh)
    BY <1>4 DEF AppendArray
  <2>2. \A a \in 1 .. Len(array) : array'[a] = array[a]
    BY <1>1, <2>1
  <2>3. Len(array') = Len(array) + 1
    BY <1>1, <2>1
  <2> QED BY <1>1, <1>2, <2>2, <2>3 DEF Valid
<1> QED BY <1>3, <1>4

-----------------------------------------------------------------------------

LEMMA MountsInitIInv == MountsInit => MountsIInv
<1> SUFFICES ASSUME MountsInit PROVE MountsIInv
  OBVIOUS
<1> USE SizesAssumption DEF MountsInit
<1>1. MountsTypeOK
  BY DEF MountsTypeOK, Slices
<1>2. SlicesValid
  BY DEF SlicesValid, Valid, Copied
<1>3. ContainerMounts
  BY DEF ContainerMounts
<1>4. InitContainersMountVolumes
  BY DEF InitContainersMountVolumes, Copied
<1> QED BY <1>1, <1>2, <1>3, <1>4 DEF MountsIInv

\* While there are volumes to mount, they are all that is mounted.
LEMMA MountVolumeStep == MountsIInv /\ MountVolume => MountsIInv'
<1> SUFFICES ASSUME MountsIInv, MountVolume PROVE MountsIInv'
  OBVIOUS
<1> DEFINE m == <<"volume", volume + 1>>
           t == AppendSlice(volumeMounts)
<1> USE SizesAssumption
<1>1. /\ volume \in Nat /\ volume + 1 \in 1 .. Volumes /\ config = 0 /\ Copied = {}
      /\ volumeMounts.len \in Nat
  BY DEF MountsIInv, MountsTypeOK, MountVolume, Copied, Slices
<1>2. /\ volume' = volume + 1 /\ volumeMounts' = t
      /\ array' = AppendArray(volumeMounts, m)
      /\ copyOver' = copyOver /\ config' = config /\ initMounts' = initMounts
  BY DEF MountVolume
<1>3. m \in Mount
  BY <1>1 DEF Mount
<1>4. volumeMounts.len = volume
  BY <1>1 DEF MountsIInv, ContainerMounts
<1>5. /\ array' \in Seq(Seq(Mount \cup {Nil}))
      /\ t \in Slices
      /\ t.len = volume + 1
      /\ t.of \in 1 .. Len(array') /\ t.len <= Len(array'[t.of])
      /\ \A i \in 1 .. volume : array'[t.of][i] = array[volumeMounts.of][i]
      /\ array'[t.of][t.len] = m
  BY <1>2, <1>3, <1>4, AppendResult DEF MountsIInv, SlicesValid
<1> HIDE DEF t
<1>6. MountsTypeOK'
  BY <1>1, <1>2, <1>5 DEF MountsIInv, MountsTypeOK
<1>7. Copied' = {}
  BY <1>1, <1>2 DEF Copied
<1>8. SlicesValid'
  BY <1>2, <1>5, <1>7 DEF SlicesValid, Valid
<1>9. ContainerMounts'
  <2>1. \A v \in 1 .. volume : array[volumeMounts.of][v] = <<"volume", v>>
    BY <1>4 DEF MountsIInv, ContainerMounts, Elements
  <2>2. \A v \in 1 .. volume + 1 : array'[t.of][v] = <<"volume", v>>
    <3> TAKE v \in 1 .. volume + 1
    <3>1. CASE v \in 1 .. volume
      BY <1>5, <2>1, <3>1
    <3>2. CASE v = t.len
      BY <1>5, <3>2
    <3> QED BY <1>1, <1>5, <3>1, <3>2
  <2>3. \A i \in 1 .. volumeMounts'.len :
          Elements(volumeMounts)'[i] = array'[volumeMounts'.of][i]
    BY DEF Elements
  <2>4. volume' + 1 .. volumeMounts'.len = {} /\ 1 .. config' = {}
    BY <1>1, <1>2, <1>5
  <2>5. \A v \in 1 .. volume' : Elements(volumeMounts)'[v] = <<"volume", v>>
    BY <1>1, <1>2, <1>5, <2>2, <2>3
  <2>6. volume' <= volumeMounts'.len
    BY <1>1, <1>2, <1>5
  <2> QED BY <2>4, <2>5, <2>6 DEF ContainerMounts
<1>10. InitContainersMountVolumes'
  BY <1>7 DEF InitContainersMountVolumes
<1> QED BY <1>6, <1>8, <1>9, <1>10 DEF MountsIInv

\* What is mounted before an append, volumeMounts and init containers alike,
\* is mounted where it was after it.
LEMMA AppendKeeps ==
  ASSUME MountsIInv, NEW m \in Mount, array' = AppendArray(volumeMounts, m)
  PROVE  /\ \A c \in Copied :
              /\ \/ initMounts[c].of = 0 /\ initMounts[c].len = 0
                 \/ /\ initMounts[c].of \in 1 .. Len(array')
                    /\ initMounts[c].len <= Len(array'[initMounts[c].of])
              /\ \A v \in 1 .. volume :
                   /\ volume < initMounts[c].len
                   /\ array'[initMounts[c].of][v] = <<"volume", v>>
         /\ \/ volumeMounts.of = 0 /\ volumeMounts.len = 0
            \/ /\ volumeMounts.of \in 1 .. Len(array')
               /\ volumeMounts.len <= Len(array'[volumeMounts.of])
         /\ \A i \in 1 .. volumeMounts.len :
              array'[volumeMounts.of][i] = array[volumeMounts.of][i]
<1>1. /\ MountsTypeOK /\ Valid(volumeMounts) /\ volumeMounts \in Slices
      /\ volume \in Nat /\ volumeMounts.len \in Nat /\ volume <= volumeMounts.len
  BY DEF MountsIInv, MountsTypeOK, SlicesValid, ContainerMounts, Slices
<1>2. ASSUME NEW c \in Copied
      PROVE  /\ \/ initMounts[c].of = 0 /\ initMounts[c].len = 0
                \/ /\ initMounts[c].of \in 1 .. Len(array')
                   /\ initMounts[c].len <= Len(array'[initMounts[c].of])
             /\ \A v \in 1 .. volume :
                  /\ volume < initMounts[c].len
                  /\ array'[initMounts[c].of][v] = <<"volume", v>>
  <2>1. initMounts[c] \in Slices /\ Valid(initMounts[c]) /\ initMounts[c].len \in Nat
    BY DEF MountsIInv, SlicesValid, Slices
  <2>2. /\ \/ initMounts[c].of = 0 /\ initMounts[c].len = 0
           \/ /\ initMounts[c].of \in 1 .. Len(array')
              /\ initMounts[c].len <= Len(array'[initMounts[c].of])
        /\ \A i \in 1 .. initMounts[c].len : i <= volumeMounts.len =>
             array'[initMounts[c].of][i] = array[initMounts[c].of][i]
    BY <1>1, <2>1, AppendElsewhere
  <2>3. ASSUME NEW v \in 1 .. volume
        PROVE  /\ volume < initMounts[c].len
               /\ array[initMounts[c].of][v] = <<"volume", v>>
    <3>1. /\ volume < initMounts[c].len
          /\ Elements(initMounts[c])[v] = <<"volume", v>>
      BY DEF MountsIInv, InitContainersMountVolumes
    <3>2. v \in 1 .. initMounts[c].len
      BY <1>1, <2>1, <3>1
    <3> QED BY <3>1, <3>2 DEF Elements
  <2> QED BY <1>1, <2>1, <2>2, <2>3
<1>3. /\ \/ volumeMounts.of = 0 /\ volumeMounts.len = 0
         \/ /\ volumeMounts.of \in 1 .. Len(array')
            /\ volumeMounts.len <= Len(array'[volumeMounts.of])
      /\ \A i \in 1 .. volumeMounts.len : i <= volumeMounts.len =>
           array'[volumeMounts.of][i] = array[volumeMounts.of][i]
  BY <1>1, AppendElsewhere
<1> QED BY <1>1, <1>2, <1>3

\* The init container mounts the volumes; volumeMounts stays as it is.
LEMMA CopyConfigOverStep == MountsIInv /\ CopyConfigOver => MountsIInv'
<1> SUFFICES ASSUME MountsIInv, CopyConfigOver PROVE MountsIInv'
  OBVIOUS
<1> DEFINE m == <<"config", config + 1>>
           s == volumeMounts
           t == AppendSlice(s)
<1> USE SizesAssumption
<1>1. /\ MountsTypeOK /\ Valid(s) /\ s \in Slices /\ s.len \in Nat
      /\ volume \in Nat /\ volume <= s.len
      /\ config \in Nat /\ config + 1 \in 1 .. Configs
      /\ copyOver[config + 1]
      /\ initMounts \in [1 .. Configs -> Slices \cup {Nil}]
  BY DEF MountsIInv, MountsTypeOK, SlicesValid, ContainerMounts, CopyConfigOver, Slices
<1>2. /\ config' = config + 1 /\ array' = AppendArray(s, m)
      /\ initMounts' = [initMounts EXCEPT ![config + 1] = t]
      /\ copyOver' = copyOver /\ volume' = volume /\ volumeMounts' = s
  BY DEF CopyConfigOver
<1>3. m \in Mount
  BY <1>1 DEF Mount
<1>4. /\ array' \in Seq(Seq(Mount \cup {Nil}))
      /\ t \in Slices
      /\ t.len = s.len + 1
      /\ t.of \in 1 .. Len(array') /\ t.len <= Len(array'[t.of])
      /\ \A i \in 1 .. s.len : array'[t.of][i] = array[s.of][i]
  BY <1>1, <1>2, <1>3, AppendResult
<1>5. /\ \A c \in Copied :
           /\ \/ initMounts[c].of = 0 /\ initMounts[c].len = 0
              \/ /\ initMounts[c].of \in 1 .. Len(array')
                 /\ initMounts[c].len <= Len(array'[initMounts[c].of])
           /\ \A v \in 1 .. volume :
                /\ volume < initMounts[c].len
                /\ array'[initMounts[c].of][v] = <<"volume", v>>
      /\ \/ s.of = 0 /\ s.len = 0
         \/ s.of \in 1 .. Len(array') /\ s.len <= Len(array'[s.of])
      /\ \A i \in 1 .. s.len : array'[s.of][i] = array[s.of][i]
  BY <1>2, <1>3, AppendKeeps
<1> HIDE DEF t
<1>6. Copied' = Copied \cup {config + 1} /\ config + 1 \notin Copied
  BY <1>1, <1>2 DEF Copied
<1>7. /\ initMounts'[config + 1] = t
      /\ \A c \in Copied : initMounts'[c] = initMounts[c] /\ initMounts[c] \in Slices
  BY <1>1, <1>2 DEF Copied, MountsIInv, SlicesValid
<1>8. MountsTypeOK'
  BY <1>1, <1>2, <1>4 DEF MountsTypeOK
<1>9. SlicesValid'
  BY <1>2, <1>4, <1>5, <1>6, <1>7 DEF SlicesValid, Valid
<1>10. ContainerMounts'
  <2>1. Elements(volumeMounts)' = Elements(volumeMounts)
    BY <1>2, <1>5 DEF Elements
  <2>2. {c \in 1 .. config' : ~copyOver'[c]} = {c \in 1 .. config : ~copyOver[c]}
    BY <1>1, <1>2
  <2> QED BY <1>2, <2>1, <2>2 DEF MountsIInv, ContainerMounts
<1>11. InitContainersMountVolumes'
  <2> SUFFICES ASSUME NEW c \in Copied', NEW v \in 1 .. volume
               PROVE  /\ volume < initMounts'[c].len
                      /\ Elements(initMounts[c])'[v] = <<"volume", v>>
    BY <1>2 DEF InitContainersMountVolumes
  <2>1. /\ volume < initMounts'[c].len
        /\ array'[initMounts'[c].of][v] = <<"volume", v>>
    <3>1. CASE c \in Copied
      BY <1>5, <1>7, <3>1
    <3>2. CASE c = config + 1
      <4>1. v \in 1 .. s.len
        BY <1>1
      <4>2. array[s.of][v] = <<"volume", v>>
        BY <4>1 DEF MountsIInv, ContainerMounts, Elements
      <4>3. initMounts'[c] = t
        BY <1>7, <3>2
      <4>4. array'[t.of][v] = <<"volume", v>>
        BY <1>4, <4>1, <4>2
      <4>5. volume < t.len
        BY <1>1, <1>4
      <4> QED BY <4>3, <4>4, <4>5
    <3> QED BY <1>6, <3>1, <3>2
  <2>2. v \in 1 .. initMounts'[c].len
    <3>1. initMounts'[c] \in Slices
      BY <1>4, <1>6, <1>7
    <3> QED BY <1>1, <2>1, <3>1 DEF Slices
  <2> QED BY <2>1, <2>2 DEF Elements
<1> QED BY <1>8, <1>9, <1>10, <1>11 DEF MountsIInv

\* The config is mounted behind all others; init containers are not touched.
LEMMA MountConfigStep == MountsIInv /\ MountConfig => MountsIInv'
<1> SUFFICES ASSUME MountsIInv, MountConfig PROVE MountsIInv'
  OBVIOUS
<1> DEFINE m == <<"config", config + 1>>
           s == volumeMounts
           t == AppendSlice(s)
<1> USE SizesAssumption
<1>1. /\ MountsTypeOK /\ Valid(s) /\ s \in Slices /\ s.len \in Nat
      /\ volume \in Nat /\ volume <= s.len
      /\ config \in Nat /\ config + 1 \in 1 .. Configs
      /\ ~copyOver[config + 1]
  BY DEF MountsIInv, MountsTypeOK, SlicesValid, ContainerMounts, MountConfig, Slices
<1>2. /\ config' = config + 1 /\ array' = AppendArray(s, m)
      /\ volumeMounts' = t
      /\ copyOver' = copyOver /\ volume' = volume /\ initMounts' = initMounts
  BY DEF MountConfig
<1>3. m \in Mount
  BY <1>1 DEF Mount
<1>4. /\ array' \in Seq(Seq(Mount \cup {Nil}))
      /\ t \in Slices
      /\ t.len = s.len + 1
      /\ t.of \in 1 .. Len(array') /\ t.len <= Len(array'[t.of])
      /\ \A i \in 1 .. s.len : array'[t.of][i] = array[s.of][i]
      /\ array'[t.of][t.len] = m
  BY <1>1, <1>2, <1>3, AppendResult
<1>5. \A c \in Copied :
        /\ \/ initMounts[c].of = 0 /\ initMounts[c].len = 0
           \/ /\ initMounts[c].of \in 1 .. Len(array')
              /\ initMounts[c].len <= Len(array'[initMounts[c].of])
        /\ \A v \in 1 .. volume :
             /\ volume < initMounts[c].len
             /\ array'[initMounts[c].of][v] = <<"volume", v>>
  BY <1>2, <1>3, AppendKeeps
<1> HIDE DEF t
<1>6. Copied' = Copied
  BY <1>1, <1>2 DEF Copied
<1>7. MountsTypeOK'
  BY <1>1, <1>2, <1>4 DEF MountsTypeOK
<1>8. SlicesValid'
  BY <1>2, <1>4, <1>5, <1>6 DEF MountsIInv, SlicesValid, Valid
<1>9. InitContainersMountVolumes'
  <2> SUFFICES ASSUME NEW c \in Copied, NEW v \in 1 .. volume
               PROVE  /\ volume < initMounts[c].len
                      /\ Elements(initMounts[c])'[v] = <<"volume", v>>
    BY <1>2, <1>6 DEF InitContainersMountVolumes
  <2>1. volume < initMounts[c].len /\ v \in 1 .. initMounts[c].len
    BY <1>1, <1>5 DEF MountsIInv, SlicesValid, Slices
  <2> QED BY <1>2, <1>5, <2>1 DEF Elements
<1>10. ContainerMounts'
  <2> DEFINE plain == {c \in 1 .. config : ~copyOver[c]}
             old(i) == Elements(volumeMounts)[i]
             then(i) == Elements(volumeMounts)'[i]
  <2>0. /\ volumeMounts'.len = s.len + 1 /\ volumeMounts'.of = t.of
        /\ volume' = volume /\ config' = config + 1
    BY <1>2, <1>4
  <2>a. \A i \in 1 .. s.len : old(i) = array[s.of][i]
    BY DEF Elements
  <2>b. \A i \in 1 .. volumeMounts'.len : then(i) = array'[volumeMounts'.of][i]
    BY DEF Elements
  <2> HIDE DEF old, then
  <2>1. \A i \in 1 .. s.len : then(i) = old(i)
    <3> TAKE i \in 1 .. s.len
    <3>1. i \in 1 .. volumeMounts'.len
      BY <1>1, <2>0
    <3> QED BY <1>4, <2>0, <2>a, <2>b, <3>1
  <2>2. then(s.len + 1) = m
    <3>1. s.len + 1 \in 1 .. volumeMounts'.len
      BY <1>1, <2>0
    <3> QED BY <1>4, <2>0, <2>b, <3>1
  <2>3. {c \in 1 .. config' : ~copyOver'[c]} = plain \cup {config + 1}
    BY <1>1, <1>2
  <2>4. volume' + 1 .. volumeMounts'.len = (volume + 1 .. s.len) \cup {s.len + 1}
    BY <1>1, <2>0
  <2>5. /\ \A v \in 1 .. volume : old(v) = <<"volume", v>>
        /\ \A c \in plain : \E i \in volume + 1 .. s.len : old(i) = <<"config", c>>
        /\ \A i \in volume + 1 .. s.len : \E c \in plain : old(i) = <<"config", c>>
        /\ \A i, j \in volume + 1 .. s.len : i < j => old(i)[2] < old(j)[2]
    BY DEF MountsIInv, ContainerMounts, old
  <2> HIDE DEF plain
  <2>6. /\ volume' <= volumeMounts'.len
        /\ \A v \in 1 .. volume' : then(v) = <<"volume", v>>
    BY <1>1, <2>0, <2>1, <2>5
  <2>7. \A c \in plain \cup {config + 1} :
          \E i \in (volume + 1 .. s.len) \cup {s.len + 1} : then(i) = <<"config", c>>
    BY <1>1, <2>1, <2>2, <2>5
  <2>8. \A i \in (volume + 1 .. s.len) \cup {s.len + 1} :
          \E c \in plain \cup {config + 1} : then(i) = <<"config", c>>
    BY <1>1, <2>1, <2>2, <2>5
  <2>9. \A i, j \in (volume + 1 .. s.len) \cup {s.len + 1} :
          i < j => then(i)[2] < then(j)[2]
    <3>1. \A i \in volume + 1 .. s.len :
            then(i) = old(i) /\ then(i)[2] < config + 1
      BY <1>1, <2>1, <2>5 DEF plain
    <3>2. then(s.len + 1)[2] = config + 1
      BY <2>2
    <3> QED BY <1>1, <2>5, <3>1, <3>2
  <2> QED BY <2>3, <2>4, <2>6, <2>7, <2>8, <2>9 DEF ContainerMounts, then
<1> QED BY <1>7, <1>8, <1>9, <1>10 DEF MountsIInv

LEMMA MountsStepIInv == MountsIInv /\ [MountsNext]_mountVars => MountsIInv'
<1> SUFFICES ASSUME MountsIInv, [MountsNext]_mountVars PROVE MountsIInv'
  OBVIOUS
<1>1. CASE UNCHANGED mountVars
  <2>1. /\ copyOver' = copyOver /\ volume' = volume /\ config' = config
        /\ array' = array /\ volumeMounts' = volumeMounts /\ initMounts' = initMounts
    BY <1>1 DEF mountVars
  <2>2. MountsTypeOK'
    BY <2>1 DEF MountsIInv, MountsTypeOK
  <2>3. SlicesValid'
    BY <2>1 DEF MountsIInv, SlicesValid, Valid, Copied
  <2>4. ContainerMounts'
    <3>1. Elements(volumeMounts)' = Elements(volumeMounts)
      BY <2>1 DEF Elements
    <3> QED BY <2>1, <3>1 DEF MountsIInv, ContainerMounts
  <2>5. InitContainersMountVolumes'
    <3>1. \A c : Elements(initMounts[c])' = Elements(initMounts[c])
      BY <2>1 DEF Elements
    <3> QED BY <2>1, <3>1 DEF MountsIInv, InitContainersMountVolumes, Copied
  <2> QED BY <2>2, <2>3, <2>4, <2>5 DEF MountsIInv
<1> QED BY <1>1, MountVolumeStep, CopyConfigOverStep, MountConfigStep DEF MountsNext

-----------------------------------------------------------------------------

THEOREM MountsInvariance == MountsSpec => []MountsIInv
<1> QED BY MountsInitIInv, MountsStepIInv, PTL DEF MountsSpec

(***************************************************************************)
(* CreateExpectedDeployment, lines 35-49 and 90-158: every slice is a      *)
(* slice of an array of mounts.                                            *)
(***************************************************************************)
THEOREM MountsTypeCorrect == MountsSpec => []MountsTypeOK
<1>1. MountsIInv => MountsTypeOK
  BY DEF MountsIInv
<1> QED BY <1>1, MountsInvariance, PTL

(***************************************************************************)
(* The container mounts the volumes and the configs that are not copied    *)
(* over, in order: the mounts of the init containers, appended to the same *)
(* arrays (line 132), are never part of its slice.                         *)
(***************************************************************************)
THEOREM ContainerMountsItsOwn == MountsSpec => []ContainerMounts
<1>1. MountsIInv => ContainerMounts
  BY DEF MountsIInv
<1> QED BY <1>1, MountsInvariance, PTL

(***************************************************************************)
(* An init container mounts every volume, also after later appends to the  *)
(* array it shares with the container and other init containers.           *)
(***************************************************************************)
THEOREM VolumesMountedByInit == MountsSpec => []InitContainersMountVolumes
<1>1. MountsIInv => InitContainersMountVolumes
  BY DEF MountsIInv
<1> QED BY <1>1, MountsInvariance, PTL
==============================================================================
