---------------------------- MODULE IngressesProofs ----------------------------
(***************************************************************************)
(* Proofs that no Ingress is a mixture of versions, and that passes leave  *)
(* alone what has settled, for all bundles, routes, lags and bounds.       *)
(*                                                                         *)
(* The argument: a pass takes the bundle once and has nothing else in hand *)
(* when it writes; and it is the only one that writes.                     *)
(***************************************************************************)
EXTENDS Ingresses, UpsertsProofs

Steps == {"list", "surplus", "get"}

\* What the pass has in hand comes of the version it began with.
InHand ==
  /\ bundle \in Written
  /\ pc \in Steps \cup {"idle", "backoff", "create", "update"}
  /\ pc \notin Between => ab \in Written
  /\ pc \in Between => ab = None
  /\ pc = "surplus" => todo \cap Named(ab) = {}
  /\ pc \in {"get", "create", "update"} => todo \subseteq Named(ab)
  /\ pc \in {"create", "update"} =>
       at \in Named(ab) /\ new = CreateExpectedIngress(ab, at)

IInv == TypeOK /\ Places /\ Informed /\ InHand /\ OfOneVersion

\* An object that is not there before is one version's, or there is none.
WritesOneVersion ==
  \A n \in Names : live'[n] \notin {live[n], None} => OneVersion(live'[n], n)

-----------------------------------------------------------------------------
\* Bundles, and what is made of them.

LEMMA RouteType ==
  ASSUME NEW b \in Bundles, NEW n \in Named(b)
  PROVE  /\ b.routes # None /\ n \in DOMAIN b.routes
         /\ n \in Names
         /\ b.routes[n] \in [host : Hosts, port : Ports, auth : BOOLEAN]
<1>1. b.routes # None /\ n \in DOMAIN b.routes /\ b.routes[n].host # None
  BY DEF Named
<1>2. PICK D \in SUBSET Names :
        b.routes \in [D -> [host : Hosts \cup {None}, port : Ports, auth : BOOLEAN]]
  BY <1>1 DEF Bundles, RoutesOfBundles, MapsTo
<1> QED BY <1>1, <1>2

LEMMA NamedAreNames ==
  ASSUME NEW b \in Bundles
  PROVE  Named(b) \in SUBSET Names /\ Named(b) \in SUBSET Nat
BY RouteType, IngressesAssumption

LEMMA ExpectedType ==
  ASSUME NEW b \in Bundles, NEW n \in Named(b)
  PROVE  CreateExpectedIngress(b, n) \in Objects
<1>1. b.routes[n] \in [host : Hosts, port : Ports, auth : BOOLEAN]
  BY RouteType
<1>2. Middleware(b, n) \in BOOLEAN
  BY <1>1 DEF Middleware
<1>3. GetHomePageAnnotations(b, n) \in Groups \cup {None}
  BY DEF GetHomePageAnnotations, Bundles, Annotations
<1> DEFINE mw == Middleware(b, n)
           gs == GetHomePageAnnotations(b, n)
<1> HIDE DEF mw, gs
<1>4. [host |-> b.routes[n].host, port |-> b.routes[n].port,
       middleware |-> mw, groups |-> gs] \in Objects
  BY <1>1, <1>2, <1>3 DEF Objects, mw, gs
<1> QED BY <1>4 DEF CreateExpectedIngress, mw, gs

\* What a pass expects of a route is one version's.
LEMMA ExpectedOfOneVersion ==
  ASSUME NEW b \in Written, NEW n \in Named(b)
  PROVE  OneVersion(CreateExpectedIngress(b, n), n)
<1> DEFINE o == CreateExpectedIngress(b, n)
<1>1. /\ o.host = b.routes[n].host /\ o.port = b.routes[n].port
      /\ o.middleware = Middleware(b, n)
      /\ o.groups = GetHomePageAnnotations(b, n)
  BY DEF CreateExpectedIngress
<1> HIDE DEF o
<1>2. n \in Nat /\ Named(b) \subseteq Nat
  BY NamedAreNames, IngressesAssumption
<1>3. b.routes[n].auth => o.middleware
  BY <1>1 DEF Middleware
<1>4. o.middleware =>
        \E m \in Named(b) : m <= n /\ b.routes[m].auth
                            /\ (m = n \/ b.annotations # None)
  <2>1. CASE b.routes[n].auth
    BY <1>2, <2>1
  <2>2. CASE b.annotations # None /\ \E m \in Named(b) : m < n /\ b.routes[m].auth
    BY <1>2, <2>2
  <2> QED BY <1>1, <2>1, <2>2 DEF Middleware
<1>5. o.groups # None =>
        \/ b.annotations # None /\ o.groups = b.annotations.groups
        \/ n \in Web /\ b.homepage # None /\ o.groups = b.homepage.groups
  BY <1>1 DEF GetHomePageAnnotations
<1> QED BY <1>1, <1>3, <1>4, <1>5 DEF OneVersion, o

-----------------------------------------------------------------------------
\* How a pass goes on.

\* A pass that ends has nothing in hand, one that goes on the same bundle.
LEMMA LeftHand ==
  ASSUME TypeOK, NEW rest \in SUBSET Names, Left(rest)
  PROVE  /\ ab' \in Bundles \cup {None} /\ todo' \subseteq Names
         /\ pc' \in Between => ab' = None /\ todo' = {}
         /\ pc' \notin Between => ab' = ab /\ todo' = rest
BY DEF Left, TypeOK

\* The steps of a pass that write nothing.
Reading == Begin \/ List \/ SurplusDone \/ Visit \/ GetFails \/ AllVisited

LEMMA ReadingKeeps ==
  ASSUME Reading
  PROVE  /\ UNCHANGED <<userVars, live, cached, pending, crashes>>
         /\ UNCHANGED faults \/ Fault
BY DEF Reading, Begin, List, SurplusDone, Visit, GetFails, AllVisited, apiVars

-----------------------------------------------------------------------------
LEMMA InitIInv == Init => IInv
<1> SUFFICES ASSUME Init PROVE IInv
  OBVIOUS
<1>1. bundle \in Bundles /\ bundle \in Written
  BY IngressesAssumption DEF Init
<1>2. live \in [Names -> Objects \cup {None}]
  BY DEF Init
<1>3. UpsertTypeOK(Bundles, Objects, Steps)
  BY <1>1, <1>2, LagAssumption
  DEF Init, UpsertInit, UpsertTypeOK, UpsertSteps, Between
<1>4. TypeOK
  BY <1>3 DEF Init, TypeOK, Steps
<1>5. Informed
  BY DEF Init, UpsertInit, Informed
<1>6. Places /\ InHand /\ OfOneVersion
  BY <1>1, <1>2 DEF Init, UpsertInit, Places, AtName, InHand, OfOneVersion, Between, Steps
<1> QED BY <1>4, <1>5, <1>6 DEF IInv

-----------------------------------------------------------------------------
(***************************************************************************)
(* The steps of a pass that write nothing.                                 *)
(***************************************************************************)

LEMMA ReadingType ==
  ASSUME TypeOK, UNCHANGED <<userVars, live, cached, pending, crashes>>,
         UNCHANGED faults \/ Fault,
         pc' \in UpsertSteps \cup Steps, at' \in Names \cup {None},
         new' \in Objects \cup {None},
         ab' \in Bundles \cup {None}, todo' \subseteq Names
  PROVE  TypeOK'
<1>1. faults' \in Nat
  BY DEF Fault, TypeOK, UpsertTypeOK
<1> QED BY <1>1 DEF TypeOK, UpsertTypeOK, userVars, Steps

\* What a pass that goes somewhere has in hand.
LEMMA GoesOn ==
  ASSUME TypeOK, NEW step \in UpsertSteps \cup Steps, Goto(step),
         NEW rest \in SUBSET Names, Left(rest)
  PROVE  /\ pc' = step
         /\ pc' \in UpsertSteps \cup Steps
         /\ at' \in Names \cup {None} /\ new' \in Objects \cup {None}
         /\ ab' \in Bundles \cup {None} /\ todo' \subseteq Names
         /\ pc' \in Between => ab' = None /\ todo' = {}
         /\ pc' \notin Between => ab' = ab /\ todo' = rest
<1>1. UpsertTypeOK(Bundles, Objects, Steps)
  BY DEF TypeOK, Steps
<1> QED BY <1>1, GotoType, LeftHand DEF Goto

LEMMA ReadingStep ==
  ASSUME IInv, Reading
  PROVE  TypeOK' /\ Places' /\ InHand'
<1>0. /\ TypeOK /\ Places /\ InHand
      /\ DOMAIN live = Names
      /\ UpsertTypeOK(Bundles, Objects, Steps)
  BY DEF IInv, Places, TypeOK, Steps
<1>1. /\ UNCHANGED <<userVars, live, cached, pending, crashes>>
      /\ UNCHANGED faults \/ Fault
      /\ bundle' = bundle /\ bundle \in Written /\ Written \subseteq Bundles
  BY <1>0, ReadingKeeps, IngressesAssumption DEF userVars, InHand
<1>2. {"idle", "backoff", "list", "surplus", "get", "create", "update"}
        \subseteq UpsertSteps \cup Steps
  BY DEF UpsertSteps, Between, Steps
<1>3. pc \notin Between => ab \in Written /\ ab \in Bundles
  BY <1>0, <1>1 DEF InHand
<1>4. CASE Begin
  <2>1. pc' = "list" /\ ab' = bundle /\ UNCHANGED <<at, new, todo>>
    BY <1>4 DEF Begin
  <2>2. TypeOK'
    BY <1>0, <1>1, <1>2, <2>1, ReadingType DEF TypeOK, UpsertTypeOK
  <2> QED BY <1>0, <1>1, <2>1, <2>2 DEF Places, InHand, AtName, Between, Steps
<1>5. CASE List
  <2>1. pc = "list" /\ pc \notin Between
    BY <1>5 DEF List, Between
  <2>2. PICK step \in {"idle", "surplus", "backoff"} : Goto(step)
    BY <1>5 DEF List
  <2>3. Left(Listed \ Named(ab)) /\ Listed \ Named(ab) \in SUBSET Names
    BY <1>5 DEF List, Listed
  <2>4. /\ pc' = step
        /\ at' \in Names \cup {None} /\ new' \in Objects \cup {None}
        /\ ab' \in Bundles \cup {None} /\ todo' \subseteq Names
        /\ pc' \in Between => ab' = None /\ todo' = {}
        /\ pc' \notin Between => ab' = ab /\ todo' = Listed \ Named(ab)
    BY <1>0, <1>2, <2>2, <2>3, GoesOn
  <2>5. TypeOK'
    BY <1>0, <1>1, <1>2, <2>4, ReadingType
  <2> QED BY <1>0, <1>1, <1>3, <2>1, <2>4, <2>5 DEF Places, InHand, AtName, Between, Steps
<1>6. CASE SurplusDone
  <2>1. pc = "surplus" /\ pc \notin Between
    BY <1>6 DEF SurplusDone, Between
  <2>2. PICK step \in {"idle", "get"} : Goto(step)
    BY <1>6 DEF SurplusDone
  <2>3. Left(Named(ab)) /\ Named(ab) \in SUBSET Names
    BY <1>3, <1>6, <2>1, NamedAreNames DEF SurplusDone
  <2>4. /\ pc' = step
        /\ at' \in Names \cup {None} /\ new' \in Objects \cup {None}
        /\ ab' \in Bundles \cup {None} /\ todo' \subseteq Names
        /\ pc' \in Between => ab' = None /\ todo' = {}
        /\ pc' \notin Between => ab' = ab /\ todo' = Named(ab)
    BY <1>0, <1>2, <2>2, <2>3, GoesOn
  <2>5. TypeOK'
    BY <1>0, <1>1, <1>2, <2>4, ReadingType
  <2> QED BY <1>0, <1>1, <1>3, <2>1, <2>4, <2>5 DEF Places, InHand, AtName, Between, Steps
<1>7. CASE Visit
  <2> DEFINE n == Min(todo)
             expected == CreateExpectedIngress(ab, n)
  <2>1. pc = "get" /\ todo # {} /\ todo \subseteq Named(ab) /\ pc \notin Between
    BY <1>0, <1>7 DEF Visit, InHand, Between
  <2>2. n \in todo /\ n \in Named(ab) /\ n \in Names
    BY <1>3, <2>1, NamedAreNames, MinExists
  <2>3. expected \in Objects /\ OneVersion(expected, n)
    BY <1>3, <2>1, <2>2, ExpectedType, ExpectedOfOneVersion
  <2>4. Left(todo \ {n}) /\ todo \ {n} \in SUBSET Names
    BY <1>0, <1>7 DEF Visit, TypeOK
  <2>5. \/ Goto("get")
        \/ pc' \in {"create", "update"} /\ at' = n /\ new' = expected
    BY <1>7 DEF Visit, Upsert
  <2> HIDE DEF n, expected
  <2>6. CASE Goto("get")
    <3>1. /\ pc' = "get"
          /\ at' \in Names \cup {None} /\ new' \in Objects \cup {None}
          /\ ab' \in Bundles \cup {None} /\ todo' \subseteq Names
          /\ pc' \notin Between => ab' = ab /\ todo' = todo \ {n}
      BY <1>0, <1>2, <2>4, <2>6, GoesOn
    <3>2. TypeOK'
      BY <1>0, <1>1, <1>2, <3>1, ReadingType
    <3> QED BY <1>0, <1>1, <1>3, <2>1, <3>1, <3>2 DEF Places, InHand, AtName, Between, Steps
  <2>7. CASE pc' \in {"create", "update"} /\ at' = n /\ new' = expected
    <3>1. /\ ab' = ab /\ todo' = todo \ {n}
          /\ ab' \in Bundles \cup {None} /\ todo' \subseteq Names
      BY <1>0, <2>4, <2>7, LeftHand DEF Between
    <3>2. TypeOK'
      BY <1>0, <1>1, <1>2, <2>2, <2>3, <2>7, <3>1, ReadingType
    <3>3. Places'
      BY <1>0, <1>1, <2>2, <2>7 DEF Places
    <3>4. at' \in Named(ab') /\ new' = CreateExpectedIngress(ab', at')
      BY <2>2, <2>7, <3>1 DEF expected, n
    <3> QED BY <1>1, <1>3, <2>1, <2>7, <3>1, <3>2, <3>3, <3>4 DEF InHand, Between, Steps
  <2> QED BY <2>5, <2>6, <2>7
<1>8. CASE GetFails \/ AllVisited
  <2>1. PICK step \in {"idle", "backoff"} : Goto(step) /\ Left({})
    BY <1>8 DEF GetFails, AllVisited
  <2>2. /\ pc' = step
        /\ at' \in Names \cup {None} /\ new' \in Objects \cup {None}
        /\ ab' = None /\ todo' = {}
    BY <1>0, <1>2, <2>1, GoesOn DEF Between
  <2>3. TypeOK'
    BY <1>0, <1>1, <1>2, <2>2, ReadingType
  <2> QED BY <1>0, <1>1, <2>2, <2>3 DEF Places, InHand, AtName, Between, Steps
<1> QED BY <1>4, <1>5, <1>6, <1>7, <1>8 DEF Reading

-----------------------------------------------------------------------------
(***************************************************************************)
(* The steps of a pass that write.                                         *)
(***************************************************************************)

LEMMA DeleteSurplusStep ==
  ASSUME IInv, DeleteSurplus
  PROVE  TypeOK' /\ Places' /\ Informed' /\ InHand' /\ WritesOneVersion
<1>0. /\ TypeOK /\ InHand /\ Informed
      /\ DOMAIN live = Names
      /\ UpsertTypeOK(Bundles, Objects, Steps)
  BY DEF IInv, Places, TypeOK, Steps
<1>1. /\ pc = "surplus" /\ ab \in Written /\ todo \cap Named(ab) = {}
      /\ UNCHANGED <<userVars, cached, crashes>>
  BY <1>0 DEF DeleteSurplus, InHand, Between
<1>2. PICK n \in todo : Call(live[n] # None, n, None, "surplus") /\ Left(todo \ {n})
  BY DEF DeleteSurplus
<1>3. n \in Names /\ todo \ {n} \in SUBSET Names
  BY <1>0 DEF TypeOK
<1>4. UpsertTypeOK(Bundles, Objects, Steps)'
  BY <1>0, <1>1, <1>2, <1>3, CallType DEF Steps
<1>5. TypeOK'
  BY <1>0, <1>2, <1>3, <1>4, LeftHand DEF TypeOK, Steps
<1>6. Informed'
  BY <1>0, <1>1, <1>2, <1>3, CallInformed
<1>7. /\ DOMAIN live' = Names
      /\ \A m \in Names : live'[m] \in {live[m], None}
      /\ pc' \in {"surplus", "backoff"}
  BY <1>0, <1>2, <1>3, CallWrites DEF Between
<1>8. Places' /\ WritesOneVersion
  BY <1>7 DEF Places, AtName, WritesOneVersion
<1>9. /\ pc' = "surplus" => ab' = ab /\ todo' = todo \ {n}
      /\ pc' = "backoff" => ab' = None
  BY <1>0, <1>2, <1>3, LeftHand DEF Between
<1>10. InHand'
  BY <1>0, <1>1, <1>7, <1>9 DEF InHand, Between, Steps, userVars
<1> QED BY <1>5, <1>6, <1>8, <1>10

LEMMA UpsertResourceStep ==
  ASSUME IInv, UpsertResource
  PROVE  TypeOK' /\ Places' /\ Informed' /\ InHand' /\ WritesOneVersion
<1>0. /\ TypeOK /\ InHand /\ Informed /\ Places
      /\ DOMAIN live = Names
      /\ UpsertTypeOK(Bundles, Objects, Steps)
  BY DEF IInv, Places, TypeOK, Steps
<1>1. /\ pc \in {"create", "update"}
      /\ UNCHANGED <<userVars, cached, crashes>>
      /\ Left(todo)
  BY DEF UpsertResource, Create, Update
<1>2. PICK taken : Call(taken, at, new, "get")
  BY DEF UpsertResource, Create, Update
<1>3. /\ at \in Names /\ todo \in SUBSET Names
      /\ ab \in Written /\ todo \subseteq Named(ab)
      /\ new \in Objects /\ OneVersion(new, at)
  <2>1. /\ at \in Names /\ todo \in SUBSET Names
        /\ ab \in Written /\ todo \subseteq Named(ab)
        /\ at \in Named(ab) /\ new = CreateExpectedIngress(ab, at)
    BY <1>0, <1>1 DEF Places, AtName, InHand, TypeOK, Between
  <2> QED BY <2>1, ExpectedType, ExpectedOfOneVersion, IngressesAssumption
<1>4. UpsertTypeOK(Bundles, Objects, Steps)'
  BY <1>0, <1>1, <1>2, <1>3, CallType DEF Steps
<1>5. TypeOK'
  BY <1>0, <1>1, <1>3, <1>4, LeftHand DEF TypeOK, Steps
<1>6. Informed'
  BY <1>0, <1>1, <1>2, <1>3, CallInformed
<1>7. /\ DOMAIN live' = Names
      /\ \A m \in Names : live'[m] \in {live[m], new} /\ (m # at => live'[m] = live[m])
      /\ pc' \in {"get", "backoff"}
  BY <1>0, <1>2, <1>3, CallWrites DEF Between
<1>8. ASSUME NEW m \in Names, live'[m] \notin {live[m], None}
      PROVE  OneVersion(live'[m], m)
  BY <1>3, <1>7, <1>8
<1>9. Places' /\ WritesOneVersion
  BY <1>7, <1>8 DEF Places, AtName, WritesOneVersion
<1>10. /\ pc' = "get" => ab' = ab /\ todo' = todo
       /\ pc' = "backoff" => ab' = None
  BY <1>0, <1>1, <1>3, LeftHand DEF Between
<1>11. InHand'
  BY <1>0, <1>1, <1>3, <1>7, <1>10 DEF InHand, Between, Steps, userVars
<1> QED BY <1>5, <1>6, <1>9, <1>11

-----------------------------------------------------------------------------
(***************************************************************************)
(* Users, the informer, and restarts.                                      *)
(***************************************************************************)

LEMMA DriftStep ==
  ASSUME IInv, NEW n \in Names, Drift(n), UNCHANGED <<ab, todo>>
  PROVE  TypeOK' /\ Places' /\ Informed' /\ InHand' /\ WritesOneVersion
<1>0. /\ TypeOK /\ InHand /\ Informed /\ Places
      /\ DOMAIN live = Names
      /\ UpsertTypeOK(Bundles, Objects, Steps)
  BY DEF IInv, Places, TypeOK, Steps
<1>1. /\ Put(n, None) /\ edits' = edits + 1
      /\ UNCHANGED <<bundle, cached, passVars, faults, crashes>>
  BY DEF Drift, UserStep
<1>2. TypeOK'
  BY <1>0, DriftType DEF TypeOK, Steps
<1>3. Informed'
  BY <1>0, <1>1, PutInformed DEF UpsertTypeOK
<1>4. DOMAIN live' = Names /\ \A m \in Names : live'[m] \in {live[m], None}
  BY <1>0, <1>1, PutElsewhere
<1>5. Places' /\ WritesOneVersion
  BY <1>0, <1>1, <1>4 DEF Places, AtName, WritesOneVersion, passVars
<1>6. InHand'
  BY <1>0, <1>1 DEF InHand, passVars, OneVersion
<1> QED BY <1>2, <1>3, <1>5, <1>6

LEMMA EditStep ==
  ASSUME IInv, Edit, UNCHANGED <<ab, todo>>
  PROVE  TypeOK' /\ Places' /\ Informed' /\ InHand' /\ WritesOneVersion
<1>1. TypeOK'
  BY EditType, IngressesAssumption DEF IInv, TypeOK
<1>2. UNCHANGED <<apiVars, passVars>> /\ bundle' \in Written
  BY DEF Edit
<1> QED
  BY <1>1, <1>2
  DEF IInv, apiVars, passVars, Places, Informed, InHand, OneVersion, WritesOneVersion

LEMMA WatchStep ==
  ASSUME IInv, NEW n \in Names, WatchIngress(n)
  PROVE  TypeOK' /\ Places' /\ Informed' /\ InHand' /\ WritesOneVersion
<1>0. /\ Informed /\ UpsertTypeOK(Bundles, Objects, Steps)
      /\ Watch(n) /\ UNCHANGED <<userVars, live, passVars, ab, todo>>
  BY DEF IInv, TypeOK, Steps, WatchIngress, Watch
<1>1. TypeOK'
  BY <1>0, WatchType DEF IInv, TypeOK, Steps
<1>2. Informed'
  BY <1>0, WatchInformed DEF UpsertTypeOK
<1> QED
  BY <1>0, <1>1, <1>2
  DEF IInv, userVars, passVars, Places, InHand, OneVersion, WritesOneVersion

LEMMA CrashStep ==
  ASSUME IInv, Crash
  PROVE  TypeOK' /\ Places' /\ Informed' /\ InHand' /\ WritesOneVersion
<1>0. /\ UpsertTypeOK(Bundles, Objects, Steps) /\ Restart
      /\ UNCHANGED <<userVars, live>>
      /\ cached' = live /\ pending' = [m \in Names |-> <<>>]
      /\ pc' = "idle" /\ ab' = None /\ todo' = {}
  BY DEF IInv, TypeOK, Steps, Crash, Restart, Goto
<1>1. TypeOK'
  BY <1>0, RestartType DEF TypeOK, Steps
<1>2. Informed'
  BY <1>0 DEF Informed
<1> QED
  BY <1>0, <1>1, <1>2
  DEF IInv, userVars, Places, AtName, InHand, Between, Steps, WritesOneVersion

-----------------------------------------------------------------------------
LEMMA NextStep ==
  ASSUME IInv, Next
  PROVE  TypeOK' /\ Places' /\ Informed' /\ InHand' /\ WritesOneVersion
<1>1. CASE Reading
  <2>1. Informed' /\ WritesOneVersion
    BY <1>1, ReadingKeeps DEF IInv, Informed, WritesOneVersion
  <2> QED BY <1>1, <2>1, ReadingStep
<1> QED
  BY <1>1, DeleteSurplusStep, UpsertResourceStep, DriftStep, EditStep, WatchStep, CrashStep
  DEF Next, ReconcileIngress, Reading

LEMMA IInvStep == IInv /\ [Next]_vars => IInv'
<1>1. ASSUME IInv, Next PROVE IInv'
  <2>1. TypeOK' /\ Places' /\ Informed' /\ InHand' /\ WritesOneVersion
    BY <1>1, NextStep
  <2>2. ASSUME NEW n \in Names, live'[n] # None PROVE OneVersion(live'[n], n)
    BY <1>1, <2>1, <2>2 DEF IInv, OfOneVersion, WritesOneVersion
  <2> QED BY <2>1, <2>2 DEF IInv, OfOneVersion, OneVersion
<1>2. ASSUME IInv, UNCHANGED vars PROVE IInv'
  BY <1>2
  DEF vars, upsertVars, userVars, apiVars, passVars, IInv, TypeOK, UpsertTypeOK,
      Places, Informed, InHand, OfOneVersion, OneVersion
<1> QED BY <1>1, <1>2

LEMMA Inductive == Spec => []IInv
BY InitIInv, IInvStep, PTL DEF Spec

(***************************************************************************)
(* Bundles, Ingresses, caches and what passes have in hand keep their      *)
(* types.                                                                  *)
(***************************************************************************)
THEOREM TypeCorrect == Spec => []TypeOK
<1>1. IInv => TypeOK
  BY DEF IInv
<1> QED BY <1>1, Inductive, PTL

(***************************************************************************)
(* ReconcileIngress (ingress.go) never leaves an Ingress that is a mixture *)
(* of versions of the bundle, nor one with a login or a group of people    *)
(* that no version gives it.                                               *)
(***************************************************************************)
THEOREM NeverMixed == Spec => []OfOneVersion
<1>1. IInv => OfOneVersion
  BY DEF IInv
<1> QED BY <1>1, Inductive, PTL

-----------------------------------------------------------------------------
(***************************************************************************)
(* What has settled: the informer shows what is stored, so that every      *)
(* comparison says yes, and what is left to delete is gone.                *)
(***************************************************************************)

LEMMA SettledStep ==
  ASSUME IInv, Settled, Next, edits' = edits
  PROVE  Settled' /\ UNCHANGED live
<1>0. /\ TypeOK /\ InHand /\ Informed
      /\ DOMAIN live = Names /\ edits \in Nat
      /\ Written \subseteq Bundles
      /\ Routed(bundle) /\ \A n \in Names : pending[n] = <<>>
      /\ pc \notin {"create", "update"}
      /\ pc \notin Between => ab = bundle
  BY IngressesAssumption DEF IInv, Places, TypeOK, UpsertTypeOK, Settled
<1>1. SUFFICES /\ UNCHANGED <<bundle, live>>
               /\ \A n \in Names : pending'[n] = <<>>
               /\ pc' \notin {"create", "update"}
               /\ pc' \notin Between => ab' = bundle
  BY <1>0 DEF Settled, Routed
<1>2. CASE Reading
  <2>1. UNCHANGED <<bundle, live, pending>>
    BY <1>2, ReadingKeeps DEF userVars
  <2>2. CASE Begin
    BY <1>0, <2>1, <2>2 DEF Begin
  <2>3. CASE Visit
    <3> DEFINE n == Min(todo)
    <3>1. pc = "get" /\ ab = bundle /\ bundle \in Bundles /\ todo # {} /\ todo \subseteq Named(ab)
      BY <1>0, <2>3 DEF Visit, InHand, Between
    <3>2. n \in Named(bundle) /\ n \in Names
      BY <3>1, NamedAreNames, MinExists
    <3>3. cached[n] = live[n] /\ Serves(live[n], bundle.routes[n])
      BY <1>0, <3>2 DEF Informed, Routed
    <3>4. AsExpected(CreateExpectedIngress(ab, n), cached[n])
      BY <3>1, <3>3 DEF Serves, AsExpected, CreateExpectedIngress
    <3>5. Goto("get") /\ Left(todo \ {n})
      BY <2>3, <3>4 DEF Visit
    <3> QED BY <1>0, <2>1, <3>1, <3>5 DEF Goto, Left, Between
  <2>4. CASE List \/ SurplusDone \/ GetFails \/ AllVisited
    <3>1. pc' \in {"idle", "backoff", "surplus", "get"}
      BY <2>4 DEF List, SurplusDone, GetFails, AllVisited, Goto
    <3>2. pc' \notin Between => ab' = ab
      BY <2>4 DEF List, SurplusDone, GetFails, AllVisited, Left
    <3>3. pc \notin Between
      BY <2>4 DEF List, SurplusDone, GetFails, AllVisited, Between
    <3> QED BY <1>0, <2>1, <3>1, <3>2, <3>3
  <2> QED BY <1>2, <2>2, <2>3, <2>4 DEF Reading
<1>3. CASE DeleteSurplus
  <2>1. PICK n \in todo : Call(live[n] # None, n, None, "surplus")
    BY <1>3 DEF DeleteSurplus
  <2>2. pc = "surplus" /\ ab = bundle /\ todo \cap Named(ab) = {} /\ n \in Names
    BY <1>0, <1>3 DEF DeleteSurplus, InHand, TypeOK, Between
  <2>3. live[n] = None
    BY <1>0, <2>1, <2>2 DEF Routed
  <2>4. UNCHANGED <<live, pending>> /\ pc' = "backoff"
    BY <1>0, <2>1, <2>2, <2>3, CallWrites
  <2>5. UNCHANGED bundle
    BY <1>3 DEF DeleteSurplus, userVars
  <2> QED BY <1>0, <2>4, <2>5 DEF Between
<1>4. CASE UpsertResource
  BY <1>0, <1>4 DEF UpsertResource, Create, Update
<1>5. CASE Edit \/ \E n \in Names : Drift(n)
  BY <1>0, <1>5 DEF Edit, Drift, UserStep
<1>6. ASSUME NEW n \in Names, WatchIngress(n) PROVE FALSE
  BY <1>0, <1>6 DEF WatchIngress, Watch
<1>7. CASE Crash
  BY <1>7 DEF Crash, Restart, Goto, Between, userVars
<1> QED
  BY <1>2, <1>3, <1>4, <1>5, <1>6, <1>7 DEF Next, ReconcileIngress, Reading

-----------------------------------------------------------------------------
(***************************************************************************)
(* Every step is one of FollowedBundle, or none.                           *)
(***************************************************************************)

LEMMA UserFollows ==
  ASSUME IInv, Edit \/ (\E n \in Names : Drift(n)), UNCHANGED <<ab, todo>>
  PROVE  Following!User
<1>1. CASE Edit
  BY <1>1 DEF Edit, UserStep, apiVars, passVars, Following!User
<1>2. ASSUME NEW n \in Names, Drift(n) PROVE Following!User
  BY <1>2 DEF Drift, UserStep, Put, passVars, Following!User
<1> QED BY <1>1, <1>2

\* A step that writes nothing takes the bundle, or has the same in hand, or
\* nothing any more.
LEMMA ReadingFollows ==
  ASSUME IInv, Reading
  PROVE  Following!Take \/ Following!Finish
<1>1. UNCHANGED live
  BY ReadingKeeps
<1>2. CASE Begin
  BY <1>1, <1>2 DEF Begin, Between, Following!Take
<1>3. CASE List \/ SurplusDone \/ Visit \/ GetFails \/ AllVisited
  <2>1. pc \notin Between
    BY <1>3 DEF List, SurplusDone, Visit, GetFails, AllVisited, Between
  <2>2. pc' \notin Between => ab' = ab
    BY <1>3 DEF List, SurplusDone, Visit, GetFails, AllVisited, Left
  <2> QED BY <1>1, <2>1, <2>2 DEF Following!Finish
<1> QED BY <1>2, <1>3 DEF Reading

\* What a pass writes, and what it deletes, is as the bundle it took says.
LEMMA WritingFollows ==
  ASSUME IInv, DeleteSurplus \/ UpsertResource
  PROVE  Following!Finish \/ \E n \in Names : Following!Write(n)
<1>0. /\ TypeOK /\ Places /\ InHand
      /\ pc \notin Between
  BY DEF IInv, DeleteSurplus, UpsertResource, Create, Update, Between
<1>1. \E n \in Names : \E taken, then :
        /\ Call(taken, n, Says(ab)[n], then)
        /\ pc' \notin Between => ab' = ab
  <2>1. CASE DeleteSurplus
    <3>1. PICK n \in todo : Call(live[n] # None, n, None, "surplus") /\ Left(todo \ {n})
      BY <2>1 DEF DeleteSurplus
    <3>2. n \in Names /\ n \notin Named(ab)
      BY <1>0, <2>1 DEF TypeOK, InHand, DeleteSurplus
    <3> QED BY <3>1, <3>2 DEF Says, Left
  <2>2. CASE UpsertResource
    <3>1. PICK taken : Call(taken, at, new, "get")
      BY <2>2 DEF UpsertResource, Create, Update
    <3>2. /\ at \in Names /\ at \in Named(ab) /\ new = CreateExpectedIngress(ab, at)
          /\ Left(todo)
      BY <1>0, <2>2 DEF UpsertResource, Create, Update, Places, AtName, InHand
    <3> QED BY <3>1, <3>2 DEF Says, Left
  <2> QED BY <2>1, <2>2
<1>2. PICK n \in Names :
        /\ UNCHANGED live \/ live' = [live EXCEPT ![n] = Says(ab)[n]]
        /\ pc' \notin Between => ab' = ab
  BY <1>1 DEF Call, Put
<1> QED BY <1>0, <1>2 DEF Following!Finish, Following!Write

LEMMA Follows ==
  ASSUME IInv, [Next]_vars
  PROVE  [Following!Next]_(Following!vars)
<1>1. ASSUME Next, UNCHANGED <<bundle, edits>>,
             \/ Following!Take \/ Following!Finish
             \/ \E n \in Names : Following!Write(n)
      PROVE  Following!Operator
  BY <1>1, SettledStep DEF Following!Operator
<1>2. CASE Reading
  BY <1>1, <1>2, ReadingFollows, ReadingKeeps
  DEF userVars, Next, ReconcileIngress, Reading, Following!Next
<1>3. CASE DeleteSurplus \/ UpsertResource
  BY <1>1, <1>3, WritingFollows
  DEF DeleteSurplus, UpsertResource, Create, Update, userVars, Next, ReconcileIngress,
      Following!Next
<1>4. CASE (Edit \/ \E n \in Names : Drift(n)) /\ UNCHANGED <<ab, todo>>
  BY <1>4, UserFollows DEF Following!Next
<1>5. CASE (\E n \in Names : WatchIngress(n)) \/ Crash
  <2>1. Following!Finish /\ UNCHANGED <<bundle, edits>>
    BY <1>5
    DEF WatchIngress, Watch, Crash, Restart, Goto, Between, userVars, passVars,
        Following!Finish
  <2> QED BY <1>1, <1>5, <2>1 DEF Next, Following!Next
<1>6. CASE UNCHANGED vars
  BY <1>6
  DEF vars, upsertVars, userVars, apiVars, passVars, Settled, Routed, Following!vars
<1> QED
  BY <1>2, <1>3, <1>4, <1>5, <1>6 DEF Next, ReconcileIngress, Reading

(***************************************************************************)
(* ReconcileIngress implements FollowedBundle, whatever the informer shows *)
(* it, whatever calls fail and whenever the operator restarts.             *)
(***************************************************************************)
THEOREM ImplementsFollowedBundle == Spec => FollowsBundle
<1>1. Init => Following!Init
  BY DEF Init, UpsertInit, Between, Following!Init
<1>2. IInv /\ [Next]_vars => [Following!Next]_(Following!vars)
  BY Follows
<1> QED
  BY <1>1, <1>2, Inductive, PTL DEF Spec, FollowsBundle, Following!Spec
=============================================================================
