---------------------------- MODULE ServicesProofs ----------------------------
(***************************************************************************)
(* Proofs that a Service is at any moment what one version of the bundle   *)
(* says, and that passes leave alone what they have written, whatever the  *)
(* bundles, the addresses, the lag of the informer and the bounds.         *)
(***************************************************************************)
EXTENDS Services, UpsertsProofs

\* A pass that writes nothing, or is to delete, has no object in hand.
InHand == pc \in Between \cup {"delete"} => new = None

IInv == TypeOK /\ Places /\ Informed /\ InHand

-----------------------------------------------------------------------------
\* What is expected of a bundle.

LEMMA PortsType ==
  ASSUME NEW b \in Bundles, b.routes # None
  PROVE  Sorted(b.routes) \in Seq(Routes \X Ports)
BY SortedByKey, ServicesAssumption DEF Bundles

\* As the server has it, it is a Service, and shows what the bundle says.
LEMMA StoredShows ==
  ASSUME NEW b \in Bundles, b.routes # None, NEW generated, NEW ip \in ClusterIPs
  PROVE  LET o == Stored(CreateExpectedService(b, generated), ip)
         IN o \in Objects /\ Shown(o) = Says(b)
<1> DEFINE type     == TypeOf(b)
           ports    == Sorted(b.routes)
           nodePort == NodePortOf(type)
           o        == Stored(CreateExpectedService(b, generated), ip)
<1>1. type \in Types /\ b.labels \in SUBSET Labels
  BY ServicesAssumption DEF Bundles, TypeOf
<1>2. ports \in Seq(Routes \X Ports)
  BY PortsType
<1>3. nodePort \in {0, NodePort}
  BY DEF NodePortOf
<1>4. /\ o = [ports |-> ports, type |-> type, ip |-> ip, nodePort |-> nodePort,
              labels |-> b.labels]
      /\ Says(b) = {[ports |-> ports, type |-> type, labels |-> b.labels]}
  <2> DEFINE expected == CreateExpectedService(b, generated)
  <2>1. expected = [ports |-> ports, type |-> type, ip |-> generated, nodePort |-> 0,
                    labels |-> b.labels]
    BY DEF CreateExpectedService
  <2>2. NodePortOf(expected.type) = nodePort
    BY <2>1
  <2>3. Says(b) = {[ports |-> ports, type |-> type, labels |-> b.labels]}
    BY DEF CreateExpectedService, Says, Told
  <2>4. o = [expected EXCEPT !.ip = ip, !.nodePort = nodePort]
    BY <2>2 DEF Stored
  <2> HIDE DEF expected, ports, type, nodePort, o
  <2>5. [expected EXCEPT !.ip = ip, !.nodePort = nodePort]
          = [ports |-> ports, type |-> type, ip |-> ip, nodePort |-> nodePort,
             labels |-> b.labels]
    <3> DEFINE given == [expected EXCEPT !.ip = ip]
    <3>1. given = [ports |-> ports, type |-> type, ip |-> ip, nodePort |-> 0,
                   labels |-> b.labels]
      BY <2>1
    <3> HIDE DEF given
    <3>2. [given EXCEPT !.nodePort = nodePort]
            = [ports |-> ports, type |-> type, ip |-> ip, nodePort |-> nodePort,
               labels |-> b.labels]
      BY <3>1
    <3> QED BY <3>2 DEF given
  <2> QED BY <2>3, <2>4, <2>5
<1> HIDE DEF ports, type, nodePort, o
<1>5. o \in Objects
  BY <1>1, <1>2, <1>3, <1>4 DEF Objects, nodePort
<1>6. o # None
  BY <1>5, ServicesAssumption
<1> QED BY <1>4, <1>5, <1>6 DEF Shown, Told, o

\* A Service that shows what the bundle says is as expected, whatever its
\* address, if it has no node ports.
LEMMA ShownAsExpected ==
  ASSUME NEW b \in Bundles, b.routes # None, TypeOf(b) \notin Exposed, NEW generated,
         NEW current \in Objects \cup {None}, Shown(current) = Says(b)
  PROVE  AsExpected(CreateExpectedService(b, generated), current)
<1> DEFINE expected == CreateExpectedService(b, generated)
           ports    == Sorted(b.routes)
<1>1. /\ current # None
      /\ current.ports = expected.ports
      /\ current.type = expected.type
      /\ current.labels = expected.labels
  <2>1. current # None /\ Told(current) = Told(CreateExpectedService(b, None))
    BY DEF Shown, Says
  <2>2. /\ Told(current).ports = current.ports
        /\ Told(current).type = current.type
        /\ Told(current).labels = current.labels
    BY DEF Told
  <2>3. LET t == Told(CreateExpectedService(b, None))
        IN t.ports = expected.ports /\ t.type = expected.type /\ t.labels = expected.labels
    BY DEF Told, CreateExpectedService
  <2> QED BY <2>1, <2>2, <2>3
<1>2. /\ expected.ports = ports /\ ports \in Seq(Routes \X Ports)
      /\ expected.type \notin Exposed /\ expected.nodePort = 0
  BY PortsType DEF CreateExpectedService
<1>3. current \in Objects
  BY <1>1
<1> HIDE DEF expected, ports
<1>4. IsPrefix(expected.ports, current.ports)
  BY <1>1, <1>2 DEF IsPrefix
<1>5. current.nodePort = 0
  BY <1>1, <1>2, <1>3 DEF Objects, NodePortOf
<1> QED
  BY <1>1, <1>2, <1>4, <1>5 DEF AsExpected, DeepDerivative, StringMapsMatch, expected

\* A Service with the same content and address is the same.
LEMMA SameService ==
  ASSUME NEW o \in Objects, NEW p \in Objects, Told(o) = Told(p), o.ip = p.ip
  PROVE  o = p
<1>1. /\ Told(o).ports = o.ports /\ Told(o).type = o.type /\ Told(o).labels = o.labels
      /\ Told(p).ports = p.ports /\ Told(p).type = p.type /\ Told(p).labels = p.labels
  BY DEF Told
<1>2. o.nodePort = NodePortOf(o.type) /\ p.nodePort = NodePortOf(p.type)
  BY DEF Objects
<1>3. /\ o = [ports |-> o.ports, type |-> o.type, ip |-> o.ip, nodePort |-> o.nodePort,
              labels |-> o.labels]
      /\ p = [ports |-> p.ports, type |-> p.type, ip |-> p.ip, nodePort |-> p.nodePort,
              labels |-> p.labels]
  BY DEF Objects
<1> QED BY <1>1, <1>2, <1>3

\* What shows as the bundle says serves it.
LEMMA ShownServes ==
  ASSUME NEW b \in Bundles, NEW current, Shown(current) = Says(b)
  PROVE  /\ b.routes = None => current = None
         /\ b.routes # None => Serves(current, b)
<1>1. CASE b.routes = None
  BY <1>1 DEF Shown, Says
<1>2. CASE b.routes # None
  <2> DEFINE ports == Sorted(b.routes)
  <2>1. /\ current # None
        /\ Told(current) = Told(CreateExpectedService(b, None))
    BY <1>2 DEF Shown, Says
  <2>2. /\ Told(current).ports = current.ports
        /\ Told(current).type = current.type
        /\ Told(current).labels = current.labels
    BY DEF Told
  <2>3. LET t == Told(CreateExpectedService(b, None))
        IN /\ t.ports = ports
           /\ t.type = TypeOf(b)
           /\ t.labels = b.labels
    BY DEF Told, CreateExpectedService
  <2>4. ToSet(ports) = {<<r, b.routes[r]>> : r \in DOMAIN b.routes}
    <3>1. b.routes \in MapsTo(Routes, Ports) /\ Routes \in SUBSET Nat
      BY <1>2, ServicesAssumption DEF Bundles
    <3> QED BY <3>1, SortedByKey
  <2> HIDE DEF ports
  <2>5. \A r \in DOMAIN b.routes : <<r, b.routes[r]>> \in ToSet(current.ports)
    BY <2>1, <2>2, <2>3, <2>4
  <2> QED BY <1>2, <2>1, <2>2, <2>3, <2>5 DEF Serves
<1> QED BY <1>1, <1>2

-----------------------------------------------------------------------------
\* What a pass decides.

LEMMA ReconcileDecides ==
  ASSUME TypeOK, NEW n \in Names, Reconcile(n)
  PROVE  /\ pc \in Between
         /\ pc' = IF cached[n] = None THEN "create" ELSE "update"
         /\ at' = n /\ new' \in Objects /\ Shown(new') = Says(bundle)
         /\ UNCHANGED <<userVars, apiVars>>
<1> DEFINE current   == cached[n]
           expected  == CreateExpectedService(bundle, GetGeneratedServiceSpecData(current))
           addresses == IF current # None THEN {current.ip}
                        ELSE ClusterIPs \ {live[m].ip : m \in {m \in Names : live[m] # None}}
<1>1. bundle \in Bundles /\ current \in Objects \cup {None}
  BY DEF TypeOK, UpsertTypeOK
<1>2. PICK ip \in addresses : Upsert(n, Stored(expected, ip), current # None)
  BY DEF Reconcile
<1>3. ip \in ClusterIPs
  BY <1>1 DEF Objects
<1>4. bundle.routes # None
  BY DEF Reconcile
<1> HIDE DEF addresses, current
<1>5. LET o == Stored(expected, ip) IN o \in Objects /\ Shown(o) = Says(bundle)
  BY <1>1, <1>3, <1>4, StoredShows
<1>6. pc \in Between /\ UNCHANGED <<userVars, apiVars>>
  BY DEF Reconcile
<1>7. /\ pc' = IF cached[n] = None THEN "create" ELSE "update"
      /\ at' = n /\ new' = Stored(expected, ip)
  BY <1>2 DEF Upsert, current
<1> QED BY <1>5, <1>6, <1>7

LEMMA UnwantedDecides ==
  ASSUME InHand, NEW n \in Names, Unwanted(n)
  PROVE  /\ pc \in Between /\ pc' = "delete"
         /\ at' = n /\ new' = None /\ new = None
         /\ bundle.routes = None
         /\ UNCHANGED <<userVars, live, cached, pending, crashes>>
         /\ UNCHANGED faults \/ Fault
BY DEF Unwanted, InHand

\* The steps of a pass that has decided.
Acts == Delete("idle") \/ UpsertResource

\* What they do: write what is in hand to the name of the pass, or nothing.
LEMMA ActsWrites ==
  ASSUME InHand, Acts
  PROVE  /\ pc \in {"create", "update", "delete"} /\ pc' \in Between
         /\ new' = None
         /\ UNCHANGED userVars
         /\ UNCHANGED live \/ live' = [live EXCEPT ![at] = new]
BY DEF Acts, UpsertResource, Delete, Create, Update, Call, Put, Goto, Between, InHand,
       apiVars

-----------------------------------------------------------------------------
LEMMA InitIInv == Init => IInv
<1> SUFFICES ASSUME Init PROVE IInv
  OBVIOUS
<1>1. bundle \in Bundles /\ live \in [Names -> Objects \cup {None}]
  BY ServicesAssumption DEF Init
<1>2. TypeOK
  BY <1>1, LagAssumption
  DEF Init, UpsertInit, TypeOK, UpsertTypeOK, UpsertSteps, Between
<1> QED
  BY <1>1, <1>2
  DEF Init, UpsertInit, IInv, Places, Informed, InHand, Between, AtName

LEMMA ActsType ==
  ASSUME IInv, Acts
  PROVE  TypeOK' /\ Informed'
<1>0. UpsertTypeOK(Bundles, Objects, {"delete"}) /\ Places /\ Informed
  BY DEF IInv, TypeOK
<1>1. "idle" \in UpsertSteps \cup {"delete"} /\ "backoff" \in UpsertSteps \cup {"delete"}
  BY DEF UpsertSteps, Between
<1>2. CASE Delete("idle") \/ Create("idle") \/ Update(HasPorts /\ KeepsAddress, "idle")
  <2>1. UpsertTypeOK(Bundles, Objects, {"delete"})'
    BY <1>0, <1>1, <1>2, UpsertStepType
  <2>2. Informed'
    BY <1>0, <1>2, UpsertStepInformed
  <2> QED BY <2>1, <2>2 DEF TypeOK
<1>3. CASE Goto("backoff") /\ UNCHANGED <<userVars, apiVars>>
  <2>1. /\ pc' \in UpsertSteps \cup {"delete"}
        /\ at' \in Names \cup {None}
        /\ new' \in Objects \cup {None}
    BY <1>0, <1>1, <1>3, GotoType
  <2> QED
    BY <1>0, <1>3, <2>1 DEF userVars, apiVars, TypeOK, UpsertTypeOK, Informed
<1> QED BY <1>2, <1>3 DEF Acts, UpsertResource

LEMMA ActsPlaces ==
  ASSUME IInv, Acts
  PROVE  Places' /\ InHand'
<1>1. pc' \in Between /\ new' = None
  BY ActsWrites DEF IInv
<1>2. DOMAIN live' = DOMAIN live
  BY ActsWrites DEF IInv
<1> QED BY <1>1, <1>2 DEF IInv, Places, AtName, InHand, Between

LEMMA NextStep ==
  ASSUME IInv, [Next]_upsertVars
  PROVE  IInv'
<1>0. UpsertTypeOK(Bundles, Objects, {"delete"}) /\ Places /\ Informed /\ InHand
  BY DEF IInv, TypeOK
<1>1. CASE Edit
  <2>1. TypeOK'
    BY <1>0, <1>1, EditType, ServicesAssumption DEF TypeOK
  <2> QED BY <1>0, <1>1, <2>1 DEF Edit, apiVars, passVars, IInv, Places, Informed, InHand
<1>2. ASSUME NEW n \in Names, Drift(n) PROVE IInv'
  <2>1. Put(n, None) /\ UNCHANGED <<cached, passVars>>
    BY <1>2 DEF Drift
  <2>2. TypeOK' /\ Informed'
    BY <1>0, <1>2, <2>1, DriftType, PutInformed DEF TypeOK, UpsertTypeOK
  <2>3. DOMAIN live' = Names
    BY <1>0, <2>1, PutElsewhere DEF Places
  <2> QED BY <1>0, <2>1, <2>2, <2>3 DEF passVars, IInv, Places, InHand
<1>3. ASSUME NEW n \in Names, Watch(n) PROVE IInv'
  <2>1. TypeOK' /\ Informed'
    BY <1>0, <1>3, WatchType, WatchInformed DEF TypeOK, UpsertTypeOK
  <2> QED BY <1>0, <1>3, <2>1 DEF Watch, passVars, IInv, Places, InHand
<1>4. ASSUME NEW n \in Names, Reconcile(n) PROVE IInv'
  <2>1. /\ pc' \in {"create", "update"} /\ at' = n /\ new' \in Objects
        /\ UNCHANGED <<userVars, apiVars>>
    BY <1>0, <1>4, ReconcileDecides DEF TypeOK
  <2> QED
    BY <1>0, <2>1
    DEF userVars, apiVars, IInv, TypeOK, UpsertTypeOK, UpsertSteps, Between, Places,
        AtName, Informed, InHand
<1>5. ASSUME NEW n \in Names, Unwanted(n) PROVE IInv'
  <2>1. /\ pc' = "delete" /\ at' = n /\ new' = None
        /\ UNCHANGED <<userVars, live, cached, pending, crashes>>
        /\ UNCHANGED faults \/ Fault
    BY <1>0, <1>5, UnwantedDecides
  <2> QED
    BY <1>0, <2>1
    DEF Fault, userVars, IInv, TypeOK, UpsertTypeOK, UpsertSteps, Between, Places,
        AtName, Informed, InHand
<1>6. CASE Acts
  BY <1>6, ActsType, ActsPlaces DEF IInv
<1>7. CASE Restart
  <2>1. TypeOK'
    BY <1>0, <1>7, RestartType DEF TypeOK
  <2> QED
    BY <1>0, <1>7, <2>1
    DEF Restart, Goto, Between, IInv, Places, AtName, Informed, InHand
<1>8. CASE UNCHANGED upsertVars
  BY <1>0, <1>8
  DEF upsertVars, userVars, apiVars, passVars, IInv, TypeOK, UpsertTypeOK, Places,
      Informed, InHand
<1> QED
  BY <1>1, <1>2, <1>3, <1>4, <1>5, <1>6, <1>7, <1>8 DEF Next, ReconcileService, Acts

LEMMA Inductive == Spec => []IInv
BY InitIInv, NextStep, PTL DEF Spec

(***************************************************************************)
(* Bundles, Services, caches and what passes have in hand keep their types.*)
(***************************************************************************)
THEOREM TypeCorrect == Spec => []TypeOK
<1>1. IInv => TypeOK
  BY DEF IInv
<1> QED BY <1>1, Inductive, PTL

-----------------------------------------------------------------------------
(***************************************************************************)
(* What has settled: a comparison with it says yes, or only node ports     *)
(* make it say no and the update is to what is there; and a Delete that a  *)
(* failing Get leads to finds nothing to delete.                           *)
(***************************************************************************)

LEMMA SettledStep ==
  ASSUME IInv, Settled, Next, UNCHANGED <<bundle, edits>>
  PROVE  Settled' /\ UNCHANGED live
<1>0. /\ bundle \in Bundles /\ edits \in Nat
      /\ \/ pc \in Between
         \/ pc = "delete" /\ bundle.routes = None
         \/ pc = "update" /\ TypeOf(bundle) \in Exposed /\ Shown(new) = Says(bundle)
      /\ \A n \in Names : /\ Shown(live[n]) = Says(bundle)
                          /\ pending[n] = <<>> /\ cached[n] = live[n]
      /\ live \in [Names -> Objects \cup {None}] /\ new \in Objects \cup {None}
  BY DEF IInv, TypeOK, UpsertTypeOK, Settled, Informed
<1>1. CASE Edit \/ \E n \in Names : Drift(n)
  BY <1>0, <1>1 DEF Edit, Drift, UserStep
<1>2. ASSUME NEW n \in Names, Watch(n) PROVE FALSE
  BY <1>0, <1>2 DEF Watch
<1>3. ASSUME NEW n \in Names, Reconcile(n) PROVE Settled' /\ UNCHANGED live
  <2>1. bundle.routes # None /\ Shown(cached[n]) = Says(bundle)
    BY <1>0, <1>3 DEF Reconcile
  <2>2. cached[n] # None
    BY <2>1 DEF Shown, Says
  <2>3. /\ pc' = "update" /\ Shown(new') = Says(bundle)
        /\ UNCHANGED <<userVars, apiVars>>
    BY <1>3, <2>2, ReconcileDecides DEF IInv
  <2>4. ~AsExpected(CreateExpectedService(bundle, GetGeneratedServiceSpecData(cached[n])),
                    cached[n])
    BY <1>3 DEF Reconcile
  <2>5. TypeOf(bundle) \in Exposed
    BY <1>0, <2>1, <2>4, ShownAsExpected
  <2>6. UNCHANGED <<bundle, live, pending>>
    BY <2>3 DEF userVars, apiVars
  <2> QED BY <1>0, <2>3, <2>5, <2>6 DEF Settled, TypeOf
<1>4. ASSUME NEW n \in Names, Unwanted(n) PROVE Settled' /\ UNCHANGED live
  BY <1>0, <1>4, UnwantedDecides DEF Settled, IInv
<1>5. CASE Delete("idle")
  <2>1. pc = "delete" /\ bundle.routes = None
    BY <1>0, <1>5 DEF Delete, Between
  <2>2. at \in Names /\ live[at] = None
    BY <1>0, <2>1 DEF IInv, Places, AtName, Says, Shown
  <2>3. UNCHANGED <<live, pending>> /\ pc' = "backoff"
    BY <1>5, <2>2, CallWrites DEF Delete, IInv, Places
  <2> QED BY <1>0, <2>3 DEF Settled, Between
<1>6. CASE UpsertResource
  <2>1. pc = "update" /\ Shown(new) = Says(bundle) /\ at \in Names
    BY <1>0, <1>6
    DEF UpsertResource, Create, Update, Between, IInv, Places, AtName
  <2>2. Update(HasPorts /\ KeepsAddress, "idle")
    BY <1>6, <2>1 DEF UpsertResource, Create
  <2>3. ASSUME live[at] # None, KeepsAddress PROVE live[at] = new
    <3>1. Shown(live[at]) = Shown(new)
      BY <1>0, <2>1
    <3>2. new # None /\ Told(live[at]) = Told(new) /\ live[at].ip = new.ip
      BY <2>3, <3>1 DEF Shown, KeepsAddress
    <3> QED BY <1>0, <2>1, <2>3, <3>2, SameService
  <2>4. live = [live EXCEPT ![at] = live[at]]
    BY <1>0
  <2>5. UNCHANGED <<live, pending>> /\ pc' \in Between
    BY <2>2, <2>3, <2>4 DEF Update, Call, Put, Goto, Between
  <2> QED BY <1>0, <2>5 DEF Settled
<1>7. CASE Restart
  BY <1>0, <1>7 DEF Restart, Goto, Between, Settled
<1> QED BY <1>1, <1>2, <1>3, <1>4, <1>5, <1>6, <1>7 DEF Next, ReconcileService

\* Every step is one of FollowedBundle, or none.
LEMMA Follows ==
  ASSUME IInv, [Next]_upsertVars
  PROVE  [Following!Next]_(Following!vars)
<1>0. TypeOK /\ Places /\ InHand /\ DOMAIN live = Names
  BY DEF IInv, Places
<1>1. ASSUME Next, UNCHANGED <<bundle, edits>>,
             \/ Following!Take \/ Following!Finish
             \/ \E n \in Names : Following!Write(n)
      PROVE  Following!Next
  BY <1>1, SettledStep DEF Following!Operator, Following!Next
<1>2. CASE Edit
  BY <1>2 DEF Edit, UserStep, apiVars, passVars, Following!User, Following!Next
<1>3. ASSUME NEW n \in Names, Drift(n) PROVE Following!Next
  <2>1. /\ live' = [live EXCEPT ![n] = None]
        /\ edits' = edits + 1 /\ UNCHANGED <<bundle, passVars>>
    BY <1>3 DEF Drift, UserStep, Put
  <2> QED
    BY <1>0, <2>1 DEF passVars, Shown, Following!User, Following!Next
<1>4. ASSUME NEW n \in Names, Reconcile(n) \/ Unwanted(n) PROVE Following!Next
  \* What the pass has in hand is what the bundle says now.
  <2>1. /\ pc \in Between /\ pc' \notin Between
        /\ Shown(new') = Says(bundle)
        /\ UNCHANGED <<bundle, edits, live>>
    BY <1>0, <1>4, ReconcileDecides, UnwantedDecides
    DEF userVars, apiVars, Between, Shown, Says
  <2>2. Following!Take
    BY <2>1 DEF Following!Take
  <2> QED BY <1>1, <1>4, <2>1, <2>2 DEF Next, ReconcileService
<1>5. CASE Acts
  <2>1. /\ pc \notin Between /\ pc' \in Between /\ at \in Names
        /\ UNCHANGED <<bundle, edits>>
        /\ UNCHANGED live \/ live' = [live EXCEPT ![at] = new]
    BY <1>0, <1>5, ActsWrites DEF Between, Places, AtName, userVars
  <2>2. Following!Finish \/ Following!Write(at)
    BY <1>0, <2>1 DEF Following!Finish, Following!Write
  <2> QED BY <1>1, <1>5, <2>1, <2>2 DEF Acts, Next, ReconcileService
<1>6. CASE (\E n \in Names : Watch(n)) \/ Restart
  <2>1. Following!Finish /\ UNCHANGED <<bundle, edits>>
    BY <1>6 DEF Watch, Restart, Goto, Between, userVars, passVars, Following!Finish
  <2> QED BY <1>1, <1>6, <2>1 DEF Next
<1>7. CASE UNCHANGED upsertVars
  BY <1>7 DEF upsertVars, userVars, apiVars, passVars, Settled, Following!vars
<1> QED
  BY <1>2, <1>3, <1>4, <1>5, <1>6, <1>7 DEF Next, ReconcileService, Acts

(***************************************************************************)
(* What has settled is right: with routes a Service of the right type and  *)
(* labels that has a port for each of them, without routes none.           *)
(***************************************************************************)
THEOREM SettledServes ==
  Spec => [](Settled => \A n \in Names :
               /\ bundle.routes = None => live[n] = None
               /\ bundle.routes # None => Serves(live[n], bundle))
<1>1. IInv /\ Settled => \A n \in Names :
        /\ bundle.routes = None => live[n] = None
        /\ bundle.routes # None => Serves(live[n], bundle)
  BY ShownServes DEF IInv, TypeOK, UpsertTypeOK, Settled
<1> QED BY <1>1, Inductive, PTL

(***************************************************************************)
(* ReconcileService implements FollowedBundle, whatever addresses and node *)
(* ports the API server gives out, whatever the informer shows and         *)
(* whatever calls fail; what passes write over a Service that is as the    *)
(* bundle says, because of its node ports, changes nothing.                *)
(***************************************************************************)
THEOREM ImplementsFollowedBundle == Spec => FollowsBundle
<1>1. Init => Following!Init
  BY DEF Init, UpsertInit, Between, Following!Init
<1>2. IInv /\ [Next]_upsertVars => [Following!Next]_(Following!vars)
  BY Follows
<1> QED
  BY <1>1, <1>2, Inductive, PTL DEF Spec, FollowsBundle, Following!Spec
=============================================================================
