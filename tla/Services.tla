-------------------------------- MODULE Services --------------------------------
(***************************************************************************)
(* ReconcileService (service.go): the Service of a bundle has a port for   *)
(* every route of the bundle, and is gone if there is none.  Of the fields *)
(* that only the API server knows six are copied from the Service that Get *)
(* returned into the expected one; the cluster IP stands for them.         *)
(*                                                                         *)
(* The node ports are not among them.  A Service of a type that has node   *)
(* ports is therefore never like the expected one, whose node ports are 0: *)
(* every pass updates it, to what it is already.                           *)
(***************************************************************************)
EXTENDS Upserts, FiniteSets

CONSTANTS
  Routes,      \* names of routes, numbers for their sort order
  Ports,       \* port numbers
  Types,       \* types of services
  Default,     \* the one taken where the bundle says none, ClusterIP
  Exposed,     \* those with node ports: NodePort and LoadBalancer
  NodePort,    \* a number the API server gives out for a port
  Labels,      \* labels of the bundle, those of the operator included
  ClusterIPs   \* addresses the API server gives out

\* routes is None, the nil map, or a map, which may be empty.
Bundles == [routes : MapsTo(Routes, Ports) \cup {None}, type : Types \cup {None},
            labels : SUBSET Labels]

\* What the server makes of the node ports that an object leaves at 0: it
\* gives out numbers, keeps those it has given out, or takes them back.
\* NodePort stands for them all.
NodePortOf(type) == IF type \in Exposed THEN NodePort ELSE 0

Objects == {o \in [ports : Seq(Routes \X Ports), type : Types, ip : ClusterIPs,
                   nodePort : {0, NodePort}, labels : SUBSET Labels] :
              o.nodePort = NodePortOf(o.type)}

ASSUME ServicesAssumption ==
  /\ Routes \subseteq Nat
  /\ Default \in Types
  /\ Exposed \subseteq Types
  /\ NodePort \in Nat \ {0}
  /\ None \notin Names \cup Types \cup ClusterIPs \cup Objects \cup MapsTo(Routes, Ports)
  /\ Written \subseteq Bundles

TypeOK == UpsertTypeOK(Bundles, Objects, {"delete"})

-----------------------------------------------------------------------------

\* What the API server has generated, as far as the operator has seen it.
GetGeneratedServiceSpecData(current) ==
  IF current = None THEN None ELSE current.ip

TypeOf(b) == IF b.type = None THEN Default ELSE b.type

CreateExpectedService(b, generated) ==
  [ports    |-> Sorted(b.routes),
   type     |-> TypeOf(b),
   ip       |-> generated,
   nodePort |-> 0,
   labels   |-> b.labels]

\* A list that goes on where the expected one ends is not seen to differ, but
\* every port that is expected is, in its node port, too.  The address is the
\* current one's by construction.
DeepDerivative(expected, current) ==
  /\ current # None
  /\ IsPrefix(expected.ports, current.ports)
  /\ expected.ports # <<>> => expected.nodePort = current.nodePort
  /\ expected.type = current.type

\* Mutant: the condition is the wrong way round.
StringMapsDiffer(expected, current) ==
  current # None /\ expected.labels # current.labels

StringMapsMatch(expected, current) ==
  current # None /\ expected.labels = current.labels

\* Mutant: one change has to come with the other to be seen.
AsExpectedInPart(expected, current) ==
  DeepDerivative(expected, current) \/ StringMapsMatch(expected, current)

AsExpected(expected, current) ==
  DeepDerivative(expected, current) /\ StringMapsMatch(expected, current)

-----------------------------------------------------------------------------

\* The object as the server has it once it is written.
Stored(expected, ip) ==
  [expected EXCEPT !.ip = ip, !.nodePort = NodePortOf(expected.type)]

\* Mutant: a Get that fails is as good as a bundle without routes.
UnwantedUnread(n) ==
  /\ pc \in Between
  /\ Fault
  /\ pc' = "delete"
  /\ at' = n
  /\ UNCHANGED <<live, cached, pending, crashes, new, userVars>>

(***************************************************************************)
(* Get, compare, decide: whether a Get fails or not, a Service without     *)
(* routes is deleted; otherwise a Get that fails ends the pass with        *)
(* nothing done, and so does one that shows what is expected.              *)
(***************************************************************************)
Unwanted(n) ==
  /\ pc \in Between
  /\ bundle.routes = None
  /\ \/ cached[n] # None /\ UNCHANGED faults
     \/ Fault
  /\ pc' = "delete"
  /\ at' = n
  /\ UNCHANGED <<live, cached, pending, crashes, new, userVars>>

(***************************************************************************)
(* The address of an object that is created is given by the server: one    *)
(* that no Service has.                                                    *)
(***************************************************************************)
Reconcile(n) ==
  /\ pc \in Between
  /\ bundle.routes # None
  /\ LET current   == cached[n]
         expected  == CreateExpectedService(bundle, GetGeneratedServiceSpecData(current))
         addresses == IF current # None THEN {current.ip}
                      ELSE ClusterIPs \ {live[m].ip : m \in {m \in Names : live[m] # None}}
     IN /\ ~AsExpected(expected, current)
        /\ \E ip \in addresses :
             Upsert(n, Stored(expected, ip), current # None)
  /\ UNCHANGED <<userVars, apiVars>>

\* A Service needs a port, and keeps its address.
HasPorts == new.ports # <<>>
KeepsAddress == live[at] = None \/ live[at].ip = new.ip

UpsertResource ==
  \/ pc = "create" /\ HasPorts /\ Create("idle")
  \/ pc = "create" /\ ~HasPorts /\ Goto("backoff") /\ UNCHANGED <<userVars, apiVars>>
  \/ pc = "update" /\ Update(HasPorts /\ KeepsAddress, "idle")

ReconcileService(n) == Unwanted(n) \/ Reconcile(n) \/ Delete("idle") \/ UpsertResource

Init ==
  /\ bundle \in Written
  /\ live = [n \in Names |-> None]
  /\ UpsertInit

Next ==
  \/ Edit
  \/ \E n \in Names : Drift(n) \/ Watch(n) \/ ReconcileService(n)
  \/ Restart

Spec == Init /\ [][Next]_upsertVars

-----------------------------------------------------------------------------
\* What the bundle has a say in: all but the address and the node ports.
Told(o) == [ports |-> o.ports, type |-> o.type, labels |-> o.labels]

\* That of a Service, if there is one.
Shown(o) == IF o = None THEN {} ELSE {Told(o)}

\* What b says, nothing if it has no routes.
Says(b) == IF b.routes = None THEN {} ELSE {Told(CreateExpectedService(b, None))}

\* The Service is as the bundle says, the informer has seen it, and no pass
\* over an older version is on its way; one may be that has found no Service
\* to be without routes, or node ports that it does not expect.
Settled ==
  /\ \/ pc \in Between
     \/ pc = "delete" /\ bundle.routes = None
     \/ pc = "update" /\ TypeOf(bundle) \in Exposed /\ Shown(new) = Says(bundle)
  /\ \A n \in Names : Shown(live[n]) = Says(bundle) /\ pending[n] = <<>>

Following == INSTANCE FollowedBundle
  WITH Replacing <- FALSE,
       None      <- {},
       said      <- {[n \in Names |-> Says(bundle)]},
       stored    <- [n \in Names |-> Shown(live[n])],
       taken     <- IF pc \in Between THEN {} ELSE {[n \in Names |-> Shown(new)]},
       settled   <- Settled

(***************************************************************************)
(* ReconcileService implements FollowedBundle, whatever addresses the API  *)
(* server gives out: ports, type and labels are what one version of the    *)
(* bundle says, never an older one than before, and a Service that is as   *)
(* the bundle says is left alone, even where a Get that fails leads to a   *)
(* Delete.  With node ports (GetGeneratedServiceSpecData does not copy     *)
(* them) every pass updates it, but nothing of it changes.                 *)
(***************************************************************************)
FollowsBundle == Following!Spec

\* The requeue brings passes back, and the watch delivers.
Fairness == \A n \in Names : WF_upsertVars(ReconcileService(n)) /\ WF_upsertVars(Watch(n))

FairSpec == Spec /\ Fairness

Routed(b) == b.routes # None /\ DOMAIN b.routes # {}

Serves(current, b) ==
  /\ current # None
  /\ current.type = TypeOf(b)
  /\ current.labels = b.labels
  /\ \A r \in DOMAIN b.routes : <<r, b.routes[r]>> \in ToSet(current.ports)

(***************************************************************************)
(* Once the bundle is left alone, its Service has all its routes, or is    *)
(* gone with them: an update that carries the address of a Service that    *)
(* has been replaced since is refused, and the next ones get it right.     *)
(***************************************************************************)
EventuallyServed ==
  \A n \in Names : <>[](/\ Routed(bundle) => Serves(live[n], bundle)
                        /\ bundle.routes = None => live[n] = None)

(***************************************************************************)
(* "Should not change the service" (service_test.go, of a second pass):    *)
(* passes find nothing to write once the bundle is left alone, if its      *)
(* Service has no node ports.  With them DeepDerivative (line 130) is      *)
(* never true, and the passes do not stop to update.                       *)
(***************************************************************************)
EventuallyQuiet ==
  <>[](bundle.routes = None \/ (Routed(bundle) /\ TypeOf(bundle) \notin Exposed))
    => <>[](pc \in Between)
=============================================================================
