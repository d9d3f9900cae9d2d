------------------------------- MODULE Ingresses -------------------------------
(***************************************************************************)
(* ReconcileIngress (ingress.go): every route of a bundle that asks for an *)
(* Ingress has one of its own.  A pass lists what is there, deletes what   *)
(* the bundle does not name, and goes through the routes in the order of   *)
(* their keys, one Get and one upsert each.  It works on the bundle as it  *)
(* was when the pass began, while users go on to edit theirs.              *)
(*                                                                         *)
(* Only host and port are compared.  The annotations are not: whether the  *)
(* middleware asks for a login, and who may log in (the homepage plugin).  *)
(***************************************************************************)
EXTENDS Upserts, FiniteSetsExt

CONSTANTS
  Hosts,   \* domains
  Ports,   \* port numbers
  Groups,  \* groups of people who may log in
  Web      \* the routes whose name ends in "web", shown on the homepage

\* A route without domain has no Ingress.
RoutesOfBundles ==
  MapsTo(Names, [host : Hosts \cup {None}, port : Ports, auth : BOOLEAN])

\* nil, or what they say of groups.
Annotations == {None} \cup [groups : Groups \cup {None}]

Bundles == [routes      : RoutesOfBundles \cup {None},
            annotations : Annotations,
            homepage    : Annotations]

Objects == [host : Hosts, port : Ports, middleware : BOOLEAN,
            groups : Groups \cup {None}]

ASSUME IngressesAssumption ==
  /\ Names \subseteq Nat
  /\ Web \subseteq Names
  /\ None \notin Names \cup Hosts \cup Groups \cup Objects \cup RoutesOfBundles
  /\ None \notin [groups : Groups \cup {None}]
  /\ Written \subseteq Bundles

VARIABLES
  ab,   \* the bundle the pass works on, or None
  todo  \* the Ingresses it has still to delete, or the routes to visit

vars == <<upsertVars, ab, todo>>

TypeOK ==
  /\ UpsertTypeOK(Bundles, Objects, {"list", "surplus", "get"})
  /\ ab \in Bundles \cup {None}
  /\ todo \subseteq Names

-----------------------------------------------------------------------------

\* The routes of b that have an Ingress: the list of names in the code.
Named(b) ==
  IF b.routes = None THEN {} ELSE {n \in DOMAIN b.routes : b.routes[n].host # None}

\* Mutant: the loop ranges over the map, any route may have come before.
MiddlewareInAnyOrder(b, n) ==
  \/ b.routes[n].auth
  \/ b.annotations # None /\ \E m \in Named(b) : b.routes[m].auth

\* Mutant: it is written to the bundle's map only.
MiddlewareOfAnnotated(b, n) ==
  b.annotations # None /\ \E m \in Named(b) : m <= n /\ b.routes[m].auth

(***************************************************************************)
(* The annotations of an Ingress are the map of the bundle itself, if it   *)
(* has one, so that the middleware of a route is there for the routes that *)
(* come after it.                                                          *)
(***************************************************************************)
Middleware(b, n) ==
  \/ b.routes[n].auth
  \/ b.annotations # None /\ \E m \in Named(b) : m < n /\ b.routes[m].auth

\* The homepage's annotations go into a map of their own.
GetHomePageAnnotations(b, n) ==
  CASE b.annotations # None /\ b.annotations.groups # None -> b.annotations.groups
    [] n \in Web /\ b.homepage # None -> b.homepage.groups
    [] OTHER -> None

CreateExpectedIngress(b, n) ==
  [host |-> b.routes[n].host, port |-> b.routes[n].port,
   middleware |-> Middleware(b, n), groups |-> GetHomePageAnnotations(b, n)]

\* Mutant: the port is not compared.
HostAsExpected(expected, current) ==
  current # None /\ expected.host = current.host

\* Mutant: never mind what is there.
NeverAsExpected(expected, current) == FALSE

\* DeepDerivative of the Spec, without labels or annotations.
AsExpected(expected, current) ==
  /\ current # None
  /\ expected.host = current.host
  /\ expected.port = current.port

-----------------------------------------------------------------------------

\* What is left to do of the pass, if it goes on.
Left(rest) ==
  IF pc' \in Between THEN ab' = None /\ todo' = {}
  ELSE todo' = rest /\ UNCHANGED ab

Begin ==
  /\ pc \in Between
  /\ pc' = "list"
  /\ ab' = bundle
  /\ UNCHANGED <<userVars, apiVars, at, new, todo>>

Listed == {n \in Names : cached[n] # None}

\* Mutant: whatever is listed goes.
ListAll ==
  /\ pc = "list"
  /\ Goto("surplus") /\ UNCHANGED faults
  /\ Left(Listed)
  /\ UNCHANGED <<userVars, live, cached, pending, crashes>>

List ==
  /\ pc = "list"
  /\ \/ /\ Goto(IF ab.routes = None /\ Listed = {} THEN "idle" ELSE "surplus")
        /\ UNCHANGED faults
     \/ Fault /\ Goto("backoff")
  /\ Left(Listed \ Named(ab))
  /\ UNCHANGED <<userVars, live, cached, pending, crashes>>

\* The list comes in any order.  An Ingress that is gone is an error.
DeleteSurplus ==
  /\ pc = "surplus"
  /\ \E n \in todo : Call(live[n] # None, n, None, "surplus") /\ Left(todo \ {n})
  /\ UNCHANGED <<userVars, cached, crashes>>

SurplusDone ==
  /\ pc = "surplus" /\ todo = {}
  /\ Goto(IF Named(ab) = {} THEN "idle" ELSE "get")
  /\ Left(Named(ab))
  /\ UNCHANGED <<userVars, apiVars>>

\* Get, compare, decide, for the next route.
Visit ==
  /\ pc = "get" /\ todo # {}
  /\ LET n == Min(todo)
         expected == CreateExpectedIngress(ab, n)
     IN /\ IF AsExpected(expected, cached[n]) THEN Goto("get")
           ELSE Upsert(n, expected, cached[n] # None)
        /\ Left(todo \ {n})
  /\ UNCHANGED <<userVars, apiVars>>

\* An Ingress that Get has not filled in differs, and the error is returned.
GetFails ==
  /\ pc = "get" /\ todo # {}
  /\ Fault
  /\ Goto("backoff")
  /\ Left({})
  /\ UNCHANGED <<userVars, live, cached, pending, crashes>>

UpsertResource ==
  /\ Create("get") \/ Update(TRUE, "get")
  /\ Left(todo)

AllVisited ==
  /\ pc = "get" /\ todo = {}
  /\ Goto("idle")
  /\ Left({})
  /\ UNCHANGED <<userVars, apiVars>>

ReconcileIngress ==
  \/ Begin \/ List \/ DeleteSurplus \/ SurplusDone
  \/ Visit \/ GetFails \/ UpsertResource \/ AllVisited

WatchIngress(n) == Watch(n) /\ UNCHANGED <<ab, todo>>

Crash == Restart /\ ab' = None /\ todo' = {}

Init ==
  /\ bundle \in Written
  /\ live = [n \in Names |-> None]
  /\ UpsertInit
  /\ ab = None
  /\ todo = {}

Next ==
  \/ (Edit \/ \E n \in Names : Drift(n)) /\ UNCHANGED <<ab, todo>>
  \/ \E n \in Names : WatchIngress(n)
  \/ ReconcileIngress
  \/ Crash

Spec == Init /\ [][Next]_vars

-----------------------------------------------------------------------------
\* o is, in all its parts at once, what one version says of route n.
OneVersion(o, n) ==
  \E b \in Written :
    /\ n \in Named(b)
    /\ o.host = b.routes[n].host /\ o.port = b.routes[n].port
    /\ b.routes[n].auth => o.middleware
    /\ o.middleware =>
         \E m \in Named(b) : m <= n /\ b.routes[m].auth
                             /\ (m = n \/ b.annotations # None)
    /\ o.groups # None =>
         \/ b.annotations # None /\ o.groups = b.annotations.groups
         \/ n \in Web /\ b.homepage # None /\ o.groups = b.homepage.groups

(***************************************************************************)
(* An Ingress is, in all its parts at once, what one version of the bundle *)
(* said of the route, although passes over different versions write it in  *)
(* turn and compare it in part: it has the middleware if that version asks *)
(* for it, and otherwise only where a route before it does; who may log in *)
(* is what the user or the homepage said.                                  *)
(***************************************************************************)
OfOneVersion == \A n \in Names : live[n] # None => OneVersion(live[n], n)

Serves(o, route) == o # None /\ o.host = route.host /\ o.port = route.port

\* Exactly the routes of b that ask for it have an Ingress.
Routed(b) ==
  \A n \in Names :
    IF n \in Named(b) THEN Serves(live[n], b.routes[n]) ELSE live[n] = None

\* The Ingresses are as the bundle says, the informer has seen them all, and
\* no pass over an older version is on its way.
Settled ==
  /\ Routed(bundle)
  /\ \A n \in Names : pending[n] = <<>>
  /\ pc \notin {"create", "update"} /\ (pc \in Between \/ ab = bundle)

\* What b says, name by name.
Says(b) ==
  [n \in Names |-> IF n \in Named(b) THEN CreateExpectedIngress(b, n) ELSE None]

Following == INSTANCE FollowedBundle
  WITH Replacing <- FALSE,
       said      <- {Says(bundle)},
       stored    <- live,
       taken     <- IF pc \in Between THEN {} ELSE {Says(ab)},
       settled   <- Settled

(***************************************************************************)
(* ReconcileIngress implements FollowedBundle: a pass writes what the      *)
(* bundle it began with says and takes away what that does not name,       *)
(* whatever stale lists show and users change meanwhile; and what has      *)
(* settled stays as it is until a user acts, whatever pass, call that      *)
(* fails, restart, or deletion left over from an older list follows.       *)
(***************************************************************************)
FollowsBundle == Following!Spec

\* The requeue brings passes back, and the watch delivers.
Fairness ==
  WF_vars(ReconcileIngress) /\ \A n \in Names : WF_vars(WatchIngress(n))

FairSpec == Spec /\ Fairness

(***************************************************************************)
(* Once the bundle is left alone, exactly the routes that ask for it have  *)
(* an Ingress, with the right host and port, whatever a stale list made a  *)
(* pass delete and whatever was deleted by others.                         *)
(***************************************************************************)
EventuallyRouted == <>[]Routed(bundle)

\* All that users write of n under one host and port is with a login, or all
\* is without: a change of auth alone is not compared, and is not rolled out.
AuthGoesWithSpec(n) ==
  \A b, c \in {b \in Written : n \in Named(b)} :
    Serves(b.routes[n], c.routes[n]) => b.routes[n].auth = c.routes[n].auth

(***************************************************************************)
(* A route that asks for a login gets it in the end, as long as users do   *)
(* not change that alone.                                                  *)
(***************************************************************************)
EventuallyGuarded ==
  \A n \in Names : AuthGoesWithSpec(n) =>
    <>[](n \in Named(bundle) /\ bundle.routes[n].auth =>
           live[n] # None /\ live[n].middleware)

(***************************************************************************)
(* "Should not change the ingress route" (ingress_test.go, of a second     *)
(* pass): once the bundle is left alone no pass calls the API server to    *)
(* write any more, not even the same again.                                *)
(***************************************************************************)
EventuallyQuiet ==
  <>[](pc \notin {"create", "update"} /\ (pc = "surplus" => todo = {}))
=============================================================================
