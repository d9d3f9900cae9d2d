------------------------------ MODULE Deployments ------------------------------
(***************************************************************************)
(* ReconcileDeployment (deployment.go): the Deployment of a bundle follows *)
(* the bundle.  What it is compared by is DeepDerivative, because the API  *)
(* server fills in fields the bundle says nothing of; what DeepDerivative  *)
(* does not see is not rolled out.                                         *)
(*                                                                         *)
(* The pod template is reduced to one field of each kind the comparison    *)
(* treats in a way of its own: the image (a string), the environment (a    *)
(* list) and a probe (a pointer to a handler and numbers), beside the      *)
(* selector.  Mounts has the volumes.                                      *)
(*                                                                         *)
(* DeepDerivative takes a number that is 0 for a number, not for one left  *)
(* out.  A bundle that leaves a number of its probe to the server is       *)
(* therefore never like its Deployment: every pass updates it, to what it  *)
(* is already.                                                             *)
(***************************************************************************)
EXTENDS Upserts, FiniteSets

CONSTANTS
  Keys,       \* names of environment variables, numbers for their sort order
  Nvidia,     \* the one among them that is NVIDIA_VISIBLE_DEVICES
  Values,     \* values of variables, the empty string aside
  Empty,      \* the empty string
  Sources,    \* secrets and config maps that variables are taken from
  Images,     \* images and their tags
  Handlers,   \* what probes do: a command, a request
  Default,    \* what the server sets for a number a probe leaves out
  Labels,     \* labels of the bundle, those of the operator included
  Selectors,  \* label selectors
  Own,        \* the selector this version of the operator writes
  Found       \* Deployments that an older operator may have left

\* The period stands for all numbers of a probe; one left out is 0.
Probes == [handler : Handlers, period : Nat]

\* A sourced env without any source is None.
Bundles == [image : Images, envs : MapsTo(Keys, Values \cup {Empty}),
            sourced : MapsTo(Keys, Sources \cup {None}), nvidia : BOOLEAN,
            probe : Probes \cup {None}, labels : SUBSET Labels]

EnvVars == Keys \X (Values \cup Sources \cup {Empty, "all"})

\* policy stands for what the server fills in where it is given None.
Specs == [selector : Selectors, image : Images, env : Seq(EnvVars),
          probe : Probes \cup {None}, policy : {"default"}]

Objects == [spec : Specs, labels : SUBSET Labels]

ASSUME DeploymentsAssumption ==
  /\ Keys \subseteq Nat
  /\ Nvidia \in Keys
  /\ Own \in Selectors
  /\ Default \in Nat \ {0}
  /\ None \notin Names \cup Sources \cup Probes \cup Objects
  /\ Written \subseteq Bundles
  /\ Found \subseteq Objects

TypeOK == UpsertTypeOK(Bundles, Objects, {})

-----------------------------------------------------------------------------


\* The GPU variable is added unless the user has set it.
WithNvidia(env) ==
  IF \E v \in Values \cup Sources \cup {Empty} : <<Nvidia, v>> \in ToSet(env)
  THEN env
  ELSE Append(env, <<Nvidia, "all">>)

Env(b) ==
  LET env == Sorted(b.envs) \o Sorted(b.sourced)
  IN IF b.nvidia THEN WithNvidia(env) ELSE env

\* A sourced env that has no source is an error, and ends the pass; it stands
\* for a volume without a path, too, which does the same.
Expressible(b) == \A k \in DOMAIN b.sourced : b.sourced[k] # None

CreateExpectedDeployment(b) ==
  [selector |-> Own, image |-> b.image, env |-> Env(b), probe |-> b.probe,
   policy |-> None]

\* A pointer to nothing, an empty string and what a list has in excess of
\* the expected one are not compared; a number is, whatever it is.
DeepDerivative(expected, current) ==
  /\ current # None
  /\ expected.selector = current.spec.selector
  /\ expected.image = current.spec.image
  /\ expected.probe \in {None, current.spec.probe}
  /\ Len(expected.env) <= Len(current.spec.env)
  /\ \A i \in DOMAIN expected.env :
       /\ expected.env[i][1] = current.spec.env[i][1]
       /\ expected.env[i][2] \in {Empty, current.spec.env[i][2]}

StringMapsMatch(expected, current) ==
  current # None /\ expected = current.labels

\* Mutant: what the server has filled in has to be as expected, too.
EqualToExpected(expected, current) ==
  current # None /\ expected = current.spec /\ StringMapsMatch(bundle.labels, current)

AsExpected(expected, current) ==
  DeepDerivative(expected, current) /\ StringMapsMatch(bundle.labels, current)

\* The numbers that a probe leaves out are set by the server.
Completed(probe) ==
  IF probe # None /\ probe.period = 0 THEN [probe EXCEPT !.period = Default] ELSE probe

\* What becomes of an object on the server.
Stored(spec, labels) ==
  [spec |-> [spec EXCEPT !.policy = "default", !.probe = Completed(@)], labels |-> labels]

-----------------------------------------------------------------------------

(***************************************************************************)
(* Get, compare, decide.  A pass that finds nothing to do changes nothing, *)
(* and neither does one whose Get fails or that cannot build a Deployment. *)
(***************************************************************************)
Says(b) == Stored(CreateExpectedDeployment(b), b.labels)

Reconcile(n) ==
  /\ pc \in Between
  /\ Expressible(bundle)
  /\ ~AsExpected(CreateExpectedDeployment(bundle), cached[n])
  /\ Upsert(n, Says(bundle), cached[n] # None)
  /\ UNCHANGED <<userVars, apiVars>>

SelectorChanges == live[at] # None /\ live[at].spec.selector # new.spec.selector

UpsertResource ==
  \/ Create("idle")
  \/ pc = "update" /\ ~SelectorChanges /\ Update(TRUE, "idle")
  \/ pc = "update" /\ UpdateRefused(SelectorChanges, FALSE)
  \/ DeleteRefused
  \/ CreateAgain

ReconcileDeployment(n) == Reconcile(n) \/ UpsertResource

Init ==
  /\ bundle \in Written
  /\ live \in [Names -> Found \cup {None}]
  /\ UpsertInit

Next ==
  \/ Edit
  \/ \E n \in Names : Drift(n) \/ Watch(n) \/ ReconcileDeployment(n)
  \/ Restart

Spec == Init /\ [][Next]_upsertVars

-----------------------------------------------------------------------------
(***************************************************************************)
(* The operator deletes a Deployment, and its pods with it, for one reason *)
(* only: a selector that cannot be changed in place.  The decision is made *)
(* on an answer, and holds until the Delete is called.                     *)
(***************************************************************************)
DeletedForSelector == pc = "recreate" => live[at] = None \/ SelectorChanges

\* The probe of b, if it has one, leaves no number to the server.
Complete(b) == b.probe = None \/ b.probe.period # 0

\* A pass has written what the bundle says, and the informer has seen it.  A
\* pass may not find it so for a number left out only, and writes the same.
Settled ==
  /\ pc \in Between \cup {"update"}
  /\ pc = "update" => ~Complete(bundle) /\ new = Says(bundle)
  /\ \A n \in Names : live[n] = Says(bundle) /\ pending[n] = <<>>

Following == INSTANCE FollowedBundle
  WITH Replacing <- TRUE,
       said      <- {[n \in Names |-> Says(bundle)]},
       stored    <- live,
       taken     <- IF pc \in Between THEN {} ELSE {[n \in Names |-> new]},
       settled   <- Settled

(***************************************************************************)
(* ReconcileDeployment implements FollowedBundle: it writes what one       *)
(* version of the bundle says and never goes back to an older one; and     *)
(* what a pass has written the next ones accept, with all that the server  *)
(* has filled in and whatever calls fail, until a user acts.  Where it is  *)
(* a number of a probe that the server has filled in, they do not accept   *)
(* it (lines 224-226 and 350) and update the Deployment in every pass, but *)
(* nothing of it changes, and it is not deleted.                           *)
(***************************************************************************)
FollowsBundle == Following!Spec

-----------------------------------------------------------------------------
\* The requeue brings passes back, and the watch delivers.
Fairness == \A n \in Names : WF_upsertVars(ReconcileDeployment(n)) /\ WF_upsertVars(Watch(n))

FairSpec == Spec /\ Fairness

\* The value a container sees: of a variable listed twice, the last.
Effective(env, k) ==
  LET places == {i \in DOMAIN env : env[i][1] = k}
  IN IF places = {} THEN None
     ELSE env[CHOOSE i \in places : \A j \in places : j <= i][2]

\* The value b gives a variable, None if it gives it none.
Wanted(b, k) ==
  CASE k \in DOMAIN b.sourced -> b.sourced[k]
    [] k \in DOMAIN b.envs \ DOMAIN b.sourced -> b.envs[k]
    [] OTHER -> IF b.nvidia /\ k = Nvidia THEN "all" ELSE None

RolledOut(current, b) ==
  /\ current # None
  /\ current.spec.selector = Own
  /\ current.spec.image = b.image
  /\ current.labels = b.labels
  /\ Completed(b.probe) \in {None, current.spec.probe}
  /\ \A k \in Keys :
       Wanted(b, k) \in {None, Empty, Effective(current.spec.env, k)}


(***************************************************************************)
(* Once the bundle is left alone the passes come to find nothing to        *)
(* update, although the server fills in what the bundle does not say, but  *)
(* for the numbers of a probe (lines 224-226): with one of those left out  *)
(* DeepDerivative (line 350) is never true, and the passes do not stop to  *)
(* update.                                                                 *)
(***************************************************************************)
EventuallyQuiet == <>[]Complete(bundle) => <>[](pc \in Between)
=============================================================================
