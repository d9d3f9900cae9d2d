------------------------------- MODULE Reconciles -------------------------------
(***************************************************************************)
(* RunReconciles (helpers.go): the sub-reconcilers run at once, on one     *)
(* bundle and under one context, which the first error cancels; the pass   *)
(* ends when all of them have returned.  One of them is ReconcileVolumes;  *)
(* the sibling stands for any other one, with a call that has an effect.   *)
(***************************************************************************)
EXTENDS Volumes

VARIABLES
  sibling,  \* "calling", what it returned, or "out" between two passes
  shown     \* the label that the sibling's object has, or None

vars == <<volumeVars, sibling, shown>>

TypeOK ==
  /\ VolumesTypeOK
  /\ sibling \in {"out", "calling", "nil", "error"}
  /\ shown \in Labels \cup {None}

-----------------------------------------------------------------------------

Running == pc \notin Between

\* One of the two has returned an error and the other has not returned.
Cancelled ==
  \/ Running /\ sibling = "error"
  \/ pc = "backoff" /\ sibling = "calling"

Start ==
  /\ sibling = "out"
  /\ Begin
  /\ sibling' = "calling"
  /\ UNCHANGED shown

VolumesStep ==
  /\ Running
  /\ Cancelled => pc \notin {"create", "update"}
  /\ ReconcileVolumes
  /\ UNCHANGED <<sibling, shown>>

\* A call under a cancelled context fails, and may still be carried out.
VolumesCancelled ==
  /\ Running /\ Cancelled
  /\ pc \in {"create", "update"}
  /\ \/ UNCHANGED <<live, pending>>
     \/ pc = "create" /\ live[at] = None /\ at \notin Existing /\ Put(at, new)
     \/ pc = "update" /\ live[at] # None /\ accepted /\ Put(at, new)
  /\ Goto("backoff")
  /\ Left({})
  /\ UNCHANGED <<userVars, cached, faults, crashes, sibling, shown>>

SiblingWrites ==
  /\ sibling = "calling" /\ ~Cancelled
  /\ sibling' = "nil"
  /\ shown' = ab.label
  /\ UNCHANGED volumeVars

SiblingFails ==
  /\ sibling = "calling"
  /\ \/ Cancelled /\ UNCHANGED faults
     \/ Fault
  /\ sibling' = "error"
  /\ shown' \in {shown, ab.label}
  /\ UNCHANGED <<userVars, live, cached, pending, crashes, passVars, ab, todo, accepted>>

\* Wait returns, and Reconcile after it, to be run again.
Wait ==
  /\ ~Running
  /\ sibling \in {"nil", "error"}
  /\ sibling' = "out"
  /\ ab' = None
  /\ UNCHANGED <<upsertVars, todo, accepted, shown>>

RunReconciles ==
  \/ Start \/ VolumesStep \/ VolumesCancelled
  \/ SiblingWrites \/ SiblingFails \/ Wait

OutsideStep ==
  \/ Edit /\ UNCHANGED <<ab, todo, accepted>>
  \/ \E n \in Keys \cup Existing : Touch(n) \/ Bind(n)
  \/ Collect

WatchVolumes(n) == Watch(n) /\ UNCHANGED <<ab, todo, accepted, sibling, shown>>

Crash ==
  /\ Restart
  /\ ab' = None /\ todo' = {} /\ accepted' = FALSE
  /\ sibling' = "out"
  /\ UNCHANGED shown

Init ==
  /\ bundle \in Written
  /\ live = [n \in Names |->
       IF n \in Existing THEN [size   |-> CHOOSE s \in Sizes : TRUE,
                               labels |-> NoLabels, bound |-> TRUE]
       ELSE None]
  /\ UpsertInit
  /\ ab = None /\ todo = {} /\ accepted = FALSE
  /\ sibling = "out"
  /\ shown = None

Next ==
  \/ RunReconciles
  \/ OutsideStep /\ UNCHANGED <<sibling, shown>>
  \/ \E n \in Names : WatchVolumes(n)
  \/ Crash

Spec == Init /\ [][Next]_vars

-----------------------------------------------------------------------------
\* No user has a hand in the step.
OperatorStep == UNCHANGED edits

(***************************************************************************)
(* "neverDelete": no pass takes a claim away, with the data behind it, or  *)
(* makes it another, not even where its update is refused for ever.        *)
(***************************************************************************)
ClaimsNeverLost ==
  [][\A n \in Keys \cup Existing : live[n] # None /\ OperatorStep =>
       live'[n] # None /\ live'[n].size = live[n].size]_vars

(***************************************************************************)
(* A claim that users have made keeps the labels it has, those that others *)
(* put on it while a pass is about to write to it included.                *)
(***************************************************************************)
LabelsKept ==
  [][\A e \in Existing : live[e] # None /\ live'[e] # None /\ OperatorStep =>
       \A k \in DOMAIN live[e].labels :
         live[e].labels[k] \in {None, live'[e].labels[k]}]_vars

(***************************************************************************)
(* A job that has an owner is gone when its volume is: no pass takes the   *)
(* owner away, not even one over volumes that have none to give.           *)
(***************************************************************************)
OwnerKept ==
  [][live[Job] # None /\ live'[Job] # None /\ live[Job].owner # None =>
       live'[Job].owner # None]_vars

(***************************************************************************)
(* The requeue brings passes back, and the watch delivers.  Which of the   *)
(* goroutines is the first is left open: the sibling may be late in every  *)
(* pass, and find its context cancelled where the volumes fail.            *)
(***************************************************************************)
Fairness ==
  /\ WF_vars(RunReconciles)
  /\ \A n \in Names : WF_vars(WatchVolumes(n))

FairSpec == Spec /\ Fairness

\* The volumes of the bundle that are claims.
ClaimsOf(b) == IF b.volumes = None THEN {} ELSE Owners(b) \cup {n \in DOMAIN b.volumes : IsOwn(b.volumes[n])}

\* The claims there are have the size that the bundle says, and the existing
\* ones do exist.
Fits(b) ==
  \A n \in ClaimsOf(b) :
    LET v == b.volumes[n] IN
    /\ IsOwn(v) /\ live[n] # None => live[n].size = v.size
    /\ v.kind = "existing" => live[v.existing] # None

Claimed(b) ==
  /\ \A n \in ClaimsOf(b) :
       LET v == b.volumes[n]
           c == live[ClaimOf(n, v)]
       IN /\ c # None
          /\ IsOwn(v) => c.size = v.size /\ c.labels = GetPVCLabels(b, v)
          /\ \A k \in DOMAIN c.labels : GetPVCLabels(b, v)[k] # None => c.labels[k] # None
  /\ JobWanted(b) => live[Job] # None /\ live[Job].spec = JobSpec(b)

(***************************************************************************)
(* Once bundle and claims are left alone, and the claims there are fit the *)
(* bundle, all claims are there with their labels, and the job is: passes  *)
(* that a cancelled context, a conflict or a claim not yet in the cache    *)
(* has ended in the middle are made up for.                                *)
(***************************************************************************)
EventuallyClaimed == <>[]Fits(bundle) => <>[]Claimed(bundle)

\* ... and no pass calls the API server to write any more.
EventuallyQuiet == <>[]Fits(bundle) => <>[](pc \notin {"create", "update"})

(***************************************************************************)
(* The volumes of a bundle that fit it come to fail no more, and from then *)
(* on no pass cancels what the other sub-reconcilers do: they get their    *)
(* work done, however late in a pass they are.  Volumes that can never be  *)
(* reconciled may cancel it in every pass (helpers.go:115); of the others  *)
(* nothing is claimed then.                                                *)
(***************************************************************************)
OthersProceed == <>[]Fits(bundle) => <>[](shown = bundle.label)
=============================================================================
