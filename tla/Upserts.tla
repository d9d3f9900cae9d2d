-------------------------------- MODULE Upserts --------------------------------
(***************************************************************************)
(* What the reconcilers of AppBundleReconciler stand on: the objects of    *)
(* one kind on the API server, the informer cache that Get reads, and      *)
(* UpsertResource (helpers.go) as the calls it makes, one step each.       *)
(*                                                                         *)
(* A reconciler extends this module and adds what it compares and deletes. *)
(* It works for one bundle and is one process: the bundle's mutex and the  *)
(* mutex of its own kind let no other pass of the same bundle in.          *)
(***************************************************************************)
EXTENDS Naturals, SequencesExt

CONSTANTS
  Written,    \* the bundles users write
  Names,      \* names of the objects the bundle may own
  None,       \* no object
  MaxEdits,   \* bound on what users do
  MaxLag,     \* bound on the changes the informer has still to see
  MaxFaults,  \* bound on failing calls to the API server
  MaxCrashes  \* bound on restarts of the operator process

ASSUME LagAssumption == MaxLag \in Nat \ {0}

VARIABLES
  bundle,   \* the bundle, as a pass that starts now finds it
  edits,
  live,     \* the API server: name -> object, or None
  cached,   \* the informer cache: name -> object last seen, or None
  pending,  \* name -> the changes the informer has not seen, oldest first
  pc,       \* where the pass is; "idle" or, after an error, "backoff" between
            \* passes
  at,       \* the name it is at, or None
  new,      \* the object it puts there, or None
  faults, crashes

userVars   == <<bundle, edits>>
apiVars    == <<live, cached, pending, faults, crashes>>
passVars   == <<pc, at, new>>
upsertVars == <<userVars, apiVars, passVars>>

\* The maps of Go with some of the keys in K, finitely many, and values in S.
MapsTo(K, S) == UNION {[D -> S] : D \in {D \in SUBSET K : IsFiniteSet(D)}}

Between == {"idle", "backoff"}
UpsertSteps == Between \cup {"create", "update", "recreate",
                               "createAgain"}

UpsertTypeOK(Bundles, Objects, Steps) ==
  /\ bundle \in Bundles
  /\ edits \in Nat
  /\ live \in [Names -> Objects \cup {None}]
  /\ cached \in [Names -> Objects \cup {None}]
  /\ pending \in [Names -> Seq(Objects \cup {None})]
  /\ \A n \in Names : Len(pending[n]) <= MaxLag
  /\ pc \in UpsertSteps \cup Steps
  /\ at \in Names \cup {None}
  /\ new \in Objects \cup {None}
  /\ faults \in Nat /\ crashes \in Nat

UpsertInit ==
  /\ edits = 0
  /\ cached = live
  /\ pending = [n \in Names |-> <<>>]
  /\ pc = "idle"
  /\ at = None
  /\ new = None
  /\ faults = 0 /\ crashes = 0

-----------------------------------------------------------------------------
\* The keys of a map in ascending order; keys are numbers.
getSortedKeys(map) ==
  CHOOSE keys \in [1 .. Cardinality(DOMAIN map) -> DOMAIN map] :
    \A i, j \in DOMAIN keys : i < j => keys[i] < keys[j]

\* The loop over getSortedKeys that makes a list of a map.
Sorted(map) ==
  LET keys == getSortedKeys(map)
  IN [i \in DOMAIN keys |-> <<keys[i], map[keys[i]]>>]

-----------------------------------------------------------------------------
(***************************************************************************)
(* The API server, its users and the informer.                             *)
(***************************************************************************)

\* An informer that falls behind loses the oldest change, never the last.
Lagging(changes) ==
  IF Len(changes) > MaxLag THEN Tail(changes) ELSE changes

\* A write that changes nothing makes no event.
Put(n, o) ==
  /\ live' = [live EXCEPT ![n] = o]
  /\ pending' = IF o = live[n] THEN pending
                ELSE [pending EXCEPT ![n] = Lagging(Append(@, o))]

Watch(n) ==
  /\ pending[n] # <<>>
  /\ cached' = [cached EXCEPT ![n] = Head(pending[n])]
  /\ pending' = [pending EXCEPT ![n] = Tail(@)]
  /\ UNCHANGED <<userVars, live, passVars, faults, crashes>>

UserStep == edits < MaxEdits /\ edits' = edits + 1

Edit ==
  /\ UserStep
  /\ bundle' \in Written \ {bundle}
  /\ UNCHANGED <<apiVars, passVars>>

\* Someone deletes an object: the next passes put it back.
Drift(n) ==
  /\ UserStep
  /\ live[n] # None
  /\ Put(n, None)
  /\ UNCHANGED <<bundle, cached, passVars, faults, crashes>>

Goto(step) ==
  /\ pc' = step
  /\ IF step \in Between THEN at' = None /\ new' = None ELSE UNCHANGED <<at, new>>

Fault ==
  /\ faults < MaxFaults
  /\ faults' = faults + 1

(***************************************************************************)
(* A call that writes o to n where the server takes it.  One that fails    *)
(* may have been carried out: the answer is what is lost.  Every error     *)
(* ends the pass, and whatever way a pass ends, another one follows: after *)
(* ten seconds (RequeueAfter), or after an error when the backoff is over. *)
(***************************************************************************)
Call(taken, n, o, then) ==
  \/ taken /\ Put(n, o) /\ Goto(then) /\ UNCHANGED faults
  \/ ~taken /\ Goto("backoff") /\ UNCHANGED <<live, pending, faults>>
  \/ Fault /\ taken /\ Put(n, o) /\ Goto("backoff")
  \/ Fault /\ Goto("backoff") /\ UNCHANGED <<live, pending>>

-----------------------------------------------------------------------------
(***************************************************************************)
(* UpsertResource, from the decision on the error er of the Get.           *)
(***************************************************************************)

Upsert(n, o, found) ==
  /\ pc' = IF found THEN "update" ELSE "create"
  /\ at' = n
  /\ new' = o

Create(then) ==
  /\ pc = "create"
  /\ Call(live[at] = None, at, new, then)
  /\ UNCHANGED <<userVars, cached, crashes>>

(***************************************************************************)
(* The object carries no resourceVersion, so that the server takes the     *)
(* update whatever version is there, unless it is invalid.                 *)
(***************************************************************************)
Update(valid, then) ==
  /\ pc = "update"
  /\ Call(live[at] # None /\ valid, at, new, then)
  /\ UNCHANGED <<userVars, cached, crashes>>

\* Mutant: whatever the error is, the object is deleted.
UpdateRefusedForAnyReason(selectorImmutable, neverDelete) ==
  /\ pc = "update"
  /\ live[at] # None
  /\ Goto("recreate")
  /\ UNCHANGED <<userVars, apiVars>>

\* ShouldRecreateResource: the error says that the selector is immutable.
UpdateRefused(selectorImmutable, neverDelete) ==
  /\ pc = "update"
  /\ live[at] # None
  /\ selectorImmutable /\ ~neverDelete
  /\ \/ Goto("recreate") /\ UNCHANGED faults
     \/ Fault /\ Goto("backoff")
  /\ UNCHANGED <<userVars, live, cached, pending, crashes>>

DeleteRefused ==
  /\ pc = "recreate"
  /\ Call(live[at] # None, at, None, "createAgain")
  /\ UNCHANGED <<userVars, cached, crashes>>

\* The error of the Update is returned even though the object is there now.
CreateAgain ==
  /\ pc = "createAgain"
  /\ Call(live[at] = None, at, new, "backoff")
  /\ UNCHANGED <<userVars, cached, crashes>>

\* Delete, where a reconciler calls it: an object not there is an error.
Delete(then) ==
  /\ pc = "delete"
  /\ Call(live[at] # None, at, None, then)
  /\ UNCHANGED <<userVars, cached, crashes>>

\* A process that starts has empty memory, and lists what is there.
Restart ==
  /\ crashes < MaxCrashes
  /\ crashes' = crashes + 1
  /\ cached' = live
  /\ pending' = [n \in Names |-> <<>>]
  /\ Goto("idle")
  /\ UNCHANGED <<userVars, live, faults>>

(***************************************************************************)
(* The informer is not ten seconds behind: in the end, when a pass starts  *)
(* that follows a success, it has seen all there is to see.                *)
(***************************************************************************)
PromptWatch ==
  <>[][pc = "idle" /\ pc' # "idle" => \A n \in Names : pending[n] = <<>>]_upsertVars
=============================================================================
