---------------------------- MODULE ExternalSecrets ----------------------------
(***************************************************************************)
(* ReconcileExternalSecret (secrets.go): the ExternalSecret of a bundle    *)
(* lists the remote secrets that its sourced envs and its configs use.  It *)
(* is deleted before it is written anew, so that a change takes two passes *)
(* at least: the Update that follows the Delete finds nothing to update.   *)
(***************************************************************************)
EXTENDS Upserts, FiniteSets

CONSTANTS
  Keys,      \* names of secrets, numbers for their sort order
  Refs,      \* remote secrets
  Configs,   \* keys of a bundle's configs
  Stores     \* secret stores

\* The sourced envs and the configs that need secrets, and SecretStoreRef.
Bundles == [envs    : MapsTo(Keys, Refs),
            configs : MapsTo(Configs, MapsTo(Keys, Refs)),
            store   : Stores \cup {None}]

ExternalSecretSpecs == [data : Seq(Keys \X Refs), store : Stores]

ASSUME ExternalSecretsAssumption ==
  /\ Keys \subseteq Nat
  /\ None \notin Names \cup Stores \cup ExternalSecretSpecs
  /\ Written \subseteq Bundles

VARIABLE
  er  \* what Get answered: "nil", "notFound" or "error"

vars == <<upsertVars, er>>

TypeOK ==
  /\ UpsertTypeOK(Bundles, ExternalSecretSpecs, {"delete", "deleteFirst"})
  /\ er \in {"nil", "notFound", "error"}

-----------------------------------------------------------------------------

\* The configs of b that use the secret k.
UsersOf(k, b) == {c \in DOMAIN b.configs : k \in DOMAIN b.configs[c]}

Needed(b) == DOMAIN b.envs \cup {k \in Keys : UsersOf(k, b) # {}}

\* Orders in which a range over the map of configs may go.
RangeOrders(b) ==
  LET places == 1 .. Cardinality(DOMAIN b.configs)
  IN {place \in [DOMAIN b.configs -> places] : IsInjective(place)}

\* A later config overwrites an earlier one, and every config an env.
SecretsToGet(b, place) ==
  [k \in Needed(b) |->
     IF UsersOf(k, b) = {} THEN b.envs[k]
     ELSE LET last == CHOOSE c \in UsersOf(k, b) :
                        \A d \in UsersOf(k, b) : place[d] <= place[c]
          IN b.configs[last][k]]

(***************************************************************************)
(* What CreateExpectedExternalSecret may return when there are secrets to  *)
(* get.  Without a SecretStoreRef it is an error, and the pass ends there. *)
(***************************************************************************)
CreateExpectedExternalSecret(b) ==
  {[data |-> Sorted(SecretsToGet(b, place)), store |-> b.store] : place \in RangeOrders(b)}

\* A list that goes on where the expected one ends is not seen to differ.
DeepDerivative(expected, current) ==
  /\ current # None
  /\ IsPrefix(expected.data, current.data)
  /\ expected.store = current.store

-----------------------------------------------------------------------------

\* Mutant: whatever is there is replaced.
DiffersAlways(n, current) ==
  /\ Needed(bundle) # {}
  /\ bundle.store # None
  /\ new' \in CreateExpectedExternalSecret(bundle)
  /\ pc' = "deleteFirst"
  /\ at' = n

\* The pass goes on with an expected object that the current one lacks.
Differs(n, current) ==
  /\ Needed(bundle) # {}
  /\ bundle.store # None
  /\ \E expected \in CreateExpectedExternalSecret(bundle) :
       /\ ~DeepDerivative(expected, current)
       /\ new' = expected
  /\ pc' = "deleteFirst"
  /\ at' = n

\* Get, compare, decide.
Reconcile(n) ==
  /\ pc \in Between
  /\ \/ Differs(n, cached[n])
     \/ /\ Needed(bundle) = {} /\ cached[n] # None
        /\ pc' = "delete" /\ at' = n /\ UNCHANGED new
  /\ er' = IF cached[n] = None THEN "notFound" ELSE "nil"
  /\ UNCHANGED <<userVars, apiVars>>

\* The error of a Get is not looked at before the comparison.
ReconcileUnread(n) ==
  /\ pc \in Between
  /\ Fault
  /\ Differs(n, None)
  /\ er' = "error"
  /\ UNCHANGED <<userVars, live, cached, pending, crashes>>

\* What UpsertResource does next, given er.
UpsertStep == CASE er = "nil"      -> "update"
                [] er = "notFound" -> "create"
                [] er = "error"    -> "backoff"

\* Mutant: an object that is not there to delete ends the pass.
DeleteFirstMustSucceed ==
  /\ pc = "deleteFirst"
  /\ Call(live[at] # None, at, None, UpsertStep)
  /\ UNCHANGED <<userVars, cached, crashes, er>>

\* A Delete that answers NotFound is as good as one that succeeds.
DeleteFirst ==
  /\ pc = "deleteFirst"
  /\ \/ Put(at, None) /\ Goto(UpsertStep) /\ UNCHANGED faults
     \/ Fault /\ Put(at, None) /\ Goto("backoff")
     \/ Fault /\ Goto("backoff") /\ UNCHANGED <<live, pending>>
  /\ UNCHANGED <<userVars, cached, crashes, er>>

\* A custom resource is not updated without its resourceVersion.
UpsertResource ==
  /\ Delete("idle") \/ Create("idle") \/ Update(FALSE, "idle")
  /\ UNCHANGED er

ReconcileExternalSecret(n) ==
  Reconcile(n) \/ DeleteFirst \/ UpsertResource

WatchExternalSecret(n) == Watch(n) /\ UNCHANGED er

Init ==
  /\ bundle \in Written
  /\ live = [n \in Names |-> None]
  /\ UpsertInit
  /\ er = "nil"

Next ==
  \/ (Edit \/ \E n \in Names : Drift(n)) /\ UNCHANGED er
  \/ \E n \in Names : WatchExternalSecret(n)
  \/ \E n \in Names : ReconcileExternalSecret(n) \/ ReconcileUnread(n)
  \/ Restart /\ UNCHANGED er

Spec == Init /\ [][Next]_vars

-----------------------------------------------------------------------------
\* What a pass may make of b: nothing comes of needs without a store.
MaySay(b) ==
  IF Needed(b) = {} THEN {None}
  ELSE {expected \in CreateExpectedExternalSecret(b) : b.store # None}

(***************************************************************************)
(* A pass has written the one thing the bundle says, the informer has seen *)
(* it, and no call fails any more: a Get that fails has the object deleted.*)
(***************************************************************************)
Settled ==
  /\ pc \in Between
  /\ faults = MaxFaults
  /\ \A n \in Names : MaySay(bundle) = {live[n]} /\ pending[n] = <<>>

Following == INSTANCE FollowedBundle
  WITH Replacing <- TRUE,
       said      <- {[n \in Names |-> o] : o \in MaySay(bundle)},
       stored    <- live,
       taken     <- IF pc \in Between THEN {} ELSE {[n \in Names |-> new]},
       settled   <- Settled

(***************************************************************************)
(* ReconcileExternalSecret implements FollowedBundle: between the Delete   *)
(* and the pass that creates the object anew lie answers to a Get, errors  *)
(* and edits, and yet what is created is what the pass took the bundle to  *)
(* say; and once that is there, and can be read in one way only, no pass   *)
(* deletes it again to replace it by the same.                             *)
(***************************************************************************)
FollowsBundle == Following!Spec

\* The requeue brings passes back, and the watch delivers.
Fairness == \A n \in Names : WF_vars(ReconcileExternalSecret(n)) /\ WF_vars(WatchExternalSecret(n))

FairSpec == Spec /\ Fairness

\* Everything b needs is there, by a reference that b gives it, and nothing
\* is if b needs nothing.
Provides(current, b) ==
  IF Needed(b) = {} THEN current = None
  ELSE /\ current # None
       /\ current.store = b.store
       /\ \A k \in Needed(b) : \E r \in Refs :
            /\ <<k, r>> \in ToSet(current.data)
            /\ IF UsersOf(k, b) = {} THEN r = b.envs[k]
               ELSE \E c \in UsersOf(k, b) : r = b.configs[c][k]

(***************************************************************************)
(* Once the bundle is left alone, with a store, its ExternalSecret has all *)
(* it needs, although every change deletes it and fails the pass: the pass *)
(* that creates it again comes, whatever the cache says in between.  Where *)
(* two configs differ over a secret it is deleted again and again, and     *)
(* comes back each time.                                                   *)
(***************************************************************************)
EventuallyProvided ==
  PromptWatch /\ <>[](bundle.store # None \/ Needed(bundle) = {})
    => \A n \in Names : []<>Provides(live[n], bundle)

\* No two configs give a secret different references.
Unambiguous(b) ==
  \A k \in Keys : \A c, d \in UsersOf(k, b) : b.configs[c][k] = b.configs[d][k]

(***************************************************************************)
(* "Have to sort keys otherwise get infinite loop of updating"             *)
(* (deployment.go): passes stop to write once the bundle is left alone.    *)
(* The keys that secrets.go does not sort are those of the configs, and    *)
(* passes write for ever if two of these differ over a secret.             *)
(***************************************************************************)
EventuallyQuiet ==
  PromptWatch /\ <>[]Unambiguous(bundle) => <>[][UNCHANGED live]_vars
=============================================================================
