-------------------------- MODULE ControllersProofs --------------------------
(***************************************************************************)
(* Proofs of the safety properties of Controllers, and that Controllers    *)
(* implements OrderedRollouts, for every set of bundles, bases, workers    *)
(* and mutexes and every bound; then of what BaseResolution computes, for  *)
(* chains of any length and maps with any keys.                            *)
(***************************************************************************)
EXTENDS Controllers, BaseResolution, TLAPS

USE DEF Keys, Workers

BeforeGet      == {"idle", "lock", "get"}
BeforeRegister == BeforeGet \cup {"register"}
AtChild        == {"childLock", "child", "status"}

\* What a worker's label says of its local variables and of its entry.
LocalOK(w) ==
  /\ pc[w] = "idle" <=> key[w] = None
  /\ w \in BundleWorkers => key[w] \in Bundles \cup {None}
  /\ w \in BaseWorkers => key[w] \in Bases \cup {None}
  /\ pc[w] \notin BeforeGet => obj[w] \in Objects
  /\ pc[w] \notin BeforeRegister => State[key[w]] \in Entries
  /\ pc[w] = "base" => follow[w] \in Bases
  /\ pc[w] \in AtChild => child[w] \in todo[w]

LocalsOK == \A w \in Workers : LocalOK(w)

\* The work queue gives no key to two workers.
KeysUnique ==
  \A v, w \in Workers : key[v] = key[w] /\ key[w] # None => v = w

IInv == TypeOK /\ LocalsOK /\ KeysUnique /\ NoLeakedLock

-----------------------------------------------------------------------------
\* In the initial states the inductive invariant holds.
LEMMA InitIInv == Init => IInv
<1> SUFFICES ASSUME Init PROVE IInv
  OBVIOUS
<1> USE KindsAssumption, MutexAssumption, BoundsAssumption DEF Init, EveryWorker
<1>1. cluster \in [Keys -> Objects \cup {None}]
  BY DEF Objects
<1>2. TypeOK
  BY <1>1 DEF TypeOK, CommonSteps, BundleSteps, BaseSteps
<1>3. LocalsOK
  BY DEF LocalsOK, LocalOK, BeforeGet, BeforeRegister, AtChild
<1>4. KeysUnique
  BY DEF KeysUnique
<1>5. NoLeakedLock
  BY DEF NoLeakedLock, Held, HoldsOwn, HoldsChild
<1> QED BY <1>2, <1>3, <1>4, <1>5 DEF IInv

-----------------------------------------------------------------------------
\* The chosen version of an object is a natural number, and so on for a list.
LEMMA ChildrenType ==
  ASSUME TypeOK, NEW a
  PROVE  Children(a) \subseteq Bundles \X Nat
  BY DEF TypeOK, Objects, Children

\* Returning keeps the types of what it assigns.
LEMMA ReturnType ==
  ASSUME TypeOK, LocalsOK, NEW w \in Workers, NEW held, pc[w] # "idle",
         Return(w, held), UNCHANGED <<cluster, cached, State>>,
         applied' \in [Bundles -> Rollouts \cup {None}],
         writes' \in Nat, faults' \in Nat, crashes' \in Nat
  PROVE  TypeOK'
<1> USE DEF TypeOK, Return
<1>1. key[w] \in Keys
  BY DEF LocalsOK, LocalOK
<1>2. queue' \subseteq Keys
  BY <1>1
<1>3. mutex' \in [Mutexes -> Workers \cup {None}]
  OBVIOUS
<1>4. /\ pc' \in [Workers -> BundleSteps \cup BaseSteps]
      /\ \A v \in BundleWorkers : pc'[v] \in BundleSteps
      /\ \A v \in BaseWorkers : pc'[v] \in BaseSteps
  BY DEF BundleSteps, BaseSteps, CommonSteps
<1>5. /\ key' \in [Workers -> Keys \cup {None}]
      /\ obj' \in [Workers -> Objects \cup {None}]
      /\ known' \in [Workers -> BOOLEAN]
      /\ follow' \in [Workers -> Bases \cup {None}]
      /\ merged' \in [Workers -> SUBSET (Bases \X Nat)]
      /\ listed' \in [Workers -> SUBSET (Bundles \X Nat)]
      /\ todo' \in [Workers -> SUBSET (Bundles \X Nat)]
      /\ child' \in [Workers -> (Bundles \X Nat) \cup {None}]
  OBVIOUS
<1> QED BY <1>2, <1>3, <1>4, <1>5

LEMMA TypeStep == TypeOK /\ LocalsOK /\ [Next]_vars => TypeOK'
<1> SUFFICES ASSUME TypeOK, LocalsOK, [Next]_vars PROVE TypeOK'
  OBVIOUS
<1> USE DEF Step, Fault, bounds, localVars
<1>1. ASSUME NEW k \in Keys, UserWrite(k) PROVE TypeOK'
  BY <1>1, BoundsAssumption DEF UserWrite, TypeOK, Objects
<1>2. ASSUME NEW k \in Keys, UserDelete(k) PROVE TypeOK'
  BY <1>2 DEF UserDelete, TypeOK
<1>3. ASSUME NEW k \in Keys, Watch(k) PROVE TypeOK'
  BY <1>3 DEF Watch, TypeOK
<1>4. ASSUME NEW w \in Workers, NEW k \in Keys, Dequeue(w, k) PROVE TypeOK'
  BY <1>4 DEF Dequeue, TypeOK, BundleSteps, BaseSteps, CommonSteps
<1>5. ASSUME Restart PROVE TypeOK'
  BY <1>5 DEF Restart, EveryWorker, TypeOK, BundleSteps, BaseSteps, CommonSteps
<1>6. ASSUME NEW w \in Workers, Prologue(w) PROVE TypeOK'
  <2>1. CASE Lock(w)
    BY <2>1 DEF Lock, TypeOK, BundleSteps, BaseSteps, CommonSteps
  <2>2. CASE Get(w)
    BY <2>2 DEF Get, TypeOK, LocalsOK, LocalOK, BundleSteps, BaseSteps, CommonSteps
  <2>3. CASE GetFails(w)
    BY <2>3, ReturnType DEF GetFails, TypeOK
  <2>4. CASE RegisterStateIfNotAlreadyRegistered(w)
    <3>1. NewEntry(obj[w]) \in Entries
      BY <2>4 DEF RegisterStateIfNotAlreadyRegistered, LocalsOK, LocalOK,
                  BeforeGet, NewEntry, Epoch, GetSpecHash, Entries, Hashes, Objects
    <3> QED
      BY <2>4, <3>1 DEF RegisterStateIfNotAlreadyRegistered, TypeOK, LocalsOK,
                        LocalOK, BundleSteps, BaseSteps, CommonSteps
  <2>5. CASE Check(w)
    <3>1. PICK now \in Clock : Check(w)!2!(now)
      BY <2>5 DEF Check
    <3>2. CASE NeedsUpdating(w, now)
      BY <2>5, <3>1, <3>2, KindsAssumption
      DEF Check, TypeOK, LocalsOK, LocalOK, BeforeGet, Objects,
          BundleSteps, BaseSteps, CommonSteps
    <3>3. CASE ~NeedsUpdating(w, now)
      BY <2>5, <3>1, <3>3, ReturnType DEF Check, TypeOK
    <3> QED BY <3>2, <3>3
  <2> QED BY <1>6, <2>1, <2>2, <2>3, <2>4, <2>5 DEF Prologue
<1>7. ASSUME NEW w \in BundleWorkers, ReconcileBundle(w) PROVE TypeOK'
  <2>1. CASE MergeBase(w)
    BY <2>1 DEF MergeBase, TypeOK, LocalsOK, LocalOK, Objects,
                BundleSteps, BaseSteps, CommonSteps
  <2>2. CASE ResolveFails(w)
    BY <2>2, ReturnType DEF ResolveFails, TypeOK
  <2>3. CASE NestedGetFails(w)
    BY <2>3 DEF NestedGetFails, TypeOK, BundleSteps, BaseSteps, CommonSteps
  <2>4. CASE RunReconciles(w)
    <3>1. [obj |-> obj[w], merged |-> merged[w]] \in Rollouts
      BY <2>4 DEF RunReconciles, TypeOK, LocalsOK, LocalOK, BeforeGet, Rollouts
    <3>2. applied' \in [Bundles -> Rollouts \cup {None}]
      BY <2>4, <3>1 DEF RunReconciles, TypeOK
    <3> QED
      BY <2>4, <3>2, ReturnType DEF RunReconciles, TypeOK
  <2> QED BY <1>6, <1>7, <2>1, <2>2, <2>3, <2>4 DEF ReconcileBundle
<1>8. ASSUME NEW w \in BaseWorkers, ReconcileBase(w) PROVE TypeOK'
  <2>1. CASE List(w)
    BY <2>1, ChildrenType DEF List, TypeOK, BundleSteps, BaseSteps, CommonSteps
  <2>2. CASE ListFails(w)
    BY <2>2, ReturnType DEF ListFails, TypeOK
  <2>3. CASE NextChild(w)
    BY <2>3, KindsAssumption DEF NextChild, TypeOK, BundleSteps, BaseSteps, CommonSteps
  <2>4. CASE LockChild(w)
    BY <2>4, KindsAssumption DEF LockChild, TypeOK, BundleSteps, BaseSteps, CommonSteps
  <2>5. CASE ResetHash(w)
    <3> DEFINE b == child[w][1]
    <3>1. b \in Bundles /\ State[b] \in Entries
      BY <2>5 DEF ResetHash, TypeOK, LocalsOK, LocalOK, AtChild
    <3>2. [State[b] EXCEPT !.hash = NoHash] \in Entries
      BY <3>1 DEF Entries, Hashes
    <3>3. State' = [State EXCEPT ![b] = [State[b] EXCEPT !.hash = NoHash]]
      BY <2>5 DEF ResetHash
    <3>4. State' \in [Keys -> Entries \cup {None}]
      BY <3>1, <3>2, <3>3 DEF TypeOK
    <3> QED
      BY <2>5, <3>4 DEF ResetHash, TypeOK, BundleSteps, BaseSteps, CommonSteps
  <2>6. CASE ChildNotRegistered(w)
    BY <2>6, ReturnType DEF ChildNotRegistered, TypeOK
  <2>7. CASE StatusUpdate(w)
    BY <2>7, KindsAssumption DEF StatusUpdate, TypeOK, BundleSteps, BaseSteps, CommonSteps
  <2>8. CASE StatusUpdateFails(w)
    BY <2>8, ReturnType DEF StatusUpdateFails, TypeOK
  <2>9. CASE ListDone(w)
    BY <2>9, ReturnType DEF ListDone, TypeOK
  <2> QED
    BY <1>6, <1>8, <2>1, <2>2, <2>3, <2>4, <2>5, <2>6, <2>7, <2>8, <2>9
    DEF ReconcileBase
<1>9. CASE UNCHANGED vars
  BY <1>9 DEF vars, TypeOK
<1> QED
  BY <1>1, <1>2, <1>3, <1>4, <1>5, <1>7, <1>8, <1>9 DEF Next, User

-----------------------------------------------------------------------------
LEMMA ReturnLocals ==
  ASSUME TypeOK, LocalsOK, NEW w \in Workers, NEW held,
         Return(w, held), UNCHANGED State
  PROVE  LocalsOK'
  BY KindsAssumption DEF TypeOK, LocalsOK, LocalOK, Return,
     BeforeGet, BeforeRegister, AtChild

LEMMA LocalsStep == TypeOK /\ LocalsOK /\ [Next]_vars => LocalsOK'
<1> SUFFICES ASSUME TypeOK, LocalsOK, [Next]_vars PROVE LocalsOK'
  OBVIOUS
<1> USE KindsAssumption
    DEF Step, bounds, localVars, LocalsOK, LocalOK, BeforeGet, BeforeRegister, AtChild
<1>1. ASSUME NEW k \in Keys, UserWrite(k) PROVE LocalsOK'
  BY <1>1 DEF UserWrite
<1>2. ASSUME NEW k \in Keys, UserDelete(k) PROVE LocalsOK'
  BY <1>2 DEF UserDelete
<1>3. ASSUME NEW k \in Keys, Watch(k) PROVE LocalsOK'
  BY <1>3 DEF Watch
<1>4. ASSUME NEW w \in Workers, NEW k \in Keys, Dequeue(w, k) PROVE LocalsOK'
  BY <1>4 DEF Dequeue, TypeOK, Serves
<1>5. ASSUME Restart PROVE LocalsOK'
  BY <1>5 DEF Restart, EveryWorker
<1>6. ASSUME NEW w \in Workers, Prologue(w) PROVE LocalsOK'
  <2>1. CASE Lock(w)
    BY <2>1 DEF Lock, TypeOK
  <2>2. CASE Get(w)
    BY <2>2 DEF Get, TypeOK
  <2>3. CASE GetFails(w)
    BY <2>3, ReturnLocals DEF GetFails
  <2>4. CASE RegisterStateIfNotAlreadyRegistered(w)
    <3>1. NewEntry(obj[w]) \in Entries
      BY <2>4 DEF RegisterStateIfNotAlreadyRegistered,
                  NewEntry, Epoch, GetSpecHash, Entries, Hashes, Objects
    <3>2. key[w] \in Keys
      BY <2>4 DEF RegisterStateIfNotAlreadyRegistered
    <3>3. \A k \in Keys : State[k] \in Entries => State'[k] \in Entries
      BY <2>4, <3>1 DEF RegisterStateIfNotAlreadyRegistered, TypeOK
    <3>4. State'[key[w]] \in Entries
      BY <2>4, <3>1, <3>2 DEF RegisterStateIfNotAlreadyRegistered, TypeOK
    <3> QED
      BY <2>4, <3>3, <3>4 DEF RegisterStateIfNotAlreadyRegistered, TypeOK
  <2>5. CASE Check(w)
    <3>1. PICK now \in Clock : Check(w)!2!(now)
      BY <2>5 DEF Check
    <3>2. CASE NeedsUpdating(w, now)
      BY <2>5, <3>1, <3>2 DEF Check, TypeOK, Objects
    <3>3. CASE ~NeedsUpdating(w, now)
      BY <2>5, <3>1, <3>3, ReturnLocals DEF Check
    <3> QED BY <3>2, <3>3
  <2> QED BY <1>6, <2>1, <2>2, <2>3, <2>4, <2>5 DEF Prologue
<1>7. ASSUME NEW w \in BundleWorkers, ReconcileBundle(w) PROVE LocalsOK'
  <2>1. CASE MergeBase(w)
    BY <2>1 DEF MergeBase, TypeOK, Objects
  <2>2. CASE ResolveFails(w)
    BY <2>2, ReturnLocals DEF ResolveFails
  <2>3. CASE NestedGetFails(w)
    BY <2>3 DEF NestedGetFails, TypeOK
  <2>4. CASE RunReconciles(w)
    BY <2>4, ReturnLocals DEF RunReconciles
  <2> QED BY <1>6, <1>7, <2>1, <2>2, <2>3, <2>4 DEF ReconcileBundle
<1>8. ASSUME NEW w \in BaseWorkers, ReconcileBase(w) PROVE LocalsOK'
  <2>1. CASE List(w)
    BY <2>1 DEF List, TypeOK
  <2>2. CASE ListFails(w)
    BY <2>2, ReturnLocals DEF ListFails
  <2>3. CASE NextChild(w)
    BY <2>3 DEF NextChild, TypeOK
  <2>4. CASE LockChild(w)
    BY <2>4 DEF LockChild, TypeOK
  <2>5. CASE ResetHash(w)
    <3> DEFINE b == child[w][1]
    <3>1. b \in Bundles /\ State[b] \in Entries
      BY <2>5 DEF ResetHash, TypeOK
    <3>2. [State[b] EXCEPT !.hash = NoHash] \in Entries
      BY <3>1 DEF Entries, Hashes
    <3>3. \A k \in Keys : State[k] \in Entries => State'[k] \in Entries
      BY <2>5, <3>1, <3>2 DEF ResetHash, TypeOK
    <3> QED
      BY <2>5, <3>3 DEF ResetHash, TypeOK
  <2>6. CASE ChildNotRegistered(w)
    BY <2>6, ReturnLocals DEF ChildNotRegistered
  <2>7. CASE StatusUpdate(w)
    BY <2>7 DEF StatusUpdate, TypeOK
  <2>8. CASE StatusUpdateFails(w)
    BY <2>8, ReturnLocals DEF StatusUpdateFails
  <2>9. CASE ListDone(w)
    BY <2>9, ReturnLocals DEF ListDone
  <2> QED
    BY <1>6, <1>8, <2>1, <2>2, <2>3, <2>4, <2>5, <2>6, <2>7, <2>8, <2>9
    DEF ReconcileBase
<1>9. CASE UNCHANGED vars
  BY <1>9 DEF vars
<1> QED
  BY <1>1, <1>2, <1>3, <1>4, <1>5, <1>7, <1>8, <1>9 DEF Next, User

-----------------------------------------------------------------------------
(***************************************************************************)
(* A step gives a worker a key only out of the queue, to an idle worker,   *)
(* when no worker has it.                                                  *)
(***************************************************************************)
LEMMA KeyStep ==
  ASSUME TypeOK, [Next]_vars
  PROVE  \/ UNCHANGED key
         \/ \E w \in Workers : key' = [key EXCEPT ![w] = None]
         \/ key' = [w \in Workers |-> None]
         \/ \E w \in Workers, k \in Keys : /\ key' = [key EXCEPT ![w] = k]
                                          /\ \A v \in Workers : key[v] # k
<1> USE DEF Step, bounds, localVars
<1>1. ASSUME NEW k \in Keys, UserWrite(k) \/ UserDelete(k) \/ Watch(k)
      PROVE  UNCHANGED key
  BY <1>1 DEF UserWrite, UserDelete, Watch
<1>2. ASSUME NEW w \in Workers, NEW k \in Keys, Dequeue(w, k)
      PROVE  key' = [key EXCEPT ![w] = k] /\ \A v \in Workers : key[v] # k
  BY <1>2 DEF Dequeue
<1>3. ASSUME Restart PROVE key' = [w \in Workers |-> None]
  BY <1>3 DEF Restart, EveryWorker
<1>4. ASSUME NEW w \in Workers, ReconcileBundle(w) \/ ReconcileBase(w)
      PROVE  UNCHANGED key \/ key' = [key EXCEPT ![w] = None]
  BY <1>4 DEF ReconcileBundle, ReconcileBase, Prologue, Lock, Get, GetFails,
     RegisterStateIfNotAlreadyRegistered, Check, MergeBase, ResolveFails,
     NestedGetFails, RunReconciles, List, ListFails, NextChild, LockChild,
     ResetHash, ChildNotRegistered, StatusUpdate, StatusUpdateFails, ListDone,
     Return
<1>5. CASE UNCHANGED vars
  BY <1>5 DEF vars
<1> QED
  BY <1>1, <1>2, <1>3, <1>4, <1>5 DEF Next, User

LEMMA KeysUniqueStep == TypeOK /\ KeysUnique /\ [Next]_vars => KeysUnique'
  BY KeyStep, KindsAssumption DEF TypeOK, KeysUnique

-----------------------------------------------------------------------------
\* A step that changes neither mutexes nor what the labels hold is harmless.
LEMMA SameLocks ==
  ASSUME NoLeakedLock, UNCHANGED mutex, \A w \in Workers : Held(w)' = Held(w)
  PROVE  NoLeakedLock'
  BY DEF NoLeakedLock

\* Returning with all that is held released.
LEMMA ReturnLocks ==
  ASSUME TypeOK, NoLeakedLock, NEW w \in Workers, Return(w, Held(w))
  PROVE  NoLeakedLock'
<1>1. Held(w)' = {}
  BY DEF Return, Held, HoldsOwn, HoldsChild, TypeOK
<1>2. \A v \in Workers : v # w => Held(v)' = Held(v)
  BY DEF Return, Held, HoldsOwn, HoldsChild, ChildMutex, TypeOK
<1>3. \A m \in Mutexes : mutex'[m] = IF m \in Held(w) THEN None ELSE mutex[m]
  BY DEF Return
<1>4. \A m \in Mutexes, v \in Workers : m \in Held(w) /\ m \in Held(v) => v = w
  BY DEF NoLeakedLock
<1> QED
  BY <1>1, <1>2, <1>3, <1>4, KindsAssumption DEF NoLeakedLock

\* What a pass holds between its own Lock and that of a bundle, and after.
LEMMA HeldOwn ==
  ASSUME TypeOK, LocalsOK, NEW w \in Workers, HoldsOwn(w), ~HoldsChild(w)
  PROVE  Held(w) = Own(w)
  BY MutexAssumption DEF TypeOK, LocalsOK, LocalOK, Held, HoldsOwn, Own

LEMMA HeldChild ==
  ASSUME TypeOK, LocalsOK, NEW w \in BaseWorkers, HoldsChild(w)
  PROVE  /\ Held(w) = Own(w) \cup {ChildMutex(w)}
         /\ ChildMutex(w) \in Mutexes \ Own(w)
<1>1. child[w] \in Bundles \X Nat /\ key[w] \in Bases
  BY DEF TypeOK, LocalsOK, LocalOK, HoldsChild, AtChild
<1> QED
  BY <1>1, MutexAssumption DEF Held, HoldsOwn, HoldsChild, Own, ChildMutex

LEMMA LocksStep == TypeOK /\ LocalsOK /\ NoLeakedLock /\ [Next]_vars => NoLeakedLock'
<1> SUFFICES ASSUME TypeOK, LocalsOK, NoLeakedLock, [Next]_vars
             PROVE  NoLeakedLock'
  OBVIOUS
<1> USE DEF Step, bounds, localVars
<1>1. ASSUME NEW k \in Keys, UserWrite(k) \/ UserDelete(k) \/ Watch(k)
      PROVE  NoLeakedLock'
  BY <1>1, SameLocks DEF UserWrite, UserDelete, Watch, Held, HoldsOwn, HoldsChild, ChildMutex
<1>2. ASSUME NEW w \in Workers, NEW k \in Keys, Dequeue(w, k) PROVE NoLeakedLock'
  BY <1>2, SameLocks DEF Dequeue, TypeOK, Held, HoldsOwn, HoldsChild, ChildMutex
<1>3. ASSUME Restart PROVE NoLeakedLock'
  BY <1>3, KindsAssumption DEF Restart, EveryWorker, NoLeakedLock, Held, HoldsOwn, HoldsChild
<1>4. ASSUME NEW w \in Workers, Prologue(w) PROVE NoLeakedLock'
  <2>1. CASE Lock(w)
    BY <2>1, KindsAssumption
    DEF Lock, TypeOK, NoLeakedLock, Held, HoldsOwn, HoldsChild, ChildMutex
  <2>2. CASE Get(w)
    BY <2>2, SameLocks DEF Get, TypeOK, Held, HoldsOwn, HoldsChild, ChildMutex
  <2>3. CASE GetFails(w)
    BY <2>3, HeldOwn, ReturnLocks DEF GetFails, HoldsOwn, HoldsChild
  <2>4. CASE RegisterStateIfNotAlreadyRegistered(w)
    BY <2>4, SameLocks
    DEF RegisterStateIfNotAlreadyRegistered, TypeOK, Held, HoldsOwn, HoldsChild, ChildMutex
  <2>5. CASE Check(w)
    <3>1. PICK now \in Clock : Check(w)!2!(now)
      BY <2>5 DEF Check
    <3>2. CASE NeedsUpdating(w, now)
      BY <2>5, <3>1, <3>2, SameLocks
      DEF Check, TypeOK, Held, HoldsOwn, HoldsChild, ChildMutex
    <3>3. CASE ~NeedsUpdating(w, now)
      BY <2>5, <3>1, <3>3, HeldOwn, ReturnLocks DEF Check, HoldsOwn, HoldsChild
    <3> QED BY <3>2, <3>3
  <2> QED BY <1>4, <2>1, <2>2, <2>3, <2>4, <2>5 DEF Prologue
<1>5. ASSUME NEW w \in BundleWorkers, ReconcileBundle(w) PROVE NoLeakedLock'
  <2>1. CASE MergeBase(w)
    BY <2>1, SameLocks DEF MergeBase, TypeOK, Held, HoldsOwn, HoldsChild, ChildMutex
  <2>2. CASE ResolveFails(w)
    BY <2>2, HeldOwn, ReturnLocks DEF ResolveFails, HoldsOwn, HoldsChild
  <2>3. CASE NestedGetFails(w)
    BY <2>3, SameLocks
    DEF NestedGetFails, TypeOK, Held, HoldsOwn, HoldsChild, ChildMutex
  <2>4. CASE RunReconciles(w)
    BY <2>4, HeldOwn, ReturnLocks DEF RunReconciles, HoldsOwn, HoldsChild
  <2> QED BY <1>4, <1>5, <2>1, <2>2, <2>3, <2>4 DEF ReconcileBundle
<1>6. ASSUME NEW w \in BaseWorkers, ReconcileBase(w) PROVE NoLeakedLock'
  <2>1. CASE List(w)
    BY <2>1, SameLocks DEF List, TypeOK, Held, HoldsOwn, HoldsChild, ChildMutex
  <2>2. CASE ListFails(w)
    BY <2>2, HeldOwn, ReturnLocks DEF ListFails, HoldsOwn, HoldsChild
  <2>3. CASE NextChild(w)
    BY <2>3, SameLocks DEF NextChild, TypeOK, Held, HoldsOwn, HoldsChild, ChildMutex
  <2>4. CASE LockChild(w)
    BY <2>4, KindsAssumption
    DEF LockChild, TypeOK, NoLeakedLock, Held, HoldsOwn, HoldsChild, ChildMutex
  <2>5. CASE ResetHash(w)
    BY <2>5, SameLocks DEF ResetHash, TypeOK, Held, HoldsOwn, HoldsChild, ChildMutex
  <2>6. CASE ChildNotRegistered(w)
    BY <2>6, HeldChild, ReturnLocks DEF ChildNotRegistered, HoldsOwn, HoldsChild
  <2>7. CASE StatusUpdate(w)
    <3>1. Held(w) = Own(w) \cup {ChildMutex(w)} /\ ChildMutex(w) \in Mutexes \ Own(w)
      BY <2>7, HeldChild DEF StatusUpdate, HoldsChild
    <3>2. Held(w)' = Own(w)
      BY <2>7, <3>1 DEF StatusUpdate, TypeOK, Held, HoldsOwn, HoldsChild, Own
    <3>3. \A v \in Workers : v # w => Held(v)' = Held(v)
      BY <2>7 DEF StatusUpdate, TypeOK, Held, HoldsOwn, HoldsChild, ChildMutex
    <3>4. mutex' = [mutex EXCEPT ![ChildMutex(w)] = None]
      BY <2>7 DEF StatusUpdate
    <3> QED
      BY <3>1, <3>2, <3>3, <3>4, KindsAssumption DEF TypeOK, NoLeakedLock
  <2>8. CASE StatusUpdateFails(w)
    BY <2>8, HeldChild, ReturnLocks DEF StatusUpdateFails, HoldsOwn, HoldsChild
  <2>9. CASE ListDone(w)
    BY <2>9, HeldOwn, ReturnLocks DEF ListDone, HoldsOwn, HoldsChild
  <2> QED
    BY <1>4, <1>6, <2>1, <2>2, <2>3, <2>4, <2>5, <2>6, <2>7, <2>8, <2>9
    DEF ReconcileBase
<1>7. CASE UNCHANGED vars
  BY <1>7, SameLocks DEF vars, Held, HoldsOwn, HoldsChild, ChildMutex
<1> QED
  BY <1>1, <1>2, <1>3, <1>5, <1>6, <1>7 DEF Next, User

-----------------------------------------------------------------------------
THEOREM Invariance == Spec => []IInv
<1>1. Init => IInv
  BY InitIInv
<1>2. IInv /\ [Next]_vars => IInv'
  BY TypeStep, LocalsStep, KeysUniqueStep, LocksStep DEF IInv
<1> QED BY <1>1, <1>2, PTL DEF Spec

\* Every variable keeps its type, in every instance.
THEOREM TypeCorrect == Spec => []TypeOK
<1>1. IInv => TypeOK
  BY DEF IInv
<1> QED BY <1>1, Invariance, PTL

\* No path through either Reconcile function, of an error or not, leaves a
\* mutex of getMutex locked behind it or unlocks one it does not hold.
THEOREM LocksNeverLeak == Spec => []NoLeakedLock
<1>1. IInv => NoLeakedLock
  BY DEF IInv
<1> QED BY <1>1, Invariance, PTL

-----------------------------------------------------------------------------
\* The bundle's mutex is held by whoever reads or writes its entry.
LEMMA AccessHolds ==
  ASSUME IInv, NEW k \in Keys, NEW w \in Workers, ReadsHash(w, k) \/ WritesHash(w, k)
  PROVE  mutex[MutexOf[k]] = w
  BY MutexAssumption
  DEF IInv, NoLeakedLock, Held, HoldsOwn, HoldsChild, ChildMutex, ReadsHash, WritesHash

\* The pointer that GetState hands out of StateMutex is never used by two
\* goroutines at once with one of them writing.
THEOREM SpecHashSafe == Spec => []SpecHashNeverRaced
<1>1. IInv => SpecHashNeverRaced
  BY AccessHolds DEF SpecHashNeverRaced
<1> QED BY <1>1, Invariance, PTL

\* No set of workers can wait for each other's mutexes, although the base
\* controller takes a second mutex while it holds its own.
THEOREM NoCircularWait == Spec => []NobodyWaitsForAWaiter
<1>1. IInv => NobodyWaitsForAWaiter
  <2> SUFFICES ASSUME IInv, NEW m \in Mutexes, NEW n \in Mutexes,
                      NEW v \in Workers, NEW w \in Workers,
                      WaitsFor(w, m), mutex[m] = v, WaitsFor(v, n)
               PROVE  FALSE
    BY DEF NobodyWaitsForAWaiter
  <2>1. m \in Held(v)
    BY DEF IInv, NoLeakedLock
  <2>2. pc[v] = "childLock" /\ m = MutexOf[key[v]]
    BY <2>1 DEF WaitsFor, Held, HoldsOwn, HoldsChild
  <2>3. v \in BaseWorkers /\ key[v] \in Bases
    BY <2>2 DEF IInv, TypeOK, LocalsOK, LocalOK, BundleSteps, CommonSteps
  <2>4. CASE pc[w] = "lock" /\ m = MutexOf[key[w]]
    <3>1. key[w] \in Bundles \cup Bases
      BY <2>4 DEF IInv, LocalsOK, LocalOK
    <3>2. key[w] = key[v]
      BY <2>2, <2>3, <2>4, <3>1, MutexAssumption
    <3>3. w = v
      BY <3>1, <3>2, KindsAssumption DEF IInv, KeysUnique
    <3> QED BY <2>2, <2>4, <3>3
  <2>5. CASE pc[w] = "childLock" /\ m = ChildMutex(w)
    <3>1. child[w][1] \in Bundles
      BY <2>5 DEF IInv, TypeOK, LocalsOK, LocalOK, AtChild
    <3> QED BY <2>2, <2>3, <2>5, <3>1, MutexAssumption DEF ChildMutex
  <2> QED BY <2>4, <2>5 DEF WaitsFor
<1> QED BY <1>1, Invariance, PTL

-----------------------------------------------------------------------------
\* Whatever a step does to a worker's key, it queues what the worker drops.
LEMMA ForgottenStep == IInv /\ NeverForgotten /\ [Next]_vars => NeverForgotten'
<1> SUFFICES ASSUME IInv, NeverForgotten, [Next]_vars PROVE NeverForgotten'
  OBVIOUS
<1> USE DEF Step, bounds, localVars, NeverForgotten
<1>1. ASSUME NEW k \in Keys, UserWrite(k) \/ UserDelete(k) PROVE NeverForgotten'
  BY <1>1 DEF UserWrite, UserDelete
<1>2. ASSUME NEW k \in Keys, Watch(k) PROVE NeverForgotten'
  BY <1>2 DEF Watch, IInv, TypeOK
<1>3. ASSUME NEW w \in Workers, NEW k \in Keys, Dequeue(w, k) PROVE NeverForgotten'
  BY <1>3, KindsAssumption DEF Dequeue, IInv, TypeOK, LocalsOK, LocalOK
<1>4. ASSUME Restart PROVE NeverForgotten'
  BY <1>4 DEF Restart
<1>5. ASSUME NEW w \in Workers, ReconcileBundle(w) \/ ReconcileBase(w)
      PROVE  NeverForgotten'
  <2>1. UNCHANGED cached
    BY <1>5 DEF ReconcileBundle, ReconcileBase, Prologue, Lock, Get, GetFails,
       RegisterStateIfNotAlreadyRegistered, Check, MergeBase, ResolveFails,
       NestedGetFails, RunReconciles, List, ListFails, NextChild, LockChild,
       ResetHash, ChildNotRegistered, StatusUpdate, StatusUpdateFails, ListDone
  <2>2. \/ UNCHANGED <<queue, key>>
        \/ queue' = queue \cup {key[w]} /\ key' = [key EXCEPT ![w] = None]
    BY <1>5 DEF ReconcileBundle, ReconcileBase, Prologue, Lock, Get, GetFails,
       RegisterStateIfNotAlreadyRegistered, Check, MergeBase, ResolveFails,
       NestedGetFails, RunReconciles, List, ListFails, NextChild, LockChild,
       ResetHash, ChildNotRegistered, StatusUpdate, StatusUpdateFails, ListDone,
       Return
  <2> QED BY <2>1, <2>2 DEF IInv, TypeOK
<1>6. CASE UNCHANGED vars
  BY <1>6 DEF vars
<1> QED
  BY <1>1, <1>2, <1>3, <1>4, <1>5, <1>6 DEF Next, User

\* Every object an informer has seen is in a queue or in a worker's hand.
THEOREM NothingForgotten == Spec => []NeverForgotten
<1>1. Init => NeverForgotten
  BY DEF Init, NeverForgotten
<1> QED BY <1>1, ForgottenStep, Invariance, PTL DEF Spec

-----------------------------------------------------------------------------
Reset(k) == State[k] # None /\ State[k].hash = NoHash

\* Nothing but a restart, which ends every pass, undoes a reset.
LEMMA ResetKept ==
  ASSUME IInv, Next, ~Restart, NEW k \in Keys, Reset(k)
  PROVE  Reset(k)'
<1> USE DEF Step, bounds, localVars, Reset
<1>1. ASSUME NEW j \in Keys, UserWrite(j) \/ UserDelete(j) \/ Watch(j)
      PROVE  UNCHANGED State
  BY <1>1 DEF UserWrite, UserDelete, Watch
<1>2. ASSUME NEW w \in Workers, NEW j \in Keys, Dequeue(w, j)
      PROVE  UNCHANGED State
  BY <1>2 DEF Dequeue
<1>3. ASSUME NEW w \in Workers, ReconcileBundle(w) \/ ReconcileBase(w)
      PROVE  \/ UNCHANGED State
             \/ RegisterStateIfNotAlreadyRegistered(w)
             \/ ResetHash(w) /\ w \in Workers
  BY <1>3 DEF ReconcileBundle, ReconcileBase, Prologue, Lock, Get, GetFails,
     Check, MergeBase, ResolveFails, NestedGetFails, RunReconciles, List,
     ListFails, NextChild, LockChild, ChildNotRegistered, StatusUpdate,
     StatusUpdateFails, ListDone
<1>4. ASSUME NEW w \in Workers, RegisterStateIfNotAlreadyRegistered(w)
      PROVE  Reset(k)'
  BY <1>4 DEF RegisterStateIfNotAlreadyRegistered, IInv, TypeOK
<1>5. ASSUME NEW w \in Workers, ResetHash(w)
      PROVE  Reset(k)'
  <2>1. State[k] \in Entries
    BY DEF IInv, TypeOK
  <2>2. [State[k] EXCEPT !.hash = NoHash] \in Entries
    BY <2>1 DEF Entries, Hashes
  <2>3. State' = [State EXCEPT ![child[w][1]] = [@ EXCEPT !.hash = NoHash]]
    BY <1>5 DEF ResetHash
  <2> QED BY <2>1, <2>2, <2>3, KindsAssumption DEF IInv, TypeOK, Entries
<1> QED
  BY <1>1, <1>2, <1>3, <1>4, <1>5 DEF Next, User

\* What a step may do to the list of a base's pass and to its place in it.
LEMMA ListStep ==
  ASSUME IInv, Next, ~Restart, NEW w \in BaseWorkers
  PROVE  \/ UNCHANGED <<listed[w], todo[w]>> /\ pc'[w] # "status"
         \/ UNCHANGED <<listed[w], todo[w], child[w], pc[w]>>
         \/ listed'[w] = todo'[w] /\ pc'[w] # "status"
         \/ ResetHash(w)
         \/ StatusUpdate(w)
<1> USE DEF Step, bounds, localVars
<1>1. ASSUME NEW j \in Keys, UserWrite(j) \/ UserDelete(j) \/ Watch(j)
      PROVE  UNCHANGED <<listed[w], todo[w], child[w], pc[w]>>
  BY <1>1 DEF UserWrite, UserDelete, Watch
<1>2. ASSUME NEW v \in Workers, v # w,
             (\E k \in Keys : Dequeue(v, k)) \/ ReconcileBundle(v) \/ ReconcileBase(v)
      PROVE  UNCHANGED <<listed[w], todo[w], child[w], pc[w]>>
  BY <1>2 DEF IInv, TypeOK, Dequeue, ReconcileBundle, ReconcileBase, Prologue,
     Lock, Get, GetFails, RegisterStateIfNotAlreadyRegistered, Check, MergeBase,
     ResolveFails, NestedGetFails, RunReconciles, List, ListFails, NextChild,
     LockChild, ResetHash, ChildNotRegistered, StatusUpdate, StatusUpdateFails,
     ListDone, Return
<1>3. ASSUME NEW k \in Keys, Dequeue(w, k)
      PROVE  UNCHANGED <<listed[w], todo[w]>> /\ pc'[w] # "status"
  BY <1>3 DEF IInv, TypeOK, Dequeue
<1>4. ASSUME ReconcileBundle(w) \/ ReconcileBase(w)
      PROVE  \/ UNCHANGED <<listed[w], todo[w]>> /\ pc'[w] # "status"
             \/ listed'[w] = todo'[w] /\ pc'[w] # "status"
             \/ ResetHash(w)
             \/ StatusUpdate(w)
  <2>1. ASSUME NEW held, Return(w, held)
        PROVE  listed'[w] = todo'[w] /\ pc'[w] # "status"
    BY <2>1 DEF Return, IInv, TypeOK
  <2>2. CASE Prologue(w)
    <3>1. CASE Check(w)
      BY <2>1, <3>1 DEF Check, IInv, TypeOK
    <3> QED
      BY <2>1, <2>2, <3>1 DEF Prologue, Lock, Get, GetFails,
         RegisterStateIfNotAlreadyRegistered, IInv, TypeOK
  <2>3. CASE MergeBase(w) \/ ResolveFails(w) \/ NestedGetFails(w) \/ RunReconciles(w)
    BY <2>1, <2>3 DEF MergeBase, ResolveFails, NestedGetFails, RunReconciles, IInv, TypeOK
  <2>4. CASE List(w) \/ NextChild(w) \/ LockChild(w)
    BY <2>4 DEF List, NextChild, LockChild, IInv, TypeOK
  <2>5. CASE ListFails(w) \/ ChildNotRegistered(w) \/ StatusUpdateFails(w) \/ ListDone(w)
    BY <2>1, <2>5 DEF ListFails, ChildNotRegistered, StatusUpdateFails, ListDone
  <2> QED
    BY <1>4, <2>2, <2>3, <2>4, <2>5 DEF ReconcileBundle, ReconcileBase
<1> QED
  BY <1>1, <1>2, <1>3, <1>4 DEF Next, User

\* The bundles of a list are bundles.
LEMMA ListedStep ==
  ASSUME IInv, ResetsStay, Next, ~Restart, NEW w \in BaseWorkers, NEW c \in listed'[w],
         c \notin todo'[w] \/ (pc'[w] = "status" /\ c = child'[w])
  PROVE  Reset(c[1])'
<1>1. CASE \/ UNCHANGED <<listed[w], todo[w]>> /\ pc'[w] # "status"
           \/ UNCHANGED <<listed[w], todo[w], child[w], pc[w]>>
  <2>1. c \in listed[w] /\ (c \notin todo[w] \/ (pc[w] = "status" /\ c = child[w]))
    BY <1>1
  <2>2. Reset(c[1]) /\ c[1] \in Keys
    BY <2>1 DEF ResetsStay, Reset, IInv, TypeOK
  <2> QED BY <2>2, ResetKept
<1>2. CASE listed'[w] = todo'[w] /\ pc'[w] # "status"
  BY <1>2
<1>3. CASE ResetHash(w)
  <2> USE DEF ResetHash, Step, IInv, TypeOK
  <2>1. c \in listed[w] /\ c[1] \in Keys
    BY <1>3
  <2>2. CASE c \notin todo[w]
    BY <2>1, <2>2, ResetKept DEF ResetsStay, Reset
  <2>3. CASE c = child[w]
    <3>1. State[c[1]] \in Entries
      BY <1>3, <2>1, <2>3
    <3>2. State'[c[1]] = [State[c[1]] EXCEPT !.hash = NoHash]
      BY <1>3, <2>1, <2>3
    <3>3. [State[c[1]] EXCEPT !.hash = NoHash] \in Entries
      BY <3>1 DEF Entries, Hashes
    <3> QED BY <3>1, <3>2, <3>3, KindsAssumption DEF Reset, Entries
  <2> QED BY <1>3, <2>2, <2>3
<1>4. CASE StatusUpdate(w)
  <2>1. c \in listed[w] /\ c[1] \in Keys
    BY <1>4 DEF StatusUpdate, Step, IInv, TypeOK
  <2>2. c \notin todo[w] \/ (pc[w] = "status" /\ c = child[w])
    BY <1>4 DEF StatusUpdate, Step, IInv, TypeOK
  <2>3. Reset(c[1])
    BY <2>1, <2>2 DEF ResetsStay, Reset
  <2> QED BY <2>1, <2>3, ResetKept
<1> QED BY <1>1, <1>2, <1>3, <1>4, ListStep

LEMMA ResetsStep == IInv /\ ResetsStay /\ [Next]_vars => ResetsStay'
<1> SUFFICES ASSUME IInv, ResetsStay, [Next]_vars PROVE ResetsStay'
  OBVIOUS
<1>1. CASE Next /\ ~Restart
  BY <1>1, ListedStep DEF ResetsStay, Reset
<1>2. CASE Restart
  BY <1>2 DEF Restart, EveryWorker, ResetsStay
<1>3. CASE UNCHANGED vars
  BY <1>3 DEF vars, localVars, ResetsStay
<1> QED BY <1>1, <1>2, <1>3

\* The bundles a base's pass has been through stay marked for an update for as
\* long as the process lives, whatever their own passes do.
THEOREM ResetsPersist == Spec => []ResetsStay
<1>1. Init => ResetsStay
  BY DEF Init, EveryWorker, ResetsStay
<1> QED BY <1>1, ResetsStep, Invariance, PTL DEF Spec
-----------------------------------------------------------------------------
(***************************************************************************)
(* That Controllers implements OrderedRollouts.  The argument: whatever a  *)
(* pass takes it takes from the informer caches, which only move forward;  *)
(* two passes on a bundle never overlap, so that what the later one takes  *)
(* is as new as what the caches held when the earlier one ended.           *)
(***************************************************************************)

NotOlder(o, p) == o.rv < p.rv \/ o = p

\* No version of k that is stored is older than o.
Behind(o, k) ==
  /\ o.rv <= writes
  /\ cached[k] # None => NotOlder(o, cached[k])
  /\ cluster[k] # None => NotOlder(o, cluster[k])

MergedBehind(ms) ==
  \A m \in ms :
    /\ m[2] <= writes
    /\ cached[m[1]] # None => m[2] <= cached[m[1]].rv
    /\ cluster[m[1]] # None => m[2] <= cluster[m[1]].rv

\* The informer caches are behind the API server.
Stored ==
  \A k \in Keys :
    /\ cluster[k] # None => cluster[k].rv <= writes
    /\ cached[k] # None => Behind(cached[k], k)

\* What passes have in hand is behind the caches, or as new.
Taken ==
  \A w \in Workers :
    /\ key[w] # None /\ obj[w] # None => Behind(obj[w], key[w])
    /\ MergedBehind(merged[w])

\* And so is what was rolled out.
Given ==
  \A b \in Bundles : applied[b] # None =>
    /\ applied[b].obj \in Objects /\ Behind(applied[b].obj, b)
    /\ MergedBehind(applied[b].merged)

NoneOlder(old, new) == \A x \in old, y \in new : x[1] = y[1] => x[2] <= y[2]

\* What a pass has in hand is not older than the rollout before it.
After ==
  \A w \in Workers : key[w] \in Bundles /\ applied[key[w]] # None =>
    /\ obj[w] # None => NotOlder(applied[key[w]].obj, obj[w])
    /\ NoneOlder(applied[key[w]].merged, merged[w])

\* A pass starts with nothing in hand.
Fresh ==
  \A w \in Workers :
    /\ pc[w] \in BeforeGet => obj[w] = None
    /\ pc[w] \notin {"base", "run"} => merged[w] = {}

HasBase(w) == \E m \in merged[w] : m[1] = obj[w].base

\* The base the bundle names is the first to be merged.
Chained ==
  \A w \in BundleWorkers :
    /\ pc[w] = "base" => (merged[w] = {} /\ follow[w] = obj[w].base) \/ HasBase(w)
    /\ pc[w] = "run" => obj[w].base = None \/ HasBase(w)

VInv == Stored /\ Taken /\ Given /\ After /\ Fresh /\ Chained

-----------------------------------------------------------------------------
\* In the initial states nothing is taken or rolled out, and caches are exact.
LEMMA InitVInv == Init => VInv
<1> SUFFICES ASSUME Init PROVE VInv
  OBVIOUS
<1> USE KindsAssumption DEF Init, EveryWorker
<1>1. Stored
  BY DEF Stored, Behind, NotOlder
<1>2. Taken /\ After /\ Fresh /\ Chained
  BY DEF Taken, MergedBehind, After, Fresh, Chained
<1>3. Given
  BY DEF Given
<1> QED BY <1>1, <1>2, <1>3 DEF VInv

-----------------------------------------------------------------------------
\* The worker keeps what it has in hand, or drops it.
KeepsOrDrops(w) ==
  \/ UNCHANGED <<key[w], obj[w], merged[w]>>
  \/ obj'[w] = None /\ merged'[w] = {}

Framed ==
  /\ UNCHANGED <<cluster, cached, applied, writes>>
  /\ \A w \in Workers : KeepsOrDrops(w)

LEMMA FramedStep ==
  ASSUME VInv, Framed
  PROVE  Stored' /\ Taken' /\ Given' /\ After'
<1> USE DEF VInv, Framed, KeepsOrDrops, Behind, MergedBehind, NotOlder
<1>1. Stored'
  BY DEF Stored
<1>2. Taken'
  BY DEF Taken
<1>3. Given'
  BY DEF Given
<1>4. After'
  BY DEF After, NoneOlder
<1> QED BY <1>1, <1>2, <1>3, <1>4

LEMMA ReturnDrops ==
  ASSUME TypeOK, NEW w \in Workers, NEW held, Return(w, held)
  PROVE  \A v \in Workers : KeepsOrDrops(v)
  BY DEF TypeOK, Return, KeepsOrDrops

\* The steps that are more than that: everything else is framed.
LEMMA Shapes ==
  ASSUME IInv, Fresh, Next
  PROVE  \/ \E k \in Keys : UserWrite(k) \/ UserDelete(k) \/ Watch(k)
         \/ \E w \in Workers : Get(w)
         \/ \E w \in BundleWorkers : MergeBase(w) \/ RunReconciles(w)
         \/ Restart
         \/ Framed
<1> USE DEF Step, bounds, localVars, Framed, KeepsOrDrops, IInv, TypeOK
<1>1. ASSUME NEW w \in Workers, NEW k \in Keys, Dequeue(w, k) PROVE Framed
  BY <1>1 DEF Dequeue, Fresh, BeforeGet
<1>2. ASSUME NEW w \in Workers, Prologue(w) PROVE Get(w) \/ Framed
  <2>1. CASE GetFails(w)
    BY <2>1, ReturnDrops DEF GetFails
  <2>2. CASE Check(w)
    BY <2>2, ReturnDrops DEF Check
  <2> QED
    BY <1>2, <2>1, <2>2 DEF Prologue, Lock, RegisterStateIfNotAlreadyRegistered
<1>3. ASSUME NEW w \in BundleWorkers, ResolveFails(w) \/ NestedGetFails(w)
      PROVE  Framed
  BY <1>3, ReturnDrops DEF ResolveFails, NestedGetFails
<1>4. ASSUME NEW w \in BaseWorkers, List(w) \/ NextChild(w) \/ LockChild(w)
                                    \/ ResetHash(w) \/ StatusUpdate(w)
      PROVE  Framed
  BY <1>4 DEF List, NextChild, LockChild, ResetHash, StatusUpdate
<1>5. ASSUME NEW w \in BaseWorkers, ListFails(w) \/ ChildNotRegistered(w)
                                    \/ StatusUpdateFails(w) \/ ListDone(w)
      PROVE  Framed
  BY <1>5, ReturnDrops DEF ListFails, ChildNotRegistered, StatusUpdateFails, ListDone
<1> QED
  BY <1>1, <1>2, <1>3, <1>4, <1>5 DEF Next, User, ReconcileBundle, ReconcileBase

-----------------------------------------------------------------------------
\* A new version is newer than all there is.
LEMMA WriteStep ==
  ASSUME IInv, VInv, NEW k \in Keys, UserWrite(k) \/ UserDelete(k)
  PROVE  Stored' /\ Taken' /\ Given' /\ After'
<1>1. /\ writes' = writes + 1 /\ writes \in Nat
      /\ UNCHANGED <<cached, key, obj, merged, applied>>
      /\ cluster' = [cluster EXCEPT ![k] = cluster'[k]]
      /\ cluster'[k] = None \/ cluster'[k].rv = writes + 1
      /\ cluster \in [Keys -> Objects \cup {None}]
  <2>1. writes \in Nat /\ cluster \in [Keys -> Objects \cup {None}]
    BY DEF IInv, TypeOK
  <2>2. CASE UserWrite(k)
    <3>1. PICK c \in Contents, a \in MayName[k] :
             cluster' = [cluster EXCEPT ![k] =
                           [content |-> c, base |-> a, rv |-> writes + 1]]
      BY <2>2 DEF UserWrite
    <3> DEFINE new == [content |-> c, base |-> a, rv |-> writes + 1]
    <3>2. cluster'[k] = new /\ new.rv = writes + 1
      BY <2>1, <3>1
    <3> HIDE DEF new
    <3> QED BY <2>1, <2>2, <3>1, <3>2 DEF UserWrite, localVars
  <2>3. CASE UserDelete(k)
    BY <2>1, <2>3 DEF UserDelete, localVars
  <2> QED BY <2>1, <2>2, <2>3
<1>2. ASSUME NEW o \in Objects, NEW j \in Keys, Behind(o, j) PROVE Behind(o, j)'
  BY <1>1, <1>2 DEF Behind, NotOlder, Objects
<1>3. ASSUME NEW ms \in SUBSET (Bases \X Nat), MergedBehind(ms)
      PROVE  MergedBehind(ms)'
  BY <1>1, <1>3 DEF MergedBehind
<1>4. Stored'
  BY <1>1, <1>2 DEF VInv, Stored, IInv, TypeOK, Objects
<1>5. Taken'
  BY <1>1, <1>2, <1>3 DEF VInv, Taken, IInv, TypeOK
<1>6. Given'
  BY <1>1, <1>2, <1>3, KindsAssumption DEF VInv, Given, IInv, TypeOK, Rollouts
<1>7. After'
  BY <1>1 DEF VInv, After
<1> QED BY <1>4, <1>5, <1>6, <1>7

\* The caches move to what is stored, which is behind nothing.
LEMMA CacheStep ==
  ASSUME IInv, VInv, \A k \in Keys : cached'[k] \in {cached[k], cluster[k]},
         UNCHANGED <<cluster, applied, writes>>,
         \A w \in Workers : KeepsOrDrops(w)
  PROVE  Stored' /\ Taken' /\ Given' /\ After'
<1>1. ASSUME NEW o, NEW j \in Keys, Behind(o, j) PROVE Behind(o, j)'
  BY <1>1 DEF Behind
<1>2. ASSUME NEW ms \in SUBSET (Bases \X Nat), MergedBehind(ms)
      PROVE  MergedBehind(ms)'
  BY <1>2 DEF MergedBehind
<1>3. Stored'
  <2>1. ASSUME NEW k \in Keys, cached'[k] # None, cached'[k] = cached[k]
        PROVE  Behind(cached[k], k)'
    <3>1. Behind(cached[k], k)
      BY <2>1 DEF VInv, Stored
    <3> QED BY <2>1, <3>1 DEF Behind, NotOlder
  <2>2. ASSUME NEW k \in Keys, cached'[k] # None, cached'[k] = cluster[k]
        PROVE  Behind(cached[k], k)'
    BY <2>2 DEF VInv, Stored, Behind, NotOlder
  <2> QED BY <2>1, <2>2 DEF VInv, Stored
<1>4. Taken'
  BY <1>1, <1>2 DEF VInv, Taken, KeepsOrDrops, IInv, TypeOK, MergedBehind
<1>5. Given'
  BY <1>1, <1>2, KindsAssumption DEF VInv, Given, IInv, TypeOK, Rollouts
<1>6. After'
  BY DEF VInv, After, NoneOlder, KeepsOrDrops
<1> QED BY <1>3, <1>4, <1>5, <1>6

\* What a pass takes out of the cache.
LEMMA TakeStep ==
  ASSUME IInv, VInv, NEW w \in Workers, Get(w) \/ (w \in BundleWorkers /\ MergeBase(w))
  PROVE  Stored' /\ Taken' /\ Given' /\ After'
<1> USE DEF IInv, TypeOK, Step, bounds
<1>1. UNCHANGED <<cluster, cached, applied, writes, key>>
  BY DEF Get, MergeBase
<1>2. Stored' /\ Given'
  BY <1>1 DEF VInv, Stored, Given, Behind, MergedBehind
<1>3. CASE Get(w)
  <2>1. key[w] \in Keys /\ cached[key[w]] # None
    BY <1>3 DEF Get, LocalsOK, LocalOK
  <2>2. obj' = [obj EXCEPT ![w] = cached[key[w]]] /\ merged' = merged
    BY <1>3 DEF Get
  <2>3. Taken'
    BY <1>1, <2>1, <2>2 DEF VInv, Stored, Taken, Behind, MergedBehind
  <2>4. After'
    BY <1>1, <2>1, <2>2 DEF VInv, Given, After, Behind, NoneOlder
  <2> QED BY <1>2, <2>3, <2>4
<1>4. CASE w \in BundleWorkers /\ MergeBase(w)
  <2> DEFINE a == follow[w]
             n == <<a, cached[a].rv>>
  <2>1. a \in Bases /\ cached[a] \in Objects
    BY <1>4 DEF MergeBase, LocalsOK, LocalOK
  <2>2. merged' = [merged EXCEPT ![w] = merged[w] \cup {n}] /\ obj' = obj
    BY <1>4 DEF MergeBase
  <2>3. MergedBehind({n})
    BY <2>1, KindsAssumption DEF VInv, Stored, MergedBehind, Behind, NotOlder, Objects
  <2>4. Taken'
    BY <1>1, <2>2, <2>3 DEF VInv, Taken, Behind, MergedBehind
  <2>5. ASSUME NEW b \in Bundles, applied[b] # None
        PROVE  NoneOlder(applied[b].merged, {n})
    BY <2>1, <2>5, KindsAssumption DEF VInv, Given, MergedBehind, NoneOlder
  <2>6. After'
    BY <1>1, <2>2, <2>5 DEF VInv, After, NoneOlder
  <2> QED BY <1>2, <2>4, <2>6
<1> QED BY <1>3, <1>4

\* What is rolled out is what a pass has in hand, and only this pass has its key.
LEMMA RollStep ==
  ASSUME IInv, VInv, NEW w \in BundleWorkers, RunReconciles(w)
  PROVE  Stored' /\ Taken' /\ Given' /\ After'
<1> USE DEF IInv, TypeOK
<1>1. /\ UNCHANGED <<cluster, cached, writes>>
      /\ \A v \in Workers : KeepsOrDrops(v)
  BY ReturnDrops DEF RunReconciles
<1>2. CASE UNCHANGED applied
  BY <1>1, <1>2, FramedStep DEF Framed
<1>3. CASE applied' = [applied EXCEPT ![key[w]] = [obj |-> obj[w], merged |-> merged[w]]]
  <2>1. key[w] \in Bundles /\ obj[w] \in Objects /\ pc[w] = "run"
    BY KindsAssumption DEF RunReconciles, LocalsOK, LocalOK, BeforeGet
  <2>2. Stored' /\ Taken'
    BY <1>1 DEF VInv, Stored, Taken, KeepsOrDrops, Behind, MergedBehind
  <2>3. Given'
    <3>1. /\ obj[w] \in Objects /\ Behind(obj[w], key[w])
          /\ MergedBehind(merged[w])
      BY <2>1, KindsAssumption DEF VInv, Taken
    <3> QED BY <1>1, <1>3, <2>1, <3>1 DEF VInv, Given, Behind, MergedBehind
  <2>4. ASSUME NEW v \in Workers, key'[v] \in Bundles, applied'[key'[v]] # None
        PROVE  /\ obj'[v] # None => NotOlder(applied'[key'[v]].obj, obj'[v])
               /\ NoneOlder(applied'[key'[v]].merged, merged'[v])
    <3>1. CASE obj'[v] = None /\ merged'[v] = {}
      BY <3>1 DEF NoneOlder
    <3>2. CASE UNCHANGED <<key[v], obj[v], merged[v]>>
      <4>1. key'[w] = None
        BY DEF RunReconciles, Return
      <4>2. v # w /\ key[v] # key[w]
        BY <2>1, <2>4, <3>2, <4>1, KindsAssumption DEF KeysUnique
      <4>3. applied'[key'[v]] = applied[key[v]]
        BY <1>3, <2>4, <3>2, <4>2
      <4> QED BY <2>4, <3>2, <4>3 DEF VInv, After, NotOlder, NoneOlder
    <3> QED BY <1>1, <3>1, <3>2 DEF KeepsOrDrops
  <2> QED BY <2>2, <2>3, <2>4 DEF After, NotOlder, NoneOlder
<1> QED BY <1>2, <1>3 DEF RunReconciles

-----------------------------------------------------------------------------
LEMMA ReturnFresh ==
  ASSUME TypeOK, Fresh, Chained, NEW w \in Workers, NEW held, Return(w, held)
  PROVE  Fresh' /\ Chained'
<1>1. /\ pc'[w] = "idle" /\ obj'[w] = None /\ merged'[w] = {}
      /\ \A v \in Workers \ {w} :
            UNCHANGED <<pc[v], obj[v], merged[v], follow[v]>>
  BY DEF TypeOK, Return
<1> QED BY <1>1 DEF Fresh, Chained, HasBase, BeforeGet

\* A step that moves one worker, with what it has in hand, to another label.
LEMMA FreshStep ==
  ASSUME IInv, Fresh, Chained, [Next]_vars
  PROVE  Fresh' /\ Chained'
<1> USE DEF Step, bounds, localVars, IInv
<1>1. ASSUME NEW k \in Keys, UserWrite(k) \/ UserDelete(k) \/ Watch(k)
      PROVE  Fresh' /\ Chained'
  BY <1>1 DEF UserWrite, UserDelete, Watch, Fresh, Chained, HasBase
<1>2. ASSUME NEW w \in Workers, NEW k \in Keys, Dequeue(w, k)
      PROVE  Fresh' /\ Chained'
  BY <1>2 DEF Dequeue, TypeOK, Fresh, Chained, HasBase, BeforeGet
<1>3. ASSUME Restart PROVE Fresh' /\ Chained'
  BY <1>3 DEF Restart, EveryWorker, Fresh, Chained
<1>4. ASSUME NEW w \in Workers, Prologue(w) PROVE Fresh' /\ Chained'
  <2>1. CASE Lock(w) \/ Get(w) \/ RegisterStateIfNotAlreadyRegistered(w)
    BY <2>1 DEF Lock, Get, RegisterStateIfNotAlreadyRegistered, TypeOK,
       Fresh, Chained, HasBase, BeforeGet
  <2>2. CASE GetFails(w)
    BY <2>2, ReturnFresh DEF GetFails
  <2>3. CASE Check(w)
    <3>1. PICK now \in Clock : Check(w)!2!(now)
      BY <2>3 DEF Check
    <3>2. CASE NeedsUpdating(w, now)
      <4>1. merged[w] = {}
        BY <2>3 DEF Check, Fresh
      <4> QED
        BY <3>1, <3>2, <4>1 DEF TypeOK, Fresh, Chained, HasBase, BeforeGet
    <3>3. CASE ~NeedsUpdating(w, now)
      BY <3>1, <3>3, ReturnFresh
    <3> QED BY <3>2, <3>3
  <2> QED BY <1>4, <2>1, <2>2, <2>3 DEF Prologue
<1>5. ASSUME NEW w \in BundleWorkers, ReconcileBundle(w) PROVE Fresh' /\ Chained'
  <2>1. CASE MergeBase(w)
    <3>1. HasBase(w)'
      <4>1. obj'[w] = obj[w] /\ merged[w] \subseteq merged'[w]
        BY <2>1 DEF MergeBase, TypeOK
      <4>2. \E m \in merged'[w] : m[1] = follow[w]
        <5> DEFINE n == <<follow[w], cached[follow[w]].rv>>
        <5>1. n \in merged'[w] /\ n[1] = follow[w]
          BY <2>1 DEF MergeBase, TypeOK
        <5> QED BY <5>1
      <4>3. follow[w] = obj[w].base \/ HasBase(w)
        BY <2>1 DEF MergeBase, Chained
      <4> QED BY <4>1, <4>2, <4>3 DEF HasBase
    <3> QED
      BY <2>1, <3>1 DEF MergeBase, TypeOK, Fresh, Chained, HasBase, BeforeGet
  <2>2. CASE NestedGetFails(w)
    BY <2>2 DEF NestedGetFails, TypeOK, Fresh, Chained, HasBase, BeforeGet
  <2>3. CASE ResolveFails(w) \/ RunReconciles(w)
    BY <2>3, ReturnFresh DEF ResolveFails, RunReconciles
  <2> QED BY <1>4, <1>5, <2>1, <2>2, <2>3 DEF ReconcileBundle
<1>6. ASSUME NEW w \in BaseWorkers, ReconcileBase(w) PROVE Fresh' /\ Chained'
  <2>1. CASE List(w) \/ NextChild(w) \/ LockChild(w) \/ ResetHash(w) \/ StatusUpdate(w)
    BY <2>1, KindsAssumption
    DEF List, NextChild, LockChild, ResetHash, StatusUpdate, TypeOK,
        Fresh, Chained, HasBase, BeforeGet
  <2>2. CASE ListFails(w) \/ ChildNotRegistered(w) \/ StatusUpdateFails(w) \/ ListDone(w)
    BY <2>2, ReturnFresh
    DEF ListFails, ChildNotRegistered, StatusUpdateFails, ListDone
  <2> QED BY <1>4, <1>6, <2>1, <2>2 DEF ReconcileBase
<1>7. CASE UNCHANGED vars
  BY <1>7 DEF vars, Fresh, Chained, HasBase
<1> QED
  BY <1>1, <1>2, <1>3, <1>5, <1>6, <1>7 DEF Next, User

LEMMA VInvStep ==
  ASSUME IInv, VInv, [Next]_vars
  PROVE  VInv'
<1>1. Stored' /\ Taken' /\ Given' /\ After'
  <2>1. ASSUME NEW k \in Keys, Watch(k)
        PROVE  Stored' /\ Taken' /\ Given' /\ After'
    BY <2>1, CacheStep DEF Watch, IInv, TypeOK, KeepsOrDrops, localVars, bounds
  <2>2. CASE Restart
    BY <2>2, CacheStep DEF Restart, EveryWorker, KeepsOrDrops
  <2>3. CASE UNCHANGED vars
    BY <2>3, FramedStep DEF vars, localVars, bounds, Framed, KeepsOrDrops
  <2> QED
    BY <2>1, <2>2, <2>3, Shapes, WriteStep, TakeStep, RollStep, FramedStep DEF VInv
<1>2. Fresh' /\ Chained'
  BY FreshStep DEF VInv
<1> QED BY <1>1, <1>2 DEF VInv

-----------------------------------------------------------------------------
\* A step of the controllers is a write, a rollout or nothing to the abstract
\* specification.
LEMMA Simulates ==
  ASSUME IInv, VInv, [Next]_vars
  PROVE  [Rolling!Next]_(Rolling!vars)
<1> USE DEF Rolling!vars
<1>1. ASSUME NEW k \in Keys, UserWrite(k) PROVE Rolling!Write(k)
  <2>1. cluster \in [Keys -> Objects \cup {None}] /\ writes \in Nat
    BY DEF IInv, TypeOK
  <2>2. PICK c \in Contents, a \in MayName[k] :
           cluster' = [cluster EXCEPT ![k] =
                         [content |-> c, base |-> a, rv |-> writes + 1]]
    BY <1>1 DEF UserWrite
  <2>3. [content |-> c, base |-> a, rv |-> writes + 1] \in Objects
    BY <2>1, BoundsAssumption DEF Objects
  <2>4. cluster'[k] = [content |-> c, base |-> a, rv |-> writes + 1]
    BY <2>1, <2>2
  <2> QED
    BY <1>1, <2>1, <2>2, <2>3, <2>4 DEF UserWrite, Rolling!Write, Rolling!Objects, Objects
<1>2. ASSUME NEW k \in Keys, UserDelete(k) PROVE Rolling!Write(k)
  BY <1>2 DEF UserDelete, Rolling!Write, IInv, TypeOK
<1>3. ASSUME NEW w \in BundleWorkers, RunReconciles(w), applied' # applied
      PROVE  Rolling!Rollout(key[w])
  <2> DEFINE b == key[w]
             r == [obj |-> obj[w], merged |-> merged[w]]
  <2>1. pc[w] = "run" /\ applied' = [applied EXCEPT ![b] = r]
    BY <1>3 DEF RunReconciles
  <2>2. b \in Bundles /\ obj[w] \in Objects /\ merged[w] \subseteq Bases \X Nat
    BY <2>1, KindsAssumption DEF IInv, TypeOK, LocalsOK, LocalOK, BeforeGet
  <2>3. applied'[b] = r /\ r.obj = obj[w] /\ r.merged = merged[w]
    BY <2>1, <2>2 DEF IInv, TypeOK
  <2>4. r # None
    BY <2>2, KindsAssumption DEF Rollouts
  <2>5. obj[w].rv <= writes /\ merged[w] \subseteq Bases \X (0 .. writes)
    BY <2>2, KindsAssumption DEF VInv, Taken, Behind, MergedBehind, IInv, TypeOK
  <2>6. obj[w].base # None => \E m \in merged[w] : m[1] = obj[w].base
    BY <2>1 DEF VInv, Chained, HasBase
  <2>7. applied[b] # None =>
          /\ applied[b].obj.rv < obj[w].rv \/ applied[b].obj = obj[w]
          /\ \A old \in applied[b].merged, m \in merged[w] :
               old[1] = m[1] => old[2] <= m[2]
    BY <2>2, KindsAssumption DEF VInv, After, NotOlder, NoneOlder
  <2>8. UNCHANGED <<cluster, writes>>
    BY <1>3 DEF RunReconciles
  <2> HIDE DEF r
  <2> QED
    BY <2>1, <2>2, <2>3, <2>4, <2>5, <2>6, <2>7, <2>8
    DEF Rolling!Rollout, Rolling!Objects, Objects
<1>4. ASSUME NEW w \in BundleWorkers, RunReconciles(w)
      PROVE  UNCHANGED <<cluster, writes>> /\ key[w] \in Bundles
  BY <1>4, KindsAssumption DEF RunReconciles, IInv, TypeOK, LocalsOK, LocalOK
<1>5. ASSUME \/ \E k \in Keys : Watch(k)
             \/ \E w \in Workers : Get(w)
             \/ \E w \in BundleWorkers : MergeBase(w)
             \/ Restart \/ Framed \/ UNCHANGED vars
      PROVE  UNCHANGED <<cluster, applied, writes>>
  BY <1>5 DEF Watch, Get, MergeBase, Restart, Framed, vars, bounds
<1> QED
  BY <1>1, <1>2, <1>3, <1>4, <1>5, Shapes DEF Rolling!Next, VInv

LEMMA Starts == Init => Rolling!Init
  BY DEF Init, Rolling!Init

-----------------------------------------------------------------------------
\* Workers, informers that lag, failing calls and restarts never make a rollout
\* put back a version of the bundle or of a base that an earlier one replaced.
THEOREM ImplementsOrderedRollouts == Spec => RolloutsOrdered
<1>1. Spec => []VInv
  <2>1. IInv /\ VInv /\ [Next]_vars => VInv'
    BY VInvStep
  <2> QED BY <2>1, InitVInv, Invariance, PTL DEF Spec
<1>2. IInv /\ VInv /\ [Next]_vars => [Rolling!Next]_(Rolling!vars)
  BY Simulates
<1> QED
  BY <1>1, <1>2, Starts, Invariance, PTL DEF Spec, RolloutsOrdered, Rolling!Spec

-----------------------------------------------------------------------------
\* The maps with keys among Names are what MapsTo says they are.
LEMMA MapsToElement ==
  ASSUME NEW S, NEW K \in SUBSET Names, NEW f \in [K -> S]
  PROVE  f \in MapsTo(S)
  BY DEF MapsTo

LEMMA MapsToDomain ==
  ASSUME NEW S, NEW f \in MapsTo(S)
  PROVE  DOMAIN f \in SUBSET Names /\ f \in [DOMAIN f -> S]
  BY DEF MapsTo

LEMMA MergeStructType ==
  ASSUME NEW dst \in Structs, NEW src \in Structs
  PROVE  MergeStruct(dst, src) \in Structs
  BY DEF Structs, Pointers, Strings, MergeStruct, MergePointer, IsDefault

\* Merging keeps a spec a spec.
LEMMA MergeType ==
  ASSUME NEW dst \in Specs, NEW src \in Specs
  PROVE  Merge(dst, src) \in Specs
<1>1. MergePointer(dst.field, src.field) \in Pointers
  BY DEF Specs, Pointers, MergePointer
<1>2. /\ DOMAIN dst.envs \in SUBSET Names /\ dst.envs \in [DOMAIN dst.envs -> Strings]
      /\ DOMAIN src.envs \in SUBSET Names /\ src.envs \in [DOMAIN src.envs -> Strings]
  BY MapsToDomain DEF Specs
<1>3. TransformStrings(dst.envs, src.envs)
        \in [DOMAIN dst.envs \cup DOMAIN src.envs -> Strings]
  BY <1>2 DEF TransformStrings, MergeString
<1>4. /\ DOMAIN dst.routes \in SUBSET Names /\ dst.routes \in [DOMAIN dst.routes -> Structs]
      /\ DOMAIN src.routes \in SUBSET Names /\ src.routes \in [DOMAIN src.routes -> Structs]
  BY MapsToDomain DEF Specs
<1>5. TransformStructs(dst.routes, src.routes)
        \in [DOMAIN dst.routes \cup DOMAIN src.routes -> Structs]
  BY <1>4, MergeStructType DEF TransformStructs
<1>6. /\ TransformStrings(dst.envs, src.envs) \in MapsTo(Strings)
      /\ TransformStructs(dst.routes, src.routes) \in MapsTo(Structs)
  <2>1. /\ DOMAIN dst.envs \cup DOMAIN src.envs \in SUBSET Names
        /\ DOMAIN dst.routes \cup DOMAIN src.routes \in SUBSET Names
    BY <1>2, <1>4
  <2> QED BY <1>3, <1>5, <2>1, MapsToElement
<1> QED BY <1>1, <1>6 DEF Merge, Specs

\* Every intermediate result is a spec.
THEOREM ResolutionTypeCorrect == ResolutionSpec => []ResolutionTypeOK
<1>1. ResolutionInit => ResolutionTypeOK
  BY WrittenAssumption, LayersAssumption DEF ResolutionInit, ResolutionTypeOK
<1>2. ResolutionTypeOK /\ [ResolutionNext]_resolutionVars => ResolutionTypeOK'
  <2> SUFFICES ASSUME ResolutionTypeOK, [ResolutionNext]_resolutionVars PROVE ResolutionTypeOK'
    OBVIOUS
  <2>1. CASE ResolveAppBundleBase
    <3>1. depth + 1 \in 1 .. Len(layers) /\ layers[depth + 1] \in Specs
      BY <2>1 DEF ResolveAppBundleBase, ResolutionTypeOK
    <3>2. Merge(ab, layers[depth + 1]) \in Specs
      BY <3>1, MergeType DEF ResolutionTypeOK
    <3> QED BY <2>1, <3>1, <3>2 DEF ResolveAppBundleBase, ResolutionTypeOK
  <2>2. CASE UNCHANGED resolutionVars
    BY <2>2 DEF resolutionVars, ResolutionTypeOK
  <2> QED BY <2>1, <2>2 DEF ResolutionNext
<1> QED BY <1>1, <1>2, PTL DEF ResolutionSpec

-----------------------------------------------------------------------------
\* A layer more, the last, that says v2 where the first m led to v.
LEMMA OneMoreLayer ==
  ASSUME NEW m \in Nat, NEW v, NEW v2 \in Pointers, NEW Says, NEW Says2,
         FromNearest(v, m, Says), Says2[m + 1] = v2,
         \A i \in 1 .. m : Says2[i] = Says[i]
  PROVE  FromNearest(MergePointer(v, v2), m + 1, Says2)
<1> USE DEF FromNearest, MergePointer
<1>1. CASE IsDefault(v) /\ IsDefault(v2)
  <2>1. \A i \in 1 .. m : IsDefault(Says[i])
    BY <1>1
  <2>2. \A i \in 1 .. m + 1 : IsDefault(Says2[i])
    BY <1>1, <2>1
  <2> QED BY <1>1, <2>2
<1>2. CASE IsDefault(v) /\ ~IsDefault(v2)
  <2>1. \A i \in 1 .. m : IsDefault(Says[i])
    BY <1>2
  <2>2. MergePointer(v, v2) = v2
    BY <1>2 DEF IsDefault
  <2>3. m + 1 \in 1 .. m + 1 /\ \A j \in 1 .. (m + 1) - 1 : IsDefault(Says2[j])
    BY <2>1
  <2> QED BY <1>2, <2>2, <2>3
<1>3. CASE ~IsDefault(v)
  <2>1. PICK i \in 1 .. m : /\ v = Says[i]
                            /\ ~IsDefault(Says[i])
                            /\ \A j \in 1 .. i - 1 : IsDefault(Says[j])
    BY <1>3
  <2>2. i \in 1 .. m + 1 /\ \A j \in 1 .. i - 1 : IsDefault(Says2[j])
    BY <2>1
  <2> QED BY <1>3, <2>1, <2>2
<1> QED BY <1>1, <1>2, <1>3

\* The first layer alone.
LEMMA OneLayer ==
  ASSUME NEW v, NEW Says, Says[1] = v
  PROVE  FromNearest(v, 1, Says)
  BY DEF FromNearest

\* The parts of FieldsFromNearest: the fields of the spec, those of its structs.
SpecFields == FromNearest(ab.field, depth, [i \in 1 .. depth |-> layers[i].field])

StructFields ==
  \A k \in DOMAIN ab.routes :
    /\ FromNearest(ab.routes[k].port, depth, [i \in 1 .. depth |-> PortAt(k, i)])
    /\ FromNearest(ab.routes[k].protocol, depth, [i \in 1 .. depth |-> ProtocolAt(k, i)])

Resolved == /\ ResolutionTypeOK
            /\ KeysOfAllLayers
            /\ SpecFields
            /\ StructFields
            /\ StringsFromFarthest

LEMMA InitResolved == ResolutionInit => Resolved
<1> SUFFICES ASSUME ResolutionInit PROVE Resolved
  OBVIOUS
<1>1. ResolutionTypeOK
  BY WrittenAssumption, LayersAssumption DEF ResolutionInit, ResolutionTypeOK
<1>2. depth = 1 /\ ab = layers[1]
  BY DEF ResolutionInit
<1>3. KeysOfAllLayers
  BY <1>2 DEF KeysOfAllLayers
<1>4. SpecFields
  BY <1>2, OneLayer DEF SpecFields
<1>5. StructFields
  BY <1>2, OneLayer DEF StructFields, PortAt, ProtocolAt
<1>6. StringsFromFarthest
  BY <1>2 DEF StringsFromFarthest
<1> QED BY <1>1, <1>3, <1>4, <1>5, <1>6 DEF Resolved

LEMMA StepResolved == Resolved /\ ResolveAppBundleBase => Resolved'
<1> SUFFICES ASSUME Resolved, ResolveAppBundleBase PROVE Resolved'
  OBVIOUS
<1> DEFINE src == layers[depth + 1]
<1>1. /\ depth \in Nat /\ depth >= 1 /\ depth + 1 \in 1 .. Len(layers)
      /\ ab \in Specs /\ src \in Specs
      /\ depth' = depth + 1 /\ layers' = layers /\ ab' = Merge(ab, src)
  BY DEF Resolved, ResolutionTypeOK, ResolveAppBundleBase
<1>2. ResolutionTypeOK'
  BY <1>1, MergeType DEF Resolved, ResolutionTypeOK
<1>3. /\ ab'.field = MergePointer(ab.field, src.field)
      /\ ab'.envs = TransformStrings(ab.envs, src.envs)
      /\ ab'.routes = TransformStructs(ab.routes, src.routes)
  BY <1>1 DEF Merge
<1>4. KeysOfAllLayers'
  <2>1. /\ DOMAIN ab'.envs = DOMAIN ab.envs \cup DOMAIN src.envs
        /\ DOMAIN ab'.routes = DOMAIN ab.routes \cup DOMAIN src.routes
    BY <1>3 DEF TransformStrings, TransformStructs
  <2>2. 1 .. depth' = (1 .. depth) \cup {depth + 1}
    BY <1>1
  <2> QED BY <1>1, <2>1, <2>2 DEF Resolved, KeysOfAllLayers
<1>5. SpecFields'
  <2> DEFINE Says  == [i \in 1 .. depth |-> layers[i].field]
             Says2 == [i \in 1 .. depth + 1 |-> layers[i].field]
  <2>1. FromNearest(ab.field, depth, Says)
    BY DEF Resolved, SpecFields
  <2>2. src.field \in Pointers /\ Says2[depth + 1] = src.field
    BY <1>1 DEF Specs
  <2>3. \A i \in 1 .. depth : Says2[i] = Says[i]
    BY <1>1
  <2>4. FromNearest(MergePointer(ab.field, src.field), depth + 1, Says2)
    <3> HIDE DEF Says, Says2
    <3> QED BY <1>1, <2>1, <2>2, <2>3, OneMoreLayer
  <2> QED BY <1>1, <1>3, <2>4 DEF SpecFields
<1>6. StringsFromFarthest'
  <2> SUFFICES ASSUME NEW k \in DOMAIN ab'.envs
               PROVE  \E i \in 1 .. depth + 1 :
                        /\ k \in DOMAIN layers[i].envs
                        /\ ab'.envs[k] = layers[i].envs[k]
                        /\ \A j \in i + 1 .. depth + 1 : k \notin DOMAIN layers[j].envs
    BY <1>1 DEF StringsFromFarthest
  <2>1. CASE k \in DOMAIN src.envs
    <3>1. ab'.envs[k] = src.envs[k]
      BY <1>3, <2>1 DEF TransformStrings, MergeString
    <3>2. depth + 1 \in 1 .. depth + 1 /\ (depth + 1) + 1 .. depth + 1 = {}
      BY <1>1
    <3> QED BY <2>1, <3>1, <3>2
  <2>2. CASE k \notin DOMAIN src.envs
    <3>1. k \in DOMAIN ab.envs /\ ab'.envs[k] = ab.envs[k]
      BY <1>3, <2>2 DEF TransformStrings
    <3>2. PICK i \in 1 .. depth : /\ k \in DOMAIN layers[i].envs
                                  /\ ab.envs[k] = layers[i].envs[k]
                                  /\ \A j \in i + 1 .. depth : k \notin DOMAIN layers[j].envs
      BY <3>1 DEF Resolved, StringsFromFarthest
    <3>3. \A j \in i + 1 .. depth + 1 : j \in i + 1 .. depth \/ j = depth + 1
      BY <1>1
    <3> QED BY <1>1, <2>2, <3>1, <3>2, <3>3
  <2> QED BY <2>1, <2>2
<1>7. StructFields'
  <2> SUFFICES ASSUME NEW k \in DOMAIN ab'.routes
               PROVE  /\ FromNearest(ab'.routes[k].port, depth + 1,
                                     [i \in 1 .. depth + 1 |-> PortAt(k, i)])
                      /\ FromNearest(ab'.routes[k].protocol, depth + 1,
                                     [i \in 1 .. depth + 1 |-> ProtocolAt(k, i)])
    BY <1>1 DEF StructFields, PortAt, ProtocolAt
  <2> DEFINE Ports  == [i \in 1 .. depth |-> PortAt(k, i)]
             Ports2 == [i \in 1 .. depth + 1 |-> PortAt(k, i)]
             Protocols  == [i \in 1 .. depth |-> ProtocolAt(k, i)]
             Protocols2 == [i \in 1 .. depth + 1 |-> ProtocolAt(k, i)]
             \* What the bundle says before the step, Nil if k is new to it.
             port     == IF k \in DOMAIN ab.routes THEN ab.routes[k].port ELSE Nil
             protocol == IF k \in DOMAIN ab.routes THEN ab.routes[k].protocol ELSE Nil
  <2>1. FromNearest(port, depth, Ports) /\ FromNearest(protocol, depth, Protocols)
    <3>1. CASE k \in DOMAIN ab.routes
      BY <3>1 DEF Resolved, StructFields
    <3>2. CASE k \notin DOMAIN ab.routes
      <4>1. \A i \in 1 .. depth : k \notin DOMAIN layers[i].routes
        BY <3>2 DEF Resolved, KeysOfAllLayers
      <4>2. \A i \in 1 .. depth : Ports[i] = Nil /\ Protocols[i] = Nil
        BY <4>1 DEF PortAt, ProtocolAt
      <4> QED BY <3>2, <4>2 DEF FromNearest, IsDefault
    <3> QED BY <3>1, <3>2
  <2>2. /\ PortAt(k, depth + 1) \in Pointers /\ Ports2[depth + 1] = PortAt(k, depth + 1)
        /\ ProtocolAt(k, depth + 1) \in Pointers /\ Protocols2[depth + 1] = ProtocolAt(k, depth + 1)
    <3>1. k \in DOMAIN src.routes => src.routes[k] \in Structs
      BY <1>1, MapsToDomain DEF Specs
    <3> QED BY <1>1, <3>1 DEF PortAt, ProtocolAt, Structs, Pointers, Strings
  <2>3. \A i \in 1 .. depth : Ports2[i] = Ports[i] /\ Protocols2[i] = Protocols[i]
    BY <1>1
  <2>4. /\ FromNearest(MergePointer(port, PortAt(k, depth + 1)), depth + 1, Ports2)
        /\ FromNearest(MergePointer(protocol, ProtocolAt(k, depth + 1)), depth + 1, Protocols2)
    <3> HIDE DEF Ports, Ports2, Protocols, Protocols2, port, protocol
    <3> QED BY <1>1, <2>1, <2>2, <2>3, OneMoreLayer
  <2>5. /\ ab'.routes[k].port = MergePointer(port, PortAt(k, depth + 1))
        /\ ab'.routes[k].protocol = MergePointer(protocol, ProtocolAt(k, depth + 1))
    BY <1>3 DEF TransformStructs, MergeStruct, MergePointer, IsDefault, PortAt, ProtocolAt
  <2> QED BY <2>4, <2>5
<1> QED BY <1>2, <1>4, <1>5, <1>6, <1>7 DEF Resolved

THEOREM Resolution == ResolutionSpec => []Resolved
<1>1. ASSUME UNCHANGED resolutionVars, Resolved PROVE Resolved'
  <2>1. layers' = layers /\ depth' = depth /\ ab' = ab
    BY <1>1 DEF resolutionVars
  <2>2. \A k, i : PortAt(k, i)' = PortAt(k, i) /\ ProtocolAt(k, i)' = ProtocolAt(k, i)
    BY <2>1 DEF PortAt, ProtocolAt
  <2>3. ResolutionTypeOK' /\ KeysOfAllLayers'
    BY <1>1, <2>1 DEF Resolved, ResolutionTypeOK, KeysOfAllLayers
  <2>4. SpecFields'
    BY <1>1, <2>1 DEF Resolved, SpecFields, FromNearest
  <2>5. StructFields'
    <3> SUFFICES ASSUME NEW k \in DOMAIN ab.routes
                 PROVE  /\ FromNearest(ab'.routes[k].port, depth', [i \in 1 .. depth' |-> PortAt(k, i)'])
                        /\ FromNearest(ab'.routes[k].protocol, depth', [i \in 1 .. depth' |-> ProtocolAt(k, i)'])
      BY <2>1 DEF StructFields
    <3>1. [i \in 1 .. depth' |-> PortAt(k, i)'] = [i \in 1 .. depth |-> PortAt(k, i)]
      BY <2>1, <2>2
    <3>2. [i \in 1 .. depth' |-> ProtocolAt(k, i)'] = [i \in 1 .. depth |-> ProtocolAt(k, i)]
      BY <2>1, <2>2
    <3> QED BY <1>1, <2>1, <3>1, <3>2 DEF Resolved, StructFields
  <2>6. StringsFromFarthest'
    BY <1>1, <2>1 DEF Resolved, StringsFromFarthest
  <2> QED BY <2>3, <2>4, <2>5, <2>6 DEF Resolved
<1> QED BY <1>1, InitResolved, StepResolved, PTL DEF ResolutionSpec, ResolutionNext

\* The fields of a spec and of the structs in its maps come from the nearest
\* layer that sets them, for a chain of any length.
THEOREM NearestWins == ResolutionSpec => []FieldsFromNearest
<1>1. Resolved => FieldsFromNearest
  BY DEF Resolved, SpecFields, StructFields, FieldsFromNearest
<1> QED BY <1>1, Resolution, PTL

\* Strings of maps come from the farthest layer that has the key.
THEOREM FarthestWins == ResolutionSpec => []StringsFromFarthest
<1>1. Resolved => StringsFromFarthest
  BY DEF Resolved
<1> QED BY <1>1, Resolution, PTL

\* No key of any layer's map is lost, and none is made up.
THEOREM KeysKept == ResolutionSpec => []KeysOfAllLayers
<1>1. Resolved => KeysOfAllLayers
  BY DEF Resolved
<1> QED BY <1>1, Resolution, PTL
=============================================================================
