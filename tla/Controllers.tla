------------------------------ MODULE Controllers ------------------------------
(***************************************************************************)
(* The two controllers of the atrok operator and everything they share.    *)
(*                                                                         *)
(* The AppBundle controller (controller.go) fetches a bundle, decides from *)
(* an in-memory cache whether it has work to do (state.go), resolves the   *)
(* chain of bases the bundle names (base_controller.go) and rolls the      *)
(* result out to the cluster (helpers.go, RunReconciles).  The             *)
(* AppBundleBase controller resets the in-memory state of every bundle     *)
(* that names a base.  Both run in one process, take locks from one table  *)
(* (framework.go, getMutex), are fed by work queues and read the API       *)
(* server through an informer cache that lags behind it.                   *)
(*                                                                         *)
(* An object is its content, the base it names and the resourceVersion of  *)
(* its last write; resourceVersions come from one counter, as etcd's do.   *)
(***************************************************************************)
EXTENDS Naturals, FiniteSets

CONSTANTS
  Bundles,        \* AppBundles, as namespace/name keys
  Bases,          \* AppBundleBases, as names (they are cluster-scoped)
  Contents,       \* contents of a spec, its base field aside
  BundleWorkers,  \* reconcile goroutines of the AppBundle controller
  BaseWorkers,    \* reconcile goroutines of the AppBundleBase controller
  Mutexes,        \* entries of the table behind getMutex
  MutexOf,        \* the entry an object's type, name and namespace select
  MayName,        \* MayName[k]: what a user may write into k's base field
  Clock,          \* what time.Now().Unix() may return
  None,           \* nil, absent, unregistered or free, by context
  NoHash,         \* the empty string, as a SpecHash
  MaxWrites,      \* bound on the writes of users
  MaxFaults,      \* bound on failing calls to the API server
  MaxCrashes      \* bound on restarts of the operator process

Keys    == Bundles \cup Bases
Workers == BundleWorkers \cup BaseWorkers

Objects == [content : Contents, base : Bases \cup {None}, rv : Nat]
Hashes  == (Contents \X (Bases \cup {None})) \cup {NoHash}
Entries == [hash : Hashes, last : Nat]
Rollouts == [obj : Objects, merged : SUBSET (Bases \X Nat)]

ASSUME KindsAssumption ==
  /\ Bundles \cap Bases = {}
  /\ BundleWorkers \cap BaseWorkers = {}
  /\ None \notin Keys \cup Workers \cup Objects \cup Entries \cup Rollouts
  /\ NoHash \notin Contents \X (Bases \cup {None})

(***************************************************************************)
(* "<name>-<namespace>" may be the same text for two bundles (web-a in b   *)
(* and web in a-b), so bundles may share an entry; an AppBundle and an     *)
(* AppBundleBase never do, for the table is split by resource type, and    *)
(* neither do two bases, whose namespace is empty.                         *)
(***************************************************************************)
ASSUME MutexAssumption ==
  /\ MutexOf \in [Keys -> Mutexes]
  /\ \A b \in Bundles, a \in Bases : MutexOf[b] # MutexOf[a]
  /\ \A a1, a2 \in Bases : MutexOf[a1] = MutexOf[a2] => a1 = a2

ASSUME BoundsAssumption ==
  /\ MayName \in [Keys -> SUBSET (Bases \cup {None})]
  /\ {MaxWrites, MaxFaults, MaxCrashes} \subseteq Nat

\* The clock of a cluster is past 1970-01-01T00:00:30Z.
ASSUME ClockAssumption == Clock \subseteq Nat /\ \A now \in Clock : now > 30

VARIABLES
  cluster,   \* the API server: key -> object, or None
  cached,    \* the informer caches: key -> object last seen, or None
  queue,     \* keys to reconcile: at once, after RequeueAfter or after backoff
  State,     \* state.go's map: key -> entry, or None when not registered
  mutex,     \* entry of the mutex table -> the worker that holds it, or None
  pc,        \* worker -> where it is in Reconcile
  key,       \* worker -> the request it works on, or None
  obj,       \* worker -> the object it fetched, or None
  known,     \* worker -> stateAlreadyRegistered
  follow,    \* bundle worker -> the base it has still to fetch, or None
  merged,    \* bundle worker -> the bases merged so far, with their versions
  listed,    \* base worker -> the bundles it found to name its base
  todo,      \* base worker -> those of them it has not been through
  child,     \* base worker -> the one it is at, or None
  applied,   \* bundle -> what was last rolled out for it, or None
  writes, faults, crashes

localVars == <<pc, key, obj, known, follow, merged, listed, todo, child>>
bounds    == <<writes, faults, crashes>>
vars == <<cluster, cached, queue, State, mutex, localVars, applied,
          bounds>>

CommonSteps == {"idle", "lock", "get", "register", "check"}
BundleSteps == CommonSteps \cup {"base", "run"}
BaseSteps   == CommonSteps \cup {"list", "children", "childLock", "child",
                                 "status"}

TypeOK ==
  /\ cluster \in [Keys -> Objects \cup {None}]
  /\ cached \in [Keys -> Objects \cup {None}]
  /\ queue \subseteq Keys
  /\ State \in [Keys -> Entries \cup {None}]
  /\ mutex \in [Mutexes -> Workers \cup {None}]
  /\ pc \in [Workers -> BundleSteps \cup BaseSteps]
  /\ \A w \in BundleWorkers : pc[w] \in BundleSteps
  /\ \A w \in BaseWorkers : pc[w] \in BaseSteps
  /\ key \in [Workers -> Keys \cup {None}]
  /\ obj \in [Workers -> Objects \cup {None}]
  /\ known \in [Workers -> BOOLEAN]
  /\ follow \in [Workers -> Bases \cup {None}]
  /\ merged \in [Workers -> SUBSET (Bases \X Nat)]
  /\ listed \in [Workers -> SUBSET (Bundles \X Nat)]
  /\ todo \in [Workers -> SUBSET (Bundles \X Nat)]
  /\ child \in [Workers -> (Bundles \X Nat) \cup {None}]
  /\ applied \in [Bundles -> Rollouts \cup {None}]
  /\ writes \in Nat /\ faults \in Nat /\ crashes \in Nat

-----------------------------------------------------------------------------
(***************************************************************************)
(* state.go                                                                *)
(***************************************************************************)

\* GetSpecHash covers the whole spec, the base field included, and is not "".
GetSpecHash(o) == <<o.content, o.base>>

\* time.Unix(0, 0); nothing moves it on.
Epoch == 0

NewEntry(o) == [hash |-> GetSpecHash(o), last |-> Epoch]

\* Nothing in the repository writes Status.LastReconciliation.
GetLastReconciliation == FALSE

\* Mutant: a bundle is left alone until its own spec changes.
HashDiffers(entry, o, alreadyRegistered, now) ==
  ~alreadyRegistered \/ entry.hash # GetSpecHash(o)

StateNeedsUpdating(entry, o, alreadyRegistered, now) ==
  \/ ~alreadyRegistered
  \/ entry.hash # GetSpecHash(o)
  \/ ~GetLastReconciliation
  \/ now - entry.last > 30

-----------------------------------------------------------------------------
(***************************************************************************)
(* The world of the operator: users, the watch, the queues, the process.   *)
(***************************************************************************)

UserWrite(k) ==
  /\ writes < MaxWrites
  /\ writes' = writes + 1
  /\ \E c \in Contents, a \in MayName[k] :
        LET new == [content |-> c, base |-> a, rv |-> writes + 1]
        IN /\ cluster[k] # None => GetSpecHash(new) # GetSpecHash(cluster[k])
           /\ cluster' = [cluster EXCEPT ![k] = new]
  /\ UNCHANGED <<cached, queue, State, mutex, localVars, applied,
                 faults, crashes>>

UserDelete(k) ==
  /\ writes < MaxWrites
  /\ writes' = writes + 1
  /\ cluster[k] # None
  /\ cluster' = [cluster EXCEPT ![k] = None]
  /\ UNCHANGED <<cached, queue, State, mutex, localVars, applied,
                 faults, crashes>>

\* An event reaches the informer: the cache follows, the key is queued.
Watch(k) ==
  /\ cached[k] # cluster[k]
  /\ cached' = [cached EXCEPT ![k] = cluster[k]]
  /\ queue' = queue \cup {k}
  /\ UNCHANGED <<cluster, State, mutex, localVars, applied, bounds>>

Serves(w, k) == (w \in BundleWorkers) = (k \in Bundles)

\* The work queue hands a key to one worker at a time.
Dequeue(w, k) ==
  /\ Serves(w, k)
  /\ pc[w] = "idle"
  /\ k \in queue
  /\ \A v \in Workers : key[v] # k
  /\ queue' = queue \ {k}
  /\ pc' = [pc EXCEPT ![w] = "lock"]
  /\ key' = [key EXCEPT ![w] = k]
  /\ UNCHANGED <<cluster, cached, State, mutex, obj, known, follow,
                 merged, listed, todo, child, applied, bounds>>

EveryWorker(x) == [w \in Workers |-> x]

\* A process that starts has empty memory, and lists what is there.
Restart ==
  /\ crashes < MaxCrashes
  /\ crashes' = crashes + 1
  /\ cached' = cluster
  /\ queue' = {k \in Keys : cluster[k] # None}
  /\ State' = [k \in Keys |-> None]
  /\ mutex' = [m \in Mutexes |-> None]
  /\ pc' = EveryWorker("idle")
  /\ key' = EveryWorker(None)
  /\ obj' = EveryWorker(None)
  /\ known' = EveryWorker(FALSE)
  /\ follow' = EveryWorker(None)
  /\ merged' = EveryWorker({})
  /\ listed' = EveryWorker({})
  /\ todo' = EveryWorker({})
  /\ child' = EveryWorker(None)
  /\ UNCHANGED <<cluster, applied, writes, faults>>

-----------------------------------------------------------------------------
(***************************************************************************)
(* The part the two Reconcile functions have in common.                    *)
(***************************************************************************)

Step(w, from, to) ==
  /\ pc[w] = from
  /\ pc' = [pc EXCEPT ![w] = to]

\* A call that may fail does so within the bound.
Fault ==
  /\ faults < MaxFaults
  /\ faults' = faults + 1

\* Mutant: a pass that ends leaves it to the next event to come back.
ReturnWithoutRequeue(w, held) ==
  /\ mutex' = [m \in Mutexes |-> IF m \in held THEN None ELSE mutex[m]]
  /\ pc' = [pc EXCEPT ![w] = "idle"]
  /\ key' = [key EXCEPT ![w] = None]
  /\ obj' = [obj EXCEPT ![w] = None]
  /\ known' = [known EXCEPT ![w] = FALSE]
  /\ follow' = [follow EXCEPT ![w] = None]
  /\ merged' = [merged EXCEPT ![w] = {}]
  /\ listed' = [listed EXCEPT ![w] = {}]
  /\ todo' = [todo EXCEPT ![w] = {}]
  /\ child' = [child EXCEPT ![w] = None]
  /\ UNCHANGED queue

\* Mutant: bundle and bases are merged in memory that the next pass finds.
ReturnKeepsMerged(w, held) ==
  /\ mutex' = [m \in Mutexes |-> IF m \in held THEN None ELSE mutex[m]]
  /\ queue' = queue \cup {key[w]}
  /\ pc' = [pc EXCEPT ![w] = "idle"]
  /\ key' = [key EXCEPT ![w] = None]
  /\ obj' = [obj EXCEPT ![w] = None]
  /\ known' = [known EXCEPT ![w] = FALSE]
  /\ follow' = [follow EXCEPT ![w] = None]
  /\ listed' = [listed EXCEPT ![w] = {}]
  /\ todo' = [todo EXCEPT ![w] = {}]
  /\ child' = [child EXCEPT ![w] = None]
  /\ UNCHANGED merged

(***************************************************************************)
(* Reconcile returns: its deferred Unlock runs, with the Unlock of the     *)
(* child on the paths that hold one, and the request is scheduled again.   *)
(* A Result with RequeueAfter queues it later; so does an error, which    *)
(* makes controller-runtime ignore RequeueAfter and retry with backoff.    *)
(***************************************************************************)
Return(w, held) ==
  /\ mutex' = [m \in Mutexes |-> IF m \in held THEN None ELSE mutex[m]]
  /\ queue' = queue \cup {key[w]}
  /\ pc' = [pc EXCEPT ![w] = "idle"]
  /\ key' = [key EXCEPT ![w] = None]
  /\ obj' = [obj EXCEPT ![w] = None]
  /\ known' = [known EXCEPT ![w] = FALSE]
  /\ follow' = [follow EXCEPT ![w] = None]
  /\ merged' = [merged EXCEPT ![w] = {}]
  /\ listed' = [listed EXCEPT ![w] = {}]
  /\ todo' = [todo EXCEPT ![w] = {}]
  /\ child' = [child EXCEPT ![w] = None]

Own(w) == {MutexOf[key[w]]}

Lock(w) ==
  /\ Step(w, "lock", "get")
  /\ mutex[MutexOf[key[w]]] = None
  /\ mutex' = [mutex EXCEPT ![MutexOf[key[w]]] = w]
  /\ UNCHANGED <<cluster, cached, queue, State, key, obj, known,
                 follow, merged, listed, todo, child, applied, bounds>>

Get(w) ==
  /\ Step(w, "get", "register")
  /\ cached[key[w]] # None
  /\ obj' = [obj EXCEPT ![w] = cached[key[w]]]
  /\ UNCHANGED <<cluster, cached, queue, State, mutex, key, known,
                 follow, merged, listed, todo, child, applied, bounds>>

\* Mutant: the Unlock is not deferred, and missing from this path.
GetFailsLocked(w) ==
  /\ pc[w] = "get"
  /\ cached[key[w]] = None
  /\ Return(w, {})
  /\ UNCHANGED <<cluster, cached, State, applied, bounds>>

\* NotFound is an error like any other: a deleted object is retried forever.
GetFails(w) ==
  /\ pc[w] = "get"
  /\ \/ cached[key[w]] = None /\ UNCHANGED faults
     \/ Fault
  /\ Return(w, Own(w))
  /\ UNCHANGED <<cluster, cached, State, applied, writes, crashes>>

\* Mutant: an entry that is there is overwritten.
RegisterState(w) ==
  /\ Step(w, "register", "check")
  /\ known' = [known EXCEPT ![w] = State[key[w]] # None]
  /\ State' = [State EXCEPT ![key[w]] = NewEntry(obj[w])]
  /\ UNCHANGED <<cluster, cached, queue, mutex, key, obj, follow,
                 merged, listed, todo, child, applied, bounds>>

RegisterStateIfNotAlreadyRegistered(w) ==
  /\ Step(w, "register", "check")
  /\ known' = [known EXCEPT ![w] = State[key[w]] # None]
  /\ State' = IF State[key[w]] = None
              THEN [State EXCEPT ![key[w]] = NewEntry(obj[w])]
              ELSE State
  /\ UNCHANGED <<cluster, cached, queue, mutex, key, obj, follow,
                 merged, listed, todo, child, applied, bounds>>

NeedsUpdating(w, now) ==
  StateNeedsUpdating(State[key[w]], obj[w], known[w], now)

Check(w) ==
  /\ pc[w] = "check"
  /\ \E now \in Clock :
       IF NeedsUpdating(w, now)
       THEN /\ pc' = [pc EXCEPT ![w] = IF w \in BaseWorkers THEN "list"
                                       ELSE IF obj[w].base = None THEN "run"
                                       ELSE "base"]
            /\ follow' = IF w \in BaseWorkers THEN follow
                         ELSE [follow EXCEPT ![w] = obj[w].base]
            /\ UNCHANGED <<queue, mutex, key, obj, known, merged, listed,
                           todo, child>>
       ELSE Return(w, Own(w))
  /\ UNCHANGED <<cluster, cached, State, applied, bounds>>

-----------------------------------------------------------------------------
(***************************************************************************)
(* The AppBundle controller.                                               *)
(***************************************************************************)

\* ResolveAppBundleBase, one level: merge the base, go on with its own base.
MergeBase(w) ==
  /\ pc[w] = "base"
  /\ cached[follow[w]] # None
  /\ LET abb == cached[follow[w]]
     IN /\ merged' = [merged EXCEPT ![w] = @ \cup {<<follow[w], abb.rv>>}]
        /\ follow' = [follow EXCEPT ![w] = abb.base]
        /\ pc' = [pc EXCEPT ![w] = IF abb.base = None THEN "run" ELSE "base"]
  /\ UNCHANGED <<cluster, cached, queue, State, mutex, key, obj,
                 known, listed, todo, child, applied, bounds>>

\* The Get of the base the bundle itself names fails, for whatever reason.
ResolveFails(w) ==
  /\ pc[w] = "base"
  /\ merged[w] = {}
  /\ \/ cached[follow[w]] = None /\ UNCHANGED faults
     \/ Fault
  /\ Return(w, Own(w))
  /\ UNCHANGED <<cluster, cached, State, applied, writes, crashes>>

(***************************************************************************)
(* The Get of the base of a base fails, for whatever reason:               *)
(* ResolveAppBundleBase returns the err of the ToAppBundle call above,     *)
(* which is nil, and the pass goes on with what it has merged.             *)
(***************************************************************************)
NestedGetFails(w) ==
  /\ Step(w, "base", "run")
  /\ merged[w] # {}
  /\ \/ cached[follow[w]] = None /\ UNCHANGED faults
     \/ Fault
  /\ UNCHANGED <<cluster, cached, queue, State, mutex, key, obj, known,
                 follow, merged, listed, todo, child, applied, writes, crashes>>

RunReconciles(w) ==
  /\ pc[w] = "run"
  /\ \/ /\ applied' = [applied EXCEPT ![key[w]] =
                         [obj |-> obj[w], merged |-> merged[w]]]
        /\ UNCHANGED faults
     \/ Fault /\ UNCHANGED applied
  /\ Return(w, Own(w))
  /\ UNCHANGED <<cluster, cached, State, writes, crashes>>

-----------------------------------------------------------------------------
(***************************************************************************)
(* The AppBundleBase controller.                                           *)
(***************************************************************************)

\* The bundles in the cache that name base a, with the version listed.
Children(a) ==
  {<<b, cached[b].rv>> : b \in {x \in Bundles : /\ cached[x] # None
                                                /\ cached[x].base = a}}

List(w) ==
  /\ Step(w, "list", "children")
  /\ listed' = [listed EXCEPT ![w] = Children(key[w])]
  /\ todo' = [todo EXCEPT ![w] = Children(key[w])]
  /\ UNCHANGED <<cluster, cached, queue, State, mutex, key, obj,
                 known, follow, merged, child, applied, bounds>>

ListFails(w) ==
  /\ pc[w] = "list"
  /\ Fault
  /\ Return(w, Own(w))
  /\ UNCHANGED <<cluster, cached, State, applied, writes, crashes>>

\* The loop takes the next bundle of the list, whoever holds its mutex.
NextChild(w) ==
  /\ Step(w, "children", "childLock")
  /\ \E c \in todo[w] : child' = [child EXCEPT ![w] = c]
  /\ UNCHANGED <<cluster, cached, queue, State, mutex, key, obj,
                 known, follow, merged, listed, todo, applied, bounds>>

\* Mutant: the entry is looked up by another name than the bundle's own pass uses.
ChildMutexByName(w) == CHOOSE m \in Mutexes : \A k \in Keys : MutexOf[k] # m

ChildMutex(w) == MutexOf[child[w][1]]

LockChild(w) ==
  /\ Step(w, "childLock", "child")
  /\ mutex[ChildMutex(w)] = None
  /\ mutex' = [mutex EXCEPT ![ChildMutex(w)] = w]
  /\ UNCHANGED <<cluster, cached, queue, State, key, obj, known,
                 follow, merged, listed, todo, child, applied, bounds>>

\* Mutant: GetState hands out a copy of the entry.
ResetHashOfCopy(w) ==
  /\ Step(w, "child", "status")
  /\ State[child[w][1]] # None
  /\ UNCHANGED <<cluster, cached, queue, State, mutex, key, obj, known,
                 follow, merged, listed, todo, child, applied, bounds>>

ResetHash(w) ==
  /\ Step(w, "child", "status")
  /\ State[child[w][1]] # None
  /\ State' = [State EXCEPT ![child[w][1]].hash = NoHash]
  /\ UNCHANGED <<cluster, cached, queue, mutex, key, obj, known,
                 follow, merged, listed, todo, child, applied, bounds>>

\* GetState fails: the rest of the list waits for the pass of 5 seconds later.
ChildNotRegistered(w) ==
  /\ pc[w] = "child"
  /\ State[child[w][1]] = None
  /\ Return(w, Own(w) \cup {ChildMutex(w)})
  /\ UNCHANGED <<cluster, cached, State, applied, bounds>>

\* The status sent is the status stored, so an accepted update writes nothing.
Listable(c) == cluster[c[1]] # None /\ cluster[c[1]].rv = c[2]

\* Mutant: the Unlock of a bundle is deferred, and runs when Reconcile returns.
StatusUpdateDefersUnlock(w) ==
  /\ Step(w, "status", "children")
  /\ Listable(child[w])
  /\ todo' = [todo EXCEPT ![w] = @ \ {child[w]}]
  /\ child' = [child EXCEPT ![w] = None]
  /\ UNCHANGED <<cluster, cached, queue, State, mutex, key, obj, known,
                 follow, merged, listed, applied, bounds>>

StatusUpdate(w) ==
  /\ Step(w, "status", "children")
  /\ Listable(child[w])
  /\ mutex' = [mutex EXCEPT ![ChildMutex(w)] = None]
  /\ todo' = [todo EXCEPT ![w] = @ \ {child[w]}]
  /\ child' = [child EXCEPT ![w] = None]
  /\ UNCHANGED <<cluster, cached, queue, State, key, obj, known,
                 follow, merged, listed, applied, bounds>>

\* Mutant: this error path forgets the Unlock of the bundle.
StatusUpdateFailsLocked(w) ==
  /\ pc[w] = "status"
  /\ ~Listable(child[w])
  /\ Return(w, Own(w))
  /\ UNCHANGED <<cluster, cached, State, applied, bounds>>

\* Conflict, NotFound, or a call that fails: the rest of the list is left.
StatusUpdateFails(w) ==
  /\ pc[w] = "status"
  /\ \/ ~Listable(child[w]) /\ UNCHANGED faults
     \/ Fault
  /\ Return(w, Own(w) \cup {ChildMutex(w)})
  /\ UNCHANGED <<cluster, cached, State, applied, writes, crashes>>

ListDone(w) ==
  /\ pc[w] = "children"
  /\ todo[w] = {}
  /\ Return(w, Own(w))
  /\ UNCHANGED <<cluster, cached, State, applied, bounds>>

-----------------------------------------------------------------------------

Prologue(w) ==
  \/ Lock(w) \/ Get(w) \/ GetFails(w)
  \/ RegisterStateIfNotAlreadyRegistered(w) \/ Check(w)

\* Reconcile of the AppBundleReconciler.
ReconcileBundle(w) ==
  \/ Prologue(w)
  \/ MergeBase(w) \/ ResolveFails(w) \/ NestedGetFails(w)
  \/ RunReconciles(w)

\* Reconcile of the AppBundleBaseReconciler.
ReconcileBase(w) ==
  \/ Prologue(w)
  \/ List(w) \/ ListFails(w) \/ NextChild(w) \/ LockChild(w)
  \/ ResetHash(w) \/ ChildNotRegistered(w)
  \/ StatusUpdate(w) \/ StatusUpdateFails(w) \/ ListDone(w)

User == \E k \in Keys : UserWrite(k) \/ UserDelete(k)

Init ==
  /\ cluster \in [Keys -> {None} \cup
                  [content : Contents, base : Bases \cup {None}, rv : {0}]]
  /\ \A k \in Keys : cluster[k] # None => cluster[k].base \in MayName[k]
  /\ queue = {k \in Keys : cluster[k] # None}
  /\ cached = cluster
  /\ State = [k \in Keys |-> None]
  /\ mutex = [m \in Mutexes |-> None]
  /\ pc = EveryWorker("idle")
  /\ key = EveryWorker(None)
  /\ obj = EveryWorker(None)
  /\ known = EveryWorker(FALSE)
  /\ follow = EveryWorker(None)
  /\ merged = EveryWorker({})
  /\ listed = EveryWorker({})
  /\ todo = EveryWorker({})
  /\ child = EveryWorker(None)
  /\ applied = [b \in Bundles |-> None]
  /\ writes = 0 /\ faults = 0 /\ crashes = 0

Next ==
  \/ User
  \/ \E k \in Keys : Watch(k)
  \/ \E w \in Workers, k \in Keys : Dequeue(w, k)
  \/ \E w \in BundleWorkers : ReconcileBundle(w)
  \/ \E w \in BaseWorkers : ReconcileBase(w)
  \/ Restart

Spec == Init /\ [][Next]_vars

-----------------------------------------------------------------------------
(***************************************************************************)
(* Safety.                                                                 *)
(***************************************************************************)

HoldsOwn(w)   == pc[w] \notin {"idle", "lock"}
HoldsChild(w) == pc[w] \in {"child", "status"}

\* What the Lock and Unlock calls on w's way so far leave it holding.
Held(w) == {m \in Mutexes : \/ HoldsOwn(w) /\ m = MutexOf[key[w]]
                            \/ HoldsChild(w) /\ m = ChildMutex(w)}

(***************************************************************************)
(* Every return path of the two Reconcile functions, the error paths in    *)
(* the middle of the base controller's loop included, leaves exactly the   *)
(* mutexes unlocked that it should: a mutex is held if and only if some    *)
(* worker is between its Lock and its Unlock, and by that worker.          *)
(***************************************************************************)
NoLeakedLock ==
  \A m \in Mutexes, w \in Workers : mutex[m] = w <=> m \in Held(w)

(***************************************************************************)
(* GetState hands out a pointer and StateMutex is unlocked by the time its *)
(* SpecHash is read (state.go, StateNeedsUpdating) or cleared              *)
(* (base_controller.go): it is the bundle's mutex that keeps the base      *)
(* controller from writing the hash while the bundle's own pass reads it.  *)
(***************************************************************************)
ReadsHash(w, k)  == pc[w] = "check" /\ known[w] /\ key[w] = k
WritesHash(w, k) == pc[w] = "child" /\ child[w][1] = k /\ State[k] # None

SpecHashNeverRaced ==
  \A k \in Keys, v \in Workers, w \in Workers :
    v # w /\ WritesHash(v, k) => ~ReadsHash(w, k) /\ ~WritesHash(w, k)

WaitsFor(w, m) ==
  \/ pc[w] = "lock" /\ m = MutexOf[key[w]]
  \/ pc[w] = "childLock" /\ m = ChildMutex(w)

(***************************************************************************)
(* The base controller takes a second mutex while it holds one, the bundle *)
(* controller never does, and keys are not given to two workers: whoever   *)
(* waits for a mutex waits for a worker that is running, so no circle of   *)
(* waiting workers can form, even when two bundles share an entry.         *)
(***************************************************************************)
NobodyWaitsForAWaiter ==
  \A m \in Mutexes, v, w \in Workers :
    WaitsFor(w, m) /\ mutex[m] = v => \A n \in Mutexes : ~WaitsFor(v, n)

(***************************************************************************)
(* A key the informers have seen an object for is never dropped: whatever  *)
(* way a pass ends, its request is queued again, so that a bundle follows  *)
(* the edits of its bases, for which no event of its own ever comes.       *)
(***************************************************************************)
NeverForgotten ==
  \A k \in Keys :
    cached[k] # None => k \in queue \/ \E w \in Workers : key[w] = k

(***************************************************************************)
(* The bundles a base's pass has left behind it are all still marked for   *)
(* an update: no pass of a bundle, which runs in between or at the same    *)
(* time, has put a hash back that would hide the change of the base.       *)
(***************************************************************************)
ResetsStay ==
  \A w \in BaseWorkers : \A c \in listed[w] :
    c \notin todo[w] \/ (pc[w] = "status" /\ c = child[w]) =>
      State[c[1]] # None /\ State[c[1]].hash = NoHash

-----------------------------------------------------------------------------
(***************************************************************************)
(* Liveness.  The workers of a running process get CPU time, the watch     *)
(* delivers, the work queue is a FIFO one, so that a key in it has its     *)
(* turn again and again, and a Go mutex goes to the longest waiter after a *)
(* millisecond, so that a waiter is not passed over forever.               *)
(***************************************************************************)

Fairness ==
  /\ \A k \in Keys : WF_vars(Watch(k))
  /\ \A w \in BundleWorkers : WF_vars(ReconcileBundle(w))
  /\ \A w \in BaseWorkers : WF_vars(ReconcileBase(w))
  /\ \A w \in Workers : SF_vars(Lock(w))
  /\ \A w \in BaseWorkers : SF_vars(LockChild(w))
  /\ \A w \in BundleWorkers, b \in Bundles : SF_vars(Dequeue(w, b))
  /\ \A w \in BaseWorkers, a \in Bases : SF_vars(Dequeue(w, a))

FairSpec == Spec /\ Fairness

\* A pass that starts comes to an end, even when it waits for mutexes.
EveryPassEnds == \A w \in Workers : pc[w] # "idle" ~> pc[w] = "idle"

Exists(a) == a # None /\ cluster[a] # None

\* The last rollout of b is of b as it is now and of all of its bases as
\* they are now, those its bases name included, as far as they exist.
UpToDate(b) ==
  /\ applied[b] # None
  /\ applied[b].obj = cluster[b]
  /\ \A m \in applied[b].merged : Exists(m[1]) /\ cluster[m[1]].rv = m[2]
  /\ LET mergedBases == {m[1] : m \in applied[b].merged}
     IN \A a \in {cluster[b].base} \cup {cluster[x].base : x \in mergedBases} :
          Exists(a) => a \in mergedBases

Deployable(b) == Exists(b) /\ (cluster[b].base = None \/ Exists(cluster[b].base))

(***************************************************************************)
(* Once the users leave a bundle be, with the base it names in place, its  *)
(* resources follow: the edit that came last is rolled out, be it of the   *)
(* bundle, of its base or of a base further up, whatever failed before.    *)
(***************************************************************************)
EventuallyApplied ==
  \A b \in Bundles : <>[]Deployable(b) => <>[]UpToDate(b)

(***************************************************************************)
(* Once a bundle and the base it names stay, the base controller gets to   *)
(* it and marks it: the passes that gave up at a bundle not yet registered *)
(* or on a conflict come back until one goes through.                      *)
(***************************************************************************)
EventuallyReset ==
  \A b \in Bundles :
    <>[](Exists(b) /\ Exists(cluster[b].base))
      => <>[](State[b] # None /\ State[b].hash = NoHash)

-----------------------------------------------------------------------------
\* Queues, caches, locks and passes put aside.
Rolling == INSTANCE OrderedRollouts
             WITH cluster <- cluster, applied <- applied, writes <- writes

(***************************************************************************)
(* The controllers implement OrderedRollouts: whatever workers, informers  *)
(* and restarts do, a rollout never puts back what an earlier one had      *)
(* replaced, be it of the bundle or of one of its bases.                   *)
(***************************************************************************)
RolloutsOrdered == Rolling!Spec
================================================================================
