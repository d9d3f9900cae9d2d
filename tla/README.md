# Specifications of the atrok operator

atrok is a Kubernetes operator. A user writes an `AppBundle` (one application:
image, environment, routes, volumes, configs) and, optionally, a chain of
`AppBundleBase` objects with what many bundles have in common. The operator
merges the chain into the bundle and keeps a Deployment, a Service, Ingresses,
a ConfigMap, an ExternalSecret and PersistentVolumeClaims as the result says.

This directory holds TLA+ models of it, the TLC runs that check them on small
instances, and proofs that TLAPS checks for all values of the constants.
`PROJECT.json` lists components, runs, mutants, findings, hazards and theorems,
and maps every definition to the lines it stands for. Paths are relative to
`src/`; `controller/` is short for `internal/controller/`.

## 1. The system

| component | code | state it keeps | operations | module |
|---|---|---|---|---|
| AppBundle controller | `controller/controller.go` | none of its own | `Reconcile` | `Controllers` |
| AppBundleBase controller | `controller/base_controller.go` | none of its own | `Reconcile` | `Controllers` |
| State cache | `controller/state.go` | `State`: id -> hash of the spec, time | register, get, needs updating | `Controllers` |
| Mutex table | `controller/framework.go` | type, name-namespace -> mutex | `getMutex` | `Controllers` |
| Base resolution and merge | `controller/base_controller.go` 142-201, `api/v1alpha1` | the bundle being merged | `ResolveAppBundleBase`, `mapTransformer`, `MergeDictValues` | `BaseResolution`, `Controllers` |
| RunReconciles | `controller/helpers.go` 110-123 | an errgroup and the bundle | six sub-reconcilers at once | `Reconciles`; one step of `Controllers` |
| UpsertResource | `controller/helpers.go` 65-107 | none | create, update, delete and create | `Upserts` |
| ConfigMap | `controller/config_map.go` | object on the API server | get, compare, upsert or delete, restart the pod | `ConfigMaps` |
| ExternalSecret | `controller/secrets.go` | object on the API server | get, compare, delete, upsert | `ExternalSecrets` |
| Deployment | `controller/deployment.go` | object on the API server | get, compare, upsert | `Deployments`, `Mounts` |
| Service | `controller/service.go` | object on the API server | get, compare, upsert or delete | `Services` |
| Ingress | `controller/ingress.go` | objects on the API server | list, delete, get, upsert | `Ingresses` |
| Volumes | `controller/volumes.go` | claims on the API server | get, compare, upsert | `Volumes` |
| Longhorn job | `controller/longhorn_backups_plugin.go` | object on the API server | find an owner, compare, upsert | `Volumes` |
| Homepage annotations | `controller/get_homepage_plugin.go` | none | a pure function | `Ingresses` |
| Process | `cmd/main.go` | everything in memory | start, restart | `Restart` in `Controllers` and `Upserts` |

How they interact:

- The API server and controller-runtime are outside. Informers feed a cache
  that lags; the cache answers every `Get` and `List`; every event of an object
  puts its key into a work queue; each controller has one worker.
- The bundle controller takes the bundle's mutex, gets the bundle, registers
  its hash in `State`, follows the chain of bases with one `Get` each, and runs
  six sub-reconcilers in goroutines. Each of these takes a mutex of its own
  kind, compares what it expects with what the cache has, and calls
  `UpsertResource`.
- The base controller takes the base's mutex, lists the bundles, and for each
  that names the base takes the bundle's mutex, clears the bundle's hash in
  `State` through the pointer that `GetState` hands out, and writes the
  bundle's status.
- No event of a base reaches a bundle, and none of a base of a base. What
  carries a change on is that every pass asks to be run again (`RequeueAfter`,
  or an error).

What is hard here: two controllers on shared memory with two levels of locks
and many return paths; work done on a cache that lags; a rollout of several
calls that may stop after each; a comparison that ignores much on purpose; a
merge with different directions for different types; Go slices and maps that
are shared without being copied. The list `hazards` of `PROJECT.json` has each
at its line with the properties that watch over it, or why none does yet.

What makes each component right:

- controllers: no mutex leaks on any path, no data race on an entry, no
  deadlock, no key is dropped, resets last, the last edit of the bundle or of
  any of its bases is rolled out in the end, and no rollout goes back to an
  older version of one of them (`OrderedRollouts`);
- base resolution: every part of the result comes from the right layer, and no
  key is lost;
- each sub-reconciler: what it writes is what one version of the bundle says,
  never an older one again (`FollowedBundle`); once the bundle is left alone, the
  object comes to say what the bundle says, and the passes stop to write, but for
  the three cases in which the code never stops (section 3);
- the group of sub-reconcilers: volumes that can be reconciled come to cancel the
  work of the others no more;
- what users own stays: claims, their data, and labels that others put on them;
- destructive steps (the pod restart, the two ways to delete and create) happen
  for their reason only, and are made up for.

## 2. Modules

| module | what it is | extends |
|---|---|---|
| `OrderedRollouts` | abstract: what the controllers promise of rollouts | |
| `Controllers` | both controllers, state, mutexes, queues, informers, process | instantiates `OrderedRollouts` |
| `BaseResolution` | the merge of a chain of layers | |
| `Upserts` | users, API server, informer of one kind, `UpsertResource` | |
| `FollowedBundle` | abstract: what a sub-reconciler promises of the objects it keeps | |
| `ConfigMaps`, `ExternalSecrets`, `Deployments`, `Services`, `Ingresses` | one sub-reconciler each | `Upserts`; instantiate `FollowedBundle` |
| `Volumes` | the steps of `ReconcileVolumes` and of the backup job | `Upserts` |
| `Reconciles` | the group of goroutines over `Volumes` and a sibling | `Volumes` |
| `Mounts` | the slices of `CreateExpectedDeployment` | |
| `MC...` | constants for TLC | the module of that name |
| `ControllersProofs` | theorems and proofs about `controller.go`, `state.go` and `base_controller.go` | `Controllers`, `BaseResolution`, `TLAPS` |
| `UpsertsProofs` | lemmas about the steps of `Upserts`, lists made of maps | `Upserts`, `TLAPS` |
| `DeploymentsProofs` | theorems and proofs about `deployment.go` | `Deployments`, `Mounts`, `UpsertsProofs` |
| `ConfigMapsProofs`, `ExternalSecretsProofs`, `ServicesProofs`, `IngressesProofs`, `ReconcilesProofs` | theorems and proofs | the module and `UpsertsProofs` |

Operators after a comment that begins with "Mutant:" are no part of the model.
Each is a plausible bug in the definition that follows it, and `PROJECT.json`
names the property that finds it.

### Controllers

A label in `pc[w]` is a place in `Reconcile` between two steps that other
threads may see; `StateMutex` makes each use of `State` one step. `Lock`,
`Get`, `GetFails`, `RegisterStateIfNotAlreadyRegistered` and `Check` are common
to both controllers; `MergeBase`, `ResolveFails`, `NestedGetFails` and
`RunReconciles` are the bundle's; `List` to `ListDone` the base's. `Return` is
what every return does: the deferred Unlock, the Unlock of a child where the
path has one, and the requeue. Delays are not modelled: a key to be retried is
in `queue` at once, and any time may pass until it is taken out.

`UserWrite`, `UserDelete`, `Watch` and `Dequeue` are the world. An object has a
content, the base it names, and the version of its last write. `applied[b]`
remembers the bundle and the versions of the bases that were last rolled out.

Simplifications: `RunReconciles` succeeds or fails as a whole, and a failure
leaves `applied` as it was. `LastReconciliation` is never written by the code
(`UpdateState` has no caller), so that a pass is never skipped, and the model
says so with the code's own condition (`StateNeedsUpdating`) over any clock
past thirty seconds (`Epoch` is the `time.Unix(0, 0)` of state.go:62). A `Get` of
the base that the bundle names ends the pass with its error (`ResolveFails`);
one further on in the chain, whether the object is missing or the call fails,
ends the resolution without one, and the pass rolls out what it has merged
(`NestedGetFails`, base_controller.go:160-161). Merging and converting a base
fail on no two values of these types, and have no failing step. The status update sends the status it has read, which
writes nothing; what counts is that it fails on an old version.

### OrderedRollouts

An abstract specification: objects are written, and now and then a bundle is
rolled out with bases merged into it. A rollout takes versions there have been,
takes the base that the bundle names, and takes nothing older than the rollout
of the bundle before it. It may take less of the chain than there is, as the
code does when a nested `Get` fails. `Controllers` keeps its variables `cluster` and
`applied` for that; `writes` counts versions in both. The refinement mapping is
therefore the identity: `RolloutsOrdered` is the abstract specification with
the variables of `Controllers` in place of its own, and queues, caches, locks
and passes stutter. It is not a restatement: nothing in a pass compares
versions, and that they never go back rests on caches that only move forward
and on passes of one bundle that never overlap.

### BaseResolution

Layer 1 is the bundle. Each step merges one more base with the rules of mergo
for pointers, of `mapTransformer` for maps, and of `MergeDictValues` for
structs in maps. A spec is reduced to one field of each kind. The properties
are stated over all layers at once and do not use the merge. A chain is
finite here. The names of `BaseResolution` and `Mounts` differ from those of the
other modules (`ResolutionSpec`, `MountsSpec`), since they share a module of
proofs with one of these.

### Upserts and the sub-reconcilers

`live` is what the API server has, `cached` what the informer shows, `pending`
the changes between them, `bundle` what users have written, which they change
at any time (`Edit`), as others delete objects at any time (`Drift`; all
reconcilers have both). A call is
one step with four outcomes (`Call`): done; refused; done with the answer lost;
not done. A pass that ends with success goes to `"idle"`, with an error to
`"backoff"`. Both lead to another pass.

Each sub-reconciler of one object adds `Reconcile` (get, compare, decide: one
step, since the mutex keeps other passes of the bundle out and nothing is
written in it) and its deletions. A pass that finds nothing to do changes
nothing and is not a step.

External parts, from how the code uses them: `DeepDerivative` does not see nil
pointers, empty strings, empty maps and lists, keys of a map that the expected
one lacks, and a list that goes on where the expected one ends; it does see a number
that is 0 here and something else there. The server fills in the numbers that a
probe leaves at 0 (`Completed` of `Deployments`), and gives out node ports to
Services of the types that have them (`NodePortOf` of `Services`): in both cases
the comparison never says yes. One number stands for those of a probe, one node
port for those of a Service. An update
without resourceVersion is taken for the built-in kinds and refused for a
custom resource, that is for ExternalSecrets. A selector and a cluster IP are
immutable. Deletion is immediate: no object here has a finalizer of its own.

A Go map is a function with a finite set of keys (`MapsTo`); `getSortedKeys` is
the list of them in ascending order, and `Sorted` the list that a loop over it
makes. Keys are numbers, for their order.

`ConfigMaps` has the pods as well: they keep the data they started with (the
mounts are by SubPath), are replaced when they go, and the informer of pods
shows them late, also after they have gone. `ExternalSecrets` has the order in
which Go ranges over a map as a choice. `Deployments` starts with nothing or
with a Deployment whose selector is an older one.

### FollowedBundle

An abstract specification: a pass takes what the bundle says, once, writes that,
name by name, and ends. It writes nothing else, so no mixture of versions, and,
as it takes what the bundle says at that moment, nothing older than a pass
before it. It takes away only what the bundle it took does not name, or what it
is to replace (`Replacing`). What has `settled` the operator leaves alone: no step
but a user's changes it or makes it unsettled. Users write the bundle and delete
objects at any time.

Five modules implement it, each with a mapping at its end (`Following`):

| module | `said` | `stored`, `taken` | `settled` |
|---|---|---|---|
| `Deployments` | what `CreateExpectedDeployment` makes, with what the server fills in; `Replacing` | `live`, `new` | stored as said, and shown by the informer; where a probe leaves a number to the server, a pass that writes the same may be on its way |
| `ConfigMaps` | what `CreateExpectedConfigMap` makes | `live`, `new` | stored as said, and shown |
| `Services` | ports, type, labels; address and node ports are the server's and are left out | `live` and `new` without them | stored as said, and shown; a pass that deletes what is not there, or, with node ports, one that writes the same, may be on its way |
| `Ingresses` | the Ingress of every route that asks for one | `live`, what `ab` says | host and port stored as said and shown, any pass is over that version |
| `ExternalSecrets` | every result the order of a range may give; `Replacing` | `live`, `new` | stored as said, and shown, where the bundle has one reading only and no call fails any more |

`said` is a set for the sake of `ExternalSecrets`, where the order of a Go map
decides which of two references a key has. There a Get that fails has the object
deleted (secrets.go:143), so that it settles when the faults are used up. It is not a restatement: the comparison of a reconciler
is not equality, what it compares with comes out of a cache, `UpsertResource`
goes through several calls of which each may fail or be carried out without an
answer, and a user may edit the bundle between any two.

### Ingresses

A pass is several steps, and works on the bundle as it was when it began (`ab`):
`List`, one `DeleteSurplus` for each Ingress that the bundle does not name, in
any order, and one `Visit` for each route in the order of the keys, with an
upsert where host or port differ. The annotations of an Ingress are the map of
the bundle itself (ingress.go:37), so that the middleware of a route is there
for all routes after it: `Middleware` has this as a function of the routes
before. `GetHomePageAnnotations` is reduced to the group that may log in, the
one annotation where what was there before has a say. That an auth middleware
is configured is assumed.

### Volumes and Reconciles

`Visit` is one turn of the loop over the volumes, `ReconcileRecurringBackupJob`
what follows it. `accepted` is the resourceVersion: what `Get` returned is
changed and written back, and the API server takes that only as long as nobody
has written since. `ReconcilePVC` writes a claim it has built itself when the
spec differs, which the server refuses, as the spec of a claim is immutable.
`Touch`, `Bind` and `Collect` are others that write to the same objects: users
who delete claims and label them, the provisioner, the garbage collector of the
job. A volume is of one kind; storage class and access mode stand with the size. A
claim that is bound is taken to have a volume of Longhorn's: with another one the
job's Get fails in every pass (longhorn_backups_plugin.go:86-88).

`Reconciles` composes `Volumes` with a sibling, which stands for any of the other
five sub-reconcilers: one call that has an effect. The first that fails cancels
the context of the other: its next call fails, and may have been carried out
(`VolumesCancelled`, `SiblingFails`). `Wait` ends the pass when both are back.

### Mounts

One action for each turn of the loops at lines 35-49 and 90-158 of
`deployment.go`. A slice is an array and a length, `append` writes into the
array while there is room in it and allocates one twice as large otherwise.

## 3. Runs

All runs are exhaustive. `CHECK_DEADLOCK FALSE` is said where the system may
rest: every user, fault and crash bound is used up, the bundle is as it should
be, and a pass that would find nothing to do is no step (in `Controllers` the
queue never empties while an object exists, but it may when all are gone).

| run | checks | instance |
|---|---|---|
| `locks` | mutexes, the race on SpecHash, no waiting circle, nothing forgotten, resets stay | two bundles that share a mutex, one base, an edit, a fault, a crash |
| `chain` | the last edit of a chain is rolled out; the controllers implement `OrderedRollouts` | a bundle and two levels of bases, two edits, a fault, a crash |
| `passes` | passes end; the last edit is rolled out with both controllers at work; the base's pass gets to the bundle in the end | a bundle and a base, an edit, a fault, a crash |
| `merge` | the origin of fields, structs, strings and keys | up to three layers, two keys, two values beside the default |
| `config_data` | the data arrive, before the restart, and passes calm down; `FollowedBundle` | one replica and a pod of the same name elsewhere, two files, two edits or deletions, lag 2, a fault, a crash |
| `secrets` | delete-then-write ends with the right object and calms down; `FollowedBundle` | two keys, two references, two configs that agree or differ over a key, two edits or deletions, lag 2, a fault, a crash |
| `rollout` | the Deployment follows; deleted for its selector only; calms down; `FollowedBundle` | three variables, a probe with and without its numbers, old selector, two edits or deletions, lag 2, a fault, a crash |
| `serve` | the Service follows, calms down; `FollowedBundle` | two routes, two addresses, a type with node ports and one without, two edits or deletions, lag 2, a fault, a crash |
| `mount` | who mounts what | up to 4 volumes and 6 configs, all choices of copyOver |
| `ingresses` | exactly the routes that ask for it have an Ingress, with its login; none is a mixture of versions; calms down; `FollowedBundle` | two routes, six bundles, two edits, lag 2, a fault, a crash |
| `volumes` | no claim and no label is lost, a job keeps its owner, all is there in the end, calms down and lets the sibling do its work | two claims, an existing one, a job, five bundles, an edit, lag 2, a fault, a crash |

The type invariants (of the detailed modules; that of `Reconciles` covers
`Volumes`) are all proved, and are not among the properties of the runs.
Of the properties of the passing runs, all that are not liveness are proved, too.

The bounds: two edits with a lag of two give an informer that shows neither the
current nor the last state; one fault at any call, one crash at any step. Two
bundles are enough for sharing a mutex and for a list with a first and a
second; two levels of bases for the difference between a base that is missing
and a nested one that is. Ten mounts take the array through capacities 1, 2, 4,
8 and 16, with room left and without it at each. A third edit, fault or key
brings no new kind of state; the proofs do not depend on any bound. `volumes`
has one edit only, since a second one makes it too large, but labels and
deletions by others count as edits, while the provisioner and the garbage
collector come on top of it; the bundle changes, or a claim does, under a pass
that has begun.

One run is expected to find a violation, and sets what the code does against a
sentence of the code:

| run | sentence | what the trace shows |
|---|---|---|
| `pod_restart` | "Restart the pod after the config map has been updated." | two replicas: data written, pass fails, no pod is ever restarted |

Further places where the code does what a reader may not expect, met while
modelling. The models have each of them, or the reason why not is named; no run
is about one:

- A nested base whose Get fails, missing or not, is passed over, and half of the
  chain is rolled out as if it were all: `err` is nil at base_controller.go:161
  (`NestedGetFails`). A later pass makes up for it.
- A Deployment with a probe that leaves a number to the server, say
  `timeoutSeconds`, is updated by every pass for ever (the sample
  config/samples/app_bundle_test.yaml:29 gives them all): 0 is compared with what the server has set
  (deployment.go:224-226 and 350). Nothing changes by it (`FollowsBundle`);
  `EventuallyQuiet` of `rollout` is stated for probes without gaps.
- A Service of type NodePort or LoadBalancer is updated by every pass for ever:
  node ports are not among the fields that are copied (service.go:33-42), and 0
  is compared with them (service.go:58 and 130). Nothing changes by it, either;
  `EventuallyQuiet` of `serve` is stated for the other types.
- A sub-reconciler that can never succeed, as that of a claim whose size was
  changed, cancels the others in every pass (helpers.go:115), and may do so
  before they have made a call: `OthersProceed` is stated for volumes that fit.
- An ExternalSecret whose Get fails is deleted (secrets.go:143,
  `ReconcileUnread`), and comes back with a later pass.
- A change of auth, annotations or labels alone never gets to an Ingress that
  exists (ingress.go:161): `EventuallyGuarded` leaves these bundles out.
- A job created before any claim was bound stays without an owner, as only its
  spec is compared (longhorn_backups_plugin.go:99): `OwnerKept` says only that an
  owner is never lost.
- `emptyDir: false` makes a claim (volumes.go:80) that the job's search passes
  over (longhorn_backups_plugin.go:68).
- Two bundles may share the name of an Ingress (ingress.go:144) or of a job
  (longhorn_backups_plugin.go:26) and then write it in turn, for ever; the models
  have one bundle.
- Service (service.go:82) and Ingress (ingress.go:37) write to the annotations
  map of the bundle at once, for which the Go runtime may stop the process. The
  tests look for races (`-race`, Makefile:65), but have no such bundle.
- Bases that name each other make `ResolveAppBundleBase` recurse without end
  (base_controller.go:164; `Controllers` with `MayName` a circle).
- A base's pass meets an unregistered bundle whenever a bundle is created
  later, not only "at start" (base_controller.go:94).
- A string that bundle and base both set takes the base's value, although
  `MergeDictValues` has a rule that keeps the bundle's (base_controller.go:186,
  appbundle_types.go:43): `StringsFromFarthest` states what happens.
- The pod to restart is looked for in all namespaces (config_map.go:87): with a
  bundle of the same name elsewhere the other bundle's pod may be deleted
  (`OtherPods` of `ConfigMaps`).
- Two configs that give one secret key two references: an unsorted range
  (secrets.go:35) lets them take turns, and the ExternalSecret may be deleted and
  created for ever, what "Have to sort keys otherwise get infinite loop of
  updating" (deployment.go:174) is about. `secrets` has such a bundle: what is
  written is one of the two readings, and it comes back each time;
  `EventuallyQuiet` is stated for bundles with one reading (`Unambiguous`).
- What is taken out at the end of a list, or a probe, stays in the Deployment
  (deployment.go:350); `RolledOut` asks for what the bundle says, no more.
- `routes: {}` is not nil: the Service stays (service.go:114);
  `EventuallyServed` says nothing of it.
- Two configs with copyOver may both have the mount of the second
  (deployment.go:132): what `InitContainersMountVolumes` leaves open.

### Fairness

- The workers of a running process get CPU time: weak fairness of the steps of
  `Reconcile`. Starting a pass is one of these: `RequeueAfter` or the backoff,
  which is bounded, runs out.
- The work queue is FIFO: a key in it has its turn although others come back
  again and again (strong fairness of `Dequeue`).
- A Go mutex is handed to a waiter that has waited a millisecond: strong
  fairness of `Lock` and `LockChild`.
- Watches deliver: weak fairness of `Watch`.
- Of the goroutines of a group no order is assumed: weak fairness of the steps of
  the group as a whole. The sibling may be the last in every pass.
- Users, faults, crashes and deletions by others have no fairness, nor have the
  provisioner and the garbage collector; nothing depends on one of them.

`PromptWatch`, an assumption of the two properties of `secrets` only: in the
end a pass that follows a success starts when the informer has caught up. It
follows ten seconds later. Without it the pass after a successful Create may
still see the old deletion, delete and create again, for ever; a pass
that follows an error may start as early as it likes, as the backoff starts
with milliseconds.

## 4. Proofs

No proof uses a bound; the only assumptions are those named in the modules,
which TLC evaluates in every run.

**ControllersProofs**, any sets of bundles, bases, workers and mutexes, with
mutexes shared among bundles in any way. The inductive invariant `IInv` is the
type, `NoLeakedLock`, and two strengthenings: `LocalsOK` says what a worker's
label implies for its variables (past `register` its entry exists; at a child,
the child is in `todo`; an idle worker has no key), without which `Return`
could unlock a mutex of no key; `KeysUnique` says that the queue gives no key to
two workers. From it follow `TypeCorrect`, `LocksNeverLeak`; `SpecHashSafe`
(who writes and who reads the hash holds the same mutex, so that there is one
holder); `NoCircularWait` (who holds a bundle mutex is past both waits, or is
the worker of a key of the other kind). `NothingForgotten` and `ResetsPersist`
are inductive on top of `IInv`; the latter rests on registration never
overwriting an entry, and a restart emptying the lists together with `State`.

The refinement `Spec => RolloutsOrdered` (`ImplementsOrderedRollouts`), for the same
constants. Its invariant, on top of `IInv`, follows an object on its way: what a
cache has is not newer than what is stored (`Stored`); what a pass has in hand
is not newer than the cache (`Taken`), and neither is what was rolled out
(`Given`), so that what a later pass takes is as new; what a pass on a bundle
has in hand is not older than the rollout before it (`After`), which holds as
long as nobody else rolls that bundle out (`KeysUnique`); a pass begins with
nothing in hand (`Fresh`); and what was merged has the base the bundle names
(`Chained`). Each step of `Controllers` then is a write, a rollout, or a stutter.

The merge (`BaseResolution`), chains of any length, any keys and values. The
invariant `Resolved` says of the bundle merged so far what the properties say of
`depth` layers; a step appends layer `depth + 1`, behind all others for fields
and structs, before all others for strings: `NearestWins`, `FarthestWins`,
`KeysKept`.

**UpsertsProofs** has what the proofs after it share, for any kind of objects: the
steps of `UpsertResource` keep the type; a write to a name changes that name
alone; `Places`, a call is about a name; and `Informed`, the last thing the
informer is going to show of a name is what is stored there. And it has
`SortedByKey`: the list that `getSortedKeys` leads to has every key of the map with
its value, nothing else, in strictly ascending order. That there is such an order
is shown by a least counterexample: of the sets of keys without one take one of
the smallest size, take its least key away, and put it in front of the order
of the rest. That all keys are in it is a count: n different keys out of n.

Each of the five reconcilers of one kind of object has proofs of its type, and that it implements `FollowedBundle`
(`ImplementsFollowedBundle`), step by step under an inductive invariant `IInv`: the
type, `Places`, `Informed`, and `InHand`, what a pass has in hand at each label. A
step of the module is a `User`, `Take`, `Write`, `Replace` or `Finish` of the
abstract one, or a stutter. What is hard is the last part: that
what has settled is left alone needs that the comparison says yes to what a
pass has written, after the server has filled in what it likes. `Informed` gives that
the cache shows it, and a lemma for each module that it is then as expected; where it
is not, for a number of a probe or a node port, the update is to the object that is
there (`SaysAsExpected`, `SameService`), which makes no event.

**DeploymentsProofs**: `OnlyForSelector`. A pass decides to delete on an answer
of the API server, and until it calls it the Deployment may be deleted by
others, but not be written: the pass is the only writer. `SettledRolledOut`: what
has settled is right, down to the value that each variable has in the container.
The environment is two sorted lists one behind the other and the variable
for the GPUs, and a variable listed twice has the value of its last place (`Lasts`).

The mounts (`Mounts`), any numbers of volumes and configs. `SlicesValid` (slices
stay within their arrays) and two lemmas about append: `AppendResult`, the slice
returned has the old elements and the new one; `AppendElsewhere`, any other slice
keeps what it has up to the length of the one appended to. The init
containers' volumes are within that length, and so is the container's own slice:
`ContainerMountsItsOwn`, `VolumesMountedByInit`. What lies behind it may
be overwritten: the second of two init containers takes the first one's config.

**ConfigMapsProofs**: `RestartsAfterWrite`: a pass that goes on to the pods comes
from a write of what it has in hand, and is the only one that writes; others may
delete the ConfigMap before the pod is deleted, and then the new pod waits for it
to come back. And
`SettledCarries`, what has settled has every config that is not a secret.

**ServicesProofs**: `SettledServes`, what has settled has a port for every route.
The refinement says nothing of the address and the node ports; that an update with the address of a
Service that has been replaced is refused and comes right again is liveness.

**IngressesProofs**: `NeverMixed`, from an invariant that says that what is in hand
comes of the version the pass began with (`InHand`), and that whoever writes writes
one version's Ingress (`WritesOneVersion`). A pass over an old version may write
after the bundle has changed; but a pass that takes the new version is behind it.
What is left of an old list when everything has settled is names that are gone.

**ExternalSecretsProofs**: `ExpectedProvides`, for any order in which the configs are
ranged over: what is made of a bundle has, for every name the bundle needs, one
reference that the bundle gives that name. The proof takes the last config in
that order which writes the name. `OrderIrrelevant`: where no two configs differ
over a name all orders make the same, so that the comparison with what was written
says yes; that is what the settled clause of `ImplementsFollowedBundle` rests on.

**ReconcilesProofs**: `NoClaimLost`, `NoLabelLost`, `NoOwnerLost`, `TypeCorrect`,
for any volumes and claims. The properties are about steps, and what makes them
hold is an invariant of the step before: an update that the API server would
take (`accepted`) puts nothing in the place of what is there that lacks a label,
an owner, or the size (`NothingLost`). That holds when the pass decides, since
with nothing left to see the cache is what is stored (`Informed`), and what is
written is made from the cache; and it goes on to hold, since a write by
others takes the resourceVersion away. `KindsKept` (every name has objects of its
kind) and `InHand` (the bundle and the volumes of a pass, and that it never
comes to the Delete of `UpsertResource`) are what else it takes. The order of
the volumes rests on the smallest of a set of numbers, from the library's
theorem on well-founded relations. One lemma per action shows that it is
`Harmless`, which is all three properties at once.

The assumptions are those on the constants: that sets of different kinds of values
are different (`None` is no object, `Nil` no slice), that keys are numbers where
they are sorted, that what users write and what an older operator may have left
are of the types, that bounds are numbers, that the informer may lag by one change
at least (`LagAssumption`), and that the clock is past the first thirty seconds
of its epoch (`ClockAssumption`). They name no finite set and no size.

Only model-checked: everything under fairness (`EveryPassEnds`,
`EventuallyApplied`, `EventuallyReset`, `OthersProceed`, `EventuallyGuarded` and
the two liveness properties of each sub-reconciler), as liveness and ENABLED are
out of the prover's reach. No module declares a
RECURSIVE operator. Induction over data does not occur in the proofs: the merge
of a chain is a behaviour, one layer a step, and its induction is that of the
invariant.

## 5. Not modelled

- The group with all six sub-reconcilers at once: `Reconciles` has one in full
  and a sibling, the others are checked one by one. They share only the context
  and the bundle, and write objects of different kinds.
- The race on the annotations map: after it the process is gone, and `Restart`
  is all there is to say.
- Annotations, apart from login and groups: no reconciler compares them.
- `Resources` in the merge (its map of quantities makes `MergeDictValues`
  panic), panics on nil pointers (`*ab.Spec.Image.Repository`, `*route.Port`).
- Two bundles in one instance of a sub-reconciler, and names that collide.
- Several operator processes, although leader election is off by default.
- Logging, flags, metrics and health checks in `cmd/main.go`, manifests, and the
  deep copies, which are generated code.

## 6. Plan

Order, the most important behaviour first; 1 to 9 are done.

1. `Controllers` with its safety proofs.
2. `BaseResolution` with its proofs.
3. `Upserts` and the four reconcilers of single objects.
4. `Mounts` with its proofs.
5. `Ingresses`: several objects, list and delete, an upsert per route.
6. `Volumes`: claims, existing claims and the Longhorn job.
7. `Reconciles`: the group, cancelled by the first error.
8. `OrderedRollouts`, which `Controllers` implements, with the proof; the safety
   of `ConfigMaps`, `Deployments` and `Reconciles` proved.
9. `FollowedBundle`, which the five reconcilers of `Upserts` implement, with the
   proofs; `OfOneVersion` and all types proved; what has settled is right.
10. Proofs: of `Reconciles`, that the writes of its volumes are what some version
    of the bundle says, and that the group ends a pass only when both are back.
11. A second operator process in `Upserts`, with a memory of its own: what the
    choice between Create and Update, and the Delete and Create of a rollout,
    come to when two passes of one bundle overlap.
