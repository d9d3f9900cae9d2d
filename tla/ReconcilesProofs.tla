--------------------------- MODULE ReconcilesProofs ---------------------------
(***************************************************************************)
(* Proofs that no pass over the volumes takes a claim, a label or an owner *)
(* away, for all volumes, claims, bundles and bounds.                      *)
(*                                                                         *)
(* The argument: an update that the API server would take was decided on   *)
(* with nothing left for the informer to see, and nobody has written since *)
(* (resourceVersion), so that what it is made of is what is there.         *)
(***************************************************************************)
EXTENDS Reconciles, UpsertsProofs

\* What may be stored at a name.
KindOf(n) == (IF n = Job THEN Jobs ELSE Claims) \cup {None}

\* Every name has objects of its kind, also on the way to the informer.
KindsKept ==
  \A n \in Names :
    live[n] \in KindOf(n) /\ cached[n] \in KindOf(n) /\ pending[n] \in Seq(KindOf(n))

\* The pass writes what is of the kind of the name.
Decided == pc \in {"create", "update"} => new \in KindOf(at) \ {None}

\* What the pass has in hand.
InHand ==
  /\ pc \notin Between => ab # None /\ ab.volumes # None /\ todo \subseteq DOMAIN ab.volumes
  /\ sibling = "calling" => ab # None
  /\ pc \notin {"recreate", "createAgain"}

\* o may be put in place of c, at n, without a loss.
Keeps(n, c, o) ==
  /\ n # Job => o.size = c.size
  /\ n \in Existing =>
       \A k \in DOMAIN c.labels : c.labels[k] \in {None, o.labels[k]}
  /\ n = Job => c.owner = None \/ o.owner # None

\* An update that the API server would take loses nothing.
NothingLost ==
  pc = "update" /\ accepted /\ live[at] # None => Keeps(at, live[at], new)

\* The invariant in parts: what is stored, what the pass is about to write,
\* and what it has in hand.
StoreOK == Informed /\ KindsKept
Intent ==
  /\ Places /\ Decided /\ NothingLost
  /\ at \in Names \cup {None} /\ new \in Objects \cup {None} /\ accepted \in BOOLEAN
PassOK == Intent /\ InHand

IInv == TypeOK /\ StoreOK /\ PassOK

\* What a step does to what is stored: a claim goes, or loses something, by
\* the hand of a user only, and a job when it is collected.
Harmless ==
  \A n \in Names : live[n] # None =>
    \/ live'[n] # None /\ Keeps(n, live[n], live'[n])
    \/ n = Job /\ live'[n] = None
    \/ n # Job /\ edits' # edits

Steps == {"visit"}

-----------------------------------------------------------------------------
LEMMA KindsAreObjects ==
  ASSUME NEW n \in Names
  PROVE  KindOf(n) \subseteq Objects \cup {None}
BY DEF KindOf, Objects

\* The volumes of a bundle, and the claims they are about.
LEMMA VolumeType ==
  ASSUME NEW b \in Bundles, b.volumes # None, NEW n \in DOMAIN b.volumes
  PROVE  /\ n \in Keys
         /\ b.volumes[n] \in Volume
         /\ ClaimOf(n, b.volumes[n]) \in Keys \cup Existing
         /\ b.volumes[n].kind = "existing" => b.volumes[n].existing \in Existing
<1>1. PICK D \in SUBSET Keys : b.volumes \in [D -> Volume]
  BY DEF Bundles, MapsTo
<1> QED BY <1>1 DEF Volume, ClaimOf

\* The places of claims and of the job.
LEMMA NamesOf ==
  /\ Keys \subseteq Names /\ Existing \subseteq Names /\ Job \in Names
  /\ Job \notin Keys \cup Existing /\ None \notin Names
  /\ None \notin Objects
BY VolumesAssumption

-----------------------------------------------------------------------------
\* A write to n keeps everything in order, if it is of the kind of n.
LEMMA PutKinds ==
  ASSUME TypeOK, Informed, KindsKept, NEW n \in Names, NEW o \in KindOf(n),
         Put(n, o), UNCHANGED cached
  PROVE  /\ live' \in [Names -> Objects \cup {None}]
         /\ pending' \in [Names -> Seq(Objects \cup {None})]
         /\ \A m \in Names : Len(pending'[m]) <= MaxLag
         /\ \A m \in Names : live'[m] \in KindOf(m) /\ pending'[m] \in Seq(KindOf(m))
         /\ Informed'
<1>1. /\ live \in [Names -> Objects \cup {None}]
      /\ pending \in [Names -> Seq(Objects \cup {None})]
      /\ \A m \in Names : Len(pending[m]) <= MaxLag
  BY DEF TypeOK, VolumesTypeOK, UpsertTypeOK
<1>2. o \in Objects \cup {None}
  BY KindsAreObjects
<1>3. /\ live' \in [Names -> Objects \cup {None}]
      /\ pending' \in [Names -> Seq(Objects \cup {None})]
      /\ \A m \in Names : Len(pending'[m]) <= MaxLag
  BY <1>1, <1>2, PutType
<1>4. \A m \in Names : live'[m] \in KindOf(m)
  BY <1>1, PutElsewhere DEF KindsKept
<1>5. pending[n] \in Seq(KindOf(n)) /\ DOMAIN pending = Names
  BY <1>1 DEF KindsKept
<1>6. /\ pending'[n] \in Seq(KindOf(n))
      /\ \A m \in Names : m # n => pending'[m] = pending[m]
  BY <1>1, <1>5, PutPending
<1>7. Informed'
  BY <1>1, <1>5, PutInformed
<1> QED BY <1>3, <1>4, <1>6, <1>7 DEF KindsKept

\* What stays as it is loses nothing.
LEMMA KeepsItself ==
  ASSUME NEW n, NEW c
  PROVE  Keeps(n, c, c)
BY DEF Keeps

LEMMA NothingWritten ==
  ASSUME IInv, UNCHANGED <<live, cached, pending>>
  PROVE  StoreOK' /\ Harmless
<1>1. StoreOK'
  BY DEF IInv, StoreOK, Informed, KindsKept
<1>2. Harmless
  BY KeepsItself DEF Harmless
<1> QED BY <1>1, <1>2

\* A call of the pass that loses nothing where it is carried out.
LEMMA WriteKeeps ==
  ASSUME IInv, NEW n \in Names, NEW o \in KindOf(n) \ {None},
         Put(n, o), UNCHANGED cached,
         live[n] # None => Keeps(n, live[n], o)
  PROVE  StoreOK' /\ Harmless
<1>1. StoreOK'
  BY PutKinds DEF IInv, StoreOK, KindsKept
<1>2. DOMAIN live = Names
  BY DEF IInv, PassOK, Intent, Places, AtName
<1>3. live'[n] = o /\ \A m \in Names : m # n => live'[m] = live[m]
  BY <1>2, PutElsewhere
<1>4. Harmless
  BY <1>3, KeepsItself DEF Harmless
<1> QED BY <1>1, <1>4

-----------------------------------------------------------------------------
(***************************************************************************)
(* What a pass decides.                                                    *)
(***************************************************************************)
LEMMA LabelsType ==
  ASSUME NEW b \in Bundles, NEW v
  PROVE  GetPVCLabels(b, v) \in LabelMaps
BY DEF GetPVCLabels, LabelMaps, Bundles

LEMMA WithLabelsType ==
  ASSUME NEW current \in LabelMaps, NEW expected \in LabelMaps
  PROVE  /\ WithLabels(current, expected) \in LabelMaps
         /\ \A k \in DOMAIN current :
              current[k] \in {None, WithLabels(current, expected)[k]}
BY DEF WithLabels, LabelMaps

LEMMA ExpectedType ==
  ASSUME NEW b \in Bundles, NEW v \in Volume
  PROVE  CreateExpectedPVC(b, v) \in Claims
BY LabelsType DEF CreateExpectedPVC, Claims, Volume

\* A decision to write o to n: on an old version, or on one that o keeps.
Decides(n, o) ==
  \/ Upsert(n, o, cached[n] # None) /\ accepted' = FALSE
  \/ UpsertCurrent(n, o) /\ (cached[n] # None => Keeps(n, cached[n], o))

LEMMA DecidesWell ==
  ASSUME IInv, NEW n \in Names, NEW o \in KindOf(n) \ {None}, Decides(n, o),
         UNCHANGED <<live, cached, pending>>
  PROVE  Intent' /\ pc' \in {"create", "update"}
<1>1. /\ pc' \in {"create", "update"} /\ at' = n /\ new' = o
      /\ accepted' \in BOOLEAN
      /\ accepted' => pending[n] = <<>> /\ cached[n] # None /\ Keeps(n, cached[n], o)
  BY DEF Decides, UpsertCurrent, Upsert
<1>2. o \in Objects
  BY KindsAreObjects, NamesOf
<1>3. Places' /\ Decided'
  BY <1>1 DEF Places, AtName, Decided, IInv, PassOK, Intent, KindOf
<1>4. pending[n] = <<>> => cached[n] = live[n]
  BY DEF IInv, StoreOK, Informed
<1>5. NothingLost'
  BY <1>1, <1>4 DEF NothingLost, Keeps
<1> QED BY <1>1, <1>2, <1>3, <1>5 DEF Intent

LEMMA ExistingDecides ==
  ASSUME IInv, ab \in Bundles, NEW n \in Existing, NEW v \in Volume,
         ReconcileExistingPVC(n, v)
  PROVE  \/ Goto("visit") /\ UNCHANGED accepted
         \/ \E o \in Claims : Decides(n, o)
<1> DEFINE current  == cached[n]
           labels   == IF current = None THEN NoLabels ELSE current.labels
           expected == WithLabels(labels, GetPVCLabels(ab, v))
<1>1. current \in Claims \cup {None}
  BY NamesOf DEF IInv, StoreOK, KindsKept, KindOf
<1>2. labels \in LabelMaps
  BY <1>1 DEF Claims, NoLabels, LabelMaps
<1>3. /\ expected \in LabelMaps
      /\ \A k \in DOMAIN labels : labels[k] \in {None, expected[k]}
  BY <1>2, LabelsType, WithLabelsType
<1>4. CASE Goto("visit") /\ UNCHANGED accepted
  BY <1>4
<1>5. CASE /\ current = None
           /\ UpsertCurrent(n, [CreateExpectedPVC(ab, v) EXCEPT !.labels = expected])
  <2> DEFINE o == [CreateExpectedPVC(ab, v) EXCEPT !.labels = expected]
  <2>1. Decides(n, o)
    BY <1>5 DEF Decides
  <2>2. o \in Claims
    BY <1>3, ExpectedType DEF Claims
  <2> QED BY <2>1, <2>2
<1>6. CASE /\ current # None
           /\ UpsertCurrent(n, [current EXCEPT !.labels = expected])
  <2> DEFINE o == [current EXCEPT !.labels = expected]
  <2>1. o \in Claims /\ o.size = current.size /\ o.labels = expected
    BY <1>1, <1>3, <1>6 DEF Claims
  <2> HIDE DEF o
  <2>2. Keeps(n, current, o)
    BY <1>3, <1>6, <2>1, NamesOf DEF Keeps
  <2> QED BY <1>6, <2>1, <2>2 DEF Decides, o
<1> QED BY <1>4, <1>5, <1>6 DEF ReconcileExistingPVC

LEMMA ClaimDecides ==
  ASSUME IInv, ab \in Bundles, NEW n \in Keys, NEW v \in Volume,
         ReconcilePVC(n, v)
  PROVE  \/ Goto("visit") /\ UNCHANGED accepted
         \/ \E o \in Claims : Decides(n, o)
<1> DEFINE current  == cached[n]
           expected == CreateExpectedPVC(ab, v)
<1>1. current \in Claims \cup {None} /\ n # Job /\ n \notin Existing
  BY NamesOf, VolumesAssumption DEF IInv, StoreOK, KindsKept, KindOf
<1>2. expected \in Claims
  BY ExpectedType
<1>3. CASE Goto("visit") /\ UNCHANGED accepted
  BY <1>3
<1>4. CASE Upsert(n, expected, current # None) /\ accepted' = FALSE
  BY <1>2, <1>4 DEF Decides
<1>5. CASE /\ current # None
           /\ UpsertCurrent(n, [current EXCEPT !.labels = expected.labels])
  <2> DEFINE o == [current EXCEPT !.labels = expected.labels]
  <2>1. o \in Claims /\ o.size = current.size
    BY <1>1, <1>2, <1>5 DEF Claims
  <2> HIDE DEF o
  <2>2. Keeps(n, current, o)
    BY <1>1, <2>1 DEF Keeps
  <2> QED BY <1>5, <2>1, <2>2 DEF Decides, o
<1> QED BY <1>3, <1>4, <1>5 DEF ReconcilePVC

\* The owner of before is kept where none is found.
LEMMA OwnerType ==
  ASSUME TypeOK, KindsKept, ab \in Bundles, ab.volumes # None
  PROVE  /\ Owner(ab, cached[Job]) \in Keys \cup Existing \cup {None}
         /\ cached[Job] # None /\ cached[Job].owner # None =>
              Owner(ab, cached[Job]) # None
<1>1. cached[Job] \in Jobs \cup {None}
  BY NamesOf DEF KindsKept, KindOf
<1>2. Searched(ab) \subseteq DOMAIN ab.volumes
  BY DEF Searched, Owners
<1>3. \A n \in DOMAIN ab.volumes :
        n \in Keys /\ ClaimOf(n, ab.volumes[n]) \in Keys \cup Existing
  BY VolumeType
<1>4. Searched(ab) # {} => Min(Searched(ab)) \in Searched(ab)
  BY <1>2, <1>3, MinExists, VolumesAssumption
<1> QED BY <1>1, <1>2, <1>3, <1>4, NamesOf DEF Owner, Jobs

LEMMA JobDecides ==
  ASSUME IInv, ab \in Bundles, ab.volumes # None, ReconcileRecurringBackupJob
  PROVE  \/ Goto("idle") /\ UNCHANGED accepted
         \/ Goto("backoff") /\ UNCHANGED accepted
         \/ \E o \in Jobs : Decides(Job, o)
<1> DEFINE o == [spec |-> JobSpec(ab), owner |-> Owner(ab, cached[Job])]
<1>1. CASE JobWanted(ab) /\ UpsertCurrent(Job, o)
  <2>1. JobSpec(ab) \in JobSpecs
    BY <1>1 DEF JobWanted, JobSpec, JobSpecs, Bundles
  <2>2. o \in Jobs
    BY <2>1, OwnerType DEF IInv, StoreOK, Jobs
  <2>3. cached[Job] # None => Keeps(Job, cached[Job], o)
    BY OwnerType, NamesOf DEF IInv, StoreOK, Keeps
  <2> QED BY <1>1, <2>2, <2>3 DEF Decides
<1> QED BY <1>1 DEF ReconcileRecurringBackupJob

-----------------------------------------------------------------------------
(***************************************************************************)
(* The steps of a pass.                                                    *)
(***************************************************************************)

\* Between the writes there is nothing to say of what is written.
LEMMA NotWriting ==
  ASSUME DOMAIN live' = Names, pc' \in Between \cup {"visit"},
         at' \in Names \cup {None}, new' \in Objects \cup {None},
         accepted' \in BOOLEAN
  PROVE  Intent'
BY DEF Intent, Places, AtName, Decided, NothingLost, Between

LEMMA VisitStep ==
  ASSUME IInv, Visit, UNCHANGED <<sibling, shown>>
  PROVE  IInv' /\ Harmless
<1> USE DEF Steps
<1> DEFINE n == Min(todo)
           v == ab.volumes[n]
<1>1. TypeOK /\ UpsertTypeOK(Bundles, Objects, Steps)
  BY DEF IInv, TypeOK, VolumesTypeOK
<1>2. /\ ab \in Bundles /\ ab # None /\ ab.volumes # None
      /\ todo \subseteq DOMAIN ab.volumes /\ todo \subseteq Keys
  BY DEF IInv, PassOK, InHand, TypeOK, VolumesTypeOK, Visit, Between
<1>3. n \in todo
  BY <1>2, MinExists, VolumesAssumption DEF Visit
<1>4. /\ n \in Keys /\ v \in Volume
      /\ v.kind = "existing" => v.existing \in Existing
  BY <1>2, <1>3, VolumeType
<1>5. /\ UNCHANGED <<userVars, live, cached, pending, faults, crashes, ab>>
      /\ todo' = todo \ {n}
      /\ \/ v.kind = "existing" /\ ReconcileExistingPVC(v.existing, v)
         \/ IsOwn(v) /\ ReconcilePVC(n, v)
         \/ Goto("visit") /\ UNCHANGED accepted
  BY DEF Visit, apiVars
<1> HIDE DEF n, v
<1>6. \/ Goto("visit") /\ UNCHANGED accepted
      \/ \E m \in Keys \cup Existing, o \in Claims : Decides(m, o)
  BY <1>2, <1>4, <1>5, ExistingDecides, ClaimDecides
<1>7. StoreOK' /\ Harmless
  BY <1>5, NothingWritten
<1>8. Intent' /\ pc' \in {"visit", "create", "update"}
  <2>1. CASE Goto("visit") /\ UNCHANGED accepted
    <3>1. pc' = "visit" /\ UNCHANGED <<at, new>>
      BY <2>1 DEF Goto, Between
    <3>2. DOMAIN live' = Names
      BY <1>5 DEF IInv, PassOK, Intent, Places
    <3> QED BY <1>1, <2>1, <3>1, <3>2, NotWriting DEF UpsertTypeOK, TypeOK, VolumesTypeOK
  <2>2. ASSUME NEW m \in Keys \cup Existing, NEW o \in Claims, Decides(m, o)
        PROVE  Intent' /\ pc' \in {"create", "update"}
    <3>1. m \in Names /\ o \in KindOf(m) \ {None}
      BY NamesOf DEF KindOf, Objects
    <3> QED BY <1>5, <2>2, <3>1, DecidesWell
  <2> QED BY <1>6, <2>1, <2>2
<1>9. InHand'
  <2>1. ab' = ab /\ sibling' = sibling /\ todo' \subseteq todo
    BY <1>5
  <2>2. pc' \notin {"recreate", "createAgain"}
    BY <1>8
  <2> QED BY <1>2, <2>1, <2>2 DEF IInv, PassOK, InHand
<1>10. TypeOK'
  BY <1>1, <1>2, <1>5, <1>8
  DEF Intent, TypeOK, VolumesTypeOK, UpsertTypeOK, userVars, UpsertSteps
<1> QED BY <1>7, <1>8, <1>9, <1>10 DEF IInv, PassOK

LEMMA JobStep ==
  ASSUME IInv, ReconcileRecurringBackupJob, UNCHANGED <<sibling, shown>>
  PROVE  IInv' /\ Harmless
<1> USE DEF Steps
<1>1. TypeOK /\ UpsertTypeOK(Bundles, Objects, Steps)
  BY DEF IInv, TypeOK, VolumesTypeOK
<1>2. /\ ab \in Bundles /\ ab # None /\ ab.volumes # None /\ todo \subseteq DOMAIN ab.volumes
  BY DEF IInv, PassOK, InHand, TypeOK, VolumesTypeOK, ReconcileRecurringBackupJob, Between
<1>3. UNCHANGED <<userVars, live, cached, pending, faults, crashes, ab, todo>>
  BY DEF ReconcileRecurringBackupJob, apiVars
<1>4. StoreOK' /\ Harmless
  BY <1>3, NothingWritten
<1>5. Intent' /\ pc' \in {"idle", "backoff", "create", "update"}
  <2>1. CASE (Goto("idle") \/ Goto("backoff")) /\ UNCHANGED accepted
    <3>1. pc' \in {"idle", "backoff"} /\ at' = None /\ new' = None
      BY <2>1 DEF Goto, Between
    <3>2. DOMAIN live' = Names
      BY <1>3 DEF IInv, PassOK, Intent, Places
    <3> QED BY <1>1, <2>1, <3>1, <3>2, NotWriting DEF TypeOK, VolumesTypeOK, Between
  <2>2. ASSUME NEW o \in Jobs, Decides(Job, o)
        PROVE  Intent' /\ pc' \in {"create", "update"}
    <3>1. Job \in Names /\ o \in KindOf(Job) \ {None}
      BY NamesOf DEF KindOf, Objects
    <3> QED BY <1>3, <2>2, <3>1, DecidesWell
  <2> QED BY <1>2, <2>1, <2>2, JobDecides
<1>6. InHand'
  <2>1. ab' = ab /\ sibling' = sibling /\ todo' = todo
    BY <1>3
  <2>2. pc' \notin {"recreate", "createAgain"}
    BY <1>5
  <2> QED BY <1>2, <2>1, <2>2 DEF IInv, PassOK, InHand
<1>7. TypeOK'
  BY <1>1, <1>3, <1>5
  DEF Intent, TypeOK, VolumesTypeOK, UpsertTypeOK, userVars, UpsertSteps, Between
<1> QED BY <1>4, <1>5, <1>6, <1>7 DEF IInv, PassOK

\* Passes that end with nothing written.
LEMMA FailStep ==
  ASSUME IInv, Running, Goto("backoff"), Left({}), faults' \in Nat,
         UNCHANGED <<userVars, live, cached, pending, crashes, sibling, shown>>
  PROVE  IInv' /\ Harmless
<1>1. TypeOK /\ UpsertTypeOK(Bundles, Objects, Steps)
  BY DEF IInv, TypeOK, VolumesTypeOK, Steps
<1>2. /\ pc' = "backoff" /\ at' = None /\ new' = None
      /\ todo' = {} /\ accepted' = FALSE /\ ab' = ab
  BY DEF Goto, Left, Between
<1>3. StoreOK' /\ Harmless
  BY NothingWritten
<1>4. DOMAIN live' = Names
  BY DEF IInv, PassOK, Intent, Places
<1>5. Intent'
  BY <1>2, <1>4, NotWriting DEF Between
<1>6. InHand'
  BY <1>2 DEF IInv, PassOK, InHand, Between
<1>7. TypeOK'
  BY <1>1, <1>2 DEF Intent, TypeOK, VolumesTypeOK, UpsertTypeOK, userVars, UpsertSteps, Between
<1> QED BY <1>3, <1>5, <1>6, <1>7 DEF IInv, PassOK

\* A write of the pass, at the name it is at, and what comes after it.
LEMMA WriteStep ==
  ASSUME IInv, pc \in {"create", "update"}, NEW taken, NEW then \in {"idle", "visit"},
         taken /\ live[at] # None => Keeps(at, live[at], new),
         Call(taken, at, new, then), Left(todo),
         UNCHANGED <<userVars, cached, crashes, sibling, shown>>
  PROVE  IInv' /\ Harmless
<1> USE DEF Steps
<1>1. TypeOK /\ UpsertTypeOK(Bundles, Objects, Steps)
  BY DEF IInv, TypeOK, VolumesTypeOK
<1>2. at \in Names /\ new \in KindOf(at) \ {None} /\ new \in Objects \cup {None}
  BY DEF IInv, PassOK, Intent, Places, AtName, Decided
<1>3. StoreOK' /\ Harmless
  <2>1. CASE UNCHANGED <<live, pending>>
    BY <2>1, NothingWritten
  <2>2. CASE taken /\ Put(at, new)
    BY <1>2, <2>2, WriteKeeps
  <2> QED BY <2>1, <2>2 DEF Call
<1>4. UpsertTypeOK(Bundles, Objects, Steps)'
  <2>1. then \in UpsertSteps \cup Steps
    BY DEF UpsertSteps, Between
  <2> QED BY <1>1, <1>2, <2>1, CallType
<1>5. Goto(then) \/ Goto("backoff")
  BY DEF Call
<1>6. /\ pc' \in {"idle", "visit", "backoff"}
      /\ ab' = ab /\ todo' \subseteq todo /\ accepted' = FALSE
  BY <1>5 DEF Goto, Left
<1>7. Intent'
  BY <1>4, <1>6, NotWriting DEF UpsertTypeOK, Between
<1>8. InHand'
  BY <1>6 DEF IInv, PassOK, InHand, Between
<1>9. TypeOK'
  BY <1>1, <1>4, <1>6 DEF TypeOK, VolumesTypeOK, Steps
<1> QED BY <1>3, <1>7, <1>8, <1>9 DEF IInv, PassOK

LEMMA UpsertResourceStep ==
  ASSUME IInv, UpsertResource, UNCHANGED <<sibling, shown>>
  PROVE  IInv' /\ Harmless
<1>1. pc \notin {"recreate", "createAgain"}
  BY DEF IInv, PassOK, InHand
<1>2. Then \in {"idle", "visit"}
  BY DEF Then
<1>3. CASE Create(Then) /\ Left(todo)
  BY <1>2, <1>3, WriteStep DEF Create
<1>4. CASE CannotCreate
  BY <1>4, FailStep DEF CannotCreate, Running, Between, apiVars, IInv, TypeOK, VolumesTypeOK, UpsertTypeOK
<1>5. CASE Update(accepted, Then) /\ Left(todo)
  BY <1>2, <1>5, WriteStep DEF Update, IInv, PassOK, Intent, NothingLost
<1> QED
  BY <1>1, <1>3, <1>4, <1>5
  DEF UpsertResource, UpdateRefused, DeleteRefused, CreateAgain

LEMMA VolumesStepSafe ==
  ASSUME IInv, VolumesStep
  PROVE  IInv' /\ Harmless
<1>1. CASE Visit
  BY <1>1, VisitStep DEF VolumesStep
<1>2. CASE GetFails \/ JobGetFails
  BY <1>2, FailStep
  DEF VolumesStep, GetFails, JobGetFails, Fault, IInv, TypeOK, VolumesTypeOK, UpsertTypeOK
<1>3. CASE ReconcileRecurringBackupJob
  BY <1>3, JobStep DEF VolumesStep
<1>4. CASE UpsertResource
  BY <1>4, UpsertResourceStep DEF VolumesStep
<1> QED BY <1>1, <1>2, <1>3, <1>4 DEF VolumesStep, ReconcileVolumes

\* A call that was cancelled may have been carried out.
LEMMA VolumesCancelledSafe ==
  ASSUME IInv, VolumesCancelled
  PROVE  IInv' /\ Harmless
<1>1. /\ pc \in {"create", "update"} /\ Goto("backoff") /\ Left({})
      /\ UNCHANGED <<userVars, cached, faults, crashes, sibling, shown>>
  BY DEF VolumesCancelled
<1>2. CASE UNCHANGED <<live, pending>>
  BY <1>1, <1>2, FailStep DEF Running, Between, IInv, TypeOK, VolumesTypeOK, UpsertTypeOK
<1>3. CASE Put(at, new) /\ (live[at] # None => pc = "update" /\ accepted)
  <2>1. /\ pc' = "backoff" /\ at' = None /\ new' = None
        /\ todo' = {} /\ accepted' = FALSE /\ ab' = ab
    BY <1>1 DEF Goto, Left, Between
  <2>2. at \in Names /\ new \in KindOf(at) \ {None}
    BY <1>1 DEF IInv, PassOK, Intent, Places, AtName, Decided
  <2>3. live[at] # None => Keeps(at, live[at], new)
    BY <1>3 DEF IInv, PassOK, Intent, NothingLost
  <2>4. StoreOK' /\ Harmless
    BY <1>1, <1>3, <2>2, <2>3, WriteKeeps
  <2>5. /\ live' \in [Names -> Objects \cup {None}]
        /\ pending' \in [Names -> Seq(Objects \cup {None})]
        /\ \A m \in Names : Len(pending'[m]) <= MaxLag
    BY <1>1, <1>3, <2>2, PutKinds DEF IInv, StoreOK
  <2>6. Intent'
    BY <2>1, <2>5, NotWriting DEF Between
  <2>7. InHand'
    BY <1>1, <2>1 DEF IInv, PassOK, InHand, Between
  <2>8. TypeOK'
    BY <1>1, <2>1, <2>5
    DEF IInv, TypeOK, VolumesTypeOK, UpsertTypeOK, userVars, UpsertSteps, Between
  <2> QED BY <2>4, <2>6, <2>7, <2>8 DEF IInv, PassOK
<1> QED BY <1>2, <1>3 DEF VolumesCancelled

-----------------------------------------------------------------------------
(***************************************************************************)
(* The group, and what goes on around it.                                  *)
(***************************************************************************)

\* Steps of the group that are not about the volumes.
LEMMA GroupSafe ==
  ASSUME IInv, Start \/ SiblingWrites \/ SiblingFails \/ Wait
  PROVE  IInv' /\ Harmless
<1> USE DEF Steps
<1>1. TypeOK /\ UpsertTypeOK(Bundles, Objects, Steps)
  BY DEF IInv, TypeOK, VolumesTypeOK
<1>2. UNCHANGED <<live, cached, pending>>
  BY DEF Start, Begin, SiblingWrites, SiblingFails, Wait, upsertVars, apiVars, volumeVars
<1>3. StoreOK' /\ Harmless
  BY <1>2, NothingWritten
<1>4. CASE Start
  <2>1. /\ ab' \in Bundles /\ ab' = bundle
        /\ UNCHANGED <<userVars, apiVars, at, new, accepted, shown>>
        /\ sibling' = "calling"
        /\ \/ pc' = "idle" /\ todo' = {}
           \/ pc' = "visit" /\ bundle.volumes # None /\ todo' = DOMAIN bundle.volumes
    BY <1>1, <1>4 DEF Start, Begin, UpsertTypeOK
  <2>2. todo' \subseteq Keys
    BY <2>1, VolumeType DEF UpsertTypeOK
  <2>3. DOMAIN live' = Names
    BY <1>2 DEF IInv, PassOK, Intent, Places
  <2>4. Intent'
    BY <1>1, <2>1, <2>3, NotWriting DEF UpsertTypeOK, TypeOK, VolumesTypeOK, Between
  <2>5. ab' # None
    BY <2>1, VolumesAssumption
  <2>6. InHand'
    BY <2>1, <2>5 DEF InHand, Between
  <2>7. TypeOK'
    BY <1>1, <2>1, <2>2
    DEF TypeOK, VolumesTypeOK, UpsertTypeOK, userVars, apiVars, UpsertSteps, Between
  <2> QED BY <1>3, <2>4, <2>6, <2>7 DEF IInv, PassOK
<1>5. CASE SiblingWrites \/ SiblingFails
  <2>1. /\ UNCHANGED <<userVars, live, cached, pending, crashes, passVars, ab, todo, accepted>>
        /\ sibling = "calling" /\ sibling' \in {"nil", "error"}
        /\ shown' \in {shown, ab.label}
        /\ faults' = faults \/ faults' = faults + 1
    BY <1>5 DEF SiblingWrites, SiblingFails, volumeVars, upsertVars, apiVars, Fault
  <2>2. ab \in Bundles
    BY <1>1, <2>1 DEF IInv, PassOK, InHand, TypeOK, VolumesTypeOK
  <2>3. shown' \in Labels \cup {None} /\ faults' \in Nat
    BY <1>1, <2>1, <2>2 DEF TypeOK, UpsertTypeOK, Bundles
  <2>4. Intent'
    BY <2>1
    DEF IInv, PassOK, Intent, Places, Decided, NothingLost, passVars
  <2>5. InHand'
    BY <2>1 DEF IInv, PassOK, InHand, passVars
  <2>6. TypeOK'
    BY <1>1, <2>1, <2>3 DEF TypeOK, VolumesTypeOK, UpsertTypeOK, userVars, passVars
  <2> QED BY <1>3, <2>4, <2>5, <2>6 DEF IInv, PassOK
<1>6. CASE Wait
  <2>1. /\ UNCHANGED <<upsertVars, todo, accepted, shown>>
        /\ pc \in Between /\ sibling' = "out" /\ ab' = None
    BY <1>6 DEF Wait, Running
  <2>2. Intent'
    BY <2>1
    DEF IInv, PassOK, Intent, Places, Decided, NothingLost, upsertVars, passVars, apiVars
  <2>3. InHand'
    BY <2>1 DEF InHand, upsertVars, passVars, Between
  <2>4. TypeOK'
    BY <1>1, <2>1
    DEF TypeOK, VolumesTypeOK, UpsertTypeOK, upsertVars, userVars, apiVars, passVars
  <2> QED BY <1>3, <2>2, <2>3, <2>4 DEF IInv, PassOK
<1> QED BY <1>4, <1>5, <1>6

\* A write by others takes the resourceVersion away from the pass.
LEMMA OthersWrite ==
  ASSUME IInv, NEW n \in Names, NEW o \in KindOf(n), ByOthers(n, o),
         edits' \in Nat, UNCHANGED <<sibling, shown>>
  PROVE  IInv'
<1> USE DEF Steps
<1>1. TypeOK /\ UpsertTypeOK(Bundles, Objects, Steps)
  BY DEF IInv, TypeOK, VolumesTypeOK
<1>2. /\ Put(n, o) /\ accepted' = (accepted /\ n # at)
      /\ UNCHANGED <<bundle, cached, pc, at, new, faults, crashes, ab, todo>>
  BY DEF ByOthers, passVars
<1>3. /\ live' \in [Names -> Objects \cup {None}]
      /\ pending' \in [Names -> Seq(Objects \cup {None})]
      /\ \A m \in Names : Len(pending'[m]) <= MaxLag
      /\ \A m \in Names : live'[m] \in KindOf(m) /\ pending'[m] \in Seq(KindOf(m))
      /\ Informed'
  BY <1>1, <1>2, PutKinds DEF IInv, StoreOK
<1>4. StoreOK'
  BY <1>2, <1>3 DEF IInv, StoreOK, KindsKept
<1>5. accepted \in BOOLEAN /\ accepted' \in BOOLEAN
  BY <1>1, <1>2 DEF TypeOK, VolumesTypeOK
<1>6. NothingLost'
  <2>1. \A m \in Names : m # n => live'[m] = live[m]
    BY <1>1, <1>2, PutElsewhere DEF UpsertTypeOK
  <2>2. pc = "update" => at \in Names
    BY DEF IInv, PassOK, Intent, Places, AtName
  <2> QED BY <1>2, <1>5, <2>1, <2>2 DEF IInv, PassOK, Intent, NothingLost, Keeps
<1>7. Intent' /\ InHand'
  BY <1>2, <1>3, <1>5, <1>6 DEF IInv, PassOK, Intent, Places, Decided, InHand
<1>8. TypeOK'
  BY <1>1, <1>2, <1>3, <1>5 DEF TypeOK, VolumesTypeOK, UpsertTypeOK
<1> QED BY <1>4, <1>7, <1>8 DEF IInv, PassOK

LEMMA OutsideSafe ==
  ASSUME IInv, OutsideStep, UNCHANGED <<sibling, shown>>
  PROVE  IInv' /\ Harmless
<1>1. TypeOK /\ UpsertTypeOK(Bundles, Objects, Steps)
  BY DEF IInv, TypeOK, VolumesTypeOK, Steps
<1>2. /\ DOMAIN live = Names /\ edits \in Nat
      /\ \A n \in Keys \cup Existing : n \in Names /\ live[n] \in Claims \cup {None}
      /\ live[Job] \in Jobs \cup {None} /\ Job \in Names
  BY <1>1, NamesOf DEF IInv, StoreOK, KindsKept, KindOf, UpsertTypeOK
<1>3. CASE Edit /\ UNCHANGED <<ab, todo, accepted>>
  <2>1. UNCHANGED <<live, cached, pending, faults, crashes, pc, at, new, ab, todo, accepted>>
    BY <1>3 DEF Edit, apiVars, passVars
  <2>2. bundle' \in Bundles /\ edits' \in Nat
    BY <1>2, <1>3, VolumesAssumption DEF Edit, UserStep
  <2>3. StoreOK' /\ Harmless
    BY <2>1, NothingWritten
  <2>4. Intent' /\ InHand'
    BY <2>1 DEF IInv, PassOK, Intent, Places, Decided, NothingLost, InHand
  <2>5. TypeOK'
    BY <1>1, <2>1, <2>2 DEF TypeOK, VolumesTypeOK, UpsertTypeOK
  <2> QED BY <2>3, <2>4, <2>5 DEF IInv, PassOK
<1>4. ASSUME NEW n \in Keys \cup Existing, Touch(n)
      PROVE  IInv' /\ Harmless
  <2>1. edits' = edits + 1 /\ live[n] # None
    BY <1>4 DEF Touch, UserStep
  <2>2. PICK o \in Claims \cup {None} : ByOthers(n, o)
    <3>1. \A l \in Others : [live[n] EXCEPT !.labels.other = l] \in Claims
      BY <1>2, <2>1 DEF Claims, LabelMaps
    <3> QED BY <1>4, <3>1 DEF Touch
  <2>3. o \in KindOf(n)
    BY NamesOf DEF KindOf
  <2>4. IInv'
    BY <1>2, <2>1, <2>2, <2>3, OthersWrite
  <2>5. \A m \in Names : m # n => live'[m] = live[m]
    BY <1>2, <2>2, PutElsewhere DEF ByOthers
  <2>6. Harmless
    BY <1>2, <2>1, <2>5, KeepsItself, NamesOf DEF Harmless
  <2> QED BY <2>4, <2>6
<1>5. ASSUME NEW n \in Keys \cup Existing, Bind(n)
      PROVE  IInv' /\ Harmless
  <2> DEFINE o == [live[n] EXCEPT !.bound = TRUE]
  <2>1. live[n] \in Claims /\ ByOthers(n, o) /\ edits' = edits
    BY <1>2, <1>5 DEF Bind
  <2>2. o \in Claims /\ o.size = live[n].size /\ o.labels = live[n].labels
    BY <2>1 DEF Claims
  <2> HIDE DEF o
  <2>3. o \in KindOf(n) \ {None} /\ n # Job
    BY <2>2, NamesOf DEF KindOf, Objects
  <2>4. IInv'
    BY <1>2, <2>1, <2>3, OthersWrite
  <2>5. Keeps(n, live[n], o)
    BY <2>2, <2>3 DEF Keeps
  <2>6. Put(n, o) /\ cached' = cached
    BY <2>1 DEF ByOthers
  <2>7. Harmless
    BY <1>2, <2>3, <2>5, <2>6, WriteKeeps
  <2> QED BY <2>4, <2>7
<1>6. CASE Collect
  <2>1. ByOthers(Job, None) /\ edits' = edits
    BY <1>6 DEF Collect
  <2>2. None \in KindOf(Job)
    BY DEF KindOf
  <2>3. IInv'
    BY <1>2, <2>1, <2>2, OthersWrite
  <2>4. live'[Job] = None /\ \A m \in Names : m # Job => live'[m] = live[m]
    BY <1>2, <2>1, PutElsewhere DEF ByOthers
  <2>5. Harmless
    BY <2>4, KeepsItself DEF Harmless
  <2> QED BY <2>3, <2>5
<1> QED BY <1>3, <1>4, <1>5, <1>6 DEF OutsideStep

LEMMA WatchSafe ==
  ASSUME IInv, NEW n \in Names, WatchVolumes(n)
  PROVE  IInv' /\ Harmless
<1>1. TypeOK /\ UpsertTypeOK(Bundles, Objects, Steps)
  BY DEF IInv, TypeOK, VolumesTypeOK, Steps
<1>2. /\ Watch(n) /\ UNCHANGED <<ab, todo, accepted, sibling, shown>>
      /\ UNCHANGED <<live, pc, at, new>>
  BY DEF WatchVolumes, Watch, passVars
<1>3. UpsertTypeOK(Bundles, Objects, Steps)'
  BY <1>1, <1>2, WatchType
<1>4. StoreOK'
  <2>1. pending[n] \in Seq(KindOf(n)) /\ DOMAIN cached = Names /\ DOMAIN pending = Names
    BY <1>1 DEF IInv, StoreOK, KindsKept, UpsertTypeOK
  <2>2. /\ Informed'
        /\ cached'[n] \in KindOf(n) /\ pending'[n] \in Seq(KindOf(n))
        /\ \A m \in Names : m # n => UNCHANGED <<cached[m], pending[m]>>
    BY <1>2, <2>1, WatchInformed DEF IInv, StoreOK
  <2> QED BY <1>2, <2>2 DEF IInv, StoreOK, KindsKept
<1>5. Harmless
  BY <1>2, KeepsItself DEF Harmless
<1>6. Intent' /\ InHand'
  BY <1>2 DEF IInv, PassOK, Intent, Places, Decided, NothingLost, InHand
<1>7. TypeOK'
  BY <1>1, <1>2, <1>3 DEF TypeOK, VolumesTypeOK, Steps
<1> QED BY <1>4, <1>5, <1>6, <1>7 DEF IInv, PassOK

LEMMA CrashSafe ==
  ASSUME IInv, Crash
  PROVE  IInv' /\ Harmless
<1>1. TypeOK /\ UpsertTypeOK(Bundles, Objects, Steps)
  BY DEF IInv, TypeOK, VolumesTypeOK, Steps
<1>2. /\ Restart /\ live' = live /\ cached' = live
      /\ pending' = [n \in Names |-> <<>>]
      /\ pc' = "idle" /\ at' = None /\ new' = None
      /\ ab' = None /\ todo' = {} /\ accepted' = FALSE
      /\ sibling' = "out" /\ shown' = shown
  BY DEF Crash, Restart, Goto, Between
<1>3. UpsertTypeOK(Bundles, Objects, Steps)'
  BY <1>1, <1>2, RestartType
<1>4. StoreOK'
  BY <1>2 DEF IInv, StoreOK, Informed, KindsKept
<1>5. Harmless
  BY <1>2, KeepsItself DEF Harmless
<1>6. DOMAIN live' = Names
  BY <1>2 DEF IInv, PassOK, Intent, Places
<1>7. Intent' /\ InHand'
  BY <1>2, <1>6, NotWriting DEF InHand, Between
<1>8. TypeOK'
  BY <1>1, <1>2, <1>3 DEF TypeOK, VolumesTypeOK, Steps
<1> QED BY <1>4, <1>5, <1>7, <1>8 DEF IInv, PassOK

-----------------------------------------------------------------------------

LEMMA InitIInv == Init => IInv
<1> SUFFICES ASSUME Init PROVE IInv
  OBVIOUS
<1> DEFINE size == CHOOSE s \in Sizes : TRUE
<1>1. size \in Sizes
  BY VolumesAssumption
<1>2. [size |-> size, labels |-> NoLabels, bound |-> TRUE] \in Claims
  BY <1>1 DEF Claims, NoLabels, LabelMaps
<1> HIDE DEF size
<1>3. /\ live \in [Names -> Objects \cup {None}]
      /\ \A n \in Names : live[n] \in KindOf(n)
  BY <1>2, NamesOf DEF Init, Objects, KindOf, size
<1>4. /\ cached = live /\ pending = [n \in Names |-> <<>>] /\ edits = 0
      /\ pc = "idle" /\ at = None /\ new = None /\ faults = 0 /\ crashes = 0
      /\ bundle \in Bundles
      /\ ab = None /\ todo = {} /\ accepted = FALSE /\ sibling = "out" /\ shown = None
  BY VolumesAssumption DEF Init, UpsertInit
<1>5. StoreOK
  BY <1>3, <1>4 DEF StoreOK, Informed, KindsKept
<1>6. PassOK
  BY <1>3, <1>4
  DEF PassOK, Intent, Places, AtName, Decided, NothingLost, InHand, Between
<1>7. UpsertTypeOK(Bundles, Objects, Steps)
  <2>1. /\ pending \in [Names -> Seq(Objects \cup {None})]
        /\ \A n \in Names : Len(pending[n]) <= MaxLag
    BY <1>4, LagAssumption
  <2> QED BY <1>3, <1>4, <2>1 DEF UpsertTypeOK, UpsertSteps, Between
<1>8. TypeOK
  BY <1>4, <1>7 DEF TypeOK, VolumesTypeOK, Steps
<1> QED BY <1>5, <1>6, <1>8 DEF IInv

LEMMA NextSafe == IInv /\ [Next]_vars => IInv' /\ Harmless
<1> SUFFICES ASSUME IInv, [Next]_vars PROVE IInv' /\ Harmless
  OBVIOUS
<1>1. CASE RunReconciles
  BY <1>1, GroupSafe, VolumesStepSafe, VolumesCancelledSafe DEF RunReconciles
<1>2. CASE OutsideStep /\ UNCHANGED <<sibling, shown>>
  BY <1>2, OutsideSafe
<1>3. CASE \E n \in Names : WatchVolumes(n)
  BY <1>3, WatchSafe
<1>4. CASE Crash
  BY <1>4, CrashSafe
<1>5. CASE UNCHANGED vars
  <2>1. UNCHANGED <<bundle, edits, live, cached, pending, faults, crashes, pc, at, new>>
        /\ UNCHANGED <<ab, todo, accepted, sibling, shown>>
    BY <1>5 DEF vars, volumeVars, upsertVars, userVars, apiVars, passVars
  <2>2. StoreOK' /\ Harmless
    BY <2>1, NothingWritten
  <2>3. PassOK'
    BY <2>1 DEF IInv, PassOK, Intent, Places, Decided, NothingLost, InHand
  <2>4. TypeOK'
    BY <2>1 DEF IInv, TypeOK, VolumesTypeOK, UpsertTypeOK
  <2> QED BY <2>2, <2>3, <2>4 DEF IInv
<1> QED BY <1>1, <1>2, <1>3, <1>4, <1>5 DEF Next

LEMMA Inductive == Spec => []IInv
BY InitIInv, NextSafe, PTL DEF Spec

\* What no step of Harmless does, in the terms of the properties.
LEMMA HarmlessMeans ==
  ASSUME IInv, Harmless
  PROVE  /\ \A n \in Keys \cup Existing : live[n] # None /\ OperatorStep =>
              live'[n] # None /\ live'[n].size = live[n].size
         /\ \A e \in Existing : live[e] # None /\ live'[e] # None /\ OperatorStep =>
              \A k \in DOMAIN live[e].labels :
                live[e].labels[k] \in {None, live'[e].labels[k]}
         /\ live[Job] # None /\ live'[Job] # None /\ live[Job].owner # None =>
              live'[Job].owner # None
BY NamesOf DEF Harmless, Keeps, OperatorStep

(***************************************************************************)
(* Bundles, claims, jobs, caches and passes keep their types.              *)
(***************************************************************************)
THEOREM TypeCorrect == Spec => []TypeOK
<1>1. IInv => TypeOK
  BY DEF IInv
<1> QED BY <1>1, Inductive, PTL

(***************************************************************************)
(* "neverDelete" (volumes.go): no pass takes a claim away or changes what  *)
(* it is, whatever becomes of its update.                                  *)
(***************************************************************************)
THEOREM NoClaimLost == Spec => ClaimsNeverLost
<1>1. IInv /\ [Next]_vars =>
        [\A n \in Keys \cup Existing : live[n] # None /\ OperatorStep =>
           live'[n] # None /\ live'[n].size = live[n].size]_vars
  BY NextSafe, HarmlessMeans
<1> QED BY <1>1, Inductive, PTL DEF Spec, ClaimsNeverLost

(***************************************************************************)
(* ReconcileExistingPVC (volumes.go) keeps the labels a claim has, those   *)
(* included that others put on it after the pass has read it.              *)
(***************************************************************************)
THEOREM NoLabelLost == Spec => LabelsKept
<1>1. IInv /\ [Next]_vars =>
        [\A e \in Existing : live[e] # None /\ live'[e] # None /\ OperatorStep =>
           \A k \in DOMAIN live[e].labels :
             live[e].labels[k] \in {None, live'[e].labels[k]}]_vars
  BY NextSafe, HarmlessMeans
<1> QED BY <1>1, Inductive, PTL DEF Spec, LabelsKept

(***************************************************************************)
(* ReconcileRecurringBackupJob (longhorn_backups_plugin.go) never takes    *)
(* the owner of a job away.                                                *)
(***************************************************************************)
THEOREM NoOwnerLost == Spec => OwnerKept
<1>1. IInv /\ [Next]_vars =>
        [live[Job] # None /\ live'[Job] # None /\ live[Job].owner # None =>
           live'[Job].owner # None]_vars
  BY NextSafe, HarmlessMeans
<1> QED BY <1>1, Inductive, PTL DEF Spec, OwnerKept
=============================================================================
