-------------------------------- MODULE Volumes --------------------------------
(***************************************************************************)
(* ReconcileVolumes (volumes.go) and the job that backs the volumes up     *)
(* (longhorn_backups_plugin.go).  A pass goes through the volumes in the   *)
(* order of their keys: claims of the bundle's own are created, claims     *)
(* that were there before it are labelled, the rest is left alone.  After  *)
(* them comes the job, one for all, in a namespace of its own.             *)
(*                                                                         *)
(* The labels of a claim are written to the object that Get returned, so   *)
(* that the API server refuses them when it has changed since.  The spec   *)
(* of a claim cannot be changed at all.                                    *)
(*                                                                         *)
(* A pass is begun and called off by the group of Reconciles.              *)
(***************************************************************************)
EXTENDS Upserts, FiniteSetsExt

CONSTANTS
  Keys,         \* keys of volumes and names of the claims made for them
  Existing,     \* names of claims that users have made
  Job,          \* the name of the job
  Sizes,        \* what the spec of a claim asks for
  Frequencies,  \* what a backup asks for
  Labels,       \* labels of the bundle, as one value
  Others        \* labels that others put on a claim, as one value

\* emptyDir: false is a kind of its own.
Kinds == {"claim", "existing", "hostPath", "emptyDir", "emptyDirFalse"}

Volume == {v \in [kind : Kinds, size : Sizes, backup : BOOLEAN,
                   existing : Existing \cup {None}] :
             v.kind = "existing" <=> v.existing # None}

\* volumes and backup may be nil.
Bundles == [volumes : MapsTo(Keys, Volume) \cup {None},
            backup  : Frequencies \cup {None},
            label   : Labels]

\* A label that is not there is None.
LabelMaps == [own    : Labels \cup {None},
              backup : {"enabled", None},
              other  : Others \cup {None}]

Claims == [size : Sizes, labels : LabelMaps, bound : BOOLEAN]
JobSpecs == [frequency : Frequencies, label : Labels]
Jobs == [spec : JobSpecs, owner : Keys \cup Existing \cup {None}]
Objects == Claims \cup Jobs

ASSUME VolumesAssumption ==
  /\ Keys \subseteq Nat
  /\ Sizes # {}
  /\ Names = Keys \cup Existing \cup {Job}
  /\ Job \notin Keys \cup Existing
  /\ Keys \cap Existing = {}
  /\ None \notin Names \cup Frequencies \cup Labels \cup Others \cup Objects
  /\ None \notin MapsTo(Keys, Volume) \cup Bundles
  /\ Written \subseteq Bundles

VARIABLES
  ab,       \* the bundle the pass works on, or None
  todo,     \* the volumes the pass has still to visit
  accepted  \* whether the API server would take the update of the pass

volumeVars == <<upsertVars, ab, todo, accepted>>

VolumesTypeOK ==
  /\ UpsertTypeOK(Bundles, Objects, {"visit"})
  /\ ab \in Bundles \cup {None}
  /\ todo \subseteq Keys
  /\ accepted \in BOOLEAN

-----------------------------------------------------------------------------

NoLabels == [own |-> None, backup |-> None, other |-> None]

GetPVCLabels(b, v) ==
  [own    |-> b.label,
   backup |-> IF b.backup # None /\ v.backup THEN "enabled" ELSE None,
   other  |-> None]

\* What an existing claim has goes before what it is to have.
WithLabels(current, expected) ==
  [k \in DOMAIN expected |-> IF current[k] # None THEN current[k] ELSE expected[k]]

CreateExpectedPVC(b, v) ==
  [size |-> v.size, labels |-> GetPVCLabels(b, v), bound |-> FALSE]

\* Mutant: the maps are never the same.
StringMapsDiffer(map1, map2) == FALSE

\* Mutant: the lengths are not compared.
StringMapsWithin(map1, map2) ==
  \A k \in DOMAIN map1 : map1[k] \in {None, map2[k]}

StringMapsMatch(map1, map2) == map1 = map2

\* The claims a volume may be about, by the kind of the volume.
IsOwn(v) == v.kind \in {"claim", "emptyDirFalse"}
ClaimOf(n, v) == IF v.kind = "existing" THEN v.existing ELSE n

-----------------------------------------------------------------------------

\* What is left to do of the pass, if it goes on.
Left(rest) ==
  /\ todo' = IF pc' \in Between THEN {} ELSE rest
  /\ accepted' = FALSE
  /\ UNCHANGED ab

\* Mutant: what is written carries no resourceVersion.
UpsertAnyVersion(n, o) ==
  /\ Upsert(n, o, cached[n] # None)
  /\ accepted' = TRUE

(***************************************************************************)
(* What Get returned is written back, with the resourceVersion of it: as   *)
(* long as the informer has seen everything, that of the last write.       *)
(***************************************************************************)
UpsertCurrent(n, o) ==
  /\ Upsert(n, o, cached[n] # None)
  /\ accepted' = (cached[n] # None /\ pending[n] = <<>>)

Begin ==
  /\ pc \in Between
  /\ ab' = bundle
  /\ IF bundle.volumes = None THEN pc' = "idle" /\ todo' = {}
     ELSE pc' = "visit" /\ todo' = DOMAIN bundle.volumes
  /\ UNCHANGED <<userVars, apiVars, at, new, accepted>>

ReconcileExistingPVC(n, v) ==
  LET current  == cached[n]
      labels   == IF current = None THEN NoLabels ELSE current.labels
      expected == WithLabels(labels, GetPVCLabels(ab, v))
  IN IF StringMapsMatch(labels, expected) THEN Goto("visit") /\ UNCHANGED accepted
     ELSE IF current = None
     THEN UpsertCurrent(n, [CreateExpectedPVC(ab, v) EXCEPT !.labels = expected])
     ELSE UpsertCurrent(n, [current EXCEPT !.labels = expected])

(***************************************************************************)
(* A claim of another size is updated to the expected one, which the API   *)
(* server refuses: what it has filled in is missing there, and the size    *)
(* another.  So it is with one whose labels have changed as well.          *)
(***************************************************************************)
ReconcilePVC(n, v) ==
  LET current  == cached[n]
      expected == CreateExpectedPVC(ab, v)
  IN IF current = None \/ current.size # expected.size
     THEN Upsert(n, expected, current # None) /\ accepted' = FALSE
     ELSE IF StringMapsMatch(expected.labels, current.labels)
     THEN Goto("visit") /\ UNCHANGED accepted
     ELSE UpsertCurrent(n, [current EXCEPT !.labels = expected.labels])

Visit ==
  /\ pc = "visit" /\ todo # {}
  /\ LET n == Min(todo)
         v == ab.volumes[n]
     IN /\ \/ v.kind = "existing" /\ ReconcileExistingPVC(v.existing, v)
           \/ IsOwn(v) /\ ReconcilePVC(n, v)
           \/ v.kind \in {"hostPath", "emptyDir"} /\ Goto("visit") /\ UNCHANGED accepted
        /\ todo' = todo \ {n}
  /\ UNCHANGED <<userVars, apiVars, ab>>

\* What Get has not filled in differs, and the error is returned.
GetFails ==
  /\ pc = "visit" /\ todo # {}
  /\ ab.volumes[Min(todo)].kind \notin {"hostPath", "emptyDir"}
  /\ Fault
  /\ Goto("backoff")
  /\ Left({})
  /\ UNCHANGED <<userVars, live, cached, pending, crashes>>

-----------------------------------------------------------------------------

\* Mutant: no volume is passed over.
OwnersAll(b) == DOMAIN b.volumes

\* The volumes that ReconcileRecurringBackupJob looks at for an owner: where
\* emptyDir is said at all it is passed over.
Owners(b) == {n \in DOMAIN b.volumes : b.volumes[n].kind \in {"claim", "existing"}}

\* The search goes on over claims that are not bound, and ends with an error
\* at one that is not there.
Searched(b) ==
  {n \in Owners(b) : LET c == cached[ClaimOf(n, b.volumes[n])]
                     IN c = None \/ c.bound}

OwnerMissing(b) ==
  Searched(b) # {} /\ cached[ClaimOf(Min(Searched(b)), b.volumes[Min(Searched(b))])] = None

\* Mutant: the references are begun anew.
OwnerAnew(b, current) ==
  IF Searched(b) # {} THEN ClaimOf(Min(Searched(b)), b.volumes[Min(Searched(b))])
  ELSE None

\* The owner of before stays where none is found.
Owner(b, current) ==
  IF Searched(b) # {} THEN ClaimOf(Min(Searched(b)), b.volumes[Min(Searched(b))])
  ELSE IF current = None THEN None ELSE current.owner

JobSpec(b) == [frequency |-> b.backup, label |-> b.label]

JobWanted(b) == b.backup # None /\ b.volumes \notin {None, <<>>}

(***************************************************************************)
(* The job, when the volumes are done.  The Gets have no effect, and are   *)
(* one step with the decision.  A claim that is bound has a volume of      *)
(* Longhorn's.                                                             *)
(***************************************************************************)
ReconcileRecurringBackupJob ==
  /\ pc = "visit" /\ todo = {}
  /\ LET current  == cached[Job]
         expected == [spec |-> JobSpec(ab), owner |-> Owner(ab, current)]
     IN IF ~JobWanted(ab) THEN Goto("idle") /\ UNCHANGED accepted
        ELSE IF OwnerMissing(ab) THEN Goto("backoff") /\ UNCHANGED accepted
        ELSE IF current # None /\ current.spec = expected.spec
        THEN Goto("idle") /\ UNCHANGED accepted
        ELSE UpsertCurrent(Job, expected)
  /\ UNCHANGED <<userVars, apiVars, ab, todo>>

\* A Get fails, of the job, of a claim or of the volume behind it.
JobGetFails ==
  /\ pc = "visit" /\ todo = {} /\ JobWanted(ab)
  /\ Fault
  /\ Goto("backoff")
  /\ Left({})
  /\ UNCHANGED <<userVars, live, cached, pending, crashes>>

\* Where the pass goes on after a write.
Then == IF at = Job THEN "idle" ELSE "visit"

\* What Get left empty of an existing claim cannot be created.
CannotCreate ==
  /\ pc = "create" /\ at \in Existing
  /\ Goto("backoff")
  /\ Left({})
  /\ UNCHANGED <<userVars, apiVars>>

\* neverDelete is said for the claims, and no selector changes in a job.
UpsertResource ==
  \/ at \notin Existing /\ Create(Then) /\ Left(todo)
  \/ CannotCreate
  \/ Update(accepted, Then) /\ Left(todo)
  \/ UpdateRefused(FALSE, at # Job) /\ Left(todo)
  \/ DeleteRefused /\ Left(todo)
  \/ CreateAgain /\ Left(todo)

ReconcileVolumes ==
  \/ Visit \/ GetFails
  \/ ReconcileRecurringBackupJob \/ JobGetFails
  \/ UpsertResource

-----------------------------------------------------------------------------
(***************************************************************************)
(* Others that write to what the pass writes.  An update that was decided  *)
(* on before carries an old resourceVersion then.                          *)
(***************************************************************************)
ByOthers(n, o) ==
  /\ Put(n, o)
  /\ accepted' = (accepted /\ n # at)
  /\ UNCHANGED <<bundle, cached, passVars, faults, crashes, ab, todo>>

\* Users delete claims and put their labels on them.
Touch(n) ==
  /\ UserStep
  /\ live[n] # None
  /\ \/ ByOthers(n, None)
     \/ \E l \in Others : ByOthers(n, [live[n] EXCEPT !.labels.other = l])

\* The provisioner makes a volume for the claim.
Bind(n) ==
  /\ live[n] # None /\ ~live[n].bound
  /\ ByOthers(n, [live[n] EXCEPT !.bound = TRUE])
  /\ UNCHANGED edits

\* A job goes with the volume that owns it.
Collect ==
  /\ live[Job] # None /\ live[Job].owner # None
  /\ live[live[Job].owner] = None
  /\ ByOthers(Job, None)
  /\ UNCHANGED edits
=============================================================================
