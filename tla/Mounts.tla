--------------------------------- MODULE Mounts ---------------------------------
(***************************************************************************)
(* The volume mounts that CreateExpectedDeployment (deployment.go) gives   *)
(* the container and the init containers that copy configs over.           *)
(*                                                                         *)
(* Go's append writes into the array behind its first argument while there *)
(* is room in it, so that slices made by appending to the same slice share *)
(* the array and its next free place.  initVolumeMounts is made so from    *)
(* volumeMounts for every config with copyOver.                            *)
(***************************************************************************)
EXTENDS Naturals, Sequences, FiniteSets

CONSTANTS
  Volumes,  \* bound on the volumes, numbered by their sorted keys
  Configs,  \* bound on the configs, numbered likewise
  Nil       \* nil, or a place of an array not written to

ASSUME SizesAssumption == Volumes \in Nat /\ Configs \in Nat

\* What is mounted: a volume or a config.
Mount == ({"volume"} \X (1 .. Volumes)) \cup ({"config"} \X (1 .. Configs))

Slices == [of : Nat, len : Nat]

ASSUME NilAssumption == Nil \notin Mount \cup Slices

VARIABLES
  copyOver,      \* config -> whether an init container copies it over
  volume,        \* volumes mounted so far
  config,        \* configs attached so far
  array,         \* the arrays allocated so far, in order
  volumeMounts,  \* a slice: the array, and how much of it
  initMounts     \* config -> the slice of its init container, or Nil

mountVars == <<copyOver, volume, config, array, volumeMounts, initMounts>>

MountsTypeOK ==
  /\ copyOver \in [1 .. Configs -> BOOLEAN]
  /\ volume \in 0 .. Volumes
  /\ config \in 0 .. Configs
  /\ array \in Seq(Seq(Mount \cup {Nil}))
  /\ volumeMounts \in Slices
  /\ initMounts \in [1 .. Configs -> Slices \cup {Nil}]

-----------------------------------------------------------------------------

Cap(s) == IF s.of = 0 THEN 0 ELSE Len(array[s.of])

\* The elements of s: the nil slice, whose array is 0, has none.
Elements(s) == [i \in 1 .. s.len |-> array[s.of][i]]

\* The runtime doubles small arrays.
Grown(cap) == IF cap = 0 THEN 1 ELSE 2 * cap

\* The arrays once m is appended to s, and the slice that append returns.
AppendArray(s, m) ==
  IF s.len < Cap(s)
  THEN [array EXCEPT ![s.of][s.len + 1] = m]
  ELSE Append(array,
         [i \in 1 .. Grown(Cap(s)) |->
            IF i <= s.len THEN array[s.of][i]
            ELSE IF i = s.len + 1 THEN m ELSE Nil])

AppendSlice(s) ==
  [of  |-> IF s.len < Cap(s) THEN s.of ELSE Len(array) + 1,
   len |-> s.len + 1]

-----------------------------------------------------------------------------

MountVolume ==
  /\ volume < Volumes /\ config = 0
  /\ volume' = volume + 1
  /\ array' = AppendArray(volumeMounts, <<"volume", volume'>>)
  /\ volumeMounts' = AppendSlice(volumeMounts)
  /\ UNCHANGED <<copyOver, config, initMounts>>

\* Mutant: the mount of the init container goes to the container, too.
CopyConfigOverAssigned ==
  /\ config < Configs
  /\ copyOver[config + 1]
  /\ config' = config + 1
  /\ array' = AppendArray(volumeMounts, <<"config", config'>>)
  /\ initMounts' = [initMounts EXCEPT ![config'] = AppendSlice(volumeMounts)]
  /\ volumeMounts' = AppendSlice(volumeMounts)
  /\ UNCHANGED <<copyOver, volume>>

\* Mutant: the init container gets a mount of its own and no other.
CopyConfigOverAlone ==
  /\ config < Configs
  /\ copyOver[config + 1]
  /\ config' = config + 1
  /\ LET nil == [of |-> 0, len |-> 0]
     IN /\ array' = AppendArray(nil, <<"config", config'>>)
        /\ initMounts' = [initMounts EXCEPT ![config'] = AppendSlice(nil)]
  /\ UNCHANGED <<copyOver, volume, volumeMounts>>

\* The init container gets the mounts so far and one of its own.
CopyConfigOver ==
  /\ config < Configs
  /\ copyOver[config + 1]
  /\ config' = config + 1
  /\ array' = AppendArray(volumeMounts, <<"config", config'>>)
  /\ initMounts' = [initMounts EXCEPT ![config'] = AppendSlice(volumeMounts)]
  /\ UNCHANGED <<copyOver, volume, volumeMounts>>

MountConfig ==
  /\ config < Configs
  /\ ~copyOver[config + 1]
  /\ config' = config + 1
  /\ array' = AppendArray(volumeMounts, <<"config", config'>>)
  /\ volumeMounts' = AppendSlice(volumeMounts)
  /\ UNCHANGED <<copyOver, volume, initMounts>>

MountsInit ==
  /\ copyOver \in [1 .. Configs -> BOOLEAN]
  /\ volume = 0 /\ config = 0
  /\ array = <<>>
  /\ volumeMounts = [of |-> 0, len |-> 0]
  /\ initMounts = [c \in 1 .. Configs |-> Nil]

MountsNext == MountVolume \/ CopyConfigOver \/ MountConfig

MountsSpec == MountsInit /\ [][MountsNext]_mountVars

-----------------------------------------------------------------------------
(***************************************************************************)
(* The container mounts the volumes and then the configs that are not      *)
(* copied over, each where it was put, in the order of their keys, and     *)
(* nothing else: appends for init containers write into the same arrays,   *)
(* but never into what the container's slice covers.                       *)
(***************************************************************************)
ContainerMounts ==
  LET mounts == Elements(volumeMounts)
      plain  == {c \in 1 .. config : ~copyOver[c]}
      rest   == volume + 1 .. volumeMounts.len
  IN /\ volume <= volumeMounts.len
     /\ \A v \in 1 .. volume : mounts[v] = <<"volume", v>>
     /\ \A c \in plain : \E i \in rest : mounts[i] = <<"config", c>>
     /\ \A i \in rest : \E c \in plain : mounts[i] = <<"config", c>>
     /\ \A i, j \in rest : i < j => mounts[i][2] < mounts[j][2]

\* The configs that have an init container.
Copied == {c \in 1 .. config : copyOver[c]}

(***************************************************************************)
(* An init container mounts every volume, so that there is somewhere to    *)
(* copy to, whatever is appended to the mounts after its own were made.    *)
(***************************************************************************)
InitContainersMountVolumes ==
  \A c \in Copied : \A v \in 1 .. volume :
    /\ volume < initMounts[c].len
    /\ Elements(initMounts[c])[v] = <<"volume", v>>
=============================================================================
