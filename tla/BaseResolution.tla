--------------------------- MODULE BaseResolution ---------------------------
(***************************************************************************)
(* ResolveAppBundleBase on the values of the fields: what a bundle looks   *)
(* like when its base, the base of its base and so on have been merged     *)
(* into it (base_controller.go, MergeDictValues in appbundle_types.go).    *)
(*                                                                         *)
(* A spec is reduced to one field of each kind that mergo, mapTransformer  *)
(* and MergeDictValues treat in a way of their own:                        *)
(*   field  - pointers, structs of pointers, strings and lists             *)
(*   envs   - maps from strings to strings: envs, node selector, labels    *)
(*            and annotations                                              *)
(*   routes - maps from strings to structs: routes, volumes, configs and   *)
(*            sourced envs; a struct is one pointer and one string         *)
(* Layer 1 is the bundle, layer 2 its base, layer 3 the base of that, ...  *)
(***************************************************************************)
EXTENDS Naturals, Sequences

CONSTANTS
  Names,     \* keys of the maps
  Values,    \* values other than the default of their type
  Zero,      \* "", 0 or false
  Nil,       \* a nil pointer
  Written,   \* the specs that users write
  MaxLayers  \* bound on the length of the chain, the bundle included

ASSUME ValuesAssumption ==
  /\ Zero \notin Values
  /\ Nil \notin Values \cup {Zero}

ASSUME LayersAssumption == MaxLayers \in Nat \ {0}

Pointers == Values \cup {Zero, Nil}
Strings  == Values \cup {Zero}
Structs  == [port : Pointers, protocol : Strings]

MapsTo(S) == UNION {[K -> S] : K \in SUBSET Names}

Specs == [field : Pointers, envs : MapsTo(Strings), routes : MapsTo(Structs)]

ASSUME WrittenAssumption == Written \subseteq Specs

VARIABLES
  layers,  \* the bundle and its bases, as they were fetched
  depth,   \* how many of them are merged
  ab       \* the bundle as merged so far

resolutionVars == <<layers, depth, ab>>

ResolutionTypeOK ==
  /\ layers \in Seq(Specs) \ {<<>>}
  /\ depth \in 1 .. Len(layers)
  /\ ab \in Specs

-----------------------------------------------------------------------------

IsDefault(v) == v \in {Zero, Nil}

\* mergo follows pointers: one to a default counts as empty and gives way.
MergePointer(dst, src) ==
  IF IsDefault(dst) /\ src # Nil THEN src ELSE dst

\* Mutant: the base's struct replaces the bundle's.
MergeStructOverwrite(dst, src) == src

\* The Merge calls of MergeDictValues: field by field, the bundle's first.
MergeStruct(dst, src) ==
  [port     |-> MergePointer(dst.port, src.port),
   protocol |-> MergePointer(dst.protocol, src.protocol)]

(***************************************************************************)
(* mapTransformer: every key of the base goes into the bundle's map, and   *)
(* where the bundle has a value already, that is merged first if it is a   *)
(* map, a slice or a struct, and replaced if it is a string.               *)
(***************************************************************************)
TransformStructs(dst, src) ==
  [k \in DOMAIN dst \cup DOMAIN src |->
     CASE k \notin DOMAIN src -> dst[k]
       [] k \notin DOMAIN dst -> src[k]
       [] OTHER -> MergeStruct(dst[k], src[k])]

\* Mutant: what MergeDictValues says for strings, which are never given to it.
MergeStringAsDocumented(dst, src) == IF dst = Zero THEN src ELSE dst

MergeString(dst, src) == src

\* Mutant: only keys that the bundle has are looked at.
TransformStringsOfOwnKeys(dst, src) ==
  [k \in DOMAIN dst |->
     IF k \in DOMAIN src THEN MergeString(dst[k], src[k]) ELSE dst[k]]

TransformStrings(dst, src) ==
  [k \in DOMAIN dst \cup DOMAIN src |->
     CASE k \notin DOMAIN src -> dst[k]
       [] k \notin DOMAIN dst -> src[k]
       [] OTHER -> MergeString(dst[k], src[k])]

Merge(dst, src) ==
  [field  |-> MergePointer(dst.field, src.field),
   envs   |-> TransformStrings(dst.envs, src.envs),
   routes |-> TransformStructs(dst.routes, src.routes)]

ResolutionInit ==
  /\ \E length \in 1 .. MaxLayers : layers \in [1 .. length -> Written]
  /\ depth = 1
  /\ ab = layers[1]

\* One level of ResolveAppBundleBase.
ResolveAppBundleBase ==
  /\ depth < Len(layers)
  /\ ab' = Merge(ab, layers[depth + 1])
  /\ depth' = depth + 1
  /\ UNCHANGED layers

ResolutionNext == ResolveAppBundleBase

ResolutionSpec == ResolutionInit /\ [][ResolutionNext]_resolutionVars

-----------------------------------------------------------------------------
(***************************************************************************)
(* What resolution promises, against a reference that looks at all the     *)
(* layers at once.                                                         *)
(***************************************************************************)

(***************************************************************************)
(* v is what the nearest of the first m layers says, where Says[i] is what *)
(* layer i says and a default says nothing.                                *)
(***************************************************************************)
FromNearest(v, m, Says) ==
  \/ /\ IsDefault(v)
     /\ \A i \in 1 .. m : IsDefault(Says[i])
  \/ \E i \in 1 .. m : /\ v = Says[i]
                      /\ ~IsDefault(Says[i])
                      /\ \A j \in 1 .. i - 1 : IsDefault(Says[j])

\* What layer i says of a field of the struct at k.
PortAt(k, i)     == IF k \in DOMAIN layers[i].routes THEN layers[i].routes[k].port ELSE Nil
ProtocolAt(k, i) == IF k \in DOMAIN layers[i].routes THEN layers[i].routes[k].protocol ELSE Nil

(***************************************************************************)
(* A field has the value of the layer nearest to the bundle that gives it  *)
(* one, and a layer that gives it a default (false, 0, "") gives it none:  *)
(* a bundle cannot switch off what a base switches on.  So it is with the  *)
(* fields of a spec and with those of a struct in a map, each on its own.  *)
(***************************************************************************)
FieldsFromNearest ==
  /\ FromNearest(ab.field, depth, [i \in 1 .. depth |-> layers[i].field])
  /\ \A k \in DOMAIN ab.routes :
       /\ FromNearest(ab.routes[k].port, depth, [i \in 1 .. depth |-> PortAt(k, i)])
       /\ FromNearest(ab.routes[k].protocol, depth, [i \in 1 .. depth |-> ProtocolAt(k, i)])

\* A string of a map comes from the layer farthest from the bundle that has
\* the key: bases overwrite the bundle, and bases of bases overwrite bases.
StringsFromFarthest ==
  \A k \in DOMAIN ab.envs : \E i \in 1 .. depth :
    /\ k \in DOMAIN layers[i].envs
    /\ ab.envs[k] = layers[i].envs[k]
    /\ \A j \in i + 1 .. depth : k \notin DOMAIN layers[j].envs

\* "Should append all routes from base to app bundle": the keys of a map are
\* those of all layers, none is lost and none made up.
KeysOfAllLayers ==
  /\ DOMAIN ab.envs = UNION {DOMAIN layers[i].envs : i \in 1 .. depth}
  /\ DOMAIN ab.routes = UNION {DOMAIN layers[i].routes : i \in 1 .. depth}
=============================================================================
