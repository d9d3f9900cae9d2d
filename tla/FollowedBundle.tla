---------------------------- MODULE FollowedBundle ----------------------------
(***************************************************************************)
(* What a reconciler promises of the objects it keeps for a bundle,        *)
(* without caches, calls and the steps of a pass.  A pass takes what the   *)
(* bundle says, once, or one of the things it may be read to say where the *)
(* order of a Go map decides, and writes that, name by name, as it gets on:*)
(* nothing else, no mixture of versions, and nothing older than a pass     *)
(* before it.  It takes away only what the bundle it took does not name,   *)
(* or what it is to replace.  What has settled it leaves alone.            *)
(***************************************************************************)
EXTENDS Naturals

CONSTANTS
  Names,     \* names of the objects
  None,      \* no object
  Replacing  \* whether an object may be deleted to be created anew

VARIABLES
  said,     \* what the bundle may say: a set of maps, name -> object, or None
  edits,    \* how often users have acted
  stored,   \* what there is: name -> object, or None
  taken,    \* {what the pass took the bundle to say}, or {}
  settled   \* what is stored is as the bundle says, and known to be

vars == <<said, edits, stored, taken, settled>>

Init == edits = 0 /\ taken = {}

\* A user writes the bundle, or deletes an object.
User ==
  /\ edits' = edits + 1
  /\ UNCHANGED taken
  /\ \/ UNCHANGED stored
     \/ \E n \in Names : stored' = [stored EXCEPT ![n] = None] /\ UNCHANGED said

Take ==
  /\ taken = {}
  /\ \E what \in said : taken' = {what}
  /\ UNCHANGED stored

Write(n) ==
  /\ \E took \in taken : stored' = [stored EXCEPT ![n] = took[n]]
  /\ taken' \in {taken, {}}

Replace(n) ==
  /\ Replacing
  /\ taken # {}
  /\ stored' = [stored EXCEPT ![n] = None]
  /\ taken' \in {taken, {}}

\* A pass ends, or something is seen.
Finish == taken' \in {taken, {}} /\ UNCHANGED stored

Operator ==
  /\ UNCHANGED <<said, edits>>
  /\ settled => settled' /\ UNCHANGED stored
  /\ Take \/ Finish \/ \E n \in Names : Write(n) \/ Replace(n)

Next == User \/ Operator

Spec == Init /\ [][Next]_vars
=============================================================================
