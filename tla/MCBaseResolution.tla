-------------------------- MODULE MCBaseResolution --------------------------
(* An instance of BaseResolution for TLC: every layer uses one kind of     *)
(* field, a map of strings with any of its keys, a map of structs with one.*)
EXTENDS BaseResolution

CONSTANT k1

Blank == [field |-> Nil, envs |-> <<>>, routes |-> <<>>]

MCWritten ==
  {[Blank EXCEPT !.field = v] : v \in Pointers}
    \cup {[Blank EXCEPT !.envs = m] : m \in MapsTo(Strings)}
    \cup {[Blank EXCEPT !.routes = [k \in {k1} |-> s]] : s \in Structs}
=============================================================================
