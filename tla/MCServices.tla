----------------------------- MODULE MCServices -----------------------------
(* Instances of Services for TLC. *)
EXTENDS Services

CONSTANTS lb, l1

Bundle == [routes |-> None, type |-> None, labels |-> {}]

\* No routes, one, one whose port changes, and its type to one with node
\* ports, two and other labels, and a map of routes that is empty.
MCWritten ==
  {Bundle,
   [Bundle EXCEPT !.routes = [r \in {1} |-> 80]],
   [Bundle EXCEPT !.routes = [r \in {1} |-> 81], !.type = lb],
   [Bundle EXCEPT !.routes = [r \in {1, 2} |-> 81], !.labels = {l1}],
   [Bundle EXCEPT !.routes = [r \in {2} |-> 80]],
   [Bundle EXCEPT !.routes = <<>>]}
=============================================================================
