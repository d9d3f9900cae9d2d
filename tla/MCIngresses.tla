---------------------------- MODULE MCIngresses ----------------------------
(* Instances of Ingresses for TLC. *)
EXTENDS Ingresses

CONSTANTS h1, h2, g1

Bundle == [routes |-> None, annotations |-> None, homepage |-> None]
Route(host, port, auth) == [host |-> host, port |-> port, auth |-> auth]
Annotated == [groups |-> None]
Homepage == [groups |-> g1]

\* No routes; routes without an Ingress; one of two, with a login; both, of
\* which the first, or the second, asks for a login, with annotations and
\* without; and the second moved to another host, with nothing but that.
MCWritten ==
  {Bundle,
   [Bundle EXCEPT !.routes = [n \in {1, 2} |-> Route(None, 80, FALSE)]],
   [Bundle EXCEPT !.routes = [n \in {1} |-> Route(h1, 80, TRUE)],
                  !.homepage = Homepage],
   [Bundle EXCEPT !.routes = [n \in {1, 2} |-> Route(h1, 80, n = 1)],
                  !.annotations = Annotated, !.homepage = Homepage],
   [Bundle EXCEPT !.routes = [n \in {1, 2} |-> Route(h1, 81, n = 2)],
                  !.annotations = Annotated],
   [Bundle EXCEPT !.routes = [n \in {2} |-> Route(h2, 80, FALSE)],
                  !.homepage = Homepage]}
=============================================================================
