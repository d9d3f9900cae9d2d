--------------------------- MODULE MCDeployments ---------------------------
(* Instances of Deployments for TLC. *)
EXTENDS Deployments

CONSTANTS v1, v2, i1, p1, l1, own, old, s1

Bundle == [image |-> i1, envs |-> <<>>, sourced |-> <<>>, nvidia |-> FALSE,
           probe |-> None, labels |-> {}]

Probe == [handler |-> p1, period |-> 30]

\* A bare bundle, one whose labels or probe change, one whose probe leaves a
\* number to the server, one with variables of all origins, one whose last
\* variable goes, and one that makes no sense.
MCWritten ==
  {Bundle,
   [Bundle EXCEPT !.labels = {l1}, !.probe = Probe],
   [Bundle EXCEPT !.probe = [Probe EXCEPT !.period = 0]],
   [Bundle EXCEPT !.envs = [k \in {1} |-> v1], !.sourced = [k \in {2} |-> s1]],
   [Bundle EXCEPT !.envs = [k \in {1, 3} |-> v1], !.nvidia = TRUE],
   [Bundle EXCEPT !.envs = [k \in {1} |-> v2], !.nvidia = TRUE],
   [Bundle EXCEPT !.sourced = [k \in {2} |-> None]]}

MCFound ==
  {Stored([CreateExpectedDeployment(Bundle) EXCEPT !.selector = old], {})}
=============================================================================
