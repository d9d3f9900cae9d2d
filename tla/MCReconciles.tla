---------------------------- MODULE MCReconciles ----------------------------
(* Instances of Reconciles for TLC. *)
EXTENDS Reconciles

CONSTANTS e1, job, s1, s2, f1, l1, l2

Claim == [kind |-> "claim", size |-> s1, backup |-> TRUE, existing |-> None]
Bundle == [volumes |-> None, backup |-> None, label |-> l1]

\* No volumes; a claim and an existing one, backed up; the claim alone and
\* not backed up; the claim with another size; other labels, with kinds that
\* are less than a claim.
MCWritten ==
  {Bundle,
   [Bundle EXCEPT !.volumes = [n \in {1, 2} |-> IF n = 1 THEN Claim
                               ELSE [Claim EXCEPT !.kind = "existing", !.existing = e1]],
                  !.backup = f1],
   [Bundle EXCEPT !.volumes = [n \in {1} |-> [Claim EXCEPT !.backup = FALSE]],
                  !.backup = f1],
   [Bundle EXCEPT !.volumes = [n \in {1} |-> [Claim EXCEPT !.size = s2]], !.label = l2],
   [Bundle EXCEPT !.volumes = [n \in {1, 2} |-> [Claim EXCEPT
                               !.kind = IF n = 1 THEN "emptyDirFalse" ELSE "emptyDir"]],
                  !.backup = f1, !.label = l2]}

MCNames == {1, 2, e1, job}
=============================================================================
