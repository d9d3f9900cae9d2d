---------------------------- MODULE MCConfigMaps ----------------------------
(* Instances of ConfigMaps for TLC. *)
EXTENDS ConfigMaps

CONSTANTS f1, f2, c1, c2

Plainly(content) == [kind |-> "plain", content |-> content]
Secretly(content) == [kind |-> "secret", content |-> content]

\* No config, one, one changed, two, and one that moves to the Secret.
MCWritten ==
  {<<>>, [f \in {f1} |-> Plainly(c1)], [f \in {f1} |-> Plainly(c2)],
   [f \in {f1, f2} |-> Plainly(c1)],
   [f \in {f1, f2} |-> IF f = f1 THEN Secretly(c1) ELSE Plainly(Empty)],
   [f \in {f1} |-> Secretly(c2)]}

\* A content that changes.
MCTwoContents == {[f \in {f1} |-> Plainly(c1)], [f \in {f1} |-> Plainly(c2)]}
=============================================================================
