-------------------------- MODULE MCExternalSecrets --------------------------
(* Instances of ExternalSecrets for TLC. *)
EXTENDS ExternalSecrets

CONSTANTS r1, r2, c1, c2, s1

Secrets(K, r) == [k \in K |-> r]

\* Nothing, an env, the env with another reference and no store, an env that
\* a config overrides, two configs that each bring a secret, and two that
\* differ over one.
MCWritten ==
  {[envs |-> <<>>, configs |-> <<>>, store |-> s1],
   [envs |-> Secrets({1}, r1), configs |-> <<>>, store |-> s1],
   [envs |-> Secrets({1}, r2), configs |-> <<>>, store |-> None],
   [envs |-> Secrets({1, 2}, r1), configs |-> [c \in {c1} |-> Secrets({2}, r2)], store |-> s1],
   [envs |-> <<>>, store |-> s1,
    configs |-> [c \in {c1, c2} |-> IF c = c1 THEN Secrets({1}, r1) ELSE Secrets({2}, r1)]],
   [envs |-> <<>>, store |-> s1,
    configs |-> [c \in {c1, c2} |-> IF c = c1 THEN Secrets({1}, r1) ELSE Secrets({1}, r2)]]}
=============================================================================
