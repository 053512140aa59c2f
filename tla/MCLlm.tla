------------------------------- MODULE MCLlm -------------------------------
(* Small instances of Llm. *)
EXTENDS Llm, TLC

CONSTANTS c1, c2

(* One call of any kind, and a systemOne beside it.                        *)
AnyAndSystemOne == (c1 :> Kinds) @@ (c2 :> {"systemone"})
JsonOnly == [c \in Calls |-> {"json"}]
=============================================================================
