----------------------------- MODULE MCOperatorCli -----------------------------
(* Small instances of OperatorCli for TLC. *)
EXTENDS OperatorCli

CONSTANTS e1, p1, x, none, ataP1, ataX, ataE1

MCAta == (p1 :> ataP1) @@ (x :> ataX)
MCEarnerAta == e1 :> ataE1
\* A list, and the empty list.
MCEarnerLists == {{e1}, {}}
=============================================================================
