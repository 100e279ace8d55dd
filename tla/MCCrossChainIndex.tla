--------------------------- MODULE MCCrossChainIndex ---------------------------
(* Small instances of CrossChainIndex for TLC. *)
EXTENDS CrossChainIndex, TLC

CONSTANTS u1, p1, x, none, a1, ataP1, ataX

MCAta == (p1 :> ataP1) @@ (x :> ataX)
\* A list, and the empty list.
MCEarnerLists == {{u1}, {}}
=============================================================================
