----------------------------- MODULE MCEarnProgram -----------------------------
(* Small instances of EarnProgram for TLC. *)
EXTENDS EarnProgram, TLC

CONSTANTS u1, u2, p1, p2, x, none, a1, a2, ataP1, ataP2, ataX

MCAta == (p1 :> ataP1) @@ (p2 :> ataP2) @@ (x :> ataX)
MCAtaOne == (p1 :> ataP1) @@ (x :> ataX)

\* No root, a list of one earner, and the empty list, whose tree holds the
\* default key.
MCRoots == {ZeroRoot, {u1}, {none}}
\* No root and two different lists.
MCIndexRoots == {ZeroRoot, {u1}, {u1, x}}

\* At scale 2, what 3 units of principal are worth at index 3 is rounded up, and
\* index 5 is the one that f64 gives back as 4.
MCOldGlobals == [index : {3, 5}, earner_merkle_root : {{u1}}]

MCAccountSymmetry == Permutations({a1, a2})
=============================================================================
