------------------------------ MODULE MerkleProof ------------------------------
(***************************************************************************)
(* The verifier the earn program runs against the root it stores           *)
(* (programs/earn/src/utils/merkle_proof.rs).  Keys are numbers, in the    *)
(* byte order of the public keys.  Keccak is taken as free of collisions,  *)
(* so a hash is the term it was built from: <<key>> for a leaf, hashed     *)
(* under the zero bit, <<left, right>> for a node, under the one bit.      *)
(***************************************************************************)
EXTENDS Integers, SequencesExt

HashLeaf(key) == <<key>>
HashNode(left, right) == <<left, right>>
IsNode(hash) == Len(hash) = 2

\* A step towards the root: the sibling, and the side it stands on.
ProofElement(node, on_right) == [node |-> node, on_right |-> on_right]

\* The hash of a node, from one of its halves and a step.
Joined(hash, e) == IF e.on_right THEN HashNode(hash, e.node) ELSE HashNode(e.node, hash)
ComputedHash(value, proof) ==
  LET hash[n \in 0..Len(proof)] ==
        IF n = 0 THEN HashLeaf(value) ELSE Joined(hash[n - 1], proof[n])
  IN  hash[Len(proof)]

\* The position a proof claims for its leaf, by Horner's rule from the root
\* down: the left siblings are the ones of a binary number.
Bit(e) == IF e.on_right THEN 0 ELSE 1
Index(proof) ==
  LET index[n \in 0..Len(proof)] ==
        IF n = 0 THEN 0 ELSE 2 * index[n - 1] + Bit(proof[Len(proof) - n + 1])
  IN  index[Len(proof)]

VerifyInTree(root, value, proof) == ComputedHash(value, proof) = root

\* The rightmost position a proof of this length can reach, 2 ^ Len(proof) - 1.
RightmostPath(length) == [i \in 1..length |-> ProofElement(<<>>, FALSE)]
LastIndexOffByOne(proof) == Index(RightmostPath(Len(proof))) + 1
LastIndex(proof) == Index(RightmostPath(Len(proof)))

Adjacent(left, right) == Index(left) + 1 = Index(right)

VerifyNotInTree(root, value, proofs, neighbors) ==
  /\ Len(proofs) = Len(neighbors)
  /\ Len(proofs) \in {1, 2}
  /\ \A i \in 1..Len(proofs) : VerifyInTree(root, neighbors[i], proofs[i])
  /\ IF Len(proofs) = 1
     THEN \/ value < neighbors[1] /\ Index(proofs[1]) = 0
          \/ value > neighbors[1] /\ Index(proofs[1]) = LastIndex(proofs[1])
     ELSE /\ neighbors[1] < value /\ value < neighbors[2]
          /\ Adjacent(proofs[1], proofs[2])
=============================================================================
