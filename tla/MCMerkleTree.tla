------------------------------ MODULE MCMerkleTree ------------------------------
(* Small instances of MerkleTree for TLC.                                      *)
EXTENDS MerkleTree

MCKeys == 1..7
\* A list of the keys of any set, one of which may be there twice.
MCLists ==
  UNION {{SetToSeq(set) \o again : again \in {<<>>} \cup {<<k>> : k \in set}} :
         set \in SUBSET MCKeys}
\* The text of a high byte can come before that of a lower one.
MCText == [k \in 0..7 |-> IF k = 7 THEN 5 ELSE IF k >= 5 THEN k + 1 ELSE k]
=============================================================================
