------------------------------- MODULE MerkleTree -------------------------------
(***************************************************************************)
(* The MerkleTree class of the SDK (sdk/src/merkle.ts), which builds the   *)
(* roots and proofs that MerkleProof verifies.  An object keeps its sorted *)
(* raw leaves, their hashes and the tree; the array of hashes is also the  *)
(* lowest level of the tree, so padding that level pads the array.         *)
(***************************************************************************)
EXTENDS MerkleProof

CONSTANTS
  Keys,         \* public keys that are not Pubkey::default()
  Lists,        \* the lists of keys an object is made from
  Text,         \* where a key stands when keys are compared as decoded text
  MaxHashes     \* bound: no leaf is added once the object keeps this many hashes

DefaultKey == 0

ASSUME KeysAssumption ==
  /\ Keys \subseteq Nat \ {DefaultKey}
  /\ Lists \subseteq Seq(Keys)
  /\ Text \in [Keys \cup {DefaultKey} -> Nat]
  /\ MaxHashes \in Nat

VARIABLES
  rawLeaves,    \* the sorted keys; a key listed twice is there twice
  leaves,       \* their hashes, and what padding left there
  tree,         \* its levels, leaves first; empty for an emptied tree
  root

vars == <<rawLeaves, leaves, tree, root>>

Odd(n) == n % 2 = 1

\* A list of keys in ascending order: each goes before those above it.
InsertDown(s, key) == InsertAt(s, Min({i \in 1..Len(s) + 1 : i <= Len(s) => s[i] < key}), key)
Insert(s, key) == InsertAt(s, Min({i \in 1..Len(s) + 1 : i <= Len(s) => s[i] > key}), key)
Sorted(list) ==
  LET sorted[n \in 0..Len(list)] ==
        IF n = 0 THEN <<>> ELSE Insert(sorted[n - 1], list[n])
  IN  sorted[Len(list)]

WithDefaultAdded(s) == Append(s, HashLeaf(DefaultKey))
WithLastRepeated(s) == Append(s, Last(s))

\* One more level: the last node of an odd level is paired with itself.
Parents(nodes) ==
  [i \in 1..(Len(nodes) + 1) \div 2 |->
     HashNode(nodes[2 * i - 1],
              IF 2 * i <= Len(nodes) THEN nodes[2 * i] ELSE nodes[2 * i - 1])]

\* The levels above a padded first one, up to the single root.
NextLevel(nodes) == IF Len(nodes) = 1 THEN nodes ELSE Parents(nodes)
Levels(nodes) ==
  LET level[d \in 0..Len(nodes)] ==
        IF d = 0 THEN nodes ELSE NextLevel(level[d - 1])
      top == Min({d \in 0..Len(nodes) : Len(level[d]) = 1})
  IN  [i \in 1..top + 1 |-> level[i - 1]]

\* _updateTree pads the hashes themselves, not a copy of them.
Padded(hashes) ==
  IF Len(hashes) > 1 /\ Odd(Len(hashes)) THEN WithLastRepeated(hashes) ELSE hashes
TreeOf(hashes) == IF hashes = <<>> THEN <<>> ELSE Levels(Padded(hashes))
RootOf(levels) == IF levels = <<>> THEN HashLeaf(DefaultKey) ELSE Last(levels)[1]

\* The constructor puts the default key in an empty list.  It drops repeated
\* objects, not repeated keys: equal keys read from the registrar stay.
RawLeavesOf(list) == Sorted(IF list = <<>> THEN <<DefaultKey>> ELSE list)
Hashes(raw) == [i \in 1..Len(raw) |-> HashLeaf(raw[i])]

Construct(list) ==
  /\ rawLeaves = RawLeavesOf(list)
  /\ leaves = Padded(Hashes(RawLeavesOf(list)))
  /\ tree = TreeOf(Hashes(RawLeavesOf(list)))
  /\ root = RootOf(tree)

UpdateTree(raw, hashes) ==
  /\ rawLeaves' = raw
  /\ leaves' = Padded(hashes)
  /\ tree' = TreeOf(hashes)
  /\ root' = RootOf(tree')

Members == ToSet(rawLeaves)

Init == \E list \in Lists : Construct(list)

LastPlace(raw, key) == Len(raw)
\* The first place of a key, as every search in the source finds it.
Place(raw, key) == Min({i \in 1..Len(raw) : raw[i] = key})

\* addLeaf: the new hash goes in at its place, and an odd number of keys gets
\* its last hash repeated.
AddLeaf(key) ==
  LET raw == Sorted(Append(rawLeaves, key))
      hashes == InsertAt(leaves, Place(raw, key), HashLeaf(key))
  IN  /\ Len(leaves) < MaxHashes
      /\ key \notin Members /\ key # DefaultKey
      /\ UpdateTree(raw, IF Odd(Len(raw)) THEN WithLastRepeated(hashes) ELSE hashes)

\* removeLeaf: the repeated hash of an odd number of keys goes first.
NothingRepeated == leaves
WithoutRepeat == IF Odd(Len(rawLeaves)) THEN Front(leaves) ELSE leaves
RemoveLeaf(key) ==
  /\ key \in Members
  /\ UpdateTree(RemoveAt(rawLeaves, Place(rawLeaves, key)),
                LET index == Place(rawLeaves, key)
                    hashes == WithoutRepeat
                IN  IF index <= Len(hashes) THEN RemoveAt(hashes, index) ELSE hashes)

Next == \E key \in Keys \cup {DefaultKey} : AddLeaf(key) \/ RemoveLeaf(key)

Spec == Init /\ [][Next]_vars

-----------------------------------------------------------------------------
(* Proofs.  A position counts from 0, as in the source.                     *)

Depth == Len(tree) - 1
NodeAt(level, index) == tree[level + 1][index + 1]
SiblingIndex(level, index) ==
  IF Odd(index) THEN index - 1
  ELSE IF index = Len(tree[level + 1]) - 1 THEN index ELSE index + 1

\* The parent is looked up by its hash: the first node equal to it.
ParentIndex(level, index) ==
  LET sibling == NodeAt(level, SiblingIndex(level, index))
      parent == IF Odd(index) THEN HashNode(sibling, NodeAt(level, index))
                              ELSE HashNode(NodeAt(level, index), sibling)
  IN  Min({i \in 0..Len(tree[level + 2]) - 1 : NodeAt(level + 1, i) = parent})

GetInclusionProof(key, useDuplicate) ==
  LET raw == Place(rawLeaves, key) - 1
      first == IF Odd(Len(rawLeaves)) /\ raw = Len(rawLeaves) - 1 /\ useDuplicate
               THEN raw + 1 ELSE raw
      index[level \in 0..Depth] ==
        IF level = 0 THEN first ELSE ParentIndex(level - 1, index[level - 1])
  IN  [i \in 1..Depth |->
         ProofElement(NodeAt(i - 1, SiblingIndex(i - 1, index[i - 1])),
                      ~Odd(index[i - 1]))]

Below(key) == {k \in Members : k < key}
Above(key) == {k \in Members : k > key}

GetExclusionProof(key) ==
  IF Members = {} THEN [neighbors |-> <<DefaultKey>>, proofs |-> <<<<>>>>]
  ELSE IF Below(key) = {}
  THEN [neighbors |-> <<rawLeaves[1]>>,
        proofs |-> <<GetInclusionProof(rawLeaves[1], FALSE)>>]
  ELSE IF Above(key) = {}
  THEN [neighbors |-> <<Last(rawLeaves)>>,
        proofs |-> <<GetInclusionProof(Last(rawLeaves), TRUE)>>]
  ELSE [neighbors |-> <<Max(Below(key)), Min(Above(key))>>,
        proofs |-> <<GetInclusionProof(Max(Below(key)), FALSE),
                     GetInclusionProof(Min(Above(key)), FALSE)>>]

-----------------------------------------------------------------------------
(* The object's own verifiers.  Keys are compared with < and >, which a      *)
(* Buffer answers by the text its bytes decode to.                           *)

TextBelow(a, b) == Text[a] < Text[b]

verifyInclusionProof(key, proof) == VerifyInTree(root, key, proof)

\* A key that is not there has the index -1, just before the first one.
LeafIndex(key) == IF key \in Members THEN Place(rawLeaves, key) - 1 ELSE -1
OneAboveOther(left, right) == left < right
NextTo(left, right) == LeafIndex(left) + 1 = LeafIndex(right)

verifyExclusionProof(key, proofs, neighbors) ==
  /\ Len(proofs) = Len(neighbors)
  /\ Len(proofs) \in {1, 2}
  /\ \A i \in 1..Len(proofs) : verifyInclusionProof(neighbors[i], proofs[i])
  /\ IF Len(proofs) = 1
     THEN IF neighbors[1] = rawLeaves[1]
          THEN Len(tree[1]) = 1 \/ TextBelow(key, neighbors[1])
          ELSE neighbors[1] = Last(rawLeaves) /\ TextBelow(neighbors[1], key)
     ELSE /\ TextBelow(neighbors[1], key) /\ TextBelow(key, neighbors[2])
          /\ NextTo(neighbors[1], neighbors[2])

-----------------------------------------------------------------------------
(* What the verifier can be convinced of, given a root built from a set.    *)

\* A new object of the same keys would hold the same keys, hashes and root.
IsNew(raw, hashes, top) ==
  /\ raw # <<>>
  /\ hashes = Padded(Hashes(raw))
  /\ top = RootOf(TreeOf(Hashes(raw)))
LikeNew == IsNew(rawLeaves, leaves, root)

\* An object that lost its last key is not like new: the constructor puts the
\* default key in an empty list.  It has that key's root, but keeps no hash.
Emptied == rawLeaves = <<>> /\ leaves = <<>>
RootIsNew == LikeNew \/ Emptied

\* Every proof that can lead to a hash, by opening it node by node.  With no
\* collisions no other proof can.
Opening(o, on_right) ==
  LET half == IF on_right THEN 1 ELSE 2
  IN  [top |-> o.top[half],
       proof |-> <<ProofElement(o.top[3 - half], on_right)>> \o o.proof]
Opened(some) ==
  {Opening(o, on_right) : o \in {o \in some : IsNode(o.top)}, on_right \in BOOLEAN}
ProofsTo(hash, maxDepth) ==
  LET opened[d \in 0..maxDepth] ==
        IF d = 0 THEN {[top |-> hash, proof |-> <<>>]} ELSE Opened(opened[d - 1])
  IN  {o.proof : o \in UNION {opened[d] : d \in 0..maxDepth}}

AllKeys == Keys \cup {DefaultKey}

\* Pairs of a key and a proof of its inclusion that the program accepts.
Accepted(published) ==
  {e \in [key : AllKeys, proof : ProofsTo(published, Len(tree))] :
     VerifyInTree(published, e.key, e.proof)}

OneNeighbor(e) == [proofs |-> <<e.proof>>, neighbors |-> <<e.key>>]
TwoNeighbors(e, f) == [proofs |-> <<e.proof, f.proof>>, neighbors |-> <<e.key, f.key>>]
Evidence(accepted) ==
  {OneNeighbor(e) : e \in accepted} \cup {TwoNeighbors(e, f) : e, f \in accepted}

-----------------------------------------------------------------------------
\* The keys the object's root should stand for: an emptied tree has the root
\* of the default key.
Listed == ToSet(RawLeavesOf(rawLeaves))
Once(key) == Cardinality({i \in 1..Len(rawLeaves) : rawLeaves[i] = key}) <= 1

\* getInclusionProof's proof for any of the object's keys convinces
\* verify_in_tree under the object's root, whatever keys were added and removed.
InclusionAccepted ==
  \A key \in Members : VerifyInTree(root, key, GetInclusionProof(key, FALSE))

\* Under a root built from a list of keys, the inclusion of exactly those keys
\* can be proven to verify_in_tree: this is what lets EarnProgram take a root
\* for a set.
InclusionIsExact ==
  RootIsNew => {e.key : e \in Accepted(root)} = Listed

\* Under such a root verify_not_in_tree can be convinced of the absence of
\* exactly the other keys: an earner can never be proven absent, and for any
\* other key a convincing proof exists, repeated keys and nodes notwithstanding.
ExclusionIsExact ==
  RootIsNew =>
    LET evidence == Evidence(Accepted(root))
    IN  {key \in AllKeys : \E e \in evidence :
           VerifyNotInTree(root, key, e.proofs, e.neighbors)} = AllKeys \ Listed

ExclusionAcceptedFor(key) ==
  LET made == GetExclusionProof(key)
  IN  VerifyNotInTree(root, key, made.proofs, made.neighbors)

\* verify_not_in_tree accepts what getExclusionProof builds for a key below
\* the largest one in the tree, whatever was added and removed, unless the key
\* next below it is listed twice: then the proof is for its first copy, which
\* has the other one between.
ExclusionAcceptedBelowLargest ==
  \A key \in AllKeys \ Members :
    Above(key) # {} /\ (Below(key) # {} => Once(Max(Below(key)))) =>
      ExclusionAcceptedFor(key)

\* Where keys compare as text the way they do as bytes, verifyExclusionProof
\* accepts all that verify_not_in_tree accepts, and nothing for a key in the
\* tree: a proof may be tried on the object before it is sent.  A tree of one
\* leaf is the exception: its object accepts any key at all.
InTextOrder(keys) == \A a, b \in keys : a < b <=> TextBelow(a, b)
VerifiersAgree ==
  LikeNew /\ Len(rawLeaves) > 1 /\ (\A key \in Members : Once(key)) =>
    LET evidence == Evidence(Accepted(root))
    IN  \A key \in {k \in AllKeys : InTextOrder(Members \cup {k})}, e \in evidence :
          /\ VerifyNotInTree(root, key, e.proofs, e.neighbors)
               => verifyExclusionProof(key, e.proofs, e.neighbors)
          /\ verifyExclusionProof(key, e.proofs, e.neighbors) => key \notin Members

\* The test of the SDK: getExclusionProof returns "a valid exclusion proof for
\* any key not in the tree", here as verify_not_in_tree judges it.
ExclusionAccepted ==
  \A key \in AllKeys \ Members :
    /\ key # DefaultKey \/ Members # {}
    /\ \A member \in Members : Once(member)
    => ExclusionAcceptedFor(key)

\* An object like new stays so when a key other than the last one is removed, and
\* when one is added to a single key or to two, four, ... of them: in place, the
\* hash goes exactly where the constructor would have put it.  Removing the last
\* key leaves an emptied object.  Nothing is said of adding to that one, or to an
\* odd number of keys from three on: addLeaf then keeps more hashes than a new
\* object of the same keys would.
UpdatesKeepLikeNew ==
  [][LikeNew =>
       /\ rawLeaves' = <<>> => Emptied'
       /\ /\ rawLeaves' # <<>>
          /\ \/ Len(rawLeaves') < Len(rawLeaves)
             \/ Len(rawLeaves) = 1 \/ ~Odd(Len(rawLeaves))
          => IsNew(rawLeaves', leaves', root')]_vars
=============================================================================
