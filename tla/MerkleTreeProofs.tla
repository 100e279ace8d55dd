---------------------------- MODULE MerkleTreeProofs ----------------------------
(***************************************************************************)
(* Machine-checked proofs about MerkleProof and MerkleTree: what a proof   *)
(* can show under the root of a tree made from a list of keys, whatever    *)
(* the list, its length and the proof.                                     *)
(***************************************************************************)
EXTENDS MerkleTree, SequenceTheorems, FiniteSetTheorems, WellFoundedInduction, TLAPS

-----------------------------------------------------------------------------
(* The recursive definitions, unfolded.                                      *)

\* r has the first m hashes of a proof.
Hashing(r, value, proof, m) ==
  /\ r[0] = HashLeaf(value)
  /\ \A n \in 1..m : r[n] = Joined(r[n - 1], proof[n])

\* The definition is not vacuous: there are such values for every m.
LEMMA HashingExist ==
  ASSUME NEW value, NEW proof, NEW m \in Nat
  PROVE  \E r : Hashing(r, value, proof, m)
<1>. DEFINE T == {k \in Nat : ~ \E r : Hashing(r, value, proof, k)}
<1>1. SUFFICES T = {}
  OBVIOUS
<1>2. SUFFICES ASSUME T # {}  PROVE FALSE
  OBVIOUS
<1>3. T \subseteq Nat
  OBVIOUS
<1>4. PICK k \in T : \A j \in T : ~ (<<j, k>> \in OpToRel(<, Nat))
  <2>. HIDE DEF T
  <2>. QED  BY <1>2, <1>3, NatLessThanWellFounded, WFMin
<1>5. \A j \in T : ~ (j < k)
  BY <1>3, <1>4 DEF OpToRel
<1>6. CASE k = 0
  <2>. DEFINE s == [n \in 0..0 |-> HashLeaf(value)]
  <2>1. Hashing(s, value, proof, 0)
    BY DEF Hashing
  <2>. QED  BY <1>4, <1>6, <2>1
<1>7. CASE k # 0
  <2>1. k \in Nat /\ k - 1 \in Nat /\ k - 1 \notin T
    BY <1>3, <1>5, <1>7
  <2>2. PICK r : Hashing(r, value, proof, k - 1)
    BY <2>1
  <2>. DEFINE s == [n \in 0..k |-> IF n = k THEN Joined(r[k - 1], proof[k]) ELSE r[n]]
  <2>3. s[0] = HashLeaf(value)
    BY <1>7, <2>1, <2>2 DEF Hashing
  <2>4. ASSUME NEW n \in 1..k  PROVE s[n] = Joined(s[n - 1], proof[n])
    <3>1. CASE n = k
      <4>1. s[n] = Joined(r[k - 1], proof[k]) /\ s[n - 1] = r[k - 1]
        BY <2>1, <3>1
      <4>. QED  BY <3>1, <4>1
    <3>2. CASE n # k
      <4>1. s[n] = r[n] /\ s[n - 1] = r[n - 1] /\ n \in 1..(k - 1)
        BY <2>1, <3>2
      <4>2. r[n] = Joined(r[n - 1], proof[n])
        BY <2>2, <4>1 DEF Hashing
      <4>. QED  BY <4>1, <4>2
    <3>. QED  BY <3>1, <3>2
  <2>. HIDE DEF s
  <2>5. Hashing(s, value, proof, k)
    BY <2>3, <2>4 DEF Hashing
  <2>. QED  BY <1>4, <2>5
<1>. QED  BY <1>6, <1>7

LEMMA HashingChosen ==
  ASSUME NEW value, NEW proof, NEW m \in Nat, NEW f,
         f = CHOOSE q : q = [n \in 0..m |-> IF n = 0 THEN HashLeaf(value) ELSE Joined(q[n - 1], proof[n])]
  PROVE  Hashing(f, value, proof, m)
<1>1. PICK r : Hashing(r, value, proof, m)
  BY HashingExist
<1>. DEFINE g == [n \in 0..m |-> r[n]]
            next(n) == IF n = 0 THEN HashLeaf(value) ELSE Joined(f[n - 1], proof[n])
<1>2. \A n \in 0..m : g[n] = IF n = 0 THEN HashLeaf(value) ELSE Joined(g[n - 1], proof[n])
  <2>. SUFFICES ASSUME NEW n \in 0..m
                PROVE  g[n] = IF n = 0 THEN HashLeaf(value) ELSE Joined(g[n - 1], proof[n])
    OBVIOUS
  <2>1. CASE n = 0
    BY <1>1, <2>1 DEF Hashing
  <2>2. CASE n # 0
    <3>1. n \in 1..m /\ n - 1 \in 0..m
      BY <2>2
    <3>2. g[n] = r[n] /\ g[n - 1] = r[n - 1]
      BY <3>1
    <3>3. r[n] = Joined(r[n - 1], proof[n])
      BY <1>1, <3>1 DEF Hashing
    <3>. QED  BY <2>2, <3>2, <3>3
  <2>. QED  BY <2>1, <2>2
<1>3. g = [n \in 0..m |-> g[n]]
  OBVIOUS
<1>. HIDE DEF g
<1>4. g = [n \in 0..m |-> IF n = 0 THEN HashLeaf(value) ELSE Joined(g[n - 1], proof[n])]
  BY <1>2, <1>3
<1>5. f = [n \in 0..m |-> IF n = 0 THEN HashLeaf(value) ELSE Joined(f[n - 1], proof[n])]
  BY <1>4
<1>6. f = [n \in 0..m |-> next(n)]
  BY <1>5
<1>7. next(0) = HashLeaf(value) /\ \A n \in 1..m : next(n) = Joined(f[n - 1], proof[n])
  OBVIOUS
<1>. HIDE DEF next
<1>8. \A n \in 0..m : f[n] = next(n)
  BY <1>6
<1>9. 0 \in 0..m /\ \A n \in 1..m : n \in 0..m
  OBVIOUS
<1>. QED  BY <1>7, <1>8, <1>9 DEF Hashing

LEMMA ComputedHashIs ==
  ASSUME NEW value, NEW proof, Len(proof) \in Nat
  PROVE  \E r : /\ Hashing(r, value, proof, Len(proof))
                /\ ComputedHash(value, proof) = r[Len(proof)]
<1>. DEFINE m == Len(proof)
            f == CHOOSE f : f = [n \in 0..m |-> IF n = 0 THEN HashLeaf(value)
                                                ELSE Joined(f[n - 1], proof[n])]
<1>1. ComputedHash(value, proof) = f[m]
  BY DEF ComputedHash
<1>2. Hashing(f, value, proof, m)
  BY HashingChosen
<1>. QED  BY <1>1, <1>2

\* r has the first m positions of a proof, from the root down.
Indexing(r, proof, m) ==
  /\ r[0] = 0
  /\ \A n \in 1..m : r[n] = 2 * r[n - 1] + Bit(proof[Len(proof) - n + 1])

\* The definition is not vacuous: there are such values for every m.
LEMMA IndexingExist ==
  ASSUME NEW proof, NEW m \in Nat
  PROVE  \E r : Indexing(r, proof, m)
<1>. DEFINE T == {k \in Nat : ~ \E r : Indexing(r, proof, k)}
<1>1. SUFFICES T = {}
  OBVIOUS
<1>2. SUFFICES ASSUME T # {}  PROVE FALSE
  OBVIOUS
<1>3. T \subseteq Nat
  OBVIOUS
<1>4. PICK k \in T : \A j \in T : ~ (<<j, k>> \in OpToRel(<, Nat))
  <2>. HIDE DEF T
  <2>. QED  BY <1>2, <1>3, NatLessThanWellFounded, WFMin
<1>5. \A j \in T : ~ (j < k)
  BY <1>3, <1>4 DEF OpToRel
<1>6. CASE k = 0
  <2>. DEFINE s == [n \in 0..0 |-> 0]
  <2>1. Indexing(s, proof, 0)
    BY DEF Indexing
  <2>. QED  BY <1>4, <1>6, <2>1
<1>7. CASE k # 0
  <2>1. k \in Nat /\ k - 1 \in Nat /\ k - 1 \notin T
    BY <1>3, <1>5, <1>7
  <2>2. PICK r : Indexing(r, proof, k - 1)
    BY <2>1
  <2>. DEFINE s == [n \in 0..k |-> IF n = k THEN 2 * r[k - 1] + Bit(proof[Len(proof) - k + 1]) ELSE r[n]]
  <2>3. s[0] = 0
    BY <1>7, <2>1, <2>2 DEF Indexing
  <2>4. ASSUME NEW n \in 1..k  PROVE s[n] = 2 * s[n - 1] + Bit(proof[Len(proof) - n + 1])
    <3>1. CASE n = k
      <4>1. s[n] = 2 * r[k - 1] + Bit(proof[Len(proof) - k + 1]) /\ s[n - 1] = r[k - 1]
        BY <2>1, <3>1
      <4>. QED  BY <3>1, <4>1
    <3>2. CASE n # k
      <4>1. s[n] = r[n] /\ s[n - 1] = r[n - 1] /\ n \in 1..(k - 1)
        BY <2>1, <3>2
      <4>2. r[n] = 2 * r[n - 1] + Bit(proof[Len(proof) - n + 1])
        BY <2>2, <4>1 DEF Indexing
      <4>. QED  BY <4>1, <4>2
    <3>. QED  BY <3>1, <3>2
  <2>. HIDE DEF s
  <2>5. Indexing(s, proof, k)
    BY <2>3, <2>4 DEF Indexing
  <2>. QED  BY <1>4, <2>5
<1>. QED  BY <1>6, <1>7

LEMMA IndexingChosen ==
  ASSUME NEW proof, NEW m \in Nat, NEW f,
         f = CHOOSE q : q = [n \in 0..m |-> IF n = 0 THEN 0 ELSE 2 * q[n - 1] + Bit(proof[Len(proof) - n + 1])]
  PROVE  Indexing(f, proof, m)
<1>1. PICK r : Indexing(r, proof, m)
  BY IndexingExist
<1>. DEFINE g == [n \in 0..m |-> r[n]]
            next(n) == IF n = 0 THEN 0 ELSE 2 * f[n - 1] + Bit(proof[Len(proof) - n + 1])
<1>2. \A n \in 0..m : g[n] = IF n = 0 THEN 0 ELSE 2 * g[n - 1] + Bit(proof[Len(proof) - n + 1])
  <2>. SUFFICES ASSUME NEW n \in 0..m
                PROVE  g[n] = IF n = 0 THEN 0 ELSE 2 * g[n - 1] + Bit(proof[Len(proof) - n + 1])
    OBVIOUS
  <2>1. CASE n = 0
    BY <1>1, <2>1 DEF Indexing
  <2>2. CASE n # 0
    <3>1. n \in 1..m /\ n - 1 \in 0..m
      BY <2>2
    <3>2. g[n] = r[n] /\ g[n - 1] = r[n - 1]
      BY <3>1
    <3>3. r[n] = 2 * r[n - 1] + Bit(proof[Len(proof) - n + 1])
      BY <1>1, <3>1 DEF Indexing
    <3>. QED  BY <2>2, <3>2, <3>3
  <2>. QED  BY <2>1, <2>2
<1>3. g = [n \in 0..m |-> g[n]]
  OBVIOUS
<1>. HIDE DEF g
<1>4. g = [n \in 0..m |-> IF n = 0 THEN 0 ELSE 2 * g[n - 1] + Bit(proof[Len(proof) - n + 1])]
  BY <1>2, <1>3
<1>5. f = [n \in 0..m |-> IF n = 0 THEN 0 ELSE 2 * f[n - 1] + Bit(proof[Len(proof) - n + 1])]
  BY <1>4
<1>6. f = [n \in 0..m |-> next(n)]
  BY <1>5
<1>7. next(0) = 0 /\ \A n \in 1..m : next(n) = 2 * f[n - 1] + Bit(proof[Len(proof) - n + 1])
  OBVIOUS
<1>. HIDE DEF next
<1>8. \A n \in 0..m : f[n] = next(n)
  BY <1>6
<1>9. 0 \in 0..m /\ \A n \in 1..m : n \in 0..m
  OBVIOUS
<1>. QED  BY <1>7, <1>8, <1>9 DEF Indexing

LEMMA IndexIs ==
  ASSUME NEW proof, Len(proof) \in Nat
  PROVE  \E r : Indexing(r, proof, Len(proof)) /\ Index(proof) = r[Len(proof)]
<1>. DEFINE m == Len(proof)
            f == CHOOSE f : f = [n \in 0..m |-> IF n = 0 THEN 0
                                                ELSE 2 * f[n - 1] + Bit(proof[Len(proof) - n + 1])]
<1>1. Index(proof) = f[m]
  BY DEF Index
<1>2. Indexing(f, proof, m)
  BY IndexingChosen
<1>. QED  BY <1>1, <1>2

\* r has the first m levels of a tree.
Levelling(r, nodes, m) ==
  /\ r[0] = nodes
  /\ \A n \in 1..m : r[n] = NextLevel(r[n - 1])

\* The definition is not vacuous: there are such values for every m.
LEMMA LevellingExist ==
  ASSUME NEW nodes, NEW m \in Nat
  PROVE  \E r : Levelling(r, nodes, m)
<1>. DEFINE T == {k \in Nat : ~ \E r : Levelling(r, nodes, k)}
<1>1. SUFFICES T = {}
  OBVIOUS
<1>2. SUFFICES ASSUME T # {}  PROVE FALSE
  OBVIOUS
<1>3. T \subseteq Nat
  OBVIOUS
<1>4. PICK k \in T : \A j \in T : ~ (<<j, k>> \in OpToRel(<, Nat))
  <2>. HIDE DEF T
  <2>. QED  BY <1>2, <1>3, NatLessThanWellFounded, WFMin
<1>5. \A j \in T : ~ (j < k)
  BY <1>3, <1>4 DEF OpToRel
<1>6. CASE k = 0
  <2>. DEFINE s == [n \in 0..0 |-> nodes]
  <2>1. Levelling(s, nodes, 0)
    BY DEF Levelling
  <2>. QED  BY <1>4, <1>6, <2>1
<1>7. CASE k # 0
  <2>1. k \in Nat /\ k - 1 \in Nat /\ k - 1 \notin T
    BY <1>3, <1>5, <1>7
  <2>2. PICK r : Levelling(r, nodes, k - 1)
    BY <2>1
  <2>. DEFINE s == [n \in 0..k |-> IF n = k THEN NextLevel(r[k - 1]) ELSE r[n]]
  <2>3. s[0] = nodes
    BY <1>7, <2>1, <2>2 DEF Levelling
  <2>4. ASSUME NEW n \in 1..k  PROVE s[n] = NextLevel(s[n - 1])
    <3>1. CASE n = k
      <4>1. s[n] = NextLevel(r[k - 1]) /\ s[n - 1] = r[k - 1]
        BY <2>1, <3>1
      <4>. QED  BY <3>1, <4>1
    <3>2. CASE n # k
      <4>1. s[n] = r[n] /\ s[n - 1] = r[n - 1] /\ n \in 1..(k - 1)
        BY <2>1, <3>2
      <4>2. r[n] = NextLevel(r[n - 1])
        BY <2>2, <4>1 DEF Levelling
      <4>. QED  BY <4>1, <4>2
    <3>. QED  BY <3>1, <3>2
  <2>. HIDE DEF s
  <2>5. Levelling(s, nodes, k)
    BY <2>3, <2>4 DEF Levelling
  <2>. QED  BY <1>4, <2>5
<1>. QED  BY <1>6, <1>7

LEMMA LevellingChosen ==
  ASSUME NEW nodes, NEW m \in Nat, NEW f,
         f = CHOOSE q : q = [n \in 0..m |-> IF n = 0 THEN nodes ELSE NextLevel(q[n - 1])]
  PROVE  Levelling(f, nodes, m)
<1>1. PICK r : Levelling(r, nodes, m)
  BY LevellingExist
<1>. DEFINE g == [n \in 0..m |-> r[n]]
            next(n) == IF n = 0 THEN nodes ELSE NextLevel(f[n - 1])
<1>2. \A n \in 0..m : g[n] = IF n = 0 THEN nodes ELSE NextLevel(g[n - 1])
  <2>. SUFFICES ASSUME NEW n \in 0..m
                PROVE  g[n] = IF n = 0 THEN nodes ELSE NextLevel(g[n - 1])
    OBVIOUS
  <2>1. CASE n = 0
    BY <1>1, <2>1 DEF Levelling
  <2>2. CASE n # 0
    <3>1. n \in 1..m /\ n - 1 \in 0..m
      BY <2>2
    <3>2. g[n] = r[n] /\ g[n - 1] = r[n - 1]
      BY <3>1
    <3>3. r[n] = NextLevel(r[n - 1])
      BY <1>1, <3>1 DEF Levelling
    <3>. QED  BY <2>2, <3>2, <3>3
  <2>. QED  BY <2>1, <2>2
<1>3. g = [n \in 0..m |-> g[n]]
  OBVIOUS
<1>. HIDE DEF g
<1>4. g = [n \in 0..m |-> IF n = 0 THEN nodes ELSE NextLevel(g[n - 1])]
  BY <1>2, <1>3
<1>5. f = [n \in 0..m |-> IF n = 0 THEN nodes ELSE NextLevel(f[n - 1])]
  BY <1>4
<1>6. f = [n \in 0..m |-> next(n)]
  BY <1>5
<1>7. next(0) = nodes /\ \A n \in 1..m : next(n) = NextLevel(f[n - 1])
  OBVIOUS
<1>. HIDE DEF next
<1>8. \A n \in 0..m : f[n] = next(n)
  BY <1>6
<1>9. 0 \in 0..m /\ \A n \in 1..m : n \in 0..m
  OBVIOUS
<1>. QED  BY <1>7, <1>8, <1>9 DEF Levelling

\* Induction up to a bound.
LEMMA UpTo ==
  ASSUME NEW m \in Nat, NEW S, 0 \in S, \A n \in 1..m : n - 1 \in S => n \in S
  PROVE  \A n \in 0..m : n \in S
<1>. DEFINE T == {k \in 0..m : k \notin S}
<1>1. SUFFICES ASSUME T # {}  PROVE FALSE
  OBVIOUS
<1>2. T \subseteq Nat
  OBVIOUS
<1>3. PICK k \in T : \A j \in T : ~ (<<j, k>> \in OpToRel(<, Nat))
  <2>. HIDE DEF T
  <2>. QED  BY <1>1, <1>2, NatLessThanWellFounded, WFMin
<1>4. \A j \in T : ~ (j < k)
  BY <1>2, <1>3 DEF OpToRel
<1>5. k \in 1..m /\ k - 1 \in 0..m /\ k - 1 < k
  <2>1. k \in 0..m /\ k # 0
    BY <1>3
  <2>. QED  BY <2>1
<1>6. k - 1 \in S
  BY <1>4, <1>5
<1>. QED  BY <1>3, <1>5, <1>6

LEMMA MinIs ==
  ASSUME NEW S, S \subseteq Nat, S # {}
  PROVE  Min(S) \in S /\ \A n \in S : Min(S) <= n
<1>1. PICK k \in S : \A j \in S : ~ (<<j, k>> \in OpToRel(<, Nat))
  BY NatLessThanWellFounded, WFMin
<1>2. \A j \in S : ~ (j < k)
  BY <1>1 DEF OpToRel
<1>3. \A j \in S : k <= j
  BY <1>2
<1>4. Min(S) = CHOOSE x \in S : \A y \in S : x =< y
  BY DEF Min
<1>. QED  BY <1>3, <1>4

-----------------------------------------------------------------------------
(* The shape of a tree.                                                      *)

\* Each node is made of two below it, or of the last one twice.
LEMMA ParentsAre ==
  ASSUME NEW nodes, Len(nodes) \in Nat \ {0}
  PROVE  /\ Len(Parents(nodes)) \in Nat \ {0}
         /\ 2 * Len(Parents(nodes)) \in {Len(nodes), Len(nodes) + 1}
         /\ \A j \in 1..Len(Parents(nodes)) :
              Parents(nodes)[j] =
                HashNode(nodes[2 * j - 1],
                         IF 2 * j <= Len(nodes) THEN nodes[2 * j] ELSE nodes[2 * j - 1])
<1>. DEFINE k == (Len(nodes) + 1) \div 2
<1>1. k \in Nat \ {0} /\ 2 * k \in {Len(nodes), Len(nodes) + 1}
  OBVIOUS
<1>. DEFINE node(j) == HashNode(nodes[2 * j - 1],
                         IF 2 * j <= Len(nodes) THEN nodes[2 * j] ELSE nodes[2 * j - 1])
<1>2. Parents(nodes) = [j \in 1..k |-> node(j)]
  BY DEF Parents
<1>. HIDE DEF k, node
<1>3. Len(Parents(nodes)) = k /\ \A j \in 1..k : Parents(nodes)[j] = node(j)
  BY <1>1, <1>2
<1>. QED  BY <1>1, <1>3 DEF node

\* r[d] is the level at height d, and h that of the root.
IsTree(r, nodes, h) ==
  /\ r[0] = nodes
  /\ \A d \in 0..h : Len(r[d]) \in Nat \ {0}
  /\ \A d \in 1..h : r[d] = Parents(r[d - 1])
  /\ Len(r[h]) = 1

LEMMA LevelsAre ==
  ASSUME NEW nodes, Len(nodes) \in Nat \ {0}
  PROVE  \E h \in Nat : \E r : /\ IsTree(r, nodes, h)
                               /\ Levels(nodes) = [i \in 1..h + 1 |-> r[i - 1]]
                               /\ Len(nodes) = 1 => h = 0
<1>. DEFINE m == Len(nodes)
            f == CHOOSE f : f = [n \in 0..m |-> IF n = 0 THEN nodes ELSE NextLevel(f[n - 1])]
            ends == {d \in 0..m : Len(f[d]) = 1}
            top == Min(ends)
<1>1. Levels(nodes) = [i \in 1..top + 1 |-> f[i - 1]]
  BY DEF Levels
<1>2. Levelling(f, nodes, m)
  BY LevellingChosen
<1>3. m \in Nat \ {0}
  OBVIOUS
<1>. HIDE DEF m, f
<1>4. f[0] = nodes /\ \A n \in 1..m : f[n] = NextLevel(f[n - 1])
  BY <1>2 DEF Levelling
<1>5. \A d \in 0..m : Len(f[d]) \in Nat \ {0} /\ (Len(f[d]) = 1 \/ Len(f[d]) <= m - d)
  <2>. DEFINE S == {d \in 0..m : /\ Len(f[d]) \in Nat \ {0}
                                 /\ Len(f[d]) = 1 \/ Len(f[d]) <= m - d}
  <2>1. 0 \in S
    BY <1>3, <1>4 DEF m
  <2>2. ASSUME NEW n \in 1..m, n - 1 \in S  PROVE n \in S
    <3>1. f[n] = NextLevel(f[n - 1])
      BY <1>4
    <3>2. Len(f[n - 1]) \in Nat \ {0} /\ (Len(f[n - 1]) = 1 \/ Len(f[n - 1]) <= m - (n - 1))
      BY <2>2
    <3>3. CASE Len(f[n - 1]) = 1
      <4>1. f[n] = f[n - 1]
        BY <3>1, <3>3 DEF NextLevel
      <4>. QED  BY <3>3, <4>1
    <3>4. CASE Len(f[n - 1]) # 1
      <4>1. f[n] = Parents(f[n - 1])
        BY <3>1, <3>4 DEF NextLevel
      <4>2. /\ Len(f[n]) \in Nat \ {0}
            /\ 2 * Len(f[n]) \in {Len(f[n - 1]), Len(f[n - 1]) + 1}
        BY <3>2, <4>1, ParentsAre
      <4>3. \A x, y \in Nat \ {0} : \A z \in Nat :
              x # 1 /\ x <= z /\ 2 * y \in {x, x + 1} => y = 1 \/ y <= z - 1
        OBVIOUS
      <4>4. m - (n - 1) \in Nat /\ m - n = (m - (n - 1)) - 1 /\ n \in 0..m
        BY <1>3
      <4>5. Len(f[n]) = 1 \/ Len(f[n]) <= m - n
        BY <3>2, <3>4, <4>2, <4>3, <4>4
      <4>. QED  BY <4>2, <4>4, <4>5
    <3>. QED  BY <3>3, <3>4
  <2>. HIDE DEF S
  <2>3. \A n \in 0..m : n \in S
    BY <1>3, <2>1, <2>2, UpTo
  <2>. QED  BY <2>3 DEF S
<1>6. ends \subseteq Nat /\ m \in ends
  BY <1>3, <1>5
<1>7. top \in ends /\ \A n \in ends : top <= n
  <2>. HIDE DEF ends
  <2>. QED  BY <1>6, MinIs
<1>8. top \in Nat /\ top <= m /\ Len(f[top]) = 1
  BY <1>3, <1>7
<1>9. ASSUME NEW d \in 1..top  PROVE f[d] = Parents(f[d - 1])
  <2>1. d \in 1..m /\ d - 1 \in 0..m /\ d - 1 \notin ends
    BY <1>3, <1>7, <1>8
  <2>2. Len(f[d - 1]) # 1
    BY <2>1
  <2>. QED  BY <1>4, <2>1, <2>2 DEF NextLevel
<1>10. \A d \in 0..top : Len(f[d]) \in Nat \ {0}
  BY <1>3, <1>5, <1>8
<1>11. Len(nodes) = 1 => top = 0
  <2>1. Len(nodes) = 1 => 0 \in ends
    BY <1>3, <1>4
  <2>. QED  BY <1>7, <1>8, <2>1
<1>. HIDE DEF top
<1>. QED  BY <1>1, <1>4, <1>8, <1>9, <1>10, <1>11 DEF IsTree

-----------------------------------------------------------------------------
(* From the root down a proof.                                               *)

\* A hash is the node at place j of a level; i is the number the siblings on the
\* left have given so far, and w the largest they could have.  Only the ends of
\* the level have the smallest and the largest number.
Reaches(nodes, hash, j, i, w) ==
  /\ j \in 1..Len(nodes) /\ hash = nodes[j]
  /\ i \in Nat /\ w \in Nat /\ i <= w
  /\ i = 0 => j = 1
  /\ i = w => j = Len(nodes)

\* The half of the parent at place j that a step leads to, in a level of this
\* length.
Child(length, j, e) == IF e.on_right \/ 2 * j > length THEN 2 * j - 1 ELSE 2 * j

LEMMA OneDown ==
  ASSUME NEW nodes, Len(nodes) \in Nat \ {0}, NEW hash, NEW e, NEW j, NEW i, NEW w,
         Reaches(Parents(nodes), Joined(hash, e), j, i, w)
  PROVE  Reaches(nodes, hash, Child(Len(nodes), j, e), 2 * i + Bit(e), 2 * w + 1)
<1>. DEFINE p == Parents(nodes)
            len == Len(nodes)
<1>1. /\ Len(p) \in Nat \ {0}
      /\ 2 * Len(p) \in {len, len + 1}
      /\ \A k \in 1..Len(p) :
           p[k] = HashNode(nodes[2 * k - 1],
                           IF 2 * k <= len THEN nodes[2 * k] ELSE nodes[2 * k - 1])
  BY ParentsAre
<1>2. /\ j \in 1..Len(p) /\ Joined(hash, e) = p[j]
      /\ i \in Nat /\ w \in Nat /\ i <= w
      /\ i = 0 => j = 1
      /\ i = w => j = Len(p)
  BY DEF Reaches
<1>. HIDE DEF p, len
<1>3. len \in Nat \ {0}
  BY DEF len
<1>4. p[j] = HashNode(nodes[2 * j - 1],
                      IF 2 * j <= len THEN nodes[2 * j] ELSE nodes[2 * j - 1])
  BY <1>1, <1>2
<1>5. CASE e.on_right
  <2>1. hash = nodes[2 * j - 1]
    BY <1>2, <1>4, <1>5 DEF Joined, HashNode
  <2>2. Child(len, j, e) = 2 * j - 1 /\ Bit(e) = 0
    BY <1>5 DEF Child, Bit
  <2>3. 2 * j - 1 \in 1..len
    BY <1>1, <1>2, <1>3
  <2>4. 2 * i \in Nat /\ 2 * w + 1 \in Nat /\ 2 * i <= 2 * w + 1 /\ 2 * i # 2 * w + 1
    BY <1>2
  <2>5. 2 * i = 0 => 2 * j - 1 = 1
    BY <1>2
  <2>. QED  BY <1>2, <2>1, <2>2, <2>3, <2>4, <2>5 DEF Reaches, len
<1>6. CASE ~ e.on_right
  <2>1. hash = IF 2 * j <= len THEN nodes[2 * j] ELSE nodes[2 * j - 1]
    BY <1>2, <1>4, <1>6 DEF Joined, HashNode
  <2>2. Bit(e) = 1 /\ Child(len, j, e) = IF 2 * j <= len THEN 2 * j ELSE 2 * j - 1
    BY <1>1, <1>2, <1>3, <1>6 DEF Child, Bit
  <2>. DEFINE k == Child(len, j, e)
  <2>3. k \in 1..len /\ hash = nodes[k]
    BY <1>1, <1>2, <1>3, <2>1, <2>2
  <2>4. i = w => k = len
    BY <1>1, <1>2, <1>3, <2>2
  <2>. HIDE DEF k
  <2>5. Reaches(nodes, hash, k, 2 * i + 1, 2 * w + 1)
    BY <1>2, <2>3, <2>4 DEF Reaches, len
  <2>. QED  BY <2>2, <2>5 DEF k, len
<1>. QED  BY <1>5, <1>6

\* The numbers of the rightmost path.
LEMMA Rightmost ==
  ASSUME NEW m \in Nat
  PROVE  \E w : /\ w[0] = 0 /\ \A n \in 1..m : w[n] = 2 * w[n - 1] + 1
                /\ \A proof : Len(proof) = m => LastIndex(proof) = w[m]
<1>. DEFINE path == RightmostPath(m)
<1>1. Len(path) = m /\ \A n \in 1..m : path[n] = ProofElement(<<>>, FALSE)
  BY DEF RightmostPath
<1>. HIDE DEF path
<1>2. PICK w : Indexing(w, path, m) /\ Index(path) = w[m]
  BY <1>1, IndexIs
<1>3. ASSUME NEW n \in 1..m  PROVE w[n] = 2 * w[n - 1] + 1
  <2>1. w[n] = 2 * w[n - 1] + Bit(path[Len(path) - n + 1])
    BY <1>2 DEF Indexing
  <2>2. path[Len(path) - n + 1] = ProofElement(<<>>, FALSE)
    <3>1. Len(path) - n + 1 \in 1..m
      BY <1>1
    <3>. QED  BY <1>1, <3>1
  <2>3. Bit(ProofElement(<<>>, FALSE)) = 1
    BY DEF Bit, ProofElement
  <2>. QED  BY <2>1, <2>2, <2>3
<1>4. w[0] = 0
  BY <1>2 DEF Indexing
<1>5. ASSUME NEW proof, Len(proof) = m  PROVE LastIndex(proof) = w[m]
  BY <1>2, <1>5 DEF LastIndex, path
<1>. QED  BY <1>3, <1>4, <1>5

\* A proof that leads to the root goes down the tree's own nodes.
LEMMA Descent ==
  ASSUME NEW nodes, NEW h \in Nat, NEW r, IsTree(r, nodes, h),
         NEW proof, Len(proof) \in Nat, NEW value, NEW c, NEW a, NEW w,
         Hashing(c, value, proof, Len(proof)), Indexing(a, proof, Len(proof)),
         w[0] = 0, \A n \in 1..Len(proof) : w[n] = 2 * w[n - 1] + 1,
         c[Len(proof)] = r[h][1],
         NEW m \in 0..h, m <= Len(proof)
  PROVE  \A t \in 0..m : \E j : Reaches(r[h - t], c[Len(proof) - t], j, a[t], w[t])
<1>. DEFINE len == Len(proof)
            S == {t \in 0..m : \E j : Reaches(r[h - t], c[len - t], j, a[t], w[t])}
<1>1. 0 \in S
  <2>1. Reaches(r[h], c[len], 1, a[0], w[0])
    BY DEF IsTree, Reaches, Indexing
  <2>2. h - 0 = h /\ len - 0 = len
    OBVIOUS
  <2>. QED  BY <2>1, <2>2
<1>2. ASSUME NEW t \in 1..m, t - 1 \in S  PROVE t \in S
  <2>. DEFINE e == proof[len - t + 1]
              below == r[h - t]
              hash == c[len - t]
  <2>1. PICK j : Reaches(r[h - (t - 1)], c[len - (t - 1)], j, a[t - 1], w[t - 1])
    BY <1>2
  <2>2. /\ h - (t - 1) = h - t + 1 /\ h - t + 1 \in 1..h /\ h - t \in 0..h
        /\ len - (t - 1) = len - t + 1 /\ len - t + 1 \in 1..len /\ t \in 1..len
        /\ (h - t + 1) - 1 = h - t /\ (len - t + 1) - 1 = len - t
    OBVIOUS
  <2>3. r[h - t + 1] = Parents(below) /\ Len(below) \in Nat \ {0}
    <3>1. r[h - t + 1] = Parents(r[(h - t + 1) - 1])
      BY <2>2 DEF IsTree
    <3>. QED  BY <2>2, <3>1 DEF IsTree
  <2>4. c[len - t + 1] = Joined(hash, e)
    <3>1. c[len - t + 1] = Joined(c[(len - t + 1) - 1], proof[len - t + 1])
      BY <2>2 DEF Hashing
    <3>. QED  BY <2>2, <3>1
  <2>5. a[t] = 2 * a[t - 1] + Bit(e) /\ w[t] = 2 * w[t - 1] + 1
    BY <2>2 DEF Indexing
  <2>. HIDE DEF e, below, hash
  <2>6. Reaches(Parents(below), Joined(hash, e), j, a[t - 1], w[t - 1])
    BY <2>1, <2>2, <2>3, <2>4
  <2>7. Reaches(below, hash, Child(Len(below), j, e), a[t], w[t])
    BY <2>3, <2>5, <2>6, OneDown
  <2>. QED  BY <2>7 DEF below, hash
<1>. HIDE DEF S
<1>3. \A t \in 0..m : t \in S
  <2>1. m \in Nat
    OBVIOUS
  <2>. QED  BY <1>1, <1>2, <2>1, UpTo
<1>. QED  BY <1>3 DEF S

LEMMA LeafIsNoNode ==
  ASSUME NEW key, NEW left, NEW right
  PROVE  HashLeaf(key) # HashNode(left, right)
<1>1. Len(HashLeaf(key)) = 1 /\ Len(HashNode(left, right)) = 2
  BY DEF HashLeaf, HashNode
<1>. QED  BY <1>1

LEMMA JoinedIsNode ==
  ASSUME NEW hash, NEW e
  PROVE  \E left, right : Joined(hash, e) = HashNode(left, right)
BY DEF Joined

\* The lowest level of a tree of keys.
KeyLeaves(nodes) ==
  Len(nodes) \in Nat \ {0} /\ \A i \in 1..Len(nodes) : \E key : nodes[i] = HashLeaf(key)

\* A proof that leads to the root is as long as the tree is high: leaves and nodes
\* are hashed under different bits.
LEMMA ProofLength ==
  ASSUME NEW nodes, KeyLeaves(nodes), NEW h \in Nat, NEW r, IsTree(r, nodes, h),
         NEW proof, Len(proof) \in Nat, NEW value, ComputedHash(value, proof) = r[h][1]
  PROVE  Len(proof) = h
<1>. DEFINE len == Len(proof)
<1>1. PICK c : Hashing(c, value, proof, len) /\ c[len] = r[h][1]
  BY ComputedHashIs
<1>2. PICK a : Indexing(a, proof, len)
  BY IndexIs
<1>3. PICK w : w[0] = 0 /\ \A n \in 1..len : w[n] = 2 * w[n - 1] + 1
  BY Rightmost
<1>4. ASSUME NEW m \in 0..h, m <= len, NEW t \in 0..m
      PROVE  \E j : Reaches(r[h - t], c[len - t], j, a[t], w[t])
  BY <1>1, <1>2, <1>3, <1>4, Descent
<1>5. CASE len < h
  <2>1. len \in 0..h /\ len <= len /\ len \in 0..len
    BY <1>5
  <2>2. PICK j : Reaches(r[h - len], c[len - len], j, a[len], w[len])
    BY <1>4, <2>1
  <2>3. h - len \in 1..h /\ h - len - 1 \in 0..h /\ len - len = 0
    BY <1>5
  <2>. DEFINE below == r[h - len - 1]
  <2>4. r[h - len] = Parents(below) /\ Len(below) \in Nat \ {0}
    BY <2>3 DEF IsTree
  <2>5. j \in 1..Len(Parents(below)) /\ HashLeaf(value) = Parents(below)[j]
    BY <1>1, <2>2, <2>3, <2>4 DEF Reaches, Hashing
  <2>. HIDE DEF below
  <2>6. \E left, right : Parents(below)[j] = HashNode(left, right)
    BY <2>4, <2>5, ParentsAre
  <2>. QED  BY <2>5, <2>6, LeafIsNoNode
<1>6. CASE h < len
  <2>1. h \in 0..h /\ h <= len
    BY <1>6
  <2>2. PICK j : Reaches(r[h - h], c[len - h], j, a[h], w[h])
    BY <1>4, <2>1
  <2>3. len - h \in 1..len /\ h - h = 0
    BY <1>6
  <2>4. j \in 1..Len(nodes) /\ c[len - h] = nodes[j]
    BY <2>2, <2>3 DEF Reaches, IsTree
  <2>5. c[len - h] = Joined(c[len - h - 1], proof[len - h])
    BY <1>1, <2>3 DEF Hashing
  <2>6. \E key : c[len - h] = HashLeaf(key)
    BY <2>4 DEF KeyLeaves
  <2>7. \E left, right : c[len - h] = HashNode(left, right)
    BY <2>5, JoinedIsNode
  <2>. QED  BY <2>6, <2>7, LeafIsNoNode
<1>. QED  BY <1>5, <1>6

\* What a proof shows: its value is the key of a leaf, the first one if its
\* position is 0 and the last one if its position is the rightmost.
LEMMA ShownAt ==
  ASSUME NEW nodes, KeyLeaves(nodes), NEW h \in Nat, NEW r, IsTree(r, nodes, h),
         NEW proof, Len(proof) \in Nat, NEW value, ComputedHash(value, proof) = r[h][1]
  PROVE  \E j : Reaches(nodes, HashLeaf(value), j, Index(proof), LastIndex(proof))
<1>. DEFINE len == Len(proof)
<1>1. PICK c : Hashing(c, value, proof, len) /\ c[len] = r[h][1]
  BY ComputedHashIs
<1>2. PICK a : Indexing(a, proof, len) /\ Index(proof) = a[len]
  BY IndexIs
<1>3. PICK w : /\ w[0] = 0 /\ \A n \in 1..len : w[n] = 2 * w[n - 1] + 1
               /\ LastIndex(proof) = w[len]
  <2>1. \E w : /\ w[0] = 0 /\ \A n \in 1..len : w[n] = 2 * w[n - 1] + 1
               /\ \A p : Len(p) = len => LastIndex(p) = w[len]
    BY Rightmost
  <2>. QED  BY <2>1
<1>4. len = h
  BY ProofLength
<1>5. \A t \in 0..h : \E j : Reaches(r[h - t], c[len - t], j, a[t], w[t])
  <2>1. h \in 0..h /\ h <= len
    BY <1>4
  <2>. QED  BY <1>1, <1>2, <1>3, <2>1, Descent
<1>6. PICK j : Reaches(r[h - h], c[len - h], j, a[h], w[h])
  <2>1. h \in 0..h
    OBVIOUS
  <2>. QED  BY <1>5, <2>1
<1>7. r[h - h] = nodes /\ c[len - h] = HashLeaf(value)
  BY <1>1, <1>4 DEF IsTree, Hashing
<1>. QED  BY <1>2, <1>3, <1>4, <1>6, <1>7

\* Two proofs that go down together: at equal numbers they are at the same node,
\* and at successive ones the second is at most one place further right.
Beside(nodes, hash, mirror, j, k, i, n) ==
  /\ j \in 1..Len(nodes) /\ hash = nodes[j]
  /\ k \in 1..Len(nodes) /\ mirror = nodes[k]
  /\ i \in Nat /\ n \in Nat
  /\ i = n => j = k
  /\ i + 1 = n => k <= j + 1

LEMMA BesideBelow ==
  ASSUME NEW nodes, Len(nodes) \in Nat \ {0}, NEW hash, NEW mirror, NEW e, NEW g,
         NEW j, NEW k, NEW i, NEW n,
         Beside(Parents(nodes), Joined(hash, e), Joined(mirror, g), j, k, i, n)
  PROVE  Beside(nodes, hash, mirror, Child(Len(nodes), j, e), Child(Len(nodes), k, g),
                2 * i + Bit(e), 2 * n + Bit(g))
<1>. DEFINE p == Parents(nodes)
            len == Len(nodes)
            j2 == Child(len, j, e)
            k2 == Child(len, k, g)
<1>1. /\ Len(p) \in Nat \ {0}
      /\ 2 * Len(p) \in {len, len + 1}
      /\ \A q \in 1..Len(p) :
           p[q] = HashNode(nodes[2 * q - 1],
                           IF 2 * q <= len THEN nodes[2 * q] ELSE nodes[2 * q - 1])
  BY ParentsAre
<1>2. /\ j \in 1..Len(p) /\ Joined(hash, e) = p[j]
      /\ k \in 1..Len(p) /\ Joined(mirror, g) = p[k]
      /\ i \in Nat /\ n \in Nat
      /\ i = n => j = k
      /\ i + 1 = n => k <= j + 1
  BY DEF Beside
<1>3. len \in Nat \ {0}
  OBVIOUS
<1>4. /\ p[j] = HashNode(nodes[2 * j - 1],
                         IF 2 * j <= len THEN nodes[2 * j] ELSE nodes[2 * j - 1])
      /\ p[k] = HashNode(nodes[2 * k - 1],
                         IF 2 * k <= len THEN nodes[2 * k] ELSE nodes[2 * k - 1])
  BY <1>1, <1>2
<1>. HIDE DEF p, len
<1>5. j2 \in 1..len /\ hash = nodes[j2]
  <2>1. CASE e.on_right
    <3>1. hash = nodes[2 * j - 1]
      BY <1>2, <1>4, <2>1 DEF Joined, HashNode
    <3>2. j2 = 2 * j - 1
      BY <2>1 DEF Child
    <3>. QED  BY <1>1, <1>2, <1>3, <3>1, <3>2
  <2>2. CASE ~ e.on_right
    <3>1. hash = IF 2 * j <= len THEN nodes[2 * j] ELSE nodes[2 * j - 1]
      BY <1>2, <1>4, <2>2 DEF Joined, HashNode
    <3>2. j2 = IF 2 * j > len THEN 2 * j - 1 ELSE 2 * j
      BY <2>2 DEF Child
    <3>3. j \in 1..Len(p) /\ Len(p) \in Nat /\ 2 * Len(p) \in {len, len + 1}
      BY <1>1, <1>2
    <3>. QED  BY <1>3, <3>1, <3>2, <3>3
  <2>. QED  BY <2>1, <2>2
<1>6. k2 \in 1..len /\ mirror = nodes[k2]
  <2>1. CASE g.on_right
    <3>1. mirror = nodes[2 * k - 1]
      BY <1>2, <1>4, <2>1 DEF Joined, HashNode
    <3>2. k2 = 2 * k - 1
      BY <2>1 DEF Child
    <3>. QED  BY <1>1, <1>2, <1>3, <3>1, <3>2
  <2>2. CASE ~ g.on_right
    <3>1. mirror = IF 2 * k <= len THEN nodes[2 * k] ELSE nodes[2 * k - 1]
      BY <1>2, <1>4, <2>2 DEF Joined, HashNode
    <3>2. k2 = IF 2 * k > len THEN 2 * k - 1 ELSE 2 * k
      BY <2>2 DEF Child
    <3>3. k \in 1..Len(p) /\ Len(p) \in Nat /\ 2 * Len(p) \in {len, len + 1}
      BY <1>1, <1>2
    <3>. QED  BY <1>3, <3>1, <3>2, <3>3
  <2>. QED  BY <2>1, <2>2
<1>7. Bit(e) \in {0, 1} /\ Bit(g) \in {0, 1} /\ (Bit(e) = 0 <=> e.on_right) /\ (Bit(g) = 0 <=> g.on_right)
  BY DEF Bit
<1>8. 2 * i + Bit(e) = 2 * n + Bit(g) => j2 = k2
  <2>. SUFFICES ASSUME 2 * i + Bit(e) = 2 * n + Bit(g)  PROVE j2 = k2
    OBVIOUS
  <2>1. i = n /\ Bit(e) = Bit(g)
    BY <1>2, <1>7
  <2>. QED  BY <1>2, <1>7, <2>1 DEF Child
<1>9. 2 * i + Bit(e) + 1 = 2 * n + Bit(g) => k2 <= j2 + 1
  <2>. SUFFICES ASSUME 2 * i + Bit(e) + 1 = 2 * n + Bit(g)  PROVE k2 <= j2 + 1
    OBVIOUS
  <2>1. \/ i = n /\ Bit(e) = 0 /\ Bit(g) = 1
        \/ i + 1 = n /\ Bit(e) = 1 /\ Bit(g) = 0
    BY <1>2, <1>7
  <2>2. CASE i = n /\ Bit(e) = 0 /\ Bit(g) = 1
    BY <1>1, <1>2, <1>3, <1>7, <2>2 DEF Child
  <2>3. CASE i + 1 = n /\ Bit(e) = 1 /\ Bit(g) = 0
    <3>1. k2 = 2 * k - 1 /\ k <= j + 1 /\ k <= Len(p)
      BY <1>2, <1>7, <2>3 DEF Child
    <3>2. j2 = IF 2 * j > len THEN 2 * j - 1 ELSE 2 * j
      BY <1>7, <2>3 DEF Child
    <3>. QED  BY <1>1, <1>2, <1>3, <3>1, <3>2
  <2>. QED  BY <2>1, <2>2, <2>3
<1>10. 2 * i + Bit(e) \in Nat /\ 2 * n + Bit(g) \in Nat
  BY <1>2, <1>7
<1>. QED  BY <1>5, <1>6, <1>8, <1>9, <1>10 DEF Beside, len

LEMMA ShownBeside ==
  ASSUME NEW nodes, KeyLeaves(nodes), NEW h \in Nat, NEW r, IsTree(r, nodes, h),
         NEW proof, Len(proof) \in Nat, NEW value, ComputedHash(value, proof) = r[h][1],
         NEW other, Len(other) \in Nat, NEW next, ComputedHash(next, other) = r[h][1],
         Adjacent(proof, other)
  PROVE  \E j, k \in 1..Len(nodes) : /\ nodes[j] = HashLeaf(value)
                                     /\ nodes[k] = HashLeaf(next)
                                     /\ k <= j + 1
<1>1. PICK c : Hashing(c, value, proof, Len(proof)) /\ c[Len(proof)] = r[h][1]
  BY ComputedHashIs
<1>2. PICK d : Hashing(d, next, other, Len(other)) /\ d[Len(other)] = r[h][1]
  BY ComputedHashIs
<1>3. PICK a : Indexing(a, proof, Len(proof)) /\ Index(proof) = a[Len(proof)]
  BY IndexIs
<1>4. PICK b : Indexing(b, other, Len(other)) /\ Index(other) = b[Len(other)]
  BY IndexIs
<1>5. Len(proof) = h
  BY ProofLength
<1>6. Len(other) = h
  BY ProofLength
<1>. DEFINE S == {t \in 0..h : \E j, k : Beside(r[h - t], c[h - t], d[h - t], j, k, a[t], b[t])}
<1>7. 0 \in S
  <2>1. Beside(r[h], c[h], d[h], 1, 1, a[0], b[0])
    BY <1>1, <1>2, <1>3, <1>4, <1>5, <1>6 DEF IsTree, Beside, Indexing
  <2>2. h - 0 = h
    OBVIOUS
  <2>. QED  BY <2>1, <2>2
<1>8. ASSUME NEW t \in 1..h, t - 1 \in S  PROVE t \in S
  <2>. DEFINE e == proof[h - t + 1]
              g == other[h - t + 1]
              below == r[h - t]
              hash == c[h - t]
              mirror == d[h - t]
  <2>1. PICK j, k : Beside(r[h - (t - 1)], c[h - (t - 1)], d[h - (t - 1)], j, k,
                           a[t - 1], b[t - 1])
    BY <1>8
  <2>2. /\ h - (t - 1) = h - t + 1 /\ h - t + 1 \in 1..h /\ h - t \in 0..h
        /\ (h - t + 1) - 1 = h - t
    OBVIOUS
  <2>3. r[h - t + 1] = Parents(below) /\ Len(below) \in Nat \ {0}
    <3>1. r[h - t + 1] = Parents(r[(h - t + 1) - 1])
      BY <2>2 DEF IsTree
    <3>. QED  BY <2>2, <3>1 DEF IsTree
  <2>4. c[h - t + 1] = Joined(hash, e)
    <3>1. c[h - t + 1] = Joined(c[(h - t + 1) - 1], proof[h - t + 1])
      BY <1>1, <1>5, <2>2 DEF Hashing
    <3>. QED  BY <2>2, <3>1
  <2>5. d[h - t + 1] = Joined(mirror, g)
    <3>1. d[h - t + 1] = Joined(d[(h - t + 1) - 1], other[h - t + 1])
      BY <1>2, <1>6, <2>2 DEF Hashing
    <3>. QED  BY <2>2, <3>1
  <2>6. a[t] = 2 * a[t - 1] + Bit(e) /\ b[t] = 2 * b[t - 1] + Bit(g)
    BY <1>3, <1>4, <1>5, <1>6 DEF Indexing
  <2>. HIDE DEF e, g, below, hash, mirror
  <2>7. Beside(Parents(below), Joined(hash, e), Joined(mirror, g), j, k, a[t - 1], b[t - 1])
    BY <2>1, <2>2, <2>3, <2>4, <2>5
  <2>8. Beside(below, hash, mirror, Child(Len(below), j, e), Child(Len(below), k, g),
               a[t], b[t])
    BY <2>3, <2>6, <2>7, BesideBelow
  <2>. QED  BY <2>8 DEF below, hash, mirror
<1>. HIDE DEF S
<1>9. h \in S
  <2>1. \A t \in 0..h : t \in S
    BY <1>7, <1>8, UpTo
  <2>2. h \in 0..h
    OBVIOUS
  <2>. QED  BY <2>1, <2>2
<1>10. PICK j, k : Beside(r[h - h], c[h - h], d[h - h], j, k, a[h], b[h])
  BY <1>9 DEF S
<1>11. r[h - h] = nodes /\ c[h - h] = HashLeaf(value) /\ d[h - h] = HashLeaf(next)
  BY <1>1, <1>2 DEF IsTree, Hashing
<1>12. a[h] + 1 = b[h]
  BY <1>3, <1>4, <1>5, <1>6 DEF Adjacent
<1>. QED  BY <1>10, <1>11, <1>12 DEF Beside

-----------------------------------------------------------------------------
(* The root of a list of keys.                                               *)

\* The place in the list of the key whose hash is at a place of the lowest level:
\* the last hash may be there twice.
Kept(raw, j) == IF j <= Len(raw) THEN j ELSE Len(raw)

LEMMA PaddedIs ==
  ASSUME NEW raw, Len(raw) \in Nat \ {0}
  PROVE  /\ Len(Padded(Hashes(raw))) \in {Len(raw), Len(raw) + 1}
         /\ \A j \in 1..Len(Padded(Hashes(raw))) :
              Padded(Hashes(raw))[j] = HashLeaf(raw[Kept(raw, j)])
         /\ Hashes(raw) # <<>>
<1>. DEFINE n == Len(raw)
            leaf(j) == HashLeaf(raw[j])
            hashes == [j \in 1..n |-> leaf(j)]
            All == {leaf(j) : j \in 1..n}
<1>1. Hashes(raw) = hashes
  BY DEF Hashes
<1>2. n \in Nat \ {0}
  OBVIOUS
<1>. HIDE DEF n, leaf
<1>3. hashes \in Seq(All) /\ Len(hashes) = n /\ \A j \in 1..n : hashes[j] = leaf(j)
  BY <1>2
<1>4. hashes # <<>>
  BY <1>2, <1>3
<1>. HIDE DEF hashes, All
<1>5. CASE Padded(hashes) = hashes
  BY <1>1, <1>2, <1>3, <1>4, <1>5 DEF Kept, n, leaf
<1>6. CASE Padded(hashes) # hashes
  <2>1. Padded(hashes) = Append(hashes, leaf(n))
    BY <1>2, <1>3, <1>6 DEF Padded, WithLastRepeated, Last
  <2>2. leaf(n) \in All
    BY <1>2 DEF All
  <2>3. /\ Len(Append(hashes, leaf(n))) = n + 1
        /\ \A j \in 1..n + 1 : Append(hashes, leaf(n))[j] = IF j <= n THEN hashes[j] ELSE leaf(n)
    BY <1>2, <1>3, <2>2
  <2>4. ASSUME NEW j \in 1..n + 1  PROVE Padded(hashes)[j] = leaf(IF j <= n THEN j ELSE n)
    BY <1>2, <1>3, <2>1, <2>3
  <2>. QED  BY <1>1, <1>2, <1>4, <2>1, <2>3, <2>4 DEF Kept, n, leaf
<1>. QED  BY <1>5, <1>6

LEMMA RootIs ==
  ASSUME NEW raw, Len(raw) \in Nat \ {0}
  PROVE  /\ KeyLeaves(Padded(Hashes(raw)))
         /\ \E h \in Nat : \E r :
              /\ IsTree(r, Padded(Hashes(raw)), h)
              /\ RootOf(TreeOf(Hashes(raw))) = r[h][1]
              /\ Len(Levels(Padded(Hashes(raw)))) = h + 1
              /\ Len(raw) = 1 => h = 0
<1>. DEFINE nodes == Padded(Hashes(raw))
<1>1. Len(nodes) \in Nat \ {0} /\ Hashes(raw) # <<>>
  BY PaddedIs
<1>2. KeyLeaves(nodes)
  BY <1>1, PaddedIs DEF KeyLeaves
<1>3. TreeOf(Hashes(raw)) = Levels(nodes)
  BY <1>1 DEF TreeOf
<1>4a. PICK h \in Nat : \E r : /\ IsTree(r, nodes, h)
                               /\ Levels(nodes) = [i \in 1..h + 1 |-> r[i - 1]]
                               /\ Len(nodes) = 1 => h = 0
  BY <1>1, LevelsAre
<1>4. PICK r : /\ IsTree(r, nodes, h)
               /\ Levels(nodes) = [i \in 1..h + 1 |-> r[i - 1]]
               /\ Len(nodes) = 1 => h = 0
  BY <1>4a
<1>4b. Len(raw) = 1 => Len(nodes) = 1
  BY DEF Padded, Hashes
<1>. HIDE DEF nodes
<1>5. Len(Levels(nodes)) = h + 1 /\ Levels(nodes)[h + 1] = r[h]
  BY <1>4
<1>6. Levels(nodes) # <<>>
  BY <1>5
<1>7. RootOf(Levels(nodes)) = r[h][1]
  BY <1>5, <1>6 DEF RootOf, Last
<1>. QED  BY <1>2, <1>3, <1>4, <1>4b, <1>5, <1>7 DEF nodes

Ascending(raw) ==
  /\ Len(raw) \in Nat
  /\ \A i \in 1..Len(raw) : raw[i] \in Nat
  /\ \A i, j \in 1..Len(raw) : i <= j => raw[i] <= raw[j]

\* The place in the list of a key that is shown.
LEMMA ShownKey ==
  ASSUME NEW raw, Len(raw) \in Nat \ {0}, NEW value, NEW proof, Len(proof) \in Nat,
         VerifyInTree(RootOf(TreeOf(Hashes(raw))), value, proof)
  PROVE  \E j \in 1..Len(raw) : /\ value = raw[j]
                                /\ Index(proof) = 0 => j = 1
                                /\ Index(proof) = LastIndex(proof) => j = Len(raw)
<1>. DEFINE nodes == Padded(Hashes(raw))
<1>1. KeyLeaves(nodes)
  BY RootIs
<1>2a. PICK h \in Nat : \E r : IsTree(r, nodes, h) /\ RootOf(TreeOf(Hashes(raw))) = r[h][1]
  BY RootIs
<1>2. PICK r : IsTree(r, nodes, h) /\ RootOf(TreeOf(Hashes(raw))) = r[h][1]
  BY <1>2a
<1>3. /\ Len(nodes) \in {Len(raw), Len(raw) + 1}
      /\ \A j \in 1..Len(nodes) : nodes[j] = HashLeaf(raw[Kept(raw, j)])
  BY PaddedIs
<1>. HIDE DEF nodes
<1>4. ComputedHash(value, proof) = r[h][1]
  BY <1>2 DEF VerifyInTree
<1>5. PICK j : Reaches(nodes, HashLeaf(value), j, Index(proof), LastIndex(proof))
  BY <1>1, <1>2, <1>4, ShownAt
<1>6. /\ j \in 1..Len(nodes) /\ HashLeaf(value) = HashLeaf(raw[Kept(raw, j)])
      /\ Index(proof) = 0 => j = 1
      /\ Index(proof) = LastIndex(proof) => j = Len(nodes)
  BY <1>3, <1>5 DEF Reaches
<1>7. /\ Kept(raw, j) \in 1..Len(raw)
      /\ j = 1 => Kept(raw, j) = 1
      /\ j = Len(nodes) => Kept(raw, j) = Len(raw)
  BY <1>3, <1>6 DEF Kept
<1>8. value = raw[Kept(raw, j)]
  BY <1>6 DEF HashLeaf
<1>. QED  BY <1>6, <1>7, <1>8

\* Of two keys shown by adjacent proofs the second is at most one place further.
LEMMA ShownKeys ==
  ASSUME NEW raw, Len(raw) \in Nat \ {0},
         NEW value, NEW proof, Len(proof) \in Nat,
         VerifyInTree(RootOf(TreeOf(Hashes(raw))), value, proof),
         NEW next, NEW other, Len(other) \in Nat,
         VerifyInTree(RootOf(TreeOf(Hashes(raw))), next, other),
         Adjacent(proof, other)
  PROVE  \E j, k \in 1..Len(raw) : value = raw[j] /\ next = raw[k] /\ k <= j + 1
<1>. DEFINE nodes == Padded(Hashes(raw))
<1>1. KeyLeaves(nodes)
  BY RootIs
<1>2a. PICK h \in Nat : \E r : IsTree(r, nodes, h) /\ RootOf(TreeOf(Hashes(raw))) = r[h][1]
  BY RootIs
<1>2. PICK r : IsTree(r, nodes, h) /\ RootOf(TreeOf(Hashes(raw))) = r[h][1]
  BY <1>2a
<1>3. /\ Len(nodes) \in {Len(raw), Len(raw) + 1}
      /\ \A j \in 1..Len(nodes) : nodes[j] = HashLeaf(raw[Kept(raw, j)])
  BY PaddedIs
<1>. HIDE DEF nodes
<1>4. ComputedHash(value, proof) = r[h][1] /\ ComputedHash(next, other) = r[h][1]
  BY <1>2 DEF VerifyInTree
<1>5. PICK j, k \in 1..Len(nodes) : /\ nodes[j] = HashLeaf(value)
                                    /\ nodes[k] = HashLeaf(next)
                                    /\ k <= j + 1
  BY <1>1, <1>2, <1>4, ShownBeside
<1>6. value = raw[Kept(raw, j)] /\ next = raw[Kept(raw, k)]
  BY <1>3, <1>5 DEF HashLeaf
<1>7. /\ Kept(raw, j) \in 1..Len(raw) /\ Kept(raw, k) \in 1..Len(raw)
      /\ Kept(raw, k) <= Kept(raw, j) + 1
  BY <1>3, <1>5 DEF Kept
<1>. QED  BY <1>6, <1>7

\* verify_in_tree accepts no key outside the list the root was made from,
\* whatever the proof (merkle_proof.rs, verify_in_tree).
THEOREM InclusionIsSound ==
  ASSUME NEW raw, Len(raw) \in Nat \ {0}, NEW value, NEW proof, Len(proof) \in Nat,
         VerifyInTree(RootOf(TreeOf(Hashes(raw))), value, proof)
  PROVE  \E i \in 1..Len(raw) : value = raw[i]
BY ShownKey

\* verify_not_in_tree accepts no key of the list the root was made from, whatever
\* the proofs and neighbours: an earner is never shown to be absent
\* (merkle_proof.rs, verify_not_in_tree).
THEOREM ExclusionIsSound ==
  ASSUME NEW raw, Ascending(raw), Len(raw) # 0,
         NEW value \in Nat, NEW proofs, NEW neighbors,
         \A i \in 1..Len(proofs) : Len(proofs[i]) \in Nat,
         VerifyNotInTree(RootOf(TreeOf(Hashes(raw))), value, proofs, neighbors)
  PROVE  \A i \in 1..Len(raw) : value # raw[i]
<1>. DEFINE len == Len(raw)
            top == RootOf(TreeOf(Hashes(raw)))
<1>. SUFFICES ASSUME NEW i \in 1..len  PROVE value # raw[i]
  OBVIOUS
<1>1. /\ Len(raw) \in Nat \ {0} /\ raw[i] \in Nat
      /\ \A j \in 1..len : /\ raw[j] \in Nat
                           /\ j <= i => raw[j] <= raw[i]
                           /\ i <= j => raw[i] <= raw[j]
  BY DEF Ascending
<1>2. \A n \in 1..Len(proofs) : VerifyInTree(top, neighbors[n], proofs[n])
  BY DEF VerifyNotInTree
<1>3. CASE Len(proofs) = 1
  <2>1. Len(proofs[1]) \in Nat /\ VerifyInTree(top, neighbors[1], proofs[1])
    BY <1>2, <1>3
  <2>2. \/ value < neighbors[1] /\ Index(proofs[1]) = 0
        \/ value > neighbors[1] /\ Index(proofs[1]) = LastIndex(proofs[1])
    BY <1>3 DEF VerifyNotInTree
  <2>3. PICK j \in 1..len : /\ neighbors[1] = raw[j]
                            /\ Index(proofs[1]) = 0 => j = 1
                            /\ Index(proofs[1]) = LastIndex(proofs[1]) => j = len
    BY <1>1, <2>1, ShownKey
  <2>4. CASE value < neighbors[1] /\ Index(proofs[1]) = 0
    BY <1>1, <2>3, <2>4
  <2>5. CASE value > neighbors[1] /\ Index(proofs[1]) = LastIndex(proofs[1])
    BY <1>1, <2>3, <2>5
  <2>. QED  BY <2>2, <2>4, <2>5
<1>4. CASE Len(proofs) = 2
  <2>1. /\ Len(proofs[1]) \in Nat /\ VerifyInTree(top, neighbors[1], proofs[1])
        /\ Len(proofs[2]) \in Nat /\ VerifyInTree(top, neighbors[2], proofs[2])
    BY <1>2, <1>4
  <2>2. /\ neighbors[1] < value /\ value < neighbors[2]
        /\ Adjacent(proofs[1], proofs[2])
    BY <1>4 DEF VerifyNotInTree
  <2>3. PICK j, k \in 1..len : neighbors[1] = raw[j] /\ neighbors[2] = raw[k] /\ k <= j + 1
    <3>1. Len(raw) \in Nat \ {0} /\ Adjacent(proofs[1], proofs[2])
      BY <1>1, <2>2
    <3>2. /\ VerifyInTree(top, neighbors[1], proofs[1])
          /\ VerifyInTree(top, neighbors[2], proofs[2])
          /\ Len(proofs[1]) \in Nat /\ Len(proofs[2]) \in Nat
      BY <2>1
    <3>. QED  BY <3>1, <3>2, ShownKeys
  <2>4. i <= j \/ k <= i
    BY <1>1, <2>3
  <2>. QED  BY <1>1, <2>2, <2>3, <2>4
<1>. QED  BY <1>3, <1>4 DEF VerifyNotInTree

-----------------------------------------------------------------------------
(* Sequences.                                                                *)

LEMMA InsertAtIs ==
  ASSUME NEW S, NEW s \in Seq(S), NEW x \in S, NEW i \in 1..Len(s) + 1
  PROVE  /\ InsertAt(s, i, x) \in Seq(S)
         /\ Len(InsertAt(s, i, x)) = Len(s) + 1
         /\ \A j \in 1..Len(s) + 1 :
              InsertAt(s, i, x)[j] = IF j < i THEN s[j] ELSE IF j = i THEN x ELSE s[j - 1]
<1>. DEFINE front == SubSeq(s, 1, i - 1)
            back == SubSeq(s, i, Len(s))
            one == <<x>>
            left == front \o one
<1>1. InsertAt(s, i, x) = left \o back
  BY DEF InsertAt
<1>2. Len(s) \in Nat /\ i \in Nat \ {0} /\ i <= Len(s) + 1
  OBVIOUS
<1>3. /\ front \in Seq(S) /\ Len(front) = i - 1
      /\ \A j \in 1..i - 1 : front[j] = s[j]
  <2>1. 1 \in Int /\ i - 1 \in Int /\ \A j \in 1..i - 1 : s[j] \in S
    BY <1>2
  <2>2. /\ SubSeq(s, 1, i - 1) \in Seq(S)
        /\ Len(SubSeq(s, 1, i - 1)) = IF 1 <= i - 1 THEN i - 1 - 1 + 1 ELSE 0
        /\ \A j \in 1..i - 1 - 1 + 1 : SubSeq(s, 1, i - 1)[j] = s[1 + j - 1]
    BY <2>1, SubSeqProperties
  <2>. QED  BY <1>2, <2>2
<1>4. /\ back \in Seq(S) /\ Len(back) = Len(s) - i + 1
      /\ \A j \in 1..Len(s) - i + 1 : back[j] = s[i + j - 1]
  <2>1. Len(s) \in Int /\ i \in Int /\ \A j \in i..Len(s) : s[j] \in S
    BY <1>2
  <2>2. /\ SubSeq(s, i, Len(s)) \in Seq(S)
        /\ Len(SubSeq(s, i, Len(s))) = IF i <= Len(s) THEN Len(s) - i + 1 ELSE 0
        /\ \A j \in 1..Len(s) - i + 1 : SubSeq(s, i, Len(s))[j] = s[i + j - 1]
    BY <2>1, SubSeqProperties
  <2>. QED  BY <1>2, <2>2
<1>5. one \in Seq(S) /\ Len(one) = 1 /\ one[1] = x
  OBVIOUS
<1>. HIDE DEF front, back, one
<1>6. /\ left \in Seq(S) /\ Len(left) = i
      /\ \A j \in 1..i : left[j] = IF j < i THEN s[j] ELSE x
  <2>1. /\ left \in Seq(S) /\ Len(left) = Len(front) + Len(one)
        /\ \A j \in 1..Len(front) + Len(one) :
             left[j] = IF j <= Len(front) THEN front[j] ELSE one[j - Len(front)]
    BY <1>3, <1>5, ConcatProperties
  <2>. QED  BY <1>2, <1>3, <1>5, <2>1
<1>. HIDE DEF left
<1>7. /\ left \o back \in Seq(S) /\ Len(left \o back) = Len(left) + Len(back)
      /\ \A j \in 1..Len(left) + Len(back) :
           (left \o back)[j] = IF j <= Len(left) THEN left[j] ELSE back[j - Len(left)]
  BY <1>4, <1>6, ConcatProperties
<1>8. Len(left) + Len(back) = Len(s) + 1
  BY <1>2, <1>4, <1>6
<1>9. ASSUME NEW j \in 1..Len(s) + 1
      PROVE  (left \o back)[j] = IF j < i THEN s[j] ELSE IF j = i THEN x ELSE s[j - 1]
  <2>1. CASE j <= i
    BY <1>2, <1>6, <1>7, <1>8, <2>1
  <2>2. CASE ~ (j <= i)
    <3>1. j - i \in 1..Len(s) - i + 1 /\ i + (j - i) - 1 = j - 1
      BY <1>2, <2>2
    <3>2. back[j - i] = s[j - 1]
      BY <1>4, <3>1
    <3>. QED  BY <1>2, <1>6, <1>7, <1>8, <2>2, <3>2
  <2>. QED  BY <2>1, <2>2
<1>. QED  BY <1>1, <1>7, <1>8, <1>9

-----------------------------------------------------------------------------
(* The order of the raw leaves.                                              *)

KeySeq(raw) == raw \in Seq(AllKeys) /\ Ascending(raw)

LEMMA KeysAreNumbers == AllKeys \subseteq Nat
BY KeysAssumption DEF AllKeys, DefaultKey

\* A key goes after those that are not above it.
LEMMA InsertIs ==
  ASSUME NEW s, KeySeq(s), NEW key \in AllKeys
  PROVE  /\ KeySeq(Insert(s, key))
         /\ \E i \in 1..Len(s) + 1 :
              /\ Insert(s, key) = InsertAt(s, i, key)
              /\ \A j \in 1..Len(s) : IF j < i THEN s[j] <= key ELSE s[j] > key
<1>. DEFINE above == {i \in 1..Len(s) + 1 : i <= Len(s) => s[i] > key}
            i == Min(above)
            new == Insert(s, key)
<1>1. /\ s \in Seq(AllKeys) /\ Len(s) \in Nat /\ key \in Nat
      /\ \A j \in 1..Len(s) : s[j] \in Nat
      /\ \A j, k \in 1..Len(s) : j <= k => s[j] <= s[k]
  BY KeysAreNumbers DEF KeySeq, Ascending
<1>2. above \subseteq Nat /\ Len(s) + 1 \in above
  BY <1>1
<1>3. i \in above /\ \A j \in above : i <= j
  <2>. HIDE DEF above
  <2>. QED  BY <1>2, MinIs
<1>4. i \in 1..Len(s) + 1
  BY <1>3
<1>5. ASSUME NEW j \in 1..Len(s)  PROVE IF j < i THEN s[j] <= key ELSE s[j] > key
  <2>1. CASE j < i
    <3>1. j \notin above
      BY <1>1, <1>2, <1>3, <2>1
    <3>. QED  BY <1>1, <2>1, <3>1
  <2>2. CASE ~ (j < i)
    <3>1. i \in 1..Len(s) /\ i <= j /\ s[i] > key
      BY <1>1, <1>3, <2>2
    <3>2. s[i] <= s[j] /\ s[i] \in Nat /\ s[j] \in Nat
      BY <1>1, <3>1
    <3>. QED  BY <1>1, <2>2, <3>1, <3>2
  <2>. QED  BY <2>1, <2>2
<1>6. new = InsertAt(s, i, key)
  BY DEF Insert
<1>. HIDE DEF i, above
<1>7. /\ new \in Seq(AllKeys) /\ Len(new) = Len(s) + 1
      /\ \A j \in 1..Len(s) + 1 :
           new[j] = IF j < i THEN s[j] ELSE IF j = i THEN key ELSE s[j - 1]
  <2>1. s \in Seq(AllKeys) /\ key \in AllKeys
    BY <1>1
  <2>2. /\ InsertAt(s, i, key) \in Seq(AllKeys) /\ Len(InsertAt(s, i, key)) = Len(s) + 1
        /\ \A j \in 1..Len(s) + 1 :
             InsertAt(s, i, key)[j] = IF j < i THEN s[j] ELSE IF j = i THEN key ELSE s[j - 1]
    BY <1>4, <2>1, InsertAtIs
  <2>. QED  BY <1>6, <2>2
<1>. HIDE DEF new
<1>8. \A j \in 1..Len(new) : new[j] \in Nat
  <2>1. \A j \in 1..Len(new) : new[j] \in AllKeys
    BY <1>7, ElementOfSeq
  <2>. QED  BY <2>1, KeysAreNumbers
<1>9. ASSUME NEW j \in 1..Len(new), NEW k \in 1..Len(new), j <= k
      PROVE  new[j] <= new[k]
  <2>1. /\ new[j] = IF j < i THEN s[j] ELSE IF j = i THEN key ELSE s[j - 1]
        /\ new[k] = IF k < i THEN s[k] ELSE IF k = i THEN key ELSE s[k - 1]
    BY <1>7
  <2>2. j \in 1..Len(s) + 1 /\ k \in 1..Len(s) + 1 /\ i \in 1..Len(s) + 1
    BY <1>4, <1>7
  <2>3. CASE k < i
    BY <1>1, <1>9, <2>1, <2>2, <2>3
  <2>4. CASE k = i
    BY <1>1, <1>5, <1>9, <2>1, <2>2, <2>4
  <2>5. CASE i < k
    <3>1. k - 1 \in 1..Len(s) /\ s[k - 1] > key /\ new[k] = s[k - 1] /\ s[k - 1] \in Nat
      BY <1>1, <1>5, <2>1, <2>2, <2>5
    <3>2. CASE j < i
      BY <1>1, <2>1, <2>2, <3>1, <3>2, <2>5
    <3>3. CASE j = i
      BY <1>1, <2>1, <3>1, <3>3
    <3>4. CASE i < j
      BY <1>1, <1>9, <2>1, <2>2, <3>1, <3>4
    <3>. QED  BY <2>2, <3>2, <3>3, <3>4
  <2>. QED  BY <2>2, <2>3, <2>4, <2>5
<1>10. KeySeq(new)
  BY <1>1, <1>7, <1>8, <1>9 DEF KeySeq, Ascending
<1>. QED  BY <1>4, <1>5, <1>6, <1>10 DEF new

\* r has the first m steps of an insertion sort.
Sorting(r, list, m) ==
  /\ r[0] = <<>>
  /\ \A n \in 1..m : r[n] = Insert(r[n - 1], list[n])

\* The definition is not vacuous: there are such values for every m.
LEMMA SortingExist ==
  ASSUME NEW list, NEW m \in Nat
  PROVE  \E r : Sorting(r, list, m)
<1>. DEFINE T == {k \in Nat : ~ \E r : Sorting(r, list, k)}
<1>1. SUFFICES T = {}
  OBVIOUS
<1>2. SUFFICES ASSUME T # {}  PROVE FALSE
  OBVIOUS
<1>3. T \subseteq Nat
  OBVIOUS
<1>4. PICK k \in T : \A j \in T : ~ (<<j, k>> \in OpToRel(<, Nat))
  <2>. HIDE DEF T
  <2>. QED  BY <1>2, <1>3, NatLessThanWellFounded, WFMin
<1>5. \A j \in T : ~ (j < k)
  BY <1>3, <1>4 DEF OpToRel
<1>6. CASE k = 0
  <2>. DEFINE s == [n \in 0..0 |-> <<>>]
  <2>1. Sorting(s, list, 0)
    BY DEF Sorting
  <2>. QED  BY <1>4, <1>6, <2>1
<1>7. CASE k # 0
  <2>1. k \in Nat /\ k - 1 \in Nat /\ k - 1 \notin T
    BY <1>3, <1>5, <1>7
  <2>2. PICK r : Sorting(r, list, k - 1)
    BY <2>1
  <2>. DEFINE s == [n \in 0..k |-> IF n = k THEN Insert(r[k - 1], list[k]) ELSE r[n]]
  <2>3. s[0] = <<>>
    BY <1>7, <2>1, <2>2 DEF Sorting
  <2>4. ASSUME NEW n \in 1..k  PROVE s[n] = Insert(s[n - 1], list[n])
    <3>1. CASE n = k
      <4>1. s[n] = Insert(r[k - 1], list[k]) /\ s[n - 1] = r[k - 1]
        BY <2>1, <3>1
      <4>. QED  BY <3>1, <4>1
    <3>2. CASE n # k
      <4>1. s[n] = r[n] /\ s[n - 1] = r[n - 1] /\ n \in 1..(k - 1)
        BY <2>1, <3>2
      <4>2. r[n] = Insert(r[n - 1], list[n])
        BY <2>2, <4>1 DEF Sorting
      <4>. QED  BY <4>1, <4>2
    <3>. QED  BY <3>1, <3>2
  <2>. HIDE DEF s
  <2>5. Sorting(s, list, k)
    BY <2>3, <2>4 DEF Sorting
  <2>. QED  BY <1>4, <2>5
<1>. QED  BY <1>6, <1>7

LEMMA SortingChosen ==
  ASSUME NEW list, NEW m \in Nat, NEW f,
         f = CHOOSE q : q = [n \in 0..m |-> IF n = 0 THEN <<>> ELSE Insert(q[n - 1], list[n])]
  PROVE  Sorting(f, list, m)
<1>1. PICK r : Sorting(r, list, m)
  BY SortingExist
<1>. DEFINE g == [n \in 0..m |-> r[n]]
            next(n) == IF n = 0 THEN <<>> ELSE Insert(f[n - 1], list[n])
<1>2. \A n \in 0..m : g[n] = IF n = 0 THEN <<>> ELSE Insert(g[n - 1], list[n])
  <2>. SUFFICES ASSUME NEW n \in 0..m
                PROVE  g[n] = IF n = 0 THEN <<>> ELSE Insert(g[n - 1], list[n])
    OBVIOUS
  <2>1. CASE n = 0
    BY <1>1, <2>1 DEF Sorting
  <2>2. CASE n # 0
    <3>1. n \in 1..m /\ n - 1 \in 0..m
      BY <2>2
    <3>2. g[n] = r[n] /\ g[n - 1] = r[n - 1]
      BY <3>1
    <3>3. r[n] = Insert(r[n - 1], list[n])
      BY <1>1, <3>1 DEF Sorting
    <3>. QED  BY <2>2, <3>2, <3>3
  <2>. QED  BY <2>1, <2>2
<1>3. g = [n \in 0..m |-> g[n]]
  OBVIOUS
<1>. HIDE DEF g
<1>4. g = [n \in 0..m |-> IF n = 0 THEN <<>> ELSE Insert(g[n - 1], list[n])]
  BY <1>2, <1>3
<1>5. f = [n \in 0..m |-> IF n = 0 THEN <<>> ELSE Insert(f[n - 1], list[n])]
  BY <1>4
<1>6. f = [n \in 0..m |-> next(n)]
  BY <1>5
<1>7. next(0) = <<>> /\ \A n \in 1..m : next(n) = Insert(f[n - 1], list[n])
  OBVIOUS
<1>. HIDE DEF next
<1>8. \A n \in 0..m : f[n] = next(n)
  BY <1>6
<1>9. 0 \in 0..m /\ \A n \in 1..m : n \in 0..m
  OBVIOUS
<1>. QED  BY <1>7, <1>8, <1>9 DEF Sorting

FirstKeys(list, n) == {list[j] : j \in 1..n}

\* The sorted list after each step; what is in order stays as it is.
LEMMA SortingIs ==
  ASSUME NEW list \in Seq(AllKeys), NEW m \in 0..Len(list), NEW f, Sorting(f, list, m)
  PROVE  \A n \in 0..m : /\ KeySeq(f[n]) /\ Len(f[n]) = n
                         /\ ToSet(f[n]) = FirstKeys(list, n)
<1>. DEFINE good(n) == /\ KeySeq(f[n]) /\ Len(f[n]) = n
                       /\ ToSet(f[n]) = FirstKeys(list, n)
            S == {n \in 0..m : good(n)}
<1>1. Len(list) \in Nat /\ m \in Nat /\ m <= Len(list)
  OBVIOUS
<1>2. 0 \in S
  <2>1. f[0] = <<>>
    BY DEF Sorting
  <2>2. KeySeq(<<>>) /\ Len(<<>>) = 0 /\ ToSet(<<>>) = {}
    BY DEF KeySeq, Ascending, ToSet
  <2>3. FirstKeys(list, 0) = {}
    BY DEF FirstKeys
  <2>4. good(0)
    BY <2>1, <2>2, <2>3
  <2>. HIDE DEF good
  <2>. QED  BY <1>1, <2>4
<1>3. ASSUME NEW n \in 1..m, n - 1 \in S  PROVE n \in S
  <2>. DEFINE s == f[n - 1]
              key == list[n]
              new == Insert(s, key)
  <2>1. KeySeq(s) /\ Len(s) = n - 1 /\ ToSet(s) = FirstKeys(list, n - 1)
    BY <1>3
  <2>2. f[n] = new
    BY DEF Sorting
  <2>3. key \in AllKeys /\ n \in Nat /\ n - 1 \in Nat
    BY <1>1
  <2>. HIDE DEF s, key
  <2>4. KeySeq(new)
    BY <2>1, <2>3, InsertIs
  <2>5. PICK i \in 1..Len(s) + 1 : new = InsertAt(s, i, key)
    BY <2>1, <2>3, InsertIs
  <2>6. s \in Seq(AllKeys)
    BY <2>1 DEF KeySeq
  <2>7. /\ Len(new) = Len(s) + 1
        /\ \A j \in 1..Len(s) + 1 :
             new[j] = IF j < i THEN s[j] ELSE IF j = i THEN key ELSE s[j - 1]
    <3>1. key \in AllKeys
      BY <2>3
    <3>2. /\ Len(InsertAt(s, i, key)) = Len(s) + 1
          /\ \A j \in 1..Len(s) + 1 :
               InsertAt(s, i, key)[j] = IF j < i THEN s[j] ELSE IF j = i THEN key ELSE s[j - 1]
      BY <2>6, <3>1, InsertAtIs
    <3>. QED  BY <2>5, <3>2
  <2>. HIDE DEF new
  <2>8. Len(new) = n
    BY <2>1, <2>3, <2>7
  <2>9. DOMAIN new = 1..n /\ DOMAIN s = 1..n - 1
    BY <2>1, <2>4, <2>6, <2>8 DEF KeySeq
  <2>10. ToSet(new) = ToSet(s) \cup {key}
    <3>1. ASSUME NEW j \in 1..n  PROVE new[j] \in {s[k] : k \in 1..n - 1} \cup {key}
      <4>1. j \in 1..Len(s) + 1
        BY <2>1, <2>3
      <4>2. new[j] = IF j < i THEN s[j] ELSE IF j = i THEN key ELSE s[j - 1]
        BY <2>7, <4>1
      <4>3. j < i => j \in 1..n - 1
        BY <2>1, <2>3, <2>5
      <4>4. ~ (j < i) /\ j # i => j - 1 \in 1..n - 1
        BY <2>1, <2>3, <2>5
      <4>. QED  BY <4>2, <4>3, <4>4
    <3>2. ASSUME NEW j \in 1..n - 1  PROVE \E k \in 1..n : new[k] = s[j]
      <4>1. CASE j < i
        <5>1. j \in 1..n /\ new[j] = s[j]
          BY <2>1, <2>3, <2>7, <4>1
        <5>. QED  BY <5>1
      <4>2. CASE ~ (j < i)
        <5>1. j + 1 \in 1..n /\ j + 1 \in 1..Len(s) + 1 /\ ~ (j + 1 < i) /\ j + 1 # i /\ (j + 1) - 1 = j
          BY <2>1, <2>3, <2>5, <4>2
        <5>2. new[j + 1] = s[j]
          BY <2>7, <5>1
        <5>. QED  BY <5>1, <5>2
      <4>. QED  BY <4>1, <4>2
    <3>3. i \in 1..n /\ new[i] = key
      BY <2>1, <2>3, <2>5, <2>7
    <3>. QED  BY <2>9, <3>1, <3>2, <3>3 DEF ToSet
  <2>11. FirstKeys(list, n) = FirstKeys(list, n - 1) \cup {key}
    <3>1. 1..n = (1..n - 1) \cup {n}
      BY <2>3
    <3>. QED  BY <3>1 DEF key, FirstKeys
  <2>12. good(n)
    BY <2>1, <2>2, <2>4, <2>8, <2>10, <2>11
  <2>. QED  BY <2>12
<1>. HIDE DEF good
<1>4. S = {n \in 0..m : good(n)}
  OBVIOUS
<1>. HIDE DEF S
<1>5. \A n \in 0..m : n \in S
  BY <1>1, <1>2, <1>3, UpTo
<1>. QED  BY <1>4, <1>5 DEF good

LEMMA InsertLast ==
  ASSUME NEW s, KeySeq(s), NEW key \in AllKeys, \A j \in 1..Len(s) : s[j] <= key
  PROVE  \A j \in 1..Len(s) + 1 : Insert(s, key)[j] = IF j <= Len(s) THEN s[j] ELSE key
<1>1. PICK i \in 1..Len(s) + 1 :
         /\ Insert(s, key) = InsertAt(s, i, key)
         /\ \A j \in 1..Len(s) : IF j < i THEN s[j] <= key ELSE s[j] > key
  BY InsertIs
<1>2. s \in Seq(AllKeys) /\ Len(s) \in Nat /\ key \in Nat /\ \A j \in 1..Len(s) : s[j] \in Nat
  BY KeysAreNumbers DEF KeySeq, Ascending
<1>3. i = Len(s) + 1
  <2>1. i \in 1..Len(s) => s[i] > key /\ s[i] <= key
    BY <1>1
  <2>. QED  BY <1>2, <2>1
<1>4. \A j \in 1..Len(s) + 1 :
        InsertAt(s, i, key)[j] = IF j < i THEN s[j] ELSE IF j = i THEN key ELSE s[j - 1]
  BY <1>2, InsertAtIs
<1>. QED  BY <1>1, <1>2, <1>3, <1>4

LEMMA SortingAscending ==
  ASSUME NEW list \in Seq(AllKeys), NEW m \in 0..Len(list), NEW f, Sorting(f, list, m),
         \A j, k \in 1..m : j <= k => list[j] <= list[k]
  PROVE  \A n \in 0..m : \A j \in 1..n : f[n][j] = list[j]
<1>. DEFINE S == {n \in 0..m : \A j \in 1..n : f[n][j] = list[j]}
<1>1. Len(list) \in Nat /\ m \in Nat /\ m <= Len(list)
  OBVIOUS
<1>2. 0 \in S
  BY <1>1
<1>3. ASSUME NEW n \in 1..m, n - 1 \in S  PROVE n \in S
  <2>. DEFINE s == f[n - 1]
              key == list[n]
              new == Insert(s, key)
  <2>1. \A j \in 1..n - 1 : s[j] = list[j]
    BY <1>3
  <2>2. f[n] = new
    BY DEF Sorting
  <2>3. key \in AllKeys /\ n \in Nat /\ n - 1 \in 0..m
    BY <1>1
  <2>4. KeySeq(s) /\ Len(s) = n - 1
    BY <2>3, SortingIs
  <2>5. \A j \in 1..n - 1 : s[j] <= key
    BY <1>1, <2>1
  <2>. HIDE DEF s, key
  <2>10. \A j \in 1..Len(s) + 1 : new[j] = IF j <= Len(s) THEN s[j] ELSE key
    BY <2>3, <2>4, <2>5, InsertLast
  <2>. HIDE DEF new
  <2>11. ASSUME NEW j \in 1..n  PROVE new[j] = list[j]
    <3>1. j \in 1..Len(s) + 1
      BY <2>3, <2>4
    <3>2. CASE j = n
      BY <2>3, <2>4, <2>10, <3>1, <3>2 DEF key
    <3>3. CASE j # n
      BY <2>1, <2>3, <2>4, <2>10, <3>1, <3>3
    <3>. QED  BY <3>2, <3>3
  <2>. QED  BY <2>2, <2>11
<1>. HIDE DEF S
<1>4. \A n \in 0..m : n \in S
  BY <1>1, <1>2, <1>3, UpTo
<1>. QED  BY <1>4 DEF S

\* Sorting keeps the keys and gives each its place.  What is in order stays as it
\* is, and a key that comes to it last is put in its place.
LEMMA SortedIs ==
  ASSUME NEW list \in Seq(AllKeys)
  PROVE  /\ KeySeq(Sorted(list))
         /\ Len(Sorted(list)) = Len(list)
         /\ ToSet(Sorted(list)) = ToSet(list)
<1>. DEFINE m == Len(list)
            f == CHOOSE f : f = [n \in 0..m |-> IF n = 0 THEN <<>> ELSE Insert(f[n - 1], list[n])]
<1>1. Sorted(list) = f[m]
  BY DEF Sorted
<1>2. m \in Nat /\ m \in 0..m /\ m \in 0..Len(list)
  OBVIOUS
<1>3. Sorting(f, list, m)
  BY <1>2, SortingChosen
<1>4. ToSet(list) = FirstKeys(list, m)
  BY DEF ToSet, FirstKeys
<1>. HIDE DEF f, m
<1>5. \A n \in 0..m : /\ KeySeq(f[n]) /\ Len(f[n]) = n
                      /\ ToSet(f[n]) = FirstKeys(list, n)
  BY <1>2, <1>3, SortingIs
<1>. QED  BY <1>1, <1>2, <1>4, <1>5 DEF m

LEMMA SortedAscending ==
  ASSUME NEW list, KeySeq(list)
  PROVE  /\ Sorted(list) = list
         /\ \A key \in AllKeys : Sorted(Append(list, key)) = Insert(list, key)
<1>. DEFINE m == Len(list)
<1>1. /\ list \in Seq(AllKeys) /\ m \in Nat /\ m \in 0..m
      /\ \A i, j \in 1..m : i <= j => list[i] <= list[j]
  BY DEF KeySeq, Ascending
<1>2. ASSUME NEW longer \in Seq(AllKeys), m \in 0..Len(longer),
             \A j \in 1..m : longer[j] = list[j],
             NEW f, Sorting(f, longer, Len(longer))
      PROVE  f[m] = list
  <2>1. Sorting(f, longer, m)
    BY <1>2 DEF Sorting
  <2>2. \A i, j \in 1..m : i <= j => longer[i] <= longer[j]
    BY <1>1, <1>2
  <2>3. \A n \in 0..m : \A j \in 1..n : f[n][j] = longer[j]
    BY <1>2, <2>1, <2>2, SortingAscending
  <2>4. KeySeq(f[m]) /\ Len(f[m]) = m
    BY <1>1, <1>2, <2>1, SortingIs
  <2>5. f[m] \in Seq(AllKeys) /\ \A j \in 1..m : f[m][j] = list[j]
    BY <1>1, <1>2, <2>3, <2>4 DEF KeySeq
  <2>. QED  BY <1>1, <2>4, <2>5, SeqEqual
<1>3. ASSUME NEW any \in Seq(AllKeys)
      PROVE  \E f : Sorting(f, any, Len(any)) /\ Sorted(any) = f[Len(any)]
  <2>. DEFINE k == Len(any)
              f == CHOOSE f : f = [n \in 0..k |-> IF n = 0 THEN <<>> ELSE Insert(f[n - 1], any[n])]
  <2>1. Sorted(any) = f[k]
    BY DEF Sorted
  <2>2. k \in Nat
    OBVIOUS
  <2>3. Sorting(f, any, k)
    BY <2>2, SortingChosen
  <2>. QED  BY <2>1, <2>3
<1>4. Sorted(list) = list
  <2>1. PICK f : Sorting(f, list, Len(list)) /\ Sorted(list) = f[Len(list)]
    BY <1>1, <1>3
  <2>. QED  BY <1>1, <1>2, <2>1
<1>5. ASSUME NEW key \in AllKeys  PROVE Sorted(Append(list, key)) = Insert(list, key)
  <2>. DEFINE longer == Append(list, key)
  <2>1. /\ longer \in Seq(AllKeys) /\ Len(longer) = m + 1
        /\ longer[m + 1] = key /\ \A j \in 1..m : longer[j] = list[j]
    BY <1>1
  <2>. HIDE DEF longer
  <2>2. PICK f : Sorting(f, longer, Len(longer)) /\ Sorted(longer) = f[Len(longer)]
    BY <1>3, <2>1
  <2>3. f[m] = list
    BY <1>1, <1>2, <2>1, <2>2
  <2>4. m + 1 \in 1..Len(longer) /\ (m + 1) - 1 = m
    BY <1>1, <2>1
  <2>5. f[m + 1] = Insert(f[(m + 1) - 1], longer[m + 1])
    BY <2>2, <2>4 DEF Sorting
  <2>. QED  BY <2>1, <2>2, <2>3, <2>4, <2>5 DEF longer
<1>. QED  BY <1>4, <1>5

-----------------------------------------------------------------------------
(* Every leaf can be shown.                                                  *)

LEMMA PrependIs ==
  ASSUME NEW S, NEW s \in Seq(S), NEW e
  PROVE  /\ <<e>> \o s \in Seq(S \cup {e})
         /\ Len(<<e>> \o s) = Len(s) + 1
         /\ (<<e>> \o s)[1] = e
         /\ \A n \in 1..Len(s) : (<<e>> \o s)[n + 1] = s[n]
<1>. DEFINE T == S \cup {e}
            one == <<e>>
<1>1. one \in Seq(T) /\ Len(one) = 1 /\ one[1] = e
  OBVIOUS
<1>2. s \in Seq(T)
  <2>1. S \subseteq T
    OBVIOUS
  <2>. QED  BY <2>1, SeqMonotonic
<1>. HIDE DEF T, one
<1>3. /\ one \o s \in Seq(T) /\ Len(one \o s) = Len(one) + Len(s)
      /\ \A n \in 1..Len(one) + Len(s) :
           (one \o s)[n] = IF n <= Len(one) THEN one[n] ELSE s[n - Len(one)]
  BY <1>1, <1>2, ConcatProperties
<1>4. Len(s) \in Nat
  OBVIOUS
<1>5. Len(one \o s) = Len(s) + 1 /\ (one \o s)[1] = e
  BY <1>1, <1>3, <1>4
<1>6. ASSUME NEW n \in 1..Len(s)  PROVE (one \o s)[n + 1] = s[n]
  <2>1. n + 1 \in 1..Len(one) + Len(s) /\ ~ (n + 1 <= Len(one)) /\ (n + 1) - Len(one) = n
    BY <1>1, <1>4
  <2>. QED  BY <1>3, <2>1
<1>. QED  BY <1>3, <1>5, <1>6 DEF T, one

\* A proof leads from a hash to another.
LeadsTo(hash, proof, goal) ==
  \E c : /\ c[0] = hash
         /\ \A n \in 1..Len(proof) : c[n] = Joined(c[n - 1], proof[n])
         /\ c[Len(proof)] = goal

LEMMA LeadsFurther ==
  ASSUME NEW S, NEW s \in Seq(S), NEW e, NEW hash, NEW goal,
         LeadsTo(Joined(hash, e), s, goal)
  PROVE  LeadsTo(hash, <<e>> \o s, goal)
<1>. DEFINE longer == <<e>> \o s
<1>1. /\ Len(longer) = Len(s) + 1 /\ longer[1] = e
      /\ \A n \in 1..Len(s) : longer[n + 1] = s[n]
  BY PrependIs
<1>2. Len(s) \in Nat
  OBVIOUS
<1>. HIDE DEF longer
<1>3. PICK c : /\ c[0] = Joined(hash, e)
               /\ \A n \in 1..Len(s) : c[n] = Joined(c[n - 1], s[n])
               /\ c[Len(s)] = goal
  BY DEF LeadsTo
<1>. DEFINE d == [n \in 0..Len(s) + 1 |-> IF n = 0 THEN hash ELSE c[n - 1]]
<1>4. d[0] = hash /\ d[Len(longer)] = goal
  BY <1>1, <1>2, <1>3
<1>5. ASSUME NEW n \in 1..Len(longer)  PROVE d[n] = Joined(d[n - 1], longer[n])
  <2>1. d[n] = c[n - 1] /\ n \in 1..Len(s) + 1
    BY <1>1, <1>2
  <2>2. CASE n = 1
    <3>1. d[n - 1] = hash /\ d[n] = c[0]
      BY <1>2, <2>1, <2>2
    <3>. QED  BY <1>1, <1>3, <2>2, <3>1
  <2>3. CASE n # 1
    <3>1. n - 1 \in 1..Len(s) /\ (n - 1) + 1 = n /\ (n - 1) - 1 = n - 2
      BY <1>2, <2>1, <2>3
    <3>2. d[n - 1] = c[(n - 1) - 1]
      BY <1>2, <3>1
    <3>3. longer[n] = s[n - 1]
      BY <1>1, <3>1
    <3>4. c[n - 1] = Joined(c[(n - 1) - 1], s[n - 1])
      BY <1>3, <3>1
    <3>. QED  BY <2>1, <3>2, <3>3, <3>4
  <2>. QED  BY <2>2, <2>3
<1>. HIDE DEF d
<1>6. LeadsTo(hash, longer, goal)
  BY <1>4, <1>5 DEF LeadsTo
<1>. QED  BY <1>6 DEF longer

LEMMA LeadsToRoot ==
  ASSUME NEW value, NEW proof, Len(proof) \in Nat, NEW goal,
         LeadsTo(HashLeaf(value), proof, goal)
  PROVE  ComputedHash(value, proof) = goal
<1>. DEFINE m == Len(proof)
<1>1. PICK r : Hashing(r, value, proof, m) /\ ComputedHash(value, proof) = r[m]
  BY ComputedHashIs
<1>2. PICK c : /\ c[0] = HashLeaf(value)
               /\ \A n \in 1..m : c[n] = Joined(c[n - 1], proof[n])
               /\ c[m] = goal
  BY DEF LeadsTo
<1>. DEFINE S == {n \in 0..m : r[n] = c[n]}
<1>3. 0 \in S
  BY <1>1, <1>2 DEF Hashing
<1>4. ASSUME NEW n \in 1..m, n - 1 \in S  PROVE n \in S
  <2>1. r[n] = Joined(r[n - 1], proof[n]) /\ c[n] = Joined(c[n - 1], proof[n])
    BY <1>1, <1>2 DEF Hashing
  <2>. QED  BY <1>4, <2>1
<1>5. m \in Nat
  OBVIOUS
<1>. HIDE DEF S, m
<1>6. \A n \in 0..m : n \in S
  BY <1>3, <1>4, <1>5, UpTo
<1>7. m \in S
  BY <1>5, <1>6
<1>. QED  BY <1>1, <1>2, <1>7 DEF S

\* The position of a longer proof.
LEMMA IndexFurther ==
  ASSUME NEW S, NEW s \in Seq(S), NEW e
  PROVE  Index(<<e>> \o s) = 2 * Index(s) + Bit(e)
<1>. DEFINE longer == <<e>> \o s
            m == Len(s)
<1>1. /\ Len(longer) = m + 1 /\ longer[1] = e
      /\ \A n \in 1..m : longer[n + 1] = s[n]
  BY PrependIs
<1>2. m \in Nat
  OBVIOUS
<1>. HIDE DEF longer
<1>3. PICK a : Indexing(a, s, m) /\ Index(s) = a[m]
  BY <1>2, IndexIs
<1>4. PICK b : Indexing(b, longer, m + 1) /\ Index(longer) = b[m + 1]
  <2>1. Len(longer) \in Nat
    BY <1>1, <1>2
  <2>. QED  BY <1>1, <2>1, IndexIs
<1>. DEFINE T == {n \in 0..m : a[n] = b[n]}
<1>5. 0 \in T
  BY <1>2, <1>3, <1>4 DEF Indexing
<1>6. ASSUME NEW n \in 1..m, n - 1 \in T  PROVE n \in T
  <2>1. a[n] = 2 * a[n - 1] + Bit(s[m - n + 1])
    BY <1>3 DEF Indexing
  <2>2. n \in 1..m + 1 /\ m - n + 1 \in 1..m /\ (m + 1) - n + 1 = (m - n + 1) + 1
    BY <1>2
  <2>3. b[n] = 2 * b[n - 1] + Bit(longer[(m + 1) - n + 1])
    BY <1>1, <1>4, <2>2 DEF Indexing
  <2>4. longer[(m + 1) - n + 1] = s[m - n + 1]
    BY <1>1, <2>2
  <2>. QED  BY <1>6, <2>1, <2>3, <2>4
<1>. HIDE DEF T, m
<1>7. \A n \in 0..m : n \in T
  BY <1>2, <1>5, <1>6, UpTo
<1>8. a[m] = b[m]
  BY <1>2, <1>7 DEF T
<1>9. b[m + 1] = 2 * b[m] + Bit(longer[1])
  <2>1. m + 1 \in 1..m + 1 /\ (m + 1) - 1 = m /\ (m + 1) - (m + 1) + 1 = 1
    BY <1>2
  <2>2. b[m + 1] = 2 * b[(m + 1) - 1] + Bit(longer[(m + 1) - (m + 1) + 1])
    BY <1>1, <1>4, <2>1 DEF Indexing
  <2>. QED  BY <2>1, <2>2
<1>. QED  BY <1>1, <1>3, <1>4, <1>8, <1>9 DEF longer

LEMMA LastIndexFurther ==
  ASSUME NEW S, NEW s \in Seq(S), NEW e
  PROVE  LastIndex(<<e>> \o s) = 2 * LastIndex(s) + 1
<1>. DEFINE longer == <<e>> \o s
            m == Len(s)
<1>1. Len(longer) = m + 1
  BY PrependIs
<1>2. m \in Nat
  OBVIOUS
<1>. HIDE DEF longer
<1>3. PICK w : /\ w[0] = 0 /\ \A n \in 1..m : w[n] = 2 * w[n - 1] + 1
               /\ \A p : Len(p) = m => LastIndex(p) = w[m]
  BY <1>2, Rightmost
<1>4. PICK v : /\ v[0] = 0 /\ \A n \in 1..m + 1 : v[n] = 2 * v[n - 1] + 1
               /\ \A p : Len(p) = m + 1 => LastIndex(p) = v[m + 1]
  <2>1. m + 1 \in Nat
    BY <1>2
  <2>. QED  BY <2>1, Rightmost
<1>. DEFINE T == {n \in 0..m : w[n] = v[n]}
<1>5. 0 \in T
  BY <1>2, <1>3, <1>4
<1>6. ASSUME NEW n \in 1..m, n - 1 \in T  PROVE n \in T
  <2>1. w[n] = 2 * w[n - 1] + 1
    BY <1>3
  <2>2. n \in 1..m + 1
    BY <1>2
  <2>3. v[n] = 2 * v[n - 1] + 1
    BY <1>4, <2>2
  <2>. QED  BY <1>6, <2>1, <2>3
<1>. HIDE DEF T
<1>7. \A n \in 0..m : n \in T
  BY <1>2, <1>5, <1>6, UpTo
<1>8. w[m] = v[m]
  BY <1>2, <1>7 DEF T
<1>9. v[m + 1] = 2 * v[m] + 1
  <2>1. m + 1 \in 1..m + 1 /\ (m + 1) - 1 = m
    BY <1>2
  <2>. QED  BY <1>4, <2>1
<1>10. LastIndex(s) = w[m]
  BY <1>3
<1>11. LastIndex(longer) = v[m + 1]
  BY <1>1, <1>4
<1>. QED  BY <1>8, <1>9, <1>10, <1>11 DEF longer

\* r has the first m sets of opened hashes.
Openings(r, hash, m) ==
  /\ r[0] = {[top |-> hash, proof |-> <<>>]}
  /\ \A n \in 1..m : r[n] = Opened(r[n - 1])

\* The definition is not vacuous: there are such values for every m.
LEMMA OpeningsExist ==
  ASSUME NEW hash, NEW m \in Nat
  PROVE  \E r : Openings(r, hash, m)
<1>. DEFINE T == {k \in Nat : ~ \E r : Openings(r, hash, k)}
<1>1. SUFFICES T = {}
  OBVIOUS
<1>2. SUFFICES ASSUME T # {}  PROVE FALSE
  OBVIOUS
<1>3. T \subseteq Nat
  OBVIOUS
<1>4. PICK k \in T : \A j \in T : ~ (<<j, k>> \in OpToRel(<, Nat))
  <2>. HIDE DEF T
  <2>. QED  BY <1>2, <1>3, NatLessThanWellFounded, WFMin
<1>5. \A j \in T : ~ (j < k)
  BY <1>3, <1>4 DEF OpToRel
<1>6. CASE k = 0
  <2>. DEFINE s == [n \in 0..0 |-> {[top |-> hash, proof |-> <<>>]}]
  <2>1. Openings(s, hash, 0)
    BY DEF Openings
  <2>. QED  BY <1>4, <1>6, <2>1
<1>7. CASE k # 0
  <2>1. k \in Nat /\ k - 1 \in Nat /\ k - 1 \notin T
    BY <1>3, <1>5, <1>7
  <2>2. PICK r : Openings(r, hash, k - 1)
    BY <2>1
  <2>. DEFINE s == [n \in 0..k |-> IF n = k THEN Opened(r[k - 1]) ELSE r[n]]
  <2>3. s[0] = {[top |-> hash, proof |-> <<>>]}
    BY <1>7, <2>1, <2>2 DEF Openings
  <2>4. ASSUME NEW n \in 1..k  PROVE s[n] = Opened(s[n - 1])
    <3>1. CASE n = k
      <4>1. s[n] = Opened(r[k - 1]) /\ s[n - 1] = r[k - 1]
        BY <2>1, <3>1
      <4>. QED  BY <3>1, <4>1
    <3>2. CASE n # k
      <4>1. s[n] = r[n] /\ s[n - 1] = r[n - 1] /\ n \in 1..(k - 1)
        BY <2>1, <3>2
      <4>2. r[n] = Opened(r[n - 1])
        BY <2>2, <4>1 DEF Openings
      <4>. QED  BY <4>1, <4>2
    <3>. QED  BY <3>1, <3>2
  <2>. HIDE DEF s
  <2>5. Openings(s, hash, k)
    BY <2>3, <2>4 DEF Openings
  <2>. QED  BY <1>4, <2>5
<1>. QED  BY <1>6, <1>7

LEMMA OpeningsChosen ==
  ASSUME NEW hash, NEW m \in Nat, NEW f,
         f = CHOOSE q : q = [n \in 0..m |-> IF n = 0 THEN {[top |-> hash, proof |-> <<>>]} ELSE Opened(q[n - 1])]
  PROVE  Openings(f, hash, m)
<1>1. PICK r : Openings(r, hash, m)
  BY OpeningsExist
<1>. DEFINE g == [n \in 0..m |-> r[n]]
            next(n) == IF n = 0 THEN {[top |-> hash, proof |-> <<>>]} ELSE Opened(f[n - 1])
<1>2. \A n \in 0..m : g[n] = IF n = 0 THEN {[top |-> hash, proof |-> <<>>]} ELSE Opened(g[n - 1])
  <2>. SUFFICES ASSUME NEW n \in 0..m
                PROVE  g[n] = IF n = 0 THEN {[top |-> hash, proof |-> <<>>]} ELSE Opened(g[n - 1])
    OBVIOUS
  <2>1. CASE n = 0
    BY <1>1, <2>1 DEF Openings
  <2>2. CASE n # 0
    <3>1. n \in 1..m /\ n - 1 \in 0..m
      BY <2>2
    <3>2. g[n] = r[n] /\ g[n - 1] = r[n - 1]
      BY <3>1
    <3>3. r[n] = Opened(r[n - 1])
      BY <1>1, <3>1 DEF Openings
    <3>. QED  BY <2>2, <3>2, <3>3
  <2>. QED  BY <2>1, <2>2
<1>3. g = [n \in 0..m |-> g[n]]
  OBVIOUS
<1>. HIDE DEF g
<1>4. g = [n \in 0..m |-> IF n = 0 THEN {[top |-> hash, proof |-> <<>>]} ELSE Opened(g[n - 1])]
  BY <1>2, <1>3
<1>5. f = [n \in 0..m |-> IF n = 0 THEN {[top |-> hash, proof |-> <<>>]} ELSE Opened(f[n - 1])]
  BY <1>4
<1>6. f = [n \in 0..m |-> next(n)]
  BY <1>5
<1>7. next(0) = {[top |-> hash, proof |-> <<>>]} /\ \A n \in 1..m : next(n) = Opened(f[n - 1])
  OBVIOUS
<1>. HIDE DEF next
<1>8. \A n \in 0..m : f[n] = next(n)
  BY <1>6
<1>9. 0 \in 0..m /\ \A n \in 1..m : n \in 0..m
  OBVIOUS
<1>. QED  BY <1>7, <1>8, <1>9 DEF Openings

AllOpened(r, m) == {o.proof : o \in UNION {r[d] : d \in 0..m}}

LEMMA ProofsToAre ==
  ASSUME NEW hash, NEW m \in Nat
  PROVE  \E r : /\ Openings(r, hash, m)
                /\ ProofsTo(hash, m) = AllOpened(r, m)
<1>. DEFINE f == CHOOSE f : f = [d \in 0..m |-> IF d = 0 THEN {[top |-> hash, proof |-> <<>>]}
                                                ELSE Opened(f[d - 1])]
<1>1. ProofsTo(hash, m) = AllOpened(f, m)
  BY DEF ProofsTo, AllOpened
<1>2. Openings(f, hash, m)
  BY OpeningsChosen
<1>. HIDE DEF f
<1>. QED  BY <1>1, <1>2

\* A hash that has been opened, with the proof that leads to the root from it.
IsOpened(o, hash, goal, i, n) ==
  /\ o.top = hash
  /\ \E S : o.proof \in Seq(S)
  /\ Len(o.proof) = n
  /\ LeadsTo(o.top, o.proof, goal)
  /\ Index(o.proof) = i

\* Every proof found by opening a hash is a sequence.
LEMMA OpenedProofs ==
  ASSUME NEW hash, NEW m \in Nat, NEW proof \in ProofsTo(hash, m)
  PROVE  Len(proof) \in Nat
<1>1. PICK r : /\ Openings(r, hash, m)
               /\ ProofsTo(hash, m) = AllOpened(r, m)
  BY ProofsToAre
<1>. DEFINE T == {d \in 0..m : \A o \in r[d] : \E S : o.proof \in Seq(S)}
<1>2. 0 \in T
  <2>1. r[0] = {[top |-> hash, proof |-> <<>>]}
    BY <1>1 DEF Openings
  <2>2. <<>> \in Seq({})
    OBVIOUS
  <2>3. ASSUME NEW o \in r[0]  PROVE \E S : o.proof \in Seq(S)
    <3>1. o.proof = <<>>
      BY <2>1
    <3>. QED  BY <2>2, <3>1
  <2>. QED  BY <2>3
<1>3. ASSUME NEW d \in 1..m, d - 1 \in T  PROVE d \in T
  <2>1. r[d] = Opened(r[d - 1])
    BY <1>1 DEF Openings
  <2>2. SUFFICES ASSUME NEW o \in r[d]  PROVE \E S : o.proof \in Seq(S)
    OBVIOUS
  <2>3. PICK p \in r[d - 1], on_right \in BOOLEAN : o = Opening(p, on_right)
    BY <2>1 DEF Opened
  <2>4. PICK S : p.proof \in Seq(S)
    BY <1>3
  <2>5. PICK e : o.proof = <<e>> \o p.proof
    BY <2>3 DEF Opening
  <2>6. <<e>> \o p.proof \in Seq(S \cup {e})
    BY <2>4, PrependIs
  <2>. QED  BY <2>5, <2>6
<1>. HIDE DEF T
<1>4. \A d \in 0..m : d \in T
  BY <1>2, <1>3, UpTo
<1>5. PICK d \in 0..m : \E o \in r[d] : proof = o.proof
  BY <1>1 DEF AllOpened
<1>6. \E S : proof \in Seq(S)
  BY <1>4, <1>5 DEF T
<1>. QED  BY <1>6

\* The child of an opened node, opened.
IsOpenedChild(q, o, nodes, j, goal, i, n, e) ==
  /\ IsOpened(q, nodes[Child(Len(nodes), j, e)], goal, 2 * i + Bit(e), n + 1)
  /\ LastIndex(q.proof) = 2 * LastIndex(o.proof) + 1

\* Opening a node of a tree leads to its children.
LEMMA OpenedBelow ==
  ASSUME NEW nodes, Len(nodes) \in Nat \ {0}, NEW j \in 1..Len(Parents(nodes)),
         NEW some, NEW o \in some, NEW goal, NEW i, NEW n,
         IsOpened(o, Parents(nodes)[j], goal, i, n), NEW on_right \in BOOLEAN
  PROVE  \E q \in Opened(some) :
           IsOpenedChild(q, o, nodes, j, goal, i, n, ProofElement(<<>>, on_right))
<1>. DEFINE len == Len(nodes)
            bare == ProofElement(<<>>, on_right)
            half == IF on_right THEN 1 ELSE 2
            e == ProofElement(o.top[3 - half], on_right)
            q == Opening(o, on_right)
<1>1. o.top = HashNode(nodes[2 * j - 1], IF 2 * j <= len THEN nodes[2 * j] ELSE nodes[2 * j - 1])
  BY ParentsAre DEF IsOpened
<1>2. q \in Opened(some)
  <2>1. IsNode(o.top)
    BY <1>1 DEF IsNode, HashNode
  <2>. QED  BY <2>1 DEF Opened
<1>3. q.top = o.top[half] /\ q.proof = <<e>> \o o.proof
  BY DEF Opening
<1>4. Joined(q.top, e) = o.top
  <2>1. o.top = <<o.top[1], o.top[2]>>
    BY <1>1 DEF HashNode
  <2>2. e.on_right = on_right /\ e.node = o.top[3 - half]
    BY DEF ProofElement
  <2>3. CASE on_right
    BY <1>3, <2>1, <2>2, <2>3 DEF Joined, HashNode
  <2>4. CASE ~ on_right
    BY <1>3, <2>1, <2>2, <2>4 DEF Joined, HashNode
  <2>. QED  BY <2>3, <2>4
<1>5. q.top = nodes[Child(len, j, bare)]
  <2>1. j \in Nat /\ len \in Nat /\ 2 * j - 1 \in Nat
    BY ParentsAre
  <2>2. CASE on_right
    <3>1. Child(len, j, bare) = 2 * j - 1
      BY <2>2 DEF Child, ProofElement
    <3>2. q.top = nodes[2 * j - 1]
      BY <1>1, <1>3, <2>2 DEF HashNode
    <3>. QED  BY <3>1, <3>2
  <2>3. CASE ~ on_right
    <3>1. Child(len, j, bare) = IF 2 * j > len THEN 2 * j - 1 ELSE 2 * j
      BY <2>3 DEF Child, ProofElement
    <3>2. q.top = IF 2 * j <= len THEN nodes[2 * j] ELSE nodes[2 * j - 1]
      BY <1>1, <1>3, <2>3 DEF HashNode
    <3>. QED  BY <2>1, <3>1, <3>2
  <2>. QED  BY <2>2, <2>3
<1>6. Bit(e) = Bit(bare)
  BY DEF Bit, ProofElement
<1>7. PICK S : o.proof \in Seq(S)
  BY DEF IsOpened
<1>. HIDE DEF len, bare, e, q
<1>8. /\ q.proof \in Seq(S \cup {e}) /\ Len(q.proof) = n + 1
  BY <1>3, <1>7, PrependIs DEF IsOpened
<1>9. LeadsTo(q.top, q.proof, goal)
  BY <1>3, <1>4, <1>7, LeadsFurther DEF IsOpened
<1>10. Index(q.proof) = 2 * i + Bit(bare)
  BY <1>3, <1>6, <1>7, IndexFurther DEF IsOpened
<1>11. LastIndex(q.proof) = 2 * LastIndex(o.proof) + 1
  BY <1>3, <1>7, LastIndexFurther
<1>12. IsOpened(q, nodes[Child(len, j, bare)], goal, 2 * i + Bit(bare), n + 1)
  BY <1>5, <1>8, <1>9, <1>10 DEF IsOpened
<1>13. IsOpenedChild(q, o, nodes, j, goal, i, n, bare)
  BY <1>11, <1>12 DEF IsOpenedChild, len
<1>. QED  BY <1>2, <1>13 DEF bare

\* Every node of a tree is opened from its root, under its position; the last of
\* a level also under the rightmost position.
LEMMA OpenedLevels ==
  ASSUME NEW nodes, NEW h \in Nat, NEW r, IsTree(r, nodes, h), NEW m \in Nat, h <= m,
         NEW opened, Openings(opened, r[h][1], m)
  PROVE  \A t \in 0..h :
           /\ \A j \in 1..Len(r[h - t]) :
                \E o \in opened[t] : IsOpened(o, r[h - t][j], r[h][1], j - 1, t)
           /\ \E o \in opened[t] :
                IsOpened(o, r[h - t][Len(r[h - t])], r[h][1], LastIndex(o.proof), t)
<1>. DEFINE goal == r[h][1]
            Every(t) == \A j \in 1..Len(r[h - t]) :
                          \E o \in opened[t] : IsOpened(o, r[h - t][j], goal, j - 1, t)
            Final(t) == \E o \in opened[t] :
                          IsOpened(o, r[h - t][Len(r[h - t])], goal, LastIndex(o.proof), t)
            S == {t \in 0..h : Every(t) /\ Final(t)}
<1>1. 0 \in S
  <2>. DEFINE o == [top |-> goal, proof |-> <<>>]
  <2>1. o \in opened[0] /\ o.top = goal /\ o.proof = <<>>
    BY DEF Openings
  <2>2. Len(<<>>) = 0 /\ <<>> \in Seq({})
    OBVIOUS
  <2>3. LeadsTo(goal, <<>>, goal)
    <3>. DEFINE c == [n \in 0..0 |-> goal]
    <3>1. c[0] = goal /\ \A n \in 1..Len(<<>>) : c[n] = Joined(c[n - 1], <<>>[n])
      BY <2>2
    <3>. HIDE DEF c
    <3>. QED  BY <2>2, <3>1 DEF LeadsTo
  <2>4. Index(<<>>) = 0
    <3>1. \E a : Indexing(a, <<>>, Len(<<>>)) /\ Index(<<>>) = a[Len(<<>>)]
      BY <2>2, IndexIs
    <3>. QED  BY <2>2, <3>1 DEF Indexing
  <2>5. LastIndex(<<>>) = 0
    <3>1. \E w : w[0] = 0 /\ \A p : Len(p) = 0 => LastIndex(p) = w[0]
      BY Rightmost
    <3>. QED  BY <2>2, <3>1
  <2>6. h - 0 = h /\ Len(r[h]) = 1
    BY DEF IsTree
  <2>. HIDE DEF o, goal
  <2>7. IsOpened(o, goal, goal, 0, 0)
    BY <2>1, <2>2, <2>3, <2>4 DEF IsOpened
  <2>8. Every(0)
    <3>. SUFFICES ASSUME NEW j \in 1..1
                  PROVE  \E p \in opened[0] : IsOpened(p, r[h][j], goal, j - 1, 0)
      BY <2>6
    <3>1. j = 1 /\ j - 1 = 0
      OBVIOUS
    <3>. QED  BY <2>1, <2>7, <3>1 DEF goal
  <2>9. Final(0)
    <3>1. IsOpened(o, r[h][Len(r[h])], goal, LastIndex(o.proof), 0)
      BY <2>1, <2>5, <2>6, <2>7 DEF goal
    <3>. QED  BY <2>1, <2>6, <3>1
  <2>. QED  BY <2>8, <2>9
<1>2. ASSUME NEW t \in 1..h, t - 1 \in S  PROVE t \in S
  <2>. DEFINE below == r[h - t]
              len == Len(below)
  <2>1. /\ h - (t - 1) = h - t + 1 /\ h - t + 1 \in 1..h /\ h - t \in 0..h
        /\ (h - t + 1) - 1 = h - t /\ t \in 1..m /\ t - 1 \in Nat /\ (t - 1) + 1 = t
    OBVIOUS
  <2>2. r[h - t + 1] = Parents(below) /\ len \in Nat \ {0}
    <3>1. r[h - t + 1] = Parents(r[(h - t + 1) - 1])
      BY <2>1 DEF IsTree
    <3>. QED  BY <2>1, <3>1 DEF IsTree
  <2>3. opened[t] = Opened(opened[t - 1])
    BY <2>1 DEF Openings
  <2>4. /\ Len(Parents(below)) \in Nat \ {0}
        /\ 2 * Len(Parents(below)) \in {len, len + 1}
    BY <2>2, ParentsAre
  <2>. HIDE DEF goal
  <2>5. /\ \A j \in 1..Len(Parents(below)) :
             \E o \in opened[t - 1] : IsOpened(o, Parents(below)[j], goal, j - 1, t - 1)
        /\ \E o \in opened[t - 1] :
             IsOpened(o, Parents(below)[Len(Parents(below))], goal, LastIndex(o.proof), t - 1)
    BY <1>2, <2>1, <2>2
  <2>. HIDE DEF below, len
  <2>6. ASSUME NEW j \in 1..len
        PROVE  \E o \in opened[t] : IsOpened(o, below[j], goal, j - 1, t)
    <3>. DEFINE on_right == j % 2 = 1
                up == (j + 1) \div 2
                e == ProofElement(<<>>, on_right)
    <3>1. up \in 1..Len(Parents(below))
      BY <2>2, <2>4
    <3>2. Child(len, up, e) = j /\ 2 * (up - 1) + Bit(e) = j - 1
      <4>1. e.on_right = on_right
        BY DEF ProofElement
      <4>. HIDE DEF e
      <4>2. CASE on_right
        <5>1. 2 * up - 1 = j /\ 2 * (up - 1) = j - 1
          BY <2>2, <4>2
        <5>. HIDE DEF up, on_right
        <5>2. Bit(e) = 0 /\ Child(len, up, e) = 2 * up - 1
          BY <4>1, <4>2, <5>1 DEF Child, Bit
        <5>. QED  BY <5>1, <5>2
      <4>3. CASE ~ on_right
        <5>1. 2 * up = j /\ 2 * (up - 1) + 1 = j - 1 /\ ~ (2 * up > len)
          BY <2>2, <4>3
        <5>. HIDE DEF up, on_right
        <5>2. Bit(e) = 1 /\ Child(len, up, e) = 2 * up
          BY <4>1, <4>3, <5>1 DEF Child, Bit
        <5>. QED  BY <5>1, <5>2
      <4>. QED  BY <4>2, <4>3
    <3>3. on_right \in BOOLEAN
      OBVIOUS
    <3>. HIDE DEF on_right, up
    <3>4. PICK o \in opened[t - 1] : IsOpened(o, Parents(below)[up], goal, up - 1, t - 1)
      BY <2>5, <3>1
    <3>5. PICK q \in Opened(opened[t - 1]) :
             IsOpenedChild(q, o, below, up, goal, up - 1, t - 1, e)
      BY <2>2, <3>1, <3>3, <3>4, OpenedBelow DEF len
    <3>. HIDE DEF e
    <3>. QED  BY <2>1, <2>3, <3>2, <3>5 DEF IsOpenedChild, len
  <2>7. \E o \in opened[t] : IsOpened(o, below[len], goal, LastIndex(o.proof), t)
    <3>0. PICK on_right \in BOOLEAN : ~ on_right
      OBVIOUS
    <3>. DEFINE e == ProofElement(<<>>, on_right)
                up == Len(Parents(below))
    <3>1. PICK o \in opened[t - 1] :
             IsOpened(o, Parents(below)[up], goal, LastIndex(o.proof), t - 1)
      BY <2>5
    <3>2. Child(len, up, e) = len /\ Bit(e) = 1
      BY <2>2, <2>4, <3>0 DEF Child, Bit, ProofElement
    <3>3. up \in 1..up
      BY <2>4
    <3>. HIDE DEF up
    <3>4. PICK q \in Opened(opened[t - 1]) :
             IsOpenedChild(q, o, below, up, goal, LastIndex(o.proof), t - 1, e)
      BY <2>2, <3>1, <3>3, OpenedBelow DEF len, up
    <3>. HIDE DEF e
    <3>. QED  BY <2>1, <2>3, <3>2, <3>4 DEF IsOpenedChild, len
  <2>. QED  BY <2>6, <2>7 DEF below, len
<1>. HIDE DEF Every, Final
<1>3. S = {t \in 0..h : Every(t) /\ Final(t)}
  OBVIOUS
<1>. HIDE DEF S
<1>4. \A t \in 0..h : t \in S
  BY <1>1, <1>2, UpTo
<1>. QED  BY <1>3, <1>4 DEF Every, Final, goal

-----------------------------------------------------------------------------
(* What can be shown under the root of a list of keys.                       *)

\* The proofs opened are long enough for the tree of a list.
Reached(raw) ==
  Len(tree) \in Nat /\ Len(Levels(Padded(Hashes(raw)))) <= Len(tree) + 1

\* Each key of the list can be shown at its place, and the last one at the
\* rightmost position.
LEMMA Shown ==
  ASSUME NEW raw, KeySeq(raw), Len(raw) # 0, Reached(raw), NEW top,
         top = RootOf(TreeOf(Hashes(raw)))
  PROVE  /\ \A i \in 1..Len(raw) :
              \E e \in Accepted(top) : e.key = raw[i] /\ Index(e.proof) = i - 1
         /\ \E e \in Accepted(top) :
              e.key = raw[Len(raw)] /\ Index(e.proof) = LastIndex(e.proof)
<1>. DEFINE nodes == Padded(Hashes(raw))
            len == Len(raw)
            m == Len(tree)
<1>1. len \in Nat \ {0} /\ m \in Nat /\ raw \in Seq(AllKeys)
  BY DEF KeySeq, Reached
<1>2. /\ Len(nodes) \in {len, len + 1}
      /\ \A j \in 1..Len(nodes) : nodes[j] = HashLeaf(raw[Kept(raw, j)])
  BY <1>1, PaddedIs
<1>3a. PICK h \in Nat : \E r : /\ IsTree(r, nodes, h) /\ top = r[h][1]
                               /\ Len(Levels(nodes)) = h + 1
  BY <1>1, RootIs
<1>3. PICK r : /\ IsTree(r, nodes, h) /\ top = r[h][1]
               /\ Len(Levels(nodes)) = h + 1
  BY <1>3a
<1>4. h <= m
  BY <1>1, <1>3 DEF Reached
<1>5. PICK opened : /\ Openings(opened, top, m)
                    /\ ProofsTo(top, m) = AllOpened(opened, m)
  BY <1>1, ProofsToAre
<1>. HIDE DEF nodes, m
<1>6. h \in 0..h /\ h \in 0..m /\ h - h = 0 /\ r[0] = nodes
  BY <1>1, <1>3, <1>4 DEF IsTree
<1>7. /\ \A j \in 1..Len(nodes) :
           \E o \in opened[h] : IsOpened(o, nodes[j], top, j - 1, h)
      /\ \E o \in opened[h] : IsOpened(o, nodes[Len(nodes)], top, LastIndex(o.proof), h)
  <2>1. /\ \A j \in 1..Len(r[h - h]) :
             \E o \in opened[h] : IsOpened(o, r[h - h][j], r[h][1], j - 1, h)
        /\ \E o \in opened[h] :
             IsOpened(o, r[h - h][Len(r[h - h])], r[h][1], LastIndex(o.proof), h)
    BY <1>1, <1>3, <1>4, <1>5, <1>6, OpenedLevels
  <2>. QED  BY <1>3, <1>6, <2>1
<1>8. ASSUME NEW i \in 1..len, NEW o \in opened[h], NEW x, IsOpened(o, HashLeaf(raw[i]), top, x, h)
      PROVE  [key |-> raw[i], proof |-> o.proof] \in Accepted(top)
  <2>1. ComputedHash(raw[i], o.proof) = top
    BY <1>8, LeadsToRoot DEF IsOpened
  <2>2. o.proof \in ProofsTo(top, m)
    BY <1>5, <1>6 DEF AllOpened
  <2>3. raw[i] \in AllKeys
    BY <1>1
  <2>. QED  BY <2>1, <2>2, <2>3 DEF Accepted, VerifyInTree, m
<1>9. ASSUME NEW i \in 1..len
      PROVE  \E e \in Accepted(top) : e.key = raw[i] /\ Index(e.proof) = i - 1
  <2>1. i \in 1..Len(nodes) /\ nodes[i] = HashLeaf(raw[i])
    BY <1>1, <1>2 DEF Kept
  <2>2. PICK o \in opened[h] : IsOpened(o, HashLeaf(raw[i]), top, i - 1, h)
    BY <1>7, <2>1
  <2>. DEFINE e == [key |-> raw[i], proof |-> o.proof]
  <2>3. e \in Accepted(top)
    BY <1>8, <2>2
  <2>4. e.key = raw[i] /\ Index(e.proof) = i - 1
    BY <2>2 DEF IsOpened
  <2>. QED  BY <2>3, <2>4
<1>10. \E e \in Accepted(top) : e.key = raw[len] /\ Index(e.proof) = LastIndex(e.proof)
  <2>1. Len(nodes) \in 1..Len(nodes) /\ Kept(raw, Len(nodes)) = len /\ len \in 1..len
    BY <1>1, <1>2 DEF Kept
  <2>2. nodes[Len(nodes)] = HashLeaf(raw[len])
    BY <1>2, <2>1
  <2>3. PICK o \in opened[h] : IsOpened(o, HashLeaf(raw[len]), top, LastIndex(o.proof), h)
    BY <1>7, <2>2
  <2>. DEFINE e == [key |-> raw[len], proof |-> o.proof]
  <2>4. e \in Accepted(top)
    BY <1>8, <2>1, <2>3
  <2>5. e.key = raw[len] /\ Index(e.proof) = LastIndex(e.proof)
    BY <2>3 DEF IsOpened
  <2>. QED  BY <2>4, <2>5
<1>. QED  BY <1>9, <1>10

LEMMA AcceptedIs ==
  ASSUME NEW raw, KeySeq(raw), Len(raw) # 0, Reached(raw), NEW top,
         top = RootOf(TreeOf(Hashes(raw))), NEW e \in Accepted(top)
  PROVE  /\ Len(e.proof) \in Nat /\ VerifyInTree(top, e.key, e.proof)
         /\ e.key \in ToSet(raw)
<1>1. /\ e.proof \in ProofsTo(top, Len(tree)) /\ VerifyInTree(top, e.key, e.proof)
      /\ Len(tree) \in Nat
  BY DEF Accepted, Reached
<1>2. Len(e.proof) \in Nat
  BY <1>1, OpenedProofs
<1>3. Len(raw) \in Nat \ {0} /\ raw \in Seq(AllKeys)
  BY DEF KeySeq
<1>4. \E i \in 1..Len(raw) : e.key = raw[i]
  BY <1>1, <1>2, <1>3, InclusionIsSound
<1>. QED  BY <1>1, <1>2, <1>3, <1>4 DEF ToSet

\* Inclusion of exactly the keys of the list can be shown, and absence of exactly
\* the others.
LEMMA InclusionExact ==
  ASSUME NEW raw, KeySeq(raw), Len(raw) # 0, Reached(raw), NEW top,
         top = RootOf(TreeOf(Hashes(raw)))
  PROVE  {e.key : e \in Accepted(top)} = ToSet(raw)
<1>1. ASSUME NEW e \in Accepted(top)  PROVE e.key \in ToSet(raw)
  BY AcceptedIs
<1>2. ASSUME NEW key \in ToSet(raw)  PROVE \E e \in Accepted(top) : e.key = key
  <2>1. PICK i \in 1..Len(raw) : key = raw[i]
    BY DEF ToSet, KeySeq
  <2>. QED  BY <2>1, Shown
<1>. QED  BY <1>1, <1>2

LEMMA ExclusionExact ==
  ASSUME NEW raw, KeySeq(raw), Len(raw) # 0, Reached(raw), NEW top,
         top = RootOf(TreeOf(Hashes(raw))), NEW key \in AllKeys
  PROVE  (\E e \in Evidence(Accepted(top)) : VerifyNotInTree(top, key, e.proofs, e.neighbors))
           <=> key \notin ToSet(raw)
<1>1. /\ raw \in Seq(AllKeys) /\ Len(raw) \in Nat \ {0} /\ key \in Nat
      /\ \A i \in 1..Len(raw) : raw[i] \in Nat
      /\ Ascending(raw)
  BY KeysAreNumbers DEF KeySeq, Ascending
<1>2. ASSUME NEW e \in Evidence(Accepted(top)),
             VerifyNotInTree(top, key, e.proofs, e.neighbors)
      PROVE  key \notin ToSet(raw)
  <2>1. \A i \in 1..Len(e.proofs) : Len(e.proofs[i]) \in Nat
    <3>1. CASE \E a \in Accepted(top) : e = OneNeighbor(a)
      <4>1. PICK a \in Accepted(top) : e = OneNeighbor(a)
        BY <3>1
      <4>2. Len(a.proof) \in Nat
        BY AcceptedIs
      <4>. QED  BY <4>1, <4>2 DEF OneNeighbor
    <3>2. CASE \E a, b \in Accepted(top) :
                 e = TwoNeighbors(a, b)
      <4>1. PICK a, b \in Accepted(top) :
                 e = TwoNeighbors(a, b)
        BY <3>2
      <4>2. Len(a.proof) \in Nat /\ Len(b.proof) \in Nat
        BY AcceptedIs
      <4>3. Len(e.proofs) = 2 /\ e.proofs[1] = a.proof /\ e.proofs[2] = b.proof
        BY <4>1 DEF TwoNeighbors
      <4>. QED  BY <4>2, <4>3
    <3>. QED  BY <3>1, <3>2 DEF Evidence
  <2>2. \A i \in 1..Len(raw) : key # raw[i]
    BY <1>1, <1>2, <2>1, ExclusionIsSound
  <2>. QED  BY <1>1, <2>2 DEF ToSet
<1>3. ASSUME NEW a \in Accepted(top),
             \/ key < a.key /\ Index(a.proof) = 0
             \/ key > a.key /\ Index(a.proof) = LastIndex(a.proof)
      PROVE  \E e \in Evidence(Accepted(top)) :
               VerifyNotInTree(top, key, e.proofs, e.neighbors)
  <2>. DEFINE e == OneNeighbor(a)
  <2>1. e \in Evidence(Accepted(top))
    BY DEF Evidence
  <2>2. VerifyInTree(top, a.key, a.proof)
    BY AcceptedIs
  <2>3. VerifyNotInTree(top, key, e.proofs, e.neighbors)
    BY <1>3, <2>2 DEF VerifyNotInTree, OneNeighbor
  <2>. QED  BY <2>1, <2>3
<1>4. ASSUME NEW a \in Accepted(top), NEW b \in Accepted(top),
             a.key < key, key < b.key, Adjacent(a.proof, b.proof)
      PROVE  \E e \in Evidence(Accepted(top)) :
               VerifyNotInTree(top, key, e.proofs, e.neighbors)
  <2>. DEFINE e == TwoNeighbors(a, b)
  <2>1. e \in Evidence(Accepted(top))
    BY DEF Evidence
  <2>2. VerifyInTree(top, a.key, a.proof) /\ VerifyInTree(top, b.key, b.proof)
    BY AcceptedIs
  <2>3. VerifyNotInTree(top, key, e.proofs, e.neighbors)
    BY <1>4, <2>2 DEF VerifyNotInTree, TwoNeighbors
  <2>. QED  BY <2>1, <2>3
<1>5. ASSUME key \notin ToSet(raw)
      PROVE  \E e \in Evidence(Accepted(top)) :
               VerifyNotInTree(top, key, e.proofs, e.neighbors)
  <2>1. \A i \in 1..Len(raw) : raw[i] # key
    BY <1>1, <1>5 DEF ToSet
  <2>2. CASE key < raw[1]
    <3>1. PICK a \in Accepted(top) : a.key = raw[1] /\ Index(a.proof) = 1 - 1
      BY <1>1, Shown
    <3>. QED  BY <1>3, <2>2, <3>1
  <2>3. CASE key > raw[Len(raw)]
    <3>1. PICK a \in Accepted(top) :
             a.key = raw[Len(raw)] /\ Index(a.proof) = LastIndex(a.proof)
      BY Shown
    <3>. QED  BY <1>3, <2>3, <3>1
  <2>4. CASE ~ (key < raw[1]) /\ ~ (key > raw[Len(raw)])
    <3>. DEFINE above == {i \in 1..Len(raw) : raw[i] > key}
                i == Min(above)
    <3>1. above \subseteq Nat /\ Len(raw) \in above
      BY <1>1, <2>1, <2>4
    <3>2. i \in above /\ \A j \in above : i <= j
      <4>. HIDE DEF above
      <4>. QED  BY <3>1, MinIs
    <3>3. i \in 1..Len(raw) /\ raw[i] > key
      BY <3>2
    <3>4. i # 1
      BY <1>1, <2>1, <2>4, <3>3
    <3>5. i - 1 \in 1..Len(raw) /\ i - 1 < i /\ i - 1 \notin above
      BY <1>1, <3>1, <3>2, <3>3, <3>4
    <3>6. raw[i - 1] < key
      BY <1>1, <2>1, <3>5
    <3>. HIDE DEF i, above
    <3>7. PICK a \in Accepted(top) : a.key = raw[i - 1] /\ Index(a.proof) = (i - 1) - 1
      BY <3>5, Shown
    <3>8. PICK b \in Accepted(top) : b.key = raw[i] /\ Index(b.proof) = i - 1
      BY <3>3, Shown
    <3>9. Adjacent(a.proof, b.proof) /\ a.key < key /\ key < b.key
      BY <1>1, <3>3, <3>6, <3>7, <3>8 DEF Adjacent
    <3>. QED  BY <1>4, <3>9
  <2>. QED  BY <2>2, <2>3, <2>4
<1>. QED  BY <1>2, <1>5

-----------------------------------------------------------------------------
(* The objects that addLeaf and removeLeaf leave behind.                     *)

Leaf == {HashLeaf(key) : key \in AllKeys}

\* The hashes begin with those of the keys, and fill whole pairs unless there is
\* at most one.  What stands after the keys' hashes can be anything: removing a
\* key from an odd number of them drops the last hash, whatever it is.
Holds(raw, hashes) ==
  /\ KeySeq(raw)
  /\ hashes \in Seq(Leaf)
  /\ Len(raw) <= Len(hashes)
  /\ \A i \in 1..Len(raw) : hashes[i] = HashLeaf(raw[i])
Paired(hashes) == Len(hashes) \in {0, 1} \/ ~ Odd(Len(hashes))

TreeInv ==
  /\ Holds(rawLeaves, leaves)
  /\ Paired(leaves)
  /\ tree = IF leaves = <<>> THEN <<>> ELSE Levels(leaves)
  /\ root = RootOf(tree)

LEMMA RepeatedHolds ==
  ASSUME NEW raw, NEW hashes, Holds(raw, hashes), Len(hashes) # 0
  PROVE  /\ Holds(raw, WithLastRepeated(hashes))
         /\ Len(WithLastRepeated(hashes)) = Len(hashes) + 1
<1>. DEFINE last == hashes[Len(hashes)]
            longer == Append(hashes, last)
<1>1. hashes \in Seq(Leaf) /\ Len(hashes) \in Nat \ {0} /\ Len(raw) \in Nat
  BY DEF Holds, KeySeq
<1>2. last \in Leaf
  BY <1>1
<1>3. WithLastRepeated(hashes) = longer
  BY DEF WithLastRepeated, Last
<1>. HIDE DEF last
<1>4. /\ longer \in Seq(Leaf) /\ Len(longer) = Len(hashes) + 1
      /\ \A i \in 1..Len(hashes) : longer[i] = hashes[i]
  BY <1>1, <1>2
<1>. HIDE DEF longer
<1>5. Holds(raw, longer)
  BY <1>1, <1>4 DEF Holds
<1>. QED  BY <1>3, <1>4, <1>5

LEMMA PaddedHolds ==
  ASSUME NEW raw, NEW hashes, Holds(raw, hashes)
  PROVE  /\ Holds(raw, Padded(hashes))
         /\ Paired(Padded(hashes))
         /\ Padded(hashes) = <<>> <=> hashes = <<>>
<1>1. hashes \in Seq(Leaf) /\ Len(hashes) \in Nat
  BY DEF Holds
<1>2. CASE Len(hashes) > 1 /\ Odd(Len(hashes))
  <2>. DEFINE longer == WithLastRepeated(hashes)
  <2>1. Padded(hashes) = longer
    BY <1>2 DEF Padded
  <2>2. Holds(raw, longer) /\ Len(longer) = Len(hashes) + 1
    BY <1>1, <1>2, RepeatedHolds
  <2>. HIDE DEF longer
  <2>3. Paired(longer)
    BY <1>1, <1>2, <2>2 DEF Paired, Odd
  <2>4. longer # <<>> /\ hashes # <<>>
    BY <1>1, <1>2, <2>2
  <2>. QED  BY <2>1, <2>2, <2>3, <2>4
<1>3. CASE ~ (Len(hashes) > 1 /\ Odd(Len(hashes)))
  <2>1. Padded(hashes) = hashes
    BY <1>3 DEF Padded
  <2>. QED  BY <1>1, <1>3, <2>1 DEF Paired, Odd
<1>. QED  BY <1>2, <1>3

LEMMA UpdateHolds ==
  ASSUME NEW raw, NEW hashes, Holds(raw, hashes), UpdateTree(raw, hashes)
  PROVE  TreeInv'
<1>1. /\ Holds(raw, Padded(hashes)) /\ Paired(Padded(hashes))
      /\ Padded(hashes) = <<>> <=> hashes = <<>>
  BY PaddedHolds
<1>2. rawLeaves' = raw /\ leaves' = Padded(hashes) /\ root' = RootOf(tree')
  BY DEF UpdateTree
<1>3. tree' = IF leaves' = <<>> THEN <<>> ELSE Levels(leaves')
  BY <1>1, <1>2 DEF UpdateTree, TreeOf
<1>. QED  BY <1>1, <1>2, <1>3 DEF TreeInv

LEMMA HashesHold ==
  ASSUME NEW raw, KeySeq(raw)
  PROVE  Holds(raw, Hashes(raw)) /\ Len(Hashes(raw)) = Len(raw)
<1>. DEFINE n == Len(raw)
            leaf(j) == HashLeaf(raw[j])
<1>1. raw \in Seq(AllKeys) /\ n \in Nat
  BY DEF KeySeq
<1>2. \A j \in 1..n : leaf(j) \in Leaf
  BY <1>1 DEF Leaf
<1>3. Hashes(raw) = [j \in 1..n |-> leaf(j)]
  BY DEF Hashes
<1>. HIDE DEF leaf, n
<1>4. Hashes(raw) \in Seq(Leaf) /\ Len(Hashes(raw)) = n /\ \A j \in 1..n : Hashes(raw)[j] = leaf(j)
  BY <1>1, <1>2, <1>3
<1>. QED  BY <1>1, <1>4 DEF Holds, leaf, n

\* The list an object's raw leaves are sorted from, and what they become.
LEMMA RawLeavesAre ==
  ASSUME NEW list \in Seq(AllKeys)
  PROVE  /\ KeySeq(RawLeavesOf(list))
         /\ Len(RawLeavesOf(list)) # 0
<1>. DEFINE from == IF list = <<>> THEN <<DefaultKey>> ELSE list
<1>1. <<DefaultKey>> \in Seq(AllKeys) /\ Len(<<DefaultKey>>) = 1
  <2>1. DefaultKey \in AllKeys
    BY DEF AllKeys
  <2>. QED  BY <2>1
<1>2. from \in Seq(AllKeys) /\ Len(from) # 0
  BY <1>1
<1>3. RawLeavesOf(list) = Sorted(from)
  BY DEF RawLeavesOf
<1>. HIDE DEF from
<1>. QED  BY <1>2, <1>3, SortedIs

LEMMA InitTree == Init => TreeInv
<1>. SUFFICES ASSUME Init  PROVE TreeInv
  OBVIOUS
<1>1. PICK list \in Lists : Construct(list)
  BY DEF Init
<1>2. list \in Seq(AllKeys)
  <2>1. list \in Seq(Keys) /\ Keys \subseteq AllKeys
    BY KeysAssumption DEF AllKeys
  <2>. QED  BY <2>1, SeqMonotonic
<1>. DEFINE raw == RawLeavesOf(list)
<1>3. KeySeq(raw)
  BY <1>2, RawLeavesAre
<1>4. /\ rawLeaves = raw /\ leaves = Padded(Hashes(raw)) /\ tree = TreeOf(Hashes(raw))
      /\ root = RootOf(tree)
  BY <1>1 DEF Construct
<1>. HIDE DEF raw
<1>5. Holds(raw, Hashes(raw))
  BY <1>3, HashesHold
<1>6. /\ Holds(raw, leaves) /\ Paired(leaves)
      /\ leaves = <<>> <=> Hashes(raw) = <<>>
  BY <1>4, <1>5, PaddedHolds
<1>. QED  BY <1>4, <1>6 DEF TreeInv, TreeOf

LEMMA RemoveAtIs ==
  ASSUME NEW S, NEW s \in Seq(S), NEW i \in 1..Len(s)
  PROVE  /\ RemoveAt(s, i) \in Seq(S)
         /\ Len(RemoveAt(s, i)) = Len(s) - 1
         /\ \A j \in 1..Len(s) - 1 : RemoveAt(s, i)[j] = IF j < i THEN s[j] ELSE s[j + 1]
<1>. DEFINE front == SubSeq(s, 1, i - 1)
            back == SubSeq(s, i + 1, Len(s))
<1>1. RemoveAt(s, i) = front \o back
  BY DEF RemoveAt
<1>2. Len(s) \in Nat /\ i \in Nat \ {0} /\ i <= Len(s)
  OBVIOUS
<1>3. /\ front \in Seq(S) /\ Len(front) = i - 1
      /\ \A j \in 1..i - 1 : front[j] = s[j]
  <2>1. 1 \in Int /\ i - 1 \in Int /\ \A j \in 1..i - 1 : s[j] \in S
    BY <1>2
  <2>2. /\ SubSeq(s, 1, i - 1) \in Seq(S)
        /\ Len(SubSeq(s, 1, i - 1)) = IF 1 <= i - 1 THEN i - 1 - 1 + 1 ELSE 0
        /\ \A j \in 1..i - 1 - 1 + 1 : SubSeq(s, 1, i - 1)[j] = s[1 + j - 1]
    BY <2>1, SubSeqProperties
  <2>. QED  BY <1>2, <2>2
<1>4. /\ back \in Seq(S) /\ Len(back) = Len(s) - i
      /\ \A j \in 1..Len(s) - i : back[j] = s[i + j]
  <2>1. Len(s) \in Int /\ i + 1 \in Int /\ \A j \in i + 1..Len(s) : s[j] \in S
    BY <1>2
  <2>2. /\ SubSeq(s, i + 1, Len(s)) \in Seq(S)
        /\ Len(SubSeq(s, i + 1, Len(s))) = IF i + 1 <= Len(s) THEN Len(s) - (i + 1) + 1 ELSE 0
        /\ \A j \in 1..Len(s) - (i + 1) + 1 : SubSeq(s, i + 1, Len(s))[j] = s[(i + 1) + j - 1]
    BY <2>1, SubSeqProperties
  <2>. QED  BY <1>2, <2>2
<1>. HIDE DEF front, back
<1>5. /\ front \o back \in Seq(S) /\ Len(front \o back) = Len(front) + Len(back)
      /\ \A j \in 1..Len(front) + Len(back) :
           (front \o back)[j] = IF j <= Len(front) THEN front[j] ELSE back[j - Len(front)]
  BY <1>3, <1>4, ConcatProperties
<1>6. Len(front) + Len(back) = Len(s) - 1
  BY <1>2, <1>3, <1>4
<1>7. ASSUME NEW j \in 1..Len(s) - 1
      PROVE  (front \o back)[j] = IF j < i THEN s[j] ELSE s[j + 1]
  <2>1. CASE j < i
    BY <1>2, <1>3, <1>5, <1>6, <2>1
  <2>2. CASE ~ (j < i)
    <3>1. j - (i - 1) \in 1..Len(s) - i /\ i + (j - (i - 1)) = j + 1
      BY <1>2, <2>2
    <3>2. back[j - (i - 1)] = s[j + 1]
      BY <1>4, <3>1
    <3>. QED  BY <1>2, <1>3, <1>5, <1>6, <2>2, <3>2
  <2>. QED  BY <2>1, <2>2
<1>. QED  BY <1>1, <1>5, <1>6, <1>7

LEMMA PlaceIs ==
  ASSUME NEW raw, Len(raw) \in Nat, NEW i \in 1..Len(raw)
  PROVE  /\ Place(raw, raw[i]) \in 1..Len(raw)
         /\ raw[Place(raw, raw[i])] = raw[i]
         /\ \A j \in 1..Len(raw) : raw[j] = raw[i] => Place(raw, raw[i]) <= j
<1>. DEFINE places == {j \in 1..Len(raw) : raw[j] = raw[i]}
<1>1. places \subseteq Nat /\ i \in places
  OBVIOUS
<1>2. Place(raw, raw[i]) = Min(places)
  BY DEF Place
<1>. HIDE DEF places
<1>3. Min(places) \in places /\ \A j \in places : Min(places) <= j
  BY <1>1, MinIs
<1>. QED  BY <1>2, <1>3 DEF places

\* addLeaf: the hash goes to the place of the key.
LEMMA AddHolds ==
  ASSUME TreeInv, NEW key \in AllKeys, AddLeaf(key)
  PROVE  \E raw, hashes :
           /\ Holds(raw, hashes)
           /\ Len(raw) = Len(rawLeaves) + 1 /\ Len(hashes) = Len(leaves) + 1
           /\ UpdateTree(raw, IF Odd(Len(raw)) THEN WithLastRepeated(hashes) ELSE hashes)
<1>. DEFINE raw == Sorted(Append(rawLeaves, key))
            hashes == InsertAt(leaves, Place(raw, key), HashLeaf(key))
            kept == IF Odd(Len(raw)) THEN WithLastRepeated(hashes) ELSE hashes
<1>1. UpdateTree(raw, kept) /\ key \notin Members
  BY DEF AddLeaf
<1>2. /\ KeySeq(rawLeaves) /\ leaves \in Seq(Leaf) /\ Len(rawLeaves) <= Len(leaves)
      /\ \A i \in 1..Len(rawLeaves) : leaves[i] = HashLeaf(rawLeaves[i])
  BY DEF TreeInv, Holds
<1>3. rawLeaves \in Seq(AllKeys) /\ Len(rawLeaves) \in Nat /\ Len(leaves) \in Nat
  BY <1>2 DEF KeySeq
<1>4. \A i \in 1..Len(rawLeaves) : rawLeaves[i] # key
  BY <1>1, <1>3 DEF Members, ToSet
<1>5. raw = Insert(rawLeaves, key)
  BY <1>2, SortedAscending
<1>6. PICK i \in 1..Len(rawLeaves) + 1 : Insert(rawLeaves, key) = InsertAt(rawLeaves, i, key)
  BY <1>2, InsertIs
<1>7. KeySeq(raw)
  BY <1>2, <1>5, InsertIs
<1>8. /\ Len(raw) = Len(rawLeaves) + 1
      /\ \A j \in 1..Len(rawLeaves) + 1 :
           raw[j] = IF j < i THEN rawLeaves[j] ELSE IF j = i THEN key ELSE rawLeaves[j - 1]
  <2>1. raw = InsertAt(rawLeaves, i, key)
    BY <1>5, <1>6
  <2>. HIDE DEF raw
  <2>. QED  BY <1>3, <2>1, InsertAtIs
<1>. HIDE DEF raw
<1>9. Place(raw, key) = i
  <2>1. i \in 1..Len(raw) /\ raw[i] = key /\ Len(raw) \in Nat
    BY <1>3, <1>6, <1>8
  <2>2. /\ Place(raw, key) \in 1..Len(raw) /\ raw[Place(raw, key)] = key
    BY <2>1, PlaceIs
  <2>3. \A j \in 1..Len(raw) : raw[j] = key => j = i
    BY <1>3, <1>4, <1>6, <1>8
  <2>. QED  BY <2>2, <2>3
<1>10. HashLeaf(key) \in Leaf /\ i \in 1..Len(leaves) + 1
  BY <1>2, <1>3, <1>6 DEF Leaf
<1>11. /\ hashes \in Seq(Leaf) /\ Len(hashes) = Len(leaves) + 1
       /\ \A j \in 1..Len(leaves) + 1 :
            hashes[j] = IF j < i THEN leaves[j] ELSE IF j = i THEN HashLeaf(key) ELSE leaves[j - 1]
  <2>1. hashes = InsertAt(leaves, i, HashLeaf(key))
    BY <1>9
  <2>2. leaves \in Seq(Leaf) /\ HashLeaf(key) \in Leaf /\ i \in 1..Len(leaves) + 1
    BY <1>2, <1>10
  <2>. DEFINE leaf == HashLeaf(key)
  <2>. HIDE DEF hashes, leaf
  <2>3. hashes = InsertAt(leaves, i, leaf) /\ leaf \in Leaf
    BY <2>1, <2>2 DEF leaf
  <2>4. /\ InsertAt(leaves, i, leaf) \in Seq(Leaf) /\ Len(InsertAt(leaves, i, leaf)) = Len(leaves) + 1
        /\ \A j \in 1..Len(leaves) + 1 :
             InsertAt(leaves, i, leaf)[j]
               = IF j < i THEN leaves[j] ELSE IF j = i THEN leaf ELSE leaves[j - 1]
    <3>1. leaves \in Seq(Leaf) /\ i \in 1..Len(leaves) + 1 /\ leaf \in Leaf
      BY <2>2, <2>3
    <3>. QED  BY <3>1, InsertAtIs
  <2>. QED  BY <2>3, <2>4 DEF leaf
<1>. HIDE DEF hashes
<1>12. ASSUME NEW j \in 1..Len(raw)  PROVE hashes[j] = HashLeaf(raw[j])
  <2>1. j \in 1..Len(rawLeaves) + 1 /\ j \in 1..Len(leaves) + 1
    BY <1>2, <1>3, <1>8
  <2>2. /\ raw[j] = IF j < i THEN rawLeaves[j] ELSE IF j = i THEN key ELSE rawLeaves[j - 1]
        /\ hashes[j] = IF j < i THEN leaves[j] ELSE IF j = i THEN HashLeaf(key) ELSE leaves[j - 1]
    BY <1>8, <1>11, <2>1
  <2>3. j < i => j \in 1..Len(rawLeaves)
    BY <1>3, <1>6, <2>1
  <2>4. ~ (j < i) /\ j # i => j - 1 \in 1..Len(rawLeaves)
    BY <1>3, <1>6, <2>1
  <2>. QED  BY <1>2, <2>2, <2>3, <2>4
<1>13. Holds(raw, hashes)
  BY <1>2, <1>3, <1>7, <1>8, <1>11, <1>12 DEF Holds
<1>. QED  BY <1>1, <1>8, <1>11, <1>13

LEMMA WithoutRepeatIs ==
  ASSUME TreeInv, Len(rawLeaves) # 0
  PROVE  /\ WithoutRepeat \in Seq(Leaf)
         /\ Len(WithoutRepeat) >= Len(rawLeaves) - 1
         /\ Len(WithoutRepeat) >= Len(rawLeaves) \/ (Len(rawLeaves) = 1 /\ Len(leaves) = 1)
         /\ \A i \in 1..Len(WithoutRepeat) : WithoutRepeat[i] = leaves[i]
<1>1. /\ leaves \in Seq(Leaf) /\ Len(leaves) \in Nat /\ Len(rawLeaves) \in Nat
      /\ Len(rawLeaves) <= Len(leaves)
      /\ Len(leaves) \in {0, 1} \/ ~ Odd(Len(leaves))
  BY DEF TreeInv, Holds, KeySeq, Paired
<1>2. CASE ~ Odd(Len(rawLeaves))
  <2>1. WithoutRepeat = leaves
    BY <1>2 DEF WithoutRepeat
  <2>2. Len(leaves) >= Len(rawLeaves) - 1 /\ Len(leaves) >= Len(rawLeaves)
    BY <1>1
  <2>. QED  BY <1>1, <2>1, <2>2
<1>3. CASE Odd(Len(rawLeaves))
  <2>1. WithoutRepeat = SubSeq(leaves, 1, Len(leaves) - 1)
    BY <1>3 DEF WithoutRepeat, Front
  <2>2. 1 \in Int /\ Len(leaves) - 1 \in Int /\ \A j \in 1..Len(leaves) - 1 : leaves[j] \in Leaf
    BY <1>1
  <2>3. /\ SubSeq(leaves, 1, Len(leaves) - 1) \in Seq(Leaf)
        /\ Len(SubSeq(leaves, 1, Len(leaves) - 1))
             = IF 1 <= Len(leaves) - 1 THEN Len(leaves) - 1 - 1 + 1 ELSE 0
        /\ \A j \in 1..Len(leaves) - 1 - 1 + 1 :
             SubSeq(leaves, 1, Len(leaves) - 1)[j] = leaves[1 + j - 1]
    BY <2>2, SubSeqProperties
  <2>. DEFINE kept == SubSeq(leaves, 1, Len(leaves) - 1)
  <2>. HIDE DEF kept
  <2>4. kept \in Seq(Leaf) /\ Len(kept) = Len(leaves) - 1
    <3>1. Len(leaves) \in Nat \ {0}
      BY <1>1
    <3>2. Len(kept) = IF 1 <= Len(leaves) - 1 THEN Len(leaves) - 1 - 1 + 1 ELSE 0
      BY <2>3 DEF kept
    <3>3. Len(kept) = Len(leaves) - 1
      BY <3>1, <3>2
    <3>. QED  BY <2>3, <3>3 DEF kept
  <2>5. ASSUME NEW j \in 1..Len(leaves) - 1  PROVE kept[j] = leaves[j]
    <3>1. j \in 1..Len(leaves) - 1 - 1 + 1 /\ 1 + j - 1 = j
      BY <1>1
    <3>. QED  BY <2>3, <3>1 DEF kept
  <2>6. Len(rawLeaves) < Len(leaves) \/ (Len(rawLeaves) = 1 /\ Len(leaves) = 1)
    <3>1. CASE Len(rawLeaves) = Len(leaves)
      BY <1>1, <1>3, <3>1
    <3>2. CASE Len(rawLeaves) # Len(leaves)
      BY <1>1, <3>2
    <3>. QED  BY <3>1, <3>2
  <2>. QED  BY <1>1, <2>1, <2>4, <2>5, <2>6 DEF kept
<1>. QED  BY <1>2, <1>3

\* removeLeaf: the hash at the place of the key goes.
LEMMA RemoveHolds ==
  ASSUME TreeInv, NEW key \in AllKeys, RemoveLeaf(key)
  PROVE  \E raw, hashes :
           /\ Holds(raw, hashes)
           /\ Len(rawLeaves) # 0 /\ Len(raw) = Len(rawLeaves) - 1
           /\ \/ Len(hashes) = Len(WithoutRepeat) - 1
              \/ Len(rawLeaves) = 1 /\ Len(hashes) = Len(WithoutRepeat)
           /\ UpdateTree(raw, hashes)
<1>. DEFINE p == Place(rawLeaves, key)
            raw == RemoveAt(rawLeaves, p)
            some == WithoutRepeat
            hashes == IF p <= Len(some) THEN RemoveAt(some, p) ELSE some
<1>1. UpdateTree(raw, hashes) /\ key \in Members
  BY DEF RemoveLeaf
<1>2. /\ KeySeq(rawLeaves) /\ Len(rawLeaves) <= Len(leaves)
      /\ \A i \in 1..Len(rawLeaves) : leaves[i] = HashLeaf(rawLeaves[i])
  BY DEF TreeInv, Holds
<1>3. /\ rawLeaves \in Seq(AllKeys) /\ Len(rawLeaves) \in Nat /\ Len(leaves) \in Nat
      /\ \A i \in 1..Len(rawLeaves) : rawLeaves[i] \in Nat
      /\ \A i, j \in 1..Len(rawLeaves) : i <= j => rawLeaves[i] <= rawLeaves[j]
  BY <1>2 DEF KeySeq, Ascending, TreeInv, Holds
<1>4. p \in 1..Len(rawLeaves)
  <2>1. PICK i \in 1..Len(rawLeaves) : key = rawLeaves[i]
    BY <1>1, <1>3 DEF Members, ToSet
  <2>. QED  BY <1>3, <2>1, PlaceIs
<1>5. /\ some \in Seq(Leaf)
      /\ Len(some) >= Len(rawLeaves) - 1
      /\ Len(some) >= Len(rawLeaves) \/ (Len(rawLeaves) = 1 /\ Len(leaves) = 1)
      /\ \A i \in 1..Len(some) : some[i] = leaves[i]
  BY <1>3, <1>4, WithoutRepeatIs
<1>. HIDE DEF p, some
<1>6. /\ raw \in Seq(AllKeys) /\ Len(raw) = Len(rawLeaves) - 1
      /\ \A j \in 1..Len(rawLeaves) - 1 :
           raw[j] = IF j < p THEN rawLeaves[j] ELSE rawLeaves[j + 1]
  BY <1>3, <1>4, RemoveAtIs
<1>. HIDE DEF raw
<1>7. KeySeq(raw)
  <2>1. ASSUME NEW j \in 1..Len(raw)
        PROVE  \E i \in 1..Len(rawLeaves) : /\ raw[j] = rawLeaves[i]
                                            /\ i = IF j < p THEN j ELSE j + 1
    <3>1. j < p => j \in 1..Len(rawLeaves)
      BY <1>3, <1>6
    <3>2. j + 1 \in 1..Len(rawLeaves) /\ j \in 1..Len(rawLeaves) - 1
      BY <1>3, <1>6
    <3>. QED  BY <1>6, <3>1, <3>2
  <2>2. \A j \in 1..Len(raw) : raw[j] \in Nat
    BY <1>3, <2>1
  <2>3. ASSUME NEW j \in 1..Len(raw), NEW k \in 1..Len(raw), j <= k
        PROVE  raw[j] <= raw[k]
    <3>1. PICK i \in 1..Len(rawLeaves) : raw[j] = rawLeaves[i] /\ i = IF j < p THEN j ELSE j + 1
      BY <2>1
    <3>2. PICK l \in 1..Len(rawLeaves) : raw[k] = rawLeaves[l] /\ l = IF k < p THEN k ELSE k + 1
      BY <2>1
    <3>3. i <= l
      BY <1>3, <1>4, <1>6, <2>3, <3>1, <3>2
    <3>. QED  BY <1>3, <3>1, <3>2, <3>3
  <2>. QED  BY <1>3, <1>6, <2>2, <2>3 DEF KeySeq, Ascending
<1>8. CASE p <= Len(some)
  <2>1. hashes = RemoveAt(some, p) /\ p \in 1..Len(some)
    BY <1>3, <1>4, <1>5, <1>8
  <2>2. /\ RemoveAt(some, p) \in Seq(Leaf) /\ Len(RemoveAt(some, p)) = Len(some) - 1
        /\ \A j \in 1..Len(some) - 1 :
             RemoveAt(some, p)[j] = IF j < p THEN some[j] ELSE some[j + 1]
    BY <1>5, <2>1, RemoveAtIs
  <2>. HIDE DEF hashes
  <2>3. hashes \in Seq(Leaf) /\ Len(raw) <= Len(hashes) /\ Len(hashes) = Len(some) - 1
    <3>1. Len(some) >= Len(rawLeaves)
      BY <1>3, <1>4, <1>5, <1>8
    <3>. QED  BY <1>3, <1>5, <1>6, <2>1, <2>2, <3>1
  <2>4. ASSUME NEW j \in 1..Len(raw)  PROVE hashes[j] = HashLeaf(raw[j])
    <3>1. j \in 1..Len(some) - 1 /\ j \in 1..Len(rawLeaves) - 1
      BY <1>3, <1>5, <1>6, <2>3
    <3>2. hashes[j] = IF j < p THEN some[j] ELSE some[j + 1]
      BY <2>1, <2>2, <3>1
    <3>3. some[j] = leaves[j] /\ some[j + 1] = leaves[j + 1]
      BY <1>3, <1>5, <3>1
    <3>4. leaves[j] = HashLeaf(rawLeaves[j]) /\ leaves[j + 1] = HashLeaf(rawLeaves[j + 1])
      BY <1>2, <1>3, <3>1
    <3>. QED  BY <1>6, <3>1, <3>2, <3>3, <3>4
  <2>5. Holds(raw, hashes)
    BY <1>7, <2>3, <2>4 DEF Holds
  <2>. QED  BY <1>1, <1>3, <1>4, <1>6, <2>3, <2>5 DEF some
<1>9. CASE ~ (p <= Len(some))
  <2>1. Len(raw) = 0 /\ hashes = some
    BY <1>3, <1>4, <1>5, <1>6, <1>9
  <2>2. Holds(raw, hashes)
    BY <1>5, <1>7, <2>1 DEF Holds
  <2>3. Len(rawLeaves) = 1
    BY <1>3, <1>4, <1>5, <1>9
  <2>. QED  BY <1>1, <1>6, <2>1, <2>2, <2>3 DEF some
<1>. QED  BY <1>8, <1>9

LEMMA TreeAlways == Spec => []TreeInv
<1>1. Init => TreeInv
  BY InitTree
<1>2. TreeInv /\ [Next]_vars => TreeInv'
  <2>. SUFFICES ASSUME TreeInv, [Next]_vars  PROVE TreeInv'
    OBVIOUS
  <2>1. ASSUME NEW key \in AllKeys, AddLeaf(key)  PROVE TreeInv'
    <3>1a. PICK raw : \E hashes :
             /\ Holds(raw, hashes)
             /\ Len(hashes) = Len(leaves) + 1
             /\ UpdateTree(raw, IF Odd(Len(raw)) THEN WithLastRepeated(hashes) ELSE hashes)
      BY <2>1, AddHolds
    <3>1. PICK hashes :
             /\ Holds(raw, hashes)
             /\ Len(hashes) = Len(leaves) + 1
             /\ UpdateTree(raw, IF Odd(Len(raw)) THEN WithLastRepeated(hashes) ELSE hashes)
      BY <3>1a
    <3>2. Len(leaves) \in Nat
      BY DEF TreeInv, Holds
    <3>3. Holds(raw, WithLastRepeated(hashes))
      BY <3>1, <3>2, RepeatedHolds
    <3>4. Holds(raw, IF Odd(Len(raw)) THEN WithLastRepeated(hashes) ELSE hashes)
      BY <3>1, <3>3
    <3>. QED  BY <3>1, <3>4, UpdateHolds
  <2>2. ASSUME NEW key \in AllKeys, RemoveLeaf(key)  PROVE TreeInv'
    <3>1. PICK raw, hashes : Holds(raw, hashes) /\ UpdateTree(raw, hashes)
      BY <2>2, RemoveHolds
    <3>. QED  BY <3>1, UpdateHolds
  <2>3. CASE UNCHANGED vars
    BY <2>3 DEF TreeInv, vars
  <2>. QED  BY <2>1, <2>2, <2>3 DEF Next, AllKeys
<1>. QED  BY <1>1, <1>2, PTL DEF Spec

\* The root of an emptied tree is the root of the default key.
LEMMA EmptyRoot == RootOf(TreeOf(Hashes(RawLeavesOf(<<>>)))) = HashLeaf(DefaultKey)
<1>. DEFINE raw == <<DefaultKey>>
            nodes == Padded(Hashes(raw))
<1>1. raw \in Seq(AllKeys) /\ Len(raw) = 1 /\ raw[1] = DefaultKey /\ DefaultKey \in Nat
  BY DEF AllKeys, DefaultKey
<1>2. RawLeavesOf(<<>>) = Sorted(raw)
  BY DEF RawLeavesOf
<1>. HIDE DEF raw
<1>3. KeySeq(raw)
  BY <1>1 DEF KeySeq, Ascending
<1>4. RawLeavesOf(<<>>) = raw
  BY <1>2, <1>3, SortedAscending
<1>4a. Len(raw) \in Nat \ {0}
  BY <1>1
<1>5a. PICK h \in Nat : \E r : /\ IsTree(r, nodes, h)
                               /\ RootOf(TreeOf(Hashes(raw))) = r[h][1]
                               /\ Len(raw) = 1 => h = 0
  BY <1>4a, RootIs
<1>5. PICK r : IsTree(r, nodes, h) /\ RootOf(TreeOf(Hashes(raw))) = r[h][1]
  BY <1>5a
<1>6. r[0] = nodes /\ h = 0
  BY <1>1, <1>5a, <1>5 DEF IsTree
<1>7. nodes[1] = HashLeaf(raw[Kept(raw, 1)])
  BY <1>1, PaddedIs
<1>8. Kept(raw, 1) = 1
  BY <1>1 DEF Kept
<1>. QED  BY <1>1, <1>4, <1>5, <1>6, <1>7, <1>8

\* What an object like a new one, or an emptied one, says of its root.
LEMMA RootIsNewIs ==
  ASSUME TreeInv, RootIsNew
  PROVE  LET raw == RawLeavesOf(rawLeaves)
         IN  /\ KeySeq(raw) /\ Len(raw) # 0 /\ Reached(raw)
             /\ root = RootOf(TreeOf(Hashes(raw)))
             /\ rawLeaves # <<>> => raw = rawLeaves
<1>. DEFINE raw == RawLeavesOf(rawLeaves)
<1>1. /\ KeySeq(rawLeaves) /\ rawLeaves \in Seq(AllKeys) /\ Len(rawLeaves) \in Nat
      /\ tree = IF leaves = <<>> THEN <<>> ELSE Levels(leaves)
  BY DEF TreeInv, Holds, KeySeq
<1>2. KeySeq(raw) /\ Len(raw) # 0 /\ Len(raw) \in Nat
  BY <1>1, RawLeavesAre DEF KeySeq
<1>2a. rawLeaves # <<>> => raw = rawLeaves
  BY <1>1, SortedAscending DEF RawLeavesOf
<1>3. PICK h \in Nat : Len(Levels(Padded(Hashes(raw)))) = h + 1 /\ (Len(raw) = 1 => h = 0)
  BY <1>2, RootIs
<1>4. CASE Emptied
  <2>1. rawLeaves = <<>> /\ leaves = <<>>
    BY <1>4 DEF Emptied
  <2>2. tree = <<>> /\ Len(tree) = 0
    BY <1>1, <2>1
  <2>3. Len(raw) = 1
    <3>1. <<DefaultKey>> \in Seq(AllKeys) /\ Len(<<DefaultKey>>) = 1
      BY DEF AllKeys
    <3>2. raw = Sorted(<<DefaultKey>>)
      BY <2>1 DEF RawLeavesOf
    <3>. HIDE DEF raw
    <3>. QED  BY <3>1, <3>2, SortedIs
  <2>4. Reached(raw)
    BY <1>3, <2>2, <2>3 DEF Reached
  <2>5. root = RootOf(TreeOf(Hashes(raw)))
    <3>1. root = HashLeaf(DefaultKey)
      BY <2>2 DEF TreeInv, RootOf
    <3>. QED  BY <2>1, <3>1, EmptyRoot
  <2>. QED  BY <1>2, <2>1, <2>4, <2>5
<1>5. CASE LikeNew
  <2>1. /\ rawLeaves # <<>> /\ leaves = Padded(Hashes(rawLeaves))
        /\ root = RootOf(TreeOf(Hashes(rawLeaves)))
    BY <1>5 DEF LikeNew, IsNew
  <2>2. raw = rawLeaves
    BY <1>2a, <2>1
  <2>. HIDE DEF raw
  <2>3. Holds(rawLeaves, leaves)
    BY DEF TreeInv
  <2>4. leaves # <<>>
    BY <1>1, <1>2, <2>2, <2>3 DEF Holds
  <2>5. tree = Levels(Padded(Hashes(raw)))
    BY <1>1, <2>1, <2>2, <2>4
  <2>6. Reached(raw)
    BY <1>3, <2>5 DEF Reached
  <2>. QED  BY <1>2, <2>1, <2>2, <2>6 DEF raw
<1>. QED  BY <1>4, <1>5 DEF RootIsNew

\* Inclusion of exactly the object's keys can be proven to verify_in_tree under a
\* root built from them, for every list of keys and every sequence of updates
\* (merkle.ts, merkle_proof.rs).
THEOREM InclusionStaysExact == Spec => []InclusionIsExact
<1>1. TreeInv => InclusionIsExact
  <2>. SUFFICES ASSUME TreeInv, RootIsNew
                PROVE  {e.key : e \in Accepted(root)} = Listed
    BY DEF InclusionIsExact
  <2>. DEFINE raw == RawLeavesOf(rawLeaves)
  <2>1. KeySeq(raw) /\ Len(raw) # 0 /\ Reached(raw) /\ root = RootOf(TreeOf(Hashes(raw)))
    BY RootIsNewIs
  <2>2. Listed = ToSet(raw)
    BY DEF Listed
  <2>. HIDE DEF raw
  <2>. QED  BY <2>1, <2>2, InclusionExact
<1>. QED  BY <1>1, TreeAlways, PTL

\* verify_not_in_tree can be convinced of the absence of exactly the keys that
\* the root was not built from: an earner can never be removed by a proof of
\* absence under a root that lists it (merkle_proof.rs, verify_not_in_tree).
THEOREM ExclusionStaysExact == Spec => []ExclusionIsExact
<1>1. TreeInv => ExclusionIsExact
  <2>. DEFINE absent == {key \in AllKeys :
                           \E e \in Evidence(Accepted(root)) :
                             VerifyNotInTree(root, key, e.proofs, e.neighbors)}
  <2>. SUFFICES ASSUME TreeInv, RootIsNew  PROVE absent = AllKeys \ Listed
    BY DEF ExclusionIsExact
  <2>. DEFINE raw == RawLeavesOf(rawLeaves)
  <2>1. KeySeq(raw) /\ Len(raw) # 0 /\ Reached(raw) /\ root = RootOf(TreeOf(Hashes(raw)))
    BY RootIsNewIs
  <2>2. Listed = ToSet(raw)
    BY DEF Listed
  <2>. HIDE DEF raw
  <2>3. \A key \in AllKeys : key \in absent <=> key \notin ToSet(raw)
    BY <2>1, ExclusionExact
  <2>. QED  BY <2>2, <2>3
<1>. QED  BY <1>1, TreeAlways, PTL

-----------------------------------------------------------------------------
(* The proofs that getInclusionProof makes.                                  *)

\* r has the first m positions on the way up from a leaf.
Path(r, first, m) ==
  /\ r[0] = first
  /\ \A n \in 1..m : r[n] = ParentIndex(n - 1, r[n - 1])

\* The definition is not vacuous: there are such values for every m.
LEMMA PathExist ==
  ASSUME NEW first, NEW m \in Nat
  PROVE  \E r : Path(r, first, m)
<1>. DEFINE T == {k \in Nat : ~ \E r : Path(r, first, k)}
<1>1. SUFFICES T = {}
  OBVIOUS
<1>2. SUFFICES ASSUME T # {}  PROVE FALSE
  OBVIOUS
<1>3. T \subseteq Nat
  OBVIOUS
<1>4. PICK k \in T : \A j \in T : ~ (<<j, k>> \in OpToRel(<, Nat))
  <2>. HIDE DEF T
  <2>. QED  BY <1>2, <1>3, NatLessThanWellFounded, WFMin
<1>5. \A j \in T : ~ (j < k)
  BY <1>3, <1>4 DEF OpToRel
<1>6. CASE k = 0
  <2>. DEFINE s == [n \in 0..0 |-> first]
  <2>1. Path(s, first, 0)
    BY DEF Path
  <2>. QED  BY <1>4, <1>6, <2>1
<1>7. CASE k # 0
  <2>1. k \in Nat /\ k - 1 \in Nat /\ k - 1 \notin T
    BY <1>3, <1>5, <1>7
  <2>2. PICK r : Path(r, first, k - 1)
    BY <2>1
  <2>. DEFINE s == [n \in 0..k |-> IF n = k THEN ParentIndex(k - 1, r[k - 1]) ELSE r[n]]
  <2>3. s[0] = first
    BY <1>7, <2>1, <2>2 DEF Path
  <2>4. ASSUME NEW n \in 1..k  PROVE s[n] = ParentIndex(n - 1, s[n - 1])
    <3>1. CASE n = k
      <4>1. s[n] = ParentIndex(k - 1, r[k - 1]) /\ s[n - 1] = r[k - 1]
        BY <2>1, <3>1
      <4>. QED  BY <3>1, <4>1
    <3>2. CASE n # k
      <4>1. s[n] = r[n] /\ s[n - 1] = r[n - 1] /\ n \in 1..(k - 1)
        BY <2>1, <3>2
      <4>2. r[n] = ParentIndex(n - 1, r[n - 1])
        BY <2>2, <4>1 DEF Path
      <4>. QED  BY <4>1, <4>2
    <3>. QED  BY <3>1, <3>2
  <2>. HIDE DEF s
  <2>5. Path(s, first, k)
    BY <2>3, <2>4 DEF Path
  <2>. QED  BY <1>4, <2>5
<1>. QED  BY <1>6, <1>7

LEMMA PathChosen ==
  ASSUME NEW first, NEW m \in Nat, NEW f,
         f = CHOOSE q : q = [n \in 0..m |-> IF n = 0 THEN first ELSE ParentIndex(n - 1, q[n - 1])]
  PROVE  Path(f, first, m)
<1>1. PICK r : Path(r, first, m)
  BY PathExist
<1>. DEFINE g == [n \in 0..m |-> r[n]]
            next(n) == IF n = 0 THEN first ELSE ParentIndex(n - 1, f[n - 1])
<1>2. \A n \in 0..m : g[n] = IF n = 0 THEN first ELSE ParentIndex(n - 1, g[n - 1])
  <2>. SUFFICES ASSUME NEW n \in 0..m
                PROVE  g[n] = IF n = 0 THEN first ELSE ParentIndex(n - 1, g[n - 1])
    OBVIOUS
  <2>1. CASE n = 0
    BY <1>1, <2>1 DEF Path
  <2>2. CASE n # 0
    <3>1. n \in 1..m /\ n - 1 \in 0..m
      BY <2>2
    <3>2. g[n] = r[n] /\ g[n - 1] = r[n - 1]
      BY <3>1
    <3>3. r[n] = ParentIndex(n - 1, r[n - 1])
      BY <1>1, <3>1 DEF Path
    <3>. QED  BY <2>2, <3>2, <3>3
  <2>. QED  BY <2>1, <2>2
<1>3. g = [n \in 0..m |-> g[n]]
  OBVIOUS
<1>. HIDE DEF g
<1>4. g = [n \in 0..m |-> IF n = 0 THEN first ELSE ParentIndex(n - 1, g[n - 1])]
  BY <1>2, <1>3
<1>5. f = [n \in 0..m |-> IF n = 0 THEN first ELSE ParentIndex(n - 1, f[n - 1])]
  BY <1>4
<1>6. f = [n \in 0..m |-> next(n)]
  BY <1>5
<1>7. next(0) = first /\ \A n \in 1..m : next(n) = ParentIndex(n - 1, f[n - 1])
  OBVIOUS
<1>. HIDE DEF next
<1>8. \A n \in 0..m : f[n] = next(n)
  BY <1>6
<1>9. 0 \in 0..m /\ \A n \in 1..m : n \in 0..m
  OBVIOUS
<1>. QED  BY <1>7, <1>8, <1>9 DEF Path

Step(index, i) ==
  ProofElement(NodeAt(i - 1, SiblingIndex(i - 1, index[i - 1])), ~Odd(index[i - 1]))

LEMMA MadeProofIs ==
  ASSUME Depth \in Nat, NEW key
  PROVE  \E index : /\ Path(index, Place(rawLeaves, key) - 1, Depth)
                    /\ GetInclusionProof(key, FALSE) = [i \in 1..Depth |-> Step(index, i)]
<1>. DEFINE first == Place(rawLeaves, key) - 1
            f == CHOOSE f : f = [n \in 0..Depth |-> IF n = 0 THEN first
                                                    ELSE ParentIndex(n - 1, f[n - 1])]
<1>1. GetInclusionProof(key, FALSE) = [i \in 1..Depth |-> Step(f, i)]
  BY DEF GetInclusionProof, Step
<1>2. Path(f, first, Depth)
  <2>. HIDE DEF first
  <2>. QED  BY PathChosen
<1>. QED  BY <1>1, <1>2

\* The levels of the object's tree.
LEMMA TreeIs ==
  ASSUME TreeInv, leaves # <<>>
  PROVE  \E h \in Nat : \E r : /\ IsTree(r, leaves, h)
                               /\ tree = [i \in 1..h + 1 |-> r[i - 1]]
                               /\ Depth = h /\ Len(tree) = h + 1
                               /\ root = r[h][1]
<1>1. leaves \in Seq(Leaf) /\ tree = Levels(leaves) /\ root = RootOf(tree)
  BY DEF TreeInv, Holds
<1>2. Len(leaves) \in Nat \ {0}
  BY <1>1
<1>3a. PICK h \in Nat : \E r : IsTree(r, leaves, h) /\ Levels(leaves) = [i \in 1..h + 1 |-> r[i - 1]]
  BY <1>2, LevelsAre
<1>3. PICK r : IsTree(r, leaves, h) /\ tree = [i \in 1..h + 1 |-> r[i - 1]]
  BY <1>1, <1>3a
<1>4. Len(tree) = h + 1 /\ tree[h + 1] = r[h] /\ tree # <<>>
  BY <1>3
<1>5. Depth = h /\ root = r[h][1]
  BY <1>1, <1>4 DEF Depth, RootOf, Last
<1>. QED  BY <1>3, <1>4, <1>5

\* No node before this one is equal to it.
FirstAt(nodes, i) == \A k \in 0..i - 1 : nodes[k + 1] # nodes[i + 1]

\* The parent found by its hash is a node over the given one, and its own parent
\* if no node before the given one is equal to it.
LEMMA ParentIs ==
  ASSUME NEW h \in Nat, NEW r, IsTree(r, leaves, h), tree = [i \in 1..h + 1 |-> r[i - 1]],
         NEW l \in 0..h - 1, NEW i \in 0..Len(r[l]) - 1
  PROVE  /\ ParentIndex(l, i) \in 0..Len(r[l + 1]) - 1
         /\ r[l + 1][ParentIndex(l, i) + 1]
              = Joined(r[l][i + 1], ProofElement(NodeAt(l, SiblingIndex(l, i)), ~Odd(i)))
         /\ FirstAt(r[l], i) => /\ 2 * ParentIndex(l, i) = IF Odd(i) THEN i - 1 ELSE i
                                /\ FirstAt(r[l + 1], ParentIndex(l, i))
<1>. DEFINE nodes == r[l]
            len == Len(nodes)
            above == r[l + 1]
            sibling == NodeAt(l, SiblingIndex(l, i))
            parent == IF Odd(i) THEN HashNode(sibling, nodes[i + 1])
                                ELSE HashNode(nodes[i + 1], sibling)
            places == {k \in 0..Len(above) - 1 : above[k + 1] = parent}
            q == IF Odd(i) THEN (i - 1) \div 2 ELSE i \div 2
<1>1. /\ l \in 0..h /\ l + 1 \in 1..h /\ (l + 1) - 1 = l
      /\ l + 1 \in 1..h + 1 /\ l + 2 \in 1..h + 1 /\ (l + 2) - 1 = l + 1 /\ l + 1 \in 0..h
  OBVIOUS
<1>2. tree[l + 1] = nodes /\ tree[l + 2] = above
  BY <1>1
<1>3. len \in Nat \ {0} /\ above = Parents(nodes)
  <2>1. r[l + 1] = Parents(r[(l + 1) - 1])
    BY <1>1 DEF IsTree
  <2>. QED  BY <1>1, <2>1 DEF IsTree
<1>4. /\ Len(above) \in Nat \ {0} /\ 2 * Len(above) \in {len, len + 1}
      /\ \A j \in 1..Len(above) :
           above[j] = HashNode(nodes[2 * j - 1],
                               IF 2 * j <= len THEN nodes[2 * j] ELSE nodes[2 * j - 1])
  BY <1>3, ParentsAre
<1>5. \A k : NodeAt(l, k) = nodes[k + 1] /\ NodeAt(l + 1, k) = above[k + 1]
  BY <1>1, <1>2 DEF NodeAt
<1>6. ParentIndex(l, i) = Min(places)
  <2>. DEFINE goal == IF Odd(i) THEN HashNode(NodeAt(l, SiblingIndex(l, i)), NodeAt(l, i))
                                ELSE HashNode(NodeAt(l, i), NodeAt(l, SiblingIndex(l, i)))
              found == {k \in 0..Len(tree[l + 2]) - 1 : NodeAt(l + 1, k) = goal}
  <2>1. ParentIndex(l, i) = Min(found)
    BY DEF ParentIndex
  <2>2. goal = parent
    <3>1. NodeAt(l, i) = nodes[i + 1]
      BY <1>5
    <3>. QED  BY <3>1
  <2>. HIDE DEF goal, parent, above
  <2>3. found = places
    BY <1>2, <1>5, <2>2
  <2>. QED  BY <2>1, <2>3
<1>7. sibling = nodes[SiblingIndex(l, i) + 1]
  BY <1>5
<1>. HIDE DEF above, nodes, sibling, len
<1>8. i \in 0..len - 1
  BY DEF nodes, len
<1>9. SiblingIndex(l, i) = IF Odd(i) THEN i - 1 ELSE IF i = len - 1 THEN i ELSE i + 1
  BY <1>2 DEF SiblingIndex, len
<1>10. q \in Nat /\ q \in 0..Len(above) - 1 /\ i = IF Odd(i) THEN 2 * q + 1 ELSE 2 * q
  <2>1. CASE Odd(i)
    <3>1. q = (i - 1) \div 2 /\ i % 2 = 1
      BY <2>1 DEF Odd
    <3>2. q \in Nat /\ i = 2 * q + 1
      <4>1. \A x \in Nat : x % 2 = 1 => (x - 1) \div 2 \in Nat /\ x = 2 * ((x - 1) \div 2) + 1
        OBVIOUS
      <4>2. i \in Nat
        BY <1>3, <1>8
      <4>. HIDE DEF q
      <4>. QED  BY <3>1, <4>1, <4>2
    <3>. HIDE DEF q
    <3>. QED  BY <1>3, <1>4, <1>8, <2>1, <3>2
  <2>2. CASE ~ Odd(i)
    <3>1. q = i \div 2 /\ i % 2 # 1
      BY <2>2 DEF Odd
    <3>2. q \in Nat /\ i = 2 * q
      <4>1. \A x \in Nat : x % 2 # 1 => x \div 2 \in Nat /\ x = 2 * (x \div 2)
        OBVIOUS
      <4>2. i \in Nat
        BY <1>3, <1>8
      <4>. HIDE DEF q
      <4>. QED  BY <3>1, <4>1, <4>2
    <3>. HIDE DEF q
    <3>. QED  BY <1>3, <1>4, <1>8, <2>2, <3>2
  <2>. QED  BY <2>1, <2>2
<1>11. above[q + 1] = parent
  <2>1. above[q + 1] = HashNode(nodes[2 * (q + 1) - 1],
                               IF 2 * (q + 1) <= len THEN nodes[2 * (q + 1)]
                                                     ELSE nodes[2 * (q + 1) - 1])
    <3>1. q + 1 \in 1..Len(above)
      BY <1>4, <1>10
    <3>. HIDE DEF q
    <3>. QED  BY <1>4, <3>1
  <2>2. CASE Odd(i)
    <3>1. sibling = nodes[i]
      BY <1>7, <1>8, <1>9, <2>2
    <3>2. 2 * (q + 1) - 1 = i /\ 2 * (q + 1) = i + 1 /\ i + 1 <= len
      BY <1>3, <1>8, <1>10, <2>2
    <3>. HIDE DEF q
    <3>3. parent = HashNode(sibling, nodes[i + 1])
      BY <2>2
    <3>. QED  BY <2>1, <3>1, <3>2, <3>3
  <2>3. CASE ~ Odd(i)
    <3>1. sibling = IF i = len - 1 THEN nodes[i + 1] ELSE nodes[i + 2]
      BY <1>7, <1>8, <1>9, <2>3
    <3>2. 2 * (q + 1) - 1 = i + 1 /\ 2 * (q + 1) = i + 2 /\ (i + 2 <= len <=> i # len - 1)
      BY <1>3, <1>8, <1>10, <2>3
    <3>. HIDE DEF q
    <3>3. parent = HashNode(nodes[i + 1], sibling)
      BY <2>3
    <3>. QED  BY <2>1, <3>1, <3>2, <3>3
  <2>. QED  BY <2>2, <2>3
<1>. HIDE DEF q, parent
<1>12. places \subseteq Nat /\ q \in places
  BY <1>10, <1>11
<1>13. Min(places) \in places /\ \A k \in places : Min(places) <= k
  <2>. HIDE DEF places
  <2>. QED  BY <1>12, MinIs
<1>. DEFINE p == Min(places)
<1>14. p \in 0..Len(above) - 1 /\ above[p + 1] = parent /\ p <= q
  BY <1>12, <1>13
<1>15. parent = Joined(nodes[i + 1], ProofElement(sibling, ~Odd(i)))
  BY DEF parent, Joined, ProofElement
<1>16. ASSUME FirstAt(nodes, i)
       PROVE  2 * p = (IF Odd(i) THEN i - 1 ELSE i) /\ FirstAt(above, p)
  <2>. HIDE DEF p, places
  <2>1. ASSUME NEW k \in 0..Len(above) - 1, above[k + 1] = parent  PROVE ~ (k < q)
    <3>. SUFFICES ASSUME k < q  PROVE FALSE
      OBVIOUS
    <3>1. k + 1 \in 1..Len(above) /\ 2 * (k + 1) <= len
      BY <1>3, <1>4, <1>8, <1>10
    <3>2. above[k + 1] = HashNode(nodes[2 * (k + 1) - 1], nodes[2 * (k + 1)])
      BY <1>4, <3>1
    <3>3. /\ 2 * k \in 0..i - 1 /\ 2 * k + 1 \in 0..i - 1
          /\ 2 * (k + 1) - 1 = 2 * k + 1 /\ 2 * (k + 1) = (2 * k + 1) + 1
      BY <1>8, <1>10
    <3>4. nodes[2 * k + 1] # nodes[i + 1] /\ nodes[(2 * k + 1) + 1] # nodes[i + 1]
      BY <1>16, <3>3 DEF FirstAt
    <3>. QED  BY <2>1, <3>2, <3>3, <3>4 DEF parent, HashNode
  <2>2. p = q
    BY <1>10, <1>14, <2>1
  <2>3. FirstAt(above, p)
    <3>1. \A k \in 0..p - 1 : k \in 0..Len(above) - 1 /\ k < q
      BY <1>4, <1>10, <2>2
    <3>. QED  BY <1>14, <2>1, <3>1 DEF FirstAt
  <2>. QED  BY <1>8, <1>10, <2>2, <2>3
<1>. QED  BY <1>6, <1>14, <1>15, <1>16 DEF above, nodes, sibling

\* What a made proof shows: the key of the leaf it started from, whatever equal
\* nodes it went through; and its position is that of the leaf if no leaf before
\* it is equal to it.
LEMMA MadeProof ==
  ASSUME TreeInv, leaves # <<>>, NEW first \in 0..Len(leaves) - 1, NEW key,
         leaves[first + 1] = HashLeaf(key),
         NEW index, Path(index, first, Depth), NEW proof,
         proof = [i \in 1..Depth |-> Step(index, i)]
  PROVE  /\ Len(proof) \in Nat
         /\ VerifyInTree(root, key, proof)
         /\ FirstAt(leaves, first) => Index(proof) = first
<1>1a. PICK h \in Nat : \E r : /\ IsTree(r, leaves, h)
                               /\ tree = [i \in 1..h + 1 |-> r[i - 1]]
                               /\ Depth = h /\ root = r[h][1]
  BY TreeIs
<1>1. PICK r : /\ IsTree(r, leaves, h)
               /\ tree = [i \in 1..h + 1 |-> r[i - 1]]
               /\ Depth = h /\ root = r[h][1]
  BY <1>1a
<1>2. Len(proof) = h /\ \A i \in 1..h : proof[i] = Step(index, i)
  BY <1>1
<1>3. PICK c : Hashing(c, key, proof, h) /\ ComputedHash(key, proof) = c[h]
  BY <1>2, ComputedHashIs
<1>. DEFINE At(l) == index[l] \in 0..Len(r[l]) - 1 /\ c[l] = r[l][index[l] + 1]
            Exact(l) == /\ FirstAt(r[l], index[l])
                        /\ l # 0 => index[l - 1] = 2 * index[l] + Bit(proof[l])
            S == {l \in 0..h : At(l) /\ (FirstAt(leaves, first) => Exact(l))}
<1>4. 0 \in S
  <2>1. index[0] = first /\ c[0] = HashLeaf(key) /\ r[0] = leaves
    BY <1>1, <1>3 DEF Path, Hashing, IsTree
  <2>2. At(0) /\ (FirstAt(leaves, first) => Exact(0))
    BY <2>1
  <2>. HIDE DEF At, Exact
  <2>. QED  BY <2>2
<1>5. ASSUME NEW n \in 1..h, n - 1 \in S  PROVE n \in S
  <2>. DEFINE l == n - 1
              i == index[l]
              e == ProofElement(NodeAt(l, SiblingIndex(l, i)), ~Odd(i))
  <2>1. At(l) /\ (FirstAt(leaves, first) => Exact(l))
    BY <1>5
  <2>2. l \in 0..h - 1 /\ l + 1 = n /\ n \in 0..h /\ n # 0
    OBVIOUS
  <2>3. index[n] = ParentIndex(l, i)
    BY <1>1 DEF Path
  <2>4. proof[n] = e
    BY <1>2 DEF Step
  <2>5. c[n] = Joined(c[l], proof[n])
    BY <1>3 DEF Hashing
  <2>6. i \in 0..Len(r[l]) - 1 /\ c[l] = r[l][i + 1]
    BY <2>1
  <2>7. FirstAt(leaves, first) => FirstAt(r[l], i)
    BY <2>1
  <2>. HIDE DEF At, Exact, l, i
  <2>8. /\ ParentIndex(l, i) \in 0..Len(r[l + 1]) - 1
        /\ r[l + 1][ParentIndex(l, i) + 1] = Joined(r[l][i + 1], e)
        /\ FirstAt(r[l], i) => /\ 2 * ParentIndex(l, i) = IF Odd(i) THEN i - 1 ELSE i
                               /\ FirstAt(r[l + 1], ParentIndex(l, i))
    BY <1>1, <2>2, <2>6, ParentIs
  <2>. HIDE DEF e
  <2>9. index[n] \in 0..Len(r[n]) - 1 /\ c[n] = r[n][index[n] + 1]
    BY <2>2, <2>3, <2>4, <2>5, <2>6, <2>8
  <2>10. At(n)
    BY <2>9 DEF At
  <2>11. Bit(e) = IF Odd(i) THEN 1 ELSE 0
    BY DEF e, Bit, ProofElement
  <2>12. ASSUME FirstAt(leaves, first)  PROVE Exact(n)
    <3>1. 2 * index[n] = (IF Odd(i) THEN i - 1 ELSE i) /\ FirstAt(r[n], index[n])
      BY <2>2, <2>3, <2>7, <2>8, <2>12
    <3>2. index[n] \in Int /\ i \in Int
      BY <2>6, <2>9
    <3>3. i = 2 * index[n] + Bit(e)
      BY <2>11, <3>1, <3>2
    <3>. QED  BY <2>4, <3>1, <3>3 DEF Exact, i, l
  <2>. QED  BY <2>2, <2>10, <2>12
<1>. HIDE DEF At, Exact
<1>6. S = {l \in 0..h : At(l) /\ (FirstAt(leaves, first) => Exact(l))}
  OBVIOUS
<1>. HIDE DEF S
<1>7. \A l \in 0..h : At(l) /\ (FirstAt(leaves, first) => Exact(l))
  <2>1. \A l \in 0..h : l \in S
    BY <1>4, <1>5, UpTo
  <2>. QED  BY <1>6, <2>1
<1>8. Len(r[h]) = 1 /\ h \in 0..h
  BY <1>1 DEF IsTree
<1>9. index[h] = 0 /\ c[h] = root
  <2>1. index[h] \in 0..Len(r[h]) - 1 /\ c[h] = r[h][index[h] + 1]
    BY <1>7, <1>8 DEF At
  <2>2. index[h] = 0
    BY <1>8, <2>1
  <2>3. 0 + 1 = 1
    OBVIOUS
  <2>. QED  BY <1>1, <2>1, <2>2, <2>3
<1>10. ASSUME FirstAt(leaves, first)  PROVE Index(proof) = first
  <2>1. PICK a : Indexing(a, proof, h) /\ Index(proof) = a[h]
    BY <1>2, IndexIs
  <2>. DEFINE T == {n \in 0..h : a[n] = index[h - n]}
  <2>2. 0 \in T
    <3>1. h - 0 = h
      OBVIOUS
    <3>. QED  BY <1>9, <2>1, <3>1 DEF Indexing
  <2>3. ASSUME NEW n \in 1..h, n - 1 \in T  PROVE n \in T
    <3>1. /\ h - n + 1 \in 0..h /\ h - n + 1 # 0 /\ (h - n + 1) - 1 = h - n
          /\ h - (n - 1) = h - n + 1
      OBVIOUS
    <3>2. index[h - n] = 2 * index[h - n + 1] + Bit(proof[h - n + 1])
      BY <1>7, <1>10, <3>1 DEF Exact
    <3>3. a[n] = 2 * a[n - 1] + Bit(proof[h - n + 1])
      BY <1>2, <2>1 DEF Indexing
    <3>. QED  BY <2>3, <3>1, <3>2, <3>3
  <2>. HIDE DEF T
  <2>4. \A n \in 0..h : n \in T
    BY <2>2, <2>3, UpTo
  <2>5. a[h] = index[h - h] /\ h - h = 0
    BY <1>8, <2>4 DEF T
  <2>6. index[0] = first
    BY DEF Path
  <2>. QED  BY <2>1, <2>5, <2>6
<1>. QED  BY <1>2, <1>3, <1>9, <1>10 DEF VerifyInTree

\* The proof getInclusionProof makes for a key of the object shows the key, at the
\* place of its first copy.
LEMMA Included ==
  ASSUME TreeInv, NEW key \in Members
  PROVE  /\ Len(GetInclusionProof(key, FALSE)) \in Nat
         /\ VerifyInTree(root, key, GetInclusionProof(key, FALSE))
         /\ Index(GetInclusionProof(key, FALSE)) = Place(rawLeaves, key) - 1
<1>. DEFINE first == Place(rawLeaves, key) - 1
            proof == GetInclusionProof(key, FALSE)
<1>1. /\ rawLeaves \in Seq(AllKeys) /\ leaves \in Seq(Leaf)
      /\ Len(rawLeaves) \in Nat /\ Len(leaves) \in Nat /\ Len(rawLeaves) <= Len(leaves)
      /\ \A i \in 1..Len(rawLeaves) : leaves[i] = HashLeaf(rawLeaves[i])
  BY DEF TreeInv, Holds, KeySeq
<1>2. PICK i \in 1..Len(rawLeaves) : key = rawLeaves[i]
  BY <1>1 DEF Members, ToSet
<1>3. /\ Place(rawLeaves, key) \in 1..Len(rawLeaves) /\ rawLeaves[Place(rawLeaves, key)] = key
      /\ \A j \in 1..Len(rawLeaves) : rawLeaves[j] = key => Place(rawLeaves, key) <= j
  BY <1>1, <1>2, PlaceIs
<1>4. first \in 0..Len(leaves) - 1 /\ first + 1 = Place(rawLeaves, key)
  BY <1>1, <1>3
<1>. HIDE DEF first
<1>5. leaves[first + 1] = HashLeaf(key)
  BY <1>1, <1>3, <1>4
<1>6. FirstAt(leaves, first)
  <2>. SUFFICES ASSUME NEW k \in 0..first - 1, leaves[k + 1] = leaves[first + 1]
                PROVE  FALSE
    BY DEF FirstAt
  <2>1. k + 1 \in 1..Len(rawLeaves) /\ k + 1 < Place(rawLeaves, key)
    BY <1>1, <1>3, <1>4
  <2>2. HashLeaf(rawLeaves[k + 1]) = HashLeaf(key)
    BY <1>1, <1>5, <2>1
  <2>3. rawLeaves[k + 1] = key
    BY <2>2 DEF HashLeaf
  <2>. QED  BY <1>1, <1>3, <2>1, <2>3
<1>7. leaves # <<>>
  BY <1>1, <1>2
<1>8. Depth \in Nat
  BY <1>7, TreeIs
<1>9. PICK index : /\ Path(index, first, Depth)
                   /\ proof = [j \in 1..Depth |-> Step(index, j)]
  BY <1>8, MadeProofIs DEF first
<1>. HIDE DEF proof
<1>10. /\ Len(proof) \in Nat /\ VerifyInTree(root, key, proof)
       /\ Index(proof) = first
  BY <1>4, <1>5, <1>6, <1>7, <1>9, MadeProof
<1>. QED  BY <1>10 DEF proof, first

\* getInclusionProof's proof for any of the object's keys convinces
\* verify_in_tree under the object's root, whatever keys were added and removed
\* (merkle.ts, getInclusionProof).
THEOREM InclusionStaysAccepted == Spec => []InclusionAccepted
<1>1. TreeInv => InclusionAccepted
  BY Included DEF InclusionAccepted
<1>. QED  BY <1>1, TreeAlways, PTL

-----------------------------------------------------------------------------
(* The proofs that getExclusionProof makes.                                  *)

LEMMA MaxIs ==
  ASSUME NEW S, S \subseteq Nat, NEW x \in S, \A y \in S : y <= x
  PROVE  Max(S) = x
<1>1. Max(S) = CHOOSE z \in S : \A y \in S : z >= y
  BY DEF Max
<1>2. \A y \in S : x >= y
  OBVIOUS
<1>3. Max(S) \in S /\ \A y \in S : Max(S) >= y
  BY <1>1, <1>2
<1>4. Max(S) \in Nat /\ x \in Nat /\ Max(S) >= x /\ Max(S) <= x
  BY <1>3
<1>. QED  BY <1>4

\* A key that is listed once has one place.
LEMMA OnceIs ==
  ASSUME Len(rawLeaves) \in Nat, NEW i \in 1..Len(rawLeaves), NEW j \in 1..Len(rawLeaves),
         rawLeaves[i] = rawLeaves[j], Once(rawLeaves[i])
  PROVE  i = j
<1>. DEFINE places == {k \in 1..Len(rawLeaves) : rawLeaves[k] = rawLeaves[i]}
            two == {i} \cup {j}
<1>1. IsFiniteSet(1..Len(rawLeaves))
  BY FS_Interval
<1>2. places \subseteq 1..Len(rawLeaves) /\ two \subseteq places
  OBVIOUS
<1>3. IsFiniteSet(places) /\ Cardinality(places) <= 1
  BY <1>1, <1>2, FS_Subset DEF Once
<1>4. Cardinality(two) <= Cardinality(places)
  BY <1>2, <1>3, FS_Subset
<1>5. IsFiniteSet({i}) /\ Cardinality({i}) = 1
  BY FS_Singleton
<1>6. i # j => Cardinality(two) = 2
  <2>. DEFINE one == {i}
  <2>1. i # j => j \notin one
    OBVIOUS
  <2>2. two = one \cup {j}
    OBVIOUS
  <2>. HIDE DEF one, two
  <2>3. IsFiniteSet(one) /\ Cardinality(one) = 1
    BY <1>5 DEF one
  <2>4. Cardinality(one \cup {j}) = IF j \in one THEN Cardinality(one) ELSE Cardinality(one) + 1
    BY <2>3, FS_AddElement
  <2>5. j \notin one => Cardinality(one \cup {j}) = Cardinality(one) + 1
    BY <2>4
  <2>. QED  BY <2>1, <2>2, <2>3, <2>5
<1>7. Cardinality(places) \in Nat
  BY <1>3, FS_CardinalityType
<1>. QED  BY <1>3, <1>4, <1>6, <1>7

LEMMA Excluded ==
  ASSUME TreeInv, NEW key \in AllKeys, key \notin Members, Above(key) # {},
         Below(key) # {} => Once(Max(Below(key)))
  PROVE  ExclusionAcceptedFor(key)
<1>. DEFINE made == GetExclusionProof(key)
            n == Len(rawLeaves)
<1>1. /\ rawLeaves \in Seq(AllKeys) /\ n \in Nat
      /\ \A i \in 1..n : rawLeaves[i] \in Nat
      /\ \A i, j \in 1..n : i <= j => rawLeaves[i] <= rawLeaves[j]
      /\ key \in Nat
  BY KeysAreNumbers DEF TreeInv, Holds, KeySeq, Ascending
<1>2. \A member : member \in Members <=> \E i \in 1..n : member = rawLeaves[i]
  BY <1>1 DEF Members, ToSet
<1>3. Members \subseteq Nat
  BY <1>1, <1>2
<1>4. /\ Below(key) \subseteq Nat /\ Above(key) \subseteq Nat
      /\ \A member \in Members : member \in Below(key) \/ member \in Above(key)
      /\ \A member \in Below(key) : member \in Members /\ member < key
      /\ \A member \in Above(key) : member \in Members /\ member > key
  <2>1. \A member \in Members : member \in Nat /\ member # key
    BY <1>3
  <2>2. \A member \in Members : member < key \/ member > key
    BY <1>1, <2>1
  <2>3. Below(key) \subseteq Members /\ Above(key) \subseteq Members
    BY DEF Below, Above
  <2>4. \A member \in Members : member \in Below(key) \/ member \in Above(key)
    BY <2>2 DEF Below, Above
  <2>5. /\ \A member \in Below(key) : member < key
        /\ \A member \in Above(key) : member > key
    BY DEF Below, Above
  <2>. QED  BY <1>3, <2>3, <2>4, <2>5
<1>5. Members # {}
  BY <1>4
<1>6. CASE Below(key) = {}
  <2>. DEFINE first == rawLeaves[1]
              proof == GetInclusionProof(first, FALSE)
  <2>1. 1 \in 1..n
    BY <1>1, <1>2, <1>5
  <2>2. first \in Members /\ key < first
    BY <1>1, <1>2, <1>4, <1>6, <2>1
  <2>3. Place(rawLeaves, first) = 1
    <3>1. Place(rawLeaves, first) \in 1..n /\ Place(rawLeaves, first) <= 1
      BY <1>1, <2>1, PlaceIs
    <3>. QED  BY <1>1, <3>1
  <2>4. VerifyInTree(root, first, proof) /\ Index(proof) = 1 - 1
    BY <2>2, <2>3, Included
  <2>5. made = [neighbors |-> <<first>>, proofs |-> <<proof>>]
    BY <1>5, <1>6 DEF GetExclusionProof
  <2>. HIDE DEF first, proof
  <2>6. VerifyNotInTree(root, key, <<proof>>, <<first>>)
    BY <2>2, <2>4 DEF VerifyNotInTree
  <2>. QED  BY <2>5, <2>6 DEF ExclusionAcceptedFor
<1>7. CASE Below(key) # {}
  <2>. DEFINE c == Min(Above(key))
              q == Place(rawLeaves, c)
              b == rawLeaves[q - 1]
              left == GetInclusionProof(b, FALSE)
              right == GetInclusionProof(c, FALSE)
  <2>1. c \in Above(key) /\ \A member \in Above(key) : c <= member
    BY <1>4, MinIs
  <2>2. c \in Members /\ c > key
    BY <1>4, <2>1
  <2>. HIDE DEF c
  <2>3. q \in 1..n /\ rawLeaves[q] = c /\ \A j \in 1..n : rawLeaves[j] = c => q <= j
    <3>1. PICK i \in 1..n : c = rawLeaves[i]
      BY <1>2, <2>2
    <3>. QED  BY <1>1, <3>1, PlaceIs
  <2>. HIDE DEF q
  <2>4. PICK i \in 1..n : rawLeaves[i] < key
    BY <1>2, <1>4, <1>7
  <2>5. q # 1 /\ q - 1 \in 1..n
    <3>1. q = 1 => rawLeaves[q] <= rawLeaves[i]
      BY <1>1, <2>3, <2>4
    <3>. QED  BY <1>1, <2>2, <2>3, <2>4, <3>1
  <2>6. b \in Members /\ b # c /\ b <= c /\ b \in Nat
    BY <1>1, <1>2, <2>3, <2>5
  <2>7. b \in Below(key) /\ b < key
    BY <1>1, <1>4, <2>1, <2>2, <2>3, <2>6
  <2>8. ASSUME NEW member \in Below(key)  PROVE member <= b
    <3>1. PICK j \in 1..n : member = rawLeaves[j]
      BY <1>2, <1>4
    <3>2. j < q
      <4>1. q <= j => rawLeaves[q] <= rawLeaves[j]
        BY <1>1, <2>3
      <4>. QED  BY <1>1, <1>4, <2>2, <2>3, <3>1, <4>1
    <3>3. j <= q - 1
      BY <2>3, <3>2
    <3>. QED  BY <1>1, <2>5, <3>1, <3>3
  <2>9. Max(Below(key)) = b
    <3>. HIDE DEF b
    <3>. QED  BY <1>4, <2>7, <2>8, MaxIs
  <2>10. Once(b)
    BY <1>7, <2>9
  <2>11. Place(rawLeaves, b) = q - 1
    <3>1. Place(rawLeaves, b) \in 1..n /\ rawLeaves[Place(rawLeaves, b)] = b
      BY <1>1, <2>5, PlaceIs
    <3>. QED  BY <1>1, <2>5, <2>10, <3>1, OnceIs
  <2>12. VerifyInTree(root, b, left) /\ Index(left) = (q - 1) - 1
    BY <2>6, <2>11, Included
  <2>13. VerifyInTree(root, c, right) /\ Index(right) = q - 1
    BY <2>2, Included DEF q
  <2>14. made = [neighbors |-> <<b, c>>, proofs |-> <<left, right>>]
    BY <1>5, <1>7, <2>9 DEF GetExclusionProof, c
  <2>. HIDE DEF b, left, right
  <2>15. Adjacent(left, right)
    BY <2>3, <2>12, <2>13 DEF Adjacent
  <2>16. VerifyNotInTree(root, key, <<left, right>>, <<b, c>>)
    BY <2>2, <2>7, <2>12, <2>13, <2>15 DEF VerifyNotInTree
  <2>. QED  BY <2>14, <2>16 DEF ExclusionAcceptedFor
<1>. QED  BY <1>6, <1>7

\* verify_not_in_tree accepts what getExclusionProof makes for a key below the
\* largest one in the tree, unless the key next below it is listed twice
\* (merkle.ts, getExclusionProof).
THEOREM ExclusionStaysAccepted == Spec => []ExclusionAcceptedBelowLargest
<1>1. TreeInv => ExclusionAcceptedBelowLargest
  BY Excluded DEF ExclusionAcceptedBelowLargest
<1>. QED  BY <1>1, TreeAlways, PTL

-----------------------------------------------------------------------------
(* The object's own verifiers.                                               *)

\* What the two verifiers say of one key and one piece of evidence.
Agree(key, e) ==
  /\ VerifyNotInTree(root, key, e.proofs, e.neighbors)
       => verifyExclusionProof(key, e.proofs, e.neighbors)
  /\ verifyExclusionProof(key, e.proofs, e.neighbors) => key \notin Members

LEMMA VerifiersDoAgree ==
  ASSUME TreeInv, LikeNew, Len(rawLeaves) > 1, \A member \in Members : Once(member),
         NEW key \in AllKeys, InTextOrder(Members \cup {key}),
         NEW e \in Evidence(Accepted(root))
  PROVE  Agree(key, e)
<1>. DEFINE n == Len(rawLeaves)
<1>1. /\ KeySeq(rawLeaves) /\ n \in Nat \ {0} /\ Reached(rawLeaves)
      /\ root = RootOf(TreeOf(Hashes(rawLeaves)))
  <2>. DEFINE raw == RawLeavesOf(rawLeaves)
  <2>1. rawLeaves # <<>> /\ n \in Nat
    BY DEF TreeInv, Holds, KeySeq
  <2>2. raw = rawLeaves /\ Reached(raw) /\ KeySeq(raw) /\ root = RootOf(TreeOf(Hashes(raw)))
    BY <2>1, RootIsNewIs DEF RootIsNew
  <2>. HIDE DEF raw
  <2>. QED  BY <2>1, <2>2
<1>2. /\ rawLeaves \in Seq(AllKeys) /\ key \in Nat /\ n > 1
      /\ \A i \in 1..n : rawLeaves[i] \in Nat
      /\ \A i, j \in 1..n : i <= j => rawLeaves[i] <= rawLeaves[j]
  BY <1>1, KeysAreNumbers DEF KeySeq, Ascending
<1>3. \A member : member \in Members <=> \E i \in 1..n : member = rawLeaves[i]
  BY <1>2 DEF Members, ToSet
<1>4. ASSUME NEW i \in 1..n, NEW j \in 1..n, rawLeaves[i] = rawLeaves[j]  PROVE i = j
  <2>1. Once(rawLeaves[i])
    BY <1>3
  <2>. QED  BY <1>1, <1>4, <2>1, OnceIs
<1>5. ASSUME NEW i \in 1..n  PROVE Place(rawLeaves, rawLeaves[i]) = i
  <2>1. /\ Place(rawLeaves, rawLeaves[i]) \in 1..n
        /\ rawLeaves[Place(rawLeaves, rawLeaves[i])] = rawLeaves[i]
    BY <1>1, PlaceIs
  <2>. QED  BY <1>4, <2>1
<1>6. ASSUME NEW member \in Members
      PROVE  (member < key <=> TextBelow(member, key)) /\ (key < member <=> TextBelow(key, member))
  BY DEF InTextOrder
<1>7. Last(rawLeaves) = rawLeaves[n] /\ n \in 1..n /\ 1 \in 1..n
  BY <1>1 DEF Last
<1>8. Len(tree[1]) # 1
  <2>1. n <= Len(leaves) /\ Len(leaves) \in Nat
    BY DEF TreeInv, Holds
  <2>2. leaves # <<>>
    BY <1>2, <2>1
  <2>3a. PICK h \in Nat : \E r : IsTree(r, leaves, h) /\ tree = [i \in 1..h + 1 |-> r[i - 1]]
    BY <2>2, TreeIs
  <2>3. PICK r : IsTree(r, leaves, h) /\ tree = [i \in 1..h + 1 |-> r[i - 1]]
    BY <2>3a
  <2>4. tree[1] = r[0] /\ r[0] = leaves
    BY <2>3 DEF IsTree
  <2>5. tree[1] = leaves
    BY <2>4
  <2>6. n > 1 /\ n \in Nat
    BY <1>1, <1>2
  <2>7. \A x, y \in Nat : x > 1 /\ x <= y => y # 1
    OBVIOUS
  <2>8. Len(leaves) # 1
    BY <2>1, <2>6, <2>7
  <2>. QED  BY <2>5, <2>8
<1>9. CASE \E a \in Accepted(root) : e = OneNeighbor(a)
  <2>1. PICK a \in Accepted(root) : e = OneNeighbor(a)
    BY <1>9
  <2>2. Len(a.proof) \in Nat /\ VerifyInTree(root, a.key, a.proof) /\ a.key \in Members
    BY <1>1, AcceptedIs DEF Members
  <2>3. PICK j \in 1..n : /\ a.key = rawLeaves[j]
                          /\ Index(a.proof) = 0 => j = 1
                          /\ Index(a.proof) = LastIndex(a.proof) => j = n
    BY <1>1, <2>2, ShownKey
  <2>4. /\ Len(e.proofs) = 1 /\ Len(e.neighbors) = 1
        /\ e.proofs[1] = a.proof /\ e.neighbors[1] = a.key
    BY <2>1 DEF OneNeighbor
  <2>5. ASSUME VerifyNotInTree(root, key, e.proofs, e.neighbors)
        PROVE  verifyExclusionProof(key, e.proofs, e.neighbors)
    <3>1. \/ key < a.key /\ j = 1
          \/ key > a.key /\ j = n
      BY <2>3, <2>4, <2>5 DEF VerifyNotInTree
    <3>2. j = n => a.key # rawLeaves[1]
      BY <1>2, <1>4, <1>7, <2>3
    <3>3. IF a.key = rawLeaves[1]
          THEN Len(tree[1]) = 1 \/ TextBelow(key, a.key)
          ELSE a.key = Last(rawLeaves) /\ TextBelow(a.key, key)
      BY <1>6, <1>7, <2>2, <2>3, <3>1, <3>2
    <3>. QED  BY <2>2, <2>4, <3>3 DEF verifyExclusionProof, verifyInclusionProof
  <2>6. ASSUME verifyExclusionProof(key, e.proofs, e.neighbors), key \in Members
        PROVE  FALSE
    <3>1. IF a.key = rawLeaves[1]
          THEN Len(tree[1]) = 1 \/ TextBelow(key, a.key)
          ELSE a.key = Last(rawLeaves) /\ TextBelow(a.key, key)
      BY <2>4, <2>6 DEF verifyExclusionProof
    <3>2. \/ a.key = rawLeaves[1] /\ key < a.key
          \/ a.key = rawLeaves[n] /\ a.key < key
      BY <1>6, <1>7, <1>8, <2>2, <3>1
    <3>3. PICK i \in 1..n : key = rawLeaves[i]
      BY <1>3, <2>6
    <3>4. rawLeaves[1] <= rawLeaves[i] /\ rawLeaves[i] <= rawLeaves[n]
      BY <1>2, <1>7
    <3>. QED  BY <1>2, <1>7, <3>2, <3>3, <3>4
  <2>. QED  BY <2>5, <2>6 DEF Agree
<1>10. CASE \E a, b \in Accepted(root) : e = TwoNeighbors(a, b)
  <2>1. PICK a, b \in Accepted(root) : e = TwoNeighbors(a, b)
    BY <1>10
  <2>2. Len(a.proof) \in Nat /\ VerifyInTree(root, a.key, a.proof) /\ a.key \in Members
    BY <1>1, AcceptedIs DEF Members
  <2>3. Len(b.proof) \in Nat /\ VerifyInTree(root, b.key, b.proof) /\ b.key \in Members
    BY <1>1, AcceptedIs DEF Members
  <2>4. /\ Len(e.proofs) = 2 /\ Len(e.neighbors) = 2
        /\ e.proofs[1] = a.proof /\ e.neighbors[1] = a.key
        /\ e.proofs[2] = b.proof /\ e.neighbors[2] = b.key
    BY <2>1 DEF TwoNeighbors
  <2>5. ASSUME VerifyNotInTree(root, key, e.proofs, e.neighbors)
        PROVE  verifyExclusionProof(key, e.proofs, e.neighbors)
    <3>1. a.key < key /\ key < b.key /\ Adjacent(a.proof, b.proof)
      BY <2>4, <2>5 DEF VerifyNotInTree
    <3>2. PICK j, k \in 1..n : a.key = rawLeaves[j] /\ b.key = rawLeaves[k] /\ k <= j + 1
      BY <1>1, <2>2, <2>3, <3>1, ShownKeys
    <3>3. k = j + 1
      <4>1. k <= j => rawLeaves[k] <= rawLeaves[j]
        BY <1>2
      <4>2. ~ (rawLeaves[k] <= rawLeaves[j])
        BY <1>2, <3>1, <3>2
      <4>. QED  BY <3>2, <4>1, <4>2
    <3>4. NextTo(a.key, b.key)
      BY <1>5, <2>2, <2>3, <3>2, <3>3 DEF NextTo, LeafIndex
    <3>5. TextBelow(a.key, key) /\ TextBelow(key, b.key)
      BY <1>6, <2>2, <2>3, <3>1
    <3>6. \A i \in 1..Len(e.proofs) : verifyInclusionProof(e.neighbors[i], e.proofs[i])
      BY <2>2, <2>3, <2>4 DEF verifyInclusionProof
    <3>. QED  BY <2>4, <3>4, <3>5, <3>6 DEF verifyExclusionProof
  <2>6. ASSUME verifyExclusionProof(key, e.proofs, e.neighbors), key \in Members
        PROVE  FALSE
    <3>1. TextBelow(a.key, key) /\ TextBelow(key, b.key) /\ NextTo(a.key, b.key)
      BY <2>4, <2>6 DEF verifyExclusionProof
    <3>2. a.key < key /\ key < b.key
      BY <1>6, <2>2, <2>3, <3>1
    <3>3. PICK i \in 1..n : key = rawLeaves[i]
      BY <1>3, <2>6
    <3>4. PICK j \in 1..n : a.key = rawLeaves[j]
      BY <1>3, <2>2
    <3>5. PICK k \in 1..n : b.key = rawLeaves[k]
      BY <1>3, <2>3
    <3>6. k = j + 1
      BY <1>5, <2>2, <2>3, <3>1, <3>4, <3>5 DEF NextTo, LeafIndex
    <3>7. /\ i <= j => rawLeaves[i] <= rawLeaves[j]
          /\ k <= i => rawLeaves[k] <= rawLeaves[i]
      BY <1>2
    <3>8. i <= j \/ k <= i
      BY <3>6
    <3>. QED  BY <1>2, <3>2, <3>3, <3>4, <3>5, <3>7, <3>8
  <2>. QED  BY <2>5, <2>6 DEF Agree
<1>. QED  BY <1>9, <1>10 DEF Evidence

\* Where text order is byte order, the object's verifyExclusionProof accepts all
\* that verify_not_in_tree accepts and nothing for a key of the object
\* (merkle.ts, verifyExclusionProof).
THEOREM VerifiersStayInAgreement == Spec => []VerifiersAgree
<1>1. TreeInv => VerifiersAgree
  BY VerifiersDoAgree DEF VerifiersAgree, Agree
<1>. QED  BY <1>1, TreeAlways, PTL

-----------------------------------------------------------------------------
(* The objects that stay like new ones.                                      *)

LEMMA HoldsAll ==
  ASSUME NEW raw, NEW hashes, Holds(raw, hashes), Len(hashes) = Len(raw)
  PROVE  hashes = Hashes(raw)
<1>1. /\ KeySeq(raw) /\ hashes \in Seq(Leaf)
      /\ \A i \in 1..Len(raw) : hashes[i] = HashLeaf(raw[i])
  BY DEF Holds
<1>2. Hashes(raw) \in Seq(Leaf) /\ Len(Hashes(raw)) = Len(raw)
  BY <1>1, HashesHold DEF Holds
<1>3. \A i \in 1..Len(raw) : Hashes(raw)[i] = HashLeaf(raw[i])
  BY DEF Hashes
<1>4. \A i \in 1..Len(hashes) : hashes[i] = Hashes(raw)[i]
  BY <1>1, <1>3
<1>. HIDE DEF Leaf
<1>. QED  BY <1>1, <1>2, <1>4, SeqEqual

\* Padding once is enough.
LEMMA PaddedTwice ==
  ASSUME NEW raw, NEW hashes, Holds(raw, hashes)
  PROVE  Padded(Padded(hashes)) = Padded(hashes)
<1>. DEFINE twice == Padded(hashes)
<1>1. Paired(twice) /\ Holds(raw, twice)
  BY PaddedHolds
<1>. HIDE DEF twice
<1>a. Len(twice) \in Nat
  BY <1>1 DEF Holds
<1>b. ~ (Len(twice) > 1 /\ Odd(Len(twice)))
  BY <1>1, <1>a DEF Paired
<1>2. Padded(twice) = twice
  BY <1>b DEF Padded
<1>. QED  BY <1>2 DEF twice

\* Hashes that are those of the keys make an object like a new one.
LEMMA MadeNew ==
  ASSUME NEW raw, KeySeq(raw), raw # <<>>, NEW hashes, UpdateTree(raw, hashes),
         hashes = Hashes(raw) \/ hashes = Padded(Hashes(raw))
  PROVE  IsNew(rawLeaves', leaves', root')
<1>1. rawLeaves' = raw /\ leaves' = Padded(hashes) /\ root' = RootOf(TreeOf(hashes))
  BY DEF UpdateTree
<1>2. Holds(raw, Hashes(raw)) /\ Len(Hashes(raw)) = Len(raw)
  BY HashesHold
<1>3. Padded(hashes) = Padded(Hashes(raw))
  BY <1>2, PaddedTwice
<1>4. hashes = <<>> <=> Hashes(raw) = <<>>
  BY <1>2, PaddedHolds
<1>5. TreeOf(hashes) = TreeOf(Hashes(raw))
  BY <1>3, <1>4 DEF TreeOf
<1>. QED  BY <1>1, <1>3, <1>5 DEF IsNew

\* How many hashes an object like a new one keeps.
LEMMA NewLength ==
  ASSUME TreeInv, LikeNew
  PROVE  /\ Len(rawLeaves) \in Nat
         /\ Len(leaves) = IF Len(rawLeaves) > 1 /\ Odd(Len(rawLeaves))
                          THEN Len(rawLeaves) + 1 ELSE Len(rawLeaves)
<1>1. KeySeq(rawLeaves) /\ Len(rawLeaves) \in Nat /\ leaves = Padded(Hashes(rawLeaves))
  BY DEF TreeInv, Holds, KeySeq, LikeNew, IsNew
<1>2. Holds(rawLeaves, Hashes(rawLeaves)) /\ Len(Hashes(rawLeaves)) = Len(rawLeaves)
  BY <1>1, HashesHold
<1>3. CASE Len(rawLeaves) > 1 /\ Odd(Len(rawLeaves))
  <2>1. leaves = WithLastRepeated(Hashes(rawLeaves))
    BY <1>1, <1>2, <1>3 DEF Padded
  <2>2. Len(Hashes(rawLeaves)) # 0
    BY <1>2, <1>3
  <2>. QED  BY <1>1, <1>2, <1>3, <2>1, <2>2, RepeatedHolds
<1>4. CASE ~ (Len(rawLeaves) > 1 /\ Odd(Len(rawLeaves)))
  BY <1>1, <1>2, <1>4 DEF Padded
<1>. QED  BY <1>1, <1>3, <1>4

LEMMA AddKeepsNew ==
  ASSUME TreeInv, LikeNew, NEW key \in AllKeys, AddLeaf(key),
         Len(rawLeaves) = 1 \/ (Len(rawLeaves) > 1 /\ ~ Odd(Len(rawLeaves)))
  PROVE  IsNew(rawLeaves', leaves', root')
<1>1a. PICK raw : \E hashes :
         /\ Holds(raw, hashes)
         /\ Len(raw) = Len(rawLeaves) + 1 /\ Len(hashes) = Len(leaves) + 1
         /\ UpdateTree(raw, IF Odd(Len(raw)) THEN WithLastRepeated(hashes) ELSE hashes)
  BY AddHolds
<1>1. PICK hashes :
         /\ Holds(raw, hashes)
         /\ Len(raw) = Len(rawLeaves) + 1 /\ Len(hashes) = Len(leaves) + 1
         /\ UpdateTree(raw, IF Odd(Len(raw)) THEN WithLastRepeated(hashes) ELSE hashes)
  BY <1>1a
<1>2. /\ Len(rawLeaves) \in Nat
      /\ Len(leaves) = IF Len(rawLeaves) > 1 /\ Odd(Len(rawLeaves))
                       THEN Len(rawLeaves) + 1 ELSE Len(rawLeaves)
  BY NewLength
<1>3. Len(leaves) = Len(rawLeaves)
  <2>1. \A n \in Nat : n = 1 => ~ (n > 1)
    OBVIOUS
  <2>2. ~ (Len(rawLeaves) > 1 /\ Odd(Len(rawLeaves)))
    BY <1>2, <2>1
  <2>. QED  BY <1>2, <2>2
<1>4. KeySeq(raw) /\ raw # <<>> /\ Len(hashes) = Len(raw)
  <2>1. Len(raw) # 0
    BY <1>1, <1>2
  <2>. QED  BY <1>1, <1>3, <2>1 DEF Holds
<1>5. hashes = Hashes(raw)
  BY <1>1, <1>4, HoldsAll
<1>6. CASE Odd(Len(raw))
  <2>1. Len(hashes) > 1 /\ Odd(Len(hashes))
    BY <1>1, <1>2, <1>3, <1>4, <1>6
  <2>2. WithLastRepeated(hashes) = Padded(Hashes(raw))
    BY <1>5, <2>1 DEF Padded
  <2>3. UpdateTree(raw, Padded(Hashes(raw)))
    BY <1>1, <1>6, <2>2
  <2>. QED  BY <1>4, <2>3, MadeNew
<1>7. CASE ~ Odd(Len(raw))
  <2>1. UpdateTree(raw, Hashes(raw))
    BY <1>1, <1>5, <1>7
  <2>. QED  BY <1>4, <2>1, MadeNew
<1>. QED  BY <1>6, <1>7

LEMMA RemoveKeepsNew ==
  ASSUME TreeInv, LikeNew, NEW key \in AllKeys, RemoveLeaf(key)
  PROVE  /\ rawLeaves' = <<>> => Emptied'
         /\ rawLeaves' # <<>> => IsNew(rawLeaves', leaves', root')
<1>1a. PICK raw : \E hashes :
         /\ Holds(raw, hashes)
         /\ Len(rawLeaves) # 0 /\ Len(raw) = Len(rawLeaves) - 1
         /\ \/ Len(hashes) = Len(WithoutRepeat) - 1
            \/ Len(rawLeaves) = 1 /\ Len(hashes) = Len(WithoutRepeat)
         /\ UpdateTree(raw, hashes)
  BY RemoveHolds
<1>1. PICK hashes :
         /\ Holds(raw, hashes)
         /\ Len(rawLeaves) # 0 /\ Len(raw) = Len(rawLeaves) - 1
         /\ \/ Len(hashes) = Len(WithoutRepeat) - 1
            \/ Len(rawLeaves) = 1 /\ Len(hashes) = Len(WithoutRepeat)
         /\ UpdateTree(raw, hashes)
  BY <1>1a
<1>2. /\ Len(rawLeaves) \in Nat
      /\ Len(leaves) = IF Len(rawLeaves) > 1 /\ Odd(Len(rawLeaves))
                       THEN Len(rawLeaves) + 1 ELSE Len(rawLeaves)
  BY NewLength
<1>3. KeySeq(raw) /\ Len(hashes) \in Nat /\ leaves \in Seq(Leaf)
  BY <1>1 DEF Holds, TreeInv
<1>4. Len(WithoutRepeat) = IF Odd(Len(rawLeaves)) THEN Len(leaves) - 1 ELSE Len(leaves)
  <2>. DEFINE front == SubSeq(leaves, 1, Len(leaves) - 1)
  <2>1. Odd(Len(rawLeaves)) => WithoutRepeat = front
    BY DEF WithoutRepeat, Front
  <2>2. ~ Odd(Len(rawLeaves)) => WithoutRepeat = leaves
    BY DEF WithoutRepeat
  <2>3. Len(leaves) \in Nat \ {0}
    BY <1>1, <1>2
  <2>a. 1 \in Int /\ Len(leaves) - 1 \in Int /\ \A j \in 1..Len(leaves) - 1 : leaves[j] \in Leaf
    BY <1>3, <2>3
  <2>b. Len(front) = IF 1 <= Len(leaves) - 1 THEN Len(leaves) - 1 - 1 + 1 ELSE 0
    BY <2>a, SubSeqProperties
  <2>4. Len(front) = Len(leaves) - 1
    <3>1. \A n \in Nat \ {0} : (IF 1 <= n - 1 THEN n - 1 - 1 + 1 ELSE 0) = n - 1
      OBVIOUS
    <3>. HIDE DEF front
    <3>. QED  BY <2>3, <2>b, <3>1
  <2>. HIDE DEF front
  <2>. QED  BY <2>1, <2>2, <2>4
<1>5. Odd(1)
  BY DEF Odd
<1>6. Len(hashes) = Len(raw)
  <2>1. CASE Len(rawLeaves) = 1
    <3>1. Len(WithoutRepeat) = 0 /\ Len(raw) = 0
      BY <1>1, <1>2, <1>4, <1>5, <2>1
    <3>. QED  BY <1>1, <1>3, <3>1
  <2>2. CASE Len(rawLeaves) # 1
    <3>1. Len(WithoutRepeat) = Len(rawLeaves)
      BY <1>1, <1>2, <1>4, <2>2
    <3>. QED  BY <1>1, <2>2, <3>1
  <2>. QED  BY <2>1, <2>2
<1>7. hashes = Hashes(raw)
  BY <1>1, <1>6, HoldsAll
<1>8. rawLeaves' = raw /\ leaves' = Padded(hashes)
  BY <1>1 DEF UpdateTree
<1>9. CASE raw = <<>>
  <2>1. hashes = <<>>
    BY <1>7, <1>9 DEF Hashes
  <2>2. Padded(hashes) = <<>>
    <3>1. Len(<<>>) = 0
      OBVIOUS
    <3>. QED  BY <2>1, <3>1 DEF Padded
  <2>. QED  BY <1>8, <1>9, <2>2 DEF Emptied
<1>10. CASE raw # <<>>
  BY <1>1, <1>3, <1>7, <1>8, <1>10, MadeNew
<1>. QED  BY <1>9, <1>10

\* Removing a key other than the last one from an object like a new one, or adding
\* one to a single key or to two, four, ... of them, leaves what the constructor
\* would have made; removing the last key leaves an object without keys or hashes
\* (merkle.ts, addLeaf and removeLeaf).
THEOREM UpdatesDoKeepLikeNew == Spec => UpdatesKeepLikeNew
<1>. DEFINE Less == Len(rawLeaves') < Len(rawLeaves)
            Few == Len(rawLeaves) = 1 \/ ~Odd(Len(rawLeaves))
            Empties == rawLeaves' = <<>> => Emptied'
            Renews == rawLeaves' # <<>> /\ (Less \/ Few) => IsNew(rawLeaves', leaves', root')
            Keeps == LikeNew => Empties /\ Renews
<1>1. TreeInv /\ [Next]_vars => [Keeps]_vars
  <2>1. ASSUME TreeInv, LikeNew, NEW key \in AllKeys, AddLeaf(key)
        PROVE  Empties /\ Renews
    <3>1a. PICK raw : \E hashes :
             Len(raw) = Len(rawLeaves) + 1 /\ \E some : UpdateTree(raw, some)
      BY <2>1, AddHolds
    <3>1. Len(rawLeaves') = Len(rawLeaves) + 1 /\ Len(rawLeaves) \in Nat
      BY <2>1, <3>1a, NewLength DEF UpdateTree
    <3>2. Len(rawLeaves) # 0
      BY <2>1 DEF LikeNew, IsNew, TreeInv, Holds, KeySeq
    <3>3. ~Less /\ rawLeaves' # <<>>
      BY <3>1
    <3>4a. Len(rawLeaves) = 1 \/ Len(rawLeaves) > 1
      <4>1. Len(rawLeaves) \in Nat /\ Len(rawLeaves) # 0
        BY <3>1, <3>2
      <4>2. \A n \in Nat : n # 0 => n = 1 \/ n > 1
        OBVIOUS
      <4>. QED  BY <4>1, <4>2, Zenon
    <3>4. ASSUME Few  PROVE Len(rawLeaves) = 1 \/ (Len(rawLeaves) > 1 /\ ~Odd(Len(rawLeaves)))
      BY <3>4, <3>4a, Zenon
    <3>. QED  BY <2>1, <3>3, <3>4, AddKeepsNew
  <2>2. ASSUME TreeInv, LikeNew, NEW key \in AllKeys, RemoveLeaf(key)
        PROVE  Empties /\ Renews
    BY <2>2, RemoveKeepsNew
  <2>. HIDE DEF Empties, Renews
  <2>. QED  BY <2>1, <2>2 DEF Next, AllKeys
<1>. QED  BY <1>1, TreeAlways, PTL DEF Spec, UpdatesKeepLikeNew
=============================================================================
