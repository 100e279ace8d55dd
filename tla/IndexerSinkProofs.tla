--------------------------- MODULE IndexerSinkProofs ---------------------------
(***************************************************************************)
(* Machine-checked proofs about IndexerSink, for any chain, any number of  *)
(* builds, and any number of crashes, deployments and repairs.             *)
(***************************************************************************)
EXTENDS IndexerSink, WellFoundedInduction, TLAPS

USE SinkAssumption

-----------------------------------------------------------------------------
(* The inductive invariant: everything behind the sink, behind each stored  *)
(* cursor and before each stored row is stored or was passed over.          *)

SinkType ==
  /\ blocks \in [Slots -> {Skipped} \cup 0..MaxTxns]
  /\ head \in 0..MaxSlot
  /\ rows \subseteq [slot : Slots, i : Nat]
  /\ cursors \in [Hashes -> -1..MaxSlot]
  /\ hash \in Hashes
  /\ sink \in [up : BOOLEAN, collided : BOOLEAN, at : 0..MaxSlot, inserted : Nat]
  /\ repairs \subseteq Nat

\* The slots up to n, with blocks b, are stored in R or passed over by a repair
\* of P.
Stored(s, b, R) == \A i \in 1..b[s] : [slot |-> s, i |-> i] \in R
PassedOver(s, P) == \E r \in P : s \in {r, r + 1}
Behind(n, b, R, P) == \A s \in 1..n : Stored(s, b, R) \/ PassedOver(s, P)

\* The rows that the sink has inserted of the block it reads are there.
BlockBegun == \A i \in 1..sink.inserted : [slot |-> Current, i |-> i] \in rows

SinkInv ==
  /\ SinkType
  /\ Behind(sink.at, blocks, rows, repairs)
  /\ \A h \in Hashes : Behind(cursors[h], blocks, rows, repairs)
  /\ \A r \in rows : Behind(r.slot - 1, blocks, rows, repairs)
  /\ BlockBegun

-----------------------------------------------------------------------------
\* What is stored or passed over stays so.
LEMMA BehindGrows ==
  ASSUME NEW n, NEW b, NEW R, NEW R2, NEW P, NEW P2,
         Behind(n, b, R, P), R \subseteq R2, P \subseteq P2
  PROVE  Behind(n, b, R2, P2)
BY DEF Behind, Stored, PassedOver

\* Nothing is behind the first slot.
LEMMA NothingBehind ==
  ASSUME NEW n \in Int, n <= 0, NEW b, NEW R, NEW P
  PROVE  Behind(n, b, R, P)
BY DEF Behind

\* A sink that is between two blocks, and has only moved over what is stored or
\* passed over, keeps the invariant.
LEMMA Moved ==
  ASSUME SinkInv, SinkType', sink'.inserted = 0,
         UNCHANGED <<blocks, rows, cursors, repairs>>,
         Behind(sink'.at, blocks, rows, repairs)
  PROVE  SinkInv'
<1>1. BlockBegun'
  BY DEF BlockBegun
<1>2. Behind(sink'.at, blocks', rows', repairs')
  OBVIOUS
<1>3. \A h \in Hashes : Behind(cursors'[h], blocks', rows', repairs')
  BY DEF SinkInv
<1>4. \A r \in rows' : Behind(r.slot - 1, blocks', rows', repairs')
  BY DEF SinkInv
<1> QED
  BY <1>1, <1>2, <1>3, <1>4 DEF SinkInv

\* A set of slots has a largest one.
LEMMA LargestSlot ==
  ASSUME NEW S, S \subseteq 0..MaxSlot, S # {}
  PROVE  Max(S) \in S /\ \A s \in S : Max(S) >= s
<1> DEFINE T == {MaxSlot - s : s \in S}
<1>1. T \subseteq Nat /\ T # {}
  <2>1. ASSUME NEW s \in S PROVE MaxSlot - s \in Nat
    <3>1. s \in 0..MaxSlot
      OBVIOUS
    <3> QED
      BY <3>1
  <2>2. PICK s \in S : TRUE
    OBVIOUS
  <2>3. MaxSlot - s \in T
    OBVIOUS
  <2> QED
    BY <2>1, <2>3
<1>2. PICK x \in T : \A y \in T : ~ (<<y, x>> \in OpToRel(<, Nat))
  <2> HIDE DEF T
  <2> QED
    BY <1>1, NatLessThanWellFounded, WFMin
<1>3. \A y \in T : ~ (y < x)
  BY <1>1, <1>2 DEF OpToRel
<1>4. PICK m \in S : x = MaxSlot - m
  OBVIOUS
<1>5. \A s \in S : m >= s
  BY <1>3, <1>4
<1> QED
  BY <1>4, <1>5 DEF Max

LEMMA HighestRow ==
  ASSUME SinkType, rows # {}
  PROVE  /\ GetHighestBlockHeight \in 0..MaxSlot
         /\ \A r \in rows : r.slot <= GetHighestBlockHeight
         /\ \E r \in rows : r.slot = GetHighestBlockHeight
<1> DEFINE S == {0} \cup {r.slot : r \in rows}
<1>1. S \subseteq 0..MaxSlot /\ S # {}
  BY DEF SinkType, Slots
<1>2. Max(S) \in S /\ \A s \in S : Max(S) >= s
  <2> HIDE DEF S
  <2> QED
    BY <1>1, LargestSlot
<1>3. \A r \in rows : r.slot \in Slots /\ Max(S) >= r.slot
  BY <1>2 DEF SinkType
<1>4. PICK r \in rows : TRUE
  OBVIOUS
<1>5. Max(S) # 0
  BY <1>3, <1>4 DEF Slots
<1> QED
  BY <1>1, <1>2, <1>3, <1>5 DEF GetHighestBlockHeight, Slots

-----------------------------------------------------------------------------
LEMMA SinkInit == Init => SinkInv
<1> SUFFICES ASSUME Init PROVE SinkInv
  OBVIOUS
<1>1. SinkType
  BY DEF Init, SinkType, Down, NoCursor, Slots
<1>2. sink.at = 0 /\ sink.inserted = 0 /\ \A h \in Hashes : cursors[h] = -1
  BY DEF Init, Down, NoCursor
<1>3. Behind(sink.at, blocks, rows, repairs) /\ \A h \in Hashes : Behind(cursors[h], blocks, rows, repairs)
  BY <1>2, NothingBehind
<1>4. BlockBegun
  BY <1>2 DEF BlockBegun
<1>5. \A r \in rows : Behind(r.slot - 1, blocks, rows, repairs)
  BY DEF Init
<1> QED
  BY <1>1, <1>3, <1>4, <1>5 DEF SinkInv

\* A restart begins behind the cursor, or at the first block.
LEMMA StartKeeps == SinkInv /\ Start => SinkInv'
<1> SUFFICES ASSUME SinkInv, Start PROVE SinkInv'
  OBVIOUS
<1>1. sink'.at = 0 \/ sink'.at = cursors[hash]
  BY DEF Start
<1>2. Behind(sink'.at, blocks, rows, repairs)
  BY <1>1, NothingBehind DEF SinkInv, SinkType
<1>3. SinkType' /\ sink'.inserted = 0
  BY DEF SinkInv, SinkType, Start, NoCursor
<1> QED
  BY <1>2, <1>3, Moved DEF Start

\* A row is only inserted with everything before its block behind the sink.
LEMMA InsertKeeps == SinkInv /\ Insert => SinkInv'
<1> SUFFICES ASSUME SinkInv, Insert PROVE SinkInv'
  OBVIOUS
<1>1. Current \in Slots /\ NextRow \in [slot : Slots, i : Nat]
  BY DEF SinkInv, SinkType, Insert, Current, Slots, NextRow
<1>2. CASE sink' = Down(TRUE) /\ UNCHANGED rows
  <2>1. sink' = Down(TRUE) /\ UNCHANGED <<blocks, head, rows, cursors, hash, repairs>>
    BY <1>2 DEF Insert
  <2>2. SinkType'
    BY <2>1 DEF SinkInv, SinkType, Down
  <2>3. sink'.at = 0 /\ sink'.inserted = 0
    BY <2>1 DEF Down
  <2>4. Behind(0, blocks, rows, repairs)
    BY NothingBehind
  <2> QED
    BY <2>1, <2>2, <2>3, <2>4, Moved
<1>3. CASE rows' = rows \cup {NextRow} /\ sink' = [sink EXCEPT !.inserted = @ + 1]
  <2>1. /\ rows' = rows \cup {NextRow} /\ sink' = [sink EXCEPT !.inserted = @ + 1]
        /\ UNCHANGED <<blocks, head, cursors, hash, repairs>>
    BY <1>3 DEF Insert
  <2>2. SinkType' /\ sink'.at = sink.at /\ sink'.inserted = sink.inserted + 1
    BY <1>1, <2>1 DEF SinkInv, SinkType
  <2>3. Behind(sink'.at, blocks', rows', repairs') /\ \A h \in Hashes : Behind(cursors'[h], blocks', rows', repairs')
    BY <2>1, <2>2, BehindGrows DEF SinkInv
  <2>4. ASSUME NEW r \in rows' PROVE Behind(r.slot - 1, blocks', rows', repairs')
    <3>1. CASE r \in rows
      BY <3>1, <2>1, BehindGrows DEF SinkInv
    <3>2. CASE r = NextRow
      <4>1. r.slot - 1 = sink.at
        BY <3>2 DEF NextRow, Current, SinkInv, SinkType
      <4> QED
        BY <4>1, <2>1, BehindGrows DEF SinkInv
    <3> QED
      BY <3>1, <3>2, <2>1
  <2>5. BlockBegun'
    BY <2>1, <2>2 DEF SinkInv, SinkType, BlockBegun, Current, NextRow
  <2> QED
    BY <2>2, <2>3, <2>4, <2>5, <2>1 DEF SinkInv
<1> QED
  BY <1>2, <1>3 DEF Insert

\* The sink leaves a block with all its rows stored.
LEMMA AdvanceKeeps == SinkInv /\ Advance => SinkInv'
<1> SUFFICES ASSUME SinkInv, Advance PROVE SinkInv'
  OBVIOUS
<1>1. Current \in Slots /\ blocks[Current] \in Int /\ sink.inserted >= blocks[Current]
  BY DEF SinkInv, SinkType, Advance, Current, Slots, Skipped
<1>2. Stored(Current, blocks, rows)
  BY <1>1 DEF SinkInv, SinkType, BlockBegun, Stored
<1>3. Behind(sink.at + 1, blocks, rows, repairs)
  <2>1. \A s \in 1..sink.at + 1 : s \in 1..sink.at \/ s = Current
    BY DEF SinkInv, SinkType, Current
  <2> QED
    BY <1>2, <2>1 DEF SinkInv, Behind
<1>4. sink' = [sink EXCEPT !.at = @ + 1, !.inserted = 0] /\ sink.at + 1 \in 0..MaxSlot
  BY <1>1 DEF Advance, Current, Slots
<1>5. UNCHANGED <<blocks, head, rows, cursors, hash, repairs>>
  BY DEF Advance
<1>6. sink' \in [up : BOOLEAN, collided : BOOLEAN, at : 0..MaxSlot, inserted : Nat]
      /\ sink'.at = sink.at + 1 /\ sink'.inserted = 0
  BY <1>4 DEF SinkInv, SinkType
<1>7. SinkType'
  BY <1>5, <1>6 DEF SinkInv, SinkType
<1> QED
  BY <1>3, <1>5, <1>6, <1>7, Moved

LEMMA SaveKeeps == SinkInv /\ Save => SinkInv'
<1> SUFFICES ASSUME SinkInv, Save PROVE SinkInv'
  OBVIOUS
<1>1. SinkType'
  BY DEF SinkInv, SinkType, Save
<1>2. \A h \in Hashes : Behind(cursors'[h], blocks', rows', repairs')
  BY DEF SinkInv, SinkType, Save
<1> QED
  BY <1>1, <1>2 DEF SinkInv, Save, Behind, Stored, PassedOver, BlockBegun, Current

LEMMA StopKeeps ==
  ASSUME NEW h \in Hashes, SinkInv, Stop(h)
  PROVE  SinkInv'
<1>1. SinkType' /\ sink'.at = 0 /\ sink'.inserted = 0
  BY DEF SinkInv, SinkType, Stop, Down
<1>2. Behind(0, blocks, rows, repairs)
  BY NothingBehind
<1> QED
  BY <1>1, <1>2, Moved DEF Stop

\* The cursor written lies one past the block of the highest row: all before
\* that block was behind the sink when the row was inserted.
LEMMA RepairKeeps == SinkInv /\ WriteCursorAuto => SinkInv'
<1> SUFFICES ASSUME SinkInv, WriteCursorAuto PROVE SinkInv'
  OBVIOUS
<1> DEFINE H == GetHighestBlockHeight
<1>1. H \in 0..MaxSlot /\ \E r \in rows : r.slot = H
  BY HighestRow DEF SinkInv, WriteCursorAuto, CanRepair
<1>2. /\ cursors' = [cursors EXCEPT ![hash] = H + 1]
      /\ repairs' = repairs \cup {H} /\ sink' = Down(FALSE)
      /\ UNCHANGED <<blocks, head, rows, hash>>
      /\ H + 1 \in 1..head
  BY DEF WriteCursorAuto, LatestSlot, CanRepair, HasBlock
<1> HIDE DEF H
<1>3. SinkType' /\ sink'.at = 0 /\ sink'.inserted = 0
  BY <1>1, <1>2 DEF SinkInv, SinkType, Down
<1>4. \A n : Behind(n, blocks, rows, repairs) => Behind(n, blocks', rows', repairs')
  BY <1>2, BehindGrows
<1>5. Behind(H + 1, blocks', rows', repairs')
  <2>1. Behind(H - 1, blocks', rows', repairs')
    BY <1>1, <1>4 DEF SinkInv
  <2>2. PassedOver(H, repairs') /\ PassedOver(H + 1, repairs')
    BY <1>2 DEF PassedOver
  <2>3. \A s \in 1..H + 1 : s \in 1..H - 1 \/ s = H \/ s = H + 1
    BY <1>1
  <2> QED
    BY <2>1, <2>2, <2>3 DEF Behind
<1>6. \A h \in Hashes : cursors'[h] = cursors[h] \/ cursors'[h] = H + 1
  BY <1>2 DEF SinkInv, SinkType
<1>7. ASSUME NEW h \in Hashes PROVE Behind(cursors'[h], blocks', rows', repairs')
  <2>1. CASE cursors'[h] = cursors[h]
    BY <2>1, <1>4 DEF SinkInv, Behind
  <2>2. CASE cursors'[h] = H + 1
    BY <2>2, <1>2, <1>5 DEF Behind
  <2> QED
    BY <1>6, <2>1, <2>2
<1>8. \A r \in rows' : Behind(r.slot - 1, blocks', rows', repairs')
  BY <1>2, <1>4 DEF SinkInv
<1> QED
  BY <1>3, <1>7, <1>8 DEF SinkInv, Behind, BlockBegun

-----------------------------------------------------------------------------
\* However often the sink crashes, is deployed under another hash and repaired,
\* a row it lacks behind it is one of the two blocks of a repair.
THEOREM GapsOnlyAtRepairs == Spec => []GapsAreAtRepairs
<1>1. SinkInv /\ [Next]_vars => SinkInv'
  <2> SUFFICES ASSUME SinkInv, [Next]_vars PROVE SinkInv'
    OBVIOUS
  <2>1. CASE Produce
    <3>1. SinkType'
      BY <2>1 DEF SinkInv, SinkType, Produce
    <3> QED
      BY <2>1, <3>1 DEF SinkInv, Produce, Behind, Stored, PassedOver, BlockBegun, Current
  <2>2. CASE UNCHANGED vars
    BY <2>2 DEF vars, SinkInv, SinkType, Behind, Stored, PassedOver, BlockBegun, Current
  <2> QED
    BY <2>1, <2>2, StartKeeps, InsertKeeps, AdvanceKeeps, SaveKeeps, StopKeeps,
       RepairKeeps DEF Next
<1>2. SinkInv => GapsAreAtRepairs
  BY DEF SinkInv, Behind, Stored, PassedOver, GapsAreAtRepairs
<1> QED
  BY SinkInit, <1>1, <1>2, PTL DEF Spec
=============================================================================
