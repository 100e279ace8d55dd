------------------------------ MODULE IndexerSink ------------------------------
(***************************************************************************)
(* The repair of the indexer's cursor (substreams/tooling): the sink reads *)
(* blocks, inserts their M transactions and now and then writes a cursor   *)
(* under the hash of the module it runs.  After a crash, or a build with   *)
(* another hash, it starts before rows it has inserted, and may crash at   *)
(* each start, when a row is inserted again.  The operator then stops it   *)
(* and has write-cursor-auto write a cursor past the highest row.          *)
(*                                                                         *)
(* External: the chain, and the sink, which goes on with the block after   *)
(* the cursor's and starts from the first block if it has none.            *)
(***************************************************************************)
EXTENDS Integers, FiniteSetsExt

CONSTANTS
  Hashes,       \* module hashes, one for each build of the substream
  MaxSlot,      \* bound: the chain ends with this slot
  MaxTxns,      \* bound: M transactions in a block
  MaxStops      \* bound: crashes and deployments

ASSUME SinkAssumption ==
  /\ Hashes # {} /\ MaxSlot \in Nat \ {0} /\ MaxTxns \in Nat /\ MaxStops \in Nat

VARIABLES
  blocks,       \* how many M transactions each slot's block has, or Skipped
  head,         \* the last slot of the chain so far
  rows,         \* the transactions collection: slot, and place in the block
  cursors,      \* the slot of the cursor stored for each hash
  hash,         \* the hash of the deployed build
  sink,         \* the sink process
  stops,        \* how often it crashed for a reason of its own, or was deployed
  repairs       \* history: the highest row's slot at each repair

vars == <<blocks, head, rows, cursors, hash, sink, stops, repairs>>

Slots == 1..MaxSlot
Skipped == -1
NoCursor == -1
Down(collided) == [up |-> FALSE, collided |-> collided, at |-> 0, inserted |-> 0]

Init ==
  /\ blocks \in [Slots -> {Skipped} \cup 0..MaxTxns]
  /\ head = 0 /\ rows = {} /\ repairs = {} /\ stops = 0
  /\ cursors = [h \in Hashes |-> NoCursor] /\ hash \in Hashes
  /\ sink = Down(FALSE)

-----------------------------------------------------------------------------
Produce ==
  /\ head < MaxSlot
  /\ head' = head + 1
  /\ UNCHANGED <<blocks, rows, cursors, hash, sink, stops, repairs>>

Start ==
  /\ ~sink.up
  /\ sink' = [up |-> TRUE, collided |-> FALSE, inserted |-> 0,
              at |-> IF cursors[hash] = NoCursor THEN 0 ELSE cursors[hash]]
  /\ UNCHANGED <<blocks, head, rows, cursors, hash, stops, repairs>>

\* The block being read, and the next of its rows.
Current == sink.at + 1
NextRow == [slot |-> Current, i |-> sink.inserted + 1]

\* What becomes of a row inserted again is the external sink's: it crashes it
\* (substreams/README.md:31, substreams/tooling/README.md:10), or the build of
\* substreams/db/Dockerfile:8-10 accepts it; either may happen, each time.
Insert ==
  /\ sink.up /\ Current <= head /\ sink.inserted < blocks[Current]
  /\ \/ /\ NextRow \in rows
        /\ sink' = Down(TRUE)
        /\ UNCHANGED rows
     \/ /\ rows' = rows \cup {NextRow}
        /\ sink' = [sink EXCEPT !.inserted = @ + 1]
  /\ UNCHANGED <<blocks, head, cursors, hash, stops, repairs>>

Advance ==
  /\ sink.up /\ Current <= head /\ sink.inserted >= blocks[Current]
  /\ sink' = [sink EXCEPT !.at = @ + 1, !.inserted = 0]
  /\ UNCHANGED <<blocks, head, rows, cursors, hash, stops, repairs>>

Save ==
  /\ sink.up
  /\ cursors' = [cursors EXCEPT ![hash] = sink.at]
  /\ UNCHANGED <<blocks, head, rows, hash, sink, stops, repairs>>

\* An ungraceful shutdown, or the deployment of a build.
Stop(h) ==
  /\ sink.up /\ stops < MaxStops
  /\ stops' = stops + 1
  /\ sink' = Down(FALSE)
  /\ hash' = h
  /\ UNCHANGED <<blocks, head, rows, cursors, repairs>>

-----------------------------------------------------------------------------
\* The slot of the highest row, the slot after it, whose block must exist for
\* its hash to be fetched, and the cursor of some build, to be overwritten.
GetHighestBlockHeight == Max({0} \cup {r.slot : r \in rows})
PreviousSlot(slot) == slot - 1
SlotAfterNext(slot) == slot + 2
LatestSlot(slot) == slot + 1
HasBlock(slot) == slot \in 1..head /\ blocks[slot] # Skipped
HasCursor == \E h \in Hashes : cursors[h] # NoCursor

CanRepair == rows # {} /\ HasBlock(LatestSlot(GetHighestBlockHeight)) /\ HasCursor

WriteCursorAuto ==
  /\ sink.collided
  /\ CanRepair
  /\ cursors' = [cursors EXCEPT ![hash] = LatestSlot(GetHighestBlockHeight)]
  /\ repairs' = repairs \cup {GetHighestBlockHeight}
  /\ sink' = Down(FALSE)
  /\ UNCHANGED <<blocks, head, rows, hash, stops>>

Next ==
  \/ Produce \/ Start \/ Insert \/ Advance \/ Save
  \/ \E h \in Hashes : Stop(h)
  \/ WriteCursorAuto

\* The chain goes on, the sink is restarted and reads on, and the operator
\* repairs the cursor of a sink that keeps crashing.
Spec == /\ Init /\ [][Next]_vars
        /\ WF_vars(Produce) /\ WF_vars(Start) /\ WF_vars(Insert) /\ WF_vars(Advance)
        /\ SF_vars(WriteCursorAuto)

-----------------------------------------------------------------------------
\* A transaction the sink has gone past and not stored is one of the block the
\* highest row was in, cut short by the crash, or of the block after it: the
\* repair passes over these two and no others.
GapsAreAtRepairs ==
  \A s \in 1..sink.at : \A i \in 1..blocks[s] :
    [slot |-> s, i |-> i] \notin rows => \E r \in repairs : s \in {r, r + 1}

\* However often the sink is stopped before its cursor is written, and whatever
\* the hash of the next build, the repairs get it to the end of the chain, but
\* for two cases the tool refuses: no block follows the highest row's at once,
\* or no cursor was ever written.
SinkCatchesUp == <>(sink.at = MaxSlot) \/ <>[]~CanRepair
=============================================================================
