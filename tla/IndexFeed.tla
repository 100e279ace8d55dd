------------------------------- MODULE IndexFeed -------------------------------
(***************************************************************************)
(* What the earn program promises to those that follow the M index on      *)
(* Solana, the indexer and the extensions: an index that never decreases   *)
(* once the feed has started, a log that gains exactly one entry with each *)
(* rise, and a merkle root that changes only at the current index.  How an *)
(* update is authorised, ordered and stored is left to EarnProgram, which  *)
(* implements this module.                                                 *)
(***************************************************************************)
EXTENDS Naturals, Sequences

VARIABLES
  started,  \* the program is initialised
  index,    \* the index in force
  root,     \* the merkle root in force
  log       \* the indices published since the start

feedVars == <<started, index, root, log>>

FeedInit ==
  /\ started = FALSE
  /\ index \in Nat
  /\ log = <<>>

\* The first index takes over the mint's, which it may not be below.
Start ==
  /\ ~started /\ started'
  /\ index' >= index
  /\ UNCHANGED log

\* A rise is published, with or without another root.
Publish ==
  /\ started /\ started'
  /\ index' > index
  /\ log' = Append(log, index')

\* Another root at the same index.
ReplaceRoot ==
  /\ started /\ started'
  /\ UNCHANGED <<index, log>>

FeedNext == Start \/ Publish \/ ReplaceRoot
FeedSpec == FeedInit /\ [][FeedNext]_feedVars
=============================================================================
