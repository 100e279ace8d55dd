----------------------------- MODULE MCIndexerSink -----------------------------
(* A small instance of IndexerSink for TLC. *)
EXTENDS IndexerSink

CONSTANTS h1, h2
=============================================================================
