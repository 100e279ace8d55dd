---------------------------- MODULE MCLogStructuring ----------------------------
(* A small instance of LogStructuring for TLC: the earn program, a system     *)
(* program and a precompile.                                                  *)
EXTENDS LogStructuring
=============================================================================
