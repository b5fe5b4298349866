---------------------------- MODULE MCLogParser -----------------------------
(***************************************************************************)
(* LogParser for TLC.  The parser treats all other programs alike, and it  *)
(* prints an event without looking at it, so either may be exchanged.      *)
(***************************************************************************)
EXTENDS LogParser, TLC

Interchangeable == Permutations(Others) \cup Permutations(Events)
============================================================================
