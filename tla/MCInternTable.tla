---------------------------- MODULE MCInternTable ----------------------------
(* InternTable for TLC: three goroutines, two strings none of which is in  *)
(* the table.  No symmetry, because liveness is checked.                   *)
EXTENDS InternTable
=============================================================================
