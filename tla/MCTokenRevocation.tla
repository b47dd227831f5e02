------------------------- MODULE MCTokenRevocation -------------------------
(* TokenRevocation for TLC.  Threads are interchangeable.                  *)
EXTENDS TokenRevocation, TLC

ThreadSymmetry == Permutations(Threads)
=============================================================================
