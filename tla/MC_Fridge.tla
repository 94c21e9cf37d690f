----------------------------- MODULE MC_Fridge -----------------------------
(***************************************************************************)
(* Instances of Fridge for TLC.  Two thread slots: the thread of the last  *)
(* opening and one that was cancelled and has not died yet.                *)
(***************************************************************************)
EXTENDS Fridge, TLC

ThreadSymmetry == Permutations(Threads)
=============================================================================
