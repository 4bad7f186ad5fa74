----------------------------- MODULE MCMocDevice -----------------------------
(* MocDevice on a small sensor: the instance TLC checks. *)
EXTENDS MocDevice, TLC

IdSymmetry == Permutations(Ids)
===============================================================================
