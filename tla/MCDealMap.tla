------------------------------- MODULE MCDealMap -------------------------------
(* Small instances of DealMap. *)
EXTENDS DealMap, TLC

RunSymmetry == Permutations(Runs)

===============================================================================
