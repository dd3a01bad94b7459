-------------------------- MODULE MCLinkGeneration --------------------------
(* Model values and symmetry for the runs of LinkGeneration. *)
EXTENDS LinkGeneration, TLC

TxnSymmetry == Permutations(Txns)
=============================================================================
