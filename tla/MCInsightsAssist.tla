-------------------------- MODULE MCInsightsAssist --------------------------
(* Model values and symmetry for the runs of InsightsAssist. *)
EXTENDS InsightsAssist, TLC

Symmetry == Permutations(Pollers) \cup Permutations(Fetchers)
=============================================================================
