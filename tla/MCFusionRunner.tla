--------------------------- MODULE MCFusionRunner ---------------------------
(* Small instances of FusionRunner for TLC. *)
EXTENDS FusionRunner, TLC

RunnerSymmetry ==
  Permutations(Attempts) \cup Permutations(Windows) \cup Permutations(Coins) \cup Permutations(Txs)
=============================================================================
