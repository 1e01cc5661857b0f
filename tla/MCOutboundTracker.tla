------------------------- MODULE MCOutboundTracker -------------------------
(* Small instances of OutboundTracker for TLC. *)
EXTENDS OutboundTracker, TLC

WindowSymmetry == Permutations(Windows)
=============================================================================
