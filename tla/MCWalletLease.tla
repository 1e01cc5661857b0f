--------------------------- MODULE MCWalletLease ---------------------------
(* Small instances of WalletLease for TLC. *)
EXTENDS WalletLease, TLC
=============================================================================
