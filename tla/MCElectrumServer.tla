-------------------------- MODULE MCElectrumServer --------------------------
(* A batch of subscriptions, a request with a network of its own, a closer. *)
EXTENDS ElectrumServer, TLC
CONSTANTS main, chip, sub, other, closer, i1, i2, k1, k2, k3, k4
MCOverride == (sub :> None) @@ (other :> chip) @@ (closer :> None)
MCHosts == (main :> 1) @@ (chip :> 2)
MCHome == (k1 :> main) @@ (k2 :> main) @@ (k3 :> chip) @@ (k4 :> chip)
MCItems == (sub :> {i1, i2}) @@ (other :> {i1}) @@ (closer :> {})
=============================================================================
