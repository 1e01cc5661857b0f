----------------------------- MODULE FusionFloor -----------------------------
(***************************************************************************)
(* What the round lease promises: a floor that at most one attempt of a    *)
(* wallet stands on, entered only when it is empty.                        *)
(***************************************************************************)
CONSTANTS Attempts
VARIABLES floor   \* the attempts that run a round, a set of at most one

FloorInit == floor = {}

Enter(a) == floor = {} /\ floor' = {a}
Leave(a) == a \in floor /\ floor' = {}

FloorNext == \E a \in Attempts : Enter(a) \/ Leave(a)

FloorSpec == FloorInit /\ [][FloorNext]_floor
=============================================================================
