------------------------ MODULE MCFusionRendezvous ------------------------
(***************************************************************************)
(* Instances of FusionRendezvous for TLC.                                  *)
(***************************************************************************)
EXTENDS FusionRendezvous

CONSTANTS n1, n2, n3

\* An election bound to the whole set: n2 coordinates all three, but loses to
\* n1 when n3 is missing, and n1 loses to n3 when n2 is.
MCElect ==
  [S \in Sets |-> CASE S = {n1, n2, n3} -> n2
                   [] S = {n1, n2} -> n1
                   [] S = {n1, n3} -> n3
                   [] S = {n2, n3} -> n2
                   [] OTHER -> CHOOSE n \in S : TRUE]
=============================================================================
