-------------------------- MODULE MCFusionSession --------------------------
EXTENDS FusionSession

CONSTANTS c, p1, p2, o1, o2, o3, o4

\* Two hops; the first peeler has two outputs.
MCmixOrder == <<p1, p2>>
MCowner == [o \in {o1, o2, o3, o4} |-> IF o = o1 THEN c ELSE IF o = o2 THEN p2 ELSE p1]
=============================================================================
