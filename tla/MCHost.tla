------------------------------- MODULE MCHost -------------------------------
EXTENDS Host

CONSTANTS p1, p2, o1, o2, o3

\* An offer for each of two pips, and one that is garbled.
MCOffer == {o1, o2, o3}
MCPipOf == [o \in MCOffer |-> IF o = o2 THEN p2 ELSE p1]
=============================================================================
