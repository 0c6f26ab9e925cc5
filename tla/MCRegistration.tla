--------------------------- MODULE MCRegistration ---------------------------
EXTENDS Registration

CONSTANTS farm, tavern, w1, w2, w3, s1

\* A farm with two buildings, one of them without a configured position; a
\* tavern that predates List, configured to stand too close to the farm; and the
\* farm's service drawn as a structure.
MCHostOf == [w \in {w1, w2, w3} |-> IF w = w2 THEN tavern ELSE farm]
MCPlot == [w \in {w1, w2, w3} |-> IF w = w3 THEN "none" ELSE "on_map"]
MCTooClose == {<<w1, w2>>, <<w2, w1>>}
MCStructures == <<s1>>
MCServiceOf == [s \in {s1} |-> farm]
=============================================================================
