------------------------------ MODULE MCWorld -------------------------------
EXTENDS World

\* A workplace that feeds a pip, and one that starves it on the spot.
MCNeedDelta == {1, 0 - NeedMax}
=============================================================================
