--------------------------- MODULE MCGateControl ---------------------------
EXTENDS GateControl

\* Lists of up to four bytes, an empty one, and one with a NUL in it.
Lists == {<<>>, <<1>>, <<2, 0, 1>>, <<1, 2, 2, 1>>}

MCScripts == UNION {[1..n -> Lists] : n \in 1..3}
=============================================================================
