---------------------------- MODULE MCXferBuffer ----------------------------
EXTENDS XferBuffer

\* One buffer, an empty one between others, and three: cutting the last
\* two copies over itself.
MCLengths == {<<1>>, <<1, 0, 1>>, <<1, 1, 1>>}
=============================================================================
