----------------------------- MODULE MCWavyOut -----------------------------
EXTENDS WavyOut

\* A plain write of two bytes, a header of two with a file of one behind it and
\* the finalizer, and an xfer of one byte.
MCCalls ==
  {[op |-> "write", ends |-> <<2>>],
   [op |-> "raw",   ends |-> <<2, 3>>],
   [op |-> "xfer",  ends |-> <<1>>]}
=============================================================================
