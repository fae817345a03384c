---------------------------- MODULE MCInterrupts ----------------------------
\* The interrupt path of the two boards, with the counter program on top.
EXTENDS Counter
=============================================================================
