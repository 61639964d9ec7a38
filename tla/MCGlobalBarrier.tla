--------------------------- MODULE MCGlobalBarrier ---------------------------
\* Three threads, one call each, for the global barrier.
EXTENDS GlobalBarrier
=============================================================================
