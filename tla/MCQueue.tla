------------------------------ MODULE MCQueue ------------------------------
EXTENDS Queue
=============================================================================
