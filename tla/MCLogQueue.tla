------------------------------ MODULE MCLogQueue ------------------------------
\* Model-checking instance of LogQueue.
EXTENDS LogQueue

CONSTANTS m1, m2
=============================================================================
