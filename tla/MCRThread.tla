------------------------------ MODULE MCRThread ------------------------------
\* Model-checking instance of RThread.
EXTENDS RThread

CONSTANTS w1, w2, t1, t2
=============================================================================
