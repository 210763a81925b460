------------------------------ MODULE MCCltMgr ------------------------------
\* Model-checking instance of CltMgr.
EXTENDS CltMgr
=============================================================================
