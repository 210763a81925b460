------------------------------ MODULE MCDevMgr ------------------------------
\* Model-checking instance of DevMgr.
EXTENDS DevMgr

CONSTANTS a, b, u
=============================================================================
