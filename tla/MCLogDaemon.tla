----------------------------- MODULE MCLogDaemon -----------------------------
\* Model-checking instance of LogDaemon.
EXTENDS LogDaemon

CONSTANTS m1
=============================================================================
