------------------------------- MODULE MCIdMgr -------------------------------
\* Model-checking instance of IdMgr and UserLookup.
EXTENDS UserLookup

CONSTANTS d1, d2, o1, o2

\* The first user has the first device; the second one is free and its secret
\* is missing.
TwoRows == { [id |-> 1, dev_uuid |-> d1, gopenid |-> o1, empty |-> {}],
             [id |-> 2, dev_uuid |-> d2, gopenid |-> NoOpenid, empty |-> {"secret"}] }
NoRows == {}
=============================================================================
