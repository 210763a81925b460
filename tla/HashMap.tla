------------------------------- MODULE HashMap -------------------------------
(***************************************************************************)
(* What the hash table of the server promises: a map with at most one key  *)
(* per hash value.  Its comparison function always says "equal"            *)
(* (common_tbl.c:50-53), so two keys with the same hash value are the same *)
(* key to it.                                                              *)
(***************************************************************************)
CONSTANTS Keys,
          Hashes,      \* the hash values of the keys
          NoKey,       \* there is no key with this hash value
          HashFn       \* the hash value of each key

VARIABLES dict,
          pending      \* the key that is being inserted, NoKey if there is none

Empty == dict = [h \in Hashes |-> NoKey] /\ pending = NoKey

\* Only a key whose hash value is not there is inserted.
BeginInsert(k) ==
    /\ pending = NoKey /\ dict[HashFn[k]] = NoKey
    /\ pending' = k
    /\ UNCHANGED dict

\* The key is in the map from here on, unless there was no memory for it.
EndInsert ==
    /\ pending # NoKey
    /\ dict' \in {dict, [dict EXCEPT ![HashFn[pending]] = pending]}
    /\ pending' = NoKey

Remove(k) ==
    /\ pending = NoKey /\ dict[HashFn[k]] # NoKey
    /\ dict' = [dict EXCEPT ![HashFn[k]] = NoKey]
    /\ UNCHANGED pending

MapSpec ==
    Empty /\ [][EndInsert \/ \E k \in Keys : BeginInsert(k) \/ Remove(k)]_<<dict, pending>>
=============================================================================
