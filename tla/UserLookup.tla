----------------------------- MODULE UserLookup -----------------------------
(***************************************************************************)
(* How the user lookup service (https_client/openid.c) reads the device of *)
(* a user from the database of module IdMgr while the other two threads    *)
(* change it: three selects, each for one column.  The client thread does  *)
(* the same for get_dev_info, but then no binding runs beside it.          *)
(*                                                                         *)
(* A column is represented by the key of the row it is read from, and is   *)
(* found only if it is not empty.                                          *)
(***************************************************************************)
EXTENDS IdMgr, Sequences

CONSTANT MaxLookups       \* bound: lookups of users

ASSUME LookupAssumption == MaxLookups \in Nat

VARIABLES lookup,         \* the lookup that is going on
          lookups         \* bound: how many there still may be

lookupVars == <<vars, lookup, lookups>>

NoLookup == [pc |-> "idle"]

LookupInit == Init /\ lookup = NoLookup /\ lookups = MaxLookups

RowsIn(t, o) == {r \in t : r.gopenid = o}

RowsFor(o) == RowsIn(id_table, o)

FirstRow(o) == CHOOSE r \in RowsFor(o) : \A s \in RowsFor(o) : r.id <= s.id

\* dbResult[nRow]: the last of the rows that the select returns.
LastIn(t, o) == CHOOSE r \in RowsIn(t, o) : \A s \in RowsIn(t, o) : s.id <= r.id

LastRow(o) == LastIn(id_table, o)

\* The last row of the user lacks a column.
Incomplete(t, o) == RowsIn(t, o) # {} /\ LastIn(t, o).empty # {}

\* The user has no row, or the same last row in both tables.
SameLast(s, t, o) ==
    \/ RowsIn(s, o) = {} /\ RowsIn(t, o) = {}
    \/ RowsIn(s, o) # {} /\ RowsIn(t, o) # {} /\ LastIn(s, o).id = LastIn(t, o).id

\* The openid for the code of the request comes from the server of WeChat; if
\* it does not come, the database is not asked.
LookupStart(o) ==
    /\ lookup.pc = "idle" /\ lookups > 0
    /\ lookups' = lookups - 1
    /\ lookup' = [pc |-> "uuid", openid |-> o, uuid |-> 0, key |-> 0, secret |-> 0,
                   calm |-> TRUE, gap |-> Incomplete(id_table, o)]
    /\ UNCHANGED vars

Finds(row, column) == RowsFor(lookup.openid) # {} /\ column \notin row.empty

\* A select that fails, or finds no row or an empty column, ends the lookup
\* with code -1.
Select(from, row, to) ==
    /\ lookup.pc = from
    /\ \/ /\ Finds(row, from)
          /\ lookup' = [lookup EXCEPT ![from] = row.id, !.pc = to]
       \/ /\ ~Finds(row, from) \/ "select" \in Failures
          /\ lookup' = [lookup EXCEPT !.pc = "unbound"]
    /\ UNCHANGED <<vars, lookups>>

id_mgr_get_uuid_by_group_openid == Select("uuid", LastRow(lookup.openid), "key")

KeyRow(o) == LastRow(o)

id_mgr_get_product_key_by_group_openid == Select("key", KeyRow(lookup.openid), "secret")

id_mgr_get_dev_secret_by_group_openid == Select("secret", LastRow(lookup.openid), "found")

\* The answer is sent and the connection closed.
LookupEnd ==
    /\ lookup.pc \in {"found", "unbound"}
    /\ lookup' = NoLookup
    /\ UNCHANGED <<vars, lookups>>

LookupThread ==
    \/ \E o \in Openids : LookupStart(o)
    \/ id_mgr_get_uuid_by_group_openid \/ id_mgr_get_product_key_by_group_openid
    \/ id_mgr_get_dev_secret_by_group_openid \/ LookupEnd

\* calm: since the lookup began, the last row of the user is the same one, or
\* there was none all along; gap: at some time that row lacked a column.
\* A crash ends the lookup.
Beside ==
    /\ Next
    /\ lookup' = (IF lookup.pc = "idle" \/ crashes' # crashes THEN NoLookup
                  ELSE [lookup EXCEPT !.calm = @ /\ SameLast(id_table, id_table', lookup.openid),
                                      !.gap = @ \/ Incomplete(id_table', lookup.openid)])
    /\ UNCHANGED lookups

LookupNext == Beside \/ LookupThread

LookupSpec ==
    LookupInit /\ [][LookupNext]_lookupVars /\ Fairness

-----------------------------------------------------------------------------
\* If selects do not fail, a lookup tells a user of one device, the one in the
\* last of the user's rows, although it takes three statements
\* (openid.c:278-288) while bindings, other rows and the columns of this one
\* change: only another last row can mix two devices.  It tells a user who has
\* a device that there is none only if a column of its row was empty meanwhile
\* (id_mgr.c:455-464, 489-498 and 523-532).
LookupIsRight ==
    /\ (lookup.pc = "found" /\ lookup.calm) =>
           LET r == LastRow(lookup.openid) IN
           /\ RowsFor(lookup.openid) # {}
           /\ lookup.uuid = r.id /\ lookup.key = r.id /\ lookup.secret = r.id
    /\ (lookup.pc = "unbound" /\ lookup.calm) => RowsFor(lookup.openid) = {} \/ lookup.gap
=============================================================================
