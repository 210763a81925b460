----------------------------- MODULE IdMgrProofs -----------------------------
(***************************************************************************)
(* Proofs about IdMgr and UserLookup: type correctness; and, if selects do *)
(* not fail, that a device has one row, that no binding is taken over and  *)
(* that a lookup tells of one device, for any number of devices, openids,  *)
(* requests and crashes.                                                   *)
(***************************************************************************)
EXTENDS UserLookup, TLAPS

USE OpenidAssumption, FailureAssumption, EmptyAssumption, IdBoundAssumption, OldRowsAssumption

Pages == [pc : WebPcs \ {"idle"}, uuid : Uuids, empty : SUBSET MayBeEmpty]

\* A page that is being worked on, and what its updates of key and secret do.
LEMMA PageFacts ==
    ASSUME TypeOK, web.pc # "idle"
    PROVE  web \in Pages /\ web.uuid \in Uuids /\ web.empty \in SUBSET MayBeEmpty
<1>1. web \in Pages \cup {WebIdle}
    BY DEF TypeOK, Pages
<1>2. web # WebIdle
    BY DEF WebIdle
<1>3. web \in Pages
    BY <1>1, <1>2
<1> QED BY <1>3 DEF Pages

LEMMA UpdateEffect ==
    ASSUME TypeOK, UpdateKey \/ UpdateSecret
    PROVE  /\ web \in Pages /\ web.pc \in {"key", "secret"}
           /\ Exec(TableWithColumn(web.pc))
           /\ web' \in Pages \cup {WebIdle} /\ web'.pc # "insert"
           /\ UNCHANGED <<nextRow, inTransaction, app, boundVars>>
<1>1. CASE UpdateKey
  <2>1. web.pc = "key" /\ Exec(TableWithColumn("key")) /\ web' = [web EXCEPT !.pc = "secret"]
      BY <1>1 DEF UpdateKey, UpdateColumn, WebGoto
  <2>2. web \in Pages
      BY <2>1, PageFacts
  <2>3. web' \in Pages /\ web'.pc = "secret"
      BY <2>1, <2>2 DEF Pages, WebPcs
  <2> QED BY <1>1, <2>1, <2>2, <2>3 DEF UpdateKey, UpdateColumn
<1>2. CASE UpdateSecret
  <2>1. web.pc = "secret" /\ Exec(TableWithColumn("secret")) /\ web' = WebIdle
      BY <1>2 DEF UpdateSecret, UpdateColumn
  <2>2. web \in Pages
      BY <2>1, PageFacts
  <2> QED BY <1>2, <2>1, <2>2 DEF UpdateSecret, UpdateColumn, WebIdle
<1> QED BY <1>1, <1>2

\* A column update leaves rows that are rows.
LEMMA ColumnType ==
    ASSUME TypeOK, web.pc # "idle", NEW c
    PROVE  TableWithColumn(c) \subseteq Rows
<1>1. web.empty \in SUBSET MayBeEmpty
    BY PageFacts
<1>2. ASSUME NEW q \in id_table
      PROVE  [q EXCEPT !.empty = (q.empty \ {c}) \cup (web.empty \cap {c})] \in Rows
  <2>1. q \in Rows
      BY <1>2 DEF TypeOK
  <2>2. q.empty \in SUBSET MayBeEmpty
      BY <2>1 DEF Rows
  <2>3. (q.empty \ {c}) \cup (web.empty \cap {c}) \in SUBSET MayBeEmpty
      BY <1>1, <2>2
  <2> QED BY <2>1, <2>3 DEF Rows
<1> QED BY <1>2 DEF TableWithColumn, TypeOK

\* Every step keeps the types.
LEMMA TypeStep == TypeOK /\ [Next]_vars => TypeOK'
<1> SUFFICES ASSUME TypeOK, [Next]_vars PROVE TypeOK'
    OBVIOUS
<1> USE DEF TypeOK, boundVars, AppIdle, WebIdle, AppPcs, WebPcs, Rows
<1>1. ASSUME NEW u \in Uuids, NEW o \in Openids, BindStart(u, o) \/ UnbindStart(u, o)
      PROVE  TypeOK'
    BY <1>1 DEF BindStart, UnbindStart, NewRequest, AnswerWith
<1>2. ASSUME NEW u \in Uuids, id_mgr_del_device(u)
      PROVE  TypeOK'
    BY <1>2 DEF id_mgr_del_device, NewPage
<1>8. ASSUME NEW u \in Uuids, NEW e \in SUBSET MayBeEmpty, id_mgr_add_device(u, e)
      PROVE  TypeOK'
    BY <1>8 DEF id_mgr_add_device, NewPage
<1>3. CASE BindSelect \/ BindUpdateError \/ UnbindSelect \/ UnbindClearError
    BY <1>3 DEF BindSelect, BindUpdateError, UnbindSelect, UnbindClearError,
                AppGoto, AnswerWith
<1>4. CASE BindUpdate \/ UnbindClear
  <2>1. app.uuid \in Uuids /\ app.openid \in Openids
      BY <1>4 DEF BindUpdate, UnbindClear
  <2>2. \A o \in Openids \cup {NoOpenid} : TableWith(app.uuid, o) \subseteq Rows
      BY <2>1 DEF TableWith
  <2> QED BY <1>4, <2>1, <2>2 DEF BindUpdate, UnbindClear, Exec, AnswerWith
<1>5. CASE AddInsert \/ AddInsertError \/ DelBegin \/ DelDelete \/ DelDeleteError
              \/ DelCommit \/ DelCommitError
    BY <1>5 DEF AddInsert, AddInsertError, DelBegin, DelDelete, DelDeleteError, DelCommit,
                DelCommitError, Exec, Commit, WebGoto
<1>9. CASE UpdateKey \/ UpdateSecret \/ UpdateError
  <2>1. CASE UpdateError
      BY <2>1 DEF UpdateError
  <2>2. CASE UpdateKey \/ UpdateSecret
    <3>1. TableWithColumn(web.pc) \subseteq Rows
        BY <2>2, UpdateEffect, ColumnType
    <3> QED BY <2>2, <3>1, UpdateEffect DEF Exec, Pages
  <2> QED BY <1>9, <2>1, <2>2
<1>6. CASE Crash
    BY <1>6 DEF Crash
<1>7. CASE UNCHANGED vars
    BY <1>7 DEF vars
<1> QED BY <1>1, <1>2, <1>3, <1>4, <1>5, <1>6, <1>7, <1>8, <1>9 DEF Next, AppWork, WebWork

\* The database and both threads keep their types.
THEOREM TypeCorrect == Spec => []TypeOK
<1>1. Init => TypeOK
    BY DEF Init, TypeOK, AppIdle, WebIdle
<1> QED BY <1>1, TypeStep, PTL DEF Spec

-----------------------------------------------------------------------------
(***************************************************************************)
(* The inductive invariant behind the other theorems.  Outside a           *)
(* transaction the disk is up to date; a row that is about to be inserted  *)
(* is still missing (only the web server inserts, and it does one thing at *)
(* a time); a device that is about to be bound is still free (only the app *)
(* thread binds).                                                          *)
(***************************************************************************)
DiskInv == inTransaction = 0 => disk = id_table
InsertInv == web.pc = "insert" => \A r \in id_table : r.dev_uuid # web.uuid
FreeInv == app.pc = "update" => \A r \in id_table : r.dev_uuid = app.uuid => r.gopenid = NoOpenid

RowInv == TypeOK /\ UuidUnique /\ DiskInv /\ InsertInv /\ FreeInv

\* Setting the openid of a device keeps its rows single.
LEMMA UpdateKeepsUnique ==
    ASSUME TypeOK, Unique(id_table), NEW u, NEW o
    PROVE  Unique(TableWith(u, o))
BY DEF TypeOK, Rows, Unique, TableWith

\* So does a new key or secret, and no device or binding appears by it.
LEMMA ColumnUpdate ==
    ASSUME TypeOK, NEW c
    PROVE  /\ Unique(id_table) => Unique(TableWithColumn(c))
           /\ \A s \in TableWithColumn(c) : \E r \in id_table :
                  s.dev_uuid = r.dev_uuid /\ s.gopenid = r.gopenid
<1> DEFINE new(r) == IF r.dev_uuid = web.uuid
                     THEN [r EXCEPT !.empty = (r.empty \ {c}) \cup (web.empty \cap {c})] ELSE r
<1>1. TableWithColumn(c) = {new(r) : r \in id_table}
    BY DEF TableWithColumn
<1>2. ASSUME NEW r \in id_table
      PROVE  new(r).dev_uuid = r.dev_uuid /\ new(r).gopenid = r.gopenid
    BY DEF TypeOK, Rows
<1> HIDE DEF new
<1>3. ASSUME Unique(id_table), NEW s \in TableWithColumn(c), NEW t \in TableWithColumn(c),
             s.dev_uuid = t.dev_uuid
      PROVE  s = t
  <2>1. PICK q \in id_table : s = new(q)
      BY <1>1
  <2>2. PICK r \in id_table : t = new(r)
      BY <1>1
  <2>3. q = r
      BY <1>2, <1>3, <2>1, <2>2 DEF Unique
  <2> QED BY <2>1, <2>2, <2>3
<1>4. Unique(id_table) => Unique(TableWithColumn(c))
    BY <1>3 DEF Unique
<1> QED BY <1>1, <1>2, <1>4

LEMMA RowStep ==
    ASSUME "select" \notin Failures
    PROVE  RowInv /\ [Next]_vars => RowInv'
<1> SUFFICES ASSUME RowInv, [Next]_vars PROVE RowInv'
    OBVIOUS
<1>0. TypeOK' BY TypeStep DEF RowInv
<1> SUFFICES UuidUnique' /\ DiskInv' /\ InsertInv' /\ FreeInv'
    BY <1>0 DEF RowInv
<1> USE DEF RowInv, UuidUnique, DiskInv, InsertInv, FreeInv, boundVars, AppIdle, WebIdle
<1>1. ASSUME NEW u \in Uuids, NEW o \in Openids, BindStart(u, o) \/ UnbindStart(u, o)
      PROVE  UuidUnique' /\ DiskInv' /\ InsertInv' /\ FreeInv'
    BY <1>1 DEF BindStart, UnbindStart, NewRequest, AnswerWith, Unique
<1>2. ASSUME NEW u \in Uuids, NEW e, id_mgr_add_device(u, e)
      PROVE  UuidUnique' /\ DiskInv' /\ InsertInv' /\ FreeInv'
  <2>1. ASSUME RowsOf(u) # {} PROVE web' = [pc |-> "key", uuid |-> u, empty |-> e]
    <3>1. device_is_exist(u) = {TRUE}
        BY <2>1, Zenon DEF device_is_exist, Found
    <3>2. ~MayInsert(TRUE)
        BY DEF MayInsert
    <3> QED BY <1>2, <3>1, <3>2, Zenon DEF id_mgr_add_device
  <2>2. \/ web' = [pc |-> "insert", uuid |-> u, empty |-> e]
        \/ web' = [pc |-> "key", uuid |-> u, empty |-> e]
      BY <1>2 DEF id_mgr_add_device
  <2> QED BY <1>2, <2>1, <2>2 DEF id_mgr_add_device, RowsOf, Unique
<1>12. ASSUME NEW u \in Uuids, id_mgr_del_device(u)
      PROVE  UuidUnique' /\ DiskInv' /\ InsertInv' /\ FreeInv'
    BY <1>12 DEF id_mgr_del_device, Unique
<1>3. CASE BindSelect
  <2>0. /\ ShouldInsert => AppGoto("update")
        /\ ~ShouldInsert => AnswerWith("bind", app.uuid, app.openid, 1)
    <3>1. SeemsFree = {ShouldInsert}
        BY Zenon DEF SeemsFree
    <3>2. PICK free \in SeemsFree :
              IF free THEN AppGoto("update") ELSE AnswerWith("bind", app.uuid, app.openid, 1)
        BY <1>3, Zenon DEF BindSelect
    <3>3. free = ShouldInsert
        BY <3>1, <3>2
    <3> QED BY <3>2, <3>3, Zenon
  <2>1. CASE ShouldInsert
    <3>1. \A r \in id_table : r.dev_uuid = app.uuid => r.gopenid = NoOpenid
      <4> SUFFICES ASSUME NEW r \in id_table, r.dev_uuid = app.uuid
                   PROVE  r.gopenid = NoOpenid
          OBVIOUS
      <4>1. \A s \in RowsOf(app.uuid) : s = r
          BY DEF RowsOf, Unique
      <4>2. r \in RowsOf(app.uuid) /\ r.id \in Nat
          BY DEF RowsOf, TypeOK, Rows
      <4> QED BY <2>1, <4>1, <4>2 DEF ShouldInsert
    <3> QED BY <1>3, <2>0, <2>1, <3>1 DEF BindSelect, AppGoto, Unique, TypeOK
  <2>2. CASE ~ShouldInsert
      BY <1>3, <2>0, <2>2 DEF BindSelect, AnswerWith, Unique
  <2> QED BY <2>1, <2>2
<1>5. CASE BindUpdateError \/ UnbindSelect \/ UnbindClearError
    BY <1>5 DEF BindUpdateError, UnbindSelect, UnbindClearError, AppGoto, AnswerWith, Unique, TypeOK
<1>6. CASE BindUpdate \/ UnbindClear
  <2>1. PICK o : Exec(TableWith(app.uuid, o))
      BY <1>6 DEF BindUpdate, UnbindClear
  <2>2. Unique(id_table') /\ Unique(disk')
      BY <2>1, UpdateKeepsUnique DEF Exec
  <2>3. \A r \in id_table' : \E s \in id_table : r.dev_uuid = s.dev_uuid
      BY <2>1 DEF Exec, TableWith, TypeOK, Rows
  <2>4. web' = web /\ app' = AppIdle /\ inTransaction' = inTransaction
      BY <1>6 DEF BindUpdate, UnbindClear, AnswerWith
  <2> QED BY <2>1, <2>2, <2>3, <2>4 DEF Exec
<1>7. CASE AddInsert
    BY <1>7 DEF AddInsert, Exec, WebGoto, Unique, TypeOK
<1>8. CASE AddInsertError \/ DelDeleteError \/ DelCommitError \/ UpdateError
  <2>1. /\ UNCHANGED <<id_table, disk, app>> /\ web' = WebIdle
        /\ inTransaction' \in {inTransaction, 2}
      BY <1>8 DEF AddInsertError, DelDeleteError, DelCommitError, UpdateError
  <2> QED BY <2>1 DEF Unique
<1>15. CASE DelCommit
    BY <1>15 DEF DelCommit, Commit, Unique
<1>14. CASE DelBegin
    BY <1>14 DEF DelBegin, WebGoto, Unique, TypeOK
<1>13. CASE UpdateKey \/ UpdateSecret
  <2>1. PICK c : Exec(TableWithColumn(c))
      BY <1>13, UpdateEffect
  <2>2. /\ web'.pc # "insert" /\ inTransaction' = inTransaction /\ app' = app
      BY <1>13, UpdateEffect
  <2> HIDE DEF Unique
  <2>3. Unique(id_table') /\ Unique(disk')
      BY <2>1, ColumnUpdate DEF Exec
  <2>4. \A s \in id_table' : \E r \in id_table : s.dev_uuid = r.dev_uuid /\ s.gopenid = r.gopenid
      BY <2>1, ColumnUpdate DEF Exec
  <2> QED BY <2>1, <2>2, <2>3, <2>4 DEF Exec
<1>9. CASE DelDelete
    BY <1>9 DEF DelDelete, Exec, WebGoto, Unique, TypeOK
<1>10. CASE Crash
    BY <1>10 DEF Crash, Unique
<1>11. CASE UNCHANGED vars
    BY <1>11 DEF vars, Unique
<1> QED BY <1>1, <1>2, <1>12, <1>13, <1>14, <1>15, <1>3, <1>5, <1>6, <1>7, <1>8, <1>9, <1>10, <1>11
           DEF Next, AppWork, WebWork

LEMMA RowInvHolds ==
    ASSUME "select" \notin Failures
    PROVE  Spec => []RowInv
<1>1. Init => RowInv
    BY DEF Init, RowInv, TypeOK, UuidUnique, Unique, DiskInv, InsertInv, FreeInv, AppIdle, WebIdle
<1> QED BY <1>1, RowStep, PTL DEF Spec

\* If selects do not fail, a device never has two rows: id_mgr_add_device
\* (id_mgr.c:84-93) against deletions, bindings and crashes.
THEOREM RowsAreUnique ==
    ASSUME "select" \notin Failures
    PROVE  Spec => []UuidUnique
BY RowInvHolds, PTL DEF RowInv

\* A step of the invariant takes over no binding.
LEMMA StealStep ==
    RowInv /\ [Next]_vars =>
        [crashes' = crashes =>
          \A r \in id_table, s \in id_table' :
             r.dev_uuid = s.dev_uuid => \/ r.gopenid = NoOpenid
                                        \/ s.gopenid \in {r.gopenid, NoOpenid}]_vars
<1> SUFFICES ASSUME RowInv, [Next]_vars, crashes' = crashes,
                    NEW r \in id_table, NEW s \in id_table', r.dev_uuid = s.dev_uuid
             PROVE  r.gopenid = NoOpenid \/ s.gopenid \in {r.gopenid, NoOpenid}
    OBVIOUS
<1> USE DEF RowInv, UuidUnique, Unique
<1>1. CASE id_table' = id_table
    BY <1>1
<1>2. CASE BindUpdate
  <2>1. PICK q \in id_table : s = IF q.dev_uuid = app.uuid THEN [q EXCEPT !.gopenid = app.openid] ELSE q
      BY <1>2 DEF BindUpdate, Exec, TableWith
  <2>2. q.dev_uuid = r.dev_uuid
      BY <2>1 DEF TypeOK, Rows
  <2>3. q = r
      BY <2>2
  <2> QED BY <1>2, <2>1, <2>3 DEF BindUpdate, FreeInv
<1>3. CASE UnbindClear
  <2>1. PICK q \in id_table : s = IF q.dev_uuid = app.uuid THEN [q EXCEPT !.gopenid = NoOpenid] ELSE q
      BY <1>3 DEF UnbindClear, Exec, TableWith
  <2>2. q.dev_uuid = r.dev_uuid
      BY <2>1 DEF TypeOK, Rows
  <2>3. q = r
      BY <2>2
  <2> QED BY <2>1, <2>3 DEF TypeOK, Rows
<1>4. CASE AddInsert
    BY <1>4 DEF AddInsert, Exec
<1>5. CASE DelDelete
    BY <1>5 DEF DelDelete, Exec
<1>6. CASE Crash
  <2>1. crashes \in Nat
      BY DEF TypeOK
  <2> QED BY <1>6, <2>1 DEF Crash
<1>7. CASE UpdateKey \/ UpdateSecret
  <2>1. PICK c : Exec(TableWithColumn(c))
      BY <1>7, UpdateEffect
  <2>2. PICK q \in id_table : s.dev_uuid = q.dev_uuid /\ s.gopenid = q.gopenid
      BY <2>1, ColumnUpdate DEF Exec
  <2> QED BY <2>2
<1> QED BY <1>1, <1>2, <1>3, <1>4, <1>5, <1>6, <1>7
           DEF Next, AppWork, WebWork, vars, BindStart, UnbindStart, id_mgr_add_device,
               id_mgr_del_device, BindSelect, BindUpdateError, UnbindSelect,
               UnbindClearError, AddInsertError, UpdateError, DelBegin, DelDeleteError,
               DelCommit, DelCommitError

\* If selects do not fail, a bound device changes hands only by way of an
\* unbinding, although id_mgr_add_group_openid reads and writes in two
\* statements (id_mgr.c:141-167).
THEOREM BindingsAreKept ==
    ASSUME "select" \notin Failures
    PROVE  Spec => BindNeverSteals
BY RowInvHolds, StealStep, PTL DEF Spec, BindNeverSteals

-----------------------------------------------------------------------------
(* The user lookup service.                                                *)

Fields == {"pc", "openid", "uuid", "key", "secret", "calm", "gap"}

\* What a lookup has read so far is in the last row of its user, unless another
\* row has become that; a column that is missing now was noticed.
Progress(l, rows, last) ==
    /\ l.pc \in {"key", "secret", "found"} => rows # {} /\ l.uuid = last
    /\ l.pc \in {"secret", "found"} => l.key = last
    /\ l.pc = "found" => l.secret = last
    /\ l.pc = "unbound" => rows = {} \/ l.gap = TRUE

Looking ==
    /\ lookup = [f \in Fields |-> lookup[f]]
    /\ lookup.calm \in BOOLEAN /\ lookup.gap \in BOOLEAN
    /\ lookup.pc \in {"uuid", "key", "secret", "found", "unbound"}

LookupInv ==
    lookup # NoLookup =>
        /\ Looking
        /\ Incomplete(id_table, lookup.openid) => lookup.gap = TRUE
        /\ lookup.calm = TRUE =>
              Progress(lookup, RowsIn(id_table, lookup.openid), LastIn(id_table, lookup.openid).id)

LEMMA BesideStep ==
    ASSUME LookupInv, Beside
    PROVE  LookupInv'
<1>1. CASE lookup.pc = "idle" \/ crashes' # crashes
    BY <1>1 DEF Beside, LookupInv
<1>2. CASE ~(lookup.pc = "idle" \/ crashes' # crashes)
  <2> DEFINE o == lookup.openid
             same == SameLast(id_table, id_table', o)
             lacks == Incomplete(id_table', o)
  <2>1. lookup # NoLookup /\ lookup' = [lookup EXCEPT !.calm = lookup.calm /\ same, !.gap = lookup.gap \/ lacks]
      BY <1>2 DEF Beside, NoLookup
  <2>2. Looking
      BY <2>1 DEF LookupInv
  <2> HIDE DEF same, lacks
  <2>3. /\ lookup'.pc = lookup.pc /\ lookup'.openid = o /\ lookup'.uuid = lookup.uuid
        /\ lookup'.key = lookup.key /\ lookup'.secret = lookup.secret
        /\ lookup'.calm = (lookup.calm /\ same) /\ lookup'.gap = (lookup.gap \/ lacks)
        /\ lookup' = [f \in Fields |-> lookup'[f]]
      BY <2>1, <2>2, Zenon DEF Looking, Fields
  <2>4. lookup'.calm \in BOOLEAN /\ lookup'.gap \in BOOLEAN
      BY <2>3
  <2>5. Looking'
      BY <2>2, <2>3, <2>4 DEF Looking
  <2>6. lacks => lookup'.gap = TRUE
      BY <2>3
  <2>7. ASSUME lookup'.calm = TRUE
        PROVE  Progress(lookup', RowsIn(id_table', o), LastIn(id_table', o).id)
    <3>1. lookup.calm = TRUE /\ same
        BY <2>2, <2>3, <2>7 DEF Looking
    <3>2. /\ RowsIn(id_table', o) = {} <=> RowsIn(id_table, o) = {}
          /\ RowsIn(id_table, o) # {} => LastIn(id_table', o).id = LastIn(id_table, o).id
        BY <3>1 DEF SameLast, same
    <3>3. Progress(lookup, RowsIn(id_table, o), LastIn(id_table, o).id)
        BY <2>1, <3>1 DEF LookupInv
    <3>4. lookup.gap = TRUE => lookup'.gap = TRUE
        BY <2>3
    <3> QED BY <2>3, <3>2, <3>3, <3>4 DEF Progress
  <2> QED BY <2>3, <2>5, <2>6, <2>7 DEF LookupInv, lacks
<1> QED BY <1>1, <1>2

LEMMA SelectEffect ==
    ASSUME "select" \notin Failures, LookupInv, NEW row,
           NEW from \in {"uuid", "key", "secret"}, NEW to \in {"key", "secret", "found"},
           Select(from, row, to)
    PROVE  /\ lookup # NoLookup /\ lookup.pc = from /\ id_table' = id_table
           /\ Looking /\ Looking'
           /\ lookup'.openid = lookup.openid /\ lookup'.calm = lookup.calm /\ lookup'.gap = lookup.gap
           /\ \/ /\ lookup'.pc = to /\ lookup'[from] = row.id /\ RowsIn(id_table, lookup.openid) # {}
                 /\ \A f \in {"uuid", "key", "secret"} \ {from} : lookup'[f] = lookup[f]
              \/ /\ lookup'.pc = "unbound"
                 /\ RowsIn(id_table, lookup.openid) = {} \/ from \in row.empty
<1>1. lookup.pc = from /\ from # "idle" /\ id_table' = id_table
    BY DEF Select, vars
<1>2. lookup # NoLookup
    BY <1>1 DEF NoLookup
<1>3. Looking
    BY <1>2 DEF LookupInv
<1>4. CASE lookup' = [lookup EXCEPT ![from] = row.id, !.pc = to] /\ Finds(row, from)
    BY <1>1, <1>2, <1>3, <1>4 DEF Looking, Fields, Finds, RowsFor
<1>5. CASE lookup' = [lookup EXCEPT !.pc = "unbound"] /\ ~Finds(row, from)
    BY <1>1, <1>2, <1>3, <1>5 DEF Looking, Fields, Finds, RowsFor
<1> QED BY <1>4, <1>5 DEF Select

\* One select after the other keeps what was read together.
LEMMA SelectStep ==
    ASSUME "select" \notin Failures, LookupInv,
           NEW from \in {"uuid", "key", "secret"}, NEW to \in {"key", "secret", "found"},
           from = "uuid" => to = "key", from = "key" => to = "secret", from = "secret" => to = "found",
           Select(from, LastRow(lookup.openid), to)
    PROVE  LookupInv'
<1> DEFINE o == lookup.openid
           rows == RowsIn(id_table, o)
           last == LastIn(id_table, o)
<1>1. /\ lookup # NoLookup /\ lookup.pc = from /\ id_table' = id_table
      /\ Looking' /\ lookup'.openid = o /\ lookup'.calm = lookup.calm /\ lookup'.gap = lookup.gap
      /\ \/ /\ lookup'.pc = to /\ lookup'[from] = last.id /\ rows # {}
            /\ \A f \in {"uuid", "key", "secret"} \ {from} : lookup'[f] = lookup[f]
         \/ /\ lookup'.pc = "unbound"
            /\ rows = {} \/ from \in last.empty
    BY SelectEffect DEF LastRow
<1>2. Incomplete(id_table, o) => lookup.gap = TRUE
    BY <1>1 DEF LookupInv
<1>3. rows # {} /\ from \in last.empty => lookup.gap = TRUE
    BY <1>2 DEF Incomplete
<1>4. lookup.calm = TRUE => Progress(lookup, rows, last.id)
    BY <1>1 DEF LookupInv
<1> HIDE DEF rows, last
<1>5. ASSUME lookup.calm = TRUE PROVE Progress(lookup', rows, last.id)
  <2>1. CASE lookup'.pc = "unbound"
      BY <1>1, <1>3, <2>1 DEF Progress
  <2>2. CASE lookup'.pc # "unbound"
    <3>1. CASE from = "uuid"
        BY <1>1, <1>4, <1>5, <2>2, <3>1 DEF Progress
    <3>2. CASE from = "key"
        BY <1>1, <1>4, <1>5, <2>2, <3>2 DEF Progress
    <3>3. CASE from = "secret"
        BY <1>1, <1>4, <1>5, <2>2, <3>3 DEF Progress
    <3> QED BY <3>1, <3>2, <3>3
  <2> QED BY <2>1, <2>2
<1> QED BY <1>1, <1>2, <1>5 DEF LookupInv, rows, last

LEMMA LookupStep ==
    ASSUME "select" \notin Failures, LookupInv, [LookupNext]_lookupVars
    PROVE  LookupInv'
<1>1. CASE Beside
    BY <1>1, BesideStep
<1>2. ASSUME NEW o \in Openids, LookupStart(o) PROVE LookupInv'
  <2>1. /\ lookup' = [pc |-> "uuid", openid |-> o, uuid |-> 0, key |-> 0, secret |-> 0,
                      calm |-> TRUE, gap |-> Incomplete(id_table, o)]
        /\ id_table' = id_table
      BY <1>2 DEF LookupStart, vars
  <2>2. /\ lookup'.pc = "uuid" /\ lookup'.openid = o /\ lookup'.calm = TRUE
        /\ lookup'.gap = Incomplete(id_table, o)
        /\ lookup' = [f \in Fields |-> lookup'[f]]
      BY <2>1 DEF Fields
  <2>3. lookup'.gap \in BOOLEAN
      BY <2>2 DEF Incomplete
  <2>4. Looking'
      BY <2>2, <2>3 DEF Looking
  <2> QED BY <2>1, <2>2, <2>4 DEF LookupInv, Progress
<1>3. CASE id_mgr_get_uuid_by_group_openid
    BY <1>3, SelectStep DEF id_mgr_get_uuid_by_group_openid
<1>4. CASE id_mgr_get_product_key_by_group_openid
    BY <1>4, SelectStep DEF id_mgr_get_product_key_by_group_openid, KeyRow
<1>5. CASE id_mgr_get_dev_secret_by_group_openid
    BY <1>5, SelectStep DEF id_mgr_get_dev_secret_by_group_openid
<1>6. CASE LookupEnd
    BY <1>6 DEF LookupEnd, LookupInv
<1>7. CASE UNCHANGED lookupVars
    BY <1>7 DEF lookupVars, vars, LookupInv, Looking, Progress
<1> QED BY <1>1, <1>2, <1>3, <1>4, <1>5, <1>6, <1>7 DEF LookupNext, LookupThread

\* If selects do not fail, the three selects of a lookup tell of one device,
\* the one in the last row of the user, unless another row became that in
\* between; and who has a device is told of none only if a column of its row
\* was empty (openid.c:278-288, id_mgr.c:437-537).
THEOREM LookupsAreRight ==
    ASSUME "select" \notin Failures
    PROVE  LookupSpec => []LookupIsRight
<1>1. LookupInit => LookupInv
    BY DEF LookupInit, LookupInv
<1>2. LookupInv /\ [LookupNext]_lookupVars => LookupInv'
    BY LookupStep
<1>3. LookupInv => LookupIsRight
  <2> SUFFICES ASSUME LookupInv PROVE LookupIsRight
      OBVIOUS
  <2>1. CASE lookup = NoLookup
      BY <2>1 DEF LookupIsRight, NoLookup
  <2>2. CASE lookup # NoLookup
      BY <2>2 DEF LookupInv, Looking, Progress, LookupIsRight, LastRow, RowsFor
  <2> QED BY <2>1, <2>2
<1> QED BY <1>1, <1>2, <1>3, PTL DEF LookupSpec
=============================================================================
