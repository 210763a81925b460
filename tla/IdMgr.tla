-------------------------------- MODULE IdMgr --------------------------------
(***************************************************************************)
(* The device database, framework/src/db/id_mgr.c, and the two threads     *)
(* that change it: the thread of clt_mgr.c binds devices to the openids of *)
(* users and releases them, the web server (goahead_apps.c) adds and       *)
(* deletes devices.  All threads share one SQLite connection: instance()   *)
(* returns the same object to every id_mgr_create.                         *)
(*                                                                         *)
(* A row keeps its primary key, the columns dev_uuid and gopenid, and      *)
(* whether its product_key and dev_secret are empty; names and times are   *)
(* left out.  Each SQL statement is atomic and is durable at once, except  *)
(* between the "begin" and the "commit" of device_del, where the           *)
(* statements of both threads wait for the commit.                         *)
(***************************************************************************)
EXTENDS Integers

CONSTANTS Uuids, Openids, NoOpenid,
          OldRows, NextId, \* the database at the start, and its next key
          Failures,       \* which of "select", "exec", "delete", "commit" may fail
          MayBeEmpty,     \* which of "key", "secret" the web page may leave empty
          MaxCrashes,     \* bound: crashes of the server
          MaxAppRequests, \* bound: requests of the app ...
          MaxPages        \* bound: ... and of the web server

ASSUME OpenidAssumption == NoOpenid \notin Openids
ASSUME FailureAssumption == Failures \subseteq {"select", "exec", "delete", "commit"}
ASSUME EmptyAssumption == MayBeEmpty \subseteq {"key", "secret"}
ASSUME IdBoundAssumption == MaxCrashes \in Nat /\ MaxAppRequests \in Nat /\ MaxPages \in Nat

Rows == [id : Nat, dev_uuid : Uuids, gopenid : Openids \cup {NoOpenid}, empty : SUBSET MayBeEmpty]

Unique(t) == \A r, s \in t : r.dev_uuid = s.dev_uuid => r = s

\* What an earlier run of the server has left.
ASSUME OldRowsAssumption ==
    OldRows \subseteq Rows /\ Unique(OldRows) /\ NextId \in Nat /\ \A r \in OldRows : r.id < NextId

VARIABLES id_table,       \* the rows as the connection sees them
          nextRow,        \* the next value of the autoincrement key
          disk,           \* the rows that a crash leaves
          inTransaction,  \* 1 between begin and commit, 2 if it was left open
          app, web,       \* the two threads
          answer,         \* what the last app request returned, until the next one
          crashes, appLeft, webLeft

boundVars == <<crashes, appLeft, webLeft>>
vars == <<id_table, nextRow, disk, inTransaction, app, web, answer, boundVars>>

AppPcs == {"idle", "select", "update", "isbound", "clear0", "clear1"}
WebPcs == {"idle", "insert", "key", "secret", "begin", "delete", "commit"}

AppIdle == [pc |-> "idle"]
WebIdle == [pc |-> "idle"]
NoAnswer == [op |-> "none"]

Init ==
    /\ id_table = OldRows /\ nextRow = NextId /\ disk = OldRows /\ inTransaction = 0
    /\ app = AppIdle /\ web = WebIdle /\ answer = NoAnswer
    /\ crashes = MaxCrashes /\ appLeft = MaxAppRequests /\ webLeft = MaxPages

RowsOf(u) == {r \in id_table : r.dev_uuid = u}

\* What a select may find: a failed one is taken to have found nothing.
Found(p) == {p} \cup (IF "select" \in Failures THEN {FALSE} ELSE {})

device_is_exist(u) == Found(RowsOf(u) # {})

group_openid_is_exist(o) == Found(\E r \in id_table : r.gopenid = o)

TableWithWrongValue(u, o) ==
    {IF r.dev_uuid = u THEN [r EXCEPT !.gopenid = u] ELSE r : r \in id_table}

\* update id_table set gopenid = o where dev_uuid = u
TableWith(u, o) ==
    {IF r.dev_uuid = u THEN [r EXCEPT !.gopenid = o] ELSE r : r \in id_table}

\* sqlite3_exec of a statement that changes the table to t.
Exec(t) ==
    /\ id_table' = t
    /\ disk' = (IF inTransaction = 0 THEN t ELSE disk)

-----------------------------------------------------------------------------
(* The thread of clt_mgr.c                                                 *)

Bound(t, u, o) == \E r \in t : r.dev_uuid = u /\ r.gopenid = o

AnswerWith(op, u, o, code) ==
    /\ answer' = [op |-> op, code |-> code, bound |-> Bound(id_table', u, o)]
    /\ app' = AppIdle

AppGoto(pc) == app' = [app EXCEPT !.pc = pc] /\ UNCHANGED answer

NewRequest == app.pc = "idle" /\ appLeft > 0 /\ appLeft' = appLeft - 1

\* id_mgr_add_group_openid: first the device must exist.
BindStart(u, o) ==
    /\ NewRequest
    /\ UNCHANGED <<id_table, nextRow, disk, inTransaction, web, crashes, webLeft>>
    /\ \E found \in device_is_exist(u) :
          IF found THEN app' = [pc |-> "select", uuid |-> u, openid |-> o] /\ answer' = NoAnswer
                   ELSE AnswerWith("bind", u, o, 2)

AlwaysInsert == TRUE

\* The device has no openid (its last row counts), or no row any more.
ShouldInsert ==
    \A r \in RowsOf(app.uuid) :
        (\A s \in RowsOf(app.uuid) : s.id <= r.id) => r.gopenid = NoOpenid

\* If the select fails, the device is taken to be free.
SeemsFree == {ShouldInsert} \cup (IF "select" \in Failures THEN {TRUE} ELSE {})

BindSelect ==
    /\ app.pc = "select"
    /\ UNCHANGED <<id_table, nextRow, disk, inTransaction, web, boundVars>>
    /\ \E free \in SeemsFree :
          IF free THEN AppGoto("update")
                  ELSE AnswerWith("bind", app.uuid, app.openid, 1)

BindUpdate ==
    /\ app.pc = "update"
    /\ Exec(TableWith(app.uuid, app.openid))
    /\ AnswerWith("bind", app.uuid, app.openid, 0)
    /\ UNCHANGED <<nextRow, inTransaction, web, boundVars>>

BindUpdateError ==
    /\ app.pc = "update" /\ "exec" \in Failures
    /\ UNCHANGED <<id_table, nextRow, disk, inTransaction, web, boundVars>>
    /\ AnswerWith("bind", app.uuid, app.openid, -1)

\* id_mgr_del_group_openid: first the device must exist ...
UnbindStart(u, o) ==
    /\ NewRequest
    /\ UNCHANGED <<id_table, nextRow, disk, inTransaction, web, crashes, webLeft>>
    /\ \E found \in device_is_exist(u) :
          IF found THEN app' = [pc |-> "isbound", uuid |-> u, openid |-> o] /\ answer' = NoAnswer
                   ELSE AnswerWith("unbind", u, o, 1)

\* ... then any row may hold the openid; it decides only the answer.
UnbindSelect ==
    /\ app.pc = "isbound"
    /\ \E found \in group_openid_is_exist(app.openid) :
          AppGoto(IF found THEN "clear0" ELSE "clear1")
    /\ UNCHANGED <<id_table, nextRow, disk, inTransaction, web, boundVars>>

UnbindClear ==
    /\ app.pc \in {"clear0", "clear1"}
    /\ Exec(TableWith(app.uuid, NoOpenid))
    /\ AnswerWith("unbind", app.uuid, app.openid, IF app.pc = "clear0" THEN 0 ELSE 1)
    /\ UNCHANGED <<nextRow, inTransaction, web, boundVars>>

UnbindClearError ==
    /\ app.pc \in {"clear0", "clear1"} /\ "exec" \in Failures
    /\ UNCHANGED <<id_table, nextRow, disk, inTransaction, web, boundVars>>
    /\ AnswerWith("unbind", app.uuid, app.openid, IF app.pc = "clear0" THEN 2 ELSE 1)

AppWork ==
    \/ BindSelect \/ BindUpdate \/ BindUpdateError
    \/ UnbindSelect \/ UnbindClear \/ UnbindClearError

-----------------------------------------------------------------------------
(* The web server                                                          *)

NewPage == web.pc = "idle" /\ webLeft > 0 /\ webLeft' = webLeft - 1
WebGoto(pc) == web' = [web EXCEPT !.pc = pc]

InsertAnyway(found) == TRUE
MayInsert(found) == ~found

\* The page also sends product_key and dev_secret, of which e are empty.  An
\* existing device goes straight on to their updates.
id_mgr_add_device(u, e) ==
    /\ NewPage
    /\ \E found \in device_is_exist(u) :
          web' = [pc |-> IF MayInsert(found) THEN "insert" ELSE "key", uuid |-> u, empty |-> e]
    /\ UNCHANGED <<id_table, nextRow, disk, inTransaction, app, answer, crashes, appLeft>>

AddInsert ==
    /\ web.pc = "insert"
    /\ Exec(id_table \cup {[id |-> nextRow, dev_uuid |-> web.uuid, gopenid |-> NoOpenid,
                             empty |-> web.empty]})
    /\ nextRow' = nextRow + 1
    /\ WebGoto("key")
    /\ UNCHANGED <<inTransaction, app, answer, boundVars>>

AddInsertError ==
    /\ web.pc = "insert" /\ "exec" \in Failures
    /\ web' = WebIdle
    /\ UNCHANGED <<id_table, nextRow, disk, inTransaction, app, answer, boundVars>>

\* update id_table set the column c, by the new value of the page.
TableWithColumn(c) ==
    {IF r.dev_uuid = web.uuid
     THEN [r EXCEPT !.empty = (r.empty \ {c}) \cup (web.empty \cap {c})] ELSE r : r \in id_table}

\* id_mgr_update_product_key and id_mgr_update_dev_secret.  Only this thread adds
\* and deletes devices, so that their check and their update are one step.
UpdateColumn(c, to) ==
    /\ web.pc = c
    /\ TRUE \in device_is_exist(web.uuid)
    /\ Exec(TableWithColumn(c))
    /\ to
    /\ UNCHANGED <<nextRow, inTransaction, app, answer, boundVars>>

\* The first update that fails, that of the name included, ends the page.
UpdateError ==
    /\ web.pc \in {"key", "secret"}
    /\ "exec" \in Failures \/ FALSE \in device_is_exist(web.uuid)
    /\ web' = WebIdle
    /\ UNCHANGED <<id_table, nextRow, disk, inTransaction, app, answer, boundVars>>

UpdateKey == UpdateColumn("key", WebGoto("secret"))
UpdateSecret == UpdateColumn("secret", web' = WebIdle)

id_mgr_del_device(u) ==
    /\ NewPage
    /\ \E found \in device_is_exist(u) :
          web' = (IF found THEN [pc |-> "begin", uuid |-> u, empty |-> {}] ELSE WebIdle)
    /\ UNCHANGED <<id_table, nextRow, disk, inTransaction, app, answer, crashes, appLeft>>

\* "begin" fails, unnoticed, if a transaction is open; it is this deletion
\* that will commit it.
DelBegin ==
    /\ web.pc = "begin"
    /\ inTransaction' = 1
    /\ WebGoto("delete")
    /\ UNCHANGED <<id_table, nextRow, disk, app, answer, boundVars>>

DelDelete ==
    /\ web.pc = "delete"
    /\ Exec({r \in id_table : r.dev_uuid # web.uuid})
    /\ WebGoto("commit")
    /\ UNCHANGED <<nextRow, inTransaction, app, answer, boundVars>>

\* The error path returns without commit or rollback.
DelDeleteError ==
    /\ web.pc = "delete" /\ "delete" \in Failures
    /\ inTransaction' = 2
    /\ web' = WebIdle
    /\ UNCHANGED <<id_table, nextRow, disk, app, answer, boundVars>>

NoCommit == UNCHANGED <<inTransaction, disk>>
Commit == inTransaction' = 0 /\ disk' = id_table

DelCommit ==
    /\ web.pc = "commit"
    /\ Commit
    /\ web' = WebIdle
    /\ UNCHANGED <<id_table, nextRow, app, answer, boundVars>>

\* Nobody looks at the result of "commit": the transaction stays open.
DelCommitError ==
    /\ web.pc = "commit" /\ "commit" \in Failures
    /\ inTransaction' = 2
    /\ web' = WebIdle
    /\ UNCHANGED <<id_table, nextRow, disk, app, answer, boundVars>>

WebWork ==
    \/ AddInsert \/ AddInsertError \/ UpdateKey \/ UpdateSecret \/ UpdateError
    \/ DelBegin \/ DelDelete \/ DelDeleteError \/ DelCommit \/ DelCommitError

-----------------------------------------------------------------------------
\* The server dies and starts again: SQLite rolls the open transaction back.
Crash ==
    /\ crashes > 0 /\ crashes' = crashes - 1
    /\ id_table' = disk /\ inTransaction' = 0
    /\ app' = AppIdle /\ web' = WebIdle
    /\ UNCHANGED <<nextRow, disk, answer, appLeft, webLeft>>

Next ==
    \/ \E u \in Uuids, o \in Openids : BindStart(u, o) \/ UnbindStart(u, o)
    \/ \E u \in Uuids, e \in SUBSET MayBeEmpty : id_mgr_add_device(u, e)
    \/ \E u \in Uuids : id_mgr_del_device(u)
    \/ AppWork \/ WebWork
    \/ Crash

Spec == Init /\ [][Next]_vars

\* A thread finishes the request that it has begun.
Fairness == WF_vars(AppWork) /\ WF_vars(WebWork)

-----------------------------------------------------------------------------
(* Properties                                                              *)

\* Type invariant of the database and its two threads.
TypeOK ==
    /\ id_table \subseteq Rows /\ disk \subseteq Rows /\ nextRow \in Nat
    /\ inTransaction \in {0, 1, 2}
    /\ app \in [pc : AppPcs \ {"idle"}, uuid : Uuids, openid : Openids] \cup {AppIdle}
    /\ web \in [pc : WebPcs \ {"idle"}, uuid : Uuids, empty : SUBSET MayBeEmpty] \cup {WebIdle}
    /\ crashes \in Nat /\ appLeft \in Nat /\ webLeft \in Nat

\* A device has one row, on the connection and on disk, although
\* id_mgr_add_device checks and inserts in two steps (id_mgr.c:84-93) and
\* deletions and crashes come in between.  It rests on selects that do not
\* fail: device_is_exist answers a failed one with 0.
UuidUnique == Unique(id_table) /\ Unique(disk)

\* No binding is taken over: a device changes from one openid to another only
\* by way of an unbinding (id_mgr.c:141-167; the select and the update are two
\* statements, with the web server between them).  It, too, rests on selects
\* that do not fail.
BindNeverSteals ==
    [][crashes' = crashes =>
          \A r \in id_table, s \in id_table' :
             r.dev_uuid = s.dev_uuid => \/ r.gopenid = NoOpenid
                                        \/ s.gopenid \in {r.gopenid, NoOpenid}]_vars

\* A deletion has failed, or its commit, and left the transaction open
\* (id_mgr.c:816-831 and 835).
Abandoned == inTransaction = 2

\* A binding that was made reaches the disk or is undone, whatever transaction
\* of the other thread it fell into (id_mgr.c:809-835): only a transaction that
\* is left open for good keeps it from the disk, and even such a one is
\* committed by the next deletion.
BindingReachesDisk ==
    \A u \in Uuids, o \in Openids :
        []( Bound(id_table, u, o) =>
               <>(Bound(disk, u, o) \/ ~Bound(id_table, u, o) \/ []Abandoned) )

\* What id_mgr.c:114 says of id_mgr_add_group_openid: 0 is success, and a
\* device that does not exist is answered with 2.
BindSuccessMeansBound ==
    answer.op = "bind" /\ answer.code = 0 => answer.bound
=============================================================================
