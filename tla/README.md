# A verification project for iot_server

TLA+ models of the server in `src/iot_server`, TLC runs that check them on small
instances, and TLAPS proofs of the results that hold for every instance.
Paths below are relative to `src/iot_server`; `F` is `framework/src`, `P` is
`project/msc100/src`.

## 1. The system

The server connects gateways (which have sub-devices behind them) with the apps
of users. One process runs these parts; a second process is the log daemon.

| Part | Code | State | Operations |
|---|---|---|---|
| log daemon | `F/log/log.c`, `debug_util.c`, `msg_util.c` | System V queue, ring of messages, two semaphores, mutex, log files | receive, write, replace and delete log files |
| thread pool | `F/core/rthread.c` | task queue, mutex, condition, flags of each task | add, delete, wait for, free a task; destroy the pool |
| gateway manager | `P/device_manage/dev_mgr.c`, `dev_param.c` | epoll set, list of sockets, list and hash table of gateways | accept, register, heartbeat, status, firmware request, expiry |
| device database | `F/db/id_mgr.c` | `id_table` of SQLite, one connection for all threads | add, delete, bind, unbind a device |
| client manager | `P/device_manage/clt_mgr.c`, `clt_param.c` | epoll set, list of sockets | accept, handshake, bind, unbind, get a device, expiry |
| message dispatch | `P/msg_handle/json_msg_handle.c`, `json_msg_clt.c` | none | JSON to a command and its arguments |
| hash table | `P/device_manage/hash_table.c` | buckets, load limit | insert, search, remove, grow |
| websocket framing | `P/device_manage/ws.c` | none | handshake key, frames |
| user lookup | `P/https_client/openid.c`, `https_client.c` | epoll set | answers which device a user has |
| web pages | `P/httpd/goahead_apps.c` on the vendored GoAhead | none | add and delete devices |
| sockets, time | `F/core/sock_core.c`, `tcp_sock.c`, `os_time.c` | none | wrappers of system calls |

How they interact:

- `main.cpp` starts the web server, the gateway manager, the user lookup and the
  client manager; each manager adds its loops as tasks to the thread pool.
- A manager has two threads over the same tables: an epoll loop that accepts
  and handles messages, and a flush thread that every three seconds closes what
  has been silent for `TCP_TIMEOUT`. The tables call back into the manager
  (`sock_exit_fn`) to close a socket.
- The gateway manager, the client manager, the user lookup and the web pages
  all use the one SQLite connection of `id_mgr.c`.
- The client manager would read gateways and their sockets from `dev_param`; the
  two commands that lead there are commented out of its `json_handle_tbl` today.
- Descriptors are those of the process: a number that one manager closes is handed
  to the other one by its next `accept`.
- Every `IOT_INFO` is a message to the log daemon, also in the daemon itself.

What is hard about it:

- *Concurrency without locks.* Lists are changed outside the mutex, a gateway is
  looked up before it is locked, the pool is destroyed without its mutex.
- *Reuse of descriptors.* Several places remember a descriptor; after a close
  the number belongs to somebody else.
- *Time.* Everything that is silent must go away, nothing that talks should.
- *Several statements, one connection.* Checks and updates of the database are
  separate statements, and a transaction of one thread encloses those of others.
- *Bounded buffers.* The ring of the log daemon refuses messages when full; its
  semaphore has to count exactly the accepted ones.
- *Failures.* Writes that fail, files that vanish, statements that fail, crashes.

`PROJECT.json` lists these hazards one by one, at their lines, with the
properties that would catch them.

## 2. The modules

| Module | Models | Uses |
|---|---|---|
| `LogFifo` | abstract specification: a bounded FIFO queue that may drop when full | |
| `LogQueue` | message path of the log daemon | `LogFifo` as refinement target |
| `LogDaemon` | the whole daemon with its files and the deleting thread | `LogQueue` |
| `RThread` | one pool of the thread pool module | |
| `DevMgr` | gateway manager | |
| `CltMgr` | client manager | |
| `HashMap` | abstract specification: a map with atomic insertion and removal | |
| `HashTable` | the hash table, store by store, with searches beside it | `HashMap` as refinement target |
| `IdMgr` | device database with the client thread and the web thread | |
| `UserLookup` | the user lookup reading that database | `IdMgr` |
| `WsFrame` | websocket frames, byte by byte | |
| `*Proofs` | theorems about `LogQueue`, `LogDaemon`, `RThread`, `DevMgr`, `CltMgr`, `HashTable`, `IdMgr`, `WsFrame` | the module of the same name; `IdMgrProofs` covers `UserLookup` as well |
| `MC*` | instances for TLC | the module of the same name |

### LogQueue and LogDaemon

`debug_send` puts a message into the kernel queue (`kernelQueue`, lost if it is
full); `log_msg_routine` takes it out, locks, pushes it into the ring
(`PushReject`, `PushStore`, `PushAdvance`), unlocks and posts the semaphore
(`RecvUnlock`, `RecvPost`, five steps in that order). `log_write_file_thread`
waits, locks, pops, unlocks, writes. Ring, indices and length keep the names of
`LOG_MSG_QUEUE_S`. The refinement mapping to `LogFifo` reads the queue off the
ring; a push takes effect when `iMsgLen` is advanced.

`LogDaemon` conjoins the steps of `LogQueue` with what they do to the files, so
every behaviour of the daemon is one of `LogQueue`'s. A file is its name, and
its name is the second in which it was opened; its size is counted in messages.
`log_file_new` within the same second opens the same file. `log_file_del_zip_thread`
counts and removes in two steps, and its `IOT_INFO` is a `debug_send` to the
daemon itself. Faults: a write that fails, a log file that somebody removes, a shell
command that fails. A `popen` or `fgets` that fails makes `log_file_num_get` answer
`LOG_FAIL`, which is not above the limit (`DelCountFails`); the result of the `rm` is not
looked at (`DelRmFails`); the same may happen to `log_init_check` before the threads
start. In each case the announcement is used up and nothing is removed. `lost` counts
such deletions as long as there are too many files, and it is the amount by which
`SurplusIsAnnounced` gives way. Time is read in `log_file_new` only. The order of `ls -rt`
is the order of names as long as the clock does not step back; that is assumed.

### RThread

Threads (`pc`, `work`), the queue with its mutex and condition, and for each task
an owner that adds it, sets `is_destroyed`, waits with a timeout (so that
`rthread_wait_exit` may return at any time) and frees it. `DecideToWait` and
`CondWait` are two steps because `rthread_destroy` does not take the mutex.
Spurious wakeups are allowed. The queue is the linked list of the code: `task_queue_head`,
`task_queue_end`, `task_queue_size` and the links (`next`), changed as `rthread_add` and
`thread_pool_entrance` change them; `added` and `taken` are histories that say what
it should hold. `JoinedThreads` are those that `rthread_destroy` joins: all of them in the
normal pool, some of them in the tiny one (at least one in either). Then it releases
what is queued task by task (`FreeTask`) and the pool itself (`FreePool`), while threads that
it did not join may still serve the tasks they hold. A thread that would use the mutex of a
released pool has left the defined part of C; the model stops it there (`PoolExists`).

### DevMgr

`conn[fd]` is the identity of the connection open at `fd`, so that reuse of
descriptors is visible. `epoll_wait` returns the ready descriptors in any order as
a batch, which goes stale while it is worked through. A message is its command
(one of the four of `json_handle_tbl`, or another one, which is ignored) and its
`cc_uuid`. Each call into `dev_param` that locks is a step of its own, preceded by
the lookup that the code does outside the lock. The flush thread's steps are the expiry test, the list operation, `EPOLL_CTL_DEL` and `close`.
Entries have an age instead of a deadline, which keeps the state space finite:
`now >= next_sec` is `age >= TCP_TIMEOUT`. List operations are atomic; a node that
`dev_param_register` has freed and the flush thread frees again ends the process
(`crashed = 1`), after which nothing is claimed.

The list of sockets is a set of nodes: two nodes never agree in descriptor and
connection, and a flush pass does the same to every node it finds expired, in
whatever order it meets them.

`epoll_wait` may fail at any time, with `EINTR` for instance: the loop breaks and its thread
is gone for good (`EpollError`, in `CltMgr` too). The flush thread goes on.

### CltMgr

The same two threads for the apps, with three differences. An accepted socket enters
only the epoll set; it enters the list after its handshake is answered (`Shake`, then
`clt_param_add_connect_sock`). Whether a socket is in the list decides whether what it
sends is a frame or text to be searched for a handshake key (`Message`), also when the
number in the list was left by an earlier connection. One `recv` may return several
messages, of which the code handles the first (`RecvMessage`, `Message`). The gateway
manager appears as another user of descriptors (`OtherUses`), since numbers closed on
one side are handed out on the other. `ev.asked` and `ev.sent` record that a request was
carried out and that its answer reached its connection. What a request does to the
database is the client thread of `IdMgr`.

### HashTable

Entries are cells with a key and a link; the stores of an insertion, a removal and an
expansion that a search without the mutex can tell apart are steps of their own, in
program order. One thread searches and inserts, one removes, and `Visitors` only
search. Allocations may fail. A search that follows a freed entry or reads a freed
bucket array has left the defined part of C: the model stops there (`wild`) and claims
nothing. A chain is the least set of entries that holds the first one and is closed
under the links (`Reach`). The refinement to `HashMap` reads the map off the chains, during
an expansion off both arrays. For each search the model records which keys were in the map
throughout (`always`) and never (`never`), which is what `SearchIsRight` compares its
answer with. The one visitor in the code is the client thread, through the commands
that are commented out today; the run has one so that the case is checked before
somebody enables them.

### WsFrame

Bytes are numbers; `ws_decode_data` and `ws_construct_packet_data` are operators with
the branches of the code. `Frame` and `ReadPacket` are the protocol's own definitions
(RFC 6455), and the run compares the two over frames at all limits. `WellFormed` says which
frames the protocol allows. `Xor` takes bytes apart bit by bit, as the code does with `~`,
`&` and `|`.

### IdMgr

Rows keep the key, the two columns that decide anything, `dev_uuid` and `gopenid`,
and whether product key and secret are empty (`empty`; the web page sends them, and
`MayBeEmpty` says which it may leave out), since an empty column counts as none for the
reader. The web thread's `id_mgr_add_device` goes on to the two updates of the page
(`UpdateKey`, `UpdateSecret`). The database of an earlier run is `OldRows`. Each SQL statement is a step. `disk` is what a crash leaves; between
`begin` and `commit` of `device_del` neither thread's statements reach it.
`Failures` says which statements may fail, and each failure takes the path that
the code takes: a failed select counts as "nothing found", a failed deletion
and a failed commit, whose result nobody looks at, leave the transaction open
(`inTransaction = 2`): until another deletion commits it, no statement of either thread
is durable. `BindingReachesDisk` excepts only a transaction that stays open for good.

`UserLookup` adds the thread of `openid.c`, which reads uuid, product key and secret of a
user's device by three selects. A column is represented by the row it was read from, so
"the three belong together" is that the three rows are one. A row of which the column is
empty ends the lookup like a missing one: the user is told that there is no device. Two
histories go with a lookup: `calm`, the last row of the user has been the same one since it
began (everything else may have changed, the columns of that row included), and `gap`, that
row has lacked a column at some time.

## 3. The runs

Passing runs:

| Run | Bounds | Shows |
|---|---|---|
| `log_queue` | ring of 3 slots, kernel queue of 2, 2 messages, fair threads | the semaphore counts the queued messages, `msg_pop` never runs dry, only a full ring refuses, the ring implements the FIFO (also the fair one), every accepted message is written |
| `log_daemon` | ring and kernel queue of 1, check interval 3, 2 files allowed and 2 found at start, size limit 1, 4 client messages, 2 seconds after the start, one failing write, removed file or failing shell command, fair threads | each surplus file has a deletion announced or under way, or one that failed; a lost deletion is made good by the next replacement; size bound; the open file is not removed; the daemon comes to rest when clients stop |
| `rthread` | 2 threads of which one is joined, 2 tasks with their owners, destroyer, fair threads, tasks that need not return | head, end, links and size of the queue agree with what was added and taken, order, exactly one worker per task, no use after free, `rthread_destroy` releases just the tasks that nobody took; an added task is started unless all threads stay busy or the pool is destroyed |
| `dev_mgr` | 2 descriptors, 2 connections, 2 messages, a known and an unknown id, 4 commands and an unrecognised one, a failing `epoll_wait` | no descriptor leak, no deaf connection, list and table agree |
| `dev_mgr_live` | 1 descriptor used by 2 connections, a failing `epoll_wait`, fair threads | silence is cleaned up, messages are read |
| `clt_mgr` | 2 descriptors shared with the gateway manager, 2 connections, 3 messages, a request and an unreadable message, fair threads | an answered handshake is tracked until it is closed, a request is answered on its own connection unless that is being closed, a connection that asks for the handshake does not stay open for ever, unless a failing `epoll_wait` has ended the loop |
| `hash_table` | 4 keys (two with one hash value), 2 buckets growing to 5, 3 entries, one visitor, failing allocations, expansions into a new array | entries are in their buckets and counted; insertions, removals and expansions implement a map; a search beside them finds what was there throughout and nothing that never was |
| `id_mgr` | 2 devices, 2 users, a database that holds both devices, one of them bound and the other without its secret, 2 requests of the app, 2 pages, 1 lookup, statements and commits that fail, a crash, fair threads | one row per device, bindings are not taken over, bindings reach the disk unless their transaction stays open for good, a lookup returns one device as long as the user's last row is the same one, and none only if there is none or a column of it was empty |
| `ws_frame` | every opcode with and without FIN, masked and not, payloads at the limits of the length forms (125, 126) and of the buffers (1024, 1034), frames cut short and followed by others | a whole frame decodes to its type and payload, a cut one is refused, what is sent is the answer's frame or nothing |

Why the bounds are enough: a ring of three slots has a wrapped, a full, an empty
and a partly filled state with both indices different; two descriptors let one be
reused while the other is open; two threads and two tasks give a
waiting thread next to a busy one and a queue that has an order (the proofs cover
every number of either); a second device or user is needed only to confuse it with
the first. `LOG_CHECKFILESIZE_INTERVAL` must be at least 3 for `ComesToRest`: a
replacement announces two deletions, each of which logs one message; the real
value is far larger. `log_daemon` starts with as many files as are allowed, so a failing
`log_init_check` leaves one too many with the first file opened; the names of its two seconds
make up to two more, enough for two replacements, of which the second has to make good what the first lost; its
four messages and the daemon's own reach a second size check of a file that the first one
kept. `id_mgr` starts with what an earlier run left: a bound and an unbound device, and
a row that lacks a column, so that two requests of either thread already meet every
statement of the other one. `TCP_TIMEOUT = 1` makes
an entry either fresh or expired, the only distinction the code makes.

The hash table needs keys that share a bucket in the small table, in the large one and
in both; the expansion happens at the third entry, so three entries reach every
insertion before, during and after it. Three messages on a client's connection are a
handshake, a request and one more in the same `recv`. Frames of 65535 bytes and more
do not fit into any buffer of the server.

Deadlock checking is off where the environment's bounds (messages, connections,
requests, seconds) run out: the system then waits for ever, as it should.

Runs that TLC refutes, each the subject of a finding in `PROJECT.json`:

| Run | The comment says | The code does |
|---|---|---|
| `rthread_destroy` | all threads are told that the pool is destroyed | a thread between its test and its wait misses flag and broadcast; the join never ends |
| `dev_mgr_close` | later closes fail | they close whoever got the number |
| `id_mgr_bind` | 0 is success, 2 no such device | a device deleted in between is answered with 0 |

Smaller disagreements met while reading, visible in a single line and so not given
a run: the comment at `F/core/rthread.c:511` has the two answers of
`rthread_is_exited` the wrong way round; `P/device_manage/dev_param.c:31` says that
the list holds unregistered sockets, but registering puts the socket back;
`dev_param.c:244` and `315` speak of 120 seconds where `TCP_TIMEOUT` is 20;
`F/db/id_mgr.c:375` answers 1, "no such device", also for an existing device whose
openid nobody holds. A select that fails counts as "nothing found": in
`id_mgr_add_device` (`id_mgr.c:84`) it lets a second row of the same device in, in
`id_mgr_insert_gopenid` (`id_mgr.c:159`) it gives a bound device away; the proofs about rows and lookups assume that selects
do not fail. The comment at `F/core/rthread.c:218` says that all threads are waited for, but the
tiny pool starts `thread_pool_size` threads (lines 139 and 167) and joins only its own
`thread_num` of them (line 119), so `rthread_destroy` may return before the others. A device whose
product key or secret was left empty on the page (`P/httpd/goahead_apps.c:137`) is bound like
any other, but the lookup tells its user that there is none (`F/db/id_mgr.c:489`). `P/device_manage/clt_param.c:29` describes the client manager's list as that of accepted sockets,
but a socket enters it only with its handshake: a connection that never asks for one, and
never closes, is never timed out.

### Fairness

- Log daemon: the three threads are scheduled (weak fairness). Taking the mutex is
  strongly fair: it is held for a bounded number of steps and a thread that asks
  again and again gets it. Clients and faults owe nothing.
- Thread pool: the same for workers. Tasks need not return, except in
  `rthread_destroy`, where the finding would otherwise show nothing.
- Gateway manager: both threads run, time passes, and a flush pass visits every
  entry, so an entry that stays expired is removed. The epoll thread is strongly
  fair because the flush thread takes the mutex for whole removals again and
  again. Peers owe nothing. `epoll_wait` may fail, which ends the loop, but need not: the
  fairness of the loop does not include `EpollError`. `SilenceIsCleaned` and `MessageIsRead` hold
  without an exception, because the flush thread closes what is listed.
- Client manager: both threads run and time passes; the epoll thread is strongly fair
  because the flush thread and the gateway manager may take its descriptors away again
  and again; a node that is found expired in pass after pass is removed (strong fairness
  for each descriptor). Apps and gateway manager owe nothing. `epoll_wait` may fail here
  too; a socket that is not yet in the list is then never closed, which
  `UpgradeIsClosed` excepts.
- Device database: a thread finishes the request it has begun. No request has to
  be made.

## 4. The proofs

All proofs are for arbitrary constants that satisfy the named assumptions.

`LogQueueProofs`: `TypeCorrect`, `SemaphoreCorrect`, `PopCorrect`, `RejectCorrect`,
`RingImplementsFifo`. The inductive invariant adds to the type invariant who holds
the mutex at which program counter, that head, tail and length of the ring agree
modulo the length of the buffer (the full and the empty ring have equal indices),
and the count: semaphore, pending post and the writer's unused token add up to
`iMsgLen`. Popping is safe because the token in the writer's hand keeps
`iMsgLen` positive until it has popped. For the refinement the content of the ring
is a function of head and length; push and pop are shown to append and to take the
head of that sequence.

`RThreadProofs`: `TypeCorrect`, `OrderCorrect`, `EachTaskOnce`, `NoReleasedTaskIsUsed`,
`DestroyReleasesQueue`, for either pool, whichever threads it joins. `OrderInv` is the shape of
the queue: the tasks taken are a prefix of those added, each added once, and until
`rthread_destroy` starts releasing, head, end, size and links are those of the rest; a
task that was never added has no link. Of this `FirstComeFirstServed` and `TakenOnce` are
consequences. `PoolInv` adds four parts: a task that a worker runs was taken, has not exited, and
no other worker runs it (`HeldInv`); a task has exited only after it was taken, and `exit_normal`
is set only for tasks that have exited (`ExitInv`); what is released has exited, or was never
taken and `rthread_destroy` is at work (`FreedInv`); and the head of the queue has moved
past exactly the tasks that `rthread_destroy` has released (`ReleaseInv`). So no released
task is one that a worker holds or the queue leads to, and when the head has run out every
task that nobody took is released. That no worker takes a task from the queue while it is
being released follows from the flag, which is set before.

`IdMgrProofs`: `TypeCorrect`, `RowsAreUnique`, `BindingsAreKept`, `LookupsAreRight`. The last
three assume that selects do not fail. The invariant adds three facts: outside a
transaction the disk is up to date; a device that the web thread is about to insert
has no row yet (only the web thread inserts, one request at a time); a device that
the client thread is about to bind is still unbound or has no row (only the client
thread binds). A crash returns to the disk, whose rows are unique too, with both
threads idle. For a lookup, `LookupInv` says that the columns an undisturbed one has read so far are
those of the last row of its user, and that one which was refused found no row or has seen a
gap. The updates of the page change columns of that row but not which row it is, so only a step
that marks the lookup as disturbed can move it. A select that fails would end the lookup although
the user has a device, hence the assumption.

`LogDaemonProofs`: `DaemonImplementsQueue`, `DaemonTypeCorrect`, `SurplusCorrect`,
`SizeCorrect`, `OpenFileCorrect`. Every step of the daemon is one of the message path or
leaves it alone, so what is proved of `LogQueue` holds of the daemon. For the count of
writes: it reaches the interval only in front of the check that resets it. For surplus
files: until the writer has opened its first file there is room for it (`log_init_check`
removes one file) or a deletion is lost, and the post after `log_file_new` pays for the file
opened; a count that finds no surplus needs no announcement, and `lost` goes back to zero
only when there is none. For sizes: the file that is open owes the
writes since the last check to its latest opening, so that a replacement within the
same second, which appends to the same file, is paid for by the new opening. For the
open file: it is the newest one, and at the removal at least two files exist, because
more than `log_file_maxcount` were counted. Removals by others between the count and the
removal take away from that; the theorem assumes that they are fewer than
`log_file_maxcount`. With as many of them the daemon would remove its own open file.

`DevMgrProofs`: `ListAndTableAgree`, `NobodyIsDeaf`, `NothingLeaks`. `LockInv` says when
the flush thread holds the mutex and that between its two removals the list lacks just the
gateway that the table still has. The property `NoDeafConnection` is then inductive: a
descriptor leaves the epoll set with its close or just before it, and meanwhile the mutex
keeps the socket of the gateway being flushed what it is. `NothingLeaks` needs the
strengthening `LeakInv`: only an id that is not in the table is inserted, and the gateway
being flushed is still listed until its removal (`GwInv`); when the flush thread drops a
gateway, the gateway's descriptor is closed, or the loop has just accepted a connection
under that number and waits for the mutex to list it (`DropInv`); and every open
descriptor is in the list, a listed gateway's, being added, or the flushed node's (`Held`).
The case `DropInv` covers is the one a test would hardly meet: the number is closed by
the flush thread and accepted again by the loop before the old gateway is gone.
`GatewayTypes` needs more than types: that a batch of events names a descriptor once
(`BatchInv`), so that `accept` runs once for the listening socket while a connection waits,
and that a loop which serves a message has the descriptor and connection it read (`EvTypes`).

`CltMgrProofs`: `ClientsAreTracked`, `RequestsAreAnswered`. A connection is open at one
descriptor only and is accepted before it can be shaken (`NetInv`), so the connection that
`Shake` marks is that of the descriptor which the loop adds next, however often the number
was closed and reused. While the loop works on a request its descriptor leaves the list
only into the hands of the flush thread (`RequestInv`). `ClientTypes` contains that an app is
shaken only if it asked: what asks for the handshake and is still on its way, or in the loop's
buffer, was sent by an app that has asked (`UpgradeInv`); its `BatchInv` is that of `DevMgr`.

`HashTableProofs`: `TypeCorrect`, `TableInOrder`, `UnlockedSearchIsRight`, `TableIsMap`, for every
hash function, every sequence of table lengths and any number of threads that search. Nothing is
said by induction over a chain: an entry is outside a chain because some closed set without it
holds the head. The invariant `TableInv` gives every allocated entry its one place (`PlaceInv`:
the old array, the new one, or the hand of a thread), every entry its bucket (`OrderInv`), and
makes chains disjoint and finite (`LinkInv`: no two links lead to one entry, none to the head
of a chain), so that linking or unlinking one entry changes one chain by that entry. It also
says that hash values of entries differ (`KeyInv`), and that the count is right except while an
insertion has counted the entry that it has not linked yet (`CountInv`).
`OnTrack` follows each search: it stands on an entry of the table, on one being removed, or at
the end, and what was there throughout is still ahead of it. It holds of searches beside which
no expansion has run: during one the code moves entries to chains that the search does not
see. For `TableIsMap` each step is shown to leave the map alone or to be the insertion or
removal of one key. All of it is about expansions into a new array; the expansion in place, to
which the code turns when `malloc` fails, is not modelled.

`WsFrameProofs`: `DecodingIsRight`, `PacketsAreRight`, for every set of frames below 2^31 bytes,
every key and every cut. The lemmas compute the bytes of a frame (`FrameIs`) and what the decoder
reads from as much of them as has arrived (`HeaderIsRead`, `FrameIsDecoded`): with a part of the
header it knows that the header is not all there, with all of it where the text begins and ends.
Unmasking undoes masking because bits add up modulo two (`XorTwice`). The packet's header tells
its length in both forms (`PacketIsRead`). Both theorems assume that a short answer fits into
the send buffer (`SEND_DATA_LEN_MAX` is 1034).

The finiteness of `Fds` (`DevMgr`, `CltMgr`) and of `Cells` (`HashTable`) is assumed: a process has
so many descriptors and so much memory. It makes batches of events sequences and entries
countable.

Every safety property of the passing runs is the subject of a theorem. Only model-checked
are the properties under fairness (`ImplementsFairFifo`, `AcceptedIsWritten`, `ComesToRest`,
`SurplusIsRemoved`, `AddedIsStarted`, `SilenceIsCleaned`, `MessageIsRead`, `UpgradeIsClosed`,
`BindingReachesDisk`), since liveness is out of the prover's reach, and the refutations. Selects that fail
(`IdMgr`) and removals of as many log files by others as are allowed (`LogDaemon`) are outside
the theorems that assume them away, for the reasons given with each.

## 5. Assumptions and what is not modelled

Not modelled: vendored code (GoAhead, libwebsockets, MQTT, cJSON, TinyXML, SQLite), which
makes up nearly all of the repository's lines, the older copy of the log daemon in `src/log`,
code that no makefile compiles, and pure input and output. Within the modelled parts:
allocation failures (except in the hash table), the destroy functions of the managers
(`main` never calls them), pointer-level races of the lists, columns of the database that
decide nothing, printing, the epoll loop of `openid.c`, whose connections carry no state
from one request to the next.

SQLite may roll an open transaction back by itself when the disk is full or fails; in the
model a statement that fails changes nothing. What a thread that was not joined does after its
pool is released, and what an owner does with a task that `rthread_destroy` has released, is
left out: both are uses of freed memory, which the caller would have to rule out (today
`rthread_destroy` is called only when `rthread_create` has failed).

Assumed: list operations are atomic; a handshake request arrives in one `recv`; a request
carries the fields its handler asks for; the stores of the hash table become visible in
program order; the clock does not step back; lengths of frames stay below 2^31.

Hazards seen in the code that lie outside the models:

- a disk that stays full makes every message replace the file and announce two deletions
  (`F/log/log.c:466`);
- `idle_thread_num` is changed with and without the mutex (`F/core/rthread.c:669`); it is only
  reported;
- a gateway that registers again keeps its old `sock_fd` (`P/device_manage/dev_param.c:156`);
  the one user of it is commented out;
- a heartbeat refreshes every node of the list, so one talking gateway keeps silent
  connections alive (`dev_param.c:277`; in the model, and the reason why
  `SilenceIsCleaned` asks for general silence);
- `gw_dev` is looked up without the mutex and may be freed before it is written
  (`dev_param.c:240`);
- timeouts use the wall clock (`F/core/os_time.c:111`);
- the lists of `clt_param` are changed outside the mutex (`P/device_manage/clt_param.c:133`);
- the expansion in place after a failed `malloc` (`P/device_manage/hash_table.c:96-119`): once
  `realloc` has succeeded it clears memory through an entry of the new part of the array, which
  nobody has set (line 103), so that nothing can be said of what follows; the model has the case
  that `realloc` fails too, where the table stays as it was;
- a search without the mutex beside an expansion, or over an entry that is freed: the
  visitors of the model may do both, and nothing is claimed of them then; the one thread
  that searches today is the one that inserts;
- a handshake split over two `recv`s is not recognised (`P/device_manage/clt_mgr.c:276`);
- unbinding looks for the openid in any row but clears the given device
  (`F/db/id_mgr.c:389`);
- key and secret of a device are updated by two statements (`P/httpd/goahead_apps.c:141`): in
  the model as far as the columns become empty or not, so a reader that meets an old key with a
  new secret is not told apart;
- connections of the user lookup that never send a code stay open
  (`P/https_client/openid.c:232`).

## 6. Plan

Done: the log daemon, the thread pool, both managers, the hash table, the device
database with the user lookup, the websocket frames, with the proofs above.

Left, in this order:

1. `TcpIo`: send and receive with timeouts and partial writes (`F/core/sock_core.c`), for which
   the server has no callers beyond one `recv` and one `send` per message;
2. the epoll loop of `openid.c`, and the wall clock that steps, in `DevMgr` and `CltMgr`.
