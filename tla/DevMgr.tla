------------------------------- MODULE DevMgr -------------------------------
(***************************************************************************)
(* The gateway side of the server: project/msc100/src/device_manage/       *)
(* dev_mgr.c and dev_param.c.  Two threads share the tables of dev_param:  *)
(* dev_thread_center accepts gateways and handles their messages in an     *)
(* epoll loop, dev_flush_center closes what has been silent for            *)
(* TCP_TIMEOUT.                                                            *)
(*                                                                         *)
(* A file descriptor is reused as soon as it is closed, so a connection    *)
(* has an identity of its own: conn[fd] is the connection that is open at  *)
(* fd, 0 if none is.  Time is kept as the age of an entry, the seconds     *)
(* since its next_sec was last set: now >= next_sec is age >= TCP_TIMEOUT. *)
(* The two list heads are read and changed without the mutex in many       *)
(* places; list_add_tail and list_del are taken to be atomic, a list_del   *)
(* of a node that the other thread has freed ends the process.  A list is  *)
(* the set of its nodes: no two nodes agree in descriptor and connection,  *)
(* and the order in which a flush pass meets them plays no part.           *)
(***************************************************************************)
EXTENDS Naturals, Sequences, FiniteSets, SequencesExt

CONSTANTS Ids,            \* the cc_uuids that messages carry
          Known,          \* those that id_mgr_id_is_exist finds
          Fds,            \* the descriptors that accept may return
          listen,         \* the listening socket
          MaxConns,       \* bound: connections that peers open
          MaxMsgs,        \* bound: messages that peers send
          Cmds,           \* the commands of the messages
          TCP_TIMEOUT,
          MaxAge          \* bound: ages are counted up to here

ASSUME IdAssumption == Known \subseteq Ids
ASSUME FdAssumption == Fds \subseteq Nat \ {0} /\ IsFiniteSet(Fds) /\ listen \notin Fds
\* The commands of json_handle_tbl; "unknown" is a message with another
\* command, or one that cannot be parsed.
Handled == {"register", "heart_beat", "updata_status", "fw_request"}

ASSUME CmdAssumption == Cmds \subseteq Handled \cup {"unknown"}
ASSUME DevBoundAssumption ==
    /\ MaxConns \in Nat /\ MaxMsgs \in Nat
    /\ TCP_TIMEOUT \in Nat \ {0} /\ MaxAge \in Nat /\ MaxAge >= TCP_TIMEOUT

VARIABLES conn, watched,          \* the descriptor table; the epoll set
          connected, accepted,    \* connections made by peers, accepted so far
          input, peer, msgLeft,   \* per connection: unread message, state of the peer
          sockList,               \* sock_fd_head
          head, hcc_id,           \* the ids in the GW_DEVICE list and in the table
          gwFd, gwAge,            \* GW_DEVICE.sock_fd, and the age of its next_sec
          mutex,
          events, pc, ev,         \* dev_thread_center
          flushPc, flushNode, flushId,   \* dev_flush_center
          crashed

netVars == <<conn, watched>>
peerVars == <<connected, input, peer, msgLeft>>
gwVars == <<head, hcc_id, gwFd, gwAge>>
loopVars == <<events, pc, ev>>
flushVars == <<flushPc, flushNode, flushId>>
vars == <<netVars, peerVars, accepted, sockList, gwVars, mutex, loopVars, flushVars, crashed>>

Conns == 1 .. MaxConns
Msgs == [cmd : Cmds, id : Ids]
NoMsg == [cmd |-> "none"]
NoEvent == [fd |-> 0, c |-> 0, msg |-> NoMsg, hup |-> FALSE]
NoNode == [fd |-> 0, of |-> 0, age |-> 0]

Init ==
    /\ conn = [fd \in Fds |-> 0] /\ watched = {}
    /\ connected = 0 /\ accepted = 0
    /\ input = [c \in Conns |-> NoMsg] /\ peer = [c \in Conns |-> "up"] /\ msgLeft = MaxMsgs
    /\ sockList = {}
    /\ head = {} /\ hcc_id = {}
    /\ gwFd = [i \in Ids |-> 0] /\ gwAge = [i \in Ids |-> 0]
    /\ mutex = "free"
    /\ events = <<>> /\ pc = "wait" /\ ev = NoEvent
    /\ flushPc = "sock" /\ flushNode = NoNode /\ flushId = {}
    /\ crashed = 0

-----------------------------------------------------------------------------
(* Time and the peers.                                                     *)

Older(age) == IF age < MaxAge THEN age + 1 ELSE age

Tick ==
    /\ sockList' = {[n EXCEPT !.age = Older(@)] : n \in sockList}
    /\ gwAge' = [i \in Ids |-> IF i \in head THEN Older(gwAge[i]) ELSE 0]
    /\ <<sockList, gwAge>>' # <<sockList, gwAge>>
    /\ UNCHANGED <<netVars, peerVars, accepted, head, hcc_id, gwFd, mutex, loopVars, flushVars>>

PeerConnect ==
    /\ connected < MaxConns
    /\ connected' = connected + 1
    /\ UNCHANGED <<netVars, input, peer, msgLeft, accepted, sockList, gwVars, mutex, loopVars, flushVars>>

PeerSend(c) ==
    /\ c <= connected /\ peer[c] = "up" /\ input[c] = NoMsg
    /\ msgLeft > 0 /\ msgLeft' = msgLeft - 1
    /\ \E m \in Msgs : input' = [input EXCEPT ![c] = m]
    /\ UNCHANGED <<netVars, connected, peer, accepted, sockList, gwVars, mutex, loopVars, flushVars>>

\* A peer closes ("fin"), or is gone with an error on the socket ("reset").
PeerLeave(c) ==
    /\ c <= connected /\ peer[c] = "up"
    /\ \E how \in {"fin", "reset"} : peer' = [peer EXCEPT ![c] = how]
    /\ UNCHANGED <<netVars, connected, input, msgLeft, accepted, sockList, gwVars, mutex, loopVars, flushVars>>

-----------------------------------------------------------------------------
(* dev_thread_center: the epoll loop.                                      *)

\* The kernel closes fd and takes it out of the epoll set; closing a closed
\* descriptor is an error without effect.
tcp_close(fd) ==
    /\ conn' = [conn EXCEPT ![fd] = 0]
    /\ watched' = watched \ {fd}

Ready ==
    {fd \in watched : input[conn[fd]] # NoMsg \/ peer[conn[fd]] # "up"}
        \cup (IF accepted < connected THEN {listen} ELSE {})

EventOf(fd) == [fd |-> fd, hup |-> fd # listen /\ peer[conn[fd]] = "reset"]

epoll_wait ==
    /\ pc = "wait" /\ Ready # {}
    /\ \E order \in SetToSeqs(Ready) :
          events' = [k \in DOMAIN order |-> EventOf(order[k])]
    /\ pc' = "event"
    /\ UNCHANGED <<netVars, peerVars, accepted, sockList, gwVars, mutex, ev, flushVars>>

\* epoll_wait returns -1, a signal being enough: the thread ends for good.
EpollError ==
    /\ pc = "wait" /\ pc' = "ended"
    /\ UNCHANGED <<netVars, peerVars, accepted, sockList, gwVars, mutex, events, ev, flushVars>>

\* The for loop goes on to the next event.
NextEvent ==
    /\ events' = Tail(events)
    /\ pc' = (IF Len(events) = 1 THEN "wait" ELSE "event")
    /\ ev' = NoEvent

Accept ==
    /\ pc = "event" /\ Head(events).fd = listen
    /\ accepted' = accepted + 1
    /\ \E fd \in Fds :
          /\ conn[fd] = 0
          /\ conn' = [conn EXCEPT ![fd] = accepted + 1]
          /\ ev' = [NoEvent EXCEPT !.fd = fd, !.c = accepted + 1]
    /\ pc' = "add"
    /\ UNCHANGED <<watched, peerVars, sockList, gwVars, mutex, events, flushVars>>

\* accept fails when no descriptor is left.
AcceptError ==
    /\ pc = "event" /\ Head(events).fd = listen
    /\ \A fd \in Fds : conn[fd] # 0
    /\ NextEvent
    /\ UNCHANGED <<netVars, peerVars, accepted, sockList, gwVars, mutex, flushVars>>

NewNode == [fd |-> ev.fd, of |-> ev.c, age |-> 0]

AddNothing == sockList

ListWithNewSock == sockList \cup {NewNode}

dev_param_add_connect_sock ==
    /\ pc = "add" /\ mutex = "free"
    /\ sockList' = ListWithNewSock
    /\ pc' = "watch"
    /\ UNCHANGED <<netVars, peerVars, accepted, gwVars, mutex, events, ev, flushVars>>

WatchNothing == watched

\* EPOLL_CTL_ADD fails if the descriptor was closed in the meantime.
WatchedWithNew == IF conn[ev.fd] = 0 THEN watched ELSE watched \cup {ev.fd}

Watch ==
    /\ pc = "watch"
    /\ watched' = WatchedWithNew
    /\ NextEvent
    /\ UNCHANGED <<conn, peerVars, accepted, sockList, gwVars, mutex, flushVars>>

\* recv returns 0 or an error: the peer has left, or there is nothing to read
\* (the event is older than the connection), or the descriptor is closed.
RecvNothing ==
    /\ pc = "event" /\ Head(events).fd # listen
    /\ LET fd == Head(events).fd IN
          /\ conn[fd] # 0 => input[conn[fd]] = NoMsg
          /\ tcp_close(fd)
    /\ NextEvent
    /\ UNCHANGED <<peerVars, accepted, sockList, gwVars, mutex, flushVars>>

\* json_msg_handle_msg: the handler of the command calls json_msg_fn.
Dispatch(m) == IF m.cmd \in Handled THEN m.cmd ELSE "hup"

RecvMessage ==
    /\ pc = "event" /\ Head(events).fd # listen
    /\ LET fd == Head(events).fd
           c == conn[fd]
       IN /\ c # 0 /\ input[c] # NoMsg
          /\ ev' = [fd |-> fd, c |-> c, msg |-> input[c], hup |-> Head(events).hup]
          /\ input' = [input EXCEPT ![c] = NoMsg]
          /\ pc' = Dispatch(input[c])
    /\ UNCHANGED <<netVars, connected, peer, msgLeft, accepted, sockList, gwVars, mutex, events, flushVars>>

\* EPOLLERR or EPOLLHUP came with the same event.
HangUp ==
    /\ pc = "hup"
    /\ IF ev.hup THEN tcp_close(ev.fd) ELSE UNCHANGED netVars
    /\ NextEvent
    /\ UNCHANGED <<peerVars, accepted, sockList, gwVars, mutex, flushVars>>

-----------------------------------------------------------------------------
(* json_msg_fn and the operations of dev_param that it calls.              *)

Id == ev.msg.id
Goto(where) == pc' = where /\ UNCHANGED <<events, ev>>

\* Where dev_param_heart_beat returns to.
AfterBeat == IF ev.msg.cmd = "register" THEN "updata_status" ELSE "hup"

\* dev_param_register: an unknown id is refused; a gateway that is in the
\* table is not rebuilt, since the hash of its id is what it was.
dev_param_register ==
    /\ pc = "register"
    /\ Goto(IF Id \notin Known THEN "updata_status"
            ELSE IF Id \in hcc_id THEN "heart_beat" ELSE "insert")
    /\ UNCHANGED <<netVars, peerVars, accepted, sockList, gwVars, mutex, flushVars>>

RegisterInsert ==
    /\ pc = "insert" /\ mutex = "free"
    /\ sockList' = {n \in sockList : n.fd # ev.fd}
    /\ head' = head \cup {Id} /\ hcc_id' = hcc_id \cup {Id}
    /\ gwFd' = [gwFd EXCEPT ![Id] = ev.fd]
    /\ gwAge' = [gwAge EXCEPT ![Id] = 0]
    /\ Goto("heart_beat")
    /\ UNCHANGED <<netVars, peerVars, accepted, mutex, flushVars>>

dev_param_heart_beat ==
    /\ pc = "heart_beat"
    /\ Goto(IF Id \in Known \cap hcc_id THEN "beatgw" ELSE AfterBeat)
    /\ UNCHANGED <<netVars, peerVars, accepted, sockList, gwVars, mutex, flushVars>>

\* gw_dev->next_sec is set again.  If the flush thread has freed gw_dev since
\* it was looked up, nothing reads what is written.
Refresh == gwAge' = (IF Id \in head THEN [gwAge EXCEPT ![Id] = 0] ELSE gwAge)

HeartBeatGw ==
    /\ pc = "beatgw" /\ mutex = "free"
    /\ Refresh
    /\ Goto("beatsock")
    /\ UNCHANGED <<netVars, peerVars, accepted, sockList, head, hcc_id, gwFd, mutex, flushVars>>

dev_param_sock_fd_is_exist(fd) == \E n \in sockList : n.fd = fd

\* The descriptor enters the list, or all nodes of the list are refreshed.
HeartBeatSock ==
    /\ pc = "beatsock" /\ mutex = "free"
    /\ sockList' = (IF dev_param_sock_fd_is_exist(ev.fd)
                    THEN {[n EXCEPT !.age = 0] : n \in sockList}
                    ELSE ListWithNewSock)
    /\ Goto(AfterBeat)
    /\ UNCHANGED <<netVars, peerVars, accepted, gwVars, mutex, flushVars>>

dev_param_update ==
    /\ pc = "updata_status"
    /\ Goto(IF Id \in Known \cap hcc_id THEN "updategw" ELSE "hup")
    /\ UNCHANGED <<netVars, peerVars, accepted, sockList, gwVars, mutex, flushVars>>

UpdateGw ==
    /\ pc = "updategw" /\ mutex = "free"
    /\ Refresh
    /\ Goto("hup")
    /\ UNCHANGED <<netVars, peerVars, accepted, sockList, head, hcc_id, gwFd, mutex, flushVars>>

\* The firmware answer is sent and the socket closed; its entries stay.
FwRequest ==
    /\ pc = "fw_request"
    /\ tcp_close(ev.fd)
    /\ Goto("hup")
    /\ UNCHANGED <<peerVars, accepted, sockList, gwVars, mutex, flushVars>>

CenterThread ==
    \/ epoll_wait \/ Accept \/ AcceptError \/ dev_param_add_connect_sock \/ Watch
    \/ RecvNothing \/ RecvMessage \/ HangUp
    \/ dev_param_register \/ RegisterInsert \/ dev_param_heart_beat \/ HeartBeatGw
    \/ HeartBeatSock \/ dev_param_update \/ UpdateGw \/ FwRequest

-----------------------------------------------------------------------------
(* dev_flush_center                                                        *)

Expired(age) == age >= TCP_TIMEOUT
SameNode(n, m) == n.fd = m.fd /\ n.of = m.of

\* dev_param_sock_fd_flush looks at a node and finds its time over.
SockExpired ==
    /\ flushPc = "sock"
    /\ \E n \in sockList : Expired(n.age) /\ flushNode' = [n EXCEPT !.age = 0]
    /\ flushPc' = "sockdel"
    /\ UNCHANGED <<netVars, peerVars, accepted, sockList, gwVars, mutex, loopVars, flushId, crashed>>

\* list_del without the mutex.  If dev_param_register has freed the node, the
\* second free (dev_param.c:417) ends the process, unless a node allocated
\* since then for the same connection lies in its memory.
SockDel ==
    /\ flushPc = "sockdel"
    /\ crashed' = (IF \E n \in sockList : SameNode(n, flushNode) THEN 0 ELSE 1)
    /\ sockList' = {n \in sockList : ~SameNode(n, flushNode)}
    /\ flushPc' = "sockcb"
    /\ UNCHANGED <<netVars, peerVars, accepted, gwVars, mutex, loopVars, flushNode, flushId>>

\* sock_exit_fn, first half: EPOLL_CTL_DEL.
SockUnwatch ==
    /\ flushPc = "sockcb"
    /\ watched' = watched \ {flushNode.fd}
    /\ flushPc' = "sockclose"
    /\ UNCHANGED <<conn, peerVars, accepted, sockList, gwVars, mutex, loopVars, flushNode, flushId, crashed>>

ExitNoClose(fd) == UNCHANGED netVars

\* sock_exit_fn, second half.
ExitClose(fd) == tcp_close(fd)

SockClose ==
    /\ flushPc = "sockclose"
    /\ ExitClose(flushNode.fd)
    /\ flushPc' = "sock" /\ flushNode' = NoNode
    /\ UNCHANGED <<peerVars, accepted, sockList, gwVars, mutex, loopVars, flushId, crashed>>

SockPassDone ==
    /\ flushPc = "sock"
    /\ flushPc' = "gw"
    /\ UNCHANGED <<netVars, peerVars, accepted, sockList, gwVars, mutex, loopVars, flushNode, flushId, crashed>>

\* dev_param_flush looks at a gateway and finds its time over.
GwExpired ==
    /\ flushPc = "gw"
    /\ \E i \in head : Expired(gwAge[i]) /\ flushId' = {i}
    /\ flushPc' = "gwlock"
    /\ UNCHANGED <<netVars, peerVars, accepted, sockList, gwVars, mutex, loopVars, flushNode, crashed>>

FlushFd == gwFd[CHOOSE i \in flushId : TRUE]

GwLockClose ==
    /\ flushPc = "gwlock" /\ mutex = "free"
    /\ mutex' = "flush"
    /\ tcp_close(FlushFd)
    /\ flushPc' = "gwcb"
    /\ UNCHANGED <<peerVars, accepted, sockList, gwVars, loopVars, flushNode, flushId, crashed>>

GwUnwatch ==
    /\ flushPc = "gwcb"
    /\ watched' = watched \ {FlushFd}
    /\ flushPc' = "gwclose"
    /\ UNCHANGED <<conn, peerVars, accepted, sockList, gwVars, mutex, loopVars, flushNode, flushId, crashed>>

\* sock_exit_fn closes the descriptor for the second time.
GwCloseAgain ==
    /\ flushPc = "gwclose"
    /\ ExitClose(FlushFd)
    /\ flushPc' = "gwdel"
    /\ UNCHANGED <<peerVars, accepted, sockList, gwVars, mutex, loopVars, flushNode, flushId, crashed>>

ListKept == head

ListAfterFlush == head \ flushId

GwListDel ==
    /\ flushPc = "gwdel"
    /\ head' = ListAfterFlush
    /\ flushPc' = "gwremove"
    /\ UNCHANGED <<netVars, peerVars, accepted, sockList, hcc_id, gwFd, gwAge, mutex, loopVars,
                   flushNode, flushId, crashed>>

TableKept == hcc_id

TableAfterFlush == hcc_id \ flushId

GwTableRemove ==
    /\ flushPc = "gwremove"
    /\ hcc_id' = TableAfterFlush
    /\ gwFd' = [i \in Ids |-> IF i \in flushId THEN 0 ELSE gwFd[i]]
    /\ gwAge' = [i \in Ids |-> IF i \in flushId THEN 0 ELSE gwAge[i]]
    /\ mutex' = "free"
    /\ flushPc' = "gw" /\ flushId' = {}
    /\ UNCHANGED <<netVars, peerVars, accepted, sockList, head, loopVars, flushNode, crashed>>

\* The end of a pass; sleep(3).
GwPassDone ==
    /\ flushPc = "gw"
    /\ flushPc' = "sock"
    /\ UNCHANGED <<netVars, peerVars, accepted, sockList, gwVars, mutex, loopVars, flushNode, flushId, crashed>>

FlushWork ==
    \/ SockDel \/ SockUnwatch \/ SockClose
    \/ GwLockClose \/ GwUnwatch \/ GwCloseAgain \/ GwListDel \/ GwTableRemove

FlushThread == SockExpired \/ SockPassDone \/ GwExpired \/ GwPassDone \/ FlushWork

Next ==
    /\ crashed = 0
    /\ \/ /\ Tick \/ PeerConnect \/ (\E c \in Conns : PeerSend(c) \/ PeerLeave(c))
             \/ CenterThread \/ EpollError
          /\ UNCHANGED crashed
       \/ FlushThread

Spec == Init /\ [][Next]_vars

Alive(A) == crashed = 0 /\ A

(***************************************************************************)
(* Both threads run, the loop until epoll_wait fails, which it need not;   *)
(* time goes on, and a flush pass looks at every entry: an entry that is   *)
(* found expired in pass after pass is removed.  The peers owe nothing.    *)
(***************************************************************************)
FairSpec ==
    /\ Spec
    /\ WF_vars(Alive(Tick /\ UNCHANGED crashed))
    /\ SF_vars(Alive(CenterThread /\ UNCHANGED crashed))
    /\ WF_vars(Alive(FlushThread)) /\ SF_vars(Alive(FlushWork))
    /\ SF_vars(Alive(SockExpired)) /\ SF_vars(Alive(GwExpired))

-----------------------------------------------------------------------------
(* Properties                                                              *)

Nodes == [fd : Fds, of : Conns, age : 0 .. MaxAge]
Open == {fd \in Fds : conn[fd] # 0}

\* Type invariant of the tables and of both threads.
TypeOK ==
    /\ conn \in [Fds -> 0 .. MaxConns] /\ watched \subseteq Open
    /\ connected \in 0 .. MaxConns /\ accepted \in 0 .. connected /\ msgLeft \in 0 .. MaxMsgs
    /\ input \in [Conns -> Msgs \cup {NoMsg}] /\ peer \in [Conns -> {"up", "fin", "reset"}]
    /\ sockList \subseteq Nodes
    /\ head \subseteq Known /\ hcc_id \subseteq Known
    /\ gwFd \in [Ids -> Fds \cup {0}] /\ \A i \in head : gwFd[i] # 0
    /\ gwAge \in [Ids -> 0 .. MaxAge]
    /\ mutex \in {"free", "flush"}
    /\ events \in Seq([fd : Fds \cup {listen}, hup : BOOLEAN])
    /\ ev \in [fd : Fds \cup {0}, c : 0 .. MaxConns, msg : Msgs \cup {NoMsg}, hup : BOOLEAN]
    /\ flushNode \in Nodes \cup {NoNode} /\ flushId \subseteq Known
    /\ crashed \in {0, 1}

\* The descriptors that the flush thread is going to close.
InFlush ==
    {flushNode.fd} \cup (IF flushPc \in {"gwlock", "gwcb", "gwclose"} THEN {FlushFd} ELSE {})

\* No descriptor leaks: an open connection is in the list of sockets, belongs
\* to a registered gateway, or is in the hands of a thread, so that a timeout
\* can find it (dev_param.c:133, 188-213, 269 against 378-390 and 410-417).
NoDescriptorLeak ==
    crashed = 0 =>
        \A fd \in Open : \/ dev_param_sock_fd_is_exist(fd)
                         \/ \E i \in head : gwFd[i] = fd
                         \/ pc \in {"add", "watch"} /\ ev.fd = fd
                         \/ fd \in InFlush

\* No deaf connection: an open connection is watched by epoll, except while
\* it is being added or a flush that has unwatched it is about to close it
\* (dev_mgr.c:253-259 against sock_exit_fn, dev_mgr.c:464-465).
NoDeafConnection ==
    \A fd \in Open : \/ fd \in watched
                     \/ pc \in {"add", "watch"} /\ ev.fd = fd
                     \/ flushPc = "sockclose" /\ flushNode.fd = fd
                     \/ flushPc = "gwclose" /\ FlushFd = fd

\* The list of gateways and the hash table hold the same ids whenever the
\* mutex is free (dev_param.c:206-213 against 388-389).
ListMatchesTable == mutex = "free" => head = hcc_id

\* When the gateways fall silent, every connection is closed and every entry
\* goes away (dev_flush_center).
AtRest == /\ Open = {} /\ sockList = {} /\ head = {} /\ hcc_id = {}

SilenceIsCleaned == <>[](crashed = 1 \/ AtRest)

\* A message that has arrived on an accepted connection is read, unless the
\* connection is closed first (dev_mgr.c:255-259 and 269-290).
MessageIsRead ==
    \A c \in Conns :
        (\E fd \in Open : conn[fd] = c /\ input[c] # NoMsg)
            ~> (crashed = 1 \/ input[c] = NoMsg \/ \A fd \in Open : conn[fd] # c)

\* What dev_mgr.c:279-283 says of a socket that the loop has closed: every
\* later close of it reports an error.  So the flush thread, closing the
\* socket of a node, closes that connection or none.
LaterCloseFails ==
    flushPc = "sockclose" => conn[flushNode.fd] \in {0, flushNode.of}
=============================================================================
