---------------------------- MODULE DevMgrProofs ----------------------------
(***************************************************************************)
(* Proofs about DevMgr, for any number of gateways, descriptors and        *)
(* connections: list and table of gateways agree, no connection is open    *)
(* and unwatched, and none escapes the timeout.                            *)
(***************************************************************************)
EXTENDS DevMgr, FiniteSetTheorems, SequenceTheorems, TLAPS

GwSteps == {"gwlock", "gwcb", "gwclose", "gwdel", "gwremove"}

(***************************************************************************)
(* The flush thread holds the mutex from GwLockClose to GwTableRemove, and *)
(* between the two removals the list lacks just the gateway that the table *)
(* still has.                                                              *)
(***************************************************************************)
LockInv ==
    /\ mutex = (IF flushPc \in GwSteps \ {"gwlock"} THEN "flush" ELSE "free")
    /\ flushPc # "gwremove" => head = hcc_id
    /\ flushPc = "gwremove" => head = hcc_id \ flushId

LEMMA LockInit == Init => LockInv
BY DEF Init, LockInv, GwSteps

LEMMA LockStep == LockInv /\ [Next]_vars => LockInv'
<1> SUFFICES ASSUME LockInv, [Next]_vars PROVE LockInv'
    OBVIOUS
<1> USE DEF LockInv, GwSteps, gwVars, flushVars, netVars, loopVars
<1>1. CASE RegisterInsert
    BY <1>1 DEF RegisterInsert, Goto
<1>2. CASE Tick \/ PeerConnect \/ (\E c \in Conns : PeerSend(c) \/ PeerLeave(c))
    BY <1>2 DEF Tick, PeerConnect, PeerSend, PeerLeave
<1>3. CASE \/ epoll_wait \/ EpollError \/ Accept \/ AcceptError \/ dev_param_add_connect_sock
           \/ Watch \/ RecvNothing \/ RecvMessage \/ HangUp
    BY <1>3 DEF epoll_wait, EpollError, Accept, AcceptError, dev_param_add_connect_sock, Watch,
                RecvNothing, RecvMessage, HangUp
<1>4. CASE \/ dev_param_register \/ dev_param_heart_beat \/ HeartBeatGw \/ HeartBeatSock
           \/ dev_param_update \/ UpdateGw \/ FwRequest
    BY <1>4 DEF dev_param_register, dev_param_heart_beat, HeartBeatGw, HeartBeatSock,
                dev_param_update, UpdateGw, FwRequest
<1>5. CASE SockExpired \/ SockDel \/ SockUnwatch \/ SockClose \/ SockPassDone
    BY <1>5 DEF SockExpired, SockDel, SockUnwatch, SockClose, SockPassDone
<1>6. CASE GwExpired \/ GwLockClose \/ GwUnwatch \/ GwCloseAgain \/ GwPassDone
    BY <1>6 DEF GwExpired, GwLockClose, GwUnwatch, GwCloseAgain, GwPassDone
<1>7. CASE GwListDel
    BY <1>7 DEF GwListDel, ListAfterFlush
<1>8. CASE GwTableRemove
    BY <1>8 DEF GwTableRemove, TableAfterFlush
<1>9. CASE UNCHANGED vars
    BY <1>9 DEF vars
<1> QED BY <1>1, <1>2, <1>3, <1>4, <1>5, <1>6, <1>7, <1>8, <1>9
        DEF Next, CenterThread, FlushThread, FlushWork

\* The list of gateways and the hash table hold the same ids whenever the
\* mutex is free.
THEOREM ListAndTableAgree == Spec => []ListMatchesTable
<1>1. LockInv => ListMatchesTable
    BY DEF LockInv, GwSteps, ListMatchesTable
<1> QED BY <1>1, LockInit, LockStep, PTL DEF Spec

-----------------------------------------------------------------------------
(***************************************************************************)
(* No deaf connection.  A descriptor leaves the epoll set either with its  *)
(* close or just before it, and while the flush thread is about to close   *)
(* the socket of a gateway the mutex keeps that socket what it is.         *)
(***************************************************************************)
DeafInv ==
    /\ conn \in [Fds -> Nat] /\ accepted \in Nat
    /\ NoDeafConnection

LEMMA DeafInit == Init => DeafInv
BY DEF Init, DeafInv, NoDeafConnection, Open

LEMMA DeafStep == LockInv /\ DeafInv /\ [Next]_vars => DeafInv'
<1> SUFFICES ASSUME LockInv, DeafInv, [Next]_vars PROVE DeafInv'
    OBVIOUS
<1> USE DEF LockInv, DeafInv, NoDeafConnection, Open, GwSteps, FlushFd, netVars, gwVars,
            flushVars, loopVars
<1>1. CASE RegisterInsert
    BY <1>1 DEF RegisterInsert, Goto
<1>2. CASE Tick \/ PeerConnect \/ (\E c \in Conns : PeerSend(c) \/ PeerLeave(c))
    BY <1>2 DEF Tick, PeerConnect, PeerSend, PeerLeave
<1>3. CASE epoll_wait \/ EpollError \/ AcceptError \/ RecvMessage
  <2>1. /\ UNCHANGED <<netVars, accepted, gwVars, flushVars>>
        /\ pc \notin {"add", "watch"}
    BY <1>3 DEF epoll_wait, EpollError, AcceptError, RecvMessage
  <2> QED BY <2>1
<1>4. CASE Accept
    BY <1>4 DEF Accept, NoEvent
<1>5. CASE dev_param_add_connect_sock
    BY <1>5 DEF dev_param_add_connect_sock
<1>6. CASE Watch
    BY <1>6 DEF Watch, WatchedWithNew
<1>7. CASE RecvNothing
  <2>1. pc = "event" /\ UNCHANGED <<accepted, gwVars, flushVars>>
    BY <1>7 DEF RecvNothing
  <2>2. PICK fd : tcp_close(fd)
    BY <1>7 DEF RecvNothing
  <2> QED BY <2>1, <2>2 DEF tcp_close
<1>8. CASE HangUp
  <2>1. pc = "hup" /\ UNCHANGED <<accepted, gwVars, flushVars>>
    BY <1>8 DEF HangUp
  <2>2. tcp_close(ev.fd) \/ UNCHANGED netVars
    BY <1>8 DEF HangUp
  <2> QED BY <2>1, <2>2 DEF tcp_close
<1>9. CASE dev_param_register \/ dev_param_heart_beat \/ dev_param_update
    BY <1>9 DEF dev_param_register, dev_param_heart_beat, dev_param_update, Goto
<1>10. CASE HeartBeatGw \/ HeartBeatSock \/ UpdateGw
    BY <1>10 DEF HeartBeatGw, HeartBeatSock, UpdateGw, Goto
<1>11. CASE FwRequest
    BY <1>11 DEF FwRequest, Goto, tcp_close
<1>12. CASE SockExpired \/ SockDel \/ SockPassDone \/ GwExpired \/ GwPassDone \/ GwListDel
    BY <1>12 DEF SockExpired, SockDel, SockPassDone, GwExpired, GwPassDone, GwListDel
<1>13. CASE SockUnwatch
    BY <1>13 DEF SockUnwatch
<1>14. CASE SockClose
    BY <1>14 DEF SockClose, ExitClose, tcp_close
<1>15. CASE GwLockClose
    BY <1>15 DEF GwLockClose, tcp_close
<1>16. CASE GwUnwatch
    BY <1>16 DEF GwUnwatch
<1>17. CASE GwCloseAgain
    BY <1>17 DEF GwCloseAgain, ExitClose, tcp_close
<1>18. CASE GwTableRemove
    BY <1>18 DEF GwTableRemove
<1>19. CASE UNCHANGED vars
    BY <1>19 DEF vars
<1> QED BY <1>1, <1>2, <1>3, <1>4, <1>5, <1>6, <1>7, <1>8, <1>9, <1>10, <1>11, <1>12, <1>13,
           <1>14, <1>15, <1>16, <1>17, <1>18, <1>19
        DEF Next, CenterThread, FlushThread, FlushWork

\* An open connection is watched by epoll, except while it is being added or
\* about to be closed.
THEOREM NobodyIsDeaf == Spec => []NoDeafConnection
<1>1. LockInv /\ DeafInv => NoDeafConnection
    BY DEF DeafInv
<1> QED BY <1>1, LockInit, LockStep, DeafInit, DeafStep, PTL DEF Spec

-----------------------------------------------------------------------------
(***************************************************************************)
(* No descriptor leak.  An open connection is in the list of sockets, is   *)
(* that of a gateway, is about to enter the list, or is the one the flush  *)
(* thread has taken from it.  Two facts carry the proof: a gateway that is *)
(* about to be inserted is not in the table, so that its insertion         *)
(* overwrites no descriptor; and when the flush thread drops a gateway,    *)
(* its descriptor is closed, or open again only for a connection that      *)
(* cannot enter the list before the mutex is free.                         *)
(***************************************************************************)
GwInv ==
    /\ head \subseteq Ids
    /\ gwFd = [i \in Ids |-> gwFd[i]]
    /\ pc = "insert" => Id \in Known \ hcc_id
    /\ flushPc \in GwSteps \ {"gwremove"} => \E i \in head : flushId = {i}
    /\ flushPc \notin {"sockdel", "sockcb", "sockclose"} => flushNode = NoNode

DropInv == (flushPc = "gwdel" /\ FlushFd \in Open) => pc = "add" /\ ev.fd = FlushFd

NodeInv == \A n \in sockList : n = [fd |-> n.fd, of |-> n.of, age |-> n.age]

Held(fd) ==
    \/ dev_param_sock_fd_is_exist(fd)
    \/ \E i \in head : gwFd[i] = fd
    \/ pc = "add" /\ ev.fd = fd
    \/ flushNode.fd = fd

LeakInv == GwInv /\ DropInv /\ NodeInv /\ (crashed = 0 => \A fd \in Open : Held(fd))

AllInv == LockInv /\ DeafInv /\ LeakInv

LEMMA LeakInit == Init => LeakInv
BY DEF Init, LeakInv, GwInv, DropInv, NodeInv, Open, GwSteps

\* What the epoll loop and the peers do to the gateways.
LEMMA GwStep == AllInv /\ [Next]_vars => GwInv'
<1> SUFFICES ASSUME LockInv, GwInv, [Next]_vars PROVE GwInv'
    BY DEF AllInv, LeakInv
<1> USE IdAssumption DEF LockInv, GwInv, GwSteps, Id, gwVars, flushVars, loopVars, netVars
<1>1. CASE RegisterInsert
    BY <1>1 DEF RegisterInsert, Goto
<1>2. CASE Tick \/ PeerConnect \/ (\E c \in Conns : PeerSend(c) \/ PeerLeave(c))
    BY <1>2 DEF Tick, PeerConnect, PeerSend, PeerLeave
<1>3. CASE epoll_wait \/ EpollError \/ Accept \/ dev_param_add_connect_sock
    BY <1>3 DEF epoll_wait, EpollError, Accept, dev_param_add_connect_sock
<1>4. CASE AcceptError \/ Watch \/ RecvNothing \/ HangUp
    BY <1>4 DEF AcceptError, Watch, RecvNothing, HangUp, NextEvent
<1>5. CASE RecvMessage
    BY <1>5 DEF RecvMessage, Dispatch, Handled
<1>6. CASE dev_param_register
    BY <1>6 DEF dev_param_register, Goto
<1>7. CASE dev_param_heart_beat \/ dev_param_update \/ FwRequest
    BY <1>7 DEF dev_param_heart_beat, dev_param_update, FwRequest, Goto, AfterBeat
<1>8. CASE HeartBeatGw \/ HeartBeatSock \/ UpdateGw
    BY <1>8 DEF HeartBeatGw, HeartBeatSock, UpdateGw, Goto, AfterBeat
<1>9. CASE SockExpired \/ SockDel \/ SockUnwatch \/ SockClose \/ SockPassDone \/ GwPassDone
    BY <1>9 DEF SockExpired, SockDel, SockUnwatch, SockClose, SockPassDone, GwPassDone
<1>10. CASE GwExpired \/ GwLockClose \/ GwUnwatch \/ GwCloseAgain
    BY <1>10 DEF GwExpired, GwLockClose, GwUnwatch, GwCloseAgain
<1>11. CASE GwListDel
    BY <1>11 DEF GwListDel, ListAfterFlush
<1>12. CASE GwTableRemove
    BY <1>12 DEF GwTableRemove, TableAfterFlush
<1>13. CASE UNCHANGED vars
    BY <1>13 DEF vars
<1> QED BY <1>1, <1>2, <1>3, <1>4, <1>5, <1>6, <1>7, <1>8, <1>9, <1>10, <1>11, <1>12, <1>13
        DEF Next, CenterThread, FlushThread, FlushWork

\* The nodes of the list stay nodes.
LEMMA NodeStep == AllInv /\ [Next]_vars => NodeInv'
<1> SUFFICES ASSUME NodeInv, [Next]_vars PROVE NodeInv'
    BY DEF AllInv, LeakInv
<1> USE DEF NodeInv
<1>1. CASE Tick
    BY <1>1 DEF Tick
<1>2. CASE dev_param_add_connect_sock
    BY <1>2 DEF dev_param_add_connect_sock, ListWithNewSock, NewNode
<1>3. CASE HeartBeatSock
    BY <1>3 DEF HeartBeatSock, ListWithNewSock, NewNode
<1>4. CASE RegisterInsert
    BY <1>4 DEF RegisterInsert
<1>5. CASE SockDel
    BY <1>5 DEF SockDel
<1>6. CASE UNCHANGED sockList
    BY <1>6
<1> QED BY <1>1, <1>2, <1>3, <1>4, <1>5, <1>6
        DEF Next, CenterThread, FlushThread, FlushWork, vars, PeerConnect, PeerSend, PeerLeave,
            epoll_wait, EpollError, Accept, AcceptError, Watch, RecvNothing, RecvMessage, HangUp,
            dev_param_register, dev_param_heart_beat, HeartBeatGw, dev_param_update, UpdateGw,
            FwRequest, SockExpired, SockUnwatch, SockClose, SockPassDone, GwExpired, GwPassDone,
            GwLockClose, GwUnwatch, GwCloseAgain, GwListDel, GwTableRemove

\* A gateway that is being dropped takes no open connection with it.
LEMMA DropStep == AllInv /\ [Next]_vars => DropInv'
<1> SUFFICES ASSUME LockInv, DeafInv, DropInv, [Next]_vars PROVE DropInv'
    BY DEF AllInv, LeakInv
<1> USE DEF LockInv, DeafInv, DropInv, GwSteps, Open, FlushFd, netVars, gwVars, flushVars, loopVars
<1>1. CASE Tick \/ PeerConnect \/ (\E c \in Conns : PeerSend(c) \/ PeerLeave(c))
    BY <1>1 DEF Tick, PeerConnect, PeerSend, PeerLeave
<1>2. CASE Accept
    BY <1>2 DEF Accept, NoEvent
<1>3. CASE dev_param_add_connect_sock \/ RegisterInsert
    BY <1>3 DEF dev_param_add_connect_sock, RegisterInsert
<1>4. CASE epoll_wait \/ EpollError \/ AcceptError \/ Watch \/ RecvMessage
  <2>1. pc # "add" /\ UNCHANGED <<conn, gwVars, flushVars>>
    BY <1>4 DEF epoll_wait, EpollError, AcceptError, Watch, RecvMessage
  <2> QED BY <2>1
<1>5. CASE RecvNothing \/ HangUp \/ FwRequest
  <2>1. pc # "add" /\ UNCHANGED <<gwVars, flushVars>>
    BY <1>5 DEF RecvNothing, HangUp, FwRequest
  <2>2. (\E fd : tcp_close(fd)) \/ UNCHANGED conn
    BY <1>5 DEF RecvNothing, HangUp, FwRequest
  <2>3. Open' \subseteq Open
    BY <2>2 DEF tcp_close
  <2> QED BY <2>1, <2>3
<1>6. CASE \/ dev_param_register \/ dev_param_heart_beat \/ HeartBeatGw \/ HeartBeatSock
           \/ dev_param_update \/ UpdateGw
    BY <1>6 DEF dev_param_register, dev_param_heart_beat, HeartBeatGw, HeartBeatSock,
                dev_param_update, UpdateGw, Goto
<1>7. CASE GwCloseAgain
    BY <1>7 DEF GwCloseAgain, ExitClose, tcp_close
<1>8. CASE FlushThread /\ ~GwCloseAgain
  <2>1. flushPc' # "gwdel"
    BY <1>8 DEF FlushThread, FlushWork, SockExpired, SockDel, SockUnwatch, SockClose, SockPassDone,
                GwExpired, GwPassDone, GwLockClose, GwUnwatch, GwListDel, GwTableRemove
  <2> QED BY <2>1
<1>9. CASE UNCHANGED vars
    BY <1>9 DEF vars
<1> QED BY <1>1, <1>2, <1>3, <1>4, <1>5, <1>6, <1>7, <1>8, <1>9 DEF Next, CenterThread

\* Setting the ages of the nodes keeps their descriptors in the list.
LEMMA AgesOnly ==
    ASSUME NodeInv, \A n \in sockList : \E a : [n EXCEPT !.age = a] \in sockList'
    PROVE  \A fd : dev_param_sock_fd_is_exist(fd) => dev_param_sock_fd_is_exist(fd)'
<1> SUFFICES ASSUME NEW n \in sockList PROVE \E m \in sockList' : m.fd = n.fd
    BY DEF dev_param_sock_fd_is_exist
<1>1. PICK a : [n EXCEPT !.age = a] \in sockList'
    OBVIOUS
<1>2. n = [fd |-> n.fd, of |-> n.of, age |-> n.age]
    BY DEF NodeInv
<1>3. [n EXCEPT !.age = a].fd = n.fd
    BY <1>2
<1> QED BY <1>1, <1>3

\* A step that closes descriptors and changes no list loses none.
LEMMA HeldStays ==
    ASSUME \A fd \in Open : Held(fd),
           Open' \subseteq Open, UNCHANGED <<sockList, head, gwFd, flushNode>>,
           pc # "add"
    PROVE  \A fd \in Open' : Held(fd)'
BY DEF Held, dev_param_sock_fd_is_exist

\* Every open connection stays in somebody's hands.
LEMMA HeldStep == AllInv /\ [Next]_vars => (crashed' = 0 => \A fd \in Open' : Held(fd)')
<1> SUFFICES ASSUME AllInv, [Next]_vars, crashed' = 0 PROVE \A fd \in Open' : Held(fd)'
    OBVIOUS
<1>0. crashed = 0
    BY DEF Next, vars
<1>a. /\ \A fd \in Open : Held(fd)
      /\ LockInv /\ GwInv /\ DropInv /\ NodeInv
      /\ conn \in [Fds -> Nat] /\ accepted \in Nat
    BY <1>0 DEF AllInv, LeakInv, DeafInv
<1>b. ASSUME NEW fd, tcp_close(fd) PROVE Open' \subseteq Open /\ fd \notin Open'
    BY <1>a, <1>b DEF tcp_close, Open
<1> USE DEF netVars, gwVars, flushVars, loopVars
<1>1. CASE Tick
  <2>1. \A fd : dev_param_sock_fd_is_exist(fd) => dev_param_sock_fd_is_exist(fd)'
    <3>1. \A n \in sockList : [n EXCEPT !.age = Older(n.age)] \in sockList'
      BY <1>1 DEF Tick
    <3> QED BY <3>1, <1>a, AgesOnly
  <2> QED BY <1>1, <1>a, <2>1 DEF Tick, Held, Open
<1>2. CASE PeerConnect \/ (\E c \in Conns : PeerSend(c) \/ PeerLeave(c))
    BY <1>2, <1>a DEF PeerConnect, PeerSend, PeerLeave, Held, dev_param_sock_fd_is_exist, Open
<1>3. CASE epoll_wait \/ EpollError \/ AcceptError \/ Watch \/ RecvMessage
  <2>1. pc # "add" /\ UNCHANGED <<conn, sockList, head, gwFd, flushNode>>
    BY <1>3 DEF epoll_wait, EpollError, AcceptError, Watch, RecvMessage
  <2> QED BY <1>a, <2>1, HeldStays DEF Open
<1>4. CASE Accept
    BY <1>4, <1>a DEF Accept, NoEvent, Held, dev_param_sock_fd_is_exist, Open
<1>5. CASE dev_param_add_connect_sock
  <2>1. /\ sockList' = sockList \cup {NewNode} /\ NewNode.fd = ev.fd
        /\ UNCHANGED <<conn, head, gwFd, flushNode>>
    BY <1>5 DEF dev_param_add_connect_sock, ListWithNewSock, NewNode
  <2>2. \A fd : dev_param_sock_fd_is_exist(fd) \/ fd = ev.fd => dev_param_sock_fd_is_exist(fd)'
    BY <2>1 DEF dev_param_sock_fd_is_exist
  <2> QED BY <1>a, <2>1, <2>2 DEF Held, Open
<1>6. CASE RecvNothing \/ HangUp \/ FwRequest
  <2>1. pc # "add" /\ UNCHANGED <<sockList, head, gwFd, flushNode>>
    BY <1>6 DEF RecvNothing, HangUp, FwRequest
  <2>2. (\E fd : tcp_close(fd)) \/ UNCHANGED conn
    BY <1>6 DEF RecvNothing, HangUp, FwRequest
  <2>3. Open' \subseteq Open
    BY <2>2, <1>b DEF Open
  <2> QED BY <1>a, <2>1, <2>3, HeldStays
<1>7. CASE RegisterInsert
  <2>1. /\ pc = "insert" /\ Id \in Ids \ head /\ Id \in head' /\ head \subseteq head'
        /\ UNCHANGED <<conn, flushNode>>
    BY <1>7, <1>a, IdAssumption DEF RegisterInsert, LockInv, GwInv, GwSteps
  <2>2. gwFd'[Id] = ev.fd /\ \A i \in head : gwFd'[i] = gwFd[i]
    BY <1>7, <1>a, <2>1 DEF RegisterInsert, GwInv
  <2>3. \A fd : dev_param_sock_fd_is_exist(fd) /\ fd # ev.fd => dev_param_sock_fd_is_exist(fd)'
    BY <1>7 DEF RegisterInsert, dev_param_sock_fd_is_exist
  <2> QED BY <1>a, <2>1, <2>2, <2>3 DEF Held, Open
<1>8. CASE HeartBeatSock
  <2>1. \A fd : dev_param_sock_fd_is_exist(fd) => dev_param_sock_fd_is_exist(fd)'
    <3>1. CASE sockList' = {[n EXCEPT !.age = 0] : n \in sockList}
      <4>1. \A n \in sockList : [n EXCEPT !.age = 0] \in sockList'
        BY <3>1
      <4> QED BY <4>1, <1>a, AgesOnly
    <3>2. CASE sockList' = ListWithNewSock
      BY <3>2 DEF ListWithNewSock, dev_param_sock_fd_is_exist
    <3> QED BY <1>8, <3>1, <3>2 DEF HeartBeatSock
  <2>2. pc # "add" /\ UNCHANGED <<conn, head, gwFd, flushNode>>
    BY <1>8 DEF HeartBeatSock
  <2> QED BY <1>a, <2>1, <2>2 DEF Held, Open
<1>9. CASE dev_param_register \/ dev_param_heart_beat \/ HeartBeatGw \/ dev_param_update \/ UpdateGw
  <2>1. pc # "add" /\ UNCHANGED <<conn, sockList, head, gwFd, flushNode>>
    BY <1>9 DEF dev_param_register, dev_param_heart_beat, HeartBeatGw, dev_param_update, UpdateGw
  <2> QED BY <1>a, <2>1, HeldStays DEF Open
<1>10. CASE SockExpired
  <2>1. UNCHANGED <<conn, sockList, head, gwFd, pc, ev>>
    BY <1>10 DEF SockExpired
  <2>2. flushNode.fd \notin Fds
    BY <1>10, <1>a, FdAssumption DEF SockExpired, GwInv, NoNode
  <2> QED BY <1>a, <2>1, <2>2 DEF Held, Open, dev_param_sock_fd_is_exist
<1>11. CASE SockDel
  <2>1. \A fd : dev_param_sock_fd_is_exist(fd) => dev_param_sock_fd_is_exist(fd)' \/ flushNode.fd = fd
    BY <1>11 DEF SockDel, SameNode, dev_param_sock_fd_is_exist
  <2> QED BY <1>11, <1>a, <2>1 DEF SockDel, Held, Open
<1>12. CASE SockClose
  <2>1. tcp_close(flushNode.fd) /\ UNCHANGED <<sockList, head, gwFd, pc, ev>>
    BY <1>12 DEF SockClose, ExitClose
  <2>2. Open' \subseteq Open /\ flushNode.fd \notin Open'
    BY <2>1, <1>b
  <2> QED BY <1>a, <2>1, <2>2 DEF Held, dev_param_sock_fd_is_exist
<1>13. CASE SockUnwatch \/ SockPassDone \/ GwExpired \/ GwPassDone \/ GwUnwatch
    BY <1>13, <1>a DEF SockUnwatch, SockPassDone, GwExpired, GwPassDone, GwUnwatch, Held, Open,
                       dev_param_sock_fd_is_exist
<1>14. CASE GwLockClose \/ GwCloseAgain
  <2>1. tcp_close(FlushFd) /\ UNCHANGED <<sockList, head, gwFd, pc, ev, flushNode>>
    BY <1>14 DEF GwLockClose, GwCloseAgain, ExitClose
  <2>2. Open' \subseteq Open
    BY <2>1, <1>b
  <2> QED BY <1>a, <2>1, <2>2 DEF Held, dev_param_sock_fd_is_exist
<1>15. CASE GwListDel
  <2>1. /\ flushPc = "gwdel" /\ head' = head \ flushId
        /\ UNCHANGED <<conn, sockList, gwFd, pc, ev, flushNode>>
    BY <1>15 DEF GwListDel, ListAfterFlush
  <2>2. PICK i \in head : flushId = {i}
    BY <1>a, <2>1 DEF GwInv, GwSteps
  <2>3. FlushFd = gwFd[i]
    BY <2>2 DEF FlushFd
  <2>4. FlushFd \in Open => pc = "add" /\ ev.fd = FlushFd
    BY <1>a, <2>1 DEF DropInv
  <2> QED BY <1>a, <2>1, <2>2, <2>3, <2>4 DEF Held, Open, dev_param_sock_fd_is_exist
<1>16. CASE GwTableRemove
  <2>1. UNCHANGED <<conn, sockList, head, pc, ev, flushNode>>
    BY <1>16 DEF GwTableRemove
  <2>2. \A i \in head : gwFd'[i] = gwFd[i]
    BY <1>16, <1>a DEF GwTableRemove, LockInv, GwInv, GwSteps
  <2> QED BY <1>a, <2>1, <2>2 DEF Held, Open, dev_param_sock_fd_is_exist
<1>17. CASE UNCHANGED vars
    BY <1>17, <1>a DEF vars, Held, Open, dev_param_sock_fd_is_exist
<1> QED BY <1>1, <1>2, <1>3, <1>4, <1>5, <1>6, <1>7, <1>8, <1>9, <1>10, <1>11, <1>12, <1>13,
           <1>14, <1>15, <1>16, <1>17
        DEF Next, CenterThread, FlushThread, FlushWork

LEMMA AllInvHolds == Spec => []AllInv
<1>1. Init => AllInv
    BY LockInit, DeafInit, LeakInit DEF AllInv
<1>2. AllInv /\ [Next]_vars => AllInv'
    BY LockStep, DeafStep, GwStep, DropStep, NodeStep, HeldStep DEF AllInv, LeakInv
<1> QED BY <1>1, <1>2, PTL DEF Spec

\* No descriptor leaks: while the process lives, a timeout can find every open
\* connection, or a thread has it in its hands.
THEOREM NothingLeaks == Spec => []NoDescriptorLeak
<1>1. AllInv => NoDescriptorLeak
    BY DEF AllInv, LeakInv, Held, NoDescriptorLeak, InFlush
<1> QED BY <1>1, AllInvHolds, PTL

-----------------------------------------------------------------------------
(***************************************************************************)
(* Type correctness.  A batch of events names a descriptor once, so that   *)
(* accept is called once for a connection that is waiting; and wherever    *)
(* the loop enters a descriptor into a list, the event it works on has the *)
(* connection and, past the dispatch, the message to go with it.           *)
(***************************************************************************)
Events == [fd : Fds \cup {listen}, hup : BOOLEAN]

Serving ==
    {"register", "insert", "heart_beat", "beatgw", "beatsock", "updata_status", "updategw", "fw_request"}

NetTypes == conn \in [Fds -> 0 .. MaxConns] /\ watched \subseteq Open
PeerTypes ==
    /\ connected \in 0 .. MaxConns /\ accepted \in 0 .. connected /\ msgLeft \in 0 .. MaxMsgs
    /\ input \in [Conns -> Msgs \cup {NoMsg}] /\ peer \in [Conns -> {"up", "fin", "reset"}]
ListTypes == sockList \subseteq Nodes /\ flushNode \in Nodes \cup {NoNode}
GwTypes ==
    /\ head \subseteq Known /\ hcc_id \subseteq Known /\ flushId \subseteq Known
    /\ gwFd \in [Ids -> Fds \cup {0}] /\ \A i \in head : gwFd[i] # 0
    /\ gwAge \in [Ids -> 0 .. MaxAge]
BatchInv ==
    /\ events \in Seq(Events) /\ (pc \notin {"wait", "ended"} => events # <<>>)
    /\ \A j, k \in DOMAIN events : events[j].fd = events[k].fd => j = k
    /\ \A k \in DOMAIN events :
          events[k].fd = listen /\ (k > 1 \/ pc = "event") => accepted < connected
EvTypes ==
    /\ ev \in [fd : Fds \cup {0}, c : 0 .. MaxConns, msg : Msgs \cup {NoMsg}, hup : BOOLEAN]
    /\ pc \in {"add", "watch"} \cup Serving => ev.fd \in Fds /\ ev.c \in Conns
    /\ pc \in Serving => ev.msg \in Msgs

DevTypes == NetTypes /\ PeerTypes /\ ListTypes /\ GwTypes /\ BatchInv /\ EvTypes /\ crashed \in {0, 1}

LEMMA DevTypesInit == Init => DevTypes
<1> SUFFICES ASSUME Init PROVE DevTypes
    OBVIOUS
<1> USE DevBoundAssumption DEF Init
<1>1. NetTypes /\ PeerTypes
    BY DEF NetTypes, PeerTypes, Open
<1>2. ListTypes /\ GwTypes
    BY DEF ListTypes, GwTypes
<1>3. BatchInv
    BY EmptySeq DEF BatchInv
<1>4. EvTypes
    BY DEF EvTypes, NoEvent, Serving
<1> QED BY <1>1, <1>2, <1>3, <1>4 DEF DevTypes

\* The batch that epoll_wait returns.
LEMMA BatchIs ==
    ASSUME NEW S \in SUBSET (Fds \cup {listen}), NEW order \in SetToSeqs(S), S # {}
    PROVE  LET e == [k \in DOMAIN order |-> EventOf(order[k])] IN
           /\ e \in Seq(Events) /\ e # <<>>
           /\ \A j, k \in DOMAIN e : e[j].fd = e[k].fd => j = k
           /\ \A k \in DOMAIN e : e[k].fd \in S
<1> DEFINE e == [k \in DOMAIN order |-> EventOf(order[k])]
<1>1. IsFiniteSet(S)
    BY FS_AddElement, FS_Subset, FdAssumption
<1>2. Cardinality(S) \in Nat \ {0}
    BY <1>1, FS_CardinalityType, FS_EmptySet
<1>3. /\ order \in [1 .. Cardinality(S) -> S]
      /\ \A j, k \in 1 .. Cardinality(S) : j # k => order[j] # order[k]
    BY DEF SetToSeqs
<1>4. \A k \in 1 .. Cardinality(S) : EventOf(order[k]) \in Events /\ EventOf(order[k]).fd = order[k]
    BY <1>3 DEF EventOf, Events
<1>5. e \in [1 .. Cardinality(S) -> Events] /\ \A k \in 1 .. Cardinality(S) : e[k].fd = order[k]
    BY <1>3, <1>4
<1>6. e \in Seq(Events) /\ e # <<>>
    BY <1>2, <1>5, SeqDef
<1> QED BY <1>3, <1>5, <1>6

\* Going on to the next event.
LEMMA NextEventBatch ==
    ASSUME BatchInv, pc \notin {"wait", "ended"}, NextEvent, UNCHANGED <<accepted, connected>>
    PROVE  BatchInv' /\ pc' \in {"wait", "event"} /\ ev' = NoEvent
<1>1. events \in Seq(Events) /\ events # <<>> /\ events' = Tail(events)
    BY DEF BatchInv, NextEvent
<1>2. Len(events) \in Nat \ {0} /\ DOMAIN events = 1 .. Len(events)
    BY <1>1, EmptySeq
<1>3. /\ events' \in Seq(Events) /\ Len(events') = Len(events) - 1
      /\ DOMAIN events' = 1 .. Len(events) - 1
      /\ \A k \in 1 .. Len(events) - 1 : events'[k] = events[k + 1]
    BY <1>1, <1>2, HeadTailProperties
<1>4. ASSUME NEW j \in DOMAIN events', NEW k \in DOMAIN events', events'[j].fd = events'[k].fd
      PROVE  j = k
  <2>1. /\ j + 1 \in DOMAIN events /\ k + 1 \in DOMAIN events
        /\ events'[j] = events[j + 1] /\ events'[k] = events[k + 1]
    BY <1>2, <1>3
  <2>2. j + 1 = k + 1
    BY <1>4, <2>1 DEF BatchInv
  <2> QED BY <1>2, <1>3, <2>2
<1>5. ASSUME NEW k \in DOMAIN events', events'[k].fd = listen PROVE accepted' < connected'
  <2>1. k + 1 \in DOMAIN events /\ k + 1 > 1 /\ events'[k] = events[k + 1]
    BY <1>2, <1>3
  <2> QED BY <1>5, <2>1 DEF BatchInv
<1>6. pc' # "wait" => events' # <<>>
  <2>1. pc' # "wait" => Len(events') # 0
    BY <1>2, <1>3 DEF NextEvent
  <2> QED BY <2>1
<1>7. pc' \in {"wait", "event"} /\ ev' = NoEvent
    BY DEF NextEvent
<1> QED BY <1>3, <1>4, <1>5, <1>6, <1>7 DEF BatchInv

\* The event that the loop is at; accept is called for a connection that is
\* waiting.
LEMMA HeadEvent ==
    ASSUME BatchInv, pc = "event"
    PROVE  /\ Head(events) \in Events
           /\ Head(events).fd = listen =>
                 /\ accepted < connected
                 /\ \A k \in DOMAIN events : events[k].fd = listen => k = 1
<1>1. events \in Seq(Events) /\ events # <<>>
    BY DEF BatchInv
<1>2. 1 \in DOMAIN events /\ Head(events) = events[1] /\ events[1] \in Events
    BY <1>1, EmptySeq
<1> QED BY <1>2 DEF BatchInv

LEMMA BatchStep == DevTypes /\ [Next]_vars => BatchInv'
<1> SUFFICES ASSUME DevTypes, [Next]_vars PROVE BatchInv'
    OBVIOUS
<1> USE DEF DevTypes
<1>1. CASE UNCHANGED <<events, pc, accepted, connected>>
    BY <1>1 DEF BatchInv
<1>2. CASE PeerConnect
    BY <1>2 DEF PeerConnect, BatchInv, PeerTypes, loopVars
<1>3. CASE epoll_wait
  <2>1. PICK order \in SetToSeqs(Ready) : events' = [k \in DOMAIN order |-> EventOf(order[k])]
    BY <1>3 DEF epoll_wait
  <2>2. Ready \in SUBSET (Fds \cup {listen}) /\ Ready # {}
    BY <1>3 DEF epoll_wait, Ready, NetTypes, Open
  <2>3. listen \in Ready => accepted < connected
    BY FdAssumption DEF Ready, NetTypes, Open
  <2>4. /\ events' \in Seq(Events) /\ events' # <<>>
        /\ \A j, k \in DOMAIN events' : events'[j].fd = events'[k].fd => j = k
        /\ \A k \in DOMAIN events' : events'[k].fd \in Ready
    BY <2>1, <2>2, BatchIs
  <2> QED BY <1>3, <2>3, <2>4 DEF epoll_wait, BatchInv, peerVars
<1>4. CASE Accept
  <2>1. \A k \in DOMAIN events : events[k].fd = listen => k = 1
    BY <1>4, HeadEvent DEF Accept
  <2>2. pc = "event" /\ pc' = "add" /\ events' = events
    BY <1>4 DEF Accept
  <2> QED BY <2>1, <2>2 DEF BatchInv
<1>5. CASE AcceptError \/ Watch \/ RecvNothing \/ HangUp
    BY <1>5, NextEventBatch DEF AcceptError, Watch, RecvNothing, HangUp, peerVars
<1>6. CASE \/ dev_param_add_connect_sock \/ RecvMessage \/ dev_param_register \/ RegisterInsert
           \/ dev_param_heart_beat \/ HeartBeatGw \/ HeartBeatSock \/ dev_param_update
           \/ UpdateGw \/ FwRequest
  <2>1. UNCHANGED <<events, accepted, connected>> /\ pc \notin {"wait", "ended"} /\ pc' # "event"
    BY <1>6 DEF dev_param_add_connect_sock, RecvMessage, dev_param_register, RegisterInsert,
                dev_param_heart_beat, HeartBeatGw, HeartBeatSock, dev_param_update, UpdateGw,
                FwRequest, Goto, AfterBeat, Dispatch, Handled, peerVars
  <2> QED BY <2>1 DEF BatchInv
<1>7. CASE EpollError
    BY <1>7 DEF EpollError, BatchInv, peerVars
<1> QED BY <1>1, <1>2, <1>3, <1>4, <1>5, <1>6, <1>7
        DEF Next, vars, CenterThread, FlushThread, FlushWork, Tick, PeerSend, PeerLeave, SockExpired,
            SockDel, SockUnwatch, SockClose, SockPassDone, GwExpired, GwPassDone, GwLockClose,
            GwUnwatch, GwCloseAgain, GwListDel, GwTableRemove, peerVars, loopVars

\* What RecvMessage takes from the connection.
LEMMA RecvEffect ==
    ASSUME DevTypes, RecvMessage
    PROVE  /\ ev' \in [fd : Fds, c : Conns, msg : Msgs, hup : BOOLEAN]
           /\ input' \in [Conns -> Msgs \cup {NoMsg}]
<1> DEFINE fd == Head(events).fd
           c == conn[fd]
<1>1. /\ pc = "event" /\ fd # listen /\ c # 0 /\ input[c] # NoMsg
      /\ ev' = [fd |-> fd, c |-> c, msg |-> input[c], hup |-> Head(events).hup]
      /\ input' = [input EXCEPT ![c] = NoMsg]
    BY DEF RecvMessage
<1>2. fd \in Fds /\ Head(events).hup \in BOOLEAN
    BY <1>1, HeadEvent DEF DevTypes, Events
<1>3. c \in Conns
    BY <1>1, <1>2, DevBoundAssumption DEF DevTypes, NetTypes, Conns
<1>4. input \in [Conns -> Msgs \cup {NoMsg}] /\ input[c] \in Msgs
    BY <1>1, <1>3 DEF DevTypes, PeerTypes
<1> QED BY <1>1, <1>2, <1>3, <1>4

LEMMA EvStep == DevTypes /\ [Next]_vars => EvTypes'
<1> SUFFICES ASSUME DevTypes, [Next]_vars PROVE EvTypes'
    OBVIOUS
<1> USE DevBoundAssumption DEF DevTypes
<1>1. CASE UNCHANGED <<pc, ev>>
    BY <1>1 DEF EvTypes
<1>2. CASE epoll_wait \/ EpollError
    BY <1>2 DEF epoll_wait, EpollError, EvTypes, Serving
<1>3. CASE Accept
  <2>1. PICK fd \in Fds : ev' = [NoEvent EXCEPT !.fd = fd, !.c = accepted + 1]
    BY <1>3 DEF Accept
  <2>2. accepted + 1 \in Conns
    BY <1>3, HeadEvent DEF Accept, PeerTypes, Conns
  <2>3. ev' = [fd |-> fd, c |-> accepted + 1, msg |-> NoMsg, hup |-> FALSE]
    BY <2>1 DEF NoEvent
  <2>4. ev' \in [fd : Fds \cup {0}, c : 0 .. MaxConns, msg : Msgs \cup {NoMsg}, hup : BOOLEAN]
    BY <2>2, <2>3 DEF Conns
  <2>5. pc' = "add" /\ ev'.fd \in Fds /\ ev'.c \in Conns
    BY <1>3, <2>2, <2>3 DEF Accept
  <2> QED BY <2>4, <2>5 DEF EvTypes, Serving
<1>4. CASE AcceptError \/ Watch \/ RecvNothing \/ HangUp
  <2>1. pc' \in {"wait", "event"} /\ ev' = NoEvent
    BY <1>4 DEF AcceptError, Watch, RecvNothing, HangUp, NextEvent
  <2> QED BY <2>1 DEF EvTypes, Serving, NoEvent
<1>5. CASE RecvMessage
  <2>1. ev' \in [fd : Fds, c : Conns, msg : Msgs, hup : BOOLEAN]
    BY <1>5, RecvEffect
  <2> QED BY <2>1 DEF EvTypes, Conns
<1>6. CASE dev_param_add_connect_sock
    BY <1>6 DEF dev_param_add_connect_sock, EvTypes, Serving
<1>7. CASE \/ dev_param_register \/ RegisterInsert \/ dev_param_heart_beat \/ HeartBeatGw
           \/ HeartBeatSock \/ dev_param_update \/ UpdateGw \/ FwRequest
  <2>1. ev' = ev /\ pc \in Serving
    BY <1>7 DEF dev_param_register, RegisterInsert, dev_param_heart_beat, HeartBeatGw,
                HeartBeatSock, dev_param_update, UpdateGw, FwRequest, Goto, Serving
  <2> QED BY <2>1 DEF EvTypes
<1> QED BY <1>1, <1>2, <1>3, <1>4, <1>5, <1>6, <1>7
        DEF Next, vars, CenterThread, FlushThread, FlushWork, Tick, PeerConnect, PeerSend, PeerLeave,
            SockExpired, SockDel, SockUnwatch, SockClose, SockPassDone, GwExpired, GwPassDone,
            GwLockClose, GwUnwatch, GwCloseAgain, GwListDel, GwTableRemove, loopVars

LEMMA NetTypesStep == DevTypes /\ [Next]_vars => NetTypes'
<1> SUFFICES ASSUME DevTypes, [Next]_vars PROVE NetTypes'
    OBVIOUS
<1> USE DevBoundAssumption DEF DevTypes, NetTypes, Open
<1>1. CASE UNCHANGED netVars
    BY <1>1 DEF netVars
<1>2. ASSUME NEW fd, tcp_close(fd) PROVE NetTypes'
  <2>1. conn' = [gd \in Fds |-> IF gd = fd THEN 0 ELSE conn[gd]]
    BY <1>2, Zenon DEF tcp_close
  <2>2. watched' = watched \ {fd}
    BY <1>2 DEF tcp_close
  <2> QED BY <2>1, <2>2
<1>3. CASE Accept
  <2>1. PICK fd \in Fds : conn[fd] = 0 /\ conn' = [conn EXCEPT ![fd] = accepted + 1]
    BY <1>3 DEF Accept
  <2>2. accepted + 1 \in 0 .. MaxConns /\ accepted + 1 # 0
    BY <1>3, HeadEvent DEF Accept, PeerTypes
  <2> QED BY <1>3, <2>1, <2>2 DEF Accept
<1>4. CASE Watch
    BY <1>4 DEF Watch, WatchedWithNew, EvTypes
<1>5. CASE SockUnwatch \/ GwUnwatch
    BY <1>5 DEF SockUnwatch, GwUnwatch
<1> QED BY <1>1, <1>2, <1>3, <1>4, <1>5
        DEF Next, vars, CenterThread, FlushThread, FlushWork, Tick, PeerConnect, PeerSend, PeerLeave,
            epoll_wait, EpollError, AcceptError, dev_param_add_connect_sock, RecvNothing, RecvMessage, HangUp,
            dev_param_register, RegisterInsert, dev_param_heart_beat, HeartBeatGw, HeartBeatSock,
            dev_param_update, UpdateGw, FwRequest, SockExpired, SockDel, SockClose, SockPassDone,
            GwExpired, GwPassDone, GwLockClose, GwCloseAgain, GwListDel, GwTableRemove, ExitClose

LEMMA PeerTypesStep == DevTypes /\ [Next]_vars => PeerTypes'
<1> SUFFICES ASSUME DevTypes, [Next]_vars PROVE PeerTypes'
    OBVIOUS
<1> USE DevBoundAssumption DEF DevTypes, PeerTypes
<1>1. CASE UNCHANGED <<peerVars, accepted>>
    BY <1>1 DEF peerVars
<1>2. CASE PeerConnect
    BY <1>2 DEF PeerConnect
<1>3. ASSUME NEW c \in Conns, PeerSend(c) PROVE PeerTypes'
    BY <1>3 DEF PeerSend
<1>4. ASSUME NEW c \in Conns, PeerLeave(c) PROVE PeerTypes'
    BY <1>4 DEF PeerLeave
<1>5. CASE Accept
  <2>1. accepted' = accepted + 1 /\ UNCHANGED peerVars
    BY <1>5 DEF Accept
  <2>2. accepted < connected
    BY <1>5, HeadEvent DEF Accept
  <2> QED BY <2>1, <2>2 DEF peerVars
<1>6. CASE RecvMessage
    BY <1>6, RecvEffect DEF RecvMessage
<1> QED BY <1>1, <1>2, <1>3, <1>4, <1>5, <1>6
        DEF Next, vars, CenterThread, FlushThread, FlushWork, Tick, epoll_wait, EpollError, AcceptError,
            dev_param_add_connect_sock, Watch, RecvNothing, HangUp, dev_param_register,
            RegisterInsert, dev_param_heart_beat, HeartBeatGw, HeartBeatSock, dev_param_update,
            UpdateGw, FwRequest, SockExpired, SockDel, SockUnwatch, SockClose, SockPassDone,
            GwExpired, GwPassDone, GwLockClose, GwUnwatch, GwCloseAgain, GwListDel, GwTableRemove

LEMMA ListTypesStep == DevTypes /\ [Next]_vars => ListTypes'
<1> SUFFICES ASSUME DevTypes, [Next]_vars PROVE ListTypes'
    OBVIOUS
<1> USE DevBoundAssumption DEF DevTypes, ListTypes, Nodes
<1>1. CASE UNCHANGED <<sockList, flushNode>>
    BY <1>1
<1>2. CASE Tick
  <2>1. \A n \in Nodes : [n EXCEPT !.age = Older(@)] \in Nodes
    BY DEF Older
  <2> QED BY <1>2, <2>1 DEF Tick, flushVars
<1>3. CASE dev_param_add_connect_sock
    BY <1>3 DEF dev_param_add_connect_sock, ListWithNewSock, NewNode, EvTypes, flushVars
<1>4. CASE RegisterInsert
    BY <1>4 DEF RegisterInsert, flushVars
<1>5. CASE HeartBeatSock
  <2>1. NewNode \in Nodes
    BY <1>5 DEF HeartBeatSock, NewNode, EvTypes, Serving
  <2>2. \A n \in Nodes : [n EXCEPT !.age = 0] \in Nodes
    OBVIOUS
  <2> QED BY <1>5, <2>1, <2>2 DEF HeartBeatSock, ListWithNewSock, flushVars
<1>6. CASE SockExpired
  <2>1. \A n \in Nodes : [n EXCEPT !.age = 0] \in Nodes
    OBVIOUS
  <2> QED BY <1>6, <2>1 DEF SockExpired
<1>7. CASE SockDel \/ SockClose
    BY <1>7 DEF SockDel, SockClose
<1> QED BY <1>1, <1>2, <1>3, <1>4, <1>5, <1>6, <1>7
        DEF Next, vars, CenterThread, FlushThread, FlushWork, PeerConnect, PeerSend, PeerLeave,
            epoll_wait, EpollError, Accept, AcceptError, Watch, RecvNothing, RecvMessage, HangUp,
            dev_param_register, dev_param_heart_beat, HeartBeatGw, dev_param_update, UpdateGw,
            FwRequest, SockUnwatch, SockPassDone, GwExpired, GwPassDone, GwLockClose, GwUnwatch,
            GwCloseAgain, GwListDel, GwTableRemove, flushVars

LEMMA GwTypesStep == AllInv /\ DevTypes /\ [Next]_vars => GwTypes'
<1> SUFFICES ASSUME LockInv, GwInv, DevTypes, [Next]_vars PROVE GwTypes'
    BY DEF AllInv, LeakInv
<1> USE DevBoundAssumption, IdAssumption, FdAssumption DEF DevTypes, GwTypes
<1>1. CASE UNCHANGED <<head, hcc_id, gwFd, gwAge, flushId>>
    BY <1>1
<1>2. CASE Tick
    BY <1>2 DEF Tick, Older, flushVars
<1>3. CASE RegisterInsert
  <2>1. Id \in Known /\ ev.fd \in Fds
    BY <1>3 DEF RegisterInsert, GwInv, EvTypes, Serving
  <2> QED BY <1>3, <2>1 DEF RegisterInsert, flushVars
<1>4. CASE HeartBeatGw \/ UpdateGw
    BY <1>4 DEF HeartBeatGw, UpdateGw, Refresh, flushVars
<1>5. CASE GwExpired
    BY <1>5 DEF GwExpired, gwVars
<1>6. CASE GwListDel
    BY <1>6 DEF GwListDel, ListAfterFlush
<1>7. CASE GwTableRemove
    BY <1>7 DEF GwTableRemove, TableAfterFlush, LockInv
<1> QED BY <1>1, <1>2, <1>3, <1>4, <1>5, <1>6, <1>7
        DEF Next, vars, CenterThread, FlushThread, FlushWork, PeerConnect, PeerSend, PeerLeave,
            epoll_wait, EpollError, Accept, AcceptError, dev_param_add_connect_sock, Watch, RecvNothing,
            RecvMessage, HangUp, dev_param_register, dev_param_heart_beat, HeartBeatSock,
            dev_param_update, FwRequest, SockExpired, SockDel, SockUnwatch, SockClose, SockPassDone,
            GwPassDone, GwLockClose, GwUnwatch, GwCloseAgain, gwVars, flushVars

\* Types of the gateway manager: what epoll watches is open, connections are
\* accepted at most as often as gateways connect, only known ids enter the
\* tables, and a listed gateway has a descriptor (dev_mgr.c:245-290,
\* dev_param.c:188-213 and 378-390).
THEOREM GatewayTypes == Spec => []TypeOK
<1>1. AllInv /\ DevTypes /\ [Next]_vars => DevTypes'
  <2>1. DevTypes /\ [Next]_vars => crashed' \in {0, 1}
    BY DEF DevTypes, Next, vars, FlushThread, FlushWork, SockExpired, SockDel, SockUnwatch, SockClose,
           SockPassDone, GwExpired, GwPassDone, GwLockClose, GwUnwatch, GwCloseAgain, GwListDel,
           GwTableRemove
  <2> QED BY <2>1, NetTypesStep, PeerTypesStep, ListTypesStep, GwTypesStep, BatchStep, EvStep DEF DevTypes
<1>2. AllInv /\ DevTypes => TypeOK
  <2> SUFFICES ASSUME LockInv, DevTypes PROVE TypeOK
    BY DEF AllInv
  <2>1. mutex \in {"free", "flush"}
    BY DEF LockInv
  <2> QED BY <2>1 DEF DevTypes, TypeOK, NetTypes, PeerTypes, ListTypes, GwTypes, BatchInv, EvTypes, Events
<1> QED BY <1>1, <1>2, DevTypesInit, AllInvHolds, PTL DEF Spec
=============================================================================
