---------------------------- MODULE CltMgrProofs ----------------------------
(***************************************************************************)
(* Proofs about CltMgr, for any number of descriptors, connections and     *)
(* messages and any timeout: a client whose handshake is answered is       *)
(* tracked until it is closed, and a request is answered on the connection *)
(* it came from unless that is timed out meanwhile.                        *)
(***************************************************************************)
EXTENDS CltMgr, FiniteSetTheorems, SequenceTheorems, TLAPS

USE CltFdAssumption, CltBoundAssumption

Events == [fd : Fds \cup {listen}, hup : BOOLEAN]

(***************************************************************************)
(* The inductive invariant.  A connection is open at one descriptor only   *)
(* and has been accepted before it can be shaken; so the connection that   *)
(* Shake marks is that of the descriptor which the loop then adds.  While  *)
(* the loop works on a request, its descriptor can leave the list only     *)
(* into the hands of the flush thread.                                     *)
(***************************************************************************)
NetInv ==
    /\ conn \in [Fds -> Int] /\ watched \subseteq Fds /\ accepted \in Nat
    /\ \A fd \in Fds : conn[fd] = Other \/ conn[fd] \in 0 .. accepted
    /\ \A fd, gd \in Fds : conn[fd] \in 1 .. accepted /\ conn[fd] = conn[gd] => fd = gd
    /\ shaken \subseteq 1 .. accepted
LoopInv ==
    /\ events \in Seq(Events)
    /\ pc \notin {"wait", "ended"} => events # <<>>
    /\ ev = [fd |-> ev.fd, c |-> ev.c, got |-> ev.got, hup |-> ev.hup, asked |-> ev.asked, sent |-> ev.sent]
    /\ ev.asked \in BOOLEAN /\ ev.sent \in BOOLEAN
    /\ pc \in {"message", "shake", "add", "request", "send"} => ev.fd \in Fds /\ ev.c \in Conns
    /\ pc = "watch" => ev.fd \in Fds
    /\ pc \in {"message", "shake", "add", "request"} => ~ev.asked
    /\ ev.asked => ev.fd \in Fds /\ ev.c \in Conns
FlushInv ==
    /\ flushFd \in Fds \cup {0}
    /\ flushPc = "sock" <=> flushFd = 0
RequestInv ==
    (pc \in {"request", "send"} /\ conn[ev.fd] = ev.c) =>
        clt_param_sock_fd_is_exist(ev.fd) \/ flushFd = ev.fd

CltInv == NetInv /\ LoopInv /\ FlushInv /\ ShakenIsTracked /\ RequestInv /\ AnswerIsSent

\* A batch of events is a sequence of events of descriptors.
LEMMA EventsType ==
    ASSUME NEW S \in SUBSET (Fds \cup {listen}), NEW order \in SetToSeqs(S)
    PROVE  /\ [k \in DOMAIN order |-> EventOf(order[k])] \in Seq(Events)
           /\ order # <<>> => [k \in DOMAIN order |-> EventOf(order[k])] # <<>>
<1>1. IsFiniteSet(Fds \cup {listen})
    BY FS_AddElement
<1>2. Cardinality(S) \in Nat
    BY <1>1, FS_Subset, FS_CardinalityType
<1>3. order \in [1 .. Cardinality(S) -> S]
    BY DEF SetToSeqs
<1>4. \A k \in DOMAIN order : EventOf(order[k]) \in Events
    BY <1>3 DEF EventOf, Events
<1>5. [k \in DOMAIN order |-> EventOf(order[k])] \in [1 .. Cardinality(S) -> Events]
    BY <1>3, <1>4
<1>6. order # <<>> => Cardinality(S) # 0
    BY <1>3
<1>7. order # <<>> => [k \in DOMAIN order |-> EventOf(order[k])] # <<>>
    BY <1>2, <1>3, <1>6
<1> QED BY <1>2, <1>5, <1>7, SeqDef

\* Going on to the next event keeps the loop's part of the invariant.
LEMMA NextEventLoop ==
    ASSUME LoopInv, pc \notin {"wait", "ended"}, NextEvent
    PROVE  LoopInv' /\ pc' \in {"wait", "event"} /\ ev' = NoEvent
<1> USE DEF NextEvent, LoopInv
<1>1. /\ Tail(events) \in Seq(Events) /\ Len(Tail(events)) = Len(events) - 1
      /\ Len(events) \in Nat /\ Len(events) # 0
    BY HeadTailProperties, EmptySeq
<1>4. ASSUME pc' # "wait" PROVE events' # <<>>
  <2>1. Len(events) # 1 /\ events' = Tail(events)
      BY <1>4
  <2>2. Len(events') # 0
      BY <1>1, <2>1
  <2> QED BY <2>2
<1>3. events' \in Seq(Events) /\ (pc' # "wait" => events' # <<>>)
    BY <1>1, <1>4
<1>2. pc' \in {"wait", "event"} /\ ev' = NoEvent
    OBVIOUS
<1> QED BY <1>2, <1>3 DEF NoEvent

\* The event that the loop is at.
LEMMA HeadEvent ==
    ASSUME LoopInv, pc = "event"
    PROVE  Head(events) \in Events
BY HeadTailProperties DEF LoopInv

LEMMA LoopStep == NetInv /\ LoopInv /\ [Next]_vars => LoopInv'
<1> SUFFICES ASSUME NetInv, LoopInv, [Next]_vars PROVE LoopInv'
    OBVIOUS
<1>1. CASE UNCHANGED loopVars
    BY <1>1 DEF loopVars, LoopInv
<1>2. CASE epoll_wait
  <2>1. PICK more \in SUBSET Foreign : \E order \in SetToSeqs(Ready \cup more) :
             order # <<>> /\ events' = [k \in DOMAIN order |-> EventOf(order[k])]
      BY <1>2 DEF epoll_wait
  <2>2. PICK order \in SetToSeqs(Ready \cup more) :
             order # <<>> /\ events' = [k \in DOMAIN order |-> EventOf(order[k])]
      BY <2>1
  <2>3. Ready \cup more \in SUBSET (Fds \cup {listen})
      BY DEF Ready, Foreign, NetInv
  <2>4. events' \in Seq(Events) /\ events' # <<>>
      BY <2>2, <2>3, EventsType
  <2> QED BY <1>2, <2>4 DEF epoll_wait, LoopInv
<1>3. CASE Accept
    BY <1>3 DEF Accept, LoopInv, NoEvent
<1>4. CASE AcceptError \/ Watch \/ RecvNothing \/ HangUp
    BY <1>4, NextEventLoop DEF AcceptError, Watch, RecvNothing, HangUp
<1>5. CASE RecvMessage
    BY <1>5, HeadEvent DEF RecvMessage, LoopInv, Events, NoEvent
<1>6. CASE RecvForeign
    BY <1>6, HeadEvent DEF RecvForeign, LoopInv, Events, NoEvent
<1>7. CASE Message
    BY <1>7 DEF Message, LoopInv, Dispatch
<1>8. CASE Shake \/ clt_param_add_connect_sock
    BY <1>8 DEF Shake, clt_param_add_connect_sock, LoopInv
<1>9. CASE Request
  <2>1. ev' = [fd |-> ev.fd, c |-> ev.c, got |-> ev.got, hup |-> ev.hup, asked |-> TRUE, sent |-> ev.sent]
      BY <1>9 DEF Request, LoopInv
  <2>2. pc' \in {"send", "hup"} /\ pc = "request" /\ events' = events
      BY <1>9 DEF Request
  <2> QED BY <2>1, <2>2 DEF LoopInv
<1>10. CASE Send
    BY <1>10 DEF Send, LoopInv, Reaches
<1>11. CASE EpollError
    BY <1>11 DEF EpollError, LoopInv
<1> QED BY <1>1, <1>2, <1>3, <1>4, <1>5, <1>6, <1>7, <1>8, <1>9, <1>10, <1>11
           DEF Next, vars, CenterThread, FlushThread, Tick, PeerConnect, PeerSend, PeerLeave,
               OtherUses, SockDel, SockUnwatch, SockClose, loopVars


\* The connections: each is open at one descriptor, and shaken only after it
\* was accepted.
LEMMA NetStep == NetInv /\ LoopInv /\ [Next]_vars => NetInv'
<1> SUFFICES ASSUME NetInv, LoopInv, [Next]_vars PROVE NetInv'
    OBVIOUS
<1> USE DEF NetInv
<1>1. CASE UNCHANGED <<netVars, accepted, shaken>>
    BY <1>1 DEF netVars
<1>2. ASSUME NEW fd, tcp_close(fd), UNCHANGED <<accepted, shaken>>
      PROVE  NetInv'
  <2>1. conn' \in [Fds -> Int] /\ \A gd \in Fds : conn'[gd] \in {0, conn[gd]}
    <3>1. conn' = [gd \in Fds |-> IF gd = fd THEN 0 ELSE conn[gd]]
        BY <1>2, Zenon DEF tcp_close
    <3> QED BY <3>1
  <2>2. watched' \subseteq Fds
      BY <1>2 DEF tcp_close
  <2> QED BY <1>2, <2>1, <2>2 DEF Other
<1>3. ASSUME NEW fd \in Fds, OtherUses(fd) PROVE NetInv'
    BY <1>3 DEF OtherUses, Other
<1>4. CASE Accept
  <2>1. PICK fd \in Fds : conn[fd] = 0 /\ conn' = [conn EXCEPT ![fd] = accepted + 1]
      BY <1>4 DEF Accept
  <2>2. accepted' = accepted + 1 /\ UNCHANGED <<watched, shaken>>
      BY <1>4 DEF Accept
  <2> QED BY <2>1, <2>2 DEF Other
<1>5. CASE Watch
    BY <1>5 DEF Watch, WatchedWithNew, LoopInv
<1>6. CASE Shake
    BY <1>6 DEF Shake, Reaches, LoopInv, Conns, netVars, Other
<1>7. CASE SockUnwatch
    BY <1>7 DEF SockUnwatch
<1> QED BY <1>1, <1>2, <1>3, <1>4, <1>5, <1>6, <1>7
           DEF Next, vars, CenterThread, FlushThread, Tick, PeerConnect, PeerSend, PeerLeave, epoll_wait,
               EpollError, AcceptError, RecvNothing, RecvMessage, RecvForeign, Message, clt_param_add_connect_sock,
               Request, Send, HangUp, SockDel, SockClose, ExitClose, netVars

LEMMA FlushStep == FlushInv /\ [Next]_vars => FlushInv'
BY DEF FlushInv, Next, vars, CenterThread, FlushThread, Tick, PeerConnect, PeerSend, PeerLeave, epoll_wait,
       EpollError, OtherUses, Accept, AcceptError, Watch, RecvNothing, RecvMessage, RecvForeign, Message, Shake,
       clt_param_add_connect_sock, Request, Send, HangUp, SockDel, SockUnwatch, SockClose, flushVars

\* What a close does to the table of descriptors.
LEMMA CloseEffect ==
    ASSUME NetInv, NEW fd, tcp_close(fd)
    PROVE  /\ \A gd \in Fds : conn'[gd] \in {0, conn[gd]}
           /\ fd \in Fds => conn'[fd] = 0
<1>1. conn' = [gd \in Fds |-> IF gd = fd THEN 0 ELSE conn[gd]]
    BY Zenon DEF tcp_close, NetInv
<1> QED BY <1>1

\* A shaken connection is tracked: Shake is followed by the addition to the
\* list, and only the flush thread takes descriptors out of it.
LEMMA TrackedStep ==
    NetInv /\ LoopInv /\ FlushInv /\ ShakenIsTracked /\ [Next]_vars => ShakenIsTracked'
<1> SUFFICES ASSUME NetInv, LoopInv, FlushInv, ShakenIsTracked, [Next]_vars,
                    NEW fd \in Fds, conn'[fd] \in shaken'
             PROVE  \/ fd \in sock_fd_head'
                    \/ pc' = "add" /\ ev'.fd = fd
                    \/ flushFd' = fd
    BY DEF ShakenIsTracked, clt_param_sock_fd_is_exist
<1>1. shaken \subseteq 1 .. accepted /\ Other \notin 1 .. accepted /\ 0 \notin 1 .. accepted
    BY DEF NetInv, Other
<1>2. conn[fd] \in shaken => fd \in sock_fd_head \/ (pc = "add" /\ ev.fd = fd) \/ flushFd = fd
    BY DEF ShakenIsTracked, clt_param_sock_fd_is_exist
<1>3. CASE UNCHANGED <<conn, shaken, sock_fd_head, pc, ev, flushFd>>
    BY <1>2, <1>3
<1>4. ASSUME NEW gd \in Fds, OtherUses(gd) PROVE fd \in sock_fd_head' \/ (pc' = "add" /\ ev'.fd = fd) \/ flushFd' = fd
  <2>1. conn'[fd] \in {0, Other, conn[fd]}
      BY <1>4 DEF OtherUses, NetInv
  <2>2. UNCHANGED <<shaken, sock_fd_head, pc, ev, flushFd>>
      BY <1>4 DEF OtherUses, listVars, loopVars, flushVars
  <2>3. conn'[fd] = conn[fd]
      BY <1>1, <2>1, <2>2
  <2> QED BY <1>2, <2>2, <2>3
<1>5. CASE \/ epoll_wait \/ EpollError \/ AcceptError \/ Watch \/ RecvMessage \/ RecvForeign
           \/ Message \/ Request \/ Send
  <2>1. UNCHANGED <<conn, shaken, sock_fd_head, flushFd>> /\ pc # "add"
      BY <1>5 DEF epoll_wait, EpollError, AcceptError, Watch, RecvMessage, RecvForeign, Message,
                  Request, Send, netVars, listVars, flushVars
  <2> QED BY <1>2, <2>1
<1>6. CASE RecvNothing \/ HangUp
  <2>1. conn'[fd] \in {0, conn[fd]}
      BY <1>6, CloseEffect DEF RecvNothing, HangUp, netVars
  <2>2. UNCHANGED <<shaken, sock_fd_head, flushFd>> /\ pc # "add"
      BY <1>6 DEF RecvNothing, HangUp, listVars, flushVars
  <2> QED BY <1>1, <1>2, <2>1, <2>2
<1>7. CASE Accept
  <2>1. conn'[fd] \in {conn[fd], accepted + 1}
      BY <1>7 DEF Accept, NetInv
  <2>2. UNCHANGED <<shaken, sock_fd_head, flushFd>> /\ pc # "add"
      BY <1>7 DEF Accept, listVars, flushVars
  <2>3. accepted + 1 \notin shaken
      BY DEF NetInv
  <2> QED BY <1>2, <2>1, <2>2, <2>3
<1>8. CASE Shake
  <2>1. CASE conn[fd] \in shaken
      BY <1>2, <1>8, <2>1 DEF Shake, listVars, flushVars
  <2>2. CASE conn[fd] \notin shaken
    <3>1. conn[ev.fd] = ev.c /\ conn[fd] = ev.c /\ ev.fd \in Fds /\ ev.c \in Conns
        BY <1>8, <2>2 DEF Shake, Reaches, netVars, LoopInv
    <3>2. conn[fd] \in 1 .. accepted
        BY <3>1 DEF NetInv, Conns, Other
    <3>3. ev.fd = fd
        BY <3>1, <3>2 DEF NetInv
    <3> QED BY <1>8, <3>3 DEF Shake
  <2> QED BY <2>1, <2>2
<1>9. CASE clt_param_add_connect_sock
    BY <1>2, <1>9 DEF clt_param_add_connect_sock, ListWithNewSock, netVars, flushVars
<1>10. ASSUME NEW gd \in Fds, SockDel(gd) PROVE fd \in sock_fd_head' \/ (pc' = "add" /\ ev'.fd = fd) \/ flushFd' = fd
    BY <1>2, <1>10, <1>1 DEF SockDel, ListAfterDel, netVars, loopVars, FlushInv
<1>11. CASE SockUnwatch
    BY <1>2, <1>11 DEF SockUnwatch, listVars, loopVars
<1>12. CASE SockClose
  <2>1. flushFd \in Fds /\ conn'[flushFd] = 0 /\ conn'[fd] \in {0, conn[fd]}
      BY <1>12, CloseEffect DEF SockClose, ExitClose, FlushInv
  <2>2. UNCHANGED <<shaken, sock_fd_head, pc, ev>>
      BY <1>12 DEF SockClose, listVars, loopVars
  <2> QED BY <1>1, <1>2, <2>1, <2>2
<1> QED BY <1>3, <1>4, <1>5, <1>6, <1>7, <1>8, <1>9, <1>10, <1>11, <1>12
           DEF Next, vars, CenterThread, FlushThread, Tick, PeerConnect, PeerSend, PeerLeave,
               netVars, listVars, loopVars, flushVars

\* A request is answered: from the moment it is taken up, its descriptor is in
\* the list or in the hands of the flush thread, as long as its connection is
\* open.
LEMMA AnswerStep ==
    NetInv /\ LoopInv /\ FlushInv /\ RequestInv /\ AnswerIsSent /\ [Next]_vars
        => RequestInv' /\ AnswerIsSent'
<1> SUFFICES ASSUME NetInv, LoopInv, FlushInv, RequestInv, AnswerIsSent, [Next]_vars
             PROVE  RequestInv' /\ AnswerIsSent'
    OBVIOUS
<1> USE DEF RequestInv, AnswerIsSent, clt_param_sock_fd_is_exist
<1>1. ASSUME UNCHANGED <<sock_fd_head, pc, ev, flushFd>>,
             \A gd \in Fds : conn'[gd] \in {0, Other, conn[gd]}
      PROVE  RequestInv' /\ AnswerIsSent'
  <2>1. ASSUME pc \in {"request", "send"} \/ ev.asked, conn'[ev.fd] = ev.c
        PROVE  conn[ev.fd] = ev.c
      BY <1>1, <2>1 DEF LoopInv, Conns, Other
  <2> QED BY <1>1, <2>1
<1>2. CASE UNCHANGED <<conn, sock_fd_head, pc, ev, flushFd>>
    BY <1>2
<1>3. ASSUME NEW gd \in Fds, OtherUses(gd) PROVE RequestInv' /\ AnswerIsSent'
  <2>1. \A hd \in Fds : conn'[hd] \in {0, Other, conn[hd]}
      BY <1>3 DEF OtherUses, NetInv
  <2> QED BY <1>1, <1>3, <2>1 DEF OtherUses, listVars, loopVars, flushVars
<1>4. CASE \/ epoll_wait \/ EpollError \/ AcceptError \/ Watch \/ RecvNothing \/ HangUp
           \/ Accept \/ RecvMessage \/ Shake
    BY <1>4 DEF epoll_wait, EpollError, AcceptError, Watch, RecvNothing, HangUp, Accept, RecvMessage,
                Shake, NextEvent
<1>5. CASE RecvForeign
    BY <1>5 DEF RecvForeign, NoEvent
<1>6. CASE Message
    BY <1>6 DEF Message, netVars, listVars, flushVars, LoopInv, Dispatch
<1>7. CASE clt_param_add_connect_sock
    BY <1>7 DEF clt_param_add_connect_sock, LoopInv
<1>8. CASE Request
  <2>1. ev'.fd = ev.fd /\ ev'.c = ev.c /\ UNCHANGED <<conn, sock_fd_head, flushFd>>
      BY <1>8 DEF Request, LoopInv, netVars, listVars, flushVars
  <2> QED BY <1>8, <2>1 DEF Request, AnswerAllowed
<1>9. CASE Send
  <2>1. ev'.fd = ev.fd /\ ev'.c = ev.c /\ ev'.sent = (conn[ev.fd] = ev.c) /\ conn' = conn
      BY <1>9 DEF Send, LoopInv, Reaches, netVars
  <2> QED BY <1>9, <2>1 DEF Send
<1>10. ASSUME NEW gd \in Fds, SockDel(gd) PROVE RequestInv' /\ AnswerIsSent'
    BY <1>10 DEF SockDel, ListAfterDel, netVars, loopVars, FlushInv, LoopInv
<1>11. CASE SockUnwatch
    BY <1>2, <1>11 DEF SockUnwatch, listVars, loopVars
<1>12. CASE SockClose
  <2>1. /\ flushFd \in Fds /\ conn'[flushFd] = 0
        /\ \A gd \in Fds : conn'[gd] \in {0, conn[gd]}
      BY <1>12, CloseEffect DEF SockClose, ExitClose, FlushInv
  <2>2. UNCHANGED <<sock_fd_head, pc, ev>>
      BY <1>12 DEF SockClose, listVars, loopVars
  <2>3. ASSUME pc \in {"request", "send"} \/ ev.asked, conn'[ev.fd] = ev.c
        PROVE  conn[ev.fd] = ev.c /\ ev.fd # flushFd
      BY <2>1, <2>3 DEF LoopInv, Conns
  <2> QED BY <2>2, <2>3
<1> QED BY <1>2, <1>3, <1>4, <1>5, <1>6, <1>7, <1>8, <1>9, <1>10, <1>11, <1>12
           DEF Next, vars, CenterThread, FlushThread, Tick, PeerConnect, PeerSend, PeerLeave,
               netVars, listVars, loopVars, flushVars

LEMMA CltInvHolds == Spec => []CltInv
<1>1. Init => CltInv
  <2> SUFFICES ASSUME Init PROVE CltInv
      OBVIOUS
  <2>1. NetInv /\ ShakenIsTracked
      BY DEF Init, NetInv, Other, ShakenIsTracked
  <2>2. LoopInv
      BY EmptySeq DEF Init, LoopInv, NoEvent
  <2> QED BY <2>1, <2>2 DEF Init, CltInv, FlushInv, RequestInv, AnswerIsSent
<1>2. CltInv /\ [Next]_vars => CltInv'
    BY NetStep, LoopStep, FlushStep, TrackedStep, AnswerStep DEF CltInv
<1> QED BY <1>1, <1>2, PTL DEF Spec

\* A client whose handshake is answered is in the list, about to enter it, or
\* in the hands of the flush thread, so that its timeout finds it
\* (clt_mgr.c:284-286 against clt_param.c:312-317).
THEOREM ClientsAreTracked == Spec => []ShakenIsTracked
BY CltInvHolds, PTL DEF CltInv

\* A request is answered on the connection it came from, unless the flush
\* thread closes that meanwhile (clt_mgr.c:386-393 and the other answers).
THEOREM RequestsAreAnswered == Spec => []AnswerIsSent
BY CltInvHolds, PTL DEF CltInv

-----------------------------------------------------------------------------
(***************************************************************************)
(* Type correctness.  It takes two facts that no type says: a batch of     *)
(* events names a descriptor once, so that accept is called once for a     *)
(* connection that is waiting; and what asks for the handshake was sent by *)
(* an app that had not asked before.                                       *)
(***************************************************************************)
BatchInv ==
    /\ \A j, k \in DOMAIN events : events[j].fd = events[k].fd => j = k
    /\ \A k \in DOMAIN events :
          events[k].fd = listen /\ (k > 1 \/ pc = "event") => accepted < connected
UpgradeInv ==
    /\ \A c \in Conns : Contains(input[c], "upgrade") => c \in upgraded
    /\ pc = "message" /\ Contains(ev.got, "upgrade") => ev.c \in upgraded
    /\ pc = "shake" => ev.c \in upgraded

OpenInv ==
    /\ conn \in [Fds -> Conns \cup {0, Other}]
    /\ watched \subseteq {fd \in Fds : conn[fd] # 0}
PeerInv ==
    /\ connected \in 0 .. MaxConns /\ accepted \in 0 .. connected /\ msgLeft \in 0 .. MaxMsgs
    /\ input \in [Conns -> Seq(Msgs)] /\ peer \in [Conns -> {"up", "fin", "reset"}]
    /\ upgraded \subseteq 1 .. connected
ShakeInv == shaken \subseteq upgraded
ListInv == sock_fd_head \subseteq Fds /\ age \in [Fds -> 0 .. MaxAge]
EvInv == ev.fd \in Fds \cup {0} /\ ev.c \in 0 .. MaxConns /\ ev.got \in Seq(Msgs)

CltTypes == OpenInv /\ PeerInv /\ ShakeInv /\ ListInv /\ EvInv /\ BatchInv /\ UpgradeInv

\* The batch that epoll_wait returns.
LEMMA BatchIs ==
    ASSUME NEW S \in SUBSET (Fds \cup {listen}), NEW order \in SetToSeqs(S)
    PROVE  LET e == [k \in DOMAIN order |-> EventOf(order[k])] IN
           /\ \A j, k \in DOMAIN e : e[j].fd = e[k].fd => j = k
           /\ \A k \in DOMAIN e : e[k].fd \in S
BY DEF SetToSeqs, EventOf

LEMMA NextEventBatch ==
    ASSUME LoopInv, BatchInv, pc \notin {"wait", "ended"}, NextEvent, UNCHANGED <<accepted, connected>>
    PROVE  BatchInv'
<1>1. events \in Seq(Events) /\ events # <<>> /\ events' = Tail(events)
    BY DEF LoopInv, NextEvent
<1>2. Len(events) \in Nat \ {0} /\ DOMAIN events = 1 .. Len(events)
    BY <1>1, EmptySeq
<1>3. /\ DOMAIN events' = 1 .. Len(events) - 1
      /\ \A k \in 1 .. Len(events) - 1 : events'[k] = events[k + 1]
    BY <1>1, <1>2, HeadTailProperties
<1>4. ASSUME NEW j \in DOMAIN events', NEW k \in DOMAIN events', events'[j].fd = events'[k].fd
      PROVE  j = k
  <2>1. /\ j + 1 \in DOMAIN events /\ k + 1 \in DOMAIN events
        /\ events'[j] = events[j + 1] /\ events'[k] = events[k + 1]
      BY <1>2, <1>3
  <2>2. j + 1 = k + 1
      BY <1>4, <2>1 DEF BatchInv
  <2> QED BY <1>2, <1>3, <2>2
<1>5. ASSUME NEW k \in DOMAIN events', events'[k].fd = listen PROVE accepted' < connected'
  <2>1. k + 1 \in DOMAIN events /\ k + 1 > 1 /\ events'[k] = events[k + 1]
      BY <1>2, <1>3
  <2> QED BY <1>5, <2>1 DEF BatchInv
<1> QED BY <1>4, <1>5 DEF BatchInv

LEMMA BatchStep == CltInv /\ CltTypes /\ [Next]_vars => BatchInv'
<1> SUFFICES ASSUME CltInv, CltTypes, [Next]_vars PROVE BatchInv'
    OBVIOUS
<1> USE DEF CltInv, CltTypes
<1>1. CASE UNCHANGED <<events, pc, accepted, connected>>
    BY <1>1 DEF BatchInv
<1>2. CASE PeerConnect
    BY <1>2 DEF PeerConnect, BatchInv, PeerInv, loopVars
<1>3. CASE epoll_wait
  <2>0. PICK more \in SUBSET Foreign : \E order \in SetToSeqs(Ready \cup more) :
             events' = [k \in DOMAIN order |-> EventOf(order[k])]
      BY <1>3 DEF epoll_wait
  <2>1. PICK order \in SetToSeqs(Ready \cup more) :
             events' = [k \in DOMAIN order |-> EventOf(order[k])]
      BY <2>0
  <2>2. Ready \cup more \in SUBSET (Fds \cup {listen})
      BY DEF Ready, Foreign, NetInv
  <2>3. listen \in Ready \cup more => accepted < connected
      BY DEF Ready, Foreign, NetInv
  <2>4. /\ \A j, k \in DOMAIN events' : events'[j].fd = events'[k].fd => j = k
        /\ \A k \in DOMAIN events' : events'[k].fd \in Ready \cup more
      BY <2>1, <2>2, BatchIs
  <2> QED BY <1>3, <2>3, <2>4 DEF epoll_wait, BatchInv, peerVars
<1>4. CASE Accept
  <2>1. pc = "event" /\ events[1].fd = listen /\ events' = events /\ pc' = "watch"
      BY <1>4 DEF Accept
  <2>2. 1 \in DOMAIN events /\ DOMAIN events \subseteq Nat \ {0}
      BY <2>1, EmptySeq DEF LoopInv
  <2>3. \A k \in DOMAIN events : events[k].fd = listen => k = 1
      BY <2>1, <2>2 DEF BatchInv
  <2> QED BY <2>1, <2>2, <2>3 DEF BatchInv
<1>5. CASE AcceptError \/ Watch \/ RecvNothing \/ HangUp
    BY <1>5, NextEventBatch DEF AcceptError, Watch, RecvNothing, HangUp, peerVars
<1>6. CASE RecvMessage \/ RecvForeign \/ Message \/ Shake \/ clt_param_add_connect_sock \/ Request \/ Send
  <2>1. UNCHANGED <<events, accepted, connected>> /\ pc' # "event"
      BY <1>6 DEF RecvMessage, RecvForeign, Message, Shake, clt_param_add_connect_sock, Request, Send,
                  peerVars, Dispatch
  <2> QED BY <2>1 DEF BatchInv
<1>7. CASE EpollError
    BY <1>7 DEF EpollError, BatchInv, peerVars
<1> QED BY <1>1, <1>2, <1>3, <1>4, <1>5, <1>6, <1>7
           DEF Next, vars, CenterThread, FlushThread, Tick, PeerSend, PeerLeave, OtherUses,
               SockDel, SockUnwatch, SockClose, peerVars, loopVars

\* What arrives is read in order, and a part of it asks for the handshake
\* only if the whole does.
LEMMA PartOfInput ==
    ASSUME NEW s \in Seq(Msgs), NEW n \in 1 .. Len(s)
    PROVE  /\ SubSeq(s, 1, n) \in Seq(Msgs) /\ SubSeq(s, n + 1, Len(s)) \in Seq(Msgs)
           /\ \A m : Contains(SubSeq(s, 1, n), m) => Contains(s, m)
           /\ \A m : Contains(SubSeq(s, n + 1, Len(s)), m) => Contains(s, m)
<1>1. Len(s) \in Nat /\ n \in Nat \ {0} /\ n <= Len(s)
    OBVIOUS
<1>2. /\ SubSeq(s, 1, n) \in Seq(Msgs) /\ Len(SubSeq(s, 1, n)) = n
      /\ \A k \in 1 .. n : SubSeq(s, 1, n)[k] = s[k]
    BY <1>1
<1>3. /\ SubSeq(s, n + 1, Len(s)) \in Seq(Msgs) /\ Len(SubSeq(s, n + 1, Len(s))) = Len(s) - n
      /\ \A k \in 1 .. Len(s) - n : SubSeq(s, n + 1, Len(s))[k] = s[n + k]
    BY <1>1
<1>4. ASSUME NEW m, Contains(SubSeq(s, 1, n), m) PROVE Contains(s, m)
    BY <1>1, <1>2, <1>4 DEF Contains
<1>5. ASSUME NEW m, Contains(SubSeq(s, n + 1, Len(s)), m) PROVE Contains(s, m)
  <2>1. PICK k \in 1 .. Len(s) - n : s[n + k] = m
      BY <1>3, <1>5 DEF Contains
  <2>2. n + k \in 1 .. Len(s)
      BY <1>1, <2>1
  <2> QED BY <2>1, <2>2 DEF Contains
<1> QED BY <1>2, <1>3, <1>4, <1>5

\* What RecvMessage takes from the connection.
LEMMA RecvEffect ==
    ASSUME CltInv, CltTypes, RecvMessage
    PROVE  /\ ev'.fd \in Fds /\ ev'.c \in Conns /\ ev'.got \in Seq(Msgs)
           /\ input' \in [Conns -> Seq(Msgs)]
           /\ \A m : Contains(ev'.got, m) => Contains(input[ev'.c], m)
           /\ \A c \in Conns : \A m : Contains(input'[c], m) => Contains(input[c], m)
<1> USE DEF CltInv, CltTypes
<1> DEFINE fd == Head(events).fd
           c == conn[fd]
<1>1. PICK n \in 1 .. Len(input[c]) :
         /\ ev' = [NoEvent EXCEPT !.fd = fd, !.c = c, !.hup = Head(events).hup,
                                  !.got = SubSeq(input[c], 1, n)]
         /\ input' = [input EXCEPT ![c] = SubSeq(@, n + 1, Len(@))]
    BY DEF RecvMessage
<1>2. fd \in Fds /\ c \in Conns
    BY HeadEvent DEF RecvMessage, Events
<1>3. ev'.fd = fd /\ ev'.c = c /\ ev'.got = SubSeq(input[c], 1, n)
    BY <1>1 DEF NoEvent
<1>4. input \in [Conns -> Seq(Msgs)] /\ input[c] \in Seq(Msgs)
    BY <1>2 DEF PeerInv
<1>5. /\ input'[c] = SubSeq(input[c], n + 1, Len(input[c])) /\ input' \in [Conns -> Seq(Msgs)]
      /\ \A d \in Conns \ {c} : input'[d] = input[d]
    BY <1>1, <1>2, <1>4, PartOfInput
<1>6. \A m : Contains(ev'.got, m) => Contains(input[ev'.c], m)
    BY <1>3, <1>4, PartOfInput
<1>7. \A d \in Conns : \A m : Contains(input'[d], m) => Contains(input[d], m)
  <2>1. \A m : Contains(input'[c], m) => Contains(input[c], m)
      BY <1>4, <1>5, PartOfInput
  <2>2. \A d \in Conns \ {c} : \A m : Contains(input'[d], m) => Contains(input[d], m)
      BY <1>5
  <2> QED BY <2>1, <2>2
<1> QED BY <1>2, <1>3, <1>4, <1>5, <1>6, <1>7, PartOfInput

\* What PeerSend adds to it.
LEMMA SendEffect ==
    ASSUME CltTypes, NEW c \in Conns, PeerSend(c)
    PROVE  /\ input' \in [Conns -> Seq(Msgs)]
           /\ upgraded \subseteq upgraded' /\ upgraded' \subseteq upgraded \cup {c}
           /\ \A d \in Conns : Contains(input'[d], "upgrade") =>
                 Contains(input[d], "upgrade") \/ d \in upgraded'
<1>1. PICK m \in Msgs :
         /\ input' = [input EXCEPT ![c] = Append(@, m)]
         /\ upgraded' = (IF m = "upgrade" THEN upgraded \cup {c} ELSE upgraded)
    BY DEF PeerSend
<1>2. input \in [Conns -> Seq(Msgs)]
    BY DEF CltTypes, PeerInv
<1>3. /\ input' \in [Conns -> Seq(Msgs)] /\ input'[c] = Append(input[c], m)
      /\ \A d \in Conns \ {c} : input'[d] = input[d]
    BY <1>1, <1>2
<1>4. ASSUME Contains(Append(input[c], m), "upgrade")
      PROVE  Contains(input[c], "upgrade") \/ m = "upgrade"
  <2>1. PICK k \in 1 .. Len(Append(input[c], m)) : Append(input[c], m)[k] = "upgrade"
      BY <1>4 DEF Contains
  <2>2. (k \in 1 .. Len(input[c]) /\ input[c][k] = "upgrade") \/ m = "upgrade"
      BY <1>2, <2>1, AppendProperties
  <2> QED BY <2>2 DEF Contains
<1> QED BY <1>1, <1>3, <1>4

LEMMA UpgradeStep == CltInv /\ CltTypes /\ [Next]_vars => UpgradeInv'
<1> SUFFICES ASSUME CltInv, CltTypes, [Next]_vars PROVE UpgradeInv'
    OBVIOUS
<1> USE DEF CltInv, CltTypes
<1>1. CASE UNCHANGED <<input, upgraded, pc, ev>>
    BY <1>1 DEF UpgradeInv
<1>2. ASSUME NEW c \in Conns, PeerSend(c) PROVE UpgradeInv'
    BY <1>2, SendEffect DEF UpgradeInv, PeerSend, loopVars
<1>3. CASE RecvMessage
    BY <1>3, RecvEffect DEF RecvMessage, UpgradeInv
<1>4. CASE Message
  <2>1. pc = "message" /\ UNCHANGED <<input, upgraded, ev>> /\ pc' # "message"
      BY <1>4 DEF Message, peerVars, Dispatch
  <2>2. pc' = "shake" => Contains(ev.got, "upgrade")
      BY <1>4 DEF Message, Dispatch, HasKey
  <2> QED BY <2>1, <2>2 DEF UpgradeInv
<1>5. CASE \/ epoll_wait \/ EpollError \/ Accept \/ AcceptError \/ Watch \/ RecvNothing \/ RecvForeign \/ Shake
           \/ clt_param_add_connect_sock \/ Request \/ Send \/ HangUp
  <2>1. UNCHANGED <<input, upgraded>> /\ pc' \notin {"message", "shake"}
      BY <1>5 DEF epoll_wait, EpollError, Accept, AcceptError, Watch, RecvNothing, RecvForeign, Shake,
                  clt_param_add_connect_sock, Request, Send, HangUp, NextEvent, peerVars
  <2> QED BY <2>1 DEF UpgradeInv
<1> QED BY <1>1, <1>2, <1>3, <1>4, <1>5
           DEF Next, vars, CenterThread, FlushThread, Tick, PeerConnect, PeerLeave, OtherUses,
               SockDel, SockUnwatch, SockClose, peerVars, loopVars

\* accept is called for a connection that is waiting.
LEMMA AcceptWaiting ==
    ASSUME CltInv, CltTypes, Accept
    PROVE  accepted < connected
<1>1. 1 \in DOMAIN events /\ events[1].fd = listen /\ pc = "event"
    BY EmptySeq DEF Accept, CltInv, LoopInv
<1> QED BY <1>1 DEF CltTypes, BatchInv

LEMMA EvStep == CltInv /\ CltTypes /\ [Next]_vars => EvInv'
<1> SUFFICES ASSUME CltInv, CltTypes, [Next]_vars PROVE EvInv'
    OBVIOUS
<1> USE DEF CltInv, CltTypes
<1>1. CASE UNCHANGED ev
    BY <1>1 DEF EvInv
<1>2. CASE Accept
  <2>1. PICK fd \in Fds : ev' = [NoEvent EXCEPT !.fd = fd, !.c = accepted + 1]
      BY <1>2 DEF Accept
  <2>2. accepted + 1 \in 0 .. MaxConns
      BY <1>2, AcceptWaiting DEF PeerInv
  <2> QED BY <2>1, <2>2, EmptySeq DEF EvInv, NoEvent
<1>3. CASE RecvMessage
    BY <1>3, RecvEffect DEF EvInv, Conns
<1>4. CASE RecvForeign
    BY <1>4, HeadEvent, EmptySeq DEF RecvForeign, EvInv, Events, NoEvent
<1>5. CASE AcceptError \/ Watch \/ RecvNothing \/ HangUp
  <2>1. ev' = NoEvent
      BY <1>5 DEF AcceptError, Watch, RecvNothing, HangUp, NextEvent
  <2> QED BY <2>1, EmptySeq DEF NoEvent, EvInv
<1>6. CASE Request \/ Send
  <2>1. ev'.fd = ev.fd /\ ev'.c = ev.c /\ ev'.got = ev.got
      BY <1>6 DEF Request, Send, LoopInv
  <2> QED BY <2>1 DEF EvInv
<1> QED BY <1>1, <1>2, <1>3, <1>4, <1>5, <1>6
           DEF Next, vars, CenterThread, FlushThread, Tick, PeerConnect, PeerSend, PeerLeave, OtherUses,
               epoll_wait, EpollError, Message, Shake, clt_param_add_connect_sock, SockDel, SockUnwatch, SockClose,
               loopVars

LEMMA OpenStep == CltInv /\ CltTypes /\ [Next]_vars => OpenInv'
<1> SUFFICES ASSUME CltInv, CltTypes, [Next]_vars PROVE OpenInv'
    OBVIOUS
<1> USE DEF CltInv, CltTypes, OpenInv
<1>1. CASE UNCHANGED netVars
    BY <1>1 DEF netVars
<1>2. ASSUME NEW fd, tcp_close(fd) PROVE OpenInv'
  <2>1. conn' = [gd \in Fds |-> IF gd = fd THEN 0 ELSE conn[gd]]
      BY <1>2, Zenon DEF tcp_close
  <2>2. watched' = watched \ {fd}
      BY <1>2 DEF tcp_close
  <2> QED BY <2>1, <2>2
<1>3. ASSUME NEW fd \in Fds, OtherUses(fd) PROVE OpenInv'
  <2>1. conn' = [conn EXCEPT ![fd] = Other] \/ conn' = [conn EXCEPT ![fd] = 0]
      BY <1>3 DEF OtherUses
  <2>2. watched' = watched \ {fd}
      BY <1>3 DEF OtherUses
  <2> QED BY <2>1, <2>2
<1>4. CASE Accept
  <2>1. PICK fd \in Fds : conn[fd] = 0 /\ conn' = [conn EXCEPT ![fd] = accepted + 1]
      BY <1>4 DEF Accept
  <2>2. accepted + 1 \in Conns /\ accepted + 1 # 0
      BY <1>4, AcceptWaiting DEF PeerInv, Conns
  <2> QED BY <1>4, <2>1, <2>2 DEF Accept
<1>5. CASE Watch
    BY <1>5 DEF Watch, WatchedWithNew, LoopInv
<1>6. CASE SockUnwatch
    BY <1>6 DEF SockUnwatch
<1> QED BY <1>1, <1>2, <1>3, <1>4, <1>5, <1>6
           DEF Next, vars, CenterThread, FlushThread, Tick, PeerConnect, PeerSend, PeerLeave, epoll_wait,
               EpollError, AcceptError, RecvNothing, RecvMessage, RecvForeign, Message, Shake,
               clt_param_add_connect_sock, Request, Send, HangUp, SockDel, SockClose, ExitClose

LEMMA PeerStep == CltInv /\ CltTypes /\ [Next]_vars => PeerInv'
<1> SUFFICES ASSUME CltInv, CltTypes, [Next]_vars PROVE PeerInv'
    OBVIOUS
<1> USE DEF CltInv, CltTypes, PeerInv
<1>1. CASE UNCHANGED <<peerVars, accepted>>
    BY <1>1 DEF peerVars
<1>2. CASE PeerConnect
    BY <1>2 DEF PeerConnect
<1>3. ASSUME NEW c \in Conns, PeerSend(c) PROVE PeerInv'
  <2>1. input' \in [Conns -> Seq(Msgs)] /\ upgraded' \subseteq upgraded \cup {c}
      BY <1>3, SendEffect
  <2>2. c \in 1 .. connected /\ msgLeft' \in 0 .. MaxMsgs /\ UNCHANGED <<connected, peer, accepted>>
      BY <1>3 DEF PeerSend, Conns
  <2> QED BY <2>1, <2>2
<1>4. ASSUME NEW c \in Conns, PeerLeave(c) PROVE PeerInv'
    BY <1>4 DEF PeerLeave
<1>5. CASE Accept
  <2>1. accepted' = accepted + 1 /\ UNCHANGED peerVars
      BY <1>5 DEF Accept
  <2>2. accepted < connected
      BY <1>5, AcceptWaiting
  <2> QED BY <2>1, <2>2 DEF peerVars
<1>6. CASE RecvMessage
    BY <1>6, RecvEffect DEF RecvMessage
<1> QED BY <1>1, <1>2, <1>3, <1>4, <1>5, <1>6
           DEF Next, vars, CenterThread, FlushThread, Tick, OtherUses, epoll_wait, EpollError, AcceptError, Watch,
               RecvNothing, RecvForeign, Message, Shake, clt_param_add_connect_sock, Request, Send,
               HangUp, SockDel, SockUnwatch, SockClose

\* Only Shake marks a connection, and that has asked for it.
LEMMA ShakeStep == CltInv /\ CltTypes /\ [Next]_vars => ShakeInv'
<1> SUFFICES ASSUME CltInv, CltTypes, [Next]_vars PROVE ShakeInv'
    OBVIOUS
<1> USE DEF CltInv, CltTypes, ShakeInv
<1>1. CASE UNCHANGED <<shaken, upgraded>>
    BY <1>1
<1>2. ASSUME NEW c \in Conns, PeerSend(c) PROVE ShakeInv'
    BY <1>2, SendEffect DEF PeerSend
<1>3. CASE Shake
    BY <1>3 DEF Shake, UpgradeInv, peerVars
<1> QED BY <1>1, <1>2, <1>3
           DEF Next, vars, CenterThread, FlushThread, Tick, PeerConnect, PeerLeave, OtherUses, epoll_wait,
               EpollError, Accept, AcceptError, Watch, RecvNothing, RecvMessage, RecvForeign, Message,
               clt_param_add_connect_sock, Request, Send, HangUp, SockDel, SockUnwatch, SockClose, peerVars

LEMMA ListStep == CltInv /\ CltTypes /\ [Next]_vars => ListInv'
<1> SUFFICES ASSUME CltInv, CltTypes, [Next]_vars PROVE ListInv'
    OBVIOUS
<1> USE DEF CltInv, CltTypes, ListInv
<1>1. CASE UNCHANGED listVars
    BY <1>1 DEF listVars
<1>2. CASE Tick
    BY <1>2 DEF Tick
<1>3. CASE clt_param_add_connect_sock
    BY <1>3 DEF clt_param_add_connect_sock, ListWithNewSock, LoopInv
<1>4. ASSUME NEW fd \in Fds, SockDel(fd) PROVE ListInv'
    BY <1>4 DEF SockDel, ListAfterDel
<1> QED BY <1>1, <1>2, <1>3, <1>4
           DEF Next, vars, CenterThread, FlushThread, PeerConnect, PeerSend, PeerLeave, OtherUses,
               epoll_wait, EpollError, Accept, AcceptError, Watch, RecvNothing, RecvMessage, RecvForeign, Message,
               Shake, Request, Send, HangUp, SockUnwatch, SockClose

\* Types of the client manager: what epoll watches is open, connections are
\* accepted at most as often as apps connect, and the handshake is answered
\* only to an app that asked for it (clt_mgr.c:253-259 and 279-288).
THEOREM ClientTypes == Spec => []TypeOK
<1>1. Init => CltTypes
  <2> SUFFICES ASSUME Init PROVE CltTypes
      OBVIOUS
  <2> USE DEF Init
  <2>1. OpenInv /\ PeerInv /\ ShakeInv /\ ListInv
      BY EmptySeq DEF OpenInv, PeerInv, ShakeInv, ListInv
  <2>2. EvInv /\ BatchInv
      BY EmptySeq DEF EvInv, BatchInv, NoEvent
  <2>3. UpgradeInv
      BY EmptySeq DEF UpgradeInv, Contains, NoEvent
  <2> QED BY <2>1, <2>2, <2>3 DEF CltTypes
<1>2. CltInv /\ CltTypes /\ [Next]_vars => CltTypes'
    BY BatchStep, UpgradeStep, EvStep, OpenStep, PeerStep, ShakeStep, ListStep DEF CltTypes
<1>3. CltInv /\ CltTypes => TypeOK
    BY DEF CltInv, CltTypes, TypeOK, LoopInv, FlushInv, OpenInv, PeerInv, ShakeInv, ListInv, EvInv, Events
<1> QED BY <1>1, <1>2, <1>3, CltInvHolds, PTL DEF Spec
=============================================================================
