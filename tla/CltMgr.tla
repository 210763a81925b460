------------------------------- MODULE CltMgr -------------------------------
(***************************************************************************)
(* The client side of the server: project/msc100/src/device_manage/        *)
(* clt_mgr.c and clt_param.c.  clt_thread_center accepts the connections   *)
(* of apps, answers their WebSocket handshake and their requests in an     *)
(* epoll loop; clt_flush_center closes what is older than TCP_TIMEOUT.     *)
(* An accepted socket enters only the epoll set; it enters the list of     *)
(* sockets, which the flush thread looks through, with its handshake.      *)
(*                                                                         *)
(* json_handle_tbl has no entry for heart_beat, so no APP_DEVICE is ever   *)
(* created, clt_param_flush and clt_param_remove find nothing and no node  *)
(* of the list is ever refreshed.  What a request does to the database is  *)
(* the subject of module IdMgr.                                            *)
(*                                                                         *)
(* Descriptors are those of the process: what this component closes may be *)
(* handed to the gateway manager, and conn[fd] is then Other.  The list    *)
(* holds a descriptor at most once (clt_param.c:114) and its order plays   *)
(* no part, so it is a set; adding and deleting a node are atomic.         *)
(***************************************************************************)
EXTENDS Integers, Sequences, FiniteSets, SequencesExt

CONSTANTS Fds,            \* the descriptors that accept may return
          listen,         \* the listening socket
          MaxConns,       \* bound: connections that apps open
          MaxMsgs,        \* bound: messages that apps send
          Cmds,           \* the commands of the requests
          TCP_TIMEOUT,
          MaxAge          \* bound: ages are counted up to here

\* The commands of json_handle_tbl; "unknown" is a message that has another
\* command, or that cannot be decoded or parsed.
Handled == {"get_bind", "bind", "unbind", "get_dev_info"}

ASSUME CltFdAssumption == Fds \subseteq Nat \ {0} /\ IsFiniteSet(Fds) /\ listen \notin Fds
ASSUME CltCmdAssumption == Cmds \subseteq Handled \cup {"unknown"}
ASSUME CltBoundAssumption ==
    /\ MaxConns \in Nat /\ MaxMsgs \in Nat
    /\ TCP_TIMEOUT \in Nat \ {0} /\ MaxAge \in Nat /\ MaxAge >= TCP_TIMEOUT

VARIABLES conn, watched,          \* the descriptor table; the epoll set
          connected, accepted,    \* connections made by apps, accepted so far
          input, peer, msgLeft,   \* per connection: unread messages, state of the app
          upgraded, shaken,       \* handshake requested, handshake answered
          sock_fd_head, age,      \* the listed descriptors, seconds since they were
          events, pc, ev,         \* clt_thread_center
          flushPc, flushFd        \* clt_flush_center

netVars == <<conn, watched>>
peerVars == <<connected, input, peer, msgLeft, upgraded>>
listVars == <<sock_fd_head, age>>
loopVars == <<events, pc, ev>>
flushVars == <<flushPc, flushFd>>
vars == <<netVars, peerVars, accepted, shaken, listVars, loopVars, flushVars>>

Conns == 1 .. MaxConns
Other == -1                       \* a connection of the gateway manager
Msgs == {"upgrade", "unknown"} \cup Cmds
NoEvent == [fd |-> 0, c |-> 0, got |-> <<>>, hup |-> FALSE, asked |-> FALSE, sent |-> FALSE]

Init ==
    /\ conn = [fd \in Fds |-> 0] /\ watched = {}
    /\ connected = 0 /\ accepted = 0
    /\ input = [c \in Conns |-> <<>>] /\ peer = [c \in Conns |-> "up"] /\ msgLeft = MaxMsgs
    /\ upgraded = {} /\ shaken = {}
    /\ sock_fd_head = {} /\ age = [fd \in Fds |-> 0]
    /\ events = <<>> /\ pc = "wait" /\ ev = NoEvent
    /\ flushPc = "sock" /\ flushFd = 0

-----------------------------------------------------------------------------
(* Time, the apps, and the rest of the process.                            *)

Tick ==
    /\ age' = [fd \in Fds |-> IF fd \in sock_fd_head /\ age[fd] < MaxAge THEN age[fd] + 1 ELSE age[fd]]
    /\ age' # age
    /\ UNCHANGED <<netVars, peerVars, accepted, shaken, sock_fd_head, loopVars, flushVars>>

PeerConnect ==
    /\ connected < MaxConns
    /\ connected' = connected + 1
    /\ UNCHANGED <<netVars, input, peer, msgLeft, upgraded, accepted, shaken, listVars, loopVars, flushVars>>

\* An app asks for the handshake once and sends requests once it is answered.
\* The handshake request arrives in one piece.
PeerSend(c) ==
    /\ c <= connected /\ peer[c] = "up"
    /\ msgLeft > 0 /\ msgLeft' = msgLeft - 1
    /\ \E m \in Msgs :
          /\ m = "upgrade" => c \notin upgraded
          /\ m \in Handled => c \in shaken
          /\ input' = [input EXCEPT ![c] = Append(@, m)]
          /\ upgraded' = (IF m = "upgrade" THEN upgraded \cup {c} ELSE upgraded)
    /\ UNCHANGED <<netVars, connected, peer, accepted, shaken, listVars, loopVars, flushVars>>

\* An app closes ("fin"), or is gone with an error on the socket ("reset").
PeerLeave(c) ==
    /\ c <= connected /\ peer[c] = "up"
    /\ \E how \in {"fin", "reset"} : peer' = [peer EXCEPT ![c] = how]
    /\ UNCHANGED <<netVars, connected, input, msgLeft, upgraded, accepted, shaken, listVars, loopVars, flushVars>>

\* The gateway manager gets a free descriptor, or closes one of its own.
OtherUses(fd) ==
    /\ \/ conn[fd] = 0 /\ conn' = [conn EXCEPT ![fd] = Other]
       \/ conn[fd] = Other /\ conn' = [conn EXCEPT ![fd] = 0]
    /\ watched' = watched \ {fd}
    /\ UNCHANGED <<peerVars, accepted, shaken, listVars, loopVars, flushVars>>

-----------------------------------------------------------------------------
(* clt_thread_center: the epoll loop.                                      *)

\* The kernel closes fd and takes it out of the epoll set; closing a closed
\* descriptor is an error without effect.
tcp_close(fd) ==
    /\ conn' = [conn EXCEPT ![fd] = 0]
    /\ watched' = watched \ {fd}

Ready ==
    {fd \in watched : conn[fd] \in Conns /\ (input[conn[fd]] # <<>> \/ peer[conn[fd]] # "up")}
        \cup (IF accepted < connected THEN {listen} ELSE {})

\* Sockets of the gateway manager that got into the epoll set (see Watch).
Foreign == {fd \in watched : conn[fd] = Other}

EventOf(fd) == [fd |-> fd, hup |-> fd \in Fds \ Foreign /\ peer[conn[fd]] = "reset"]

epoll_wait ==
    /\ pc = "wait"
    /\ \E more \in SUBSET Foreign : \E order \in SetToSeqs(Ready \cup more) :
          /\ order # <<>>
          /\ events' = [k \in DOMAIN order |-> EventOf(order[k])]
    /\ pc' = "event"
    /\ UNCHANGED <<netVars, peerVars, accepted, shaken, listVars, ev, flushVars>>

\* epoll_wait returns -1, a signal being enough: the thread ends for good.
EpollError ==
    /\ pc = "wait" /\ pc' = "ended"
    /\ UNCHANGED <<netVars, peerVars, accepted, shaken, listVars, events, ev, flushVars>>

\* The for loop goes on to the next event.
NextEvent ==
    /\ events' = Tail(events)
    /\ pc' = (IF Len(events) = 1 THEN "wait" ELSE "event")
    /\ ev' = NoEvent

Accept ==
    /\ pc = "event" /\ Head(events).fd = listen
    /\ accepted' = accepted + 1
    /\ \E fd \in Fds :
          /\ conn[fd] = 0
          /\ conn' = [conn EXCEPT ![fd] = accepted + 1]
          /\ ev' = [NoEvent EXCEPT !.fd = fd, !.c = accepted + 1]
    /\ pc' = "watch"
    /\ UNCHANGED <<watched, peerVars, shaken, listVars, events, flushVars>>

\* accept fails when no descriptor is left.
AcceptError ==
    /\ pc = "event" /\ Head(events).fd = listen
    /\ \A fd \in Fds : conn[fd] # 0
    /\ NextEvent
    /\ UNCHANGED <<netVars, peerVars, accepted, shaken, listVars, flushVars>>

\* EPOLL_CTL_ADD fails if a flush of the same number has closed the new
\* connection in the meantime; it takes whatever has got the number since.
WatchedWithNew == IF conn[ev.fd] = 0 THEN watched ELSE watched \cup {ev.fd}

Watch ==
    /\ pc = "watch"
    /\ watched' = WatchedWithNew
    /\ NextEvent
    /\ UNCHANGED <<conn, peerVars, accepted, shaken, listVars, flushVars>>

\* recv returns 0 or an error: the app has left, or there is nothing to read,
\* or the descriptor is closed.
RecvNothing ==
    /\ pc = "event" /\ Head(events).fd # listen
    /\ LET fd == Head(events).fd IN
          /\ conn[fd] \in Conns => input[conn[fd]] = <<>>
          /\ tcp_close(fd)
    /\ NextEvent
    /\ UNCHANGED <<peerVars, accepted, shaken, listVars, flushVars>>

\* recv takes messages off the connection, as many as fit into the buffer.
RecvMessage ==
    /\ pc = "event" /\ Head(events).fd # listen
    /\ LET fd == Head(events).fd
           c == conn[fd]
       IN /\ c \in Conns
          /\ \E n \in 1 .. Len(input[c]) :
                /\ ev' = [NoEvent EXCEPT !.fd = fd, !.c = c, !.hup = Head(events).hup,
                                         !.got = SubSeq(input[c], 1, n)]
                /\ input' = [input EXCEPT ![c] = SubSeq(@, n + 1, Len(@))]
    /\ pc' = "message"
    /\ UNCHANGED <<netVars, connected, peer, msgLeft, upgraded, accepted, shaken, listVars, events, flushVars>>

\* recv takes a message of the gateway manager, which is neither a handshake
\* nor a frame: its socket is watched, or the event is older than it.
RecvForeign ==
    /\ pc = "event" /\ Head(events).fd # listen
    /\ conn[Head(events).fd] = Other
    /\ ev' = [NoEvent EXCEPT !.fd = Head(events).fd, !.hup = Head(events).hup]
    /\ pc' = "hup"
    /\ UNCHANGED <<netVars, peerVars, accepted, shaken, listVars, events, flushVars>>

clt_param_sock_fd_is_exist(fd) == fd \in sock_fd_head

AnyText(got) == TRUE

\* ws_calculate_accept_key finds the key of a handshake request in the text.
HasKey(got) == Contains(got, "upgrade")

\* json_msg_clt_msg: the handler of the command calls json_msg_fn.
Dispatch(m) == IF m \in Handled THEN "request" ELSE "hup"

\* A listed socket carries frames, and only the first of them is decoded; a
\* handshake request is no frame.  Any other socket carries text, which is
\* searched for a handshake key.
Message ==
    /\ pc = "message"
    /\ pc' = (IF clt_param_sock_fd_is_exist(ev.fd) THEN Dispatch(Head(ev.got))
              ELSE IF HasKey(ev.got) THEN "shake" ELSE "hup")
    /\ UNCHANGED <<netVars, peerVars, accepted, shaken, listVars, events, ev, flushVars>>

\* tcp_send(fd, ...) reaches the connection c.
Reaches(fd, c) == conn[fd] = c

\* The answer with the accept key is sent.
Shake ==
    /\ pc = "shake"
    /\ shaken' = (IF Reaches(ev.fd, ev.c) THEN shaken \cup {ev.c} ELSE shaken)
    /\ pc' = "add"
    /\ UNCHANGED <<netVars, peerVars, accepted, listVars, events, ev, flushVars>>

AddNothing == sock_fd_head

ListWithNewSock == sock_fd_head \cup {ev.fd}

clt_param_add_connect_sock ==
    /\ pc = "add"
    /\ sock_fd_head' = ListWithNewSock
    /\ age' = (IF clt_param_sock_fd_is_exist(ev.fd) THEN age ELSE [age EXCEPT ![ev.fd] = 0])
    /\ pc' = "hup"
    /\ UNCHANGED <<netVars, peerVars, accepted, shaken, events, ev, flushVars>>

AnswerClosed == ~clt_param_sock_fd_is_exist(ev.fd)

AnswerAllowed == clt_param_sock_fd_is_exist(ev.fd)

\* json_msg_fn: the request is carried out, and answered if its socket is
\* still in the list.
Request ==
    /\ pc = "request"
    /\ ev' = [ev EXCEPT !.asked = TRUE]
    /\ pc' = (IF AnswerAllowed THEN "send" ELSE "hup")
    /\ UNCHANGED <<netVars, peerVars, accepted, shaken, listVars, events, flushVars>>

Send ==
    /\ pc = "send"
    /\ ev' = [ev EXCEPT !.sent = Reaches(ev.fd, ev.c)]
    /\ pc' = "hup"
    /\ UNCHANGED <<netVars, peerVars, accepted, shaken, listVars, events, flushVars>>

\* EPOLLERR or EPOLLHUP came with the same event.
HangUp ==
    /\ pc = "hup"
    /\ IF ev.hup THEN tcp_close(ev.fd) ELSE UNCHANGED netVars
    /\ NextEvent
    /\ UNCHANGED <<peerVars, accepted, shaken, listVars, flushVars>>

CenterThread ==
    \/ epoll_wait \/ Accept \/ AcceptError \/ Watch \/ RecvNothing \/ RecvMessage \/ RecvForeign
    \/ Message \/ Shake \/ clt_param_add_connect_sock \/ Request \/ Send \/ HangUp

-----------------------------------------------------------------------------
(* clt_flush_center: clt_param_sock_fd_flush.                              *)

Expired(fd) == age[fd] >= TCP_TIMEOUT

\* list_del, without the mutex.
ListAfterDel(fd) == sock_fd_head \ {fd}

SockDel(fd) ==
    /\ flushPc = "sock"
    /\ clt_param_sock_fd_is_exist(fd) /\ Expired(fd)
    /\ sock_fd_head' = ListAfterDel(fd)
    /\ flushFd' = fd /\ flushPc' = "sockcb"
    /\ UNCHANGED <<netVars, peerVars, accepted, shaken, age, loopVars>>

\* sock_exit_fn, first half: EPOLL_CTL_DEL.
SockUnwatch ==
    /\ flushPc = "sockcb"
    /\ watched' = watched \ {flushFd}
    /\ flushPc' = "sockclose"
    /\ UNCHANGED <<conn, peerVars, accepted, shaken, listVars, loopVars, flushFd>>

ExitNoClose(fd) == UNCHANGED netVars

\* sock_exit_fn, second half.
ExitClose(fd) == tcp_close(fd)

SockClose ==
    /\ flushPc = "sockclose"
    /\ ExitClose(flushFd)
    /\ flushPc' = "sock" /\ flushFd' = 0
    /\ UNCHANGED <<peerVars, accepted, shaken, listVars, loopVars>>

FlushThread == (\E fd \in Fds : SockDel(fd)) \/ SockUnwatch \/ SockClose

Next ==
    \/ Tick \/ PeerConnect \/ (\E c \in Conns : PeerSend(c) \/ PeerLeave(c))
    \/ (\E fd \in Fds : OtherUses(fd))
    \/ CenterThread \/ EpollError \/ FlushThread

Spec == Init /\ [][Next]_vars

(***************************************************************************)
(* Both threads run, the loop until epoll_wait fails, which it need not;   *)
(* time goes on, and a flush pass looks at every node.  The apps and the   *)
(* gateway manager owe nothing.                                            *)
(***************************************************************************)
FairSpec ==
    /\ Spec
    /\ WF_vars(Tick) /\ SF_vars(CenterThread) /\ WF_vars(FlushThread)
    /\ \A fd \in Fds : SF_vars(SockDel(fd))

-----------------------------------------------------------------------------
(* Properties                                                              *)

\* Type invariant of the descriptors and of both threads: what is watched is
\* open.
TypeOK ==
    /\ conn \in [Fds -> Conns \cup {0, Other}]
    /\ watched \subseteq {fd \in Fds : conn[fd] # 0}
    /\ connected \in 0 .. MaxConns /\ accepted \in 0 .. connected /\ msgLeft \in 0 .. MaxMsgs
    /\ input \in [Conns -> Seq(Msgs)] /\ peer \in [Conns -> {"up", "fin", "reset"}]
    /\ shaken \subseteq upgraded /\ upgraded \subseteq 1 .. connected
    /\ sock_fd_head \subseteq Fds /\ age \in [Fds -> 0 .. MaxAge]
    /\ events \in Seq([fd : Fds \cup {listen}, hup : BOOLEAN])
    /\ ev.fd \in Fds \cup {0} /\ ev.c \in 0 .. MaxConns /\ ev.got \in Seq(Msgs)
    /\ flushFd \in Fds \cup {0} /\ (flushFd = 0 <=> flushPc = "sock")

\* A connection whose handshake is answered is in the list, or about to enter
\* it, or about to be closed by the flush thread: no client outlives its
\* timeout unseen (clt_mgr.c:284-286 against clt_param.c:312-317).
ShakenIsTracked ==
    \A fd \in Fds :
        conn[fd] \in shaken => \/ clt_param_sock_fd_is_exist(fd)
                               \/ pc = "add" /\ ev.fd = fd
                               \/ flushFd = fd

\* When the loop is done with a request, its answer has been sent on the
\* connection it came from, unless that is closed or about to be closed by
\* the flush thread (clt_mgr.c:386-393, 439-446, 477-484 and 501-508).
AnswerIsSent ==
    (pc = "hup" /\ ev.asked /\ conn[ev.fd] = ev.c) => ev.sent \/ flushFd = ev.fd

OpenConns == {conn[fd] : fd \in Fds} \cap Conns

\* A connection that asks for the handshake does not stay open for ever: it is
\* answered, listed and timed out, also when a number left in the list by an
\* earlier connection makes the server take the request for a frame
\* (clt_mgr.c:273-287 and clt_param.c:299-323).  Only when epoll_wait has ended
\* the loop (clt_mgr.c:222-226) may it stay, as it is in no list yet.
UpgradeIsClosed ==
    \A c \in Conns :
        (c \in OpenConns /\ Contains(input[c], "upgrade")) ~> (c \notin OpenConns \/ pc = "ended")
=============================================================================
