---------------------------- MODULE LogQueueProofs ----------------------------
(***************************************************************************)
(* Proofs about the message path of the log daemon, for every length of    *)
(* the ring, every set of messages and every size of the System V queue.   *)
(***************************************************************************)
EXTENDS LogQueue, TLAPS

\* The mutex is held by the thread that is between its lock and its unlock.
LockInv ==
    /\ recvPc \in {"push", "advance", "unlock"} <=> pqueue_mutex = "recv"
    /\ writePc \in {"pop", "advance", "unlock"} <=> pqueue_mutex = "write"

\* The indices of the ring agree with the number of messages in it.
IndexInv ==
    /\ tail = SlotAt(head, iMsgLen)
    /\ (full = 1) <=> (iMsgLen = LOG_CMD_BUF_LEN)

\* What the two halves of msg_push and msg_pop may rely on.
HalfInv ==
    /\ recvPc = "advance" => iMsgLen < LOG_CMD_BUF_LEN /\ pLogBuf[tail] = recvMsg
    /\ recvPc # "recv" => recvMsg \in Msg
    /\ writePc \in {"lock", "pop"} => stIotBuf = NoMsg

\* The inductive invariant: what makes the type and the count inductive.
CountInv == TypeOK /\ LockInv /\ IndexInv /\ HalfInv /\ SemCountsQueue

LEMMA InitCountInv == Init => CountInv
<1> SUFFICES ASSUME Init PROVE CountInv
  OBVIOUS
<1> USE BufLenAssumption, KernelAssumption
<1>1. TypeOK
  BY DEF Init, TypeOK, Slots, RecvStates, WriteStates
<1>2. LockInv /\ HalfInv
  BY DEF Init, LockInv, HalfInv
<1>3. IndexInv /\ SemCountsQueue
  BY DEF Init, IndexInv, SemCountsQueue, SlotAt, PostPending, TokenHeld, OneIf
<1>4. QED
  BY <1>1, <1>2, <1>3 DEF CountInv

LEMMA NextCountInv == CountInv /\ [Next]_vars => CountInv'
<1> SUFFICES ASSUME CountInv, [Next]_vars PROVE CountInv'
  OBVIOUS
<1> USE BufLenAssumption, KernelAssumption, NoMsgAssumption
<1> USE DEF CountInv, TypeOK, LockInv, IndexInv, HalfInv, SemCountsQueue,
            PostPending, TokenHeld, OneIf, SlotAt, NextIndex, Slots, RecvStates, WriteStates,
            ringVars, recvVars, writeVars
<1>1. CASE \E m \in Msg : debug_send(m)
  BY <1>1 DEF debug_send, QueueAfterSend
<1>2. CASE msg_recv_log_wait
  BY <1>2 DEF msg_recv_log_wait
<1>3. CASE RecvLock
  BY <1>3 DEF RecvLock
<1>4. CASE PushReject
  BY <1>4 DEF PushReject, PushRefused
<1>5. CASE PushStore
  BY <1>5 DEF PushStore, PushRefused
<1>6. CASE PushAdvance
  BY <1>6 DEF PushAdvance
<1>7. CASE RecvUnlock
  BY <1>7 DEF RecvUnlock, AfterPush
<1>8. CASE RecvPost
  BY <1>8 DEF RecvPost
<1>9. CASE WriterWait
  BY <1>9 DEF WriterWait
<1>10. CASE WriterLock
  BY <1>10 DEF WriterLock
<1>11. CASE PopTake
  BY <1>11 DEF PopTake
<1>12. CASE PopAdvance
  BY <1>12 DEF PopAdvance
<1>13. CASE WriterUnlock
  BY <1>13 DEF WriterUnlock
<1>14. CASE WriterFile
  <2>1. CASE OpenFirst
    BY <2>1 DEF OpenFirst, WriterGoto
  <2>2. CASE WriteOk
    BY <2>2 DEF WriteOk, WriterGoto
  <2>3. CASE WriteFail
    BY <2>3 DEF WriteFail, WriterGoto
  <2>4. CASE CheckKeep
    BY <2>4 DEF CheckKeep, WriterGoto
  <2>5. CASE CheckRotate
    BY <2>5 DEF CheckRotate, WriterGoto
  <2>6. CASE CloseFile
    BY <2>6 DEF CloseFile, WriterGoto
  <2>7. CASE Reopen
    BY <2>7 DEF Reopen, WriterGoto
  <2>8. CASE Reopened
    BY <2>8 DEF Reopened, WriterGoto
  <2>9. QED
    BY <1>14, <2>1, <2>2, <2>3, <2>4, <2>5, <2>6, <2>7, <2>8 DEF WriterFile
<1>15. CASE UNCHANGED vars
  BY <1>15 DEF vars
<1>16. QED
  BY <1>1, <1>2, <1>3, <1>4, <1>5, <1>6, <1>7, <1>8, <1>9, <1>10, <1>11, <1>12, <1>13,
     <1>14, <1>15 DEF Next, RecvThread, WriterQueue

\* Type correctness of the daemon's message path.
THEOREM TypeCorrect == Spec => []TypeOK
<1>1. CountInv => TypeOK
  BY DEF CountInv
<1>2. QED
  BY <1>1, InitCountInv, NextCountInv, PTL DEF Spec

\* The semaphore counts the queued messages, whatever the threads do.
THEOREM SemaphoreCorrect == Spec => []SemCountsQueue
<1>1. CountInv => SemCountsQueue
  BY DEF CountInv
<1>2. QED
  BY <1>1, InitCountInv, NextCountInv, PTL DEF Spec

\* msg_pop always finds a message after sem_wait.
THEOREM PopCorrect == Spec => []PopFindsMessage
<1>1. CountInv => PopFindsMessage
  BY DEF CountInv, TypeOK, SemCountsQueue, PopFindsMessage, PostPending, TokenHeld, OneIf
<1>2. QED
  BY <1>1, InitCountInv, NextCountInv, PTL DEF Spec

-----------------------------------------------------------------------------
(***************************************************************************)
(* The content of the ring.                                                *)
(***************************************************************************)

\* Every slot in use holds a message, except the first one while msg_pop is
\* between clearing it and moving head.
FillInv ==
    \A i \in 0 .. iMsgLen - 1 :
        pLogBuf[SlotAt(head, i)] \in Msg \/ (i = 0 /\ writePc = "advance")

RingInv == CountInv /\ FillInv

LEMMA InitRingInv == Init => RingInv
BY InitCountInv DEF Init, RingInv, FillInv

LEMMA NextRingInv == RingInv /\ [Next]_vars => RingInv'
<1> SUFFICES ASSUME RingInv, [Next]_vars PROVE FillInv'
  BY NextCountInv DEF RingInv
<1> USE BufLenAssumption
<1>0. CountInv /\ FillInv
  BY DEF RingInv
<1> USE DEF CountInv, ringVars, recvVars, writeVars
<1>1. CASE \/ \E m \in Msg : debug_send(m)
           \/ msg_recv_log_wait \/ RecvLock \/ PushReject \/ RecvUnlock \/ RecvPost
           \/ UNCHANGED vars
  BY <1>0, <1>1 DEF FillInv, SlotAt, debug_send, msg_recv_log_wait, RecvLock, PushReject, RecvUnlock, RecvPost, vars
<1>2. CASE PushStore
  <2>1. /\ iMsgLen < LOG_CMD_BUF_LEN /\ writePc # "advance"
        /\ pLogBuf' = [pLogBuf EXCEPT ![tail] = recvMsg]
        /\ UNCHANGED <<head, iMsgLen, writePc>>
    BY <1>0, <1>2 DEF PushStore, PushRefused, TypeOK, LockInv, IndexInv
  <2>2. ASSUME NEW i \in 0 .. iMsgLen - 1 PROVE pLogBuf'[SlotAt(head, i)] \in Msg
    <3>1. SlotAt(head, i) \in Slots /\ SlotAt(head, i) # tail
      BY <1>0, <2>1 DEF TypeOK, IndexInv, SlotAt, Slots
    <3>2. pLogBuf[SlotAt(head, i)] \in Msg
      BY <1>0, <2>1 DEF FillInv
    <3>3. QED
      BY <1>0, <2>1, <3>1, <3>2 DEF TypeOK
  <2>3. QED
    BY <2>1, <2>2 DEF FillInv, SlotAt
<1>3. CASE PushAdvance
  <2>1. /\ iMsgLen' = iMsgLen + 1 /\ writePc # "advance"
        /\ UNCHANGED <<pLogBuf, head, writePc>>
        /\ pLogBuf[SlotAt(head, iMsgLen)] \in Msg
    BY <1>0, <1>3 DEF PushAdvance, LockInv, IndexInv, HalfInv
  <2>2. ASSUME NEW i \in 0 .. iMsgLen PROVE pLogBuf[SlotAt(head, i)] \in Msg
    <3>1. CASE i = iMsgLen
      BY <2>1, <3>1
    <3>2. CASE i # iMsgLen
      <4>1. i \in 0 .. iMsgLen - 1
        BY <1>0, <3>2 DEF TypeOK
      <4>2. QED
        BY <1>0, <2>1, <4>1 DEF FillInv
    <3>3. QED
      BY <3>1, <3>2
  <2>3. ASSUME NEW i \in 0 .. iMsgLen' - 1 PROVE pLogBuf'[SlotAt(head, i)'] \in Msg
    <3>1. i \in 0 .. iMsgLen
      BY <1>0, <2>1 DEF TypeOK
    <3>2. SlotAt(head, i)' = SlotAt(head, i)
      BY <2>1 DEF SlotAt
    <3>3. QED
      BY <2>1, <2>2, <3>1, <3>2
  <2>4. QED
    BY <2>3 DEF FillInv
<1>4. CASE WriterWait \/ WriterLock \/ WriterUnlock
  BY <1>0, <1>4 DEF WriterWait, WriterLock, WriterUnlock, FillInv, SlotAt
<1>5. CASE PopTake
  <2>1. /\ iMsgLen' = iMsgLen /\ head' = head /\ head \in Slots
        /\ iMsgLen \in 0 .. LOG_CMD_BUF_LEN /\ writePc # "advance"
        /\ pLogBuf \in [Slots -> Msg \cup {NoMsg}]
    BY <1>0, <1>5 DEF PopTake, TypeOK
  <2>2. CASE iMsgLen = 0
    BY <2>1, <2>2 DEF FillInv
  <2>3. CASE iMsgLen # 0
    <3>1. writePc' = "advance" /\ pLogBuf' = [pLogBuf EXCEPT ![head] = NoMsg]
      BY <1>5, <2>3 DEF PopTake
    <3>2. ASSUME NEW i \in 1 .. iMsgLen - 1 PROVE pLogBuf'[SlotAt(head, i)] \in Msg
      <4>1. SlotAt(head, i) \in Slots /\ SlotAt(head, i) # head
        BY <2>1 DEF SlotAt, Slots
      <4>2. pLogBuf[SlotAt(head, i)] \in Msg
        BY <1>0, <2>1 DEF FillInv
      <4>3. QED
        BY <2>1, <3>1, <4>1, <4>2
    <3>3. QED
      BY <2>1, <3>1, <3>2 DEF FillInv, SlotAt
  <2>4. QED
    BY <2>2, <2>3
<1>6. CASE PopAdvance
  <2>1. /\ head' = NextIndex(head) /\ iMsgLen' = iMsgLen - 1 /\ pLogBuf' = pLogBuf
        /\ head \in Slots /\ iMsgLen \in 0 .. LOG_CMD_BUF_LEN
    BY <1>0, <1>6 DEF PopAdvance, TypeOK
  <2>2. ASSUME NEW i \in 0 .. iMsgLen' - 1 PROVE pLogBuf'[SlotAt(head, i)'] \in Msg
    <3>1. SlotAt(head, i)' = SlotAt(head, i + 1) /\ i + 1 \in 1 .. iMsgLen - 1
      BY <2>1 DEF SlotAt, NextIndex, Slots
    <3>2. pLogBuf[SlotAt(head, i + 1)] \in Msg
      BY <1>0, <3>1 DEF FillInv
    <3>3. QED
      BY <2>1, <3>1, <3>2
  <2>3. QED
    BY <2>2 DEF FillInv
<1>7. CASE WriterFile
  BY <1>0, <1>7 DEF WriterFile, OpenFirst, WriteOk, WriteFail, CheckKeep, CheckRotate,
               CloseFile, Reopen, Reopened, WriterGoto, FillInv, SlotAt
<1>8. QED
  BY <1>1, <1>2, <1>3, <1>4, <1>5, <1>6, <1>7 DEF Next, RecvThread, WriterQueue

\* msg_push refuses a message only when every slot is in use.
THEOREM RejectCorrect == Spec => RejectOnlyWhenFull
<1>1. RingInv /\ [Next]_vars =>
        [PushReject => /\ iMsgLen = LOG_CMD_BUF_LEN
                       /\ \A s \in Slots : pLogBuf[s] # NoMsg]_vars
  <2> SUFFICES ASSUME RingInv, PushReject
               PROVE  /\ iMsgLen = LOG_CMD_BUF_LEN
                      /\ \A s \in Slots : pLogBuf[s] # NoMsg
    OBVIOUS
  <2> USE BufLenAssumption, NoMsgAssumption
  <2>1. iMsgLen = LOG_CMD_BUF_LEN /\ writePc # "advance"
    BY DEF RingInv, CountInv, TypeOK, IndexInv, LockInv, PushReject, PushRefused
  <2>2. ASSUME NEW s \in Slots PROVE pLogBuf[s] # NoMsg
    <3>1. \E i \in 0 .. iMsgLen - 1 : s = SlotAt(head, i)
      <4> DEFINE i == IF s >= head THEN s - head ELSE s - head + LOG_CMD_BUF_LEN
      <4>1. i \in 0 .. iMsgLen - 1 /\ s = SlotAt(head, i)
        BY <2>1 DEF RingInv, CountInv, TypeOK, Slots, SlotAt
      <4>2. QED
        BY <4>1
    <3>2. QED
      BY <2>1, <3>1 DEF RingInv, FillInv
  <2>3. QED
    BY <2>1, <2>2
<1>2. QED
  BY <1>1, InitRingInv, NextRingInv, PTL DEF Spec, RejectOnlyWhenFull

-----------------------------------------------------------------------------
(***************************************************************************)
(* The ring implements the FIFO queue of LogFifo: every step is a Put, a   *)
(* Take, a Finish or leaves the abstract queue alone.                      *)
(***************************************************************************)

LEMMA InitFifo == Init => Fifo!FifoInit
BY DEF Init, Fifo!FifoInit, Queued

\* The queue is unchanged by a step that leaves the ring and the writer's
\* place in msg_pop alone.
LEMMA QueuedUnchanged ==
    ASSUME UNCHANGED ringVars, (writePc = "advance") <=> (writePc' = "advance")
    PROVE  Queued' = Queued
BY DEF Queued, SlotAt, ringVars

LEMMA NextFifo == RingInv /\ RingInv' /\ [Next]_vars => [Fifo!FifoNext]_(Fifo!fifoVars)
<1> SUFFICES ASSUME RingInv, RingInv', [Next]_vars
             PROVE  Fifo!FifoNext \/ UNCHANGED <<Queued, stIotBuf>>
  BY DEF Fifo!fifoVars
<1> USE BufLenAssumption, NoMsgAssumption
<1>0. CountInv /\ FillInv /\ TypeOK'
  BY DEF RingInv, CountInv
<1>1. CASE \/ \E m \in Msg : debug_send(m)
           \/ msg_recv_log_wait \/ RecvLock \/ PushReject \/ RecvUnlock \/ RecvPost
           \/ UNCHANGED vars
  BY <1>1, QueuedUnchanged DEF debug_send, msg_recv_log_wait, RecvLock, PushReject, RecvUnlock,
                              RecvPost, vars, ringVars, writeVars
<1>2. CASE PushStore
  <2>1. /\ iMsgLen < LOG_CMD_BUF_LEN /\ writePc # "advance" /\ writePc' # "advance"
        /\ pLogBuf' = [pLogBuf EXCEPT ![tail] = recvMsg]
        /\ UNCHANGED <<head, iMsgLen, stIotBuf>>
    BY <1>0, <1>2 DEF PushStore, PushRefused, CountInv, TypeOK, LockInv, IndexInv, writeVars
  <2>2. ASSUME NEW i \in 1 .. iMsgLen
        PROVE  pLogBuf'[SlotAt(head, i - 1)] = pLogBuf[SlotAt(head, i - 1)]
    BY <1>0, <2>1 DEF CountInv, TypeOK, IndexInv, SlotAt, Slots
  <2>3. Queued' = Queued
    BY <2>1, <2>2 DEF Queued, SlotAt
  <2>4. QED
    BY <2>1, <2>3
<1>3. CASE PushAdvance
  <2>1. /\ iMsgLen < LOG_CMD_BUF_LEN /\ iMsgLen' = iMsgLen + 1
        /\ writePc # "advance" /\ writePc' # "advance"
        /\ UNCHANGED <<pLogBuf, head, stIotBuf>>
        /\ pLogBuf[SlotAt(head, iMsgLen)] = recvMsg /\ recvMsg \in Msg
        /\ iMsgLen \in Nat
    BY <1>0, <1>3 DEF PushAdvance, CountInv, TypeOK, LockInv, HalfInv, IndexInv, writeVars
  <2>2. Queued = [i \in 1 .. iMsgLen |-> pLogBuf[SlotAt(head, i - 1)]]
    BY <2>1 DEF Queued
  <2>3. Queued' = [i \in 1 .. iMsgLen + 1 |-> pLogBuf[SlotAt(head, i - 1)]]
    BY <2>1 DEF Queued, SlotAt
  <2>4. Queued \in Seq(Msg) /\ Len(Queued) = iMsgLen
    BY <1>0, <2>1, <2>2 DEF FillInv
  <2>5. Queued' = Append(Queued, recvMsg)
    BY <2>1, <2>2, <2>3, <2>4
  <2>6. QED
    BY <2>1, <2>4, <2>5 DEF Fifo!FifoNext, Fifo!Put
<1>4. CASE WriterWait
  <2>1. Queued' = Queued /\ stIotBuf' = NoMsg
    BY <1>4, QueuedUnchanged DEF WriterWait
  <2>2. QED
    BY <2>1 DEF Fifo!FifoNext, Fifo!Finish
<1>5. CASE WriterLock \/ WriterUnlock
  BY <1>5, QueuedUnchanged DEF WriterLock, WriterUnlock
<1>6. CASE PopTake
  <2>1. /\ iMsgLen > 0 /\ iMsgLen \in Nat /\ iMsgLen <= LOG_CMD_BUF_LEN /\ head \in Slots
        /\ writePc = "pop" /\ writePc' = "advance"
        /\ stIotBuf = NoMsg /\ stIotBuf' = pLogBuf[head]
        /\ pLogBuf' = [pLogBuf EXCEPT ![head] = NoMsg]
        /\ pLogBuf \in [Slots -> Msg \cup {NoMsg}]
        /\ UNCHANGED <<head, iMsgLen>>
    BY <1>0, <1>6 DEF PopTake, CountInv, TypeOK, HalfInv, SemCountsQueue, PostPending,
                     TokenHeld, OneIf
  <2>2. Queued = [i \in 1 .. iMsgLen |-> pLogBuf[SlotAt(head, i - 1)]]
    BY <2>1 DEF Queued
  <2>3. Queued \in Seq(Msg) /\ Len(Queued) = iMsgLen
    BY <1>0, <2>1, <2>2 DEF FillInv
  <2>4. Queued' = [i \in 1 .. iMsgLen - 1 |-> pLogBuf[SlotAt(head, i)]]
    <3>1. ASSUME NEW i \in 1 .. iMsgLen - 1
          PROVE  pLogBuf'[SlotAt(head, i)] = pLogBuf[SlotAt(head, i)]
      BY <2>1 DEF SlotAt, Slots
    <3>2. QED
      BY <2>1, <3>1 DEF Queued, SlotAt
  <2>5. Queued' = Tail(Queued)
    BY <2>1, <2>2, <2>3, <2>4
  <2>6. Head(Queued) = pLogBuf[head] /\ Queued # <<>>
    BY <2>1, <2>2, <2>3 DEF SlotAt, Slots
  <2>7. QED
    BY <2>1, <2>5, <2>6 DEF Fifo!FifoNext, Fifo!Take
<1>7. CASE PopAdvance
  <2>1. /\ writePc = "advance" /\ writePc' # "advance"
        /\ head' = NextIndex(head) /\ iMsgLen' = iMsgLen - 1
        /\ iMsgLen \in 1 .. LOG_CMD_BUF_LEN /\ head \in Slots
        /\ UNCHANGED <<pLogBuf, stIotBuf>>
    BY <1>0, <1>7 DEF PopAdvance, CountInv, TypeOK, SemCountsQueue, PostPending, TokenHeld, OneIf
  <2>2. ASSUME NEW i \in 1 .. iMsgLen - 1
        PROVE  SlotAt(head', i - 1) = SlotAt(head, i)
    BY <2>1 DEF SlotAt, NextIndex, Slots
  <2>3. Queued' = Queued
    BY <2>1, <2>2 DEF Queued, SlotAt
  <2>4. QED
    BY <2>1, <2>3
<1>8. CASE WriterFile
  BY <1>8, QueuedUnchanged DEF WriterFile, OpenFirst, WriteOk, WriteFail, CheckKeep,
        CheckRotate, CloseFile, Reopen, Reopened, WriterGoto
<1>9. QED
  BY <1>1, <1>2, <1>3, <1>4, <1>5, <1>6, <1>7, <1>8 DEF Next, RecvThread, WriterQueue

\* The ring of log.c implements a bounded FIFO queue: no accepted message is
\* lost, duplicated or reordered on its way to the writer thread.
THEOREM RingImplementsFifo == Spec => ImplementsFifo
<1>1. QED
  BY InitFifo, NextFifo, InitRingInv, NextRingInv, PTL
  DEF Spec, ImplementsFifo, Fifo!FifoSpec
=============================================================================
