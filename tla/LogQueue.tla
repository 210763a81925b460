------------------------------- MODULE LogQueue -------------------------------
(***************************************************************************)
(* The message path of the log daemon, framework/src/log/log.c:            *)
(*                                                                         *)
(*   debug_send --msgsnd--> System V queue --msgrcv--> log_msg_routine     *)
(*     --msg_push--> ring of LOG_CMD_BUF_LEN slots --msg_pop-->            *)
(*     log_write_file_thread --> log file                                  *)
(*                                                                         *)
(* The ring is shared by the receiver and the writer thread under          *)
(* pqueue_mutex; the semaphore smsg_queue tells the writer that a message  *)
(* was pushed.  msg_push and msg_pop are split where they touch the slot   *)
(* and where they move the indices.  The log file is LogDaemon's subject:  *)
(* here the writer only walks through its states.                          *)
(***************************************************************************)
EXTENDS Naturals, Sequences

CONSTANTS LOG_CMD_BUF_LEN,   \* slots of the ring (log.h:54)
          Msg,               \* the log messages
          NoMsg,             \* a slot that memset cleared
          KernelQueueLen     \* messages the System V queue holds (external)

ASSUME BufLenAssumption == LOG_CMD_BUF_LEN \in Nat \ {0}
ASSUME NoMsgAssumption == NoMsg \notin Msg
ASSUME KernelAssumption == KernelQueueLen \in Nat \ {0}

VARIABLES kernelQueue,       \* the System V queue of IOT_MSG_SQUEUE_DEBUG
          pLogBuf, head, tail, iMsgLen, full,      \* LOG_MSG_QUEUE_S
          pqueue_mutex,      \* "free" or the thread that holds it
          smsg_queue,        \* value of the semaphore
          recvPc, recvMsg, pushRet,                \* log_msg_routine
          writePc, stIotBuf, popRet                \* log_write_file_thread

ringVars == <<pLogBuf, head, tail, iMsgLen, full>>
recvVars == <<recvPc, recvMsg, pushRet>>
writeVars == <<writePc, stIotBuf, popRet>>
vars == <<kernelQueue, ringVars, pqueue_mutex, smsg_queue, recvVars, writeVars>>

Slots == 0 .. LOG_CMD_BUF_LEN - 1
RecvStates == {"recv", "lock", "push", "advance", "unlock", "post"}
WriteStates == {"open", "wait", "lock", "pop", "advance", "unlock", "write",
                "check", "newloop", "reopen", "reopened"}

Init ==
    /\ kernelQueue = <<>>
    /\ pLogBuf = [s \in Slots |-> NoMsg]
    /\ head = 0 /\ tail = 0 /\ iMsgLen = 0 /\ full = 0
    /\ pqueue_mutex = "free"
    /\ smsg_queue = 0
    /\ recvPc = "recv" /\ recvMsg = NoMsg /\ pushRet = 0
    /\ writePc = "open" /\ stIotBuf = NoMsg /\ popRet = 0

(***************************************************************************)
(* Clients.  msgsnd with IPC_NOWAIT: a message that does not fit is lost.  *)
(***************************************************************************)
QueueAfterSend(m) ==
    IF Len(kernelQueue) < KernelQueueLen THEN Append(kernelQueue, m)
                                         ELSE kernelQueue

debug_send(m) ==
    /\ kernelQueue' = QueueAfterSend(m)
    /\ UNCHANGED <<ringVars, pqueue_mutex, smsg_queue, recvVars, writeVars>>

(***************************************************************************)
(* Index arithmetic of msg_push and msg_pop.                               *)
(***************************************************************************)
NextIndexNoWrap(i) == IF i + 1 > LOG_CMD_BUF_LEN THEN 0 ELSE i + 1

NextIndex(i) == IF i + 1 >= LOG_CMD_BUF_LEN THEN 0 ELSE i + 1

(***************************************************************************)
(* log_msg_routine: the receiver thread.                                   *)
(***************************************************************************)
msg_recv_log_wait ==
    /\ recvPc = "recv"
    /\ kernelQueue # <<>>
    /\ recvMsg' = Head(kernelQueue)
    /\ kernelQueue' = Tail(kernelQueue)
    /\ recvPc' = "lock"
    /\ UNCHANGED <<ringVars, pqueue_mutex, smsg_queue, pushRet, writeVars>>

RecvLock ==
    /\ recvPc = "lock"
    /\ pqueue_mutex = "free"
    /\ pqueue_mutex' = "recv"
    /\ recvPc' = "push"
    /\ UNCHANGED <<kernelQueue, ringVars, smsg_queue, recvMsg, pushRet, writeVars>>

PushNeverRefused == FALSE

\* The early returns of msg_push.
PushRefused == full = 1 \/ iMsgLen >= LOG_CMD_BUF_LEN

PushReject ==
    /\ recvPc = "push"
    /\ PushRefused
    /\ pushRet' = 0
    /\ recvPc' = "unlock"
    /\ UNCHANGED <<kernelQueue, ringVars, pqueue_mutex, smsg_queue, recvMsg, writeVars>>

PushStore ==
    /\ recvPc = "push"
    /\ ~PushRefused
    /\ pLogBuf' = [pLogBuf EXCEPT ![tail] = recvMsg]
    /\ recvPc' = "advance"
    /\ UNCHANGED <<kernelQueue, head, tail, iMsgLen, full, pqueue_mutex, smsg_queue,
                   recvMsg, pushRet, writeVars>>

PushAdvance ==
    /\ recvPc = "advance"
    /\ tail' = NextIndex(tail)
    /\ iMsgLen' = iMsgLen + 1
    /\ full' = (IF head = tail' THEN 1 ELSE full)
    /\ pushRet' = 1
    /\ recvPc' = "unlock"
    /\ UNCHANGED <<kernelQueue, pLogBuf, head, pqueue_mutex, smsg_queue, recvMsg, writeVars>>

AlwaysPost == "post"
NeverPost == "recv"

\* "if (ret)" after the unlock: only an accepted message is announced.
AfterPush == IF pushRet = 1 THEN "post" ELSE "recv"

RecvUnlock ==
    /\ recvPc = "unlock"
    /\ pqueue_mutex' = "free"
    /\ recvPc' = AfterPush
    /\ UNCHANGED <<kernelQueue, ringVars, smsg_queue, recvMsg, pushRet, writeVars>>

RecvPost ==
    /\ recvPc = "post"
    /\ smsg_queue' = smsg_queue + 1
    /\ recvPc' = "recv"
    /\ UNCHANGED <<kernelQueue, ringVars, pqueue_mutex, recvMsg, pushRet, writeVars>>

(***************************************************************************)
(* log_write_file_thread: the writer thread.                               *)
(***************************************************************************)
WriterGoto(from, to) ==
    /\ writePc = from
    /\ writePc' = to
    /\ UNCHANGED <<kernelQueue, ringVars, pqueue_mutex, smsg_queue, recvVars,
                   stIotBuf, popRet>>

\* The first log_file_new, before the loop.
OpenFirst == WriterGoto("open", "wait")

\* The buffer is cleared and the thread waits for a message.
WriterWait ==
    /\ writePc = "wait"
    /\ smsg_queue > 0
    /\ smsg_queue' = smsg_queue - 1
    /\ stIotBuf' = NoMsg
    /\ writePc' = "lock"
    /\ UNCHANGED <<kernelQueue, ringVars, pqueue_mutex, recvVars, popRet>>

WriterLock ==
    /\ writePc = "lock"
    /\ pqueue_mutex = "free"
    /\ pqueue_mutex' = "write"
    /\ writePc' = "pop"
    /\ UNCHANGED <<kernelQueue, ringVars, smsg_queue, recvVars, stIotBuf, popRet>>

\* msg_pop copies the slot and clears it; with an empty queue it returns 0.
PopTake ==
    /\ writePc = "pop"
    /\ IF iMsgLen = 0
       THEN /\ popRet' = 0
            /\ writePc' = "unlock"
            /\ UNCHANGED <<pLogBuf, stIotBuf>>
       ELSE /\ stIotBuf' = pLogBuf[head]
            /\ pLogBuf' = [pLogBuf EXCEPT ![head] = NoMsg]
            /\ popRet' = 1
            /\ writePc' = "advance"
    /\ UNCHANGED <<kernelQueue, head, tail, iMsgLen, full, pqueue_mutex, smsg_queue, recvVars>>

PopAdvanceKeepFull ==
    /\ writePc = "advance"
    /\ head' = NextIndex(head)
    /\ iMsgLen' = iMsgLen - 1
    /\ writePc' = "unlock"
    /\ UNCHANGED <<kernelQueue, pLogBuf, tail, full, pqueue_mutex, smsg_queue, recvVars,
                   stIotBuf, popRet>>

PopAdvance ==
    /\ writePc = "advance"
    /\ head' = NextIndex(head)
    /\ iMsgLen' = iMsgLen - 1
    /\ full' = 0
    /\ writePc' = "unlock"
    /\ UNCHANGED <<kernelQueue, pLogBuf, tail, pqueue_mutex, smsg_queue, recvVars,
                   stIotBuf, popRet>>

WriterUnlock ==
    /\ writePc = "unlock"
    /\ pqueue_mutex' = "free"
    /\ writePc' = (IF popRet = 1 THEN "write" ELSE "check")
    /\ UNCHANGED <<kernelQueue, ringVars, smsg_queue, recvVars, stIotBuf, popRet>>

\* log_write succeeds, or fails and the thread goes to newloop.
WriteOk == WriterGoto("write", "check")
WriteFail == WriterGoto("write", "newloop")

\* count and log_file_size_check decide whether the file is replaced.
CheckKeep == WriterGoto("check", "wait")
CheckRotate == WriterGoto("check", "newloop")

\* newloop: fclose and sem_post, log_file_new, sem_post.
CloseFile == WriterGoto("newloop", "reopen")
Reopen == WriterGoto("reopen", "reopened")
Reopened == WriterGoto("reopened", "wait")

RecvThread ==
    \/ msg_recv_log_wait \/ RecvLock \/ PushReject \/ PushStore \/ PushAdvance
    \/ RecvUnlock \/ RecvPost

\* The steps of the writer that do not touch the log file.
WriterQueue ==
    \/ WriterWait \/ WriterLock \/ PopTake \/ PopAdvance \/ WriterUnlock

WriterFile ==
    \/ OpenFirst \/ WriteOk \/ WriteFail \/ CheckKeep \/ CheckRotate
    \/ CloseFile \/ Reopen \/ Reopened

Next ==
    \/ \E m \in Msg : debug_send(m)
    \/ RecvThread
    \/ WriterQueue
    \/ WriterFile

Spec == Init /\ [][Next]_vars

(***************************************************************************)
(* Both threads run for ever.  pthread_mutex_lock gets the mutex if it is  *)
(* free again and again (strong fairness); a call of fwrite, fopen or      *)
(* sem_wait that can return does.                                          *)
(***************************************************************************)
FairSpec ==
    /\ Spec
    /\ WF_vars(RecvThread) /\ SF_vars(RecvLock)
    /\ WF_vars(WriterQueue) /\ WF_vars(WriterFile) /\ SF_vars(WriterLock)

-----------------------------------------------------------------------------
(***************************************************************************)
(* Properties                                                              *)
(***************************************************************************)

\* Type invariant of the daemon's shared and thread-local state.
TypeOK ==
    /\ kernelQueue \in Seq(Msg)
    /\ Len(kernelQueue) <= KernelQueueLen
    /\ pLogBuf \in [Slots -> Msg \cup {NoMsg}]
    /\ head \in Slots /\ tail \in Slots
    /\ iMsgLen \in 0 .. LOG_CMD_BUF_LEN
    /\ full \in {0, 1}
    /\ pqueue_mutex \in {"free", "recv", "write"}
    /\ smsg_queue \in Nat
    /\ recvPc \in RecvStates /\ recvMsg \in Msg \cup {NoMsg} /\ pushRet \in {0, 1}
    /\ writePc \in WriteStates /\ stIotBuf \in Msg \cup {NoMsg} /\ popRet \in {0, 1}

\* A message was pushed and its sem_post is still to come.
PostPending == recvPc = "post" \/ (recvPc = "unlock" /\ pushRet = 1)

\* The writer consumed a sem_post and has not yet taken the message out.
TokenHeld == writePc \in {"lock", "pop", "advance"}

OneIf(b) == IF b THEN 1 ELSE 0

\* The semaphore and the ring agree: every queued message has exactly one
\* sem_post that is available, still to be made, or already in the writer's
\* hands (log.c:394-400 against log.c:454-459).
SemCountsQueue ==
    iMsgLen = smsg_queue + OneIf(PostPending) + OneIf(TokenHeld)

\* The writer never finds the ring empty after sem_wait: the "queue is none"
\* return of msg_pop (log.c:337-341) is dead code in this daemon.
PopFindsMessage == writePc = "pop" => iMsgLen > 0

\* msg_push refuses a message (log.c:302-311) only when every slot of the
\* ring holds a message that was not taken yet.
RejectOnlyWhenFull ==
    [][PushReject => /\ iMsgLen = LOG_CMD_BUF_LEN
                     /\ \A s \in Slots : pLogBuf[s] # NoMsg]_vars

\* The ring slot that is i places behind slot h.
SlotAt(h, i) == IF h + i >= LOG_CMD_BUF_LEN THEN h + i - LOG_CMD_BUF_LEN ELSE h + i

\* The content of the ring as a queue.  Between the two halves of msg_pop the
\* first message has already been taken.
Queued ==
    IF writePc = "advance"
    THEN [i \in 1 .. iMsgLen - 1 |-> pLogBuf[SlotAt(head, i)]]
    ELSE [i \in 1 .. iMsgLen |-> pLogBuf[SlotAt(head, i - 1)]]

Fifo == INSTANCE LogFifo WITH q <- Queued, got <- stIotBuf, Capacity <- LOG_CMD_BUF_LEN

\* The ring with its mutex and semaphore implements a bounded FIFO queue: no
\* accepted message is lost, duplicated, overwritten or reordered between
\* msg_push and msg_pop (log.c:296-361).
ImplementsFifo == Fifo!FifoSpec

\* Under fair threads it also implements the FIFO's progress: queued messages
\* are taken as long as there are any.
ImplementsFairFifo == Fifo!FairFifoSpec

\* A message that the receiver accepted reaches log_write.
AcceptedIsWritten ==
    \A m \in Msg : (PostPending /\ recvMsg = m) ~> (writePc = "write" /\ stIotBuf = m)
=============================================================================
