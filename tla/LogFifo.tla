------------------------------- MODULE LogFifo -------------------------------
(***************************************************************************)
(* What the log daemon's message queue promises to the two threads that    *)
(* share it (framework/src/log/log.c): a bounded first-in first-out queue. *)
(* The receiver thread puts messages in, the writer thread takes one       *)
(* message at a time, finishes with it and takes the next one.             *)
(***************************************************************************)
EXTENDS Naturals, Sequences

CONSTANTS Msg,        \* the log messages
          NoMsg,      \* the value of a zeroed IOT_MSG
          Capacity    \* LOG_CMD_BUF_LEN

VARIABLES q,          \* the messages accepted and not yet taken, oldest first
          got         \* the message the writer is working on, or NoMsg

fifoVars == <<q, got>>

FifoInit == q = <<>> /\ got = NoMsg

Put(m) ==
    /\ Len(q) < Capacity
    /\ q' = Append(q, m)
    /\ UNCHANGED got

Take ==
    /\ got = NoMsg
    /\ q # <<>>
    /\ got' = Head(q)
    /\ q' = Tail(q)

Finish ==
    /\ got # NoMsg
    /\ got' = NoMsg
    /\ UNCHANGED q

FifoNext == (\E m \in Msg : Put(m)) \/ Take \/ Finish

FifoSpec == FifoInit /\ [][FifoNext]_fifoVars

\* The consumer never stops while there is something to take.
FairFifoSpec == FifoSpec /\ WF_fifoVars(Take)
=============================================================================
