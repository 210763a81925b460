------------------------------- MODULE LogDaemon -------------------------------
(***************************************************************************)
(* The whole log daemon, framework/src/log/log.c: the message path of      *)
(* LogQueue together with the log files that its writer thread fills and   *)
(* replaces, and the thread log_file_del_zip_thread that keeps their       *)
(* number down.                                                            *)
(*                                                                         *)
(* A log file is named after the second in which it is opened, so the      *)
(* name is that second; two log_file_new calls within a second open the    *)
(* same file (fopen "a+").  A file is last modified before the next one is *)
(* opened, so the order of ls -rt is the order of the names: the clock is  *)
(* assumed not to step back.  Sizes are counted in messages.               *)
(***************************************************************************)
EXTENDS LogQueue, Integers, FiniteSets

CONSTANTS LOG_CHECKFILESIZE_INTERVAL,   \* writes between two size checks (log.h:11)
          log_file_maxcount, log_file_maxsize,     \* g_config
          InitFiles,      \* log files left by an earlier run
          ClientSends,    \* bound: messages the clients send
          MaxClock,       \* bound: last second of the behaviour
          Faults,         \* which of "disk" (a write fails), "rm" (a file is removed
                          \* by somebody else) and "shell" (popen, fgets or system
                          \* fails) may happen
          MaxFaults       \* bound: how many of them happen

ASSUME IntervalAssumption == LOG_CHECKFILESIZE_INTERVAL \in Nat \ {0}
ASSUME ConfigAssumption == log_file_maxcount \in Nat \ {0} /\ log_file_maxsize \in Nat
ASSUME BoundAssumption ==
    /\ InitFiles \in Nat /\ ClientSends \in Nat /\ MaxFaults \in Nat
    /\ MaxClock \in Nat /\ InitFiles <= MaxClock
    /\ Faults \subseteq {"disk", "rm", "shell"}

VARIABLES files,          \* the .log files in the log directory
          size, opens,    \* per name: messages in the file, log_file_new calls
          log_file_name,  \* the writer's file, before its first the newest one found
          count,          \* successful writes since the last size check
          smsg_file_del,  \* semaphore of the deleting thread
          delPc,          \* log_file_del_zip_thread
          lost,           \* history: deletions that failed while there were too many
                          \* files, since there last were not
          clientLeft, faultLeft

fileVars == <<files, size, opens, log_file_name, count>>
delVars == <<delPc, lost>>
envVars == <<clientLeft, faultLeft>>
daemonVars == <<fileVars, smsg_file_del, delVars, envVars>>
allVars == <<vars, daemonVars>>

Names == 0 .. MaxClock
Oldest(F) == CHOOSE f \in F : \A g \in F : f <= g

\* log_init_check runs before the threads start.
log_init_check(F) ==
    IF Cardinality(F) >= log_file_maxcount THEN F \ {Oldest(F)} ELSE F

\* Its popen or its rm may fail as well.
InitCheckSucceeds ==
    /\ files = log_init_check(1 .. InitFiles)
    /\ lost = 0 /\ faultLeft = MaxFaults

InitCheckFails ==
    /\ "shell" \in Faults /\ MaxFaults > 0
    /\ files = 1 .. InitFiles
    /\ lost = (IF InitFiles >= log_file_maxcount THEN 1 ELSE 0) /\ faultLeft = MaxFaults - 1

DaemonInit ==
    /\ Init
    /\ InitCheckSucceeds \/ InitCheckFails
    /\ size = [f \in Names |-> 0] /\ opens = [f \in Names |-> 0]
    /\ log_file_name = InitFiles /\ count = 0
    /\ smsg_file_del = 0
    /\ delPc = "start"
    /\ clientLeft = ClientSends

-----------------------------------------------------------------------------
(* The environment: clients, faults.                                       *)

ClientSend ==
    /\ clientLeft > 0
    /\ \E m \in Msg : debug_send(m)
    /\ clientLeft' = clientLeft - 1
    /\ UNCHANGED <<fileVars, smsg_file_del, delVars, faultLeft>>

Remove(f) ==
    /\ files' = files \ {f}
    /\ size' = [size EXCEPT ![f] = 0]
    /\ opens' = [opens EXCEPT ![f] = 0]

ForeignRemove ==
    /\ "rm" \in Faults /\ faultLeft > 0
    /\ faultLeft' = faultLeft - 1
    /\ \E f \in files : Remove(f)
    /\ UNCHANGED <<vars, log_file_name, count, smsg_file_del, delVars, clientLeft>>

-----------------------------------------------------------------------------
(* log_write_file_thread                                                   *)

\* Time passes anywhere; it is read here only.
log_file_new ==
    \E second \in log_file_name .. MaxClock :
        /\ log_file_name' = second
        /\ files' = files \cup {second}
        /\ opens' = [opens EXCEPT ![second] = @ + 1]
        /\ UNCHANGED <<size, count>>

FirstFile ==
    /\ OpenFirst
    /\ log_file_new
    /\ UNCHANGED <<smsg_file_del, delVars, envVars>>

\* The path from msgrcv to msg_pop does not touch the files.
QueueStep ==
    /\ RecvThread \/ WriterQueue
    /\ UNCHANGED daemonVars

FileExists == log_file_name \in files

\* log_do_write succeeds ...
WriteMessage ==
    /\ WriteOk
    /\ FileExists
    /\ size' = [size EXCEPT ![log_file_name] = @ + 1]
    /\ count' = count + 1
    /\ UNCHANGED <<files, opens, log_file_name, smsg_file_del, delVars, envVars>>

\* ... or finds its file gone, or cannot write: the message is lost and the
\* file is replaced; count keeps its value.
LoseMessage ==
    /\ WriteFail
    /\ \/ ~FileExists /\ UNCHANGED faultLeft
       \/ /\ FileExists
          /\ "disk" \in Faults /\ faultLeft > 0
          /\ faultLeft' = faultLeft - 1
    /\ UNCHANGED <<fileVars, smsg_file_del, delVars, clientLeft>>

CheckDue == count = LOG_CHECKFILESIZE_INTERVAL

CountNotReset == count
CountAfterCheck == IF CheckDue THEN 0 ELSE count

\* log_file_size_check: too large, or (stat fails) gone.
log_file_size_check == ~FileExists \/ size[log_file_name] > log_file_maxsize

KeepFile ==
    /\ CheckKeep
    /\ ~(CheckDue /\ log_file_size_check)
    /\ count' = CountAfterCheck
    /\ UNCHANGED <<files, size, opens, log_file_name, smsg_file_del, delVars, envVars>>

ReplaceFile ==
    /\ CheckRotate
    /\ CheckDue /\ log_file_size_check
    /\ count' = CountAfterCheck
    /\ UNCHANGED <<files, size, opens, log_file_name, smsg_file_del, delVars, envVars>>

CloseNoPost ==
    /\ CloseFile
    /\ UNCHANGED daemonVars

CloseAndPost ==
    /\ CloseFile
    /\ smsg_file_del' = smsg_file_del + 1
    /\ UNCHANGED <<fileVars, delVars, envVars>>

OpenNext ==
    /\ Reopen
    /\ log_file_new
    /\ UNCHANGED <<smsg_file_del, delVars, envVars>>

OpenedNoPost ==
    /\ Reopened
    /\ UNCHANGED daemonVars

OpenedAndPost ==
    /\ Reopened
    /\ smsg_file_del' = smsg_file_del + 1
    /\ UNCHANGED <<fileVars, delVars, envVars>>

-----------------------------------------------------------------------------
(* log_file_del_zip_thread                                                 *)

DelStart ==
    /\ delPc = "start"
    /\ smsg_file_del' = smsg_file_del + 1
    /\ delPc' = "wait"
    /\ UNCHANGED <<vars, fileVars, lost, envVars>>

DelWait ==
    /\ delPc = "wait"
    /\ smsg_file_del > 0
    /\ smsg_file_del' = smsg_file_del - 1
    /\ delPc' = "count"
    /\ UNCHANGED <<vars, fileVars, lost, envVars>>

LOG_FAIL == -1

\* The deletions lost, one of which may be the present one; the writer's first
\* file counts before it is opened.
LostWith(n) ==
    IF Cardinality(files) + OneIf(writePc = "open") <= log_file_maxcount THEN 0 ELSE lost + n

\* ls | wc -l, or LOG_FAIL, which is not above the limit; IOT_INFO sends a log
\* message to the daemon itself.
CountIs(n) ==
    /\ delPc = "count"
    /\ \E m \in Msg : debug_send(m)
    /\ delPc' = (IF n > log_file_maxcount THEN "rm" ELSE "wait")
    /\ UNCHANGED <<fileVars, smsg_file_del, clientLeft>>

DelCount ==
    /\ CountIs(Cardinality(files))
    /\ lost' = LostWith(0)
    /\ UNCHANGED faultLeft

ShellFails ==
    /\ "shell" \in Faults /\ faultLeft > 0
    /\ faultLeft' = faultLeft - 1
    /\ lost' = LostWith(1)

DelCountFails == CountIs(LOG_FAIL) /\ ShellFails

VictimNewest(F) == CHOOSE f \in F : \A g \in F : f >= g

\* ls -rt | sed -n 1p
Victim(F) == Oldest(F)

\* rm of the oldest file that exists now.
DelRm ==
    /\ delPc = "rm"
    /\ IF files = {} THEN UNCHANGED <<files, size, opens>> ELSE Remove(Victim(files))
    /\ delPc' = "wait"
    /\ UNCHANGED <<vars, log_file_name, count, smsg_file_del, lost, envVars>>

\* The result of system() is not looked at.
DelRmFails ==
    /\ delPc = "rm"
    /\ ShellFails
    /\ delPc' = "wait"
    /\ UNCHANGED <<vars, fileVars, smsg_file_del, clientLeft>>

Writer ==
    \/ FirstFile \/ WriteMessage \/ LoseMessage \/ KeepFile \/ ReplaceFile
    \/ CloseAndPost \/ OpenNext \/ OpenedAndPost

Deleter ==
    \/ DelStart \/ DelWait \/ DelCount \/ DelCountFails \/ DelRm \/ DelRmFails

DaemonNext ==
    \/ ClientSend \/ ForeignRemove
    \/ QueueStep
    \/ Writer
    \/ Deleter

DaemonSpec == DaemonInit /\ [][DaemonNext]_allVars

\* The three threads run for ever; clients and faults owe nothing.
FairDaemonSpec ==
    /\ DaemonSpec
    /\ WF_allVars(RecvThread /\ UNCHANGED daemonVars)
    /\ WF_allVars(WriterQueue /\ UNCHANGED daemonVars)
    /\ SF_allVars(WriterLock /\ UNCHANGED daemonVars)
    /\ SF_allVars(RecvLock /\ UNCHANGED daemonVars)
    /\ WF_allVars(Writer) /\ WF_allVars(Deleter)

-----------------------------------------------------------------------------
(* Properties                                                              *)

\* Type invariant of the files and of the deleting thread.
DaemonTypeOK ==
    /\ files \subseteq Names
    /\ size \in [Names -> Nat] /\ opens \in [Names -> Nat]
    /\ log_file_name \in Names
    /\ count \in 0 .. LOG_CHECKFILESIZE_INTERVAL
    /\ smsg_file_del \in Nat
    /\ delPc \in {"start", "wait", "count", "rm"}
    /\ lost \in Nat
    /\ clientLeft \in Nat /\ faultLeft \in Nat

\* More files than there may be only if an earlier run left them.
Allowed == IF InitFiles > log_file_maxcount THEN InitFiles ELSE log_file_maxcount

\* Every file above the allowed number has a deletion that is announced
\* (smsg_file_del), under way, or about to be announced by the writer
\* (log.c:480-495 against log.c:514-528), or one whose command failed
\* (log.c:79-91, 118) since the number was last found within the limit.
SurplusIsAnnounced ==
    Cardinality(files) <= Allowed + smsg_file_del + OneIf(writePc = "reopened")
                                  + OneIf(delPc \in {"count", "rm"}) + lost

\* The deleting thread never removes the file that the writer has open
\* (log.c:525 against log.c:442 and 486).
WriterHasFile == writePc \notin {"open", "reopen"}

OpenFileIsKept ==
    [][DelRm => (WriterHasFile /\ FileExists => log_file_name \in files')]_allVars

\* A file outgrows log_file_maxsize by at most one check interval for each
\* time it was opened: count reaches the interval again after every check,
\* failed write and replacement (log.c:468-477).
FileSizeBounded ==
    \A f \in files :
        size[f] <= log_file_maxsize + LOG_CHECKFILESIZE_INTERVAL * opens[f]

\* When the clients stop, the daemon comes to rest: the messages it sends to
\* itself (log.c:521) do not keep it replacing files for ever.
ComesToRest ==
    <>[](/\ kernelQueue = <<>> /\ iMsgLen = 0 /\ writePc = "wait"
         /\ smsg_file_del = 0 /\ delPc = "wait")

\* A lost deletion is made good: a replacement announces two deletions for the
\* one file that it opens (log.c:482, 495), so it leaves one surplus file less
\* than deletions had been lost before it, or another one is lost meanwhile.
SurplusIsRemoved ==
    \A k \in 0 .. MaxFaults :
        (writePc = "newloop" /\ lost <= k)
            ~> (\/ Cardinality(files) <= Allowed + (IF k = 0 THEN 0 ELSE k - 1)
                \/ lost > k)
=============================================================================
