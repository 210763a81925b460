--------------------------- MODULE LogDaemonProofs ---------------------------
(***************************************************************************)
(* Proofs about the log files of the daemon, for every configuration of    *)
(* g_config, every ring and every number of messages, seconds and faults.  *)
(***************************************************************************)
EXTENDS LogDaemon, LogQueueProofs, FiniteSetTheorems, WellFoundedInduction

-----------------------------------------------------------------------------
(* The daemon and its message path.                                        *)

LEMMA DaemonStep == [DaemonNext]_allVars => [Next]_vars
<1> SUFFICES ASSUME [DaemonNext]_allVars PROVE [Next]_vars
    OBVIOUS
<1>1. CASE ClientSend \/ DelCount \/ DelCountFails
    BY <1>1 DEF ClientSend, DelCount, DelCountFails, CountIs, Next
<1>2. CASE ForeignRemove \/ DelStart \/ DelWait \/ DelRm \/ DelRmFails
    BY <1>2 DEF ForeignRemove, DelStart, DelWait, DelRm, DelRmFails
<1>3. CASE QueueStep
    BY <1>3 DEF QueueStep, Next
<1>4. CASE Writer
    BY <1>4 DEF Writer, FirstFile, WriteMessage, LoseMessage, KeepFile, ReplaceFile, CloseAndPost,
                OpenNext, OpenedAndPost, Next, WriterFile
<1>5. CASE UNCHANGED allVars
    BY <1>5 DEF allVars
<1> QED BY <1>1, <1>2, <1>3, <1>4, <1>5 DEF DaemonNext, Deleter

\* Files and deleting thread leave the message path as it is: what is
\* proved of LogQueue holds of the whole daemon.
THEOREM DaemonImplementsQueue == DaemonSpec => Spec
<1>1. DaemonInit => Init
    BY DEF DaemonInit
<1> QED BY <1>1, DaemonStep, PTL DEF DaemonSpec, Spec

\* Where a step on the queue can take the writer.
LEMMA QueueMoves ==
    ASSUME QueueStep
    PROVE  \/ writePc' = writePc
           \/ /\ writePc \notin {"open", "check", "newloop", "reopen", "reopened"}
              /\ writePc' \notin {"open", "wait", "newloop", "reopen", "reopened"}
<1>1. CASE RecvThread
    BY <1>1 DEF RecvThread, msg_recv_log_wait, RecvLock, PushReject, PushStore, PushAdvance,
                RecvUnlock, RecvPost, writeVars
<1>2. CASE WriterQueue
    BY <1>2 DEF WriterQueue, WriterWait, WriterLock, PopTake, PopAdvance, WriterUnlock
<1> QED BY <1>1, <1>2 DEF QueueStep

-----------------------------------------------------------------------------
(* Finite sets of names.                                                   *)

LEMMA CountFiles ==
    ASSUME NEW F, F \subseteq Names
    PROVE  /\ Cardinality(F) \in Nat
           /\ \A f : Cardinality(F \ {f}) = IF f \in F THEN Cardinality(F) - 1 ELSE Cardinality(F)
           /\ \A f : Cardinality(F \cup {f}) = IF f \in F THEN Cardinality(F) ELSE Cardinality(F) + 1
           /\ Cardinality(F) = 0 <=> F = {}
<1>1. IsFiniteSet(Names)
    BY FS_Interval, BoundAssumption DEF Names
<1>2. IsFiniteSet(F)
    BY <1>1, FS_Subset
<1> QED BY <1>2, FS_CardinalityType, FS_AddElement, FS_RemoveElement, FS_EmptySet

LEMMA OldestExists ==
    ASSUME NEW F, F \subseteq Names, F # {}
    PROVE  Oldest(F) \in F /\ \A g \in F : Oldest(F) <= g
<1>1. F \subseteq Nat
    BY DEF Names
<1> DEFINE Less == {p \in Nat \X Nat : p[1] < p[2]}
<1>2. IsWellFoundedOn(Less, Nat)
    BY NatLessThanWellFounded DEF OpToRel
<1> PICK x \in F : \A y \in F : ~(<<y, x>> \in Less)
    BY <1>1, <1>2, WFMin
<1>3. ASSUME NEW y \in F PROVE x <= y
  <2>1. ~(<<y, x>> \in Less) /\ x \in Nat /\ y \in Nat
    BY <1>1
  <2>2. ~(y < x)
    BY <2>1
  <2> QED BY <2>1, <2>2
<1> QED BY <1>3 DEF Oldest

-----------------------------------------------------------------------------
(* The type invariant.  The count of writes reaches the interval only just *)
(* before the check that resets it.                                        *)

FileInv ==
    /\ DaemonTypeOK
    /\ writePc # "check" => count < LOG_CHECKFILESIZE_INTERVAL

LEMMA FilesAtStart ==
    ASSUME DaemonInit
    PROVE  /\ files \subseteq 1 .. InitFiles
           /\ lost \in Nat /\ faultLeft \in Nat /\ faultLeft <= MaxFaults
BY BoundAssumption DEF DaemonInit, InitCheckSucceeds, InitCheckFails, log_init_check

LEMMA FileInit == DaemonInit => FileInv
<1> SUFFICES ASSUME DaemonInit PROVE FileInv
    OBVIOUS
<1>1. files \subseteq Names /\ InitFiles \in Names
    BY FilesAtStart, BoundAssumption DEF Names
<1> QED BY <1>1, FilesAtStart, IntervalAssumption, BoundAssumption
        DEF DaemonInit, FileInv, DaemonTypeOK, Names

\* The name of a new file is a name, and not an older one than the last.
LEMMA NewName ==
    ASSUME log_file_name \in Names, log_file_new
    PROVE  \E second \in Names :
               /\ second >= log_file_name
               /\ log_file_name' = second
               /\ files' = files \cup {second}
               /\ opens' = [opens EXCEPT ![second] = @ + 1]
               /\ UNCHANGED <<size, count>>
<1>1. \A second \in log_file_name .. MaxClock : second \in Names /\ second >= log_file_name
    BY BoundAssumption DEF Names
<1>2. PICK second \in log_file_name .. MaxClock :
          /\ log_file_name' = second
          /\ files' = files \cup {second}
          /\ opens' = [opens EXCEPT ![second] = @ + 1]
          /\ UNCHANGED <<size, count>>
    BY Zenon DEF log_file_new
<1>3. second \in Names /\ second >= log_file_name
    BY <1>1, <1>2, Zenon
<1> QED BY <1>2, <1>3

LEMMA FileStep == FileInv /\ [DaemonNext]_allVars => FileInv'
<1> SUFFICES ASSUME FileInv, [DaemonNext]_allVars PROVE FileInv'
    OBVIOUS
<1> USE IntervalAssumption
<1> USE DEF FileInv, DaemonTypeOK, fileVars, delVars, envVars, writeVars
<1>1. CASE ClientSend
    BY <1>1 DEF ClientSend, debug_send
<1>3. CASE ForeignRemove
    BY <1>3 DEF ForeignRemove, Remove, vars
<1>4. CASE QueueStep
    BY <1>4, QueueMoves DEF QueueStep, daemonVars
<1>5. CASE FirstFile \/ OpenNext
  <2>1. PICK second \in Names :
            /\ log_file_name' = second /\ files' = files \cup {second}
            /\ opens' = [opens EXCEPT ![second] = @ + 1] /\ UNCHANGED <<size, count>>
    BY <1>5, NewName DEF FirstFile, OpenNext
  <2>2. opens[second] \in Nat
    OBVIOUS
  <2> QED BY <2>1, <2>2, <1>5 DEF FirstFile, OpenNext, OpenFirst, Reopen, WriterGoto
<1>6. CASE WriteMessage
    BY <1>6 DEF WriteMessage, WriteOk, WriterGoto
<1>7. CASE LoseMessage
    BY <1>7 DEF LoseMessage, WriteFail, WriterGoto
<1>8. CASE KeepFile \/ ReplaceFile
    BY <1>8 DEF KeepFile, ReplaceFile, CheckKeep, CheckRotate, WriterGoto, CountAfterCheck, CheckDue
<1>9. CASE CloseAndPost \/ OpenedAndPost
    BY <1>9 DEF CloseAndPost, OpenedAndPost, CloseFile, Reopened, WriterGoto
<1>10. CASE DelStart \/ DelWait
    BY <1>10 DEF DelStart, DelWait, vars
<1>l. LostWith(0) \in Nat /\ LostWith(1) \in Nat
    BY DEF LostWith
<1>11. CASE DelCount \/ DelCountFails
  <2>1. /\ delPc' \in {"rm", "wait"} /\ lost' \in Nat /\ faultLeft' \in Nat
        /\ UNCHANGED <<fileVars, smsg_file_del, clientLeft, writePc>>
    BY <1>11, <1>l DEF DelCount, DelCountFails, CountIs, ShellFails, debug_send
  <2> QED BY <2>1
<1>2. CASE DelRmFails
    BY <1>2, <1>l DEF DelRmFails, ShellFails, vars
<1>12. CASE DelRm
    BY <1>12 DEF DelRm, Remove, vars
<1>13. CASE UNCHANGED allVars
    BY <1>13 DEF allVars, vars, daemonVars
<1> QED BY <1>1, <1>2, <1>3, <1>4, <1>5, <1>6, <1>7, <1>8, <1>9, <1>10, <1>11, <1>12, <1>13
        DEF DaemonNext, Writer, Deleter

\* Type correctness of the files and of the deleting thread.
THEOREM DaemonTypeCorrect == DaemonSpec => []DaemonTypeOK
<1>1. FileInv => DaemonTypeOK
    BY DEF FileInv
<1> QED BY <1>1, FileInit, FileStep, PTL DEF DaemonSpec

-----------------------------------------------------------------------------
(* Surplus files.  Until the writer has opened its first file there is     *)
(* room for it.                                                            *)

SurplusInv ==
    /\ SurplusIsAnnounced
    /\ writePc = "open" => Cardinality(files) < Allowed + lost

LEMMA SurplusInit == DaemonInit => SurplusInv
<1> SUFFICES ASSUME DaemonInit PROVE SurplusInv
    OBVIOUS
<1> DEFINE Found == 1 .. InitFiles
<1>2. Found \subseteq Names
    BY BoundAssumption DEF Names
<1>3. Cardinality(Found) = InitFiles
    BY BoundAssumption, FS_Interval
<1> HIDE DEF Found
<1>4. Cardinality(log_init_check(Found)) < Allowed
  <2>1. CASE InitFiles >= log_file_maxcount
    <3>1. Found # {}
        BY <2>1, ConfigAssumption, BoundAssumption DEF Found
    <3>2. Oldest(Found) \in Found
        BY <3>1, <1>2, OldestExists
    <3>3. log_init_check(Found) = Found \ {Oldest(Found)}
        BY <2>1, <1>3 DEF log_init_check
    <3>4. Cardinality(Found \ {Oldest(Found)}) = Cardinality(Found) - 1
      <4>1. \A F : F \subseteq Names =>
                \A o \in F : Cardinality(F \ {o}) = Cardinality(F) - 1
          BY CountFiles
      <4> QED BY ONLY <4>1, <3>2, <1>2, Zenon
    <3> QED BY <3>3, <3>4, <1>3, <2>1, ConfigAssumption, BoundAssumption DEF Allowed
  <2>2. CASE ~(InitFiles >= log_file_maxcount)
    BY <2>2, <1>3, ConfigAssumption, BoundAssumption DEF log_init_check, Allowed
  <2> QED BY <2>1, <2>2
<1>5. Cardinality(files) \in Nat
    BY CountFiles, FileInit DEF FileInv, DaemonTypeOK
<1>6. Cardinality(files) < Allowed + lost /\ lost \in Nat
  <2>1. CASE InitCheckSucceeds
    BY <2>1, <1>4, <1>5, ConfigAssumption, BoundAssumption DEF InitCheckSucceeds, Found, Allowed
  <2>2. CASE InitCheckFails
    BY <2>2, <1>3, <1>5, ConfigAssumption, BoundAssumption DEF InitCheckFails, Found, Allowed
  <2> QED BY <2>1, <2>2 DEF DaemonInit
<1> QED BY <1>5, <1>6, ConfigAssumption, BoundAssumption
        DEF DaemonInit, Init, SurplusInv, SurplusIsAnnounced, OneIf, Allowed

LEMMA SurplusStep == FileInv /\ SurplusInv /\ [DaemonNext]_allVars => SurplusInv'
<1> SUFFICES ASSUME FileInv, SurplusInv, [DaemonNext]_allVars PROVE SurplusInv'
    OBVIOUS
<1> USE ConfigAssumption, BoundAssumption
<1>t. /\ files \subseteq Names /\ log_file_name \in Names /\ smsg_file_del \in Nat /\ lost \in Nat
      /\ Cardinality(files) \in Nat /\ Cardinality(files') \in Nat
    BY CountFiles, FileStep DEF FileInv, DaemonTypeOK
<1>g. \A f : /\ Cardinality(files \ {f}) <= Cardinality(files)
             /\ Cardinality(files \cup {f}) <= Cardinality(files) + 1
    BY <1>t, CountFiles
<1> USE DEF SurplusInv, SurplusIsAnnounced, OneIf, Allowed, fileVars, delVars, envVars, writeVars
<1>1. CASE ClientSend
    BY <1>1, <1>t DEF ClientSend, debug_send
<1>2. CASE DelRmFails
    BY <1>2, <1>t DEF DelRmFails, ShellFails, LostWith, vars
<1>3. CASE ForeignRemove
  <2>1. Cardinality(files') <= Cardinality(files)
    BY <1>3, <1>g DEF ForeignRemove, Remove
  <2> QED BY <2>1, <1>3, <1>t DEF ForeignRemove, vars
<1>4. CASE QueueStep
    BY <1>4, <1>t, QueueMoves DEF QueueStep, daemonVars
<1>5. CASE FirstFile
  <2>1. Cardinality(files') <= Cardinality(files) + 1
    BY <1>5, <1>g, <1>t, NewName DEF FirstFile
  <2> QED BY <2>1, <1>5, <1>t DEF FirstFile, OpenFirst, WriterGoto
<1>6. CASE OpenNext
  <2>1. Cardinality(files') <= Cardinality(files) + 1
    BY <1>6, <1>g, <1>t, NewName DEF OpenNext
  <2> QED BY <2>1, <1>6, <1>t DEF OpenNext, Reopen, WriterGoto
<1>7. CASE WriteMessage \/ LoseMessage \/ KeepFile \/ ReplaceFile
    BY <1>7, <1>t DEF WriteMessage, LoseMessage, KeepFile, ReplaceFile, WriteOk, WriteFail,
                CheckKeep, CheckRotate, WriterGoto
<1>8. CASE CloseAndPost
    BY <1>8, <1>t DEF CloseAndPost, CloseFile, WriterGoto
<1>9. CASE OpenedAndPost
    BY <1>9, <1>t DEF OpenedAndPost, Reopened, WriterGoto
<1>10. CASE DelStart \/ DelWait
    BY <1>10, <1>t DEF DelStart, DelWait, vars
<1>11. CASE DelCount \/ DelCountFails
  <2>1. CASE DelCount
    BY <2>1, <1>t DEF DelCount, CountIs, LostWith, debug_send
  <2>2. CASE DelCountFails
    BY <2>2, <1>t DEF DelCountFails, CountIs, ShellFails, LostWith, debug_send
  <2> QED BY <1>11, <2>1, <2>2
<1>12. CASE DelRm
  <2>1. CASE files = {}
    BY <2>1, <1>12, <1>t, CountFiles DEF DelRm, vars
  <2>2. CASE files # {}
    <3>1. Victim(files) \in files
        BY <2>2, <1>t, OldestExists DEF Victim
    <3>2. files' = files \ {Victim(files)}
        BY <2>2, <1>12 DEF DelRm, Remove
    <3>3. Cardinality(files') = Cardinality(files) - 1
        BY <3>1, <3>2, <1>t, CountFiles
    <3> QED BY <3>3, <1>12, <1>t DEF DelRm, vars
  <2> QED BY <2>1, <2>2
<1>13. CASE UNCHANGED allVars
    BY <1>13 DEF allVars, vars, daemonVars
<1> QED BY <1>1, <1>2, <1>3, <1>4, <1>5, <1>6, <1>7, <1>8, <1>9, <1>10, <1>11, <1>12, <1>13
        DEF DaemonNext, Writer, Deleter

\* Every file above the allowed number has a deletion announced, under way or
\* about to be announced, or one of which a command failed: no sequence of
\* replacements and deletions loses one in any other way.
THEOREM SurplusCorrect == DaemonSpec => []SurplusIsAnnounced
<1>1. DaemonInit => FileInv /\ SurplusInv
    BY FileInit, SurplusInit
<1>2. FileInv /\ SurplusInv /\ [DaemonNext]_allVars => FileInv' /\ SurplusInv'
    BY FileStep, SurplusStep
<1>3. SurplusInv => SurplusIsAnnounced
    BY DEF SurplusInv
<1> QED BY <1>1, <1>2, <1>3, PTL DEF DaemonSpec

-----------------------------------------------------------------------------
(* Sizes.  A file that the writer has open owes the writes since the last  *)
(* check to its latest opening; a file that does not exist has no size.    *)

SizeInv ==
    /\ FileSizeBounded
    /\ \A f \in Names \ files : size[f] = 0
    /\ writePc \notin {"open", "newloop", "reopen"} /\ FileExists =>
           /\ opens[log_file_name] > 0
           /\ size[log_file_name] <= log_file_maxsize
                 + LOG_CHECKFILESIZE_INTERVAL * (opens[log_file_name] - 1) + count

LEMMA SizeInit == DaemonInit => SizeInv
<1> SUFFICES ASSUME DaemonInit PROVE SizeInv
    OBVIOUS
<1>1. files \subseteq Names
    BY FileInit DEF FileInv, DaemonTypeOK
<1> QED BY <1>1, IntervalAssumption, ConfigAssumption
        DEF DaemonInit, Init, SizeInv, FileSizeBounded

LEMMA Openings ==
    ASSUME NEW n \in Nat
    PROVE  /\ LOG_CHECKFILESIZE_INTERVAL * n \in Nat
           /\ LOG_CHECKFILESIZE_INTERVAL * (n + 1) =
                  LOG_CHECKFILESIZE_INTERVAL * n + LOG_CHECKFILESIZE_INTERVAL
BY IntervalAssumption

LEMMA SizeStep == FileInv /\ SizeInv /\ [DaemonNext]_allVars => SizeInv'
<1> SUFFICES ASSUME FileInv, SizeInv, [DaemonNext]_allVars PROVE SizeInv'
    OBVIOUS
<1> USE IntervalAssumption, ConfigAssumption
<1> DEFINE Limit(n) == log_file_maxsize + LOG_CHECKFILESIZE_INTERVAL * n
<1>t. /\ FileInv' /\ count \in Nat /\ count <= LOG_CHECKFILESIZE_INTERVAL
      /\ files \subseteq Names /\ log_file_name \in Names
      /\ size \in [Names -> Nat] /\ opens \in [Names -> Nat]
    BY FileStep DEF FileInv, DaemonTypeOK
<1>a. \A n \in Nat : /\ Limit(n) \in Nat /\ Limit(n) >= log_file_maxsize
                     /\ Limit(n + 1) = Limit(n) + LOG_CHECKFILESIZE_INTERVAL
    BY Openings
<1>b. \A n \in Nat : n > 0 => n - 1 \in Nat /\ Limit(n) = Limit(n - 1) + LOG_CHECKFILESIZE_INTERVAL
    BY <1>a
<1>c. \A f \in files : size[f] <= Limit(opens[f])
    BY DEF SizeInv, FileSizeBounded
<1>e. \A f \in Names \ files : size[f] = 0
    BY DEF SizeInv
<1>d. writePc \notin {"open", "newloop", "reopen"} /\ FileExists =>
          /\ opens[log_file_name] > 0
          /\ size[log_file_name] <= Limit(opens[log_file_name] - 1) + count
    BY DEF SizeInv
<1> SUFFICES /\ \A f \in files' : size'[f] <= Limit(opens'[f])
             /\ \A f \in Names \ files' : size'[f] = 0
             /\ writePc' \notin {"open", "newloop", "reopen"} /\ FileExists' =>
                    /\ opens'[log_file_name'] > 0
                    /\ size'[log_file_name'] <= Limit(opens'[log_file_name'] - 1) + count'
    BY DEF SizeInv, FileSizeBounded
<1> HIDE DEF Limit
<1> USE DEF FileExists, fileVars, delVars, envVars, writeVars
<1>1. CASE ClientSend \/ DelCount \/ DelCountFails
    BY <1>1, <1>c, <1>e, <1>d DEF ClientSend, DelCount, DelCountFails, CountIs, debug_send
<1>2. CASE DelStart \/ DelWait \/ DelRmFails
    BY <1>2, <1>c, <1>e, <1>d DEF DelStart, DelWait, DelRmFails, vars
<1>3. CASE ForeignRemove
    BY <1>3, <1>c, <1>e, <1>d, <1>t DEF ForeignRemove, Remove, vars
<1>4. CASE DelRm
    BY <1>4, <1>c, <1>e, <1>d, <1>t DEF DelRm, Remove, vars
<1>5. CASE QueueStep
    BY <1>5, <1>c, <1>e, <1>d, QueueMoves DEF QueueStep, daemonVars
<1>6. CASE FirstFile \/ OpenNext
  <2>1. PICK second \in Names :
            /\ log_file_name' = second /\ files' = files \cup {second}
            /\ size' = size /\ count' = count /\ opens' = [opens EXCEPT ![second] = @ + 1]
    BY <1>6, <1>t, NewName DEF FirstFile, OpenNext
  <2>2. opens'[second] = opens[second] + 1 /\ opens[second] \in Nat
    BY <2>1, <1>t
  <2>3. \A f \in files \ {second} : opens'[f] = opens[f]
    BY <2>1, <1>t
  <2>4. size[second] <= Limit(opens[second])
    BY <2>2, <1>a, <1>c, <1>e, <1>t
  <2>5. Limit(opens'[second] - 1) = Limit(opens[second])
    BY <2>2
  <2>6. size'[second] <= Limit(opens'[second])
    BY <2>1, <2>2, <2>4, <1>a, <1>t
  <2>7. \A f \in files' : size'[f] <= Limit(opens'[f])
    BY <2>1, <2>3, <2>6, <1>c
  <2>8. size'[second] <= Limit(opens'[second] - 1) + count'
    BY <2>1, <2>2, <2>4, <2>5, <1>a, <1>t
  <2> QED BY <2>1, <2>2, <2>7, <2>8, <1>e
<1>7. CASE WriteMessage
  <2> DEFINE n == log_file_name
  <2>1. /\ n \in files /\ n \in Names /\ writePc = "write" /\ writePc' = "check"
        /\ size' = [size EXCEPT ![n] = @ + 1] /\ count' = count + 1
        /\ UNCHANGED <<files, opens, log_file_name>>
    BY <1>7, <1>t DEF WriteMessage, WriteOk, WriterGoto
  <2>2. opens[n] > 0 /\ opens[n] \in Nat /\ size[n] <= Limit(opens[n] - 1) + count
    BY <2>1, <1>d, <1>t
  <2>3. count < LOG_CHECKFILESIZE_INTERVAL
    BY <2>1 DEF FileInv
  <2>4. size'[n] = size[n] + 1 /\ size[n] \in Nat /\ \A f \in Names \ {n} : size'[f] = size[f]
    BY <2>1, <1>t
  <2>5. size'[n] <= Limit(opens[n] - 1) + count'
    BY <2>1, <2>2, <2>4, <1>a, <1>b, <1>t
  <2>6. size'[n] <= Limit(opens[n])
    BY <2>1, <2>2, <2>3, <2>5, <2>4, <1>a, <1>b, <1>t
  <2> QED BY <2>1, <2>2, <2>4, <2>5, <2>6, <1>c, <1>e, <1>t
<1>8. CASE LoseMessage \/ CloseAndPost
    BY <1>8, <1>c, <1>e, <1>d DEF LoseMessage, CloseAndPost, WriteFail, CloseFile, WriterGoto
<1>9. CASE KeepFile
    BY <1>9, <1>a, <1>b, <1>c, <1>e, <1>d, <1>t DEF KeepFile, CheckKeep, WriterGoto, CountAfterCheck, CheckDue,
       log_file_size_check
<1>10. CASE ReplaceFile
    BY <1>10, <1>c, <1>e DEF ReplaceFile, CheckRotate, WriterGoto
<1>11. CASE OpenedAndPost
    BY <1>11, <1>c, <1>e, <1>d DEF OpenedAndPost, Reopened, WriterGoto
<1>12. CASE UNCHANGED allVars
    BY <1>12, <1>c, <1>e, <1>d DEF allVars, vars, daemonVars
<1> QED BY <1>1, <1>2, <1>3, <1>4, <1>5, <1>6, <1>7, <1>8, <1>9, <1>10, <1>11, <1>12
        DEF DaemonNext, Writer, Deleter

\* No file outgrows its limit by more than one check interval for each time
\* it was opened, whatever fails and whoever removes files.
THEOREM SizeCorrect == DaemonSpec => []FileSizeBounded
<1>1. DaemonInit => FileInv /\ SizeInv
    BY FileInit, SizeInit
<1>2. FileInv /\ SizeInv /\ [DaemonNext]_allVars => FileInv' /\ SizeInv'
    BY FileStep, SizeStep
<1>3. SizeInv => FileSizeBounded
    BY DEF SizeInv
<1> QED BY <1>1, <1>2, <1>3, PTL DEF DaemonSpec

-----------------------------------------------------------------------------
(* The file that the writer has open is the newest one, and when the       *)
(* deleting thread removes a file there are at least two, unless others    *)
(* have removed as many as are allowed.                                    *)

NewestInv ==
    /\ faultLeft <= MaxFaults
    /\ \A f \in files : f <= log_file_name
    /\ delPc = "rm" => Cardinality(files) + MaxFaults - faultLeft > log_file_maxcount

LEMMA NewestInit == DaemonInit => NewestInv
BY FilesAtStart, BoundAssumption DEF DaemonInit, Init, NewestInv

LEMMA NewestStep == FileInv /\ NewestInv /\ [DaemonNext]_allVars => NewestInv'
<1> SUFFICES ASSUME FileInv, NewestInv, [DaemonNext]_allVars PROVE NewestInv'
    OBVIOUS
<1> USE BoundAssumption, ConfigAssumption
<1>t. /\ files \subseteq Nat /\ log_file_name \in Nat /\ faultLeft \in Nat
      /\ Cardinality(files) \in Nat /\ Cardinality(files') \in Nat
  <2>1. files \subseteq Names /\ files' \subseteq Names
    BY FileStep DEF FileInv, DaemonTypeOK
  <2>2. Cardinality(files) \in Nat /\ Cardinality(files') \in Nat
    BY <2>1, CountFiles
  <2> QED BY <2>2 DEF FileInv, DaemonTypeOK, Names
<1>g. \A f : /\ Cardinality(files \ {f}) >= Cardinality(files) - 1
             /\ Cardinality(files \cup {f}) >= Cardinality(files)
  <2>1. files \subseteq Names
    BY DEF FileInv, DaemonTypeOK
  <2>2. ASSUME NEW f
        PROVE  /\ Cardinality(files \ {f}) =
                     IF f \in files THEN Cardinality(files) - 1 ELSE Cardinality(files)
               /\ Cardinality(files \cup {f}) =
                     IF f \in files THEN Cardinality(files) ELSE Cardinality(files) + 1
    BY <2>1, CountFiles
  <2> QED BY <2>2, <1>t
<1> USE DEF NewestInv, fileVars, delVars, envVars, writeVars
<1>1. CASE ClientSend
    BY <1>1 DEF ClientSend, debug_send
<1>2. CASE DelRmFails
    BY <1>2, <1>t DEF DelRmFails, ShellFails, vars
<1>3. CASE ForeignRemove
  <2>1. Cardinality(files') >= Cardinality(files) - 1
    BY <1>3, <1>g DEF ForeignRemove, Remove
  <2> QED BY <2>1, <1>3, <1>t DEF ForeignRemove, Remove, vars
<1>4. CASE QueueStep
    BY <1>4, QueueMoves DEF QueueStep, daemonVars
<1>5. CASE FirstFile \/ OpenNext
  <2>1. PICK second \in Names :
            /\ second >= log_file_name /\ log_file_name' = second /\ files' = files \cup {second}
    BY <1>5, NewName DEF FirstFile, OpenNext, FileInv, DaemonTypeOK
  <2>2. Cardinality(files') >= Cardinality(files)
    BY <2>1, <1>g
  <2>3. second \in Nat /\ \A f \in files' : f <= second
    BY <2>1, <1>t DEF Names
  <2> QED BY <2>1, <2>2, <2>3, <1>5, <1>t DEF FirstFile, OpenNext
<1>6. CASE LoseMessage
    BY <1>6, <1>t DEF LoseMessage, WriteFail, WriterGoto
<1>7. CASE WriteMessage \/ KeepFile \/ ReplaceFile \/ CloseAndPost \/ OpenedAndPost
    BY <1>7 DEF WriteMessage, KeepFile, ReplaceFile, CloseAndPost, OpenedAndPost, WriteOk,
                CheckKeep, CheckRotate, CloseFile, Reopened, WriterGoto
<1>8. CASE DelStart \/ DelWait
    BY <1>8 DEF DelStart, DelWait, vars
<1>9. CASE DelCount \/ DelCountFails
  <2>1. CASE DelCount
    BY <2>1, <1>t DEF DelCount, CountIs, debug_send
  <2>2. CASE DelCountFails
    BY <2>2, <1>t DEF DelCountFails, CountIs, ShellFails, LOG_FAIL, debug_send
  <2> QED BY <1>9, <2>1, <2>2
<1>10. CASE DelRm
    BY <1>10 DEF DelRm, Remove, vars
<1>11. CASE UNCHANGED allVars
    BY <1>11 DEF allVars, vars, daemonVars
<1> QED BY <1>1, <1>2, <1>3, <1>4, <1>5, <1>6, <1>7, <1>8, <1>9, <1>10, <1>11
        DEF DaemonNext, Writer, Deleter

\* The deleting thread spares the file that the writer has open, as long as
\* fewer files are removed by others than log_file_maxcount.
THEOREM OpenFileCorrect ==
    ASSUME MaxFaults < log_file_maxcount
    PROVE  DaemonSpec => OpenFileIsKept
<1> USE BoundAssumption, ConfigAssumption
<1>1. DaemonInit => FileInv /\ NewestInv
    BY FileInit, NewestInit
<1>2. FileInv /\ NewestInv /\ [DaemonNext]_allVars => FileInv' /\ NewestInv'
    BY FileStep, NewestStep
<1>3. ASSUME FileInv, NewestInv, DelRm, WriterHasFile, FileExists
      PROVE  log_file_name \in files'
  <2>1. /\ files \subseteq Names /\ log_file_name \in files /\ faultLeft \in Nat
        /\ Cardinality(files) \in Nat
    BY <1>3, CountFiles DEF FileInv, DaemonTypeOK, FileExists
  <2>2. Cardinality(files) > 1
    BY <1>3, <2>1 DEF DelRm, NewestInv
  <2>3. PICK g \in files : g # log_file_name
    <3>1. Cardinality(files \ {log_file_name}) = Cardinality(files) - 1
        BY <2>1, CountFiles
    <3>2. files \ {log_file_name} # {}
        BY <3>1, <2>1, <2>2, FS_EmptySet
    <3> QED BY <3>2
  <2>4. g < log_file_name
    BY <2>1, <2>3, <1>3 DEF NewestInv, WriterHasFile, Names
  <2>5. Victim(files) \in files /\ Victim(files) <= g
    BY <2>1, OldestExists DEF Victim
  <2>6. Victim(files) # log_file_name
    BY <2>1, <2>4, <2>5 DEF Names
  <2> QED BY <2>1, <2>6, <1>3 DEF DelRm, Remove
<1>4. FileInv /\ NewestInv => [DelRm => (WriterHasFile /\ FileExists => log_file_name \in files')]_allVars
    BY <1>3
<1> QED BY <1>1, <1>2, <1>4, PTL DEF DaemonSpec, OpenFileIsKept
=============================================================================
