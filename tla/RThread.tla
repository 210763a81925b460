------------------------------- MODULE RThread -------------------------------
(***************************************************************************)
(* The thread pool of framework/src/core/rthread.c.  rthread_create builds *)
(* two independent pools (normal and tiny) from the same code; this module *)
(* is one of them.  thread_pool_size threads are started for either pool,  *)
(* but rthread_destroy joins only thread_num of them, which for the tiny   *)
(* pool is fewer: JoinedThreads.                                           *)
(*                                                                         *)
(* Every task has an owner that adds it, later asks it to stop             *)
(* (rthread_delete), waits for it with a timeout (rthread_wait_exit) and   *)
(* calls rthread_free.  The counter idle_thread_num is only printed and is *)
(* left out.                                                               *)
(***************************************************************************)
EXTENDS Naturals, Sequences, FiniteSets

CONSTANTS Threads,         \* the threads that rthread_create starts
          JoinedThreads,   \* the first thread_num of them
          Tasks,           \* the tasks that owners may add
          NoTask,          \* a worker that holds no task
          MayDestroy       \* whether somebody calls rthread_destroy

\* Either pool joins some thread.
ASSUME ThreadAssumption ==
    JoinedThreads \subseteq Threads /\ JoinedThreads # {} /\ "free" \notin Threads
ASSUME TaskAssumption == NoTask \notin Tasks
ASSUME DestroyAssumption == MayDestroy \in BOOLEAN

VARIABLES task_queue_head, task_queue_end, task_queue_size, next,   \* the queue
          queue_mutex,     \* "free" or the thread that holds it
          queue_cond,      \* the threads that wait on the condition
          is_pool_destroyed,
          pc, work,        \* thread_pool_entrance, per thread
          is_destroyed, is_runing, is_exited, exit_normal,   \* THREAD_TASK
          owner,           \* per task: where its owner is
          freed,           \* the tasks whose memory was released
          added, taken,    \* history: the tasks in the order in which they were
                           \* added, and in which workers took them
          destroyPc        \* the caller of rthread_destroy

queueVars == <<task_queue_head, task_queue_end, task_queue_size, next>>
taskVars == <<is_destroyed, is_runing, is_exited, exit_normal>>
vars == <<queueVars, queue_mutex, queue_cond, is_pool_destroyed, pc, work, taskVars,
          owner, freed, added, taken, destroyPc>>

WorkerStates == {"lock", "sleep", "waiting", "start", "run", "end", "exited"}
OwnerStates == {"new", "added", "deleted", "waited", "done"}

\* rthread_create: the pool is empty and its threads are about to lock.
Init ==
    /\ task_queue_head = NoTask /\ task_queue_end = NoTask /\ task_queue_size = 0
    /\ next = [t \in Tasks |-> NoTask]
    /\ queue_mutex = "free" /\ queue_cond = {}
    /\ is_pool_destroyed = 0
    /\ pc = [w \in Threads |-> "lock"] /\ work = [w \in Threads |-> NoTask]
    /\ is_destroyed = [t \in Tasks |-> 0] /\ is_runing = [t \in Tasks |-> 0]
    /\ is_exited = [t \in Tasks |-> 0] /\ exit_normal = [t \in Tasks |-> 0]
    /\ owner = [t \in Tasks |-> "new"]
    /\ freed = {} /\ added = <<>> /\ taken = <<>>
    /\ destroyPc = "idle"

-----------------------------------------------------------------------------
(* The owners of tasks.                                                    *)

\* pthread_cond_signal wakes one waiter, if there is one: it goes on to get
\* the mutex back.
CondSignal ==
    IF queue_cond = {}
    THEN UNCHANGED <<queue_cond, pc>>
    ELSE \E w \in queue_cond :
            /\ queue_cond' = queue_cond \ {w}
            /\ pc' = [pc EXCEPT ![w] = "lock"]

LinkKeepEnd(t) ==
    IF task_queue_head = NoTask
    THEN /\ task_queue_head' = t /\ task_queue_end' = t
         /\ UNCHANGED next
    ELSE /\ next' = [next EXCEPT ![task_queue_end] = t]
         /\ UNCHANGED <<task_queue_head, task_queue_end>>

\* The new task goes behind task_queue_end; its own next is NULL.
LinkTask(t) ==
    /\ task_queue_end' = t
    /\ IF task_queue_head = NoTask
       THEN task_queue_head' = t /\ UNCHANGED next
       ELSE next' = [next EXCEPT ![task_queue_end] = t] /\ UNCHANGED task_queue_head

CondNoSignal == UNCHANGED <<queue_cond, pc>>

NotifyOne == CondSignal

\* A pool that is being destroyed gets no new tasks: its handle is about to be
\* freed.
thread_pool_add_task(t) ==
    /\ owner[t] = "new"
    /\ destroyPc = "idle"
    /\ queue_mutex = "free"
    /\ LinkTask(t)
    /\ task_queue_size' = task_queue_size + 1
    /\ NotifyOne
    /\ owner' = [owner EXCEPT ![t] = "added"]
    /\ added' = Append(added, t)
    /\ UNCHANGED <<queue_mutex, is_pool_destroyed, work, taskVars, freed, taken, destroyPc>>

rthread_delete(t) ==
    /\ owner[t] = "added"
    /\ is_destroyed' = [is_destroyed EXCEPT ![t] = 1]
    /\ owner' = [owner EXCEPT ![t] = "deleted"]
    /\ UNCHANGED <<queueVars, queue_mutex, queue_cond, is_pool_destroyed, pc, work,
                   is_runing, is_exited, exit_normal, freed, taken, destroyPc, added>>

ExitNormalAlways(t) == 1
ExitNormalCounts(t) == exit_normal[t] + 1 + is_exited[t]

\* After the polling loop only is_exited counts, also after a timeout.
ExitNormal(t) == IF is_exited[t] = 1 THEN 1 ELSE exit_normal[t]

\* The loop ends when the task has exited, or after 10 seconds at any time.
rthread_wait_exit(t) ==
    /\ owner[t] = "deleted"
    /\ exit_normal' = [exit_normal EXCEPT ![t] = ExitNormal(t)]
    /\ owner' = [owner EXCEPT ![t] = "waited"]
    /\ UNCHANGED <<queueVars, queue_mutex, queue_cond, is_pool_destroyed, pc, work,
                   is_destroyed, is_runing, is_exited, freed, taken, destroyPc, added>>

rthread_free(t) ==
    /\ owner[t] = "waited"
    /\ freed' = (IF exit_normal[t] = 1 THEN freed \cup {t} ELSE freed)
    /\ owner' = [owner EXCEPT ![t] = "done"]
    /\ UNCHANGED <<queueVars, queue_mutex, queue_cond, is_pool_destroyed, pc, work,
                   taskVars, taken, destroyPc, added>>

Owner(t) ==
    thread_pool_add_task(t) \/ rthread_delete(t) \/ rthread_wait_exit(t) \/ rthread_free(t)

-----------------------------------------------------------------------------
(* thread_pool_entrance.  What a thread that nobody joined does with the   *)
(* mutex of a released pool is not defined: the model stops it there.      *)

PoolExists == destroyPc # "done"

\* The loop condition holds: the thread will wait, and still has the mutex.
DecideToWait(w) ==
    /\ pc[w] = "lock" /\ queue_mutex = "free"
    /\ PoolExists
    /\ task_queue_size = 0 /\ is_pool_destroyed = 0
    /\ queue_mutex' = w
    /\ pc' = [pc EXCEPT ![w] = "sleep"]
    /\ UNCHANGED <<queueVars, queue_cond, is_pool_destroyed, work, taskVars, owner, freed,
                   taken, destroyPc, added>>

\* pthread_cond_wait: wait and release the mutex in one step.
CondWait(w) ==
    /\ pc[w] = "sleep" /\ PoolExists
    /\ queue_cond' = queue_cond \cup {w}
    /\ queue_mutex' = "free"
    /\ pc' = [pc EXCEPT ![w] = "waiting"]
    /\ UNCHANGED <<queueVars, is_pool_destroyed, work, taskVars, owner, freed, taken, destroyPc, added>>

\* pthread_cond_wait may return without a signal.
SpuriousWakeup(w) ==
    /\ w \in queue_cond /\ PoolExists
    /\ queue_cond' = queue_cond \ {w}
    /\ pc' = [pc EXCEPT ![w] = "lock"]
    /\ UNCHANGED <<queueVars, queue_mutex, is_pool_destroyed, work, taskVars, owner, freed,
                   taken, destroyPc, added>>

ExitThread(w) ==
    /\ pc[w] = "lock" /\ queue_mutex = "free"
    /\ PoolExists
    /\ is_pool_destroyed = 1
    /\ pc' = [pc EXCEPT ![w] = "exited"]
    /\ UNCHANGED <<queueVars, queue_mutex, queue_cond, is_pool_destroyed, work, taskVars,
                   owner, freed, taken, destroyPc, added>>

HeadStays == task_queue_head

HeadAfterTake == next[task_queue_head]

\* One step with the test of the flag: rthread_destroy sets the flag without the
\* mutex, but touches the queue only after a joined thread has had it again.
TakeTask(w) ==
    /\ pc[w] = "lock" /\ queue_mutex = "free"
    /\ PoolExists
    /\ task_queue_size # 0 /\ is_pool_destroyed = 0
    /\ work' = [work EXCEPT ![w] = task_queue_head]
    /\ task_queue_head' = HeadAfterTake
    /\ task_queue_end' = (IF task_queue_head' = NoTask THEN NoTask ELSE task_queue_end)
    /\ task_queue_size' = task_queue_size - 1
    /\ taken' = Append(taken, task_queue_head)
    /\ pc' = [pc EXCEPT ![w] = "start"]
    /\ UNCHANGED <<next, queue_mutex, queue_cond, is_pool_destroyed, taskVars, owner, freed,
                   destroyPc, added>>

StartTask(w) ==
    /\ pc[w] = "start"
    /\ is_runing' = [is_runing EXCEPT ![work[w]] = 1]
    /\ is_exited' = [is_exited EXCEPT ![work[w]] = 0]
    /\ pc' = [pc EXCEPT ![w] = "run"]
    /\ UNCHANGED <<queueVars, queue_mutex, queue_cond, is_pool_destroyed, work, is_destroyed,
                   exit_normal, owner, freed, taken, destroyPc, added>>

\* task_fun returns.
TaskReturns(w) ==
    /\ pc[w] = "run"
    /\ is_runing' = [is_runing EXCEPT ![work[w]] = 0]
    /\ pc' = [pc EXCEPT ![w] = "end"]
    /\ UNCHANGED <<queueVars, queue_mutex, queue_cond, is_pool_destroyed, work, is_destroyed,
                   is_exited, exit_normal, owner, freed, taken, destroyPc, added>>

\* The last access to the task.
TaskExited(w) ==
    /\ pc[w] = "end"
    /\ is_exited' = [is_exited EXCEPT ![work[w]] = 1]
    /\ work' = [work EXCEPT ![w] = NoTask]
    /\ pc' = [pc EXCEPT ![w] = "lock"]
    /\ UNCHANGED <<queueVars, queue_mutex, queue_cond, is_pool_destroyed, is_destroyed,
                   is_runing, exit_normal, owner, freed, taken, destroyPc, added>>

\* Everything a worker does on its own; when a task returns is up to the task.
WorkerStep(w) ==
    DecideToWait(w) \/ CondWait(w) \/ ExitThread(w) \/ TakeTask(w) \/ StartTask(w) \/ TaskExited(w)

-----------------------------------------------------------------------------
(* rthread_destroy                                                         *)

\* The flag is set without the mutex.
DestroyFlag ==
    /\ MayDestroy
    /\ destroyPc = "idle"
    /\ is_pool_destroyed' = 1
    /\ destroyPc' = "broadcast"
    /\ UNCHANGED <<queueVars, queue_mutex, queue_cond, pc, work, taskVars, owner, freed, taken, added>>

DestroyBroadcast ==
    /\ destroyPc = "broadcast"
    /\ pc' = [w \in Threads |-> IF w \in queue_cond THEN "lock" ELSE pc[w]]
    /\ queue_cond' = {}
    /\ destroyPc' = "join"
    /\ UNCHANGED <<queueVars, queue_mutex, is_pool_destroyed, work, taskVars, owner, freed, taken, added>>

AllJoined == \A w \in JoinedThreads : pc[w] = "exited"

\* The joined threads are gone: the queued tasks are released one by one ...
DestroyJoined ==
    /\ destroyPc = "join"
    /\ AllJoined
    /\ destroyPc' = "free"
    /\ UNCHANGED <<queueVars, queue_mutex, queue_cond, is_pool_destroyed, pc, work, taskVars,
                   owner, freed, taken, added>>

DropTheRest == NoTask

HeadAfterFree == next[task_queue_head]

FreeTask ==
    /\ destroyPc = "free"
    /\ task_queue_head # NoTask
    /\ task_queue_head' = HeadAfterFree
    /\ freed' = freed \cup {task_queue_head}
    /\ UNCHANGED <<task_queue_end, task_queue_size, next, queue_mutex, queue_cond,
                   is_pool_destroyed, pc, work, taskVars, owner, taken, added, destroyPc>>

\* ... and then the pool.
FreePool ==
    /\ destroyPc = "free"
    /\ task_queue_head = NoTask
    /\ destroyPc' = "done"
    /\ UNCHANGED <<queueVars, queue_mutex, queue_cond, is_pool_destroyed, pc, work, taskVars,
                   owner, freed, taken, added>>

Destroyer == DestroyFlag \/ DestroyBroadcast \/ DestroyJoined \/ FreeTask \/ FreePool

Next ==
    \/ \E t \in Tasks : Owner(t)
    \/ \E w \in Threads : WorkerStep(w) \/ SpuriousWakeup(w) \/ TaskReturns(w)
    \/ Destroyer

Spec == Init /\ [][Next]_vars

(***************************************************************************)
(* The threads run; a free mutex is got by whoever asks again and again.   *)
(* Owners and tasks owe nothing: a task may run for ever.                  *)
(***************************************************************************)
FairSpec ==
    /\ Spec
    /\ \A w \in Threads : /\ WF_vars(CondWait(w)) /\ WF_vars(StartTask(w)) /\ WF_vars(TaskExited(w))
                          /\ SF_vars(TakeTask(w)) /\ SF_vars(DecideToWait(w)) /\ SF_vars(ExitThread(w))

\* The same, and every task returns in the end: what rthread_destroy needs.
EndingSpec ==
    /\ FairSpec
    /\ \A w \in Threads : WF_vars(TaskReturns(w))
    /\ WF_vars(DestroyBroadcast)
    /\ WF_vars(DestroyJoined) /\ WF_vars(FreeTask) /\ WF_vars(FreePool)

-----------------------------------------------------------------------------
(* Properties                                                              *)

\* Type invariant of the pool.
TypeOK ==
    /\ task_queue_head \in Tasks \cup {NoTask} /\ task_queue_end \in Tasks \cup {NoTask}
    /\ task_queue_size \in Nat /\ next \in [Tasks -> Tasks \cup {NoTask}]
    /\ added \in Seq(Tasks) /\ taken \in Seq(Tasks)
    /\ queue_mutex \in Threads \cup {"free"}
    /\ queue_cond \subseteq Threads
    /\ is_pool_destroyed \in {0, 1}
    /\ pc \in [Threads -> WorkerStates] /\ work \in [Threads -> Tasks \cup {NoTask}]
    /\ is_destroyed \in [Tasks -> {0, 1}] /\ is_runing \in [Tasks -> {0, 1}]
    /\ is_exited \in [Tasks -> {0, 1}] /\ exit_normal \in [Tasks -> {0, 1}]
    /\ owner \in [Tasks -> OwnerStates]
    /\ freed \subseteq Tasks
    /\ destroyPc \in {"idle", "broadcast", "join", "free", "done"}

\* The tasks that a worker holds and will still read or write.
Held(w) == IF pc[w] \in {"start", "run", "end"} THEN {work[w]} ELSE {}

\* rthread_free and rthread_destroy release a task only when no worker will
\* touch it any more, and none that the queue still leads to: nothing is
\* released twice (rthread.c:430-437 and 223-230 against rthread.c:646-668).
NoUseAfterFree ==
    /\ \A w \in Threads : Held(w) \cap freed = {}
    /\ task_queue_head \notin freed

\* No task is given to two workers, nor to a second one after it has run
\* (rthread.c:646-655).
TakenOnce ==
    \A i, j \in DOMAIN taken : i # j => taken[i] # taken[j]

\* Head, end, links and size describe the same queue: the tasks of which the
\* positions in "added" are above that of the last one taken.
QueueListsTheRest ==
    LET Rest == Len(taken) + 1 .. Len(added) IN
    /\ task_queue_size = Len(added) - Len(taken)
    /\ task_queue_head = IF Rest = {} THEN NoTask ELSE added[Len(taken) + 1]
    /\ task_queue_end = IF Rest = {} THEN NoTask ELSE added[Len(added)]
    /\ \A i \in Rest : next[added[i]] = IF i = Len(added) THEN NoTask ELSE added[i + 1]

\* Tasks start in the order in which they were added, and until the pool is
\* released an added task is either taken or in the queue: the three ways to
\* tell the empty queue (size for a worker, head for rthread_add, end) agree
\* through every sequence of additions and removals
\* (rthread.c:583-592 against rthread.c:629 and 646-654).
FirstComeFirstServed ==
    destroyPc \notin {"free", "done"} =>
        /\ \A i \in DOMAIN taken : i \in DOMAIN added /\ taken[i] = added[i]
        /\ QueueListsTheRest

\* rthread_destroy leaves no queued task behind, although threads that it does
\* not join (rthread.c:218, where the tiny pool has more) may still serve theirs:
\* when it returns, every task that was added and not taken is released
\* (rthread.c:223-230).
QueueIsReleased ==
    destroyPc = "done" =>
        \A i \in DOMAIN added : i \notin DOMAIN taken => added[i] \in freed

\* No added task is forgotten: it is taken, unless in the end all threads are
\* kept by tasks that never return or the pool is destroyed; one signal per
\* task is enough (rthread.c:593 against rthread.c:629-631).
AllBusy == \A w \in Threads : pc[w] = "run"

AddedIsStarted ==
    \A t \in Tasks :
        \/ <>[](AllBusy \/ destroyPc # "idle")
        \/ (owner[t] = "added") ~> (\E i \in DOMAIN taken : taken[i] = t)

\* rthread_destroy reaches every waiting thread and returns.
DestroyReturns == (destroyPc = "broadcast") ~> (destroyPc = "done")
=============================================================================
