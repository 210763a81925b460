---------------------------- MODULE RThreadProofs ----------------------------
(***************************************************************************)
(* Proofs about RThread for any number of threads and tasks: type          *)
(* correctness, the order in which tasks are taken, that no task is        *)
(* released while a worker may still use it or twice, and that             *)
(* rthread_destroy leaves no queued task behind, also in a pool with       *)
(* threads that it does not join.                                          *)
(***************************************************************************)
EXTENDS RThread, SequenceTheorems, TLAPS

USE ThreadAssumption, TaskAssumption, DestroyAssumption

\* A worker that may take a task finds one at the head (proved below as
\* HeadIsThere).
HeadToTake == task_queue_size # 0 /\ is_pool_destroyed = 0 => task_queue_head \in Tasks

LEMMA TypeStep == TypeOK /\ HeadToTake /\ [Next]_vars => TypeOK'
<1> SUFFICES ASSUME TypeOK, HeadToTake, [Next]_vars PROVE TypeOK'
    OBVIOUS
<1> USE DEF TypeOK, taskVars, queueVars, WorkerStates, OwnerStates
<1>1. ASSUME NEW t \in Tasks, thread_pool_add_task(t) PROVE TypeOK'
  <2>1. /\ task_queue_head' \in Tasks \cup {NoTask} /\ task_queue_end' \in Tasks \cup {NoTask}
        /\ task_queue_size' \in Nat /\ next' \in [Tasks -> Tasks \cup {NoTask}]
        /\ added' \in Seq(Tasks)
      BY <1>1 DEF thread_pool_add_task, LinkTask
  <2>2. queue_cond' \subseteq Threads /\ pc' \in [Threads -> WorkerStates]
    <3>1. CASE queue_cond = {}
        BY <1>1, <3>1 DEF thread_pool_add_task, NotifyOne, CondSignal
    <3>2. CASE queue_cond # {}
        BY <1>1, <3>2 DEF thread_pool_add_task, NotifyOne, CondSignal
    <3> QED BY <3>1, <3>2
  <2> QED BY <1>1, <2>1, <2>2 DEF thread_pool_add_task
<1>2. ASSUME NEW t \in Tasks, rthread_delete(t) \/ rthread_wait_exit(t) \/ rthread_free(t)
      PROVE  TypeOK'
    BY <1>2 DEF rthread_delete, rthread_wait_exit, rthread_free, ExitNormal
<1>3. ASSUME NEW w \in Threads, DecideToWait(w) \/ CondWait(w) \/ SpuriousWakeup(w) \/ ExitThread(w)
      PROVE  TypeOK'
    BY <1>3 DEF DecideToWait, CondWait, SpuriousWakeup, ExitThread
<1>4. ASSUME NEW w \in Threads, TakeTask(w) PROVE TypeOK'
  <2>1. task_queue_head \in Tasks /\ task_queue_size - 1 \in Nat
      BY <1>4 DEF TakeTask, HeadToTake
  <2>2. next[task_queue_head] \in Tasks \cup {NoTask} /\ Append(taken, task_queue_head) \in Seq(Tasks)
      BY <2>1
  <2> QED BY <1>4, <2>1, <2>2 DEF TakeTask, HeadAfterTake
<1>5. ASSUME NEW w \in Threads, StartTask(w) \/ TaskReturns(w) \/ TaskExited(w) PROVE TypeOK'
  <2>1. CASE StartTask(w)
      BY <2>1 DEF StartTask
  <2>2. CASE TaskReturns(w)
      BY <2>2 DEF TaskReturns
  <2>3. CASE TaskExited(w)
      BY <2>3 DEF TaskExited
  <2> QED BY <1>5, <2>1, <2>2, <2>3
<1>6. CASE Destroyer
    BY <1>6 DEF Destroyer, DestroyFlag, DestroyBroadcast, DestroyJoined, FreeTask, FreePool, HeadAfterFree
<1>7. CASE UNCHANGED vars
    BY <1>7 DEF vars
<1> QED BY <1>1, <1>2, <1>3, <1>4, <1>5, <1>6, <1>7 DEF Next, Owner, WorkerStep

-----------------------------------------------------------------------------
(***************************************************************************)
(* The order of tasks.  A task is added once; what was taken is a prefix   *)
(* of what was added, and as long as the pool is not being released the    *)
(* pointers list the rest.  A pool with a flag still down is not being     *)
(* destroyed, so a worker that takes a task finds them in this order.      *)
(***************************************************************************)
InUse == destroyPc \notin {"free", "done"}

AddedInv ==
    /\ \A i \in DOMAIN added : owner[added[i]] # "new"
    /\ \A i, j \in DOMAIN added : added[i] = added[j] => i = j
    /\ \A t \in Tasks : owner[t] = "new" => next[t] = NoTask

PrefixInv == Len(taken) <= Len(added) /\ \A i \in 1 .. Len(taken) : taken[i] = added[i]

OrderInv ==
    /\ TypeOK
    /\ destroyPc # "idle" => is_pool_destroyed = 1
    /\ AddedInv
    /\ PrefixInv
    /\ InUse => QueueListsTheRest

\* What a step leaves alone when it neither adds, takes nor releases.
LEMMA OrderKept ==
    ASSUME OrderInv, TypeOK', InUse' => InUse,
           destroyPc' # "idle" => is_pool_destroyed' = 1,
           UNCHANGED <<next, added, taken>>,
           \A t \in Tasks : owner'[t] = "new" <=> owner[t] = "new",
           InUse' => UNCHANGED <<task_queue_head, task_queue_end, task_queue_size>>
    PROVE  OrderInv'
<1>1. AddedInv'
  <2>1. \A i \in DOMAIN added : added[i] \in Tasks
      BY DEF OrderInv, TypeOK
  <2> QED BY <2>1 DEF OrderInv, AddedInv
<1>2. PrefixInv'
    BY DEF OrderInv, PrefixInv
<1>3. InUse' => QueueListsTheRest'
    BY DEF OrderInv, QueueListsTheRest
<1> QED BY <1>1, <1>2, <1>3 DEF OrderInv

LEMMA OrderAdd ==
    ASSUME OrderInv, TypeOK', NEW t \in Tasks, thread_pool_add_task(t)
    PROVE  OrderInv'
<1> DEFINE n == Len(added)
           k == Len(taken)
<1>1. /\ owner[t] = "new" /\ owner' = [owner EXCEPT ![t] = "added"] /\ destroyPc = "idle"
      /\ added' = Append(added, t) /\ task_queue_size' = task_queue_size + 1
      /\ UNCHANGED <<taken, destroyPc, is_pool_destroyed>>
    BY DEF thread_pool_add_task
<1>2. /\ added \in Seq(Tasks) /\ taken \in Seq(Tasks) /\ n \in Nat /\ k \in Nat
      /\ owner \in [Tasks -> OwnerStates] /\ next \in [Tasks -> Tasks \cup {NoTask}]
      /\ Len(added') = n + 1 /\ added'[n + 1] = t /\ DOMAIN added' = 1 .. n + 1
      /\ \A i \in 1 .. n : added'[i] = added[i] /\ added[i] \in Tasks
    BY <1>1 DEF OrderInv, TypeOK
<1>3. \A i \in 1 .. n : added[i] # t /\ owner[added[i]] # "new"
    BY <1>1, <1>2 DEF OrderInv, AddedInv
<1>4. k <= n /\ \A i \in 1 .. k : taken[i] = added[i]
    BY DEF OrderInv, PrefixInv
<1>9. \A i, j \in 1 .. n : added[i] = added[j] => i = j
  <2>1. DOMAIN added = 1 .. n
      BY <1>2
  <2> QED BY <2>1 DEF OrderInv, AddedInv
<1>5. QueueListsTheRest /\ next[t] = NoTask
    BY <1>1 DEF OrderInv, InUse, AddedInv
<1>6. PrefixInv'
    BY <1>1, <1>2, <1>4 DEF PrefixInv
<1>7. CASE k = n
  <2>1. task_queue_head = NoTask /\ task_queue_size = 0
      BY <1>2, <1>5, <1>7 DEF QueueListsTheRest
  <2>2. task_queue_head' = t /\ task_queue_end' = t /\ next' = next
      BY <2>1 DEF thread_pool_add_task, LinkTask
  <2>3. AddedInv'
    <3>1. \A i \in DOMAIN added' : owner'[added'[i]] # "new"
        BY <1>1, <1>2, <1>3
    <3>2. \A i, j \in DOMAIN added' : added'[i] = added'[j] => i = j
        BY <1>2, <1>3, <1>9
    <3>3. \A u \in Tasks : owner'[u] = "new" => next'[u] = NoTask
        BY <2>2, <1>1, <1>2 DEF OrderInv, AddedInv
    <3> QED BY <3>1, <3>2, <3>3 DEF AddedInv
  <2>4. QueueListsTheRest'
      BY <1>1, <1>2, <1>5, <1>7, <2>1, <2>2 DEF QueueListsTheRest
  <2> QED BY <1>1, <1>6, <2>3, <2>4 DEF OrderInv
<1>8. CASE k # n
  <2> DEFINE e == added[n]
  <2>1. /\ task_queue_head = added[k + 1] /\ task_queue_end = e /\ task_queue_size = n - k
        /\ task_queue_head \in Tasks /\ e \in Tasks
      BY <1>2, <1>4, <1>5, <1>8 DEF QueueListsTheRest
  <2>2. task_queue_head' = task_queue_head /\ task_queue_end' = t /\ next' = [next EXCEPT ![e] = t]
      BY <2>1, TaskAssumption DEF thread_pool_add_task, LinkTask
  <2>3. /\ next'[e] = t /\ \A u \in Tasks \ {e} : next'[u] = next[u]
        /\ owner[e] # "new" /\ e # t
      BY <1>2, <1>3, <1>4, <1>8, <2>1, <2>2
  <2>4. AddedInv'
    <3>1. \A i \in DOMAIN added' : owner'[added'[i]] # "new"
        BY <1>1, <1>2, <1>3
    <3>2. \A i, j \in DOMAIN added' : added'[i] = added'[j] => i = j
        BY <1>2, <1>3, <1>9
    <3>3. \A u \in Tasks : owner'[u] = "new" => next'[u] = NoTask
        BY <2>3, <1>1, <1>2 DEF OrderInv, AddedInv
    <3> QED BY <3>1, <3>2, <3>3 DEF AddedInv
  <2>5. \A i \in k + 1 .. n + 1 :
            next'[added'[i]] = IF i = n + 1 THEN NoTask ELSE added'[i + 1]
    <3> TAKE i \in k + 1 .. n + 1
    <3>1. CASE i = n + 1
        BY <3>1, <1>2, <1>5, <2>3
    <3>2. CASE i = n
        BY <3>2, <1>2, <2>3
    <3>3. CASE i < n
      <4>1. i \in 1 .. n /\ i + 1 \in 1 .. n /\ n \in 1 .. n /\ i # n
          BY <3>3, <1>2, <1>4
      <4>2. added[i] # e
          BY <4>1, <1>2 DEF OrderInv, AddedInv
      <4>3. next[added[i]] = added[i + 1]
          BY <4>1, <1>2, <1>5 DEF QueueListsTheRest
      <4> QED BY <4>1, <4>2, <4>3, <1>2, <2>3
    <3> QED BY <3>1, <3>2, <3>3, <1>2
  <2>6. QueueListsTheRest'
    <3>1. task_queue_size' = Len(added') - Len(taken')
        BY <1>1, <1>2, <2>1
    <3>2. task_queue_head' = added'[k + 1] /\ task_queue_end' = added'[Len(added')]
        BY <1>2, <1>4, <1>8, <2>1, <2>2
    <3>3. Len(taken) + 1 .. Len(added') # {}
        BY <1>2, <1>4
    <3> QED BY <3>1, <3>2, <3>3, <2>5, <1>1, <1>2 DEF QueueListsTheRest
  <2> QED BY <1>1, <1>6, <2>4, <2>6 DEF OrderInv
<1> QED BY <1>7, <1>8

\* A worker that finds size and flag in its favour finds a task at the head.
LEMMA HeadIsThere ==
    ASSUME OrderInv, task_queue_size # 0, is_pool_destroyed = 0
    PROVE  /\ InUse /\ QueueListsTheRest /\ Len(taken) + 1 \in 1 .. Len(added)
           /\ task_queue_head = added[Len(taken) + 1] /\ task_queue_head \in Tasks
<1>1. InUse
    BY DEF OrderInv, InUse
<1>2. QueueListsTheRest /\ Len(taken) <= Len(added)
    BY <1>1 DEF OrderInv, PrefixInv
<1>3. added \in Seq(Tasks) /\ taken \in Seq(Tasks) /\ Len(added) \in Nat /\ Len(taken) \in Nat
    BY DEF OrderInv, TypeOK
<1>4. Len(taken) + 1 \in 1 .. Len(added) /\ task_queue_head = added[Len(taken) + 1]
    BY <1>2, <1>3 DEF QueueListsTheRest
<1>5. task_queue_head \in Tasks
    BY <1>3, <1>4
<1> QED BY <1>1, <1>2, <1>4, <1>5

\* The task that a worker takes is the next one in the order of addition.
LEMMA TakesNext ==
    ASSUME OrderInv, NEW w \in Threads, TakeTask(w)
    PROVE  /\ InUse /\ Len(taken) + 1 \in 1 .. Len(added)
           /\ task_queue_head = added[Len(taken) + 1] /\ task_queue_head \in Tasks
           /\ Len(taken') = Len(taken) + 1 /\ taken'[Len(taken) + 1] = task_queue_head
           /\ \A i \in 1 .. Len(taken) : taken'[i] = taken[i]
<1>1. task_queue_size # 0 /\ is_pool_destroyed = 0 /\ taken' = Append(taken, task_queue_head)
    BY DEF TakeTask
<1>2. taken \in Seq(Tasks) /\ Len(taken) \in Nat
    BY DEF OrderInv, TypeOK
<1>3. task_queue_head \in Tasks
    BY <1>1, HeadIsThere
<1> QED BY <1>1, <1>2, <1>3, HeadIsThere

LEMMA OrderTake ==
    ASSUME OrderInv, TypeOK', NEW w \in Threads, TakeTask(w)
    PROVE  OrderInv'
<1> DEFINE n == Len(added)
           k == Len(taken)
<1>1. /\ InUse /\ k + 1 \in 1 .. n /\ task_queue_head = added[k + 1]
      /\ Len(taken') = k + 1 /\ taken'[k + 1] = task_queue_head
      /\ \A i \in 1 .. k : taken'[i] = taken[i]
      /\ added \in Seq(Tasks) /\ n \in Nat /\ k \in Nat
    BY TakesNext DEF OrderInv, TypeOK
<1>2. /\ task_queue_head' = next[task_queue_head] /\ task_queue_size' = task_queue_size - 1
      /\ task_queue_end' = IF task_queue_head' = NoTask THEN NoTask ELSE task_queue_end
      /\ UNCHANGED <<next, added, owner, is_pool_destroyed, destroyPc>>
    BY DEF TakeTask, HeadAfterTake
<1>3. QueueListsTheRest
    BY <1>1 DEF OrderInv
<1>4. /\ task_queue_size = n - k /\ task_queue_end = added[n]
      /\ \A i \in k + 1 .. n : next[added[i]] = IF i = n THEN NoTask ELSE added[i + 1]
    BY <1>1, <1>3 DEF QueueListsTheRest
<1>5. AddedInv'
    BY <1>2 DEF OrderInv, AddedInv
<1>6. PrefixInv'
    BY <1>1, <1>2 DEF OrderInv, PrefixInv
<1>7. \A i \in 1 .. n : added[i] \in Tasks /\ added[i] # NoTask
    BY <1>1, TaskAssumption
<1>8. QueueListsTheRest'
  <2>1. CASE k + 1 = n
    <3>1. task_queue_head' = NoTask /\ task_queue_end' = NoTask /\ task_queue_size' = 0
        BY <1>1, <1>2, <1>4, <2>1
    <3> QED BY <3>1, <1>1, <1>2, <2>1 DEF QueueListsTheRest
  <2>2. CASE k + 1 # n
    <3>1. task_queue_head' = added[k + 2] /\ k + 2 \in 1 .. n
        BY <1>1, <1>2, <1>4, <2>2
    <3>2. task_queue_end' = added[n]
        BY <3>1, <1>2, <1>4, <1>7
    <3> QED BY <3>1, <3>2, <1>1, <1>2, <1>4, <2>2 DEF QueueListsTheRest
  <2> QED BY <2>1, <2>2
<1> QED BY <1>2, <1>5, <1>6, <1>8 DEF OrderInv

LEMMA OrderStep == OrderInv /\ [Next]_vars => OrderInv'
<1> SUFFICES ASSUME OrderInv, [Next]_vars PROVE OrderInv'
    OBVIOUS
<1>0. TypeOK /\ TypeOK'
    BY TypeStep, HeadIsThere DEF OrderInv, HeadToTake
<1>1. ASSUME NEW t \in Tasks, thread_pool_add_task(t) PROVE OrderInv'
    BY <1>0, <1>1, OrderAdd
<1>2. ASSUME NEW w \in Threads, TakeTask(w) PROVE OrderInv'
    BY <1>0, <1>2, OrderTake
<1>3. ASSUME NEW t \in Tasks, rthread_delete(t) \/ rthread_wait_exit(t) \/ rthread_free(t)
      PROVE  OrderInv'
  <2>1. \A u \in Tasks : owner'[u] = "new" <=> owner[u] = "new"
      BY <1>0, <1>3 DEF rthread_delete, rthread_wait_exit, rthread_free, TypeOK
  <2>2. UNCHANGED <<queueVars, added, taken, destroyPc, is_pool_destroyed>>
      BY <1>3 DEF rthread_delete, rthread_wait_exit, rthread_free
  <2> QED BY <1>0, <2>1, <2>2, OrderKept DEF OrderInv, InUse, queueVars
<1>4. ASSUME NEW w \in Threads,
             DecideToWait(w) \/ CondWait(w) \/ SpuriousWakeup(w) \/ ExitThread(w)
                 \/ StartTask(w) \/ TaskReturns(w) \/ TaskExited(w)
      PROVE  OrderInv'
  <2>1. UNCHANGED <<queueVars, added, taken, destroyPc, is_pool_destroyed, owner>>
      BY <1>4 DEF DecideToWait, CondWait, SpuriousWakeup, ExitThread, StartTask, TaskReturns, TaskExited
  <2> QED BY <1>0, <2>1, OrderKept DEF OrderInv, InUse, queueVars
<1>5. CASE DestroyFlag \/ DestroyBroadcast \/ DestroyJoined \/ FreePool
  <2>1. /\ UNCHANGED <<queueVars, added, taken, owner>>
        /\ destroyPc' # "idle" /\ is_pool_destroyed' = 1
        /\ InUse' => InUse
      BY <1>5 DEF DestroyFlag, DestroyBroadcast, DestroyJoined, FreePool, OrderInv, InUse
  <2> QED BY <1>0, <2>1, OrderKept DEF queueVars
<1>6. CASE FreeTask
  <2>1. /\ UNCHANGED <<next, added, taken, owner, is_pool_destroyed>>
        /\ destroyPc = "free" /\ destroyPc' = "free"
      BY <1>6 DEF FreeTask
  <2> QED BY <1>0, <2>1, OrderKept DEF OrderInv, InUse
<1>7. CASE UNCHANGED vars
  <2>1. UNCHANGED <<queueVars, added, taken, owner, is_pool_destroyed, destroyPc>>
      BY <1>7 DEF vars
  <2> QED BY <1>0, <2>1, OrderKept DEF OrderInv, InUse, queueVars
<1> QED BY <1>1, <1>2, <1>3, <1>4, <1>5, <1>6, <1>7 DEF Next, Owner, WorkerStep, Destroyer

LEMMA OrderInit == Init => OrderInv
<1> SUFFICES ASSUME Init PROVE OrderInv
    OBVIOUS
<1>1. TypeOK
    BY DEF Init, TypeOK, WorkerStates, OwnerStates
<1> QED BY <1>1 DEF Init, OrderInv, AddedInv, PrefixInv, QueueListsTheRest

\* The pool keeps its types.
THEOREM TypeCorrect == Spec => []TypeOK
<1>1. OrderInv => TypeOK
    BY DEF OrderInv
<1> QED BY <1>1, OrderInit, OrderStep, PTL DEF Spec

\* Tasks are taken in the order in which they were added, and head, end, links
\* and size of the queue list exactly those that are left
\* (rthread.c:583-592 and 646-654).
THEOREM OrderCorrect == Spec => []FirstComeFirstServed
<1>1. OrderInv => FirstComeFirstServed
  <2> SUFFICES ASSUME OrderInv PROVE FirstComeFirstServed
      OBVIOUS
  <2>1. DOMAIN taken = 1 .. Len(taken) /\ DOMAIN added = 1 .. Len(added)
        /\ Len(taken) \in Nat /\ Len(added) \in Nat
      BY DEF OrderInv, TypeOK
  <2> QED BY <2>1 DEF OrderInv, PrefixInv, InUse, FirstComeFirstServed
<1> QED BY <1>1, OrderInit, OrderStep, PTL DEF Spec

\* No task is given to two workers or run again (rthread.c:646-655).
THEOREM EachTaskOnce == Spec => []TakenOnce
<1>1. OrderInv => TakenOnce
  <2> SUFFICES ASSUME OrderInv PROVE TakenOnce
      OBVIOUS
  <2>1. DOMAIN taken = 1 .. Len(taken) /\ DOMAIN added = 1 .. Len(added)
        /\ Len(taken) \in Nat /\ Len(added) \in Nat
      BY DEF OrderInv, TypeOK
  <2> QED BY <2>1 DEF OrderInv, PrefixInv, AddedInv, TakenOnce
<1> QED BY <1>1, OrderInit, OrderStep, PTL DEF Spec

-----------------------------------------------------------------------------
(***************************************************************************)
(* What is released.  A task that a worker holds was taken and has not     *)
(* exited; rthread_free releases tasks that have exited and                *)
(* rthread_destroy such as were never taken, from the front of what is     *)
(* left: up to position f - 1 of "added".                                  *)
(***************************************************************************)
Among(t, s) == \E i \in 1 .. Len(s) : s[i] = t

Runs(w) == pc[w] \in {"start", "run", "end"}

HeldInv ==
    /\ \A w \in Threads : Runs(w) => work[w] \in Tasks /\ Among(work[w], taken) /\ is_exited[work[w]] = 0
    /\ \A v, w \in Threads : Runs(v) /\ Runs(w) /\ v # w => work[v] # work[w]

ExitInv ==
    /\ \A t \in Tasks : is_exited[t] = 1 => Among(t, taken)
    /\ \A t \in Tasks : exit_normal[t] = 1 => is_exited[t] = 1

FreedInv == \A t \in freed : is_exited[t] = 1 \/ (~InUse /\ ~Among(t, taken))

ReleasedTo(f) ==
    /\ InUse => f = Len(taken) + 1
    /\ task_queue_head = IF f > Len(added) THEN NoTask ELSE added[f]
    /\ \A i \in f .. Len(added) : next[added[i]] = IF i = Len(added) THEN NoTask ELSE added[i + 1]
    /\ \A i \in f .. Len(added) : added[i] \notin freed
    /\ \A i \in Len(taken) + 1 .. f - 1 : added[i] \in freed

ReleaseInv ==
    /\ \E f \in Len(taken) + 1 .. Len(added) + 1 : ReleasedTo(f)
    /\ destroyPc = "done" => task_queue_head = NoTask

PoolInv == OrderInv /\ HeldInv /\ ExitInv /\ FreedInv /\ ReleaseInv

LEMMA SequenceFacts ==
    ASSUME OrderInv
    PROVE  /\ Len(added) \in Nat /\ Len(taken) \in Nat /\ Len(taken) <= Len(added)
           /\ DOMAIN added = 1 .. Len(added) /\ DOMAIN taken = 1 .. Len(taken)
           /\ \A i \in 1 .. Len(added) : added[i] \in Tasks /\ added[i] # NoTask
           /\ \A i, j \in 1 .. Len(added) : added[i] = added[j] => i = j
           /\ \A i \in 1 .. Len(taken) : taken[i] = added[i] /\ i \in 1 .. Len(added)
<1>1. added \in Seq(Tasks) /\ taken \in Seq(Tasks)
    BY DEF OrderInv, TypeOK
<1>2. Len(taken) <= Len(added) /\ \A i \in 1 .. Len(taken) : taken[i] = added[i]
    BY DEF OrderInv, PrefixInv
<1> QED BY <1>1, <1>2 DEF OrderInv, AddedInv

\* A task that is still to be taken has not been taken.
LEMMA RestNotTaken ==
    ASSUME OrderInv, NEW i \in Len(taken) + 1 .. Len(added)
    PROVE  i \in 1 .. Len(added) /\ added[i] \in Tasks /\ ~Among(added[i], taken)
<1>1. i \in 1 .. Len(added) /\ \A k \in 1 .. Len(taken) : k # i
    BY SequenceFacts
<1> QED BY <1>1, SequenceFacts DEF Among

\* A step that leaves the queue alone releases at most tasks that were taken.
LEMMA ReleaseKept ==
    ASSUME PoolInv, UNCHANGED <<task_queue_head, next, added, taken>>,
           InUse' => InUse, destroyPc' = "done" => destroyPc = "done",
           freed \subseteq freed', \A t \in freed' \ freed : Among(t, taken)
    PROVE  ReleaseInv'
<1>1. PICK f \in Len(taken) + 1 .. Len(added) + 1 : ReleasedTo(f)
    BY DEF PoolInv, ReleaseInv
<1>2. \A i \in f .. Len(added) : added[i] \notin freed'
  <2> TAKE i \in f .. Len(added)
  <2>1. i \in Len(taken) + 1 .. Len(added)
      BY SequenceFacts DEF PoolInv
  <2>2. added[i] \notin freed /\ ~Among(added[i], taken)
      BY <1>1, <2>1, RestNotTaken DEF ReleasedTo, PoolInv
  <2> QED BY <2>2
<1>3. ReleasedTo(f)'
    BY <1>1, <1>2 DEF ReleasedTo
<1>4. f \in Len(taken') + 1 .. Len(added') + 1
    OBVIOUS
<1> QED BY <1>3, <1>4 DEF ReleaseInv, PoolInv

\* A pool in use of which no waiting task is released.
LEMMA ReleaseInUse ==
    ASSUME OrderInv', InUse', \A i \in Len(taken') + 1 .. Len(added') : added'[i] \notin freed'
    PROVE  ReleaseInv'
<1> DEFINE f == Len(taken') + 1
<1>1. Len(added') \in Nat /\ Len(taken') \in Nat /\ Len(taken') <= Len(added')
    BY DEF OrderInv, TypeOK, PrefixInv
<1>2. QueueListsTheRest'
    BY DEF OrderInv
<1>3. task_queue_head' = IF f > Len(added') THEN NoTask ELSE added'[f]
  <2>1. (f .. Len(added') = {}) <=> f > Len(added')
      BY <1>1
  <2> QED BY <1>2, <2>1 DEF QueueListsTheRest
<1>4. \A i \in f .. Len(added') :
          next'[added'[i]] = IF i = Len(added') THEN NoTask ELSE added'[i + 1]
    BY <1>2 DEF QueueListsTheRest
<1>5. \A i \in Len(taken') + 1 .. f - 1 : added'[i] \in freed'
    BY <1>1
<1>6. f \in Len(taken') + 1 .. Len(added') + 1
    BY <1>1
<1>7. destroyPc' # "done"
    BY DEF InUse
<1> QED BY <1>3, <1>4, <1>5, <1>6, <1>7 DEF ReleaseInv, ReleasedTo

LEMMA PoolAdd ==
    ASSUME PoolInv, OrderInv', NEW t \in Tasks, thread_pool_add_task(t)
    PROVE  PoolInv'
<1>1. /\ owner[t] = "new" /\ destroyPc = "idle" /\ added' = Append(added, t)
      /\ UNCHANGED <<taken, destroyPc, work, is_exited, exit_normal, freed>>
    BY DEF thread_pool_add_task, taskVars
<1>2. /\ Len(added') = Len(added) + 1 /\ added'[Len(added) + 1] = t
      /\ \A i \in 1 .. Len(added) : added'[i] = added[i]
    BY <1>1 DEF PoolInv, OrderInv, TypeOK
<1>3. InUse /\ InUse'
    BY <1>1 DEF InUse
<1>4. \A w \in Threads : Runs(w)' => Runs(w)
  <2>1. pc \in [Threads -> WorkerStates]
      BY DEF PoolInv, OrderInv, TypeOK
  <2>2. pc' = pc \/ \E u \in queue_cond : pc' = [pc EXCEPT ![u] = "lock"]
      BY DEF thread_pool_add_task, NotifyOne, CondSignal
  <2> QED BY <2>1, <2>2 DEF Runs
<1>5. HeldInv' /\ ExitInv' /\ FreedInv'
  <2>1. HeldInv'
      BY <1>1, <1>4 DEF PoolInv, HeldInv, Among
  <2>2. ExitInv' /\ FreedInv'
      BY <1>1, <1>3 DEF PoolInv, ExitInv, FreedInv, Among
  <2> QED BY <2>1, <2>2
<1>6. \A u \in freed : owner[u] # "new"
  <2> SUFFICES ASSUME NEW u \in freed PROVE owner[u] # "new"
      OBVIOUS
  <2>1. u \in Tasks /\ is_exited[u] = 1
      BY <1>3 DEF PoolInv, FreedInv, OrderInv, TypeOK
  <2>2. PICK k \in 1 .. Len(taken) : taken[k] = u
      BY <2>1 DEF PoolInv, ExitInv, Among
  <2>3. k \in DOMAIN added /\ added[k] = u
      BY <2>2, SequenceFacts DEF PoolInv
  <2> QED BY <2>3 DEF PoolInv, OrderInv, AddedInv
<1>7. \A i \in Len(taken') + 1 .. Len(added') : added'[i] \notin freed'
  <2> TAKE i \in Len(taken') + 1 .. Len(added')
  <2>1. CASE i = Len(added) + 1
      BY <2>1, <1>1, <1>2, <1>6
  <2>2. CASE i # Len(added) + 1
    <3>1. i \in Len(taken) + 1 .. Len(added) /\ added'[i] = added[i]
        BY <2>2, <1>1, <1>2, SequenceFacts DEF PoolInv
    <3>2. PICK f : ReleasedTo(f)
        BY DEF PoolInv, ReleaseInv
    <3>3. added[i] \notin freed
        BY <1>3, <3>1, <3>2 DEF ReleasedTo
    <3> QED BY <3>1, <3>3, <1>1
  <2> QED BY <2>1, <2>2
<1>8. ReleaseInv'
    BY <1>3, <1>7, ReleaseInUse
<1> QED BY <1>5, <1>8 DEF PoolInv

LEMMA PoolTake ==
    ASSUME PoolInv, OrderInv', NEW w \in Threads, TakeTask(w)
    PROVE  PoolInv'
<1> DEFINE n == Len(added)
           k == Len(taken)
           t == added[k + 1]
<1>1. /\ InUse /\ k + 1 \in 1 .. n /\ task_queue_head = t /\ t \in Tasks
      /\ Len(taken') = k + 1 /\ taken'[k + 1] = t
      /\ \A i \in 1 .. k : taken'[i] = taken[i]
    BY TakesNext DEF PoolInv
<1>2. /\ pc[w] = "lock" /\ pc' = [pc EXCEPT ![w] = "start"]
      /\ work' = [work EXCEPT ![w] = t]
      /\ UNCHANGED <<added, destroyPc, is_exited, exit_normal, freed>>
    BY <1>1 DEF TakeTask, taskVars
<1>3. n \in Nat /\ k \in Nat /\ pc \in [Threads -> WorkerStates] /\ work \in [Threads -> Tasks \cup {NoTask}]
      /\ is_exited \in [Tasks -> {0, 1}]
    BY DEF PoolInv, OrderInv, TypeOK
<1>4. InUse'
    BY <1>1, <1>2 DEF InUse
<1>5. ~Among(t, taken)
  <2>1. k + 1 \in Len(taken) + 1 .. Len(added)
      BY <1>1, <1>3
  <2> QED BY <2>1, RestNotTaken DEF PoolInv
<1>6. \A u : Among(u, taken') <=> Among(u, taken) \/ u = t
  <2>1. 1 .. Len(taken') = (1 .. k) \cup {k + 1}
      BY <1>1, <1>3
  <2> QED BY <1>1, <2>1 DEF Among
<1>7. is_exited[t] = 0
    BY <1>1, <1>3, <1>5 DEF PoolInv, ExitInv
<1> HIDE DEF t
<1>8. HeldInv'
  <2>1. \A v \in Threads : Runs(v)' <=> Runs(v) \/ v = w
      BY <1>2, <1>3 DEF Runs
  <2>2. work'[w] = t /\ \A v \in Threads : v # w => work'[v] = work[v]
      BY <1>2, <1>3
  <2>3. \A v \in Threads : Runs(v) => work[v] \in Tasks /\ Among(work[v], taken) /\ is_exited[work[v]] = 0
      BY DEF PoolInv, HeldInv
  <2>4. \A v \in Threads : Runs(v) => work[v] # t
      BY <1>5, <2>3
  <2>5. \A v \in Threads : Runs(v)' =>
            work'[v] \in Tasks /\ Among(work'[v], taken') /\ is_exited'[work'[v]] = 0
    <3> SUFFICES ASSUME NEW v \in Threads, Runs(v)'
                 PROVE  work'[v] \in Tasks /\ Among(work'[v], taken') /\ is_exited'[work'[v]] = 0
        OBVIOUS
    <3>1. CASE v = w
        BY <3>1, <1>1, <1>2, <1>6, <1>7, <2>2
    <3>2. CASE v # w
        BY <3>2, <1>2, <1>6, <2>1, <2>2, <2>3
    <3> QED BY <3>1, <3>2
  <2>6. \A u, v \in Threads : Runs(u)' /\ Runs(v)' /\ u # v => work'[u] # work'[v]
    <3> SUFFICES ASSUME NEW u \in Threads, NEW v \in Threads, Runs(u)', Runs(v)', u # v
                 PROVE  work'[u] # work'[v]
        OBVIOUS
    <3>1. CASE u # w /\ v # w
        BY <3>1, <2>1, <2>2 DEF PoolInv, HeldInv
    <3>2. CASE u = w \/ v = w
        BY <3>2, <2>1, <2>2, <2>4
    <3> QED BY <3>1, <3>2
  <2> QED BY <2>5, <2>6 DEF HeldInv
<1>9. ExitInv'
    BY <1>2, <1>6 DEF PoolInv, ExitInv
<1>10. FreedInv'
    BY <1>1, <1>2, <1>6 DEF PoolInv, FreedInv
<1>11. \A i \in Len(taken') + 1 .. Len(added') : added'[i] \notin freed'
  <2>1. PICK f : ReleasedTo(f)
      BY DEF PoolInv, ReleaseInv
  <2>2. \A i \in k + 1 .. n : added[i] \notin freed
      BY <1>1, <2>1 DEF ReleasedTo
  <2> QED BY <1>1, <1>2, <1>3, <2>2
<1>12. ReleaseInv'
    BY <1>4, <1>11, ReleaseInUse
<1> QED BY <1>8, <1>9, <1>10, <1>12 DEF PoolInv

\* What the owners do after the addition.
LEMMA PoolOwner ==
    ASSUME PoolInv, OrderInv', NEW t \in Tasks,
           rthread_delete(t) \/ rthread_wait_exit(t) \/ rthread_free(t)
    PROVE  PoolInv'
<1>1. /\ UNCHANGED <<task_queue_head, next, added, taken, destroyPc, pc, work, is_exited>>
      /\ InUse' <=> InUse
    BY DEF rthread_delete, rthread_wait_exit, rthread_free, taskVars, queueVars, InUse
<1>2. /\ exit_normal \in [Tasks -> {0, 1}] /\ is_exited \in [Tasks -> {0, 1}]
      /\ freed \subseteq Tasks
    BY DEF PoolInv, OrderInv, TypeOK
<1>3. HeldInv'
    BY <1>1 DEF PoolInv, HeldInv, Among, Runs
<1>4. ExitInv'
  <2>1. exit_normal' = exit_normal \/ exit_normal' = [exit_normal EXCEPT ![t] = ExitNormal(t)]
      BY DEF rthread_delete, rthread_wait_exit, rthread_free, taskVars
  <2>2. \A u \in Tasks : exit_normal'[u] = 1 => is_exited[u] = 1
      BY <1>2, <2>1 DEF PoolInv, ExitInv, ExitNormal
  <2> QED BY <1>1, <2>2 DEF PoolInv, ExitInv, Among
<1>5. freed' = freed \/ (freed' = freed \cup {t} /\ is_exited[t] = 1 /\ Among(t, taken))
    BY DEF rthread_delete, rthread_wait_exit, rthread_free, PoolInv, ExitInv
<1>6. FreedInv'
    BY <1>1, <1>5 DEF PoolInv, FreedInv, Among
<1>7. ReleaseInv'
    BY <1>1, <1>5, ReleaseKept
<1> QED BY <1>3, <1>4, <1>6, <1>7 DEF PoolInv

\* A worker between two tasks.
LEMMA PoolWait ==
    ASSUME PoolInv, OrderInv', NEW w \in Threads,
           DecideToWait(w) \/ CondWait(w) \/ SpuriousWakeup(w) \/ ExitThread(w)
    PROVE  PoolInv'
<1>1. /\ UNCHANGED <<task_queue_head, next, added, taken, destroyPc, work, is_exited, exit_normal, freed>>
      /\ InUse' <=> InUse
    BY DEF DecideToWait, CondWait, SpuriousWakeup, ExitThread, taskVars, queueVars, InUse
<1>2. \A v \in Threads : Runs(v)' => Runs(v)
  <2>1. pc \in [Threads -> WorkerStates]
      BY DEF PoolInv, OrderInv, TypeOK
  <2>2. \E q \in {"sleep", "waiting", "lock", "exited"} : pc' = [pc EXCEPT ![w] = q]
      BY DEF DecideToWait, CondWait, SpuriousWakeup, ExitThread
  <2> QED BY <2>1, <2>2 DEF Runs
<1>3. HeldInv'
    BY <1>1, <1>2 DEF PoolInv, HeldInv, Among
<1>4. ExitInv' /\ FreedInv'
    BY <1>1 DEF PoolInv, ExitInv, FreedInv, Among
<1>5. ReleaseInv'
    BY <1>1, ReleaseKept
<1> QED BY <1>3, <1>4, <1>5 DEF PoolInv

\* A worker with its task.
LEMMA PoolRun ==
    ASSUME PoolInv, OrderInv', NEW w \in Threads, StartTask(w) \/ TaskReturns(w) \/ TaskExited(w)
    PROVE  PoolInv'
<1>1. /\ UNCHANGED <<task_queue_head, next, added, taken, destroyPc, exit_normal, freed>>
      /\ InUse' <=> InUse
    BY DEF StartTask, TaskReturns, TaskExited, taskVars, queueVars, InUse
<1>2. /\ pc \in [Threads -> WorkerStates] /\ work \in [Threads -> Tasks \cup {NoTask}]
      /\ is_exited \in [Tasks -> {0, 1}] /\ \A u : Among(u, taken') <=> Among(u, taken)
    BY <1>1 DEF PoolInv, OrderInv, TypeOK, Among
<1>3. Runs(w) /\ work[w] \in Tasks /\ Among(work[w], taken) /\ is_exited[work[w]] = 0
    BY DEF StartTask, TaskReturns, TaskExited, Runs, PoolInv, HeldInv
<1>4. ReleaseInv'
    BY <1>1, ReleaseKept
<1>5. CASE StartTask(w) \/ TaskReturns(w)
  <2>1. UNCHANGED work /\ \A u \in Tasks : is_exited'[u] = is_exited[u]
      BY <1>2, <1>3, <1>5 DEF StartTask, TaskReturns
  <2>2. \A v \in Threads : Runs(v)' => Runs(v)
      BY <1>2, <1>3, <1>5 DEF StartTask, TaskReturns, Runs
  <2>3. HeldInv'
      BY <1>2, <2>1, <2>2 DEF PoolInv, HeldInv
  <2>4. freed \subseteq Tasks
      BY DEF PoolInv, OrderInv, TypeOK
  <2>5. ExitInv' /\ FreedInv'
      BY <1>1, <1>2, <2>1, <2>4 DEF PoolInv, ExitInv, FreedInv
  <2> QED BY <1>4, <2>3, <2>5 DEF PoolInv
<1>6. CASE TaskExited(w)
  <2>1. /\ is_exited' = [is_exited EXCEPT ![work[w]] = 1]
        /\ work' = [work EXCEPT ![w] = NoTask] /\ pc' = [pc EXCEPT ![w] = "lock"]
      BY <1>6 DEF TaskExited
  <2>2. \A v \in Threads : Runs(v)' => Runs(v) /\ v # w /\ work'[v] = work[v]
      BY <1>2, <2>1 DEF Runs
  <2>3. \A u \in Tasks : is_exited'[u] = IF u = work[w] THEN 1 ELSE is_exited[u]
      BY <1>2, <2>1
  <2>4. \A v \in Threads : Runs(v) /\ v # w => work[v] \in Tasks /\ Among(work[v], taken)
                                                /\ is_exited[work[v]] = 0 /\ work[v] # work[w]
      BY <1>3 DEF PoolInv, HeldInv
  <2>5. HeldInv'
    <3>1. \A v \in Threads : Runs(v)' =>
              work'[v] \in Tasks /\ Among(work'[v], taken') /\ is_exited'[work'[v]] = 0
        BY <1>2, <2>2, <2>3, <2>4
    <3>2. \A u, v \in Threads : Runs(u)' /\ Runs(v)' /\ u # v => work'[u] # work'[v]
        BY <2>2 DEF PoolInv, HeldInv
    <3> QED BY <3>1, <3>2 DEF HeldInv
  <2>6. freed \subseteq Tasks
      BY DEF PoolInv, OrderInv, TypeOK
  <2>7. ExitInv' /\ FreedInv'
      BY <1>1, <1>2, <1>3, <2>3, <2>6 DEF PoolInv, ExitInv, FreedInv
  <2> QED BY <1>4, <2>5, <2>7 DEF PoolInv
<1> QED BY <1>5, <1>6

\* rthread_destroy up to the queue, and its end.
LEMMA PoolDestroy ==
    ASSUME PoolInv, OrderInv', DestroyFlag \/ DestroyBroadcast \/ DestroyJoined \/ FreePool
    PROVE  PoolInv'
<1>1. /\ UNCHANGED <<task_queue_head, next, added, taken, work, is_exited, exit_normal, freed>>
      /\ InUse' => InUse
    BY DEF DestroyFlag, DestroyBroadcast, DestroyJoined, FreePool, taskVars, queueVars, InUse
<1>2. \A v \in Threads : Runs(v)' => Runs(v)
    BY DEF DestroyFlag, DestroyBroadcast, DestroyJoined, FreePool, Runs
<1>3. HeldInv'
    BY <1>1, <1>2 DEF PoolInv, HeldInv, Among
<1>4. ExitInv' /\ FreedInv'
    BY <1>1 DEF PoolInv, ExitInv, FreedInv, Among
<1>5. \E f \in Len(taken) + 1 .. Len(added) + 1 : ReleasedTo(f)
    BY DEF PoolInv, ReleaseInv
<1>6. \A f : ReleasedTo(f) => ReleasedTo(f)'
    BY <1>1 DEF ReleasedTo
<1>7. destroyPc' = "done" => task_queue_head' = NoTask
    BY <1>1 DEF DestroyFlag, DestroyBroadcast, DestroyJoined, FreePool
<1>8. ReleaseInv'
    BY <1>1, <1>5, <1>6, <1>7 DEF ReleaseInv
<1> QED BY <1>3, <1>4, <1>8 DEF PoolInv

\* rthread_destroy releases one task of the queue.
LEMMA PoolFree ==
    ASSUME PoolInv, OrderInv', FreeTask
    PROVE  PoolInv'
<1> DEFINE n == Len(added)
           k == Len(taken)
<1>1. /\ destroyPc = "free" /\ task_queue_head # NoTask
      /\ task_queue_head' = next[task_queue_head] /\ freed' = freed \cup {task_queue_head}
      /\ UNCHANGED <<next, added, taken, destroyPc, pc, work, is_exited, exit_normal>>
    BY DEF FreeTask, HeadAfterFree, taskVars
<1>2. ~InUse /\ ~InUse'
    BY <1>1 DEF InUse
<1>3. PICK f \in k + 1 .. n + 1 : ReleasedTo(f)
    BY DEF PoolInv, ReleaseInv
<1>4. n \in Nat /\ k \in Nat /\ f \in k + 1 .. n /\ task_queue_head = added[f]
  <2>1. n \in Nat /\ k \in Nat
      BY SequenceFacts DEF PoolInv
  <2>2. task_queue_head = IF f > n THEN NoTask ELSE added[f]
      BY <1>3 DEF ReleasedTo
  <2> QED BY <1>1, <1>3, <2>1, <2>2
<1>5. added[f] \in Tasks /\ ~Among(added[f], taken)
    BY <1>4, RestNotTaken DEF PoolInv
<1>6. HeldInv' /\ ExitInv'
    BY <1>1 DEF PoolInv, HeldInv, ExitInv, Among, Runs
<1>7. FreedInv'
    BY <1>1, <1>2, <1>4, <1>5 DEF PoolInv, FreedInv, Among
<1>8. ReleasedTo(f + 1)'
  <2>1. next[added[f]] = IF f = n THEN NoTask ELSE added[f + 1]
      BY <1>3, <1>4 DEF ReleasedTo
  <2>2. task_queue_head' = IF f + 1 > Len(added') THEN NoTask ELSE added'[f + 1]
      BY <1>1, <1>4, <2>1
  <2>3. \A i \in f + 1 .. n : i \in f .. n /\ added[i] # added[f]
      BY <1>4, SequenceFacts DEF PoolInv
  <2>4. /\ \A i \in f + 1 .. n : next[added[i]] = IF i = n THEN NoTask ELSE added[i + 1]
        /\ \A i \in f + 1 .. n : added[i] \notin freed'
      BY <1>1, <1>3, <1>4, <2>3 DEF ReleasedTo
  <2>5. \A i \in k + 1 .. (f + 1) - 1 : added[i] \in freed'
    <3> TAKE i \in k + 1 .. (f + 1) - 1
    <3>1. CASE i = f
        BY <3>1, <1>1, <1>4
    <3>2. CASE i # f
      <4>1. i \in k + 1 .. f - 1
          BY <3>2, <1>4
      <4> QED BY <4>1, <1>1, <1>3 DEF ReleasedTo
    <3> QED BY <3>1, <3>2
  <2> QED BY <1>1, <1>2, <2>2, <2>4, <2>5 DEF ReleasedTo
<1>9. f + 1 \in Len(taken') + 1 .. Len(added') + 1
    BY <1>1, <1>4
<1>10. ReleaseInv'
    BY <1>1, <1>8, <1>9 DEF ReleaseInv
<1> QED BY <1>6, <1>7, <1>10 DEF PoolInv

LEMMA PoolStep == PoolInv /\ [Next]_vars => PoolInv'
<1> SUFFICES ASSUME PoolInv, [Next]_vars PROVE PoolInv'
    OBVIOUS
<1>0. OrderInv'
    BY OrderStep DEF PoolInv
<1>1. ASSUME NEW t \in Tasks, Owner(t) PROVE PoolInv'
    BY <1>0, <1>1, PoolAdd, PoolOwner DEF Owner
<1>2. ASSUME NEW w \in Threads, WorkerStep(w) \/ SpuriousWakeup(w) \/ TaskReturns(w)
      PROVE  PoolInv'
    BY <1>0, <1>2, PoolTake, PoolWait, PoolRun DEF WorkerStep
<1>3. CASE Destroyer
    BY <1>0, <1>3, PoolDestroy, PoolFree DEF Destroyer
<1>4. CASE UNCHANGED vars
  <2>1. /\ UNCHANGED <<task_queue_head, next, added, taken, destroyPc, pc, work, is_exited, exit_normal, freed>>
        /\ InUse' <=> InUse
      BY <1>4 DEF vars, queueVars, taskVars, InUse
  <2>2. HeldInv' /\ ExitInv' /\ FreedInv'
      BY <2>1 DEF PoolInv, HeldInv, ExitInv, FreedInv, Among, Runs
  <2>3. ReleaseInv'
      BY <2>1, ReleaseKept
  <2> QED BY <1>0, <2>2, <2>3 DEF PoolInv
<1> QED BY <1>1, <1>2, <1>3, <1>4 DEF Next

LEMMA PoolInit == Init => PoolInv
<1> SUFFICES ASSUME Init PROVE PoolInv
    OBVIOUS
<1>1. HeldInv /\ ExitInv /\ FreedInv
    BY DEF Init, HeldInv, ExitInv, FreedInv, Runs
<1>2. ReleasedTo(1) /\ Len(taken) = 0 /\ Len(added) = 0
    BY DEF Init, ReleasedTo
<1>3. ReleaseInv
    BY <1>2 DEF Init, ReleaseInv
<1> QED BY <1>1, <1>3, OrderInit DEF PoolInv

\* No task is released while a worker will still touch it or the queue leads
\* to it, by its owner (rthread.c:430-437) or by rthread_destroy (223-230).
THEOREM NoReleasedTaskIsUsed == Spec => []NoUseAfterFree
<1>1. PoolInv => NoUseAfterFree
  <2> SUFFICES ASSUME PoolInv PROVE NoUseAfterFree
      OBVIOUS
  <2>1. \A w \in Threads : Held(w) \cap freed = {}
      BY DEF PoolInv, HeldInv, FreedInv, Held, Runs
  <2>2. PICK f \in Len(taken) + 1 .. Len(added) + 1 : ReleasedTo(f)
      BY DEF PoolInv, ReleaseInv
  <2>3. task_queue_head \notin freed
    <3>1. CASE f > Len(added)
        BY <3>1, <2>2 DEF ReleasedTo, PoolInv, OrderInv, TypeOK
    <3>2. CASE ~(f > Len(added))
      <4>0. Len(added) \in Nat /\ Len(taken) \in Nat
          BY SequenceFacts DEF PoolInv
      <4>1. f \in f .. Len(added) /\ task_queue_head = added[f]
          BY <3>2, <2>2, <4>0 DEF ReleasedTo
      <4> QED BY <4>1, <2>2 DEF ReleasedTo
    <3> QED BY <3>1, <3>2
  <2> QED BY <2>1, <2>3 DEF NoUseAfterFree
<1> QED BY <1>1, PoolInit, PoolStep, PTL DEF Spec

\* When rthread_destroy returns, every task that was added and never taken is
\* released, whichever threads it joined (rthread.c:218-230).
THEOREM DestroyReleasesQueue == Spec => []QueueIsReleased
<1>1. PoolInv => QueueIsReleased
  <2> SUFFICES ASSUME PoolInv, destroyPc = "done",
                      NEW i \in DOMAIN added, i \notin DOMAIN taken
               PROVE  added[i] \in freed
      BY DEF QueueIsReleased
  <2>1. PICK f \in Len(taken) + 1 .. Len(added) + 1 : ReleasedTo(f)
      BY DEF PoolInv, ReleaseInv
  <2>2. task_queue_head = NoTask
      BY DEF PoolInv, ReleaseInv
  <2>3. i \in 1 .. Len(added) /\ i \notin 1 .. Len(taken)
        /\ Len(added) \in Nat /\ Len(taken) \in Nat
      BY SequenceFacts DEF PoolInv
  <2>4. f = Len(added) + 1
    <3>1. task_queue_head = IF f > Len(added) THEN NoTask ELSE added[f]
        BY <2>1 DEF ReleasedTo
    <3>2. \A j \in 1 .. Len(added) : added[j] # NoTask
        BY SequenceFacts DEF PoolInv
    <3>3. CASE f > Len(added)
        BY <3>3, <2>1, <2>3
    <3>4. CASE ~(f > Len(added))
      <4>1. f \in 1 .. Len(added)
          BY <3>4, <2>1, <2>3
      <4> QED BY <4>1, <3>1, <3>2, <3>4, <2>2
    <3> QED BY <3>3, <3>4
  <2> QED BY <2>1, <2>3, <2>4 DEF ReleasedTo
<1> QED BY <1>1, PoolInit, PoolStep, PTL DEF Spec
=============================================================================
