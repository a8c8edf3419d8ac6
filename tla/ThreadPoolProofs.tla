-------------------------- MODULE ThreadPoolProofs --------------------------
(***************************************************************************)
(* Proofs about the worker pool, for any finite set of workers and any     *)
(* number of tasks.                                                        *)
(***************************************************************************)
EXTENDS ThreadPool, FiniteSetTheorems, TLAPS

\* A worker leaves only a stopped and empty pool, and stop is set from the
\* destructor's step on.
Exits ==
  /\ stop <=> pc[Script] \in {"notify_all", "join", "destroyed"}
  /\ \A w \in Workers : pc[w] = "exited" => stop /\ tasks = <<>>

\* Who is inside enqueue found room for one more call.
Room == \A t \in Threads : pc[t] = "enqueue" => called < MaxTasks

\* A worker has a task exactly while it executes one.
Busy == \A w \in Workers : running[w] = NoTask <=> pc[w] \in {"lock", "check", "exited"}

IInv ==
  /\ TypeOK
  /\ Exits
  /\ Busy
  /\ NoLostWakeup
  /\ StopWakesAll
  /\ EachTaskOnce
  /\ DestroyedDrained

-----------------------------------------------------------------------------
(* The set of those on the way to the queue. *)

LEMMA ThreadSetsFinite ==
  \A S \in SUBSET Threads : IsFiniteSet(S) /\ Cardinality(S) \in Nat
<1>1. IsFiniteSet(Threads)
  BY ThreadPoolAssumption, FS_AddElement DEF Threads
<1> QED BY <1>1, FS_Subset, FS_CardinalityType

LEMMA ComingFinite == IsFiniteSet(Coming) /\ Cardinality(Coming) \in Nat
BY ThreadSetsFinite DEF Coming

\* The same queue, with at least as many on the way to it.
LEMMA ComingGrows ==
  ASSUME TypeOK, NoLostWakeup, Coming \subseteq Coming', UNCHANGED tasks, waiting' \subseteq waiting
  PROVE  NoLostWakeup'
<1>1. Coming' \in SUBSET Threads
  BY DEF Coming
<1>2. Cardinality(Coming) <= Cardinality(Coming')
  BY <1>1, ThreadSetsFinite, FS_Subset
<1>3. Cardinality(Coming) \in Nat /\ Cardinality(Coming') \in Nat /\ Len(tasks) \in Nat
  BY <1>1, ThreadSetsFinite, ComingFinite DEF TypeOK
<1> QED BY <1>2, <1>3 DEF NoLostWakeup

\* One task fewer, one worker fewer on the way to it.
LEMMA TakeKeepsWakeup ==
  ASSUME NEW w \in Workers, TypeOK, NoLostWakeup, Take(w)
  PROVE  NoLostWakeup'
<1>1. w \in Coming /\ Coming' = Coming \ {w}
  BY ThreadPoolAssumption DEF Take, Goto, Coming, TypeOK, Threads, WorkerPCs
<1>2. Cardinality(Coming') = Cardinality(Coming) - 1 /\ Cardinality(Coming) \in Nat
  BY <1>1, ComingFinite, FS_RemoveElement
<1>3. Len(tasks') = Len(tasks) - 1 /\ Len(tasks) \in Nat
  BY DEF Take, TypeOK
<1> QED BY <1>2, <1>3 DEF NoLostWakeup, Take

\* One task more, and one notification.
LEMMA EnqueueKeepsWakeup ==
  ASSUME NEW t \in Threads, TypeOK, NoLostWakeup, Enqueue(t), ~ stop
  PROVE  NoLostWakeup'
<1>1. t \notin Coming /\ Coming' = Coming \union {t}
  BY ThreadPoolAssumption DEF Enqueue, Goto, Coming, TypeOK, Threads
<1>2. Cardinality(Coming') = Cardinality(Coming) + 1 /\ Cardinality(Coming) \in Nat
  BY <1>1, ComingFinite, FS_AddElement
<1>3. Len(tasks') = Len(tasks) + 1 /\ Len(tasks) \in Nat
  BY DEF Enqueue, TypeOK
<1> QED BY <1>2, <1>3 DEF NoLostWakeup, Enqueue

\* The one who notifies goes, the one who is notified comes.
LEMMA NotifyKeepsWakeup ==
  ASSUME NEW t \in Threads, TypeOK, NoLostWakeup, NotifyOne(t)
  PROVE  NoLostWakeup'
<1>1. CASE waiting' = {}
  BY <1>1 DEF NoLostWakeup
<1>2. ASSUME NEW w \in waiting, waiting' = waiting \ {w} PROVE NoLostWakeup'
  <2>1. w \in Workers /\ pc[w] = "lock" /\ pc[t] = "notify" /\ w # t
    BY DEF TypeOK, NotifyOne
  <2>2. t \in Coming /\ w \notin Coming \ {t} /\ Coming' = (Coming \ {t}) \union {w}
    BY <1>2, <2>1 DEF NotifyOne, Goto, Coming, TypeOK, Threads
  <2>3. IsFiniteSet(Coming \ {t}) /\ Cardinality(Coming \ {t}) = Cardinality(Coming) - 1
    BY <2>2, ComingFinite, FS_RemoveElement
  <2>4. Cardinality(Coming') = Cardinality(Coming) /\ Cardinality(Coming) \in Nat
    <3>1. Cardinality((Coming \ {t}) \union {w}) = Cardinality(Coming \ {t}) + 1
      BY <2>2, <2>3, FS_AddElement
    <3> QED BY <2>2, <2>3, <3>1, ComingFinite
  <2>5. Len(tasks) <= Cardinality(Coming) /\ tasks' = tasks
    BY DEF NoLostWakeup, NotifyOne
  <2> QED BY <2>4, <2>5 DEF NoLostWakeup
<1> QED BY <1>1, <1>2 DEF NotifyOne

-----------------------------------------------------------------------------
(* The steps. *)

LEMMA InitInv == Init => IInv
<1> SUFFICES ASSUME Init PROVE IInv
  OBVIOUS
<1> USE ThreadPoolAssumption
<1>1. TypeOK
  <2>1. tasks \in Seq(Tasks) /\ called \in 0..MaxTasks
    BY DEF Init
  <2>2. running \in [Workers -> Tasks \union {NoTask}]
    BY DEF Init
  <2>3. stop \in BOOLEAN /\ queue_mu \in Threads \union {Free}
    BY DEF Init
  <2>4. accepted \in SUBSET (1..called) /\ ready \in SUBSET accepted
    BY DEF Init
  <2>5. pc \in [Threads -> WorkerPCs \union ScriptPCs]
    BY DEF Init, WorkerPCs, ScriptPCs
  <2>6. pc[Script] = "task" /\ \A w \in Workers : pc[w] = "lock"
    BY DEF Init, Threads
  <2>7. \A t \in Threads : pc[t] \in {"check", "enqueue", "stop"} <=> queue_mu = t
    BY <2>6 DEF Init, Threads
  <2> QED
    BY <2>1, <2>2, <2>3, <2>4, <2>5, <2>6, <2>7 DEF Init, TypeOK, WorkerPCs, ScriptPCs
<1>2. Exits /\ Busy
  BY DEF Init, Exits, Busy, Threads
<1>3. NoLostWakeup /\ StopWakesAll /\ DestroyedDrained
  BY DEF Init, NoLostWakeup, StopWakesAll, DestroyedDrained, Threads
<1>4. EachTaskOnce
  BY DEF Init, EachTaskOnce, Queued, Taken
<1> QED BY <1>1, <1>2, <1>3, <1>4 DEF IInv

\* Steps that move no task.
LEMMA TasksStay ==
  ASSUME EachTaskOnce, UNCHANGED <<tasks, running, accepted, ready>>
  PROVE  EachTaskOnce'
BY DEF EachTaskOnce, Queued, Taken

LEMMA LockKeeps ==
  ASSUME IInv, NEW w \in Workers, Lock(w)
  PROVE  IInv'
<1> USE ThreadPoolAssumption DEF IInv, Lock, Acquire, Goto
<1>1. TypeOK'
  BY DEF TypeOK, Threads, WorkerPCs
<1>2. Exits' /\ Busy'
  BY DEF TypeOK, Exits, Busy, Threads
<1>3. NoLostWakeup'
  <2>1. Coming \subseteq Coming'
    BY DEF TypeOK, Coming, Threads
  <2> QED BY <2>1, ComingGrows
<1>4. StopWakesAll' /\ DestroyedDrained'
  BY DEF TypeOK, StopWakesAll, DestroyedDrained, Threads
<1> QED BY <1>1, <1>2, <1>3, <1>4, TasksStay

LEMMA WaitKeeps ==
  ASSUME IInv, NEW w \in Workers, Wait(w)
  PROVE  IInv'
<1> USE ThreadPoolAssumption DEF IInv, Wait, Goto
<1>1. TypeOK'
  BY DEF TypeOK, Threads, WorkerPCs
<1>2. Exits' /\ Busy'
  BY DEF TypeOK, Exits, Busy, Threads
<1>3. NoLostWakeup'
  <2>1. Coming' \in SUBSET Threads /\ Len(tasks') = 0
    BY DEF Coming
  <2>2. Cardinality(Coming') \in Nat
    BY <2>1, ThreadSetsFinite
  <2> QED BY <2>1, <2>2 DEF NoLostWakeup
<1>4. StopWakesAll' /\ DestroyedDrained'
  BY DEF TypeOK, Exits, StopWakesAll, DestroyedDrained, Threads
<1> QED BY <1>1, <1>2, <1>3, <1>4, TasksStay

LEMMA ExitKeeps ==
  ASSUME IInv, NEW w \in Workers, Exit(w)
  PROVE  IInv'
<1> USE ThreadPoolAssumption DEF IInv, Exit, Goto
<1>1. TypeOK'
  BY DEF TypeOK, Threads, WorkerPCs
<1>2. Exits' /\ Busy'
  BY DEF TypeOK, Exits, Busy, Threads
<1>3. NoLostWakeup'
  <2>1. Coming' \in SUBSET Threads /\ Len(tasks') = 0
    BY DEF Coming
  <2>2. Cardinality(Coming') \in Nat
    BY <2>1, ThreadSetsFinite
  <2> QED BY <2>1, <2>2 DEF NoLostWakeup
<1>4. StopWakesAll' /\ DestroyedDrained'
  BY DEF TypeOK, StopWakesAll, DestroyedDrained, Threads
<1> QED BY <1>1, <1>2, <1>3, <1>4, TasksStay

LEMMA TakeKeeps ==
  ASSUME IInv, NEW w \in Workers, Take(w)
  PROVE  IInv'
<1> USE ThreadPoolAssumption DEF IInv
<1> DEFINE n == Len(tasks)
<1>0. /\ n \in Nat \ {0} /\ Len(tasks') = n - 1 /\ tasks' \in Seq(Tasks)
      /\ \A i \in 1..(n - 1) : tasks'[i] = tasks[i + 1]
      /\ Head(tasks) = tasks[1] /\ tasks[1] \in Tasks
  BY DEF Take, TypeOK
<1>1. TypeOK'
  BY <1>0 DEF Take, Goto, TypeOK, Threads, WorkerPCs
<1>2. Exits' /\ Busy'
  BY <1>0 DEF Take, Goto, TypeOK, Exits, Busy, Threads, Tasks, NoTask
<1>3. NoLostWakeup'
  BY TakeKeepsWakeup
<1>4. StopWakesAll' /\ DestroyedDrained'
  BY DEF Take, Goto, TypeOK, StopWakesAll, DestroyedDrained, Threads
<1>5. EachTaskOnce'
  <2>1. running[w] = NoTask /\ running' = [running EXCEPT ![w] = tasks[1]]
    BY <1>0 DEF Busy, Take
  <2>2. Queued' = Queued \ {tasks[1]} /\ tasks[1] \in Queued
    <3>1. tasks[1] \in Queued
      BY <1>0 DEF Queued
    <3>2. \A i \in 1..Len(tasks') : tasks'[i] \in Queued /\ tasks'[i] # tasks[1]
      <4> SUFFICES ASSUME NEW i \in 1..(n - 1)
                   PROVE  tasks[i + 1] \in Queued /\ tasks[i + 1] # tasks[1]
        BY <1>0
      <4>1. i + 1 \in 1..n /\ 1 \in 1..n /\ i + 1 # 1
        BY <1>0
      <4> QED BY <4>1 DEF Queued, EachTaskOnce
    <3>3. \A i \in 1..n : i # 1 => i - 1 \in 1..(n - 1) /\ tasks'[i - 1] = tasks[i]
      BY <1>0
    <3>4. \A i \in 1..n : tasks[i] # tasks[1] => tasks[i] \in Queued'
      BY <1>0, <3>3 DEF Queued
    <3> QED BY <3>1, <3>2, <3>4 DEF Queued
  <2>3. Taken' = Taken \union {tasks[1]}
    BY <1>0, <2>1 DEF Taken, TypeOK, Tasks, NoTask
  <2>4. \A i, j \in 1..Len(tasks') : tasks'[i] = tasks'[j] => i = j
    BY <1>0 DEF EachTaskOnce
  <2>5. \A u, v \in Workers : running'[u] = running'[v] /\ running'[u] # NoTask => u = v
    BY <2>1, <2>2 DEF EachTaskOnce, Taken, TypeOK
  <2> QED BY <2>2, <2>3, <2>4, <2>5 DEF EachTaskOnce, Take
<1> QED BY <1>1, <1>2, <1>3, <1>4, <1>5

LEMMA FinishKeeps ==
  ASSUME IInv, NEW w \in Workers, Finish(w)
  PROVE  IInv'
<1> USE ThreadPoolAssumption DEF IInv, Finish, Goto
<1>0. running[w] # NoTask /\ running[w] \in Taken
  BY DEF Busy, Taken
<1>1. TypeOK'
  <2>1. running[w] \in accepted
    BY <1>0 DEF EachTaskOnce
  <2> QED BY <2>1 DEF TypeOK, Threads, WorkerPCs
<1>2. Exits' /\ Busy'
  BY DEF TypeOK, Exits, Busy, Threads
<1>3. NoLostWakeup'
  <2>1. Coming \subseteq Coming'
    BY DEF TypeOK, Coming, Threads
  <2> QED BY <2>1, ComingGrows
<1>4. StopWakesAll' /\ DestroyedDrained'
  BY DEF TypeOK, StopWakesAll, DestroyedDrained, Threads
<1>5. EachTaskOnce'
  <2>1. Queued' = Queued /\ ready' = ready \union {running[w]}
    BY DEF Queued
  <2>2. Taken' = Taken \ {running[w]}
    BY <1>0 DEF Taken, EachTaskOnce, TypeOK
  <2>3. \A u, v \in Workers : running'[u] = running'[v] /\ running'[u] # NoTask => u = v
    BY DEF EachTaskOnce, TypeOK
  <2> QED BY <1>0, <2>1, <2>2, <2>3 DEF EachTaskOnce
<1> QED BY <1>1, <1>2, <1>3, <1>4, <1>5

LEMMA SpuriousWakeupKeeps ==
  ASSUME IInv, NEW w \in Workers, SpuriousWakeup(w)
  PROVE  IInv'
<1> USE DEF IInv, SpuriousWakeup
<1>1. TypeOK'
  BY DEF TypeOK
<1>2. Exits' /\ Busy'
  BY DEF Exits, Busy
<1>3. NoLostWakeup'
  <2>1. Coming \subseteq Coming'
    BY DEF Coming
  <2> QED BY <2>1, ComingGrows
<1>4. StopWakesAll' /\ DestroyedDrained'
  BY DEF StopWakesAll, DestroyedDrained
<1> QED BY <1>1, <1>2, <1>3, <1>4, TasksStay

LEMMA EnqueueLockKeeps ==
  ASSUME IInv, NEW t \in Threads, EnqueueLock(t)
  PROVE  IInv'
<1> USE ThreadPoolAssumption DEF IInv, EnqueueLock, Acquire, Goto
<1>1. TypeOK'
  BY DEF TypeOK, Threads, WorkerPCs, ScriptPCs
<1>2. Exits' /\ Busy'
  BY DEF TypeOK, Exits, Busy, Threads
<1>3. NoLostWakeup'
  <2>1. Coming \subseteq Coming'
    BY DEF TypeOK, Coming, Threads
  <2> QED BY <2>1, ComingGrows
<1>4. StopWakesAll' /\ DestroyedDrained'
  BY DEF TypeOK, StopWakesAll, DestroyedDrained, Threads
<1> QED BY <1>1, <1>2, <1>3, <1>4, TasksStay

LEMMA EnqueueKeeps ==
  ASSUME IInv, NEW t \in Threads, Enqueue(t), called < MaxTasks
  PROVE  IInv'
<1> USE ThreadPoolAssumption DEF IInv
<1>1. CASE stop
  <2>1. UNCHANGED <<tasks, running, accepted, ready, stop, waiting>> /\ Goto(t, "task")
        /\ called' = called + 1 /\ queue_mu' = Free
    BY <1>1 DEF Enqueue
  <2>2. TypeOK'
    BY <2>1 DEF Enqueue, Goto, TypeOK, Threads, WorkerPCs, ScriptPCs
  <2>3. Exits' /\ Busy'
    BY <2>1 DEF Enqueue, Goto, TypeOK, Exits, Busy, Threads
  <2>4. NoLostWakeup'
    <3>1. Coming \subseteq Coming'
      BY <2>1 DEF Enqueue, Goto, TypeOK, Coming, Threads
    <3> QED BY <2>1, <3>1, ComingGrows
  <2>5. StopWakesAll' /\ DestroyedDrained'
    BY <2>1 DEF Enqueue, Goto, TypeOK, StopWakesAll, DestroyedDrained, Threads
  <2> QED BY <2>1, <2>2, <2>3, <2>4, <2>5, TasksStay
<1>2. CASE ~ stop
  <2> DEFINE k == called + 1
             n == Len(tasks)
  <2>1. /\ tasks' = Append(tasks, k) /\ accepted' = accepted \union {k}
        /\ called' = k /\ queue_mu' = Free /\ Goto(t, "notify") /\ pc[t] = "enqueue"
        /\ UNCHANGED <<waiting, stop, running, ready>>
    BY <1>2 DEF Enqueue
  <2>2. /\ k \in Tasks /\ k \notin accepted /\ n \in Nat /\ tasks' \in Seq(Tasks)
        /\ Len(tasks') = n + 1 /\ tasks'[n + 1] = k
        /\ \A i \in 1..n : tasks'[i] = tasks[i]
    BY <2>1 DEF TypeOK, Tasks
  <2>3. TypeOK'
    BY <2>1, <2>2 DEF Goto, TypeOK, Threads, WorkerPCs, ScriptPCs
  <2>4. Exits' /\ Busy'
    BY <1>2, <2>1 DEF Goto, TypeOK, Exits, Busy, Threads
  <2>5. NoLostWakeup'
    BY <1>2, EnqueueKeepsWakeup
  <2>6. StopWakesAll' /\ DestroyedDrained'
    BY <1>2, <2>1 DEF Goto, TypeOK, Exits, StopWakesAll, DestroyedDrained, Threads
  <2>7. EachTaskOnce'
    <3>1. Queued' = Queued \union {k}
      BY <2>2 DEF Queued
    <3>2. \A i \in 1..n : tasks[i] # k
      BY <2>2 DEF EachTaskOnce, Queued
    <3>3. \A i, j \in 1..Len(tasks') : tasks'[i] = tasks'[j] => i = j
      BY <2>2, <3>2 DEF EachTaskOnce
    <3> QED BY <2>1, <2>2, <3>1, <3>3 DEF EachTaskOnce, Taken
  <2> QED BY <2>3, <2>4, <2>5, <2>6, <2>7
<1> QED BY <1>1, <1>2

LEMMA NotifyOneKeeps ==
  ASSUME IInv, NEW t \in Threads, NotifyOne(t)
  PROVE  IInv'
<1> USE ThreadPoolAssumption DEF IInv, Goto
<1>0. waiting' \subseteq waiting /\ pc[t] = "notify"
  BY DEF NotifyOne
<1>1. TypeOK'
  BY <1>0 DEF NotifyOne, TypeOK, Threads, WorkerPCs, ScriptPCs
<1>2. Exits' /\ Busy'
  BY <1>0 DEF NotifyOne, TypeOK, Exits, Busy, Threads
<1>3. NoLostWakeup'
  BY NotifyKeepsWakeup
<1>4. StopWakesAll' /\ DestroyedDrained'
  BY <1>0 DEF NotifyOne, TypeOK, StopWakesAll, DestroyedDrained, Threads
<1> QED BY <1>1, <1>2, <1>3, <1>4, TasksStay DEF NotifyOne

LEMMA StopLockKeeps ==
  ASSUME IInv, StopLock
  PROVE  IInv'
<1> USE ThreadPoolAssumption DEF IInv, StopLock, Acquire, Goto
<1>1. TypeOK'
  BY DEF TypeOK, Threads, WorkerPCs, ScriptPCs
<1>2. Exits' /\ Busy'
  BY DEF TypeOK, Exits, Busy, Threads
<1>3. NoLostWakeup'
  <2>1. Coming \subseteq Coming'
    BY DEF TypeOK, Coming, Threads
  <2> QED BY <2>1, ComingGrows
<1>4. StopWakesAll' /\ DestroyedDrained'
  BY DEF TypeOK, StopWakesAll, DestroyedDrained, Threads
<1> QED BY <1>1, <1>2, <1>3, <1>4, TasksStay

LEMMA StopKeeps ==
  ASSUME IInv, Stop
  PROVE  IInv'
<1> USE ThreadPoolAssumption DEF IInv, Stop, Goto
<1>1. TypeOK'
  BY DEF TypeOK, Threads, WorkerPCs, ScriptPCs
<1>2. Exits' /\ Busy'
  BY DEF TypeOK, Exits, Busy, Threads
<1>3. NoLostWakeup'
  <2>1. Coming \subseteq Coming'
    BY DEF TypeOK, Coming, Threads
  <2> QED BY <2>1, ComingGrows
<1>4. StopWakesAll' /\ DestroyedDrained'
  BY DEF TypeOK, StopWakesAll, DestroyedDrained, Threads
<1> QED BY <1>1, <1>2, <1>3, <1>4, TasksStay

LEMMA NotifyAllKeeps ==
  ASSUME IInv, NotifyAll
  PROVE  IInv'
<1> USE ThreadPoolAssumption DEF IInv, NotifyAll, Goto
<1>1. TypeOK'
  BY DEF TypeOK, Threads, WorkerPCs, ScriptPCs
<1>2. Exits' /\ Busy'
  BY DEF TypeOK, Exits, Busy, Threads
<1>3. NoLostWakeup'
  BY DEF NoLostWakeup
<1>4. StopWakesAll' /\ DestroyedDrained'
  BY DEF TypeOK, StopWakesAll, DestroyedDrained, Threads
<1> QED BY <1>1, <1>2, <1>3, <1>4, TasksStay

\* Every worker that exited has seen an empty queue, and has no task.
LEMMA JoinKeeps ==
  ASSUME IInv, Join
  PROVE  IInv'
<1> USE ThreadPoolAssumption DEF IInv, Join, Goto
<1>1. TypeOK'
  BY DEF TypeOK, Threads, WorkerPCs, ScriptPCs
<1>2. Exits' /\ Busy'
  BY DEF TypeOK, Exits, Busy, Threads
<1>3. NoLostWakeup'
  <2>1. Coming \subseteq Coming'
    BY DEF TypeOK, Coming, Threads
  <2> QED BY <2>1, ComingGrows
<1>4. StopWakesAll'
  BY DEF TypeOK, StopWakesAll, Threads
<1>5. DestroyedDrained'
  <2>1. \A w \in Workers : running[w] = NoTask /\ tasks = <<>>
    BY DEF Busy, Exits
  <2>2. Workers # {} => accepted = ready
    BY <2>1 DEF EachTaskOnce, Queued, Taken
  <2>3. \A w \in Workers : pc'[w] = "exited"
    BY DEF TypeOK, Threads
  <2> QED BY <2>2, <2>3 DEF DestroyedDrained
<1> QED BY <1>1, <1>2, <1>3, <1>4, <1>5, TasksStay

-----------------------------------------------------------------------------
(* The invariant is inductive. *)

\* Only the holder of the mutex raises called, and it leaves enqueue by that.
LEMMA RoomKeeps ==
  ASSUME TypeOK, Room, Next
  PROVE  Room'
<1> USE ThreadPoolAssumption DEF Goto, Acquire, Room
<1>1. ASSUME NEW t \in Threads, EnqueueLock(t) PROVE Room'
  BY <1>1 DEF EnqueueLock, TypeOK
<1>2. ASSUME NEW t \in Threads, Enqueue(t) PROVE Room'
  <2>1. \A u \in Threads : u # t => pc[u] # "enqueue" /\ pc'[u] = pc[u]
    BY <1>2 DEF Enqueue, TypeOK
  <2>2. pc'[t] # "enqueue"
    BY <1>2 DEF Enqueue, TypeOK
  <2> QED BY <2>1, <2>2
<1>3. ASSUME NEW t \in Threads, NotifyOne(t) PROVE Room'
  BY <1>3 DEF NotifyOne, TypeOK
<1>4. ASSUME NEW w \in Workers, Work(w) PROVE Room'
  BY <1>4 DEF Work, Lock, Wait, Exit, Take, Finish, SpuriousWakeup, TypeOK, Threads
<1>5. CASE Destroy
  BY <1>5 DEF Destroy, StopLock, Stop, NotifyAll, Join, TypeOK, Threads
<1> QED BY <1>1, <1>2, <1>3, <1>4, <1>5 DEF Next, Add

LEMMA NextInv == IInv /\ Room /\ [Next]_vars => IInv' /\ Room'
<1> SUFFICES ASSUME IInv, Room, [Next]_vars PROVE IInv' /\ Room'
  OBVIOUS
<1>1. CASE UNCHANGED vars
  <2>1. TypeOK' /\ Exits' /\ Busy' /\ Room'
    BY <1>1 DEF vars, IInv, TypeOK, Exits, Busy, Room
  <2>2. NoLostWakeup'
    BY <1>1 DEF vars, IInv, NoLostWakeup, Coming
  <2>3. StopWakesAll' /\ EachTaskOnce' /\ DestroyedDrained'
    BY <1>1 DEF vars, IInv, StopWakesAll, EachTaskOnce, Queued, Taken, DestroyedDrained
  <2> QED BY <2>1, <2>2, <2>3 DEF IInv
<1>2. ASSUME NEW w \in Workers, Work(w) PROVE IInv'
  BY <1>2, LockKeeps, WaitKeeps, ExitKeeps, TakeKeeps, FinishKeeps, SpuriousWakeupKeeps DEF Work
<1>3. ASSUME NEW t \in Threads, Add(t) PROVE IInv'
  <2>1. CASE EnqueueLock(t)
    BY <2>1, EnqueueLockKeeps
  <2>2. CASE Enqueue(t)
    <3>1. called < MaxTasks
      BY <2>2 DEF Room, Enqueue
    <3> QED BY <2>2, <3>1, EnqueueKeeps
  <2>3. CASE NotifyOne(t)
    BY <2>3, NotifyOneKeeps
  <2> QED BY <1>3, <2>1, <2>2, <2>3 DEF Add
<1>4. ASSUME Destroy PROVE IInv'
  BY <1>4, StopLockKeeps, StopKeeps, NotifyAllKeeps, JoinKeeps DEF Destroy
<1>5. CASE Next
  BY <1>2, <1>3, <1>4, <1>5, RoomKeeps DEF Next, IInv
<1> QED BY <1>1, <1>5

\* Everything below holds in every reachable state, because this does: types
\* and the lock discipline, together with who may be exited, busy or asleep.
THEOREM InvariantHolds == Spec => [](IInv /\ Room)
<1>1. Init => IInv /\ Room
  BY InitInv DEF Init, Room
<1> QED BY <1>1, NextInv, PTL DEF Spec

\* The variables keep their types, and whoever is in a locked region of the
\* worker loop, enqueue or the destructor is the one holder of the mutex.
THEOREM TypeCorrect == Spec => []TypeOK
<1>1. IInv => TypeOK
  BY DEF IInv
<1> QED BY <1>1, InvariantHolds, PTL

\* While any worker sleeps in cond.wait there are at least as many threads on
\* the way to the queue as tasks in it: notify_one after the unlock is enough.
THEOREM WakeupsNotLost == Spec => []NoLostWakeup
<1>1. IInv => NoLostWakeup
  BY DEF IInv
<1> QED BY <1>1, InvariantHolds, PTL

\* No worker sleeps, or goes to sleep, once the destructor has notified all.
THEOREM StopReachesAll == Spec => []StopWakesAll
<1>1. IInv => StopWakesAll
  BY DEF IInv
<1> QED BY <1>1, InvariantHolds, PTL

\* No accepted task is lost between the queue, a worker and its future, and
\* no two workers take the same one.
THEOREM TasksOnce == Spec => []EachTaskOnce
<1>1. IInv => EachTaskOnce
  BY DEF IInv
<1> QED BY <1>1, InvariantHolds, PTL

\* When join has returned, every future is ready and every worker is gone.
THEOREM DestructorDrains == Spec => []DestroyedDrained
<1>1. IInv => DestroyedDrained
  BY DEF IInv
<1> QED BY <1>1, InvariantHolds, PTL
=============================================================================
