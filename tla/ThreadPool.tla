----------------------------- MODULE ThreadPool -----------------------------
(***************************************************************************)
(* The worker pool behind Lib\Thread\Pool: a queue of tasks, one mutex and *)
(* one condition variable.  Worker threads wait for tasks; the script, and *)
(* any task that calls add itself, enqueues; the destructor stops the pool *)
(* and joins the workers.  A step is what a thread does between two points *)
(* where another may take over: a lock, an unlock or a notification.       *)
(***************************************************************************)
EXTENDS Naturals, Sequences, FiniteSets

CONSTANTS Workers,  \* the threads the constructor starts
          Script,   \* the thread that made the pool
          MaxTasks  \* bound: number of calls of enqueue

Threads == Workers \union {Script}
Tasks == 1..MaxTasks
NoTask == 0
Free == "free"

ASSUME ThreadPoolAssumption ==
  /\ IsFiniteSet(Workers)
  /\ Script \notin Workers
  /\ Free \notin Threads
  /\ MaxTasks \in Nat

VARIABLES
  pc,        \* where each thread is
  queue_mu,  \* the thread that holds the mutex, or Free
  waiting,   \* workers blocked in cond.wait
  stop,
  tasks,     \* numbered in the order enqueue was called
  running,   \* the task a worker has taken
  called,    \* number of calls of enqueue
  accepted,  \* tasks put in the queue; the others' enqueue threw
  ready      \* tasks that ran, and whose future has its value

vars == <<pc, queue_mu, waiting, stop, tasks, running, called, accepted, ready>>

\* worker loop:  lock, check, task (and enqueue and notify, inside a task), exited
\* script:       task, enqueue, notify, stop, notify_all, join, destroyed
WorkerPCs == {"lock", "check", "task", "enqueue", "notify", "exited"}
ScriptPCs == {"task", "enqueue", "notify", "stop", "notify_all", "join", "destroyed"}

Init ==
  /\ pc = [t \in Threads |-> IF t = Script THEN "task" ELSE "lock"]
  /\ queue_mu = Free
  /\ waiting = {}
  /\ stop = FALSE
  /\ tasks = <<>>
  /\ running = [w \in Workers |-> NoTask]
  /\ called = 0
  /\ accepted = {}
  /\ ready = {}

Goto(t, l) == pc' = [pc EXCEPT ![t] = l]

\* The thread takes the free mutex and goes on to l.
Acquire(t, l) == queue_mu = Free /\ queue_mu' = t /\ Goto(t, l)

-----------------------------------------------------------------------------
(* The worker loop. *)

\* Entering the loop, or waking up inside cond.wait.
Lock(w) ==
  /\ pc[w] = "lock"
  /\ w \notin waiting
  /\ Acquire(w, "check")
  /\ UNCHANGED <<waiting, stop, tasks, running, called, accepted, ready>>

\* MUTANT Wait: the mutex is kept while the worker sleeps.
WaitHoldingLock(w) ==
  /\ pc[w] = "check"
  /\ ~ stop /\ tasks = <<>>
  /\ waiting' = waiting \union {w}
  /\ Goto(w, "lock")
  /\ UNCHANGED <<queue_mu, stop, tasks, running, called, accepted, ready>>

\* The wait's predicate is false: block and release the mutex in one step.
Wait(w) ==
  /\ pc[w] = "check"
  /\ ~ stop /\ tasks = <<>>
  /\ waiting' = waiting \union {w}
  /\ queue_mu' = Free
  /\ Goto(w, "lock")
  /\ UNCHANGED <<stop, tasks, running, called, accepted, ready>>

\* MUTANT Exit: stop alone is enough.
ExitOnStop(w) ==
  /\ pc[w] = "check"
  /\ stop
  /\ queue_mu' = Free
  /\ Goto(w, "exited")
  /\ UNCHANGED <<waiting, stop, tasks, running, called, accepted, ready>>

\* Stopped, and nothing left to do.
Exit(w) ==
  /\ pc[w] = "check"
  /\ stop /\ tasks = <<>>
  /\ queue_mu' = Free
  /\ Goto(w, "exited")
  /\ UNCHANGED <<waiting, stop, tasks, running, called, accepted, ready>>

\* MUTANT Take: front() without pop().
TakeCopy(w) ==
  /\ pc[w] = "check"
  /\ tasks # <<>>
  /\ running' = [running EXCEPT ![w] = Head(tasks)]
  /\ queue_mu' = Free
  /\ Goto(w, "task")
  /\ UNCHANGED <<waiting, stop, tasks, called, accepted, ready>>

\* The front task leaves the queue under the mutex and is called without it.
Take(w) ==
  /\ pc[w] = "check"
  /\ tasks # <<>>
  /\ running' = [running EXCEPT ![w] = Head(tasks)]
  /\ tasks' = Tail(tasks)
  /\ queue_mu' = Free
  /\ Goto(w, "task")
  /\ UNCHANGED <<waiting, stop, called, accepted, ready>>

\* task() returns; the packaged_task has set its future.
Finish(w) ==
  /\ pc[w] = "task"
  /\ ready' = ready \union {running[w]}
  /\ running' = [running EXCEPT ![w] = NoTask]
  /\ Goto(w, "lock")
  /\ UNCHANGED <<queue_mu, waiting, stop, tasks, called, accepted>>

\* cond.wait may return without a notification.
SpuriousWakeup(w) ==
  /\ w \in waiting
  /\ waiting' = waiting \ {w}
  /\ UNCHANGED <<pc, queue_mu, stop, tasks, running, called, accepted, ready>>

-----------------------------------------------------------------------------
(* enqueue, by the script or by a task. *)

EnqueueLock(t) ==
  /\ pc[t] = "task"
  /\ called < MaxTasks
  /\ Acquire(t, "enqueue")
  /\ UNCHANGED <<waiting, stop, tasks, running, called, accepted, ready>>

\* MUTANT Enqueue: notify only when the queue was empty.
EnqueueQuietly(t) ==
  /\ pc[t] = "enqueue"
  /\ ~ stop
  /\ called' = called + 1
  /\ queue_mu' = Free
  /\ tasks' = Append(tasks, called + 1)
  /\ accepted' = accepted \union {called + 1}
  /\ Goto(t, IF tasks = <<>> THEN "notify" ELSE "task")
  /\ UNCHANGED <<waiting, stop, running, ready>>

\* Under the mutex: throw if the pool is stopped, or queue the task.
Enqueue(t) ==
  /\ pc[t] = "enqueue"
  /\ called' = called + 1
  /\ queue_mu' = Free
  /\ \/ stop /\ Goto(t, "task") /\ UNCHANGED <<tasks, accepted>>
     \/ /\ ~ stop
        /\ tasks' = Append(tasks, called + 1)
        /\ accepted' = accepted \union {called + 1}
        /\ Goto(t, "notify")
  /\ UNCHANGED <<waiting, stop, running, ready>>

\* MUTANT NotifyOne: the notification reaches nobody.
NotifyNobody(t) ==
  /\ pc[t] = "notify"
  /\ Goto(t, "task")
  /\ UNCHANGED <<waiting, queue_mu, stop, tasks, running, called, accepted, ready>>

\* cond.notify_one, after the mutex is released: any one waiter, if any.
NotifyOne(t) ==
  /\ pc[t] = "notify"
  /\ Goto(t, "task")
  /\ \/ waiting = {} /\ UNCHANGED waiting
     \/ \E w \in waiting : waiting' = waiting \ {w}
  /\ UNCHANGED <<queue_mu, stop, tasks, running, called, accepted, ready>>

-----------------------------------------------------------------------------
(* ~ThreadPool, by the script: set stop under the mutex, notify, join. *)

StopLock ==
  /\ pc[Script] = "task"
  /\ Acquire(Script, "stop")
  /\ UNCHANGED <<waiting, stop, tasks, running, called, accepted, ready>>

Stop ==
  /\ pc[Script] = "stop"
  /\ stop' = TRUE
  /\ queue_mu' = Free
  /\ Goto(Script, "notify_all")
  /\ UNCHANGED <<waiting, tasks, running, called, accepted, ready>>

\* MUTANT NotifyAll: notify_one.
NotifyAllButOne ==
  /\ pc[Script] = "notify_all"
  /\ \/ waiting = {} /\ UNCHANGED waiting
     \/ \E w \in waiting : waiting' = waiting \ {w}
  /\ Goto(Script, "join")
  /\ UNCHANGED <<queue_mu, stop, tasks, running, called, accepted, ready>>

NotifyAll ==
  /\ pc[Script] = "notify_all"
  /\ waiting' = {}
  /\ Goto(Script, "join")
  /\ UNCHANGED <<queue_mu, stop, tasks, running, called, accepted, ready>>

Join ==
  /\ pc[Script] = "join"
  /\ \A w \in Workers : pc[w] = "exited"
  /\ Goto(Script, "destroyed")
  /\ UNCHANGED <<queue_mu, waiting, stop, tasks, running, called, accepted, ready>>

Work(w) == Lock(w) \/ Wait(w) \/ Exit(w) \/ Take(w) \/ Finish(w) \/ SpuriousWakeup(w)
Add(t) == EnqueueLock(t) \/ Enqueue(t) \/ NotifyOne(t)
Destroy == StopLock \/ Stop \/ NotifyAll \/ Join

Next == (\E w \in Workers : Work(w)) \/ (\E t \in Threads : Add(t)) \/ Destroy

Spec == Init /\ [][Next]_vars

\* Threads run and tasks return; nothing is asked of the script but to finish
\* a call it has begun, so it may as well be blocked in future.get.  A worker
\* gets a mutex that is free again and again.
FairSpec ==
  /\ Spec
  /\ \A w \in Workers :
       SF_vars(Lock(w)) /\ WF_vars(Wait(w) \/ Exit(w) \/ Take(w) \/ Finish(w))
  /\ \A t \in Threads : WF_vars(Enqueue(t)) /\ WF_vars(NotifyOne(t))
  /\ WF_vars(Stop \/ NotifyAll \/ Join)

-----------------------------------------------------------------------------
(* Properties. *)

\* Types, and the lock discipline: who is inside a locked region holds the
\* mutex, and nobody else does.
TypeOK ==
  /\ pc \in [Threads -> WorkerPCs \union ScriptPCs]
  /\ \A w \in Workers : pc[w] \in WorkerPCs
  /\ pc[Script] \in ScriptPCs
  /\ queue_mu \in Threads \union {Free}
  /\ \A t \in Threads : pc[t] \in {"check", "enqueue", "stop"} <=> queue_mu = t
  /\ waiting \subseteq {w \in Workers : pc[w] = "lock"}
  /\ stop \in BOOLEAN
  /\ tasks \in Seq(Tasks)
  /\ running \in [Workers -> Tasks \union {NoTask}]
  /\ called \in 0..MaxTasks
  /\ accepted \in SUBSET (1..called)
  /\ ready \in SUBSET accepted

\* Those on the way to the queue: workers about to look at it, and threads
\* about to wake one.
Coming ==
  {t \in Threads : pc[t] = "notify" \/ (pc[t] \in {"lock", "check"} /\ t \notin waiting)}

\* No worker sleeps while a task lies in the queue that nobody is on the way
\* to take: enqueue notifies after it released the mutex, and the notification
\* is not lost to a worker that is about to wait.
NoLostWakeup == waiting # {} => Len(tasks) <= Cardinality(Coming)

\* Once the destructor waits in join nobody sleeps: a worker that saw stop
\* unset has gone to sleep before notify_all.
StopWakesAll == pc[Script] \in {"join", "destroyed"} => waiting = {}

Queued == {tasks[i] : i \in 1..Len(tasks)}
Taken == {running[w] : w \in Workers} \ {NoTask}

\* An accepted task is queued, running or ready; it is taken once.
EachTaskOnce ==
  /\ accepted = Queued \union Taken \union ready
  /\ Queued \intersect Taken = {}
  /\ ready \intersect (Queued \union Taken) = {}
  /\ \A i, j \in 1..Len(tasks) : tasks[i] = tasks[j] => i = j
  /\ \A v, w \in Workers : running[v] = running[w] /\ running[v] # NoTask => v = w

\* When the destructor returns every future it handed out is ready, and no
\* thread is left that could touch the pool.
DestroyedDrained ==
  pc[Script] = "destroyed" =>
    /\ Workers # {} => accepted = ready
    /\ \A w \in Workers : pc[w] = "exited"

\* Every accepted task runs, whatever the script does: future.get returns.
AcceptedRuns == \A k \in Tasks : k \in accepted ~> k \in ready

\* A destructor that has begun returns.
DestructorReturns == pc[Script] = "stop" ~> pc[Script] = "destroyed"
=============================================================================
