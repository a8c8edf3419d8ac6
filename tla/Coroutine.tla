------------------------------ MODULE Coroutine ------------------------------
(***************************************************************************)
(* The asymmetric coroutine scheduler: lib::Coroutine, its machine         *)
(* Context, the PHP stack switching of lib::PHPCoroutine and the script    *)
(* API Cco::create, yield, resume, sleep and defer.                        *)
(*                                                                         *)
(* One thread runs everything.  Which C stack executes (running) is moved  *)
(* by jump_fcontext alone; which coroutine the scheduler believes to be    *)
(* executing (current) and which PHP stack the engine uses (vm_stack) are  *)
(* moved separately, by the code around each jump.  The three must agree   *)
(* whenever a script statement executes.                                   *)
(***************************************************************************)
EXTENDS Integers

CONSTANTS MaxCid,        \* bound: number of coroutines ever created
          MaxDefer,      \* bound: callbacks pending in one defer stack
          Destructible   \* coroutines that may return the last reference to
                         \* an object with a __destruct

ASSUME CoroutineAssumption ==
  MaxCid \in Nat /\ MaxDefer \in Nat /\ Destructible \in SUBSET Nat

\* Coroutine ids count up from 1.  Main is nullptr in current and origin,
\* main_task in task, and the process's own C stack.
Main == 0
Cids == 1..MaxCid
Contexts == 0..MaxCid

NoCallee == 0
NoPage == -1

VARIABLES
  last_cid,          \* Coroutine::last_cid
  coroutines,        \* keys of Coroutine::coroutines
  current,           \* Coroutine::current
  origin,            \* Coroutine::origin: who to go back to
  swap_ctx,          \* Context::swap_ctx_: the stack that last jumped in
  ctx,               \* what Context::ctx_ of each coroutine is good for
  running,           \* the C stack that executes
  callee,            \* this, in the run()/resume() frame a stack is inside
  vm_stack,          \* EG(vm_stack): the page of that context
  task,              \* the page recorded in each context's php_coro_task
  freed,             \* pages given to efree
  stage,             \* how far create_func of each coroutine is
  defer_tasks,       \* callbacks pending in each defer stack
  user_yield_coros,  \* keys of user_yield_coros
  timers,            \* pending one-shot timers that resume each coroutine
  fault              \* why the process died, "none" while it lives

swapVars == <<coroutines, current, origin, swap_ctx, ctx, running, callee,
              vm_stack, task, freed>>
scriptVars == <<last_cid, stage, defer_tasks, user_yield_coros, timers>>
vars == <<swapVars, scriptVars, fault>>

CtxStates == {"none", "active", "parked", "end", "deleted"}
\* zend_execute_ex; the loop over defer_tasks; zval_ptr_dtor(retval).
Stages == {"function", "deferred", "destructor"}
Faults == {"none", "no_current", "stale_resume", "bad_socket", "no_handler"}

Init ==
  /\ last_cid = 0
  /\ coroutines = {}
  /\ current = Main
  /\ origin = [c \in Cids |-> Main]
  /\ swap_ctx = [c \in Cids |-> Main]
  /\ ctx = [c \in Cids |-> "none"]
  /\ running = Main
  /\ callee = [x \in Contexts |-> NoCallee]
  /\ vm_stack = Main
  /\ task = [x \in Contexts |-> NoPage]
  /\ freed = {}
  /\ stage = [c \in Cids |-> "function"]
  /\ defer_tasks = [x \in Contexts |-> 0]
  /\ user_yield_coros = {}
  /\ timers = [c \in Cids |-> 0]
  /\ fault = "none"

-----------------------------------------------------------------------------
(* The switches. *)

\* The executing stack is in script code, not inside run() or resume().
UserCode == fault = "none" /\ callee[running] = NoCallee

\* MUTANT get_origin_task: always back to main_task, as if nothing nested.
MainTask(co) == Main

\* The context whose task yield and close restore: origin's, or main_task.
get_origin_task(co) == origin[co]

\* Coroutine::yield: save the PHP stack in the coroutine's task, restore its
\* origin's, and jump to the stack that last jumped in.
Yield(co) ==
  /\ task' = [task EXCEPT ![co] = vm_stack]
  /\ vm_stack' = task'[get_origin_task(co)]
  /\ current' = origin[co]
  /\ ctx' = [ctx EXCEPT ![co] = "parked"]
  /\ running' = swap_ctx[co]
  /\ UNCHANGED <<coroutines, origin, swap_ctx, callee, freed, fault>>

\* MUTANT SwapIn: origin is set by the constructor only.
SwapInKeepsOrigin(co) ==
  /\ current' = co
  /\ swap_ctx' = [swap_ctx EXCEPT ![co] = running]
  /\ callee' = [callee EXCEPT ![running] = co]
  /\ ctx' = [ctx EXCEPT ![co] = "active"]
  /\ running' = co
  /\ UNCHANGED origin

\* The head of run() and resume(): link the coroutine below current, jump.
SwapIn(co) ==
  /\ origin' = [origin EXCEPT ![co] = current]
  /\ current' = co
  /\ swap_ctx' = [swap_ctx EXCEPT ![co] = running]
  /\ callee' = [callee EXCEPT ![running] = co]
  /\ ctx' = [ctx EXCEPT ![co] = "active"]
  /\ running' = co

\* A null or dangling Coroutine* is followed: the process dies.
Die(why) == fault' = why /\ UNCHANGED swapVars

\* Coroutine::resume up to the jump.  Only a coroutine parked by yield has a
\* ctx_ to jump to: any other was deleted, or its stack is in use.
Resume(co) ==
  \/ /\ ctx[co] = "parked"
     /\ task' = [task EXCEPT ![current] = vm_stack]
     /\ vm_stack' = task'[co]
     /\ SwapIn(co)
     /\ UNCHANGED <<coroutines, freed, fault>>
  \/ ctx[co] # "parked" /\ Die("stale_resume")

\* MUTANT on_close: the page is read from EG after the restore.
RestoreThenFree(co) ==
  /\ vm_stack' = task[get_origin_task(co)]
  /\ freed' = freed \union {vm_stack'}

\* on_close: free the page the engine is on, then restore the origin's.
on_close(co) ==
  /\ freed' = freed \union {vm_stack}
  /\ vm_stack' = task[get_origin_task(co)]

\* The tail of run() and resume(), after the jump came back.  A coroutine
\* that only yielded needs nothing; one that ended is closed: its PHP page is
\* freed, the origin's restored, the object erased and deleted.
SwapInReturns ==
  LET co == callee[running] IN
  /\ fault = "none"
  /\ co # NoCallee
  /\ callee' = [callee EXCEPT ![running] = NoCallee]
  /\ \/ ctx[co] # "end" /\ UNCHANGED <<coroutines, current, ctx, vm_stack, freed>>
     \/ /\ ctx[co] = "end"
        /\ on_close(co)
        /\ coroutines' = coroutines \ {current}
        /\ current' = origin[co]
        /\ ctx' = [ctx EXCEPT ![co] = "deleted"]
  /\ UNCHANGED <<origin, swap_ctx, running, task, scriptVars, fault>>

-----------------------------------------------------------------------------
(* The script API.  get_current() is current; it is dereferenced unchecked. *)

\* Cco::create: save the caller's PHP stack, make a coroutine and run it on a
\* C stack and a PHP page of its own.
Create ==
  LET co == last_cid + 1 IN
  /\ UserCode
  /\ last_cid < MaxCid
  /\ last_cid' = co
  /\ coroutines' = coroutines \union {co}
  /\ vm_stack' = co
  /\ task' = [task EXCEPT ![current] = vm_stack, ![co] = co]
  /\ SwapIn(co)
  /\ UNCHANGED <<freed, stage, defer_tasks, user_yield_coros, timers, fault>>

\* Cco::yield.
UserYield ==
  /\ UserCode
  /\ \/ current = Main /\ Die("no_current") /\ UNCHANGED user_yield_coros
     \/ /\ current # Main
        /\ user_yield_coros' = user_yield_coros \union {current}
        /\ Yield(current)
  /\ UNCHANGED <<last_cid, stage, defer_tasks, timers>>

\* MUTANT UserResume: the entry is erased when the coroutine comes back.
ResumeThenErase(cid) ==
  /\ UserCode
  /\ cid \in user_yield_coros
  /\ Resume(cid)
  /\ UNCHANGED <<last_cid, stage, defer_tasks, timers, user_yield_coros>>

\* Cco::resume of a cid it knows; with any other it warns and does nothing.
UserResume(cid) ==
  /\ UserCode
  /\ cid \in user_yield_coros
  /\ user_yield_coros' = user_yield_coros \ {cid}
  /\ Resume(cid)
  /\ UNCHANGED <<last_cid, stage, defer_tasks, timers>>

\* MUTANT Sleep: no memory for the timer, and its ERROR is not looked at.
SleepUntimed ==
  /\ UserCode
  /\ current # Main
  /\ Yield(current)
  /\ UNCHANGED <<last_cid, stage, defer_tasks, user_yield_coros, timers>>

\* Cco::sleep: a one-shot timer, then yield.
Sleep ==
  /\ UserCode
  /\ \/ current = Main /\ Die("no_current") /\ UNCHANGED timers
     \/ /\ current # Main
        /\ timers' = [timers EXCEPT ![current] = @ + 1]
        /\ Yield(current)
  /\ UNCHANGED <<last_cid, stage, defer_tasks, user_yield_coros>>

\* MUTANT SleepCall: it answers something else than NOMORE.
SleepCallRepeats(co) ==
  /\ UserCode
  /\ running = Main
  /\ timers[co] > 0
  /\ Resume(co)
  /\ UNCHANGED <<last_cid, stage, defer_tasks, user_yield_coros, timers>>

\* sleep_call, run by the main stack's event loop; it answers NOMORE.
SleepCall(co) ==
  /\ UserCode
  /\ running = Main
  /\ timers[co] > 0
  /\ timers' = [timers EXCEPT ![co] = @ - 1]
  /\ Resume(co)
  /\ UNCHANGED <<last_cid, stage, defer_tasks, user_yield_coros>>

\* Cco::defer, in a coroutine's stack or in main_task's, which nothing runs.
Defer ==
  /\ UserCode
  /\ defer_tasks[current] < MaxDefer
  /\ defer_tasks' = [defer_tasks EXCEPT ![current] = @ + 1]
  /\ UNCHANGED <<swapVars, last_cid, stage, user_yield_coros, timers, fault>>

\* create_func of the stack that executes is at st, and back in its own code.
InStage(st) == UserCode /\ running \in Cids /\ stage[running] = st

\* zend_execute_ex returns to create_func.
FunctionReturns ==
  /\ InStage("function")
  /\ stage' = [stage EXCEPT ![running] = "deferred"]
  /\ UNCHANGED <<swapVars, last_cid, defer_tasks, user_yield_coros, timers, fault>>

\* MUTANT RunDeferred: top() of a stack that may be empty.
RunDeferredUnchecked ==
  /\ InStage("deferred")
  /\ defer_tasks' = [defer_tasks EXCEPT ![current] = @ - 1]
  /\ UNCHANGED <<swapVars, last_cid, stage, user_yield_coros, timers, fault>>

\* One turn of create_func's loop: the callback is popped and called.  What
\* it does are the script steps up to the next turn.
RunDeferred ==
  /\ InStage("deferred")
  /\ defer_tasks[current] > 0
  /\ defer_tasks' = [defer_tasks EXCEPT ![current] = @ - 1]
  /\ UNCHANGED <<swapVars, last_cid, stage, user_yield_coros, timers, fault>>

\* zval_ptr_dtor(retval) frees an object and calls its __destruct: script
\* steps up to ContextEnds, behind the loop over what is deferred.
Destructs ==
  /\ InStage("deferred")
  /\ running \in Destructible
  /\ defer_tasks[current] = 0
  /\ stage' = [stage EXCEPT ![running] = "destructor"]
  /\ UNCHANGED <<swapVars, last_cid, defer_tasks, user_yield_coros, timers, fault>>

\* MUTANT ContextEnds: the loop runs the callbacks pending on return only.
ContextEndsEarly ==
  /\ InStage("deferred") \/ InStage("destructor")
  /\ ctx' = [ctx EXCEPT ![running] = "end"]
  /\ running' = swap_ctx[running]
  /\ UNCHANGED <<coroutines, current, origin, swap_ctx, callee, vm_stack, task,
                 freed, scriptVars, fault>>

\* context_func after create_func: set end_ and jump out for good.
ContextEnds ==
  /\ \/ InStage("deferred") /\ defer_tasks[current] = 0
     \/ InStage("destructor")
  /\ ctx' = [ctx EXCEPT ![running] = "end"]
  /\ running' = swap_ctx[running]
  /\ UNCHANGED <<coroutines, current, origin, swap_ctx, callee, vm_stack, task,
                 freed, scriptVars, fault>>

\* What the stack that executes may do next, in a script or at its end.
ScriptStep ==
  \/ Create
  \/ UserYield
  \/ \E cid \in Cids : UserResume(cid)
  \/ Sleep
  \/ Defer
  \/ FunctionReturns
  \/ RunDeferred
  \/ Destructs
  \/ ContextEnds

Next ==
  \/ SwapInReturns
  \/ ScriptStep
  \/ \E co \in Cids : SleepCall(co)

Spec == Init /\ [][Next]_vars

\* process_time_event walks the whole list on every turn of the event loop,
\* so a timer the loop meets again and again is run.
FairSpec == Spec /\ \A co \in Cids : SF_vars(SleepCall(co))

-----------------------------------------------------------------------------
(* Properties. *)

SwapTypeOK ==
  /\ last_cid \in Contexts
  /\ coroutines \in SUBSET Cids
  /\ current \in Contexts
  /\ origin \in [Cids -> Contexts]
  /\ swap_ctx \in [Cids -> Contexts]
  /\ ctx \in [Cids -> CtxStates]
  /\ running \in Contexts
  /\ callee \in [Contexts -> Contexts]
  /\ vm_stack \in Contexts
  /\ task \in [Contexts -> Contexts \union {NoPage}]
  /\ freed \in SUBSET Contexts
  /\ fault \in Faults

\* Every variable keeps its type; the engine's stack is never an unset task's.
TypeOK ==
  /\ SwapTypeOK
  /\ stage \in [Cids -> Stages]
  /\ defer_tasks \in [Contexts -> 0..MaxDefer]
  /\ user_yield_coros \in SUBSET Cids
  /\ timers \in [Cids -> Nat]

\* Whenever a script statement executes, the scheduler's current and the
\* engine's PHP stack are those of the C stack that executes; between a
\* coroutine's end and its close they are still the ended coroutine's, whose
\* page on_close frees.  (yield and resume move the three separately.)
StackCoherence ==
  /\ UserCode => current = running /\ vm_stack = running
  /\ callee[running] # NoCallee =>
       LET x == IF ctx[callee[running]] = "end" THEN callee[running] ELSE running
       IN current = x /\ vm_stack = x

\* A coroutine that waits has exactly one way to be woken, and one that does
\* not wait has none: user_yield_coros and the timer list hold raw pointers
\* that Cco::resume and sleep_call follow without asking, so a left-over
\* entry resumes a dead or running coroutine and a missing one loses it.
OneWakeSource ==
  \A co \in Cids :
    timers[co] + (IF co \in user_yield_coros THEN 1 ELSE 0)
      = IF ctx[co] = "parked" THEN 1 ELSE 0

\* The API as it stands, channels and sockets aside, resumes no coroutine
\* that is not parked in yield.
NoStaleResume == fault # "stale_resume"

\* on_close frees the page of the coroutine that ended and no other, once,
\* and the table of coroutines forgets exactly the deleted ones: get_by_cid
\* never returns a dangling pointer and no live stack lies in freed memory.
ClosedExactly ==
  /\ freed = {co \in Cids : ctx[co] = "deleted"}
  /\ coroutines = {co \in Cids : ctx[co] \in {"active", "parked", "end"}}
  /\ \A co \in coroutines : task[co] = co
  /\ vm_stack \notin freed

\* A coroutine ends with a callback pending, which is then lost, for one
\* reason only: the destructor of its return value deferred it, behind the
\* loop.  What the function or a deferred callback defers is run, whatever
\* they call and however often they yield on the way.
NoDeferredLost ==
  \A co \in Cids :
    ctx[co] \in {"end", "deleted"} /\ defer_tasks[co] > 0 => stage[co] = "destructor"

\* A coroutine in Cco::sleep is resumed, if the main stack comes back to its
\* event loop again and again.
Sleeping(co) == ctx[co] = "parked" /\ co \notin user_yield_coros
SleepersWake ==
  []<>(UserCode /\ running = Main)
    => \A co \in Cids : Sleeping(co) ~> ~Sleeping(co)
=============================================================================
