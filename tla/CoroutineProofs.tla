-------------------------- MODULE CoroutineProofs --------------------------
(***************************************************************************)
(* Proofs about the scheduler, for any number of coroutines.               *)
(*                                                                         *)
(* The properties of Coroutine are not inductive: that a jump lands on a   *)
(* stack whose own coroutine is current again follows from how the entered *)
(* stacks are linked, which Links and Frames describe.                     *)
(***************************************************************************)
EXTENDS CoroutineStack, Minimum

\* x has been entered and has neither yielded nor ended.
Entered(x) == x = Main \/ (x \in Cids /\ ctx[x] = "active")

\* The scheduler's way back from a coroutine, origin, is the machine's way
\* back, swap_ctx_, and leads to the stack whose run() or resume() entered it.
Links ==
  \A co \in Cids : ctx[co] \in {"active", "end"} =>
    /\ origin[co] = swap_ctx[co]
    /\ Entered(origin[co])
    /\ callee[origin[co]] = co

\* Every entered stack but the executing one waits inside run() or resume()
\* of an entered coroutine it entered itself; the executing one is in script
\* code or in the tail after a jump that came back.
Frames ==
  /\ Entered(running)
  /\ \A x \in Contexts : ~ Entered(x) => callee[x] = NoCallee
  /\ \A x \in Contexts : Entered(x) /\ x # running =>
       callee[x] \in Cids /\ ctx[callee[x]] = "active" /\ origin[callee[x]] = x
  /\ callee[running] # NoCallee =>
       \/ ctx[callee[running]] = "parked"
       \/ ctx[callee[running]] = "end" /\ origin[callee[running]] = running
  /\ callee[Main] # NoCallee => task[Main] = Main

\* Coroutines are numbered in the order of their creation, without a gap.
Numbered == \A co \in Cids : ctx[co] = "none" <=> last_cid < co

\* What the switches preserve, whoever makes them.
SwapInv ==
  /\ SwapTypeOK
  /\ Links
  /\ Frames
  /\ Numbered
  /\ StackCoherence
  /\ ClosedExactly

IInv ==
  /\ TypeOK
  /\ SwapInv
  /\ OneWakeSource
  /\ NoDeferredLost
  /\ NoStaleResume

-----------------------------------------------------------------------------
(* The switches. *)

LEMMA NoCalleeIsContext == NoCallee \in Contexts
BY CoroutineAssumption DEF NoCallee, Contexts

\* A coroutine that yields gives the C stack, current and the PHP stack back
\* to the one stack that entered it.
LEMMA YieldKeeps ==
  ASSUME SwapInv, UserCode, current # Main, Yield(current), UNCHANGED last_cid
  PROVE  SwapInv'
<1> DEFINE co == current
           r == origin[co]
<1>0. co = running /\ co \in Cids /\ vm_stack = co /\ ctx[co] = "active"
  BY CoroutineAssumption
     DEF SwapInv, UserCode, StackCoherence, Frames, Entered, SwapTypeOK, Cids, Contexts, Main
<1>1. r = swap_ctx[co] /\ r \in Contexts /\ Entered(r) /\ callee[r] = co /\ r # co
  BY <1>0, CoroutineAssumption
     DEF SwapInv, UserCode, Links, SwapTypeOK, NoCallee, Cids, Contexts, Main
<1>2. task' = [task EXCEPT ![co] = co] /\ task[r] = r
  BY <1>0, <1>1
     DEF Yield, SwapInv, ClosedExactly, Frames, Entered, SwapTypeOK, NoCallee, Cids, Main
<1>3. /\ vm_stack' = r /\ current' = r /\ running' = r
      /\ ctx' = [ctx EXCEPT ![co] = "parked"]
  BY <1>0, <1>1, <1>2 DEF Yield, get_origin_task, SwapInv, SwapTypeOK
<1>4. UNCHANGED <<coroutines, origin, swap_ctx, callee, freed, fault, last_cid>>
  BY DEF Yield
<1>5. SwapTypeOK'
  BY <1>0, <1>1, <1>2, <1>3, <1>4 DEF SwapInv, SwapTypeOK, CtxStates, Cids, Contexts
<1>6. Links'
  BY <1>0, <1>1, <1>3, <1>4
     DEF SwapInv, SwapTypeOK, Links, Entered, UserCode, NoCallee, Cids, Contexts, Main
<1>7. Frames'
  BY <1>0, <1>1, <1>2, <1>3, <1>4
     DEF SwapInv, SwapTypeOK, Frames, Links, Entered, UserCode, NoCallee, Cids, Contexts, Main
<1>8. Numbered'
  BY <1>0, <1>3, <1>4 DEF SwapInv, SwapTypeOK, Numbered
<1>9. StackCoherence'
  BY <1>0, <1>1, <1>3, <1>4 DEF SwapInv, SwapTypeOK, StackCoherence, UserCode, NoCallee, Cids, Main
<1>10. ClosedExactly'
  BY <1>0, <1>1, <1>2, <1>3, <1>4
     DEF SwapInv, SwapTypeOK, ClosedExactly, Entered, Cids, Contexts, Main
<1> QED BY <1>5, <1>6, <1>7, <1>8, <1>9, <1>10 DEF SwapInv

\* Resuming a parked coroutine saves the PHP stack of the script that asks and
\* restores the coroutine's own.
LEMMA ResumeKeeps ==
  ASSUME NEW co \in Cids, SwapInv, UserCode, ctx[co] = "parked", Resume(co),
         UNCHANGED last_cid
  PROVE  SwapInv' /\ ctx' = [ctx EXCEPT ![co] = "active"] /\ UNCHANGED fault
<1> DEFINE r == running
<1>0. r = current /\ vm_stack = r /\ r # co /\ Entered(r) /\ r \in Contexts
  BY DEF SwapInv, UserCode, StackCoherence, Frames, Entered, SwapTypeOK, Cids, Contexts, Main
<1>1. task' = [task EXCEPT ![r] = r] /\ task[co] = co
  BY <1>0 DEF Resume, SwapInv, ClosedExactly
<1>2. /\ vm_stack' = co /\ current' = co /\ running' = co
      /\ origin' = [origin EXCEPT ![co] = r]
      /\ swap_ctx' = [swap_ctx EXCEPT ![co] = r]
      /\ callee' = [callee EXCEPT ![r] = co]
      /\ ctx' = [ctx EXCEPT ![co] = "active"]
      /\ UNCHANGED <<coroutines, freed, fault, last_cid>>
  <2>1. task \in [Contexts -> Contexts \union {NoPage}] /\ co \in Contexts
    BY CoroutineAssumption DEF SwapInv, SwapTypeOK, Cids, Contexts
  <2>2. task'[co] = co
    BY <1>0, <1>1, <2>1
  <2> QED BY <1>0, <2>2 DEF Resume, SwapIn
<1>3. callee[co] = NoCallee /\ callee[r] = NoCallee
  BY <1>0 DEF SwapInv, Frames, Entered, UserCode, Cids, Contexts, Main
<1>5. SwapTypeOK'
  BY <1>0, <1>1, <1>2 DEF SwapInv, SwapTypeOK, CtxStates, Cids, Contexts
<1>6. Links'
  BY <1>0, <1>2, <1>3 DEF SwapInv, SwapTypeOK, Links, Entered, NoCallee, Cids, Contexts, Main
<1>7. Frames'
  BY <1>0, <1>1, <1>2, <1>3
     DEF SwapInv, SwapTypeOK, Frames, Links, Entered, NoCallee, Cids, Contexts, Main
<1>8. Numbered'
  BY <1>2 DEF SwapInv, SwapTypeOK, Numbered
<1>9. StackCoherence'
  BY <1>0, <1>2, <1>3 DEF SwapInv, SwapTypeOK, StackCoherence, UserCode, NoCallee, Cids, Contexts, Main
<1>10. ClosedExactly'
  BY <1>0, <1>1, <1>2 DEF SwapInv, SwapTypeOK, ClosedExactly, Cids, Contexts, Main
<1> QED BY <1>2, <1>5, <1>6, <1>7, <1>8, <1>9, <1>10 DEF SwapInv

\* A fresh coroutine starts on a C stack and a page that nobody has used.
LEMMA CreateKeeps ==
  ASSUME SwapInv, Create
  PROVE  SwapInv' /\ last_cid + 1 \in Cids /\ ctx[last_cid + 1] = "none"
         /\ ctx' = [ctx EXCEPT ![last_cid + 1] = "active"]
<1> DEFINE co == last_cid + 1
           r == running
<1>0. /\ r = current /\ vm_stack = r /\ Entered(r) /\ r \in Contexts
      /\ UserCode /\ co \in Cids /\ co \in Contexts /\ ctx[co] = "none" /\ r # co
  BY CoroutineAssumption
     DEF SwapInv, Create, UserCode, StackCoherence, Frames, Numbered, Entered, SwapTypeOK,
         Cids, Contexts, Main
<1>1. task' = [task EXCEPT ![r] = r, ![co] = co]
  BY <1>0 DEF Create
<1>2. /\ vm_stack' = co /\ current' = co /\ running' = co /\ last_cid' = co
      /\ origin' = [origin EXCEPT ![co] = r]
      /\ swap_ctx' = [swap_ctx EXCEPT ![co] = r]
      /\ callee' = [callee EXCEPT ![r] = co]
      /\ ctx' = [ctx EXCEPT ![co] = "active"]
      /\ coroutines' = coroutines \union {co}
      /\ UNCHANGED <<freed, fault>>
  BY <1>0 DEF Create, SwapIn
<1>3. callee[co] = NoCallee /\ callee[r] = NoCallee
  BY <1>0 DEF SwapInv, Frames, Entered, UserCode, Cids, Contexts, Main
<1>5. SwapTypeOK'
  BY <1>0, <1>1, <1>2 DEF SwapInv, SwapTypeOK, CtxStates, Cids, Contexts
<1>6. Links'
  BY <1>0, <1>2, <1>3 DEF SwapInv, SwapTypeOK, Links, Entered, NoCallee, Cids, Contexts, Main
<1>7. Frames'
  BY <1>0, <1>1, <1>2, <1>3
     DEF SwapInv, SwapTypeOK, Frames, Links, Entered, NoCallee, Cids, Contexts, Main
<1>8. Numbered'
  BY <1>0, <1>2 DEF SwapInv, SwapTypeOK, Numbered, Cids, Contexts
<1>9. StackCoherence'
  BY <1>0, <1>2, <1>3 DEF SwapInv, SwapTypeOK, StackCoherence, UserCode, NoCallee, Cids, Contexts, Main
<1>10. ClosedExactly'
  BY <1>0, <1>1, <1>2 DEF SwapInv, SwapTypeOK, ClosedExactly, Cids, Contexts, Main
<1> QED BY <1>0, <1>2, <1>5, <1>6, <1>7, <1>8, <1>9, <1>10 DEF SwapInv

\* The stack a coroutine ends on jumps to the one that will close it.
LEMMA ContextEndsKeeps ==
  ASSUME SwapInv, ContextEnds
  PROVE  SwapInv' /\ running \in Cids /\ current = running /\ ctx[running] = "active"
         /\ ctx' = [ctx EXCEPT ![running] = "end"]
<1> DEFINE co == running
           r == origin[co]
<1>0. /\ co \in Contexts /\ current = co /\ vm_stack = co /\ UserCode /\ Entered(co)
      /\ running' = swap_ctx[co] /\ ctx' = [ctx EXCEPT ![co] = "end"]
      /\ UNCHANGED <<coroutines, current, origin, swap_ctx, callee, vm_stack, task,
                     freed, last_cid, fault>>
  BY DEF SwapInv, ContextEnds, InStage, scriptVars, UserCode, StackCoherence, Frames, SwapTypeOK
<1>1. co \in Cids /\ ctx[co] = "active"
  BY <1>0 DEF ContextEnds, InStage, Entered, Cids, Main
<1>2. r = swap_ctx[co] /\ r \in Contexts /\ Entered(r) /\ callee[r] = co /\ r # co
  BY <1>0, <1>1, CoroutineAssumption
     DEF SwapInv, UserCode, Links, SwapTypeOK, NoCallee, Cids, Contexts, Main
<1>5. SwapTypeOK'
  BY <1>0, <1>1, <1>2 DEF SwapInv, SwapTypeOK, CtxStates, Cids, Contexts
<1>6. Links'
  BY <1>0, <1>1, <1>2
     DEF SwapInv, SwapTypeOK, Links, Entered, UserCode, NoCallee, Cids, Contexts, Main
<1>7. Frames'
  BY <1>0, <1>1, <1>2
     DEF SwapInv, SwapTypeOK, Frames, ClosedExactly, Links, Entered, UserCode, NoCallee,
         Cids, Contexts, Main
<1>8. Numbered'
  BY <1>0, <1>1 DEF SwapInv, SwapTypeOK, Numbered
<1>9. StackCoherence'
  BY <1>0, <1>1, <1>2 DEF SwapInv, SwapTypeOK, StackCoherence, UserCode, NoCallee, Cids, Main
<1>10. ClosedExactly'
  BY <1>0, <1>1, <1>2 DEF SwapInv, SwapTypeOK, ClosedExactly, Cids, Contexts, Main
<1> QED BY <1>0, <1>1, <1>5, <1>6, <1>7, <1>8, <1>9, <1>10 DEF SwapInv

\* The tail of run() and resume(): nothing to do for a coroutine that yielded,
\* and everything about the one that ended put away.
LEMMA SwapInReturnsKeeps ==
  ASSUME SwapInv, SwapInReturns
  PROVE  SwapInv'
<1> DEFINE co == callee[running]
           r == running
<1>0. /\ r \in Contexts /\ Entered(r) /\ co \in Cids /\ co # NoCallee /\ fault = "none"
      /\ callee' = [callee EXCEPT ![r] = NoCallee]
      /\ UNCHANGED <<origin, swap_ctx, running, task, last_cid, fault>>
  BY DEF SwapInv, SwapInReturns, scriptVars, SwapTypeOK, Frames, NoCallee, Cids, Contexts
<1>1. CASE ctx[co] # "end"
  <2>0. ctx[co] = "parked" /\ current = r /\ vm_stack = r
    BY <1>0, <1>1 DEF SwapInv, Frames, StackCoherence
  <2>1. UNCHANGED <<coroutines, current, ctx, vm_stack, freed>>
    BY <1>0, <1>1 DEF SwapInReturns
  <2>2. SwapTypeOK'
    BY <1>0, <2>1, NoCalleeIsContext DEF SwapInv, SwapTypeOK
  <2>3. Links'
    BY <1>0, <2>0, <2>1 DEF SwapInv, SwapTypeOK, Links, Entered, Cids, Contexts
  <2>4. Frames'
    BY <1>0, <2>0, <2>1 DEF SwapInv, SwapTypeOK, Frames, Entered, NoCallee, Cids, Contexts
  <2>5. Numbered' /\ StackCoherence' /\ ClosedExactly'
    BY <1>0, <2>0, <2>1
       DEF SwapInv, SwapTypeOK, Numbered, StackCoherence, ClosedExactly, UserCode, NoCallee
  <2> QED BY <2>2, <2>3, <2>4, <2>5 DEF SwapInv
<1>2. CASE ctx[co] = "end"
  <2>0. origin[co] = r /\ current = co /\ vm_stack = co /\ co # r
    BY <1>0, <1>2 DEF SwapInv, Frames, StackCoherence, Entered, Cids, Main
  <2>1. task[r] = r /\ r \notin freed
    BY <1>0, <2>0, <1>2 DEF SwapInv, SwapTypeOK, Frames, ClosedExactly, Entered, Cids, Main
  <2>2. /\ freed' = freed \union {co} /\ vm_stack' = r /\ current' = r
        /\ coroutines' = coroutines \ {co}
        /\ ctx' = [ctx EXCEPT ![co] = "deleted"]
    BY <1>0, <1>2, <2>0, <2>1 DEF SwapInReturns, on_close, get_origin_task
  <2>3. SwapTypeOK'
    BY <1>0, <2>0, <2>2, NoCalleeIsContext DEF SwapInv, SwapTypeOK, CtxStates, Cids, Contexts
  <2>4. Links'
    BY <1>0, <1>2, <2>0, <2>2 DEF SwapInv, SwapTypeOK, Links, Entered, Cids, Contexts
  <2>5. Frames'
    BY <1>0, <1>2, <2>0, <2>2
       DEF SwapInv, SwapTypeOK, Frames, Entered, NoCallee, Cids, Contexts
  <2>6. Numbered'
    BY <1>0, <1>2, <2>2 DEF SwapInv, SwapTypeOK, Numbered
  <2>7. StackCoherence'
    BY <1>0, <2>2 DEF SwapInv, SwapTypeOK, StackCoherence, UserCode, NoCallee
  <2>8. ClosedExactly'
    BY <1>0, <1>2, <2>0, <2>1, <2>2 DEF SwapInv, SwapTypeOK, ClosedExactly, Cids, Contexts
  <2> QED BY <2>3, <2>4, <2>5, <2>6, <2>7, <2>8 DEF SwapInv
<1> QED BY <1>1, <1>2

\* A step that leaves the switches alone, or dies, leaves what they keep.
LEMMA SwapInvStable ==
  ASSUME SwapInv, UNCHANGED <<swapVars, last_cid>>,
         fault' = fault \/ fault' \in Faults \ {"none"}
  PROVE  SwapInv'
<1>1. SwapTypeOK'
  BY DEF SwapInv, SwapTypeOK, swapVars
<1>2. Links' /\ Frames' /\ Numbered' /\ ClosedExactly'
  BY DEF SwapInv, swapVars, Links, Frames, Numbered, ClosedExactly, Entered
<1>3. StackCoherence'
  BY DEF SwapInv, swapVars, StackCoherence, UserCode
<1> QED BY <1>1, <1>2, <1>3 DEF SwapInv

-----------------------------------------------------------------------------
(* The script API. *)

\* In script code, a current coroutine is the one that executes.
LEMMA CurrentActive ==
  ASSUME SwapInv, UserCode
  PROVE  current = Main \/ (current \in Cids /\ ctx[current] = "active")
BY DEF SwapInv, UserCode, StackCoherence, Frames, Entered

\* A process that died of a call outside every coroutine did nothing else.
LEMMA DyingKeeps ==
  ASSUME IInv, Die("no_current"), UNCHANGED scriptVars
  PROVE  IInv'
<1>1. SwapInv'
  BY SwapInvStable DEF IInv, Die, scriptVars, Faults
<1> QED BY <1>1
     DEF IInv, SwapInv, Die, TypeOK, OneWakeSource, NoDeferredLost, NoStaleResume, Faults,
         scriptVars, swapVars

LEMMA InitInv == Init => IInv
<1> SUFFICES ASSUME Init PROVE IInv
  OBVIOUS
<1>1. TypeOK /\ SwapTypeOK
  BY CoroutineAssumption
     DEF Init, TypeOK, SwapTypeOK, CtxStates, Stages, Faults, NoCallee, NoPage, Cids, Contexts, Main
<1>2. Links /\ Frames /\ Numbered
  BY CoroutineAssumption
     DEF Init, Links, Frames, Numbered, Entered, NoCallee, Cids, Contexts, Main
<1>3. StackCoherence /\ ClosedExactly
  BY CoroutineAssumption
     DEF Init, StackCoherence, ClosedExactly, UserCode, NoCallee, Cids, Contexts, Main
<1>4. OneWakeSource /\ NoDeferredLost /\ NoStaleResume
  BY DEF Init, OneWakeSource, NoDeferredLost, NoStaleResume
<1> QED BY <1>1, <1>2, <1>3, <1>4 DEF IInv, SwapInv

LEMMA NextInv == IInv /\ [Next]_vars => IInv'
<1> SUFFICES ASSUME IInv, [Next]_vars PROVE IInv'
  OBVIOUS
<1> USE DEF IInv
<1>1. CASE SwapInReturns
  <2>1. UNCHANGED <<scriptVars, fault>>
        /\ \/ UNCHANGED ctx
           \/ \E co \in Cids : ctx[co] = "end" /\ ctx' = [ctx EXCEPT ![co] = "deleted"]
    BY <1>1 DEF SwapInReturns, SwapInv, SwapTypeOK, NoCallee, Cids, Contexts
  <2>2. SwapInv' /\ TypeOK'
    BY <1>1, <2>1, SwapInReturnsKeeps DEF SwapInv, TypeOK, scriptVars
  <2>3. OneWakeSource' /\ NoDeferredLost'
    BY <2>1 DEF SwapInv, SwapTypeOK, OneWakeSource, NoDeferredLost, scriptVars
  <2> QED BY <2>1, <2>2, <2>3 DEF NoStaleResume
<1>2. CASE Create
  <2> DEFINE co == last_cid + 1
  <2>1. /\ SwapInv' /\ co \in Cids /\ ctx[co] = "none"
        /\ ctx' = [ctx EXCEPT ![co] = "active"]
        /\ UNCHANGED <<stage, defer_tasks, user_yield_coros, timers, fault>>
    BY <1>2, CreateKeeps DEF Create
  <2>2. TypeOK'
    BY <2>1 DEF SwapInv, TypeOK
  <2>3. OneWakeSource' /\ NoDeferredLost'
    BY <2>1 DEF SwapInv, SwapTypeOK, OneWakeSource, NoDeferredLost
  <2> QED BY <2>1, <2>2, <2>3 DEF NoStaleResume
<1>3. CASE UserYield
  <2>1. CASE current = Main /\ Die("no_current") /\ UNCHANGED user_yield_coros
    BY <1>3, <2>1, DyingKeeps DEF UserYield, scriptVars
  <2>2. CASE /\ current # Main
             /\ user_yield_coros' = user_yield_coros \union {current}
             /\ Yield(current)
    <3>1. SwapInv' /\ ctx' = [ctx EXCEPT ![current] = "parked"] /\ UNCHANGED fault
      BY <1>3, <2>2, YieldKeeps DEF UserYield, Yield
    <3>2. current \in Cids /\ ctx[current] = "active"
      BY <1>3, <2>2, CurrentActive DEF UserYield
    <3>3. UNCHANGED <<stage, defer_tasks, timers>>
      BY <1>3 DEF UserYield
    <3>4. TypeOK'
      BY <2>2, <3>1, <3>2, <3>3 DEF SwapInv, TypeOK
    <3>5. OneWakeSource' /\ NoDeferredLost'
      BY <2>2, <3>1, <3>2, <3>3
         DEF SwapInv, SwapTypeOK, TypeOK, OneWakeSource, NoDeferredLost
    <3> QED BY <3>1, <3>4, <3>5 DEF NoStaleResume
  <2> QED BY <1>3, <2>1, <2>2 DEF UserYield
<1>4. ASSUME NEW cid \in Cids, UserResume(cid) PROVE IInv'
  <2>1. ctx[cid] = "parked" /\ timers[cid] = 0
    BY <1>4 DEF UserResume, OneWakeSource, TypeOK
  <2>2. SwapInv' /\ ctx' = [ctx EXCEPT ![cid] = "active"] /\ UNCHANGED fault
    BY <1>4, <2>1, ResumeKeeps DEF UserResume
  <2>3. user_yield_coros' = user_yield_coros \ {cid}
        /\ UNCHANGED <<stage, defer_tasks, timers>>
    BY <1>4 DEF UserResume
  <2>4. TypeOK'
    BY <2>2, <2>3 DEF SwapInv, TypeOK
  <2>5. OneWakeSource' /\ NoDeferredLost'
    BY <2>1, <2>2, <2>3 DEF SwapInv, SwapTypeOK, OneWakeSource, NoDeferredLost
  <2> QED BY <2>2, <2>4, <2>5 DEF NoStaleResume
<1>5. CASE Sleep
  <2>1. CASE current = Main /\ Die("no_current") /\ UNCHANGED timers
    BY <1>5, <2>1, DyingKeeps DEF Sleep, scriptVars
  <2>2. CASE /\ current # Main
             /\ timers' = [timers EXCEPT ![current] = @ + 1]
             /\ Yield(current)
    <3>1. SwapInv' /\ ctx' = [ctx EXCEPT ![current] = "parked"] /\ UNCHANGED fault
      BY <1>5, <2>2, YieldKeeps DEF Sleep, Yield
    <3>2. current \in Cids /\ ctx[current] = "active"
      BY <1>5, <2>2, CurrentActive DEF Sleep
    <3>3. UNCHANGED <<stage, defer_tasks, user_yield_coros>>
      BY <1>5 DEF Sleep
    <3>4. TypeOK'
      BY <2>2, <3>1, <3>2, <3>3 DEF SwapInv, TypeOK
    <3>5. OneWakeSource' /\ NoDeferredLost'
      BY <2>2, <3>1, <3>2, <3>3
         DEF SwapInv, SwapTypeOK, TypeOK, OneWakeSource, NoDeferredLost
    <3> QED BY <3>1, <3>4, <3>5 DEF NoStaleResume
  <2> QED BY <1>5, <2>1, <2>2 DEF Sleep
<1>6. ASSUME NEW co \in Cids, SleepCall(co) PROVE IInv'
  <2>1. ctx[co] = "parked" /\ timers[co] = 1 /\ co \notin user_yield_coros
    BY <1>6 DEF SleepCall, OneWakeSource, TypeOK
  <2>2. SwapInv' /\ ctx' = [ctx EXCEPT ![co] = "active"] /\ UNCHANGED fault
    BY <1>6, <2>1, ResumeKeeps DEF SleepCall
  <2>3. timers' = [timers EXCEPT ![co] = 0]
        /\ UNCHANGED <<stage, defer_tasks, user_yield_coros>>
    BY <1>6, <2>1 DEF SleepCall
  <2>4. TypeOK'
    BY <2>2, <2>3 DEF SwapInv, TypeOK
  <2>5. OneWakeSource' /\ NoDeferredLost'
    BY <2>1, <2>2, <2>3 DEF SwapInv, SwapTypeOK, TypeOK, OneWakeSource, NoDeferredLost
  <2> QED BY <2>2, <2>4, <2>5 DEF NoStaleResume
<1>7. CASE Defer
  <2>1. /\ UNCHANGED <<swapVars, last_cid, stage, user_yield_coros, timers, fault>>
        /\ UserCode /\ defer_tasks' = [defer_tasks EXCEPT ![current] = @ + 1]
        /\ defer_tasks[current] < MaxDefer
    BY <1>7 DEF Defer
  <2>2. SwapInv'
    BY <2>1, SwapInvStable
  <2>3. TypeOK'
    <3>1. defer_tasks[current] \in 0..MaxDefer
      BY DEF SwapInv, SwapTypeOK, TypeOK
    <3>2. defer_tasks[current] + 1 \in 0..MaxDefer
      BY <2>1, <3>1, CoroutineAssumption
    <3>3. defer_tasks' \in [Contexts -> 0..MaxDefer]
      BY <2>1, <3>2 DEF TypeOK
    <3> QED BY <2>1, <2>2, <3>3 DEF SwapInv, TypeOK
  <2>4. NoDeferredLost'
    <3>1. current = Main \/ ctx[current] = "active"
      BY <2>1, CurrentActive
    <3> QED BY <2>1, <3>1 DEF NoDeferredLost, TypeOK, swapVars, Cids, Main
  <2> QED BY <2>1, <2>2, <2>3, <2>4 DEF OneWakeSource, NoStaleResume, swapVars
<1>8. CASE FunctionReturns \/ Destructs
  <2>1. /\ UNCHANGED <<swapVars, last_cid, defer_tasks, user_yield_coros, timers, fault>>
        /\ \E st \in Stages : stage' = [stage EXCEPT ![running] = st]
        /\ UserCode /\ running \in Cids
    BY <1>8 DEF FunctionReturns, Destructs, InStage, Stages
  <2>2. SwapInv'
    BY <2>1, SwapInvStable
  <2>3. TypeOK'
    BY <2>1, <2>2 DEF SwapInv, TypeOK
  <2>4. ctx[running] = "active"
    BY <2>1, CurrentActive DEF SwapInv, StackCoherence, Cids, Main
  <2>5. NoDeferredLost'
    BY <2>1, <2>4 DEF NoDeferredLost, TypeOK, swapVars
  <2> QED BY <2>1, <2>2, <2>3, <2>5 DEF OneWakeSource, NoStaleResume, swapVars
<1>9. CASE RunDeferred
  <2>1. /\ UNCHANGED <<swapVars, last_cid, stage, user_yield_coros, timers, fault>>
        /\ defer_tasks' = [defer_tasks EXCEPT ![current] = @ - 1]
        /\ UserCode /\ defer_tasks[current] > 0
    BY <1>9 DEF RunDeferred, InStage
  <2>2. SwapInv'
    BY <2>1, SwapInvStable
  <2>3. TypeOK'
    <3>1. defer_tasks[current] \in 0..MaxDefer
      BY DEF SwapInv, SwapTypeOK, TypeOK
    <3>2. defer_tasks[current] - 1 \in 0..MaxDefer
      BY <2>1, <3>1, CoroutineAssumption
    <3>3. defer_tasks' \in [Contexts -> 0..MaxDefer]
      BY <2>1, <3>2 DEF TypeOK
    <3> QED BY <2>1, <2>2, <3>3 DEF SwapInv, TypeOK
  <2>4. NoDeferredLost'
    <3>1. current = Main \/ ctx[current] = "active"
      BY <2>1, CurrentActive
    <3> QED BY <2>1, <3>1 DEF NoDeferredLost, TypeOK, swapVars, Cids, Main
  <2> QED BY <2>1, <2>2, <2>3, <2>4 DEF OneWakeSource, NoStaleResume, swapVars
<1>10. CASE ContextEnds
  <2>1. /\ SwapInv' /\ running \in Cids /\ current = running /\ ctx[running] = "active"
        /\ ctx' = [ctx EXCEPT ![running] = "end"]
    BY <1>10, ContextEndsKeeps DEF TypeOK
  <2>2. /\ defer_tasks[running] = 0 \/ stage[running] = "destructor"
        /\ UNCHANGED <<scriptVars, fault>>
    BY <1>10, <2>1 DEF ContextEnds, InStage
  <2>3. TypeOK'
    BY <2>1, <2>2 DEF SwapInv, TypeOK, scriptVars
  <2>4. OneWakeSource' /\ NoDeferredLost'
    BY <2>1, <2>2 DEF SwapInv, SwapTypeOK, OneWakeSource, NoDeferredLost, scriptVars
  <2> QED BY <2>1, <2>2, <2>3, <2>4 DEF NoStaleResume
<1>11. CASE UNCHANGED vars
  <2>1. SwapInv'
    BY <1>11, SwapInvStable DEF vars, scriptVars
  <2> QED BY <1>11, <2>1
       DEF SwapInv, TypeOK, OneWakeSource, NoDeferredLost, NoStaleResume,
           vars, swapVars, scriptVars
<1> QED
  BY <1>1, <1>2, <1>3, <1>4, <1>5, <1>6, <1>7, <1>8, <1>9, <1>10, <1>11 DEF Next, ScriptStep

THEOREM InvariantHolds == Spec => []IInv
BY InitInv, NextInv, PTL DEF Spec

\* Every variable keeps its type, for any number of coroutines.
THEOREM TypeCorrect == Spec => []TypeOK
BY InvariantHolds, PTL DEF IInv

\* Script code never executes on one coroutine's C stack with another's
\* current or PHP stack (Coroutine::yield, resume and run).
THEOREM StacksCoherent == Spec => []StackCoherence
BY InvariantHolds, PTL DEF IInv, SwapInv

\* Cco::yield, resume and sleep keep exactly one way to wake each coroutine
\* that waits, and none for one that does not.
THEOREM WakeSourcesExact == Spec => []OneWakeSource
BY InvariantHolds, PTL DEF IInv

\* Cco::resume and sleep_call never resume a coroutine that is not parked.
THEOREM NoneResumedStale == Spec => []NoStaleResume
BY InvariantHolds, PTL DEF IInv

\* on_close frees the page of the coroutine that ended, and nothing in use.
THEOREM ClosesExactly == Spec => []ClosedExactly
BY InvariantHolds, PTL DEF IInv, SwapInv

\* create_func runs every callback its function and the callbacks deferred
\* before it ends: what can be lost was deferred by the destructor of the
\* return value.
THEOREM DeferredRun == Spec => []NoDeferredLost
BY InvariantHolds, PTL DEF IInv

-----------------------------------------------------------------------------
(* The origins as a call stack. *)

\* f is the chain of each context when o are the origins.
IsChain(f, o) ==
  f = [x \in Contexts |-> IF x = Main THEN <<Main>> ELSE Append(f[o[x]], x)]

\* Nobody is its own origin, however far one follows: each origin has a lower
\* rank, with n the highest.
Ranked(o, e, n) ==
  /\ e \in [Contexts -> Nat]
  /\ n \in Nat
  /\ \A x \in Contexts : e[x] <= n
  /\ \A x \in Cids : e[o[x]] < e[x]

OriginsEnd == \E e \in [Contexts -> Nat], n \in Nat : Ranked(origin, e, n)

LEMMA ChainIsChosen == ChainTo = CHOOSE f : IsChain(f, origin)
BY DEF ChainTo, IsChain

LEMMA ChainIsChosenNext == ChainTo' = CHOOSE f : IsChain(f, origin')
BY DEF ChainTo, IsChain

LEMMA MainIsNoCid == Contexts = Cids \union {Main} /\ Main \notin Cids /\ Main \in Contexts
BY CoroutineAssumption DEF Contexts, Cids, Main

\* Where origins end, there are chains: those of the contexts up to rank i
\* are made from those of the contexts below.
LEMMA ChainExists ==
  ASSUME NEW o \in [Cids -> Contexts], NEW e, NEW n, Ranked(o, e, n)
  PROVE  \E f : IsChain(f, o)
<1> DEFINE Upto(i) == {x \in Contexts : e[x] <= i}
           Chains(g, i) == g = [x \in Upto(i) |->
                                  IF x = Main THEN <<Main>> ELSE Append(g[o[x]], x)]
           Missing == {i \in Nat : \A g : ~ Chains(g, i)}
<1>1. Missing = {}
  <2> SUFFICES ASSUME Missing # {} PROVE FALSE
    OBVIOUS
  <2>1. PICK i \in Missing : \A j \in Missing : i <= j
    BY MinIsLeast
  <2>2. CASE i = 0
    <3> DEFINE g == [x \in Upto(0) |-> <<Main>>]
    <3>1. ASSUME NEW x \in Upto(0) PROVE x = Main
      <4> SUFFICES ASSUME x \in Cids PROVE FALSE
        BY MainIsNoCid
      <4>1. e[x] \in Nat /\ e[o[x]] \in Nat /\ e[o[x]] < e[x] /\ e[x] <= 0
        BY MainIsNoCid DEF Ranked
      <4> QED BY <4>1
    <3>2. Chains(g, 0)
      BY <3>1
    <3> QED BY <2>1, <2>2, <3>2
  <2>3. CASE i # 0
    <3>1. i - 1 \in Nat /\ i - 1 \notin Missing
      BY <2>1, <2>3
    <3>2. PICK h : Chains(h, i - 1)
      BY <3>1
    <3> DEFINE g == [x \in Upto(i) |-> IF x = Main THEN <<Main>> ELSE Append(h[o[x]], x)]
    <3>3. \A x \in Upto(i) : x # Main => o[x] \in Upto(i - 1) /\ o[x] \in Upto(i)
      BY <2>1, MainIsNoCid DEF Ranked
    <3>4. \A x \in Upto(i - 1) : x \in Upto(i) /\ g[x] = h[x]
      <4>1. \A x \in Upto(i - 1) : x \in Upto(i)
        BY <2>1 DEF Ranked
      <4>2. \A x \in Upto(i - 1) :
              h[x] = IF x = Main THEN <<Main>> ELSE Append(h[o[x]], x)
        BY <3>2
      <4> QED BY <4>1, <4>2
    <3>5. \A x \in Upto(i) : x # Main => g[o[x]] = h[o[x]]
      BY <3>3, <3>4
    <3>6. Chains(g, i)
      BY <3>5
    <3> QED BY <2>1, <3>6
  <2> QED BY <2>2, <2>3
<1>2. PICK g : Chains(g, n)
  <2>1. n \in Nat /\ n \notin Missing
    BY <1>1 DEF Ranked
  <2> QED BY <2>1
<1>3. Upto(n) = Contexts
  BY DEF Ranked
<1> QED BY <1>2, <1>3 DEF IsChain

\* Chains agree on a set of contexts that holds their origins, if these do.
LEMMA ChainsAgree ==
  ASSUME NEW o \in [Cids -> Contexts], NEW e, NEW n, Ranked(o, e, n),
         NEW f, IsChain(f, o), NEW q, NEW g, IsChain(g, q),
         NEW A \in SUBSET Contexts,
         \A x \in A : x # Main => q[x] = o[x] /\ o[x] \in A
  PROVE  \A x \in A : f[x] = g[x]
<1> DEFINE Bad == {x \in A : f[x] # g[x]}
           Heights == {e[x] : x \in Bad}
<1> SUFFICES ASSUME Bad # {} PROVE FALSE
  OBVIOUS
<1>1. Heights \in SUBSET Nat /\ Heights # {}
  BY DEF Ranked
<1>2. PICK x \in Bad : \A y \in Bad : e[x] <= e[y]
  <2>1. PICK h \in Heights : \A k \in Heights : h <= k
    BY <1>1, MinIsLeast
  <2> QED BY <2>1
<1>3. x # Main
  BY <1>2, MainIsNoCid DEF IsChain
<1>4. /\ o[x] \in A /\ q[x] = o[x] /\ x \in Cids /\ e[o[x]] < e[x]
      /\ e[x] \in Nat /\ e[o[x]] \in Nat
  BY <1>2, <1>3, MainIsNoCid DEF Ranked
<1>5. f[o[x]] = g[o[x]]
  BY <1>2, <1>4
<1>6. f[x] = Append(f[o[x]], x) /\ g[x] = Append(g[q[x]], x)
  BY <1>2, <1>3 DEF IsChain
<1> QED BY <1>2, <1>4, <1>5, <1>6

\* What every reachable state is mapped to: an entered context's chain holds
\* entered contexts only, main first.
LEMMA ChainsOfEntered ==
  ASSUME SwapInv, OriginsEnd
  PROVE  /\ IsChain(ChainTo, origin)
         /\ ChainTo[Main] = <<Main>>
         /\ \A x \in Cids : ChainTo[x] = Append(ChainTo[origin[x]], x)
         /\ \A x \in Contexts : Entered(x) =>
              /\ ChainTo[x] \in Seq(Contexts)
              /\ Len(ChainTo[x]) > 0
              /\ \A i \in 1..Len(ChainTo[x]) : Entered(ChainTo[x][i])
<1>1. PICK e \in [Contexts -> Nat], n \in Nat : Ranked(origin, e, n)
  BY DEF OriginsEnd
<1>2. origin \in [Cids -> Contexts]
  BY DEF SwapInv, SwapTypeOK
<1>3. IsChain(ChainTo, origin)
  BY <1>1, <1>2, ChainExists, ChainIsChosen
<1>4. /\ ChainTo[Main] = <<Main>>
      /\ \A x \in Cids : ChainTo[x] = Append(ChainTo[origin[x]], x)
  BY <1>3, MainIsNoCid DEF IsChain
<1> DEFINE Fine(s) == /\ s \in Seq(Contexts)
                      /\ Len(s) > 0
                      /\ \A i \in 1..Len(s) : Entered(s[i])
           Bad == {x \in Contexts : Entered(x) /\ ~ Fine(ChainTo[x])}
           Heights == {e[x] : x \in Bad}
<1>5. Bad = {}
  <2> SUFFICES ASSUME Bad # {} PROVE FALSE
    OBVIOUS
  <2>1. Heights \in SUBSET Nat /\ Heights # {}
    OBVIOUS
  <2>2. PICK h \in Heights : \A k \in Heights : h <= k
    BY <2>1, MinIsLeast
  <2>3. PICK x \in Bad : \A y \in Bad : e[x] <= e[y]
    BY <2>2
  <2>4. x # Main
    <3>1. Fine(<<Main>>)
      BY MainIsNoCid DEF Entered
    <3> QED BY <1>4, <2>3, <3>1
  <2>5. /\ x \in Cids /\ origin[x] \in Contexts /\ e[origin[x]] < e[x]
        /\ Entered(x) /\ Entered(origin[x])
    BY <1>1, <1>2, <2>3, <2>4, MainIsNoCid DEF Ranked, Entered, SwapInv, Links
  <2>6. Fine(ChainTo[origin[x]])
    BY <2>3, <2>5
  <2>7. ASSUME NEW s, Fine(s), NEW y \in Contexts, Entered(y) PROVE Fine(Append(s, y))
    <3>1. /\ Append(s, y) \in Seq(Contexts) /\ Len(Append(s, y)) = Len(s) + 1
          /\ Len(s) \in Nat
          /\ \A i \in 1..Len(s) : Append(s, y)[i] = s[i]
          /\ Append(s, y)[Len(s) + 1] = y
      BY <2>7
    <3> QED BY <2>7, <3>1
  <2> HIDE DEF Fine
  <2>8. Fine(ChainTo[x])
    <3>1. Fine(Append(ChainTo[origin[x]], x))
      BY <2>5, <2>6, <2>7, MainIsNoCid
    <3>2. ChainTo[x] = Append(ChainTo[origin[x]], x)
      BY <1>4, <2>5
    <3> QED BY <3>1, <3>2
  <2> QED BY <2>3, <2>8
<1> QED BY <1>3, <1>4, <1>5

LEMMA OriginsEndInit == Init => OriginsEnd
<1> SUFFICES ASSUME Init PROVE OriginsEnd
  OBVIOUS
<1> DEFINE e == [x \in Contexts |-> IF x = Main THEN 0 ELSE 1]
<1>1. Ranked(origin, e, 1)
  BY MainIsNoCid DEF Init, Ranked
<1> QED BY <1>1 DEF OriginsEnd, Ranked

\* A stack is linked below the current one: those that were not entered are
\* ranked anew, above it.
LEMMA OriginsEndLinked ==
  ASSUME SwapInv, OriginsEnd, NEW c \in Cids, ~ Entered(c), NEW r \in Contexts, Entered(r),
         origin' = [origin EXCEPT ![c] = r]
  PROVE  OriginsEnd'
<1>1. PICK e \in [Contexts -> Nat], n \in Nat : Ranked(origin, e, n)
  BY DEF OriginsEnd
<1> DEFINE d == [x \in Contexts |-> IF Entered(x) THEN e[x] ELSE e[x] + n + 1]
<1>2. d \in [Contexts -> Nat] /\ n + n + 1 \in Nat
  BY <1>1
<1>3. \A x \in Contexts : d[x] <= n + n + 1
  BY <1>1 DEF Ranked
<1>4. ASSUME NEW x \in Cids PROVE d[origin'[x]] < d[x]
  <2>1. origin[x] \in Contexts /\ x \in Contexts /\ origin' [x] \in Contexts
        /\ e[x] \in Nat /\ e[r] \in Nat /\ e[r] <= n /\ e[origin[x]] < e[x] /\ e[origin[x]] \in Nat
    BY <1>1, MainIsNoCid DEF Ranked, SwapInv, SwapTypeOK
  <2>2. CASE x = c
    <3>1. origin'[x] = r /\ d[r] = e[r] /\ d[x] = e[x] + n + 1
      BY <2>1, <2>2 DEF SwapInv, SwapTypeOK
    <3> QED BY <2>1, <3>1
  <2>3. CASE x # c /\ Entered(x)
    <3>1. origin'[x] = origin[x] /\ Entered(origin[x])
      BY <2>3, MainIsNoCid DEF SwapInv, Links, Entered
    <3> QED BY <2>1, <2>3, <3>1
  <2>4. CASE x # c /\ ~ Entered(x)
    <3>1. origin'[x] = origin[x]
      BY <2>4 DEF SwapInv, SwapTypeOK
    <3> QED BY <2>1, <2>4, <3>1
  <2> QED BY <2>2, <2>3, <2>4
<1> HIDE DEF d
<1>5. Ranked(origin', d, n + n + 1)
  BY <1>2, <1>3, <1>4 DEF Ranked
<1> QED BY <1>2, <1>5 DEF OriginsEnd

-----------------------------------------------------------------------------
(* The steps of the call stack. *)

\* The two of the abstract variables that are not the stack.
Parked == {co \in Cids : ctx[co] = "parked"}
Ended == {co \in Cids : ctx[co] = "deleted"}

\* A step that moves neither current nor an origin.
LEMMA StackStutters ==
  ASSUME UNCHANGED <<current, origin>>, Parked' = Parked, Ended' = Ended
  PROVE  UNCHANGED Abstract!callStackVars
<1>1. OriginChain' = OriginChain
  <2>1. ChainTo' = ChainTo
    BY ChainIsChosen, ChainIsChosenNext
  <2> QED BY <2>1 DEF OriginChain
<1> QED BY <1>1 DEF Abstract!callStackVars, Parked, Ended

\* The head of run and resume.
LEMMA StackPushes ==
  ASSUME SwapInv, UserCode, OriginsEnd, SwapInv', OriginsEnd',
         NEW c \in Cids, ctx[c] \in {"none", "parked"},
         ctx' = [ctx EXCEPT ![c] = "active"], current' = c,
         origin' = [origin EXCEPT ![c] = current]
  PROVE  Abstract!Enter(c)
<1>1. /\ current \in Contexts /\ Entered(current) /\ ~ Entered(c)
      /\ origin \in [Cids -> Contexts] /\ origin' \in [Cids -> Contexts]
      /\ ctx \in [Cids -> CtxStates]
  BY MainIsNoCid DEF SwapInv, SwapTypeOK, UserCode, StackCoherence, Frames, Entered
<1>2. PICK e \in [Contexts -> Nat], n \in Nat : Ranked(origin, e, n)
  BY DEF OriginsEnd
<1>3. /\ IsChain(ChainTo, origin)
      /\ ChainTo[current] \in Seq(Contexts)
      /\ \A i \in 1..Len(ChainTo[current]) : Entered(ChainTo[current][i])
  BY <1>1, ChainsOfEntered
<1>4. IsChain(ChainTo', origin')
  <2>1. PICK d \in [Contexts -> Nat], m \in Nat : Ranked(origin', d, m)
    BY DEF OriginsEnd
  <2> QED BY <1>1, <2>1, ChainExists, ChainIsChosenNext
<1>5. ChainTo'[current] = ChainTo[current]
  <2> DEFINE A == {x \in Contexts : Entered(x)}
  <2>1. \A x \in A : x # Main => origin'[x] = origin[x] /\ origin[x] \in A
    BY <1>1, MainIsNoCid DEF SwapInv, Links, Entered
  <2>2. PICK g : g = ChainTo'
    OBVIOUS
  <2>3. PICK q : q = origin'
    OBVIOUS
  <2>4. \A x \in A : ChainTo[x] = g[x]
    <3>1. IsChain(g, q) /\ IsChain(ChainTo, origin) /\ Ranked(origin, e, n)
      BY <1>2, <1>3, <1>4, <2>2, <2>3
    <3>2. A \in SUBSET Contexts /\ \A x \in A : x # Main => q[x] = origin[x] /\ origin[x] \in A
      BY <2>1, <2>3
    <3> HIDE DEF A
    <3> QED BY <1>1, <3>1, <3>2, ChainsAgree
  <2> QED BY <1>1, <2>2, <2>4
<1>6. ChainTo'[c] = Append(ChainTo[current], c)
  <2>1. ChainTo'[c] = Append(ChainTo'[origin'[c]], c)
    BY <1>4, MainIsNoCid DEF IsChain
  <2>2. origin'[c] = current
    BY <1>1
  <2> QED BY <1>5, <2>1, <2>2
<1>7. ~ Abstract!Contains(ChainTo[current], c)
  BY <1>1, <1>3 DEF Abstract!Contains
<1>8. /\ c \notin Ended
      /\ Parked' = Parked \ {c}
      /\ Ended' = Ended
  BY <1>1 DEF Parked, Ended
<1> QED BY <1>6, <1>7, <1>8 DEF Abstract!Enter, OriginChain, Parked, Ended

\* What is on top goes, and its origin is on top again.
LEMMA StackPops ==
  ASSUME SwapInv, OriginsEnd, NEW y \in Cids, current = y, ctx[y] \in {"active", "end"},
         current' = origin[y], UNCHANGED origin
  PROVE  /\ Len(OriginChain) > 1
         /\ OriginChain' = Front(OriginChain)
         /\ Last(OriginChain) = y
<1>1. Entered(origin[y]) /\ origin[y] \in Contexts
  BY DEF SwapInv, SwapTypeOK, Links
<1>2. /\ ChainTo[y] = Append(ChainTo[origin[y]], y)
      /\ ChainTo[origin[y]] \in Seq(Contexts)
      /\ Len(ChainTo[origin[y]]) > 0
  BY <1>1, ChainsOfEntered
<1>3. ChainTo' = ChainTo
  BY ChainIsChosen, ChainIsChosenNext
<1>4. OriginChain = Append(ChainTo[origin[y]], y) /\ OriginChain' = ChainTo[origin[y]]
  BY <1>2, <1>3 DEF OriginChain
<1>5. ASSUME NEW s \in Seq(Contexts)
      PROVE  /\ Len(Append(s, y)) = Len(s) + 1
             /\ Front(Append(s, y)) = s
             /\ Last(Append(s, y)) = y
  BY MainIsNoCid DEF Front, Last
<1> QED BY <1>2, <1>4, <1>5

\* Each step of the scheduler, and the rank of the origins after it.
StepOfStack == OriginsEnd' /\ [Abstract!CallStackNext]_(Abstract!callStackVars)

LEMMA StutterSteps ==
  ASSUME IInv, OriginsEnd, UNCHANGED <<current, origin>>, Parked' = Parked, Ended' = Ended
  PROVE  StepOfStack
BY StackStutters DEF StepOfStack, OriginsEnd

LEMMA PushSteps ==
  ASSUME IInv, IInv', OriginsEnd, UserCode, NEW c \in Cids, ctx[c] \in {"none", "parked"},
         ctx' = [ctx EXCEPT ![c] = "active"], SwapIn(c)
  PROVE  StepOfStack
<1>1. /\ current \in Contexts /\ Entered(current) /\ ~ Entered(c)
  BY MainIsNoCid DEF IInv, SwapInv, SwapTypeOK, UserCode, StackCoherence, Frames, Entered
<1>2. origin' = [origin EXCEPT ![c] = current] /\ current' = c
  BY DEF SwapIn
<1>3. OriginsEnd'
  BY <1>1, <1>2, OriginsEndLinked DEF IInv
<1>4. Abstract!Enter(c)
  BY <1>2, <1>3, StackPushes DEF IInv
<1> QED BY <1>3, <1>4 DEF StepOfStack, Abstract!CallStackNext

LEMMA YieldSteps ==
  ASSUME IInv, OriginsEnd, UserCode, current # Main, Yield(current)
  PROVE  StepOfStack
<1>1. current \in Cids /\ ctx[current] = "active"
  BY CurrentActive DEF IInv
<1>2. UNCHANGED origin /\ current' = origin[current] /\ ctx' = [ctx EXCEPT ![current] = "parked"]
  BY DEF Yield
<1>3. /\ Len(OriginChain) > 1
      /\ OriginChain' = Front(OriginChain)
      /\ Last(OriginChain) = current
  BY <1>1, <1>2, StackPops DEF IInv
<1>4. Parked' = Parked \union {current} /\ Ended' = Ended
  BY <1>1, <1>2 DEF Parked, Ended, IInv, SwapInv, SwapTypeOK
<1>5. Abstract!Leave
  BY <1>3, <1>4 DEF Abstract!Leave, Parked, Ended, Front, Last, Abstract!Front, Abstract!Last
<1>6. OriginsEnd'
  BY <1>2 DEF OriginsEnd
<1> QED BY <1>5, <1>6 DEF StepOfStack, Abstract!CallStackNext

LEMMA CloseSteps ==
  ASSUME IInv, OriginsEnd, SwapInReturns
  PROVE  StepOfStack
<1> DEFINE co == callee[running]
<1>1. co \in Cids /\ UNCHANGED origin
  BY DEF SwapInReturns, IInv, SwapInv, SwapTypeOK, NoCallee, Cids, Contexts
<1>2. CASE ctx[co] # "end"
  <2>1. UNCHANGED <<current, ctx>>
    BY <1>2 DEF SwapInReturns
  <2> QED BY <1>1, <2>1, StutterSteps DEF Parked, Ended
<1>3. CASE ctx[co] = "end"
  <2>1. current = co
    BY <1>1, <1>3 DEF SwapInReturns, IInv, SwapInv, StackCoherence
  <2>2. current' = origin[co] /\ ctx' = [ctx EXCEPT ![co] = "deleted"]
    BY <1>3 DEF SwapInReturns
  <2>3. /\ Len(OriginChain) > 1
        /\ OriginChain' = Front(OriginChain)
        /\ Last(OriginChain) = co
    BY <1>1, <1>3, <2>1, <2>2, StackPops DEF IInv
  <2>4. Parked' = Parked /\ Ended' = Ended \union {co}
    BY <1>1, <1>3, <2>2 DEF Parked, Ended, IInv, SwapInv, SwapTypeOK
  <2>5. Abstract!Return
    BY <2>3, <2>4 DEF Abstract!Return, Parked, Ended, Front, Last, Abstract!Front, Abstract!Last
  <2>6. OriginsEnd'
    BY <1>1 DEF OriginsEnd
  <2> QED BY <2>5, <2>6 DEF StepOfStack, Abstract!CallStackNext
<1> QED BY <1>2, <1>3

LEMMA EachStepOfStack == IInv /\ IInv' /\ OriginsEnd /\ [Next]_vars => StepOfStack
<1> SUFFICES ASSUME IInv, IInv', OriginsEnd, [Next]_vars PROVE StepOfStack
  OBVIOUS
<1>1. CASE SwapInReturns
  BY <1>1, CloseSteps
<1>2. CASE Create
  <2> DEFINE n == last_cid + 1
  <2>1. n \in Cids /\ ctx[n] = "none" /\ ctx' = [ctx EXCEPT ![n] = "active"]
        /\ UserCode /\ SwapIn(n)
    BY <1>2, CreateKeeps DEF IInv, Create
  <2> HIDE DEF n
  <2> QED BY <2>1, PushSteps
<1>3. ASSUME UserCode, NEW c \in Cids, Resume(c), IInv, ctx[c] = "parked"
      PROVE  StepOfStack
  <2>1. SwapIn(c) /\ ctx' = [ctx EXCEPT ![c] = "active"]
    BY <1>3 DEF Resume, SwapIn
  <2> QED BY <1>3, <2>1, PushSteps
<1>4. CASE UserYield \/ Sleep
  <2>1. UserCode /\ (Die("no_current") \/ (current # Main /\ Yield(current)))
    BY <1>4 DEF UserYield, Sleep
  <2>2. CASE Die("no_current")
    BY <2>2, StutterSteps DEF Die, swapVars, Parked, Ended
  <2> QED BY <2>1, <2>2, YieldSteps
<1>5. ASSUME NEW c \in Cids, UserResume(c) \/ SleepCall(c) PROVE StepOfStack
  <2>1. UserCode /\ Resume(c) /\ ctx[c] = "parked"
    BY <1>5 DEF UserResume, SleepCall, IInv, OneWakeSource, TypeOK
  <2> QED BY <1>3, <2>1
<1>6. CASE Defer \/ FunctionReturns \/ RunDeferred \/ Destructs \/ UNCHANGED vars
  <2>1. UNCHANGED swapVars
    BY <1>6 DEF Defer, FunctionReturns, RunDeferred, Destructs, vars
  <2> QED BY <2>1, StutterSteps DEF swapVars, Parked, Ended
<1>7. CASE ContextEnds
  <2>1. /\ running \in Cids /\ ctx[running] = "active"
        /\ ctx' = [ctx EXCEPT ![running] = "end"]
    BY <1>7, ContextEndsKeeps DEF IInv, TypeOK
  <2>2. UNCHANGED <<current, origin>>
    BY <1>7 DEF ContextEnds
  <2>3. Parked' = Parked /\ Ended' = Ended
    BY <2>1 DEF Parked, Ended, IInv, SwapInv, SwapTypeOK
  <2> QED BY <2>2, <2>3, StutterSteps
<1> QED BY <1>1, <1>2, <1>4, <1>5, <1>6, <1>7 DEF Next, ScriptStep

LEMMA StackInit == Init => Abstract!CallStackInit
<1> SUFFICES ASSUME Init PROVE Abstract!CallStackInit
  OBVIOUS
<1>1. SwapInv /\ OriginsEnd
  BY InitInv, OriginsEndInit DEF IInv
<1>2. OriginChain = <<Main>>
  BY <1>1, ChainsOfEntered DEF Init, OriginChain
<1> QED BY <1>2 DEF Init, Abstract!CallStackInit

\* The chain of origins behaves as the call stack that asymmetric coroutines
\* promise: what is created or resumed goes on top, whether or not it was
\* entered before, only the top yields or ends, and what ended is not entered
\* again.
THEOREM SchedulerImplementsCallStack == Spec => ImplementsCallStack
<1>1. Init => Abstract!CallStackInit /\ OriginsEnd
  BY StackInit, OriginsEndInit
<1>2. IInv /\ IInv' /\ OriginsEnd /\ [Next]_vars =>
        OriginsEnd' /\ [Abstract!CallStackNext]_(Abstract!callStackVars)
  BY EachStepOfStack DEF StepOfStack
<1> QED BY <1>1, <1>2, InvariantHolds, PTL DEF Spec, ImplementsCallStack, Abstract!CallStackSpec

=============================================================================
