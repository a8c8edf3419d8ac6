--------------------------- MODULE CoChannelProofs ---------------------------
(***************************************************************************)
(* Proofs about channels, for any number of coroutines, values and waiters. *)
(*                                                                         *)
(* Without timeouts: a wake-up is synchronous, so what matters is the one  *)
(* stack that has been woken and has not gone on yet: what it was woken    *)
(* for is there, and nobody else is to take it (Matched).                  *)
(*                                                                         *)
(* With timeouts (TimedInv, at the end): who is resumed may be anywhere,   *)
(* but stacks, values and the queues' hold on who waits are still right.   *)
(***************************************************************************)
EXTENDS CoChannel, CoroutineProofs, SequenceTheorems

\* A coroutine parked outside push and pop has one timer or one entry in
\* user_yield_coros; any other coroutine has neither.
Wakes ==
  \A co \in Cids :
    timers[co] + (IF co \in user_yield_coros THEN 1 ELSE 0)
      = IF ctx[co] = "parked" /\ op[co] = "none" THEN 1 ELSE 0

\* Inside push or pop a coroutine is parked, unless it was just woken.
CallsParked ==
  /\ op[Main] = "none"
  /\ \A co \in Cids : op[co] # "none" => ctx[co] = "parked" \/ co = running

\* Who was woken finds what it waits for, and nobody else waits for it.
Matched ==
  /\ Len(data_queue) <= 1
  /\ op[running] = "none" =>
       /\ consumer_queue # <<>> => data_queue = <<>>
       /\ producer_queue # <<>> => data_queue # <<>>
  /\ op[running] = "pop" => data_queue # <<>> /\ producer_queue = <<>>
  /\ op[running] = "push" => data_queue = <<>> /\ consumer_queue = <<>>

\* The number of values received, queued or about to be.
Past == Len(delivered) + Len(data_queue) + (IF op[running] = "push" THEN 1 ELSE 0)

\* Values are received in order, then come the queued one, the one of the
\* producer just woken, and those of the waiting producers; no other exists.
Sequenced ==
  /\ \A i \in DOMAIN delivered : delivered[i] = i
  /\ \A i \in DOMAIN data_queue : data_queue[i] = Len(delivered) + i
  /\ op[running] = "push" => item[running] = Past
  /\ \A i \in DOMAIN producer_queue : item[producer_queue[i]] = Past + i
  /\ Past + Len(producer_queue) <= pushed
  /\ ~ destroyed =>
       /\ dropped = {}
       /\ fault = "none" => Past + Len(producer_queue) = pushed
  /\ destroyed =>
       /\ \A x \in Contexts : op[x] = "none"
       /\ data_queue = <<>> /\ producer_queue = <<>>
       /\ dropped = (Len(delivered) + 1)..pushed

ChannelInv ==
  /\ ChannelTypeOK
  /\ SwapInv
  /\ NoStaleResume
  /\ Wakes
  /\ CallsParked
  /\ WaitersQueued
  /\ Matched
  /\ Sequenced

-----------------------------------------------------------------------------
(* Facts about the invariant's parts. *)

\* What a step that leaves the channel alone may do to those who wait in it.
WaitersStay == \A co \in Cids : op[co] # "none" => ctx'[co] = ctx[co]

\* Who waits in a channel is not what the scheduler may end or resume.
LEMMA ChannelUntouched ==
  ASSUME ChannelInv, SwapInv', TypeOK', NoStaleResume', Wakes', WaitersStay,
         op[running] = "none", UNCHANGED chanVars, fault' = "none" => fault = "none"
  PROVE  ChannelInv'
<1>1. /\ UNCHANGED <<data_queue, consumer_queue, producer_queue, op, item, pushed,
                     delivered, dropped, destroyed>>
  BY DEF chanVars
<1>2. \A co \in Cids : op[co] # "none" => ctx[co] = "parked" /\ ctx'[co] = "parked"
  BY DEF ChannelInv, CallsParked, WaitersStay
<1>3. running' \in Contexts /\ (running' \in Cids => ctx'[running'] = "active")
  BY DEF SwapInv, SwapTypeOK, Frames, Entered, Cids, Contexts, Main
<1>4. op[running'] = "none"
  BY <1>2, <1>3 DEF ChannelInv, CallsParked, Cids, Contexts, Main
<1>5. ChannelTypeOK'
  BY <1>1 DEF ChannelInv, ChannelTypeOK
<1>6. CallsParked'
  BY <1>1, <1>2 DEF ChannelInv, CallsParked
<1>7. WaitersQueued'
  BY <1>1, <1>2 DEF ChannelInv, WaitersQueued, QueuesHoldWaiters
<1>8. Matched'
  BY <1>1, <1>4 DEF ChannelInv, Matched
<1>9. Past' = Past
  BY <1>1, <1>4 DEF Past
<1>10. Sequenced'
  BY <1>1, <1>4, <1>9 DEF ChannelInv, Sequenced
<1> QED BY <1>5, <1>6, <1>7, <1>8, <1>10 DEF ChannelInv

\* A process that died of a call outside every coroutine did nothing else.
LEMMA DyingOutside ==
  ASSUME SwapInv, TypeOK, Wakes, Die("no_current"), UNCHANGED <<scriptVars, op>>
  PROVE  SwapInv' /\ TypeOK' /\ NoStaleResume' /\ Wakes' /\ WaitersStay /\ fault' # "none"
<1>1. SwapInv'
  BY SwapInvStable DEF Die, scriptVars, Faults
<1> QED BY <1>1 DEF SwapInv, TypeOK, Die, NoStaleResume, Wakes, WaitersStay, Faults,
                    scriptVars, swapVars

-----------------------------------------------------------------------------
(* The scheduler's own steps. *)

\* None of them runs inside push or pop, so none touches who waits there.
LEMMA SchedulerKeeps ==
  ASSUME ChannelInv, op[running] = "none", Next, UNCHANGED chanVars
  PROVE  ChannelInv'
<1>0. SwapInv /\ TypeOK /\ NoStaleResume /\ Wakes /\ CallsParked /\ UNCHANGED op
      /\ op \in [Contexts -> {"none", "push", "pop"}]
  BY DEF ChannelInv, ChannelTypeOK, chanVars
<1>a. ctx \in [Cids -> CtxStates] /\ timers \in [Cids -> Nat]
      /\ (running \in Cids => ctx[running] = "active")
  BY <1>0 DEF SwapInv, SwapTypeOK, TypeOK, Frames, Entered, Cids, Main
<1> SUFFICES SwapInv' /\ TypeOK' /\ NoStaleResume' /\ Wakes' /\ WaitersStay
             /\ (fault' = "none" => fault = "none")
  BY ChannelUntouched
<1>1. CASE SwapInReturns
  <2>1. UNCHANGED <<scriptVars, fault>>
        /\ \/ UNCHANGED ctx
           \/ \E co \in Cids : ctx[co] = "end" /\ ctx' = [ctx EXCEPT ![co] = "deleted"]
    BY <1>0, <1>1 DEF SwapInReturns, SwapInv, SwapTypeOK, NoCallee, Cids, Contexts
  <2>2. SwapInv' /\ TypeOK'
    BY <1>0, <1>1, <2>1, SwapInReturnsKeeps DEF SwapInv, TypeOK, scriptVars
  <2>3. Wakes' /\ WaitersStay
    BY <1>0, <1>a, <2>1 DEF Wakes, CallsParked, WaitersStay, scriptVars
  <2> QED BY <1>0, <2>1, <2>2, <2>3 DEF NoStaleResume
<1>2. CASE Create
  <2> DEFINE c == last_cid + 1
  <2>1. /\ SwapInv' /\ c \in Cids /\ ctx[c] = "none"
        /\ ctx' = [ctx EXCEPT ![c] = "active"]
        /\ UNCHANGED <<stage, defer_tasks, user_yield_coros, timers, fault>>
    BY <1>0, <1>2, CreateKeeps DEF Create
  <2>2. TypeOK'
    BY <1>0, <2>1 DEF SwapInv, TypeOK
  <2> HIDE DEF c
  <2>3. Wakes' /\ WaitersStay
    BY <1>0, <1>a, <2>1 DEF Wakes, CallsParked, WaitersStay
  <2> QED BY <1>0, <2>1, <2>2, <2>3 DEF NoStaleResume
<1>3. CASE UserYield
  <2>1. CASE current = Main /\ Die("no_current") /\ UNCHANGED user_yield_coros
    BY <1>0, <1>3, <2>1, DyingOutside DEF UserYield, scriptVars
  <2>2. CASE /\ current # Main
             /\ user_yield_coros' = user_yield_coros \union {current}
             /\ Yield(current)
    <3>1. SwapInv' /\ ctx' = [ctx EXCEPT ![current] = "parked"] /\ UNCHANGED fault
      BY <1>0, <1>3, <2>2, YieldKeeps DEF UserYield, Yield
    <3>2. current \in Cids /\ ctx[current] = "active" /\ current = running
      BY <1>0, <1>3, <2>2, CurrentActive DEF UserYield, SwapInv, StackCoherence
    <3>3. UNCHANGED <<stage, defer_tasks, timers>>
      BY <1>3 DEF UserYield
    <3>4. TypeOK'
      BY <1>0, <2>2, <3>1, <3>2, <3>3 DEF SwapInv, TypeOK
    <3>5. Wakes' /\ WaitersStay
      BY <1>0, <1>a, <2>2, <3>1, <3>2, <3>3 DEF Wakes, CallsParked, WaitersStay
    <3> QED BY <1>0, <3>1, <3>4, <3>5 DEF NoStaleResume
  <2> QED BY <1>3, <2>1, <2>2 DEF UserYield
<1>4. ASSUME NEW c \in Cids, UserResume(c)
      PROVE  SwapInv' /\ TypeOK' /\ NoStaleResume' /\ Wakes' /\ WaitersStay
             /\ (fault' = "none" => fault = "none")
  <2>1. ctx[c] = "parked" /\ timers[c] = 0 /\ op[c] = "none"
    BY <1>0, <1>a, <1>4 DEF UserResume, Wakes
  <2>2. SwapInv' /\ ctx' = [ctx EXCEPT ![c] = "active"] /\ UNCHANGED fault
    BY <1>0, <1>4, <2>1, ResumeKeeps DEF UserResume
  <2>3. user_yield_coros' = user_yield_coros \ {c}
        /\ UNCHANGED <<stage, defer_tasks, timers>>
    BY <1>4 DEF UserResume
  <2>4. TypeOK'
    BY <1>0, <2>2, <2>3 DEF SwapInv, TypeOK
  <2>5. Wakes' /\ WaitersStay
    BY <1>0, <1>a, <2>1, <2>2, <2>3 DEF Wakes, WaitersStay
  <2> QED BY <1>0, <2>2, <2>4, <2>5 DEF NoStaleResume
<1>5. CASE Sleep
  <2>1. CASE current = Main /\ Die("no_current") /\ UNCHANGED timers
    BY <1>0, <1>5, <2>1, DyingOutside DEF Sleep, scriptVars
  <2>2. CASE /\ current # Main
             /\ timers' = [timers EXCEPT ![current] = @ + 1]
             /\ Yield(current)
    <3>1. SwapInv' /\ ctx' = [ctx EXCEPT ![current] = "parked"] /\ UNCHANGED fault
      BY <1>0, <1>5, <2>2, YieldKeeps DEF Sleep, Yield
    <3>2. current \in Cids /\ ctx[current] = "active" /\ current = running
      BY <1>0, <1>5, <2>2, CurrentActive DEF Sleep, SwapInv, StackCoherence
    <3>3. UNCHANGED <<stage, defer_tasks, user_yield_coros>>
      BY <1>5 DEF Sleep
    <3>4. TypeOK'
      BY <1>0, <2>2, <3>1, <3>2, <3>3 DEF SwapInv, TypeOK
    <3>5. Wakes' /\ WaitersStay
      BY <1>0, <1>a, <2>2, <3>1, <3>2, <3>3 DEF Wakes, CallsParked, WaitersStay
    <3> QED BY <1>0, <3>1, <3>4, <3>5 DEF NoStaleResume
  <2> QED BY <1>5, <2>1, <2>2 DEF Sleep
<1>6. ASSUME NEW c \in Cids, SleepCall(c)
      PROVE  SwapInv' /\ TypeOK' /\ NoStaleResume' /\ Wakes' /\ WaitersStay
             /\ (fault' = "none" => fault = "none")
  <2>1. ctx[c] = "parked" /\ timers[c] = 1 /\ c \notin user_yield_coros /\ op[c] = "none"
    BY <1>0, <1>a, <1>6 DEF SleepCall, Wakes
  <2>2. SwapInv' /\ ctx' = [ctx EXCEPT ![c] = "active"] /\ UNCHANGED fault
    BY <1>0, <1>6, <2>1, ResumeKeeps DEF SleepCall
  <2>3. timers' = [timers EXCEPT ![c] = 0]
        /\ UNCHANGED <<stage, defer_tasks, user_yield_coros>>
    BY <1>6, <2>1 DEF SleepCall
  <2>4. TypeOK'
    BY <1>0, <2>2, <2>3 DEF SwapInv, TypeOK
  <2>5. Wakes' /\ WaitersStay
    BY <1>0, <1>a, <2>1, <2>2, <2>3 DEF Wakes, WaitersStay
  <2> QED BY <1>0, <2>2, <2>4, <2>5 DEF NoStaleResume
<1>7. CASE Defer \/ FunctionReturns \/ RunDeferred \/ Destructs
  <2>1. /\ UNCHANGED <<swapVars, last_cid, user_yield_coros, timers, fault>>
        /\ stage' \in [Cids -> Stages]
    BY <1>0, <1>7 DEF Defer, FunctionReturns, RunDeferred, Destructs, InStage, Stages, TypeOK
  <2>2. SwapInv'
    BY <1>0, <2>1, SwapInvStable
  <2>3. defer_tasks' \in [Contexts -> 0..MaxDefer]
    <3>1. defer_tasks[current] \in 0..MaxDefer /\ defer_tasks \in [Contexts -> 0..MaxDefer]
      BY <1>0 DEF SwapInv, SwapTypeOK, TypeOK
    <3>2. CASE Defer
      <4>1. defer_tasks[current] + 1 \in 0..MaxDefer
        BY <3>1, <3>2, CoroutineAssumption DEF Defer
      <4> QED BY <3>1, <3>2, <4>1 DEF Defer
    <3>3. CASE FunctionReturns \/ Destructs
      BY <3>1, <3>3 DEF FunctionReturns, Destructs
    <3>4. CASE RunDeferred
      <4>1. defer_tasks[current] - 1 \in 0..MaxDefer
        BY <3>1, <3>4, CoroutineAssumption DEF RunDeferred, InStage
      <4> QED BY <3>1, <3>4, <4>1 DEF RunDeferred
    <3> QED BY <1>7, <3>2, <3>3, <3>4
  <2>4. TypeOK'
    BY <1>0, <2>1, <2>2, <2>3 DEF SwapInv, TypeOK
  <2> QED BY <1>0, <2>1, <2>2, <2>4 DEF NoStaleResume, Wakes, WaitersStay, swapVars
<1>8. CASE ContextEnds
  <2>1. /\ SwapInv' /\ running \in Cids /\ ctx[running] = "active"
        /\ ctx' = [ctx EXCEPT ![running] = "end"]
    BY <1>0, <1>8, ContextEndsKeeps DEF TypeOK
  <2>2. UNCHANGED <<scriptVars, fault>>
    BY <1>8 DEF ContextEnds
  <2>3. TypeOK'
    BY <1>0, <2>1, <2>2 DEF SwapInv, TypeOK, scriptVars
  <2>4. Wakes' /\ WaitersStay
    BY <1>0, <1>a, <2>1, <2>2 DEF Wakes, CallsParked, WaitersStay, scriptVars
  <2> QED BY <1>0, <2>1, <2>2, <2>3, <2>4 DEF NoStaleResume
<1> QED BY <1>1, <1>2, <1>3, <1>4, <1>5, <1>6, <1>7, <1>8 DEF Next, ScriptStep

-----------------------------------------------------------------------------
(* The channel's steps. *)

\* The parts of the invariant the steps read, spelled out once.
LEMMA ChannelTypes ==
  ASSUME ChannelInv
  PROVE  /\ SwapInv /\ TypeOK /\ fault # "stale_resume"
         /\ ctx \in [Cids -> CtxStates] /\ running \in Contexts
         /\ (running \in Cids => ctx[running] = "active")
         /\ Cids \subseteq Contexts /\ (running \notin Cids => running = Main)
         /\ timers \in [Cids -> Nat]
         /\ op \in [Contexts -> {"none", "push", "pop"}]
         /\ item \in [Contexts -> Values \union {NoItem}]
         /\ data_queue \in Seq(Values) /\ delivered \in Seq(Values)
         /\ consumer_queue \in Seq(Cids) /\ producer_queue \in Seq(Cids)
         /\ pushed \in 0..MaxPush /\ pushed \in Nat
         /\ Len(data_queue) \in Nat /\ Len(delivered) \in Nat /\ Past \in Nat
         /\ dropped \in SUBSET Values /\ destroyed \in BOOLEAN
<1>1. ChannelTypeOK /\ SwapInv /\ TypeOK /\ SwapTypeOK
  BY DEF ChannelInv, ChannelTypeOK, TypeOK
<1>2. Len(data_queue) \in Nat /\ Len(delivered) \in Nat
  BY <1>1 DEF ChannelTypeOK
<1>3. Past \in Nat
  BY <1>2 DEF Past
<1>4. running \in Cids => ctx[running] = "active"
  BY <1>1 DEF SwapInv, Frames, Entered, Cids, Main
<1>5. Cids \subseteq Contexts /\ \A x \in Contexts : x \notin Cids => x = Main
  BY CoroutineAssumption DEF Cids, Contexts, Main
<1>6. fault # "stale_resume"
  BY DEF ChannelInv, NoStaleResume
<1>7. ctx \in [Cids -> CtxStates] /\ running \in Contexts /\ timers \in [Cids -> Nat]
  BY <1>1 DEF TypeOK, SwapTypeOK
<1>8. /\ op \in [Contexts -> {"none", "push", "pop"}]
      /\ item \in [Contexts -> Values \union {NoItem}]
      /\ data_queue \in Seq(Values) /\ delivered \in Seq(Values)
      /\ consumer_queue \in Seq(Cids) /\ producer_queue \in Seq(Cids)
      /\ pushed \in 0..MaxPush /\ pushed \in Nat
      /\ dropped \in SUBSET Values /\ destroyed \in BOOLEAN
  BY <1>1 DEF ChannelTypeOK
<1> QED BY <1>1, <1>2, <1>3, <1>4, <1>5, <1>6, <1>7, <1>8

\* Who is in a queue is parked, in that call, and not the one that executes.
LEMMA QueuedWait ==
  ASSUME ChannelInv, NEW queue \in Seq(Cids), NEW call, QueuesHoldWaiters(queue, call),
         NEW i \in DOMAIN queue
  PROVE  /\ queue[i] \in Cids /\ op[queue[i]] = call /\ ctx[queue[i]] = "parked"
         /\ queue[i] # running
<1>1. queue[i] \in ToSet(queue)
  BY DEF ToSet
<1> QED BY <1>1, ChannelTypes DEF QueuesHoldWaiters

\* What is left of a sequence without its first element.
LEMMA TailShifts ==
  ASSUME NEW S, NEW q \in Seq(S), q # <<>>
  PROVE  /\ Tail(q) \in Seq(S) /\ Len(Tail(q)) = Len(q) - 1
         /\ \A i \in 1..Len(Tail(q)) : /\ Tail(q)[i] = q[i + 1]
                                       /\ i + 1 \in DOMAIN q /\ i \in Nat
         /\ Len(q) \in Nat /\ Len(q) >= 1 /\ 1 \in DOMAIN q
         /\ DOMAIN q = 1..Len(q) /\ DOMAIN Tail(q) = 1..Len(Tail(q))
<1>1. Len(q) \in Nat \ {0}
  BY EmptySeq
<1>2. /\ Tail(q) \in Seq(S) /\ Len(Tail(q)) = Len(q) - 1
      /\ \A i \in 1..Len(Tail(q)) : Tail(q)[i] = q[i + 1]
  BY HeadTailProperties
<1>3. \A i \in 1..(Len(q) - 1) : i + 1 \in 1..Len(q) /\ i \in Nat
  BY <1>1
<1> QED BY <1>1, <1>2, <1>3

\* The first of a queue is taken out and resumed: the rest still wait.
LEMMA FirstWoken ==
  ASSUME ChannelInv, UserCode, NEW queue \in Seq(Cids), queue # <<>>,
         NEW call \in {"push", "pop"}, QueuesHoldWaiters(queue, call),
         Resume(Head(queue)), UNCHANGED last_cid
  PROVE  LET first == queue[1] IN
         /\ SwapInv' /\ first \in Cids /\ op[first] = call /\ ctx[first] = "parked"
         /\ first # running /\ running' = first
         /\ ctx' = [ctx EXCEPT ![first] = "active"]
         /\ fault' = fault
         /\ Tail(queue) \in Seq(Cids) /\ IsInjective(Tail(queue))
         /\ ToSet(Tail(queue)) = {co \in Cids : op[co] = call /\ ctx'[co] = "parked"}
<1> DEFINE first == queue[1]
<1>1. first \in Cids /\ op[first] = call /\ ctx[first] = "parked" /\ first # running
      /\ Head(queue) = first
  BY QueuedWait
<1> HIDE DEF first
<1>2. SwapInv' /\ ctx' = [ctx EXCEPT ![first] = "active"] /\ UNCHANGED fault
  BY <1>1, ResumeKeeps DEF ChannelInv
<1>3. running' = first
  BY <1>1 DEF Resume, SwapIn
<1>4. /\ Tail(queue) \in Seq(Cids) /\ Len(Tail(queue)) = Len(queue) - 1
      /\ \A i \in 1..Len(Tail(queue)) : Tail(queue)[i] = queue[i + 1]
      /\ Len(queue) \in Nat /\ Len(queue) >= 1
      /\ DOMAIN queue = 1..Len(queue) /\ DOMAIN Tail(queue) = 1..Len(Tail(queue))
  BY TailShifts
<1>5. IsInjective(queue) /\ ToSet(queue) = {co \in Cids : op[co] = call /\ ctx[co] = "parked"}
  BY DEF QueuesHoldWaiters
<1>6. IsInjective(Tail(queue))
  BY <1>4, <1>5 DEF IsInjective
<1>7. ToSet(Tail(queue)) = ToSet(queue) \ {first}
  <2>1. \A i \in DOMAIN Tail(queue) : Tail(queue)[i] \in ToSet(queue) /\ Tail(queue)[i] # first
    BY <1>4, <1>5 DEF ToSet, IsInjective, first
  <2>2. \A i \in DOMAIN queue : queue[i] # first => queue[i] \in ToSet(Tail(queue))
    <3> SUFFICES ASSUME NEW i \in DOMAIN queue, queue[i] # first
                 PROVE  queue[i] \in ToSet(Tail(queue))
      OBVIOUS
    <3>1. i - 1 \in DOMAIN Tail(queue) /\ Tail(queue)[i - 1] = queue[i]
      BY <1>4 DEF first
    <3> QED BY <3>1 DEF ToSet
  <2> QED BY <2>1, <2>2 DEF ToSet
<1>8. ToSet(Tail(queue)) = {co \in Cids : op[co] = call /\ ctx'[co] = "parked"}
  BY <1>1, <1>2, <1>5, <1>7, ChannelTypes
<1> QED BY <1>1, <1>2, <1>3, <1>4, <1>6, <1>8 DEF first

\* What follows an end of a call or a wake-up, apart from who was woken.
LEMMA CallEnds ==
  ASSUME ChannelInv, op' = [op EXCEPT ![running] = "none"], NEW first \in Cids,
         op[first] # "none", first # running, ctx[first] = "parked",
         running' = first, ctx' = [ctx EXCEPT ![first] = "active"],
         UNCHANGED <<user_yield_coros, timers>>
  PROVE  CallsParked' /\ Wakes' /\ op'[running'] = op[first]
<1>1. CallsParked /\ Wakes
  BY DEF ChannelInv
<1>2. CallsParked'
  BY <1>1, ChannelTypes DEF CallsParked, Main, Cids, Contexts
<1>3. Wakes'
  BY <1>1, ChannelTypes DEF Wakes
<1> QED BY <1>2, <1>3, ChannelTypes

\* The same, when nobody was woken.
LEMMA CallReturns ==
  ASSUME ChannelInv, op' = [op EXCEPT ![running] = "none"],
         UNCHANGED <<swapVars, user_yield_coros, timers>>
  PROVE  CallsParked' /\ Wakes' /\ op'[running'] = "none"
<1>1. CallsParked /\ Wakes
  BY DEF ChannelInv
<1>2. UNCHANGED <<ctx, running>>
  BY DEF swapVars
<1>3. CallsParked'
  BY <1>1, <1>2, ChannelTypes DEF CallsParked, Main, Cids, Contexts
<1>4. Wakes'
  BY <1>1, <1>2, ChannelTypes DEF Wakes
<1> QED BY <1>2, <1>3, <1>4, ChannelTypes

\* A queue whose waiters the step leaves alone still holds them.
LEMMA StillQueued ==
  ASSUME ChannelInv, op' = [op EXCEPT ![running] = "none"],
         NEW queue, NEW call \in {"push", "pop"}, QueuesHoldWaiters(queue, call),
         \A co \in Cids : op[co] = call => ctx'[co] = ctx[co]
  PROVE  IsInjective(queue) /\ ToSet(queue) = {co \in Cids : op'[co] = call /\ ctx'[co] = "parked"}
BY ChannelTypes DEF QueuesHoldWaiters, CtxStates

\* push has room: its value is the next one, and the first consumer gets it.
LEMMA EnqueueKeeps ==
  ASSUME ChannelInv, UserCode, ~ destroyed, NEW v \in Values, Enqueue(v),
         data_queue = <<>>, v = Len(delivered) + 1,
         op[running] = "none" \/ op[running] = "push",
         \A i \in DOMAIN producer_queue : item[producer_queue[i]] = v + i,
         pushed' = v + Len(producer_queue), pushed' \in 0..MaxPush,
         UNCHANGED <<last_cid, stage, defer_tasks, user_yield_coros, destroyed>>
  PROVE  ChannelInv'
<1> DEFINE first == consumer_queue[1]
<1>0. /\ data_queue' = <<v>>
      /\ op' = [op EXCEPT ![running] = "none"]
      /\ item' = [item EXCEPT ![running] = NoItem]
      /\ consumer_queue' = IF consumer_queue = <<>> THEN <<>> ELSE Tail(consumer_queue)
      /\ WakeFirst(consumer_queue)
      /\ UNCHANGED <<producer_queue, dropped, delivered, timers>>
  BY DEF Enqueue, WakeConsumer
<1>1. /\ QueuesHoldWaiters(consumer_queue, "pop") /\ QueuesHoldWaiters(producer_queue, "push")
      /\ Matched /\ Sequenced /\ dropped = {} /\ fault = "none"
  BY DEF ChannelInv, WaitersQueued, Sequenced, UserCode
<1>2. SwapInv' /\ CallsParked' /\ Wakes' /\ fault' = "none"
      /\ \/ op'[running'] = "none" /\ consumer_queue' = <<>>
         \/ op'[running'] = "pop" /\ op[running] = "none"
      /\ consumer_queue' \in Seq(Cids) /\ IsInjective(consumer_queue')
      /\ ToSet(consumer_queue') = {co \in Cids : op'[co] = "pop" /\ ctx'[co] = "parked"}
      /\ (\A co \in Cids : op[co] = "push" => ctx'[co] = ctx[co])
  <2>1. CASE consumer_queue = <<>>
    <3>1. UNCHANGED <<swapVars, fault>> /\ consumer_queue' = consumer_queue
      BY <1>0, <2>1 DEF WakeFirst
    <3>2. SwapInv'
      BY <3>1, SwapInvStable DEF ChannelInv
    <3>3. CallsParked' /\ Wakes' /\ op'[running'] = "none"
      BY <1>0, <3>1, CallReturns
    <3>4. ctx' = ctx
      BY <3>1 DEF swapVars
    <3>5. IsInjective(consumer_queue)
          /\ ToSet(consumer_queue) = {co \in Cids : op'[co] = "pop" /\ ctx'[co] = "parked"}
      BY <1>0, <1>1, <3>4, StillQueued
    <3>6. op'[running'] = "none" /\ consumer_queue' = <<>> /\ fault' = "none"
      BY <1>1, <2>1, <3>1, <3>3
    <3>7. ToSet(consumer_queue') = {co \in Cids : op'[co] = "pop" /\ ctx'[co] = "parked"}
      BY <3>1, <3>5
    <3>8. consumer_queue' \in Seq(Cids) /\ IsInjective(consumer_queue')
      BY <3>1, <3>5, ChannelTypes
    <3> QED BY <3>2, <3>3, <3>4, <3>6, <3>7, <3>8
  <2>2. CASE consumer_queue # <<>>
    <3>1. Resume(Head(consumer_queue)) /\ consumer_queue' = Tail(consumer_queue)
      BY <1>0, <2>2 DEF WakeFirst
    <3>2. op[running] = "none"
      BY <1>1, <2>2 DEF Matched
    <3>3. /\ SwapInv' /\ first \in Cids /\ op[first] = "pop" /\ ctx[first] = "parked"
          /\ first # running /\ running' = first
          /\ ctx' = [ctx EXCEPT ![first] = "active"]
          /\ fault' = fault
          /\ Tail(consumer_queue) \in Seq(Cids) /\ IsInjective(Tail(consumer_queue))
          /\ ToSet(Tail(consumer_queue)) = {co \in Cids : op[co] = "pop" /\ ctx'[co] = "parked"}
      BY <1>1, <2>2, <3>1, FirstWoken, ChannelTypes
    <3> HIDE DEF first
    <3>4. CallsParked' /\ Wakes' /\ op'[running'] = "pop"
      BY <1>0, <3>3, CallEnds
    <3>5. {co \in Cids : op[co] = "pop" /\ ctx'[co] = "parked"}
            = {co \in Cids : op'[co] = "pop" /\ ctx'[co] = "parked"}
      BY <1>0, <3>3, ChannelTypes
    <3>6. \A co \in Cids : op[co] = "push" => ctx'[co] = ctx[co]
      BY <3>3, ChannelTypes
    <3> QED BY <1>1, <3>1, <3>2, <3>3, <3>4, <3>5, <3>6
  <2> QED BY <2>1, <2>2
<1>3. WaitersQueued'
  BY <1>0, <1>1, <1>2, StillQueued DEF WaitersQueued, QueuesHoldWaiters
<1>4. TypeOK' /\ NoStaleResume'
  BY <1>0, <1>2, ChannelTypes DEF TypeOK, NoStaleResume, SwapInv
<1>5. ChannelTypeOK'
  BY <1>0, <1>2, <1>4, ChannelTypes DEF ChannelTypeOK
<1>6. Len(data_queue') = 1 /\ DOMAIN data_queue' = {1} /\ data_queue'[1] = v
  BY <1>0
<1>7. Matched'
  <2>1. op'[running'] = "pop" => producer_queue' = <<>>
    BY <1>0, <1>1, <1>2 DEF Matched
  <2>2. data_queue' # <<>> /\ Len(data_queue') <= 1
    BY <1>0
  <2>3. CASE op'[running'] = "none"
    BY <1>2, <2>2, <2>3 DEF Matched
  <2>4. CASE op'[running'] = "pop"
    BY <2>1, <2>2, <2>4 DEF Matched
  <2> QED BY <1>2, <2>3, <2>4
<1>8. Past' = v
  BY <1>0, <1>2, <1>6, ChannelTypes DEF Past
<1>9. \A i \in DOMAIN producer_queue : item'[producer_queue[i]] = item[producer_queue[i]]
  BY <1>0, <1>1, QueuedWait, ChannelTypes
<1>10. Sequenced'
  BY <1>0, <1>1, <1>2, <1>6, <1>8, <1>9, ChannelTypes DEF Sequenced
<1> QED BY <1>2, <1>3, <1>4, <1>5, <1>7, <1>10 DEF ChannelInv

\* The one value of a channel that is not empty.
LEMMA OnlyElement ==
  ASSUME NEW S, NEW q \in Seq(S), q # <<>>, Len(q) <= 1
  PROVE  Len(q) = 1 /\ Head(q) = q[1] /\ Tail(q) = <<>> /\ 1 \in DOMAIN q
<1>1. Len(q) \in Nat \ {0}
  BY EmptySeq
<1>2. Len(q) = 1
  BY <1>1
<1>3. Tail(q) \in Seq(S) /\ Len(Tail(q)) = 0
  BY <1>2, HeadTailProperties
<1>4. Tail(q) = <<>>
  BY <1>3, EmptySeq
<1> QED BY <1>2, <1>4

\* pop has a value: the first producer, whose value is the next, gets the room.
LEMMA DequeueKeeps ==
  ASSUME ChannelInv, UserCode, ~ destroyed, Dequeue, data_queue # <<>>,
         op[running] = "none" \/ op[running] = "pop",
         UNCHANGED <<last_cid, stage, defer_tasks, user_yield_coros, pushed, destroyed>>
  PROVE  ChannelInv'
<1> DEFINE first == producer_queue[1]
           d == Len(delivered) + 1
<1>0. /\ data_queue' = Tail(data_queue)
      /\ delivered' = Append(delivered, Head(data_queue))
      /\ op' = [op EXCEPT ![running] = "none"]
      /\ producer_queue' = IF producer_queue = <<>> THEN <<>> ELSE Tail(producer_queue)
      /\ WakeFirst(producer_queue)
      /\ UNCHANGED <<consumer_queue, item, dropped, timers>>
  BY DEF Dequeue, TakeFront, WakeProducer
<1>1. /\ QueuesHoldWaiters(consumer_queue, "pop") /\ QueuesHoldWaiters(producer_queue, "push")
      /\ Matched /\ Sequenced /\ dropped = {} /\ fault = "none"
  BY DEF ChannelInv, WaitersQueued, Sequenced, UserCode
<1>2. /\ SwapInv' /\ CallsParked' /\ Wakes' /\ fault' = "none"
      /\ \/ op'[running'] = "none" /\ producer_queue = <<>> /\ producer_queue' = <<>>
         \/ /\ op'[running'] = "push" /\ op[running] = "none"
            /\ producer_queue # <<>> /\ running' = first
      /\ producer_queue' \in Seq(Cids) /\ IsInjective(producer_queue')
      /\ ToSet(producer_queue') = {co \in Cids : op'[co] = "push" /\ ctx'[co] = "parked"}
      /\ (\A co \in Cids : op[co] = "pop" => ctx'[co] = ctx[co])
  <2>1. CASE producer_queue = <<>>
    <3>1. UNCHANGED <<swapVars, fault>> /\ producer_queue' = producer_queue
      BY <1>0, <2>1 DEF WakeFirst
    <3>2. SwapInv'
      BY <3>1, SwapInvStable DEF ChannelInv
    <3>3. CallsParked' /\ Wakes' /\ op'[running'] = "none"
      BY <1>0, <3>1, CallReturns
    <3>4. ctx' = ctx
      BY <3>1 DEF swapVars
    <3>5. IsInjective(producer_queue)
          /\ ToSet(producer_queue) = {co \in Cids : op'[co] = "push" /\ ctx'[co] = "parked"}
      BY <1>0, <1>1, <3>4, StillQueued
    <3>6. op'[running'] = "none" /\ producer_queue' = <<>> /\ fault' = "none"
      BY <1>1, <2>1, <3>1, <3>3
    <3>7. ToSet(producer_queue') = {co \in Cids : op'[co] = "push" /\ ctx'[co] = "parked"}
      BY <3>1, <3>5
    <3>8. producer_queue' \in Seq(Cids) /\ IsInjective(producer_queue')
      BY <3>1, <3>5, ChannelTypes
    <3> QED BY <2>1, <3>2, <3>3, <3>4, <3>6, <3>7, <3>8
  <2>2. CASE producer_queue # <<>>
    <3>1. Resume(Head(producer_queue)) /\ producer_queue' = Tail(producer_queue)
      BY <1>0, <2>2 DEF WakeFirst
    <3>2. op[running] = "none"
      BY <1>1, <2>2 DEF Matched
    <3>3. /\ SwapInv' /\ first \in Cids /\ op[first] = "push" /\ ctx[first] = "parked"
          /\ first # running /\ running' = first
          /\ ctx' = [ctx EXCEPT ![first] = "active"]
          /\ fault' = fault
          /\ Tail(producer_queue) \in Seq(Cids) /\ IsInjective(Tail(producer_queue))
          /\ ToSet(Tail(producer_queue)) = {co \in Cids : op[co] = "push" /\ ctx'[co] = "parked"}
      BY <1>1, <2>2, <3>1, FirstWoken, ChannelTypes
    <3> HIDE DEF first
    <3>4. CallsParked' /\ Wakes' /\ op'[running'] = "push"
      BY <1>0, <3>3, CallEnds
    <3>5. {co \in Cids : op[co] = "push" /\ ctx'[co] = "parked"}
            = {co \in Cids : op'[co] = "push" /\ ctx'[co] = "parked"}
      BY <1>0, <3>3, ChannelTypes
    <3>6. \A co \in Cids : op[co] = "pop" => ctx'[co] = ctx[co]
      BY <3>3, ChannelTypes
    <3>7. /\ producer_queue' \in Seq(Cids) /\ IsInjective(producer_queue')
          /\ ToSet(producer_queue') = {co \in Cids : op'[co] = "push" /\ ctx'[co] = "parked"}
      BY <3>1, <3>3, <3>5
    <3> QED BY <1>1, <2>2, <3>2, <3>3, <3>4, <3>6, <3>7
  <2> QED BY <2>1, <2>2
<1>3. WaitersQueued'
  BY <1>0, <1>1, <1>2, StillQueued DEF WaitersQueued, QueuesHoldWaiters
<1>4. TypeOK' /\ NoStaleResume'
  BY <1>0, <1>2, ChannelTypes DEF TypeOK, NoStaleResume, SwapInv
<1>5. /\ Len(data_queue) = 1 /\ Head(data_queue) = d /\ data_queue' = <<>>
      /\ Head(data_queue) \in Values
  <2>1. /\ Len(data_queue) = 1 /\ Head(data_queue) = data_queue[1]
        /\ Tail(data_queue) = <<>> /\ 1 \in DOMAIN data_queue
    BY <1>1, ChannelTypes, OnlyElement DEF Matched
  <2> QED BY <1>0, <1>1, <2>1, ChannelTypes DEF Sequenced
<1>6. /\ delivered' = Append(delivered, d) /\ delivered' \in Seq(Values)
      /\ Len(delivered') = d /\ DOMAIN delivered' = 1..d
      /\ \A i \in DOMAIN delivered' : delivered'[i] = IF i = d THEN d ELSE delivered[i]
  BY <1>0, <1>5, ChannelTypes
<1>7. ChannelTypeOK'
  BY <1>0, <1>2, <1>4, <1>5, <1>6, ChannelTypes DEF ChannelTypeOK
<1>8. Matched'
  <2>1. Len(data_queue') <= 1 /\ Len(data_queue') = 0
    BY <1>5
  <2>2. op'[running'] = "push" => consumer_queue' = <<>>
    BY <1>0, <1>1, <1>2 DEF Matched
  <2>3. CASE op'[running'] = "none"
    BY <1>2, <1>5, <2>1, <2>3 DEF Matched
  <2>4. CASE op'[running'] = "push"
    BY <1>5, <2>1, <2>2, <2>4 DEF Matched
  <2> QED BY <1>2, <2>3, <2>4
<1>9. Past = d /\ Past' = d + (IF op'[running'] = "push" THEN 1 ELSE 0)
  BY <1>5, <1>6, ChannelTypes DEF Past
<1>10. /\ Past' + Len(producer_queue') = Past + Len(producer_queue)
       /\ \A i \in DOMAIN producer_queue' : item[producer_queue'[i]] = Past' + i
       /\ op'[running'] = "push" => item[running'] = Past'
  <2>1. CASE op'[running'] = "none" /\ producer_queue = <<>> /\ producer_queue' = <<>>
    BY <1>9, <2>1, ChannelTypes
  <2>2. CASE op'[running'] = "push" /\ producer_queue # <<>> /\ running' = first
    <3>1. /\ producer_queue' = Tail(producer_queue)
          /\ Len(producer_queue') = Len(producer_queue) - 1
          /\ DOMAIN producer_queue' = 1..Len(producer_queue')
          /\ \A i \in DOMAIN producer_queue' : /\ producer_queue'[i] = producer_queue[i + 1]
                                               /\ i + 1 \in DOMAIN producer_queue /\ i \in Nat
          /\ 1 \in DOMAIN producer_queue /\ Len(producer_queue) \in Nat
      <4>1. producer_queue \in Seq(Cids) /\ producer_queue' = Tail(producer_queue)
        BY <1>0, <2>2, ChannelTypes
      <4>2. producer_queue # <<>>
        BY <2>2
      <4> QED BY <4>1, <4>2, TailShifts
    <3>2. \A i \in DOMAIN producer_queue : item[producer_queue[i]] = d + i
      BY <1>1, <1>9 DEF Sequenced
    <3>3. Past' = d + 1 /\ d \in Nat
      BY <1>9, <2>2, ChannelTypes
    <3> HIDE DEF d
    <3>4. Past' + Len(producer_queue') = Past + Len(producer_queue)
      <4>1. Past = d
        BY <1>9
      <4>2. Len(producer_queue') = Len(producer_queue) - 1 /\ Len(producer_queue) \in Nat
        BY <3>1
      <4> QED BY <3>3, <4>1, <4>2
    <3>5. \A i \in DOMAIN producer_queue' : item[producer_queue'[i]] = Past' + i
      BY <3>1, <3>2, <3>3
    <3>6. item[running'] = Past'
      BY <2>2, <3>1, <3>2, <3>3
    <3> QED BY <3>4, <3>5, <3>6
  <2> QED BY <1>2, <2>1, <2>2
<1>11. Sequenced'
  <2>1. \A i \in DOMAIN delivered' : delivered'[i] = i
    <3>1. \A i \in 1..Len(delivered) : delivered[i] = i
      BY <1>1, ChannelTypes DEF Sequenced
    <3>2. \A i \in 1..d : i = d \/ i \in 1..Len(delivered)
      <4>1. Len(delivered) \in Nat
        BY ChannelTypes
      <4> HIDE DEF d
      <4>2. \A i \in 1..(Len(delivered) + 1) : i = Len(delivered) + 1 \/ i \in 1..Len(delivered)
        BY <4>1
      <4> QED BY <4>2 DEF d
    <3> QED BY <1>6, <3>1, <3>2
  <2>2. \A i \in DOMAIN data_queue' : data_queue'[i] = Len(delivered') + i
    BY <1>5
  <2>3. /\ Past' + Len(producer_queue') <= pushed'
        /\ ~ destroyed' /\ dropped' = {}
        /\ fault' = "none" => Past' + Len(producer_queue') = pushed'
    BY <1>0, <1>1, <1>10 DEF Sequenced
  <2>4. /\ \A i \in DOMAIN producer_queue' : item'[producer_queue'[i]] = Past' + i
        /\ op'[running'] = "push" => item'[running'] = Past'
    BY <1>0, <1>10
  <2> QED BY <2>1, <2>2, <2>3, <2>4 DEF Sequenced
<1> QED BY <1>2, <1>3, <1>4, <1>7, <1>8, <1>11 DEF ChannelInv

\* Without a timeout, Block only parks the caller.
LEMMA BlockKeeps ==
  ASSUME ChannelInv, UserCode, op[running] = "none", current # Main,
         Timeouts = {FALSE}, Block, NEW call \in {"push", "pop"},
         op' = [op EXCEPT ![running] = call],
         UNCHANGED <<last_cid, user_yield_coros>>
  PROVE  /\ SwapInv' /\ CallsParked' /\ Wakes'
         /\ current = running /\ running \in Cids /\ ctx[running] = "active"
         /\ ctx' = [ctx EXCEPT ![running] = "parked"] /\ running' \in Contexts
         /\ running' # running /\ op'[running'] = "none" /\ op[running'] = "none"
         /\ timers' = timers /\ fault' = "none"
<1>1. current = running /\ running \in Cids /\ ctx[running] = "active"
  BY ChannelTypes, CurrentActive DEF UserCode, SwapInv, StackCoherence
<1>2. SwapInv' /\ ctx' = [ctx EXCEPT ![running] = "parked"] /\ fault' = "none"
  BY <1>1, YieldKeeps, ChannelTypes DEF Block, Yield, UserCode
<1>3. timers' = timers
  BY ChannelTypes DEF Block
<1>4. running' \in Contexts /\ (running' \in Cids => ctx'[running'] = "active")
  BY <1>2 DEF SwapInv, SwapTypeOK, Frames, Entered, Cids, Contexts, Main
<1>5. running' # running
  BY <1>1, <1>2, <1>4, ChannelTypes
<1>6. CallsParked /\ Wakes
  BY DEF ChannelInv
<1>7. op[running'] = "none" /\ op'[running'] = "none"
  BY <1>1, <1>2, <1>4, <1>5, <1>6, ChannelTypes DEF CallsParked, Cids, Contexts, Main
<1>8. CallsParked'
  BY <1>1, <1>2, <1>6, ChannelTypes DEF CallsParked, Cids, Main
<1>9. Wakes'
  BY <1>1, <1>2, <1>3, <1>6, ChannelTypes DEF Wakes
<1> QED BY <1>1, <1>2, <1>3, <1>4, <1>5, <1>7, <1>8, <1>9

\* Who parks enters its queue at the end, and the other queue is not touched.
LEMMA QueueGrows ==
  ASSUME ChannelInv, running \in Cids, ctx[running] = "active", op[running] = "none",
         NEW call \in {"push", "pop"}, op' = [op EXCEPT ![running] = call],
         ctx' = [ctx EXCEPT ![running] = "parked"],
         NEW queue \in Seq(Cids), QueuesHoldWaiters(queue, call)
  PROVE  LET longer == Append(queue, running) IN
         /\ longer \in Seq(Cids) /\ IsInjective(longer)
         /\ ToSet(longer) = {co \in Cids : op'[co] = call /\ ctx'[co] = "parked"}
<1> DEFINE longer == Append(queue, running)
<1>1. /\ longer \in Seq(Cids) /\ Len(queue) \in Nat /\ Len(longer) = Len(queue) + 1
      /\ DOMAIN longer = 1..(Len(queue) + 1) /\ DOMAIN queue = 1..Len(queue)
      /\ \A i \in DOMAIN queue : longer[i] = queue[i]
      /\ longer[Len(queue) + 1] = running
  BY AppendProperties
<1> HIDE DEF longer
<1>2. IsInjective(queue) /\ ToSet(queue) = {co \in Cids : op[co] = call /\ ctx[co] = "parked"}
  BY DEF QueuesHoldWaiters
<1>3. \A i \in DOMAIN queue : queue[i] # running
  BY QueuedWait
<1>4. \A i \in DOMAIN longer : i \in DOMAIN queue \/ i = Len(queue) + 1
  BY <1>1
<1>5. IsInjective(longer)
  BY <1>1, <1>2, <1>3, <1>4 DEF IsInjective
<1>6. ToSet(longer) = ToSet(queue) \union {running}
  BY <1>1, <1>4 DEF ToSet
<1>7. \A co \in Cids : (op'[co] = call /\ ctx'[co] = "parked")
                         <=> (op[co] = call /\ ctx[co] = "parked") \/ co = running
  BY ChannelTypes
<1>8. ToSet(longer) = {co \in Cids : op'[co] = call /\ ctx'[co] = "parked"}
  BY <1>2, <1>6, <1>7
<1> QED BY <1>1, <1>5, <1>8 DEF longer

\* Nobody else starts or stops waiting meanwhile.
LEMMA OtherQueueKept ==
  ASSUME ChannelInv, running \in Cids, ctx[running] = "active", op[running] = "none",
         NEW call \in {"push", "pop"}, NEW other \in {"push", "pop"}, other # call,
         op' = [op EXCEPT ![running] = call], ctx' = [ctx EXCEPT ![running] = "parked"],
         NEW queue, QueuesHoldWaiters(queue, other)
  PROVE  IsInjective(queue) /\ ToSet(queue) = {co \in Cids : op'[co] = other /\ ctx'[co] = "parked"}
BY ChannelTypes DEF QueuesHoldWaiters, CtxStates

\* push and pop that wait: the caller is the last to be served.
LEMMA PushBlocks ==
  ASSUME ChannelInv, ScriptCode, ~ destroyed, Full, current # Main, Timeouts = {FALSE},
         pushed < MaxPush, pushed' = pushed + 1,
         producer_queue' = Append(producer_queue, current),
         op' = [op EXCEPT ![running] = "push"],
         item' = [item EXCEPT ![running] = pushed + 1],
         Block,
         UNCHANGED <<data_queue, consumer_queue, delivered, dropped>>,
         UNCHANGED <<last_cid, stage, defer_tasks, user_yield_coros, destroyed>>
  PROVE  ChannelInv'
<1>0. UserCode /\ op[running] = "none"
  BY DEF ScriptCode
<1>1. /\ SwapInv' /\ CallsParked' /\ Wakes'
      /\ current = running /\ running \in Cids /\ ctx[running] = "active"
      /\ ctx' = [ctx EXCEPT ![running] = "parked"]
      /\ op'[running'] = "none"
      /\ timers' = timers /\ fault' = "none"
  BY <1>0, BlockKeeps
<1>2. /\ QueuesHoldWaiters(consumer_queue, "pop") /\ QueuesHoldWaiters(producer_queue, "push")
      /\ Matched /\ Sequenced /\ dropped = {} /\ fault = "none"
  BY <1>0 DEF ChannelInv, WaitersQueued, Sequenced, UserCode
<1>3. WaitersQueued'
  <2>1. QueuesHoldWaiters(producer_queue, "push")'
    BY <1>0, <1>1, <1>2, QueueGrows, ChannelTypes DEF QueuesHoldWaiters
  <2>2. QueuesHoldWaiters(consumer_queue, "pop")'
    BY <1>0, <1>1, <1>2, OtherQueueKept DEF QueuesHoldWaiters
  <2> QED BY <2>1, <2>2 DEF WaitersQueued
<1>4. producer_queue' \in Seq(Cids)
  BY <1>1, ChannelTypes, AppendProperties
<1>5. TypeOK' /\ NoStaleResume'
  BY <1>1, ChannelTypes DEF TypeOK, NoStaleResume, SwapInv
<1>6. pushed' \in 0..MaxPush /\ pushed + 1 \in Values
  BY ChannelTypes, CoChannelAssumption DEF Values
<1>7. ChannelTypeOK'
  BY <1>1, <1>4, <1>5, <1>6, ChannelTypes DEF ChannelTypeOK
<1>8. Len(data_queue) = 1
  BY DEF Full, capacity
<1>9. data_queue # <<>>
  BY <1>8
<1>10. Matched'
  BY <1>0, <1>1, <1>2, <1>8, <1>9 DEF Matched
<1>11. Past' = Past
  BY <1>0, <1>1 DEF Past
<1>12. /\ Len(producer_queue') = Len(producer_queue) + 1 /\ Len(producer_queue) \in Nat
       /\ \A i \in DOMAIN producer_queue :
            producer_queue'[i] = producer_queue[i] /\ producer_queue[i] # running
       /\ producer_queue'[Len(producer_queue) + 1] = running
       /\ \A i \in DOMAIN producer_queue' :
            i \in DOMAIN producer_queue \/ i = Len(producer_queue) + 1
       /\ DOMAIN producer_queue = 1..Len(producer_queue)
  <2>1. \A i \in DOMAIN producer_queue : producer_queue[i] # running
    BY <1>2, QueuedWait, ChannelTypes
  <2> QED BY <1>1, <2>1, ChannelTypes, AppendProperties
<1>13. Past + Len(producer_queue) = pushed
  BY <1>2 DEF Sequenced
<1>14. \A i \in DOMAIN producer_queue : item'[producer_queue'[i]] = Past + i
  <2>1. \A i \in DOMAIN producer_queue : item[producer_queue[i]] = Past + i
    BY <1>2 DEF Sequenced
  <2>2. \A i \in DOMAIN producer_queue : producer_queue[i] \in Contexts
    BY ChannelTypes
  <2> QED BY <1>12, <2>1, <2>2, ChannelTypes
<1>15. item'[running] = Past + (Len(producer_queue) + 1)
  BY <1>12, <1>13, ChannelTypes
<1>16. \A i \in DOMAIN producer_queue' : item'[producer_queue'[i]] = Past' + i
  BY <1>11, <1>12, <1>14, <1>15
<1>17. Past' + Len(producer_queue') = pushed'
  BY <1>11, <1>12, <1>13, ChannelTypes
<1>18. Sequenced'
  BY <1>1, <1>2, <1>6, <1>16, <1>17 DEF Sequenced
<1> QED BY <1>1, <1>3, <1>5, <1>7, <1>10, <1>18 DEF ChannelInv

LEMMA PopBlocks ==
  ASSUME ChannelInv, ScriptCode, ~ destroyed, data_queue = <<>>, current # Main,
         Timeouts = {FALSE},
         consumer_queue' = Append(consumer_queue, current),
         op' = [op EXCEPT ![running] = "pop"],
         Block,
         UNCHANGED <<data_queue, producer_queue, item, delivered, dropped>>,
         UNCHANGED <<last_cid, stage, defer_tasks, user_yield_coros, pushed, destroyed>>
  PROVE  ChannelInv'
<1>0. UserCode /\ op[running] = "none"
  BY DEF ScriptCode
<1>1. /\ SwapInv' /\ CallsParked' /\ Wakes'
      /\ current = running /\ running \in Cids /\ ctx[running] = "active"
      /\ ctx' = [ctx EXCEPT ![running] = "parked"]
      /\ op'[running'] = "none"
      /\ timers' = timers /\ fault' = "none"
  BY <1>0, BlockKeeps
<1>2. /\ QueuesHoldWaiters(consumer_queue, "pop") /\ QueuesHoldWaiters(producer_queue, "push")
      /\ Matched /\ Sequenced /\ dropped = {} /\ fault = "none"
  BY <1>0 DEF ChannelInv, WaitersQueued, Sequenced, UserCode
<1>3. WaitersQueued'
  <2>1. QueuesHoldWaiters(consumer_queue, "pop")'
    BY <1>0, <1>1, <1>2, QueueGrows, ChannelTypes DEF QueuesHoldWaiters
  <2>2. QueuesHoldWaiters(producer_queue, "push")'
    BY <1>0, <1>1, <1>2, OtherQueueKept DEF QueuesHoldWaiters
  <2> QED BY <2>1, <2>2 DEF WaitersQueued
<1>4. consumer_queue' \in Seq(Cids)
  BY <1>1, ChannelTypes, AppendProperties
<1>5. TypeOK' /\ NoStaleResume'
  BY <1>1, ChannelTypes DEF TypeOK, NoStaleResume, SwapInv
<1>6. ChannelTypeOK'
  BY <1>1, <1>4, <1>5, ChannelTypes DEF ChannelTypeOK
<1>7. Matched'
  BY <1>0, <1>1, <1>2 DEF Matched
<1>8. Past' = Past
  BY <1>0, <1>1 DEF Past
<1>9. Sequenced'
  BY <1>0, <1>1, <1>2, <1>8 DEF Sequenced
<1> QED BY <1>1, <1>3, <1>5, <1>6, <1>7, <1>9 DEF ChannelInv

\* The main script dies of a call that would have to wait.
LEMMA MainDies ==
  ASSUME ChannelInv, ScriptCode, ~ destroyed, BlocksMain, pushed' \in pushed..MaxPush,
         UNCHANGED <<last_cid, stage, defer_tasks, user_yield_coros, destroyed>>
  PROVE  ChannelInv'
<1>1. /\ Die("no_current") /\ op[running] = "none" /\ fault = "none"
      /\ UNCHANGED <<data_queue, consumer_queue, producer_queue, op, item, delivered,
                     dropped, timers>>
  BY DEF BlocksMain, ScriptCode, UserCode
<1>2. UNCHANGED scriptVars
  BY <1>1 DEF scriptVars
<1>3. SwapInv' /\ TypeOK' /\ NoStaleResume' /\ Wakes' /\ WaitersStay /\ fault' # "none"
  BY <1>1, <1>2, DyingOutside, ChannelTypes DEF ChannelInv
<1>4. UNCHANGED <<ctx, running>>
  BY <1>1 DEF Die, swapVars
<1>5. pushed' \in 0..MaxPush /\ pushed' >= pushed /\ pushed' \in Nat
  BY ChannelTypes, CoChannelAssumption
<1>6. ChannelTypeOK'
  BY <1>1, <1>3, <1>5 DEF ChannelInv, ChannelTypeOK
<1>7. CallsParked' /\ WaitersQueued' /\ Matched'
  BY <1>1, <1>4 DEF ChannelInv, CallsParked, WaitersQueued, QueuesHoldWaiters, Matched
<1>8. Past' = Past
  BY <1>1, <1>4 DEF Past
<1>9. Sequenced /\ Len(producer_queue) \in Nat
  BY ChannelTypes DEF ChannelInv
<1>10. Past' + Len(producer_queue') <= pushed'
  BY <1>1, <1>5, <1>8, <1>9, ChannelTypes DEF Sequenced
<1>11. Sequenced'
  BY <1>1, <1>3, <1>4, <1>8, <1>9, <1>10 DEF Sequenced
<1> QED BY <1>3, <1>6, <1>7, <1>11 DEF ChannelInv

\* Nobody waits in a channel that is freed; what it holds is the last value.
LEMMA FreeObjectKeeps == ChannelInv /\ FreeObject => ChannelInv'
<1> SUFFICES ASSUME ChannelInv, FreeObject PROVE ChannelInv'
  OBVIOUS
<1>1. /\ UserCode /\ fault = "none" /\ ~ destroyed /\ destroyed' /\ destroyed' \in BOOLEAN
      /\ (\A x \in Contexts : op[x] = "none")
      /\ dropped' = dropped \union ToSet(data_queue) /\ data_queue' = <<>>
      /\ UNCHANGED <<vars, consumer_queue, producer_queue, op, item, pushed, delivered>>
  BY DEF FreeObject, UserCode
<1>2. /\ QueuesHoldWaiters(consumer_queue, "pop") /\ QueuesHoldWaiters(producer_queue, "push")
      /\ Matched /\ Sequenced /\ dropped = {}
  BY <1>1 DEF ChannelInv, WaitersQueued, Sequenced
<1>3. consumer_queue = <<>> /\ producer_queue = <<>>
  <2>1. consumer_queue # <<>> => 1 \in DOMAIN consumer_queue
    BY EmptySeq, ChannelTypes
  <2>2. producer_queue # <<>> => 1 \in DOMAIN producer_queue
    BY EmptySeq, ChannelTypes
  <2>3. \A i \in DOMAIN consumer_queue : FALSE
    BY <1>1, <1>2, QueuedWait, ChannelTypes
  <2>4. \A i \in DOMAIN producer_queue : FALSE
    BY <1>1, <1>2, QueuedWait, ChannelTypes
  <2> QED BY <2>1, <2>2, <2>3, <2>4
<1>4. op[running] = "none" /\ UNCHANGED <<swapVars, scriptVars, fault, ctx, running>>
  BY <1>1, ChannelTypes DEF vars, swapVars
<1>5. /\ Past = Len(delivered) + Len(data_queue) /\ Past' = Len(delivered)
      /\ pushed = Past /\ Len(data_queue) \in {0, 1}
  <2>1. Past = Len(delivered) + Len(data_queue)
    BY <1>4, ChannelTypes DEF Past
  <2>2. Past' = Len(delivered)
    BY <1>1, <1>4, ChannelTypes DEF Past
  <2>3. Past + Len(producer_queue) = pushed
    BY <1>1, <1>2 DEF Sequenced
  <2>4. pushed = Past
    BY <1>3, <2>3, ChannelTypes
  <2>5. data_queue # <<>> => Len(data_queue) = 1
    BY <1>2, ChannelTypes, OnlyElement DEF Matched
  <2>6. Len(data_queue) \in {0, 1}
    BY <2>5
  <2> QED BY <2>1, <2>2, <2>4, <2>6
<1>6. dropped' = (Len(delivered) + 1)..pushed
  <2>1. ToSet(data_queue) = (Len(delivered) + 1)..pushed
    <3>1. CASE Len(data_queue) = 0
      BY <1>5, <3>1, ChannelTypes DEF ToSet
    <3>2. CASE Len(data_queue) = 1
      <4>1. DOMAIN data_queue = {1} /\ data_queue[1] = Len(delivered) + 1
        BY <1>2, <3>2, ChannelTypes DEF Sequenced
      <4>2. ToSet(data_queue) = {Len(delivered) + 1}
        BY <4>1 DEF ToSet
      <4> QED BY <1>5, <3>2, <4>2, ChannelTypes
    <3> QED BY <1>5, <3>1, <3>2
  <2> QED BY <1>1, <1>2, <2>1
<1>7. ToSet(data_queue) \in SUBSET Values
  BY ChannelTypes DEF ToSet
<1>8. SwapInv' /\ TypeOK' /\ NoStaleResume' /\ Wakes' /\ CallsParked'
  <2>1. SwapInv'
    BY <1>4, SwapInvStable DEF ChannelInv, scriptVars
  <2> QED BY <1>1, <1>4, <2>1
          DEF ChannelInv, ChannelTypeOK, SwapInv, TypeOK, NoStaleResume, Wakes, CallsParked,
              scriptVars
<1>9. ChannelTypeOK'
  BY <1>1, <1>7, <1>8, ChannelTypes DEF ChannelTypeOK
<1>10. WaitersQueued'
  BY <1>1, <1>2, <1>4 DEF WaitersQueued, QueuesHoldWaiters
<1>11. Matched'
  BY <1>1, <1>3, <1>4 DEF Matched
<1>12. Past' <= pushed' /\ Len(producer_queue') = 0
  BY <1>1, <1>3, <1>5, ChannelTypes
<1>13. Sequenced'
  <2>1. \A i \in DOMAIN delivered' : delivered'[i] = i
    BY <1>1, <1>2 DEF Sequenced
  <2>2. DOMAIN data_queue' = {} /\ DOMAIN producer_queue' = {}
    BY <1>1, <1>3
  <2>3. op'[running'] = "none" /\ (\A x \in Contexts : op'[x] = "none")
    BY <1>1, <1>4
  <2>4. Past' + Len(producer_queue') <= pushed'
    BY <1>1, <1>5, <1>12, ChannelTypes
  <2>5. /\ dropped' = (Len(delivered') + 1)..pushed'
        /\ data_queue' = <<>> /\ producer_queue' = <<>> /\ destroyed'
    BY <1>1, <1>3, <1>6
  <2> QED BY <2>1, <2>2, <2>3, <2>4, <2>5 DEF Sequenced
<1> QED BY <1>8, <1>9, <1>10, <1>11, <1>13 DEF ChannelInv

\* push and pop, each way they can go.
LEMMA PushKeeps == ASSUME Timeouts = {FALSE}, ChannelInv, Push PROVE ChannelInv'
<1>1. /\ ScriptCode /\ UserCode /\ op[running] = "none" /\ ~ destroyed
      /\ pushed < MaxPush /\ pushed' = pushed + 1
      /\ UNCHANGED <<last_cid, stage, defer_tasks, user_yield_coros, destroyed>>
  BY DEF Push, ScriptCode
<1>2. pushed' \in 0..MaxPush /\ pushed' \in pushed..MaxPush /\ pushed + 1 \in Values
  BY <1>1, ChannelTypes, CoChannelAssumption DEF Values
<1>3. CASE ~ Full /\ Enqueue(pushed + 1)
  <2>1. Matched /\ Sequenced /\ fault = "none"
    BY <1>1 DEF ChannelInv, UserCode
  <2>2. data_queue = <<>>
    BY <1>3, <2>1, ChannelTypes, OnlyElement DEF Full, capacity, Matched
  <2>3. producer_queue = <<>>
    BY <1>1, <2>1, <2>2 DEF Matched
  <2>4. Past = Len(delivered) /\ Past + Len(producer_queue) = pushed
    BY <1>1, <2>1, <2>2, ChannelTypes DEF Past, Sequenced
  <2>5. pushed + 1 = Len(delivered) + 1 /\ pushed' = (pushed + 1) + Len(producer_queue)
    BY <1>1, <2>3, <2>4, ChannelTypes
  <2>6. \A i \in DOMAIN producer_queue : item[producer_queue[i]] = (pushed + 1) + i
    BY <2>3
  <2> QED BY <1>1, <1>2, <1>3, <2>2, <2>5, <2>6, EnqueueKeeps
<1>4. CASE Full /\ BlocksMain
  BY <1>1, <1>2, <1>4, MainDies
<1> QED BY <1>1, <1>3, <1>4, PushBlocks DEF Push

\* After a wake-up the second check of push and pop succeeds.
LEMMA PushWokenKeeps == ASSUME ChannelInv, PushWoken PROVE ChannelInv'
<1> DEFINE v == item[running]
<1>1. /\ UserCode /\ fault = "none" /\ op[running] = "push" /\ op[running] # "none"
      /\ UNCHANGED <<last_cid, stage, defer_tasks, user_yield_coros, pushed, destroyed>>
  BY DEF PushWoken, UserCode
<1>2. Matched /\ Sequenced
  BY DEF ChannelInv
<1>3. data_queue = <<>> /\ ~ destroyed
  BY <1>1, <1>2, ChannelTypes DEF Matched, Sequenced
<1>4. ~ Full /\ Enqueue(v)
  BY <1>3 DEF PushWoken, Full, capacity
<1>5. v = Past /\ Past = Len(delivered) + 1
  BY <1>1, <1>2, <1>3, ChannelTypes DEF Past, Sequenced
<1>6. v \in Values /\ v = Len(delivered) + 1
  BY <1>5, ChannelTypes DEF NoItem
<1>7. pushed' = v + Len(producer_queue)
      /\ \A i \in DOMAIN producer_queue : item[producer_queue[i]] = v + i
  BY <1>1, <1>2, <1>3, <1>5 DEF Sequenced
<1>8. pushed' \in 0..MaxPush
  BY <1>1, ChannelTypes
<1> HIDE DEF v
<1> QED BY <1>1, <1>3, <1>4, <1>6, <1>7, <1>8, EnqueueKeeps

LEMMA PopKeeps == ASSUME Timeouts = {FALSE}, ChannelInv, Pop PROVE ChannelInv'
<1>1. /\ ScriptCode /\ UserCode /\ op[running] = "none" /\ ~ destroyed
      /\ UNCHANGED <<last_cid, stage, defer_tasks, user_yield_coros, pushed, destroyed>>
  BY DEF Pop, ScriptCode
<1>2. CASE data_queue # <<>> /\ Dequeue
  BY <1>1, <1>2, DequeueKeeps
<1>3. CASE data_queue = <<>> /\ BlocksMain
  <2>1. pushed' \in pushed..MaxPush
    BY <1>1, ChannelTypes, CoChannelAssumption
  <2> QED BY <1>1, <1>3, <2>1, MainDies
<1> QED BY <1>1, <1>2, <1>3, PopBlocks DEF Pop

LEMMA PopWokenKeeps == ASSUME ChannelInv, PopWoken PROVE ChannelInv'
<1>1. /\ UserCode /\ op[running] = "pop" /\ op[running] # "none"
      /\ UNCHANGED <<last_cid, stage, defer_tasks, user_yield_coros, pushed, destroyed>>
  BY DEF PopWoken
<1>2. data_queue # <<>> /\ ~ destroyed
  BY <1>1, ChannelTypes DEF ChannelInv, Matched, Sequenced
<1>3. Dequeue
  BY <1>2 DEF PopWoken
<1> QED BY <1>1, <1>2, <1>3, DequeueKeeps

LEMMA ChannelStutters == ASSUME ChannelInv, UNCHANGED allVars PROVE ChannelInv'
<1>1. UNCHANGED <<vars, chanVars>>
  BY DEF allVars
<1>2. UNCHANGED <<swapVars, scriptVars, fault, running, ctx>>
  BY <1>1 DEF vars, swapVars
<1>3. SwapInv'
  BY <1>2, SwapInvStable DEF ChannelInv, scriptVars
<1>4. TypeOK' /\ NoStaleResume' /\ Wakes' /\ CallsParked'
  BY <1>1, <1>2, <1>3 DEF ChannelInv, ChannelTypeOK, SwapInv, TypeOK, NoStaleResume, Wakes,
                          CallsParked, scriptVars, chanVars
<1>5. ChannelTypeOK' /\ WaitersQueued' /\ Matched'
  BY <1>1, <1>2, <1>4 DEF ChannelInv, ChannelTypeOK, WaitersQueued, QueuesHoldWaiters, Matched,
                          chanVars
<1>6. Past' = Past
  BY <1>1, <1>2 DEF Past, chanVars
<1>7. Sequenced'
  BY <1>1, <1>2, <1>6 DEF ChannelInv, Sequenced, chanVars
<1> QED BY <1>3, <1>4, <1>5, <1>7 DEF ChannelInv

LEMMA ChannelInitInv == ChannelInit => ChannelInv
<1> SUFFICES ASSUME ChannelInit PROVE ChannelInv
  OBVIOUS
<1>1. Init /\ IInv
  BY InitInv DEF ChannelInit
<1>2. SwapInv /\ TypeOK /\ NoStaleResume
  BY <1>1 DEF IInv
<1>3. /\ fault = "none" /\ running = Main /\ running \in Contexts
      /\ \A co \in Cids : timers[co] = 0 /\ co \notin user_yield_coros /\ ctx[co] = "none"
  BY <1>1, CoroutineAssumption DEF Init, Contexts, Cids, Main
<1>4. /\ data_queue = <<>> /\ consumer_queue = <<>> /\ producer_queue = <<>>
      /\ delivered = <<>> /\ dropped = {} /\ destroyed = FALSE /\ pushed = 0
      /\ (\A x \in Contexts : op[x] = "none") /\ op[running] = "none" /\ Main \in Contexts
      /\ op \in [Contexts -> {"none", "push", "pop"}]
      /\ item \in [Contexts -> Values \union {NoItem}]
  BY <1>3, CoroutineAssumption DEF ChannelInit, Contexts
<1>5. ChannelTypeOK
  <2>1. /\ data_queue \in Seq(Values) /\ delivered \in Seq(Values)
        /\ consumer_queue \in Seq(Cids) /\ producer_queue \in Seq(Cids)
    BY <1>4
  <2>2. pushed \in 0..MaxPush /\ dropped \in SUBSET Values
    BY <1>4, CoChannelAssumption
  <2>3. destroyed \in BOOLEAN
    BY <1>4
  <2> QED BY <1>2, <1>4, <2>1, <2>2, <2>3 DEF ChannelTypeOK
<1>6. Wakes /\ CallsParked
  BY <1>3, <1>4 DEF Wakes, CallsParked, Cids, Contexts
<1>7. WaitersQueued
  BY <1>3, <1>4 DEF WaitersQueued, QueuesHoldWaiters, IsInjective, ToSet
<1>8. Matched
  BY <1>4 DEF Matched
<1>9. Past = 0
  BY <1>4 DEF Past
<1>10. Sequenced
  BY <1>4, <1>9 DEF Sequenced
<1> QED BY <1>2, <1>5, <1>6, <1>7, <1>8, <1>10 DEF ChannelInv

LEMMA ChannelNextInv ==
  ASSUME Timeouts = {FALSE}, ChannelInv, [ChannelNext]_allVars PROVE ChannelInv'
BY PushKeeps, PushWokenKeeps, PopKeeps, PopWokenKeeps, FreeObjectKeeps, SchedulerKeeps,
   ChannelStutters DEF ChannelNext

-----------------------------------------------------------------------------
(* What the invariant says of the channel's properties. *)

LEMMA ChannelInvHolds ==
  ASSUME Timeouts = {FALSE} PROVE ChannelSpec => []ChannelInv
<1>1. ChannelInv /\ [ChannelNext]_allVars => ChannelInv'
  BY ChannelNextInv
<1> QED BY <1>1, ChannelInitInv, PTL DEF ChannelSpec

LEMMA WaitsOnlyIfItMust == ChannelInv => NobodyWaitsInVain
<1> SUFFICES ASSUME ChannelInv, ScriptCode
             PROVE  /\ consumer_queue # <<>> => data_queue = <<>>
                    /\ producer_queue # <<>> => Full
  BY DEF NobodyWaitsInVain
<1>1. op[running] = "none" /\ Matched
  BY DEF ScriptCode, ChannelInv
<1>2. data_queue # <<>> => Full
  BY <1>1, ChannelTypes, OnlyElement DEF Matched, Full, capacity
<1> QED BY <1>1, <1>2 DEF Matched

LEMMA WokenToSucceed == ChannelInv => WokenSucceeds
BY DEF ChannelInv, Matched, WokenSucceeds, Full, capacity

LEMMA InOrder == ChannelInv => DeliveredInOrder
BY DEF ChannelInv, Sequenced, DeliveredInOrder

\* Without timeouts, every variable of a channel and of the scheduler keeps
\* its type (Channel::push, pop and free_object).
THEOREM ChannelTypesCorrect ==
  ASSUME Timeouts = {FALSE} PROVE ChannelSpec => []ChannelTypeOK
BY ChannelInvHolds, PTL DEF ChannelInv

\* Without timeouts, push, pop and the scheduler leave in each queue of
\* waiters exactly the coroutines that wait there, once each.
THEOREM QueuesExact ==
  ASSUME Timeouts = {FALSE} PROVE ChannelSpec => []WaitersQueued
BY ChannelInvHolds, PTL DEF ChannelInv

\* Without timeouts, no channel call and no sleep or resume between two of
\* them makes Coroutine::resume jump to a coroutine that is not parked.
THEOREM ChannelResumesParked ==
  ASSUME Timeouts = {FALSE} PROVE ChannelSpec => []NoStaleResume
BY ChannelInvHolds, PTL DEF ChannelInv

\* Without timeouts, no consumer waits while a value is queued and no producer
\* while there is room.
THEOREM WaitsNeeded ==
  ASSUME Timeouts = {FALSE} PROVE ChannelSpec => []NobodyWaitsInVain
BY ChannelInvHolds, WaitsOnlyIfItMust, PTL

\* Without timeouts, what follows yield in push and pop finds what it waited
\* for: nobody took it between the wake-up and the recheck.
THEOREM WakeupsSucceed ==
  ASSUME Timeouts = {FALSE} PROVE ChannelSpec => []WokenSucceeds
BY ChannelInvHolds, WokenToSucceed, PTL

\* Without timeouts, pop returns the values in the order push was called.
THEOREM DeliversInOrder ==
  ASSUME Timeouts = {FALSE} PROVE ChannelSpec => []DeliveredInOrder
BY ChannelInvHolds, InOrder, PTL

-----------------------------------------------------------------------------
(* Channels whose calls may have timeouts: an entry of a call that timed out *)
(* stays in its queue, and who is resumed from there may wait elsewhere, run *)
(* or have ended. *)

\* x holds a value exactly while it waits in push, and nobody else holds it.
HeldOnce ==
  /\ \A x \in Contexts : op[x] = "push" <=> item[x] # NoItem
  /\ \A x, y \in Contexts : op[x] = "push" /\ item[x] = item[y] => x = y

\* What holds with timeouts too, until a stale entry is resumed.
TimedInv ==
  /\ ChannelTypeOK
  /\ SwapInv
  /\ HeldOnce
  /\ EachValueOnce
  /\ NobodyForgotten

\* A resume that nobody vouches for finds its coroutine parked or kills the
\* process; a stack in use, ended or deleted is not touched.
LEMMA ResumeOrDie ==
  ASSUME NEW co \in Cids, SwapInv, UserCode, Resume(co), UNCHANGED last_cid
  PROVE  /\ SwapInv' /\ (fault' = "none" => fault = "none")
         /\ \A x \in Cids \ {co} : ctx'[x] = ctx[x]
         /\ ctx'[co] # "parked"
<1>1. CASE ctx[co] = "parked"
  <2>1. SwapInv' /\ ctx' = [ctx EXCEPT ![co] = "active"] /\ UNCHANGED fault
    BY <1>1, ResumeKeeps
  <2> QED BY <2>1 DEF SwapInv, SwapTypeOK, CtxStates
<1>2. CASE ctx[co] # "parked"
  <2>1. fault' = "stale_resume" /\ UNCHANGED swapVars
    BY <1>2 DEF Resume, Die
  <2>2. SwapInv'
    BY <2>1, SwapInvStable DEF Faults
  <2> QED BY <1>2, <2>1, <2>2 DEF swapVars
<1> QED BY <1>1, <1>2

\* Whoever parks in a step of the scheduler is the one that executes.
ParksItself == \A co \in Cids : ctx'[co] = "parked" => ctx[co] = "parked" \/ co = running

\* The scheduler's steps keep the stacks whatever timers are armed.
LEMMA SchedulerSwaps ==
  ASSUME SwapInv, TypeOK, Next
  PROVE  SwapInv' /\ TypeOK' /\ ParksItself /\ (fault' = "none" => fault = "none")
<1>a. ctx \in [Cids -> CtxStates] /\ timers \in [Cids -> Nat] /\ running \in Contexts
  BY DEF SwapInv, SwapTypeOK, TypeOK
<1>1. CASE SwapInReturns
  <2>1. UNCHANGED <<scriptVars, fault>>
        /\ \/ UNCHANGED ctx
           \/ \E co \in Cids : ctx[co] = "end" /\ ctx' = [ctx EXCEPT ![co] = "deleted"]
    BY <1>1 DEF SwapInReturns, SwapInv, SwapTypeOK, NoCallee, Cids, Contexts
  <2>2. SwapInv' /\ TypeOK'
    BY <1>1, <2>1, SwapInReturnsKeeps DEF SwapInv, TypeOK, scriptVars
  <2> QED BY <1>a, <2>1, <2>2 DEF ParksItself
<1>2. CASE Create
  <2> DEFINE c == last_cid + 1
  <2>1. /\ SwapInv' /\ c \in Cids
        /\ ctx' = [ctx EXCEPT ![c] = "active"]
        /\ UNCHANGED <<stage, defer_tasks, user_yield_coros, timers, fault>>
    BY <1>2, CreateKeeps DEF Create
  <2>2. TypeOK'
    BY <2>1 DEF SwapInv, TypeOK
  <2> HIDE DEF c
  <2> QED BY <1>a, <2>1, <2>2 DEF ParksItself
<1>3. CASE UserYield \/ Sleep
  <2>0. UserCode /\ UNCHANGED <<last_cid, stage, defer_tasks>>
    BY <1>3 DEF UserYield, Sleep
  <2>1. CASE current = Main
    <3>1. Die("no_current") /\ UNCHANGED <<user_yield_coros, timers>>
      BY <1>3, <2>1 DEF UserYield, Sleep
    <3>2. SwapInv'
      BY <2>0, <3>1, SwapInvStable DEF Die, Faults
    <3> QED BY <2>0, <3>1, <3>2 DEF SwapInv, TypeOK, Die, swapVars, ParksItself
  <2>2. CASE current # Main
    <3>1. Yield(current)
      BY <1>3, <2>2 DEF UserYield, Sleep
    <3>2. SwapInv' /\ ctx' = [ctx EXCEPT ![current] = "parked"] /\ UNCHANGED fault
      BY <2>0, <2>2, <3>1, YieldKeeps DEF Yield
    <3>3. current \in Cids /\ current = running
      BY <2>0, <2>2, CurrentActive DEF UserCode, SwapInv, StackCoherence
    <3>4. user_yield_coros' \in SUBSET Cids /\ timers' \in [Cids -> Nat]
      BY <1>3, <1>a, <3>3 DEF UserYield, Sleep, TypeOK
    <3>5. TypeOK'
      BY <2>0, <3>2, <3>4 DEF SwapInv, TypeOK
    <3> QED BY <1>a, <3>2, <3>3, <3>5 DEF ParksItself
  <2> QED BY <2>1, <2>2
<1>4. ASSUME NEW c \in Cids, UserResume(c) \/ SleepCall(c)
      PROVE  SwapInv' /\ TypeOK' /\ ParksItself /\ (fault' = "none" => fault = "none")
  <2>0. UserCode /\ Resume(c) /\ UNCHANGED <<last_cid, stage, defer_tasks>>
    BY <1>4 DEF UserResume, SleepCall
  <2>1. /\ SwapInv' /\ (fault' = "none" => fault = "none")
        /\ \A x \in Cids \ {c} : ctx'[x] = ctx[x]
        /\ ctx'[c] # "parked"
    BY <2>0, ResumeOrDie
  <2>2. user_yield_coros' \in SUBSET Cids /\ timers' \in [Cids -> Nat]
    BY <1>4, <1>a DEF UserResume, SleepCall, TypeOK
  <2>3. TypeOK'
    BY <2>0, <2>1, <2>2 DEF SwapInv, TypeOK
  <2> QED BY <1>a, <2>1, <2>3 DEF ParksItself
<1>7. CASE Defer \/ FunctionReturns \/ RunDeferred \/ Destructs
  <2>1. /\ UNCHANGED <<swapVars, last_cid, user_yield_coros, timers, fault>>
        /\ stage' \in [Cids -> Stages]
    BY <1>7 DEF Defer, FunctionReturns, RunDeferred, Destructs, InStage, Stages, TypeOK
  <2>2. SwapInv'
    BY <2>1, SwapInvStable
  <2>3. defer_tasks' \in [Contexts -> 0..MaxDefer]
    <3>1. defer_tasks[current] \in 0..MaxDefer /\ defer_tasks \in [Contexts -> 0..MaxDefer]
      BY DEF SwapInv, SwapTypeOK, TypeOK
    <3>2. CASE Defer
      <4>1. defer_tasks[current] + 1 \in 0..MaxDefer
        BY <3>1, <3>2, CoroutineAssumption DEF Defer
      <4> QED BY <3>1, <3>2, <4>1 DEF Defer
    <3>3. CASE FunctionReturns \/ Destructs
      BY <3>1, <3>3 DEF FunctionReturns, Destructs
    <3>4. CASE RunDeferred
      <4>1. defer_tasks[current] - 1 \in 0..MaxDefer
        BY <3>1, <3>4, CoroutineAssumption DEF RunDeferred, InStage
      <4> QED BY <3>1, <3>4, <4>1 DEF RunDeferred
    <3> QED BY <1>7, <3>2, <3>3, <3>4
  <2>4. TypeOK'
    BY <2>1, <2>2, <2>3 DEF SwapInv, TypeOK
  <2> QED BY <2>1, <2>2, <2>4 DEF ParksItself, swapVars
<1>8. CASE ContextEnds
  <2>1. SwapInv' /\ running \in Cids /\ ctx' = [ctx EXCEPT ![running] = "end"]
    BY <1>8, ContextEndsKeeps DEF TypeOK
  <2>2. UNCHANGED <<scriptVars, fault>>
    BY <1>8 DEF ContextEnds
  <2>3. TypeOK'
    BY <2>1, <2>2 DEF SwapInv, TypeOK, scriptVars
  <2> QED BY <1>a, <2>1, <2>2, <2>3 DEF ParksItself
<1> QED BY <1>1, <1>2, <1>3, <1>4, <1>7, <1>8 DEF Next, ScriptStep

-----------------------------------------------------------------------------
(* The values as sets: those seen, those held. *)

\* The values that blocked calls of push hold.
Held == {item[x] : x \in {y \in Contexts : op[y] = "push"}}

\* The values out of the senders' hands: those received, then those queued.
Seen == delivered \o data_queue

\* What a sequence contains when one element or another sequence is added.
LEMMA AppendContains ==
  ASSUME NEW S, NEW q \in Seq(S), NEW v \in S
  PROVE  /\ ToSet(Append(q, v)) = ToSet(q) \union {v}
         /\ IsInjective(q) /\ v \notin ToSet(q) => IsInjective(Append(q, v))
<1> DEFINE longer == Append(q, v)
<1>1. /\ Len(q) \in Nat /\ DOMAIN q = 1..Len(q) /\ DOMAIN longer = 1..(Len(q) + 1)
      /\ \A i \in 1..Len(q) : longer[i] = q[i]
      /\ longer[Len(q) + 1] = v
  BY AppendProperties
<1> HIDE DEF longer
<1>2. \A i \in DOMAIN longer : i \in DOMAIN q \/ i = Len(q) + 1
  BY <1>1
<1>3. ToSet(longer) = ToSet(q) \union {v}
  BY <1>1, <1>2 DEF ToSet
<1>4. ASSUME IsInjective(q), v \notin ToSet(q) PROVE IsInjective(longer)
  <2>1. \A i \in DOMAIN q : q[i] # v
    BY <1>4 DEF ToSet
  <2> QED BY <1>1, <1>2, <1>4, <2>1 DEF IsInjective
<1> QED BY <1>3, <1>4 DEF longer

LEMMA ConcatContains ==
  ASSUME NEW S, NEW d \in Seq(S), NEW q \in Seq(S)
  PROVE  /\ ToSet(d \o q) = ToSet(d) \union ToSet(q)
         /\ IsInjective(d \o q) => IsInjective(d) /\ ToSet(d) \intersect ToSet(q) = {}
<1> DEFINE both == d \o q
<1>1. /\ Len(d) \in Nat /\ Len(q) \in Nat /\ DOMAIN d = 1..Len(d) /\ DOMAIN q = 1..Len(q)
      /\ DOMAIN both = 1..(Len(d) + Len(q))
      /\ \A i \in 1..(Len(d) + Len(q)) : both[i] = IF i <= Len(d) THEN d[i] ELSE q[i - Len(d)]
  BY ConcatProperties
<1> HIDE DEF both
<1>2. \A i \in DOMAIN d : i \in DOMAIN both /\ both[i] = d[i]
  BY <1>1
<1>3. \A i \in DOMAIN q : i + Len(d) \in DOMAIN both /\ both[i + Len(d)] = q[i]
                          /\ i + Len(d) \notin DOMAIN d
  BY <1>1
<1>4. \A i \in DOMAIN both : \/ i \in DOMAIN d /\ both[i] = d[i]
                             \/ i - Len(d) \in DOMAIN q /\ both[i] = q[i - Len(d)]
  BY <1>1
<1>5. ToSet(both) = ToSet(d) \union ToSet(q)
  BY <1>2, <1>3, <1>4 DEF ToSet
<1>6. ASSUME IsInjective(both) PROVE IsInjective(d) /\ ToSet(d) \intersect ToSet(q) = {}
  <2>1. IsInjective(d)
    BY <1>2, <1>6 DEF IsInjective
  <2>2. \A i \in DOMAIN d, j \in DOMAIN q : d[i] # q[j]
    BY <1>2, <1>3, <1>6 DEF IsInjective
  <2> QED BY <2>1, <2>2 DEF ToSet
<1> QED BY <1>5, <1>6 DEF both

\* A push appends to what was seen; a pop only moves the border.
LEMMA SeenGrows ==
  ASSUME NEW S, NEW d \in Seq(S), NEW q \in Seq(S), NEW v \in S
  PROVE  d \o Append(q, v) = Append(d \o q, v)
<1>1. <<v>> \in Seq(S) /\ Append(q, v) = q \o <<v>>
  BY AppendIsConcat
<1>2. d \o q \in Seq(S) /\ Append(d \o q, v) = (d \o q) \o <<v>>
  BY ConcatProperties, AppendIsConcat
<1> QED BY <1>1, <1>2, ConcatAssociative

LEMMA SeenMoves ==
  ASSUME NEW S, NEW d \in Seq(S), NEW q \in Seq(S), q # <<>>
  PROVE  Append(d, Head(q)) \o Tail(q) = d \o q
<1> DEFINE h == Head(q)
           t == Tail(q)
<1>1. h \in S /\ t \in Seq(S) /\ Len(t) = Len(q) - 1 /\ q[1] = h
      /\ \A i \in 1..Len(t) : t[i] = q[i + 1]
  BY HeadTailProperties
<1>2. <<h>> \in Seq(S) /\ Append(d, h) = d \o <<h>>
  BY <1>1, AppendIsConcat
<1> HIDE DEF h, t
<1>3. <<h>> \o t = q
  <2>1. Len(q) \in Nat \ {0} /\ Len(<<h>>) = 1 /\ <<h>>[1] = h
    BY EmptySeq
  <2>2. /\ <<h>> \o t \in Seq(S) /\ Len(<<h>> \o t) = 1 + Len(t)
        /\ \A i \in 1..(1 + Len(t)) : (<<h>> \o t)[i] = IF i <= 1 THEN <<h>>[i] ELSE t[i - 1]
    BY <1>1, <1>2, <2>1, ConcatProperties
  <2>3. Len(<<h>> \o t) = Len(q)
    BY <1>1, <2>1, <2>2
  <2>4. \A i \in 1..Len(q) : (<<h>> \o t)[i] = q[i]
    <3> SUFFICES ASSUME NEW i \in 1..Len(q) PROVE (<<h>> \o t)[i] = q[i]
      OBVIOUS
    <3>1. CASE i = 1
      BY <1>1, <2>1, <2>2, <3>1
    <3>2. CASE i # 1
      <4>1. i - 1 \in 1..Len(t) /\ i \in 1..(1 + Len(t)) /\ ~ (i <= 1) /\ (i - 1) + 1 = i
        BY <1>1, <2>1, <3>2
      <4> QED BY <1>1, <2>2, <4>1
    <3> QED BY <3>1, <3>2
  <2> QED BY <2>2, <2>3, <2>4, SeqEqual
<1>4. (d \o <<h>>) \o t = d \o (<<h>> \o t)
  <2>1. t \in Seq(S) /\ <<h>> \in Seq(S)
    BY <1>1, <1>2
  <2> QED BY <2>1, ConcatAssociative
<1> QED BY <1>2, <1>3, <1>4 DEF h, t

\* The first of a queue is resumed, or the process dies; whoever waits behind
\* it still waits, and is still queued.
LEMMA WakeLeavesRest ==
  ASSUME SwapInv, UserCode, NEW queue \in Seq(Cids), WakeFirst(queue), UNCHANGED last_cid
  PROVE  /\ SwapInv' /\ (fault' = "none" => fault = "none")
         /\ \A co \in Cids : ctx'[co] = "parked" =>
              /\ ctx[co] = "parked"
              /\ co \in ToSet(queue)
                   => co \in ToSet(IF queue = <<>> THEN <<>> ELSE Tail(queue))
<1>1. CASE queue = <<>>
  <2>1. UNCHANGED <<swapVars, fault>>
    BY <1>1 DEF WakeFirst
  <2>2. SwapInv'
    BY <2>1, SwapInvStable
  <2> QED BY <1>1, <2>1, <2>2 DEF swapVars
<1>2. CASE queue # <<>>
  <2> DEFINE first == Head(queue)
             rest == Tail(queue)
  <2>1. Resume(first) /\ first = queue[1] /\ first \in Cids
    BY <1>2, TailShifts DEF WakeFirst
  <2>2. /\ \A i \in 1..Len(rest) : rest[i] = queue[i + 1]
        /\ Len(rest) = Len(queue) - 1 /\ Len(queue) \in Nat
        /\ DOMAIN queue = 1..Len(queue) /\ DOMAIN rest = 1..Len(rest)
    BY <1>2, TailShifts
  <2> HIDE DEF first, rest
  <2>3. /\ SwapInv' /\ (fault' = "none" => fault = "none")
        /\ \A x \in Cids \ {first} : ctx'[x] = ctx[x]
        /\ ctx'[first] # "parked"
    BY <2>1, ResumeOrDie
  <2>4. ASSUME NEW co \in ToSet(queue), co # first PROVE co \in ToSet(rest)
    <3>1. PICK i \in DOMAIN queue : queue[i] = co
      BY DEF ToSet
    <3>2. i # 1
      BY <2>1, <2>4, <3>1
    <3>3. i - 1 \in DOMAIN rest /\ (i - 1) + 1 = i
      BY <2>2, <3>2
    <3>4. rest[i - 1] = co
      BY <2>2, <3>1, <3>3
    <3> QED BY <3>3, <3>4 DEF ToSet
  <2> QED BY <1>2, <2>3, <2>4 DEF rest
<1> QED BY <1>1, <1>2

\* EachValueOnce in terms of the two.
LEMMA Placed ==
  EachValueOnce <=>
    /\ IsInjective(Seen)
    /\ fault = "none" => ToSet(Seen) \union dropped \union Held = 1..pushed
    /\ ToSet(Seen) \intersect (dropped \union Held) = {}
    /\ dropped \intersect Held = {}
BY DEF EachValueOnce, Seen, Held

LEMMA TimedTypes ==
  ASSUME TimedInv
  PROVE  /\ TypeOK /\ SwapInv /\ running \in Contexts /\ Cids \subseteq Contexts
         /\ ctx \in [Cids -> CtxStates] /\ timers \in [Cids -> Nat]
         /\ data_queue \in Seq(Values) /\ delivered \in Seq(Values) /\ Seen \in Seq(Values)
         /\ consumer_queue \in Seq(Cids) /\ producer_queue \in Seq(Cids)
         /\ op \in [Contexts -> {"none", "push", "pop"}]
         /\ item \in [Contexts -> Values \union {NoItem}]
         /\ pushed \in 0..MaxPush /\ pushed \in Nat
         /\ dropped \in SUBSET Values /\ destroyed \in BOOLEAN /\ NoItem \notin Values
<1>1. ChannelTypeOK /\ TypeOK /\ SwapTypeOK /\ SwapInv
  BY DEF TimedInv, ChannelTypeOK, TypeOK
<1>2. data_queue \in Seq(Values) /\ delivered \in Seq(Values)
  BY <1>1 DEF ChannelTypeOK
<1>3. Seen \in Seq(Values)
  BY <1>2, ConcatProperties DEF Seen
<1>4. Cids \subseteq Contexts /\ NoItem \notin Values
  BY CoroutineAssumption DEF Cids, Contexts, NoItem, Values
<1>5. /\ consumer_queue \in Seq(Cids) /\ producer_queue \in Seq(Cids)
      /\ op \in [Contexts -> {"none", "push", "pop"}]
      /\ item \in [Contexts -> Values \union {NoItem}]
      /\ dropped \in SUBSET Values /\ destroyed \in BOOLEAN
  BY <1>1 DEF ChannelTypeOK
<1>6. pushed \in 0..MaxPush /\ pushed \in Nat
  BY <1>1 DEF ChannelTypeOK
<1>7. running \in Contexts /\ ctx \in [Cids -> CtxStates] /\ timers \in [Cids -> Nat]
  BY <1>1 DEF TypeOK, SwapTypeOK
<1> QED BY <1>1, <1>2, <1>3, <1>4, <1>5, <1>6, <1>7

\* Nobody whom a step does not park, and whose queue keeps it, is forgotten.
LEMMA NobodyLeft ==
  ASSUME NobodyForgotten,
         \A co \in Cids : ctx'[co] = "parked" =>
           /\ ctx[co] = "parked"
           /\ op'[co] = "pop" => op[co] = "pop"
           /\ op'[co] = "push" => op[co] = "push"
           /\ co \in ToSet(consumer_queue) => co \in ToSet(consumer_queue')
           /\ co \in ToSet(producer_queue) => co \in ToSet(producer_queue')
  PROVE  NobodyForgotten'
BY DEF NobodyForgotten

\* push has room: the value it brings or has held goes to data_queue.
LEMMA EnqueueTimed ==
  ASSUME TimedInv, UserCode, NEW v \in Values, Enqueue(v),
         v \notin ToSet(Seen), v \notin dropped,
         \/ op[running] = "none" /\ v = pushed + 1 /\ v \notin Held
         \/ op[running] = "push" /\ v = item[running] /\ v \in 1..pushed,
         pushed' \in 0..MaxPush, 1..pushed' = (1..pushed) \union {v},
         UNCHANGED <<last_cid, stage, defer_tasks, user_yield_coros, destroyed>>
  PROVE  TimedInv'
<1>1. /\ data_queue' = Append(data_queue, v)
      /\ op' = [op EXCEPT ![running] = "none"]
      /\ item' = [item EXCEPT ![running] = NoItem]
      /\ consumer_queue' = IF consumer_queue = <<>> THEN <<>> ELSE Tail(consumer_queue)
      /\ WakeFirst(consumer_queue)
      /\ UNCHANGED <<producer_queue, dropped, delivered, timers>>
      /\ fault = "none"
  BY DEF Enqueue, WakeConsumer, UserCode
<1>2. HeldOnce /\ EachValueOnce /\ NobodyForgotten
  BY DEF TimedInv
<1>3. /\ SwapInv' /\ (fault' = "none" => fault = "none")
      /\ \A co \in Cids : ctx'[co] = "parked" =>
           /\ ctx[co] = "parked"
           /\ co \in ToSet(consumer_queue) => co \in ToSet(consumer_queue')
  BY <1>1, TimedTypes, WakeLeavesRest
<1>4. ChannelTypeOK'
  <2>1. TypeOK'
    BY <1>1, <1>3, TimedTypes DEF TypeOK, SwapInv
  <2>2. consumer_queue' \in Seq(Cids)
    BY <1>1, TimedTypes, TailShifts
  <2>3. data_queue' \in Seq(Values)
    BY <1>1, TimedTypes, AppendProperties
  <2> QED BY <1>1, <2>1, <2>2, <2>3, TimedTypes DEF ChannelTypeOK
<1>5. HeldOnce'
  BY <1>1, <1>2, TimedTypes DEF HeldOnce
<1>6. Held' = Held \ {v}
  <2>1. \A y \in Contexts : op'[y] = "push" <=> op[y] = "push" /\ y # running
    BY <1>1, TimedTypes
  <2>2. \A y \in Contexts : y # running => item'[y] = item[y]
    BY <1>1, TimedTypes
  <2>3. CASE op[running] = "none"
    BY <2>1, <2>2, <2>3 DEF Held
  <2>4. CASE op[running] = "push"
    <3>1. \A y \in Contexts : op[y] = "push" /\ y # running => item[y] # v
      BY <1>2, <2>4, TimedTypes DEF HeldOnce
    <3>2. \A y \in Contexts : op'[y] = "push" => item'[y] \in Held \ {v}
      BY <2>1, <2>2, <3>1 DEF Held
    <3>3. \A h \in Held \ {v} : \E y \in Contexts : op'[y] = "push" /\ item'[y] = h
      BY <2>1, <2>2, <2>4 DEF Held
    <3> QED BY <3>2, <3>3 DEF Held
  <2> QED BY <2>3, <2>4
<1>7. EachValueOnce'
  <2>0. delivered \o Append(data_queue, v) = Append(delivered \o data_queue, v)
    <3>1. delivered \in Seq(Values) /\ data_queue \in Seq(Values)
      BY TimedTypes
    <3> HIDE DEF Values
    <3> QED BY <3>1, SeenGrows
  <2>1. Seen' = Append(Seen, v)
    BY <1>1, <2>0 DEF Seen
  <2>2. ToSet(Seen') = ToSet(Seen) \union {v} /\ IsInjective(Seen')
    BY <1>2, <2>1, AppendContains, TimedTypes, Placed
  <2>3. ToSet(Seen) \union dropped \union Held = 1..pushed
    BY <1>1, <1>2, Placed
  <2> HIDE DEF Values
  <2>4. ToSet(Seen') \union dropped' \union Held' = 1..pushed'
    BY <1>1, <1>6, <2>2, <2>3
  <2>5. ToSet(Seen') \intersect (dropped' \union Held') = {} /\ dropped' \intersect Held' = {}
    BY <1>1, <1>2, <1>6, <2>2, Placed
  <2> QED BY <2>2, <2>4, <2>5 DEF EachValueOnce, Seen, Held
<1>8. NobodyForgotten'
  BY <1>1, <1>2, <1>3, NobodyLeft, TimedTypes
<1> QED BY <1>3, <1>4, <1>5, <1>7, <1>8 DEF TimedInv

\* pop has a value.
LEMMA DequeueTimed ==
  ASSUME TimedInv, UserCode, Dequeue, data_queue # <<>>,
         op[running] = "none" \/ op[running] = "pop",
         UNCHANGED <<last_cid, stage, defer_tasks, user_yield_coros, pushed, destroyed>>
  PROVE  TimedInv'
<1>1. /\ data_queue' = Tail(data_queue)
      /\ delivered' = Append(delivered, Head(data_queue))
      /\ op' = [op EXCEPT ![running] = "none"]
      /\ producer_queue' = IF producer_queue = <<>> THEN <<>> ELSE Tail(producer_queue)
      /\ WakeFirst(producer_queue)
      /\ UNCHANGED <<consumer_queue, item, dropped, timers>>
      /\ fault = "none"
  BY DEF Dequeue, TakeFront, WakeProducer, UserCode
<1>2. HeldOnce /\ EachValueOnce /\ NobodyForgotten
  BY DEF TimedInv
<1>3. /\ SwapInv' /\ (fault' = "none" => fault = "none")
      /\ \A co \in Cids : ctx'[co] = "parked" =>
           /\ ctx[co] = "parked"
           /\ co \in ToSet(producer_queue) => co \in ToSet(producer_queue')
  BY <1>1, TimedTypes, WakeLeavesRest
<1>4. ChannelTypeOK'
  <2>1. TypeOK'
    BY <1>1, <1>3, TimedTypes DEF TypeOK, SwapInv
  <2>2. producer_queue' \in Seq(Cids)
    BY <1>1, TimedTypes, TailShifts
  <2>3. data_queue' \in Seq(Values) /\ Head(data_queue) \in Values
    BY <1>1, TimedTypes, HeadTailProperties
  <2>4. delivered' \in Seq(Values)
    BY <1>1, <2>3, TimedTypes, AppendProperties
  <2> QED BY <1>1, <2>1, <2>2, <2>3, <2>4, TimedTypes DEF ChannelTypeOK
<1>5. \A y \in Contexts : op'[y] = "push" <=> op[y] = "push"
  BY <1>1, TimedTypes
<1>6. HeldOnce'
  BY <1>1, <1>2, <1>5 DEF HeldOnce
<1>7. Held' = Held
  BY <1>1, <1>5 DEF Held
<1>8. Seen' = Seen
  BY <1>1, SeenMoves, TimedTypes DEF Seen
<1>9. EachValueOnce'
  BY <1>1, <1>2, <1>7, <1>8, Placed DEF EachValueOnce, Seen, Held
<1>10. NobodyForgotten'
  BY <1>1, <1>2, <1>3, NobodyLeft, TimedTypes
<1> QED BY <1>3, <1>4, <1>6, <1>9, <1>10 DEF TimedInv

-----------------------------------------------------------------------------
(* The other steps of push and pop, and everything else. *)

\* A call that parks: its coroutine, the executing one, enters its queue.
LEMMA BlockTimed ==
  ASSUME TimedInv, UserCode, op[running] = "none", current # Main, Block, UNCHANGED last_cid
  PROVE  /\ SwapInv' /\ fault' = "none" /\ timers' \in [Cids -> Nat]
         /\ current = running /\ running \in Cids
         /\ ctx' = [ctx EXCEPT ![running] = "parked"]
<1>1. current = running /\ running \in Cids
  BY TimedTypes, CurrentActive DEF UserCode, SwapInv, StackCoherence
<1>2. SwapInv' /\ ctx' = [ctx EXCEPT ![running] = "parked"] /\ fault' = "none"
  BY <1>1, YieldKeeps, TimedTypes DEF Block, Yield, UserCode
<1>3. timers' \in [Cids -> Nat]
  BY <1>1, TimedTypes DEF Block
<1> QED BY <1>1, <1>2, <1>3

\* The caller is in its queue, and those in it before it still are.
LEMMA ForgetsNobodyBlocking ==
  ASSUME TimedInv, running \in Cids, NEW call \in {"push", "pop"},
         ctx' = [ctx EXCEPT ![running] = "parked"], op' = [op EXCEPT ![running] = call],
         \/ /\ call = "push" /\ producer_queue' = Append(producer_queue, running)
            /\ UNCHANGED consumer_queue
         \/ /\ call = "pop" /\ consumer_queue' = Append(consumer_queue, running)
            /\ UNCHANGED producer_queue
  PROVE  NobodyForgotten'
<1>1. ToSet(Append(producer_queue, running)) = ToSet(producer_queue) \union {running}
  BY AppendContains, TimedTypes
<1>2. ToSet(Append(consumer_queue, running)) = ToSet(consumer_queue) \union {running}
  BY AppendContains, TimedTypes
<1>3. NobodyForgotten
  BY DEF TimedInv
<1> QED BY <1>1, <1>2, <1>3, TimedTypes DEF NobodyForgotten

LEMMA PushBlocksTimed ==
  ASSUME TimedInv, UserCode, op[running] = "none", current # Main, pushed < MaxPush,
         pushed' = pushed + 1, Block,
         producer_queue' = Append(producer_queue, current),
         op' = [op EXCEPT ![running] = "push"],
         item' = [item EXCEPT ![running] = pushed + 1],
         UNCHANGED <<data_queue, consumer_queue, delivered, dropped, last_cid, stage,
                     defer_tasks, user_yield_coros, destroyed>>
  PROVE  TimedInv'
<1> DEFINE v == pushed + 1
<1>1. /\ SwapInv' /\ fault' = "none" /\ timers' \in [Cids -> Nat]
      /\ current = running /\ running \in Cids
      /\ ctx' = [ctx EXCEPT ![running] = "parked"]
  BY BlockTimed
<1>2. HeldOnce /\ EachValueOnce /\ fault = "none"
  BY DEF TimedInv, UserCode
<1>3. v \in Values /\ v \in Nat /\ v # NoItem /\ pushed' \in 0..MaxPush
      /\ 1..v = (1..pushed) \union {v} /\ v \notin 1..pushed
  BY TimedTypes, CoChannelAssumption DEF Values, NoItem
<1>4. ToSet(Seen) \union dropped \union Held = 1..pushed
  BY <1>2, Placed
<1>5. pushed' = v /\ item' = [item EXCEPT ![running] = v]
  OBVIOUS
<1> HIDE DEF v
<1>6. ChannelTypeOK'
  <2>1. TypeOK'
    BY <1>1, TimedTypes DEF TypeOK, SwapInv
  <2>2. producer_queue' \in Seq(Cids)
    BY <1>1, AppendProperties, TimedTypes
  <2> QED BY <1>3, <1>5, <2>1, <2>2, TimedTypes DEF ChannelTypeOK
<1>7. \A y \in Contexts : op[y] = "push" => item[y] # v
  BY <1>3, <1>4 DEF Held
<1>8. HeldOnce'
  <2>1. \A y \in Contexts : /\ op'[y] = "push" <=> op[y] = "push" \/ y = running
                            /\ item'[y] = IF y = running THEN v ELSE item[y]
    BY <1>5, TimedTypes
  <2> QED BY <1>2, <1>3, <1>7, <2>1 DEF HeldOnce
<1>9. Held' = Held \union {v}
  <2>1. \A y \in Contexts : /\ op'[y] = "push" <=> op[y] = "push" \/ y = running
                            /\ item'[y] = IF y = running THEN v ELSE item[y]
    BY <1>5, TimedTypes
  <2>2. \A y \in Contexts : op'[y] = "push" => item'[y] \in Held \union {v}
    BY <2>1 DEF Held
  <2>3. \A h \in Held \union {v} : \E y \in Contexts : op'[y] = "push" /\ item'[y] = h
    BY <2>1, TimedTypes DEF Held
  <2> QED BY <2>2, <2>3 DEF Held
<1>10. EachValueOnce'
  <2>1. Seen' = Seen /\ dropped' = dropped
    BY DEF Seen
  <2>2. v \notin ToSet(Seen) /\ v \notin dropped
    BY <1>3, <1>4
  <2>3. ToSet(Seen') \union dropped' \union Held' = 1..pushed'
    BY <1>3, <1>4, <1>5, <1>9, <2>1
  <2>4. ToSet(Seen') \intersect (dropped' \union Held') = {} /\ dropped' \intersect Held' = {}
    BY <1>2, <1>9, <2>1, <2>2, Placed
  <2>5. IsInjective(Seen')
    BY <1>2, <2>1, Placed
  <2> QED BY <2>3, <2>4, <2>5 DEF EachValueOnce, Seen, Held
<1>11. NobodyForgotten'
  BY <1>1, ForgetsNobodyBlocking
<1> QED BY <1>1, <1>6, <1>8, <1>10, <1>11 DEF TimedInv

LEMMA PopBlocksTimed ==
  ASSUME TimedInv, UserCode, op[running] = "none", current # Main, Block,
         consumer_queue' = Append(consumer_queue, current),
         op' = [op EXCEPT ![running] = "pop"],
         UNCHANGED <<data_queue, producer_queue, item, delivered, dropped, last_cid, stage,
                     defer_tasks, user_yield_coros, pushed, destroyed>>
  PROVE  TimedInv'
<1>1. /\ SwapInv' /\ fault' = "none" /\ timers' \in [Cids -> Nat]
      /\ current = running /\ running \in Cids
      /\ ctx' = [ctx EXCEPT ![running] = "parked"]
  BY BlockTimed
<1>2. HeldOnce /\ EachValueOnce /\ fault = "none"
  BY DEF TimedInv, UserCode
<1>3. ChannelTypeOK'
  <2>1. TypeOK'
    BY <1>1, TimedTypes DEF TypeOK, SwapInv
  <2>2. consumer_queue' \in Seq(Cids)
    BY <1>1, AppendProperties, TimedTypes
  <2> QED BY <2>1, <2>2, TimedTypes DEF ChannelTypeOK
<1>4. \A y \in Contexts : op'[y] = "push" <=> op[y] = "push"
  BY TimedTypes
<1>5. HeldOnce'
  BY <1>2, <1>4 DEF HeldOnce
<1>6. Seen' = Seen /\ Held' = Held
  BY <1>4 DEF Seen, Held
<1>7. EachValueOnce'
  BY <1>1, <1>2, <1>6, Placed DEF EachValueOnce, Seen, Held
<1>8. NobodyForgotten'
  BY <1>1, ForgetsNobodyBlocking
<1> QED BY <1>1, <1>3, <1>5, <1>7, <1>8 DEF TimedInv

\* A step that leaves the queues and the stacks as they are.
LEMMA StacksUntouched ==
  ASSUME TimedInv, UNCHANGED <<swapVars, scriptVars, consumer_queue, producer_queue>>,
         fault' = fault \/ fault' \in Faults \ {"none"},
         \A co \in Cids : /\ op'[co] = "pop" => op[co] = "pop"
                          /\ op'[co] = "push" => op[co] = "push"
  PROVE  SwapInv' /\ TypeOK' /\ NobodyForgotten'
<1>1. SwapInv'
  BY SwapInvStable, TimedTypes DEF scriptVars
<1>2. TypeOK'
  BY <1>1, TimedTypes DEF TypeOK, SwapInv, scriptVars
<1>3. NobodyForgotten'
  BY NobodyLeft DEF TimedInv, swapVars
<1> QED BY <1>1, <1>2, <1>3

\* A push woken by its timer gives its value back.
LEMMA PushGivesUp ==
  ASSUME TimedInv, UserCode, op[running] = "push",
         op' = [op EXCEPT ![running] = "none"],
         item' = [item EXCEPT ![running] = NoItem],
         dropped' = dropped \union {item[running]},
         UNCHANGED <<data_queue, consumer_queue, producer_queue, delivered, swapVars, timers,
                     fault, last_cid, stage, defer_tasks, user_yield_coros, pushed,
                     destroyed>>
  PROVE  TimedInv'
<1> DEFINE v == item[running]
<1>1. HeldOnce /\ EachValueOnce /\ v \in Held /\ v \in Values
  BY TimedTypes DEF TimedInv, Held, HeldOnce
<1>2. SwapInv' /\ TypeOK' /\ NobodyForgotten'
  BY StacksUntouched, TimedTypes DEF scriptVars
<1>3. ChannelTypeOK'
  BY <1>1, <1>2, TimedTypes DEF ChannelTypeOK
<1>4. \A y \in Contexts : /\ op'[y] = "push" <=> op[y] = "push" /\ y # running
                          /\ item'[y] = IF y = running THEN NoItem ELSE item[y]
  BY TimedTypes
<1>5. HeldOnce'
  BY <1>1, <1>4 DEF HeldOnce
<1>6. \A y \in Contexts : op[y] = "push" /\ y # running => item[y] # v
  BY <1>1, TimedTypes DEF HeldOnce
<1>7. dropped' = dropped \union {v} /\ Seen' = Seen
  BY DEF Seen
<1> HIDE DEF v
<1>8. Held' = Held \ {v}
  <2>1. \A y \in Contexts : op'[y] = "push" => item'[y] \in Held \ {v}
    BY <1>4, <1>6 DEF Held
  <2>2. \A h \in Held \ {v} : \E y \in Contexts : op'[y] = "push" /\ item'[y] = h
    BY <1>4 DEF Held, v
  <2> QED BY <2>1, <2>2 DEF Held
<1>9. EachValueOnce'
  BY <1>1, <1>7, <1>8, Placed DEF EachValueOnce, Seen, Held
<1> QED BY <1>2, <1>3, <1>5, <1>9 DEF TimedInv

\* A pop woken by its timer has nothing to give back.
LEMMA PopGivesUp ==
  ASSUME TimedInv, UserCode, op[running] = "pop",
         op' = [op EXCEPT ![running] = "none"],
         UNCHANGED <<data_queue, consumer_queue, producer_queue, item, delivered, dropped,
                     swapVars, timers, fault, last_cid, stage, defer_tasks,
                     user_yield_coros, pushed, destroyed>>
  PROVE  TimedInv'
<1>1. HeldOnce /\ EachValueOnce
  BY DEF TimedInv
<1>2. SwapInv' /\ TypeOK' /\ NobodyForgotten'
  BY StacksUntouched, TimedTypes DEF scriptVars
<1>3. ChannelTypeOK'
  BY <1>2, TimedTypes DEF ChannelTypeOK
<1>4. \A y \in Contexts : op'[y] = "push" <=> op[y] = "push"
  BY TimedTypes
<1>5. HeldOnce' /\ Held' = Held /\ Seen' = Seen
  BY <1>1, <1>4 DEF HeldOnce, Held, Seen
<1>6. EachValueOnce'
  BY <1>1, <1>5, Placed DEF EachValueOnce, Seen, Held
<1> QED BY <1>2, <1>3, <1>5, <1>6 DEF TimedInv

\* A call that would have to wait outside every coroutine kills the process:
\* the value of a push is lost with it.
LEMMA MainDiesTimed ==
  ASSUME TimedInv, BlocksMain, pushed' \in pushed..MaxPush,
         UNCHANGED <<last_cid, stage, defer_tasks, user_yield_coros, destroyed>>
  PROVE  TimedInv'
<1>1. /\ UNCHANGED <<data_queue, consumer_queue, producer_queue, op, item, delivered, dropped>>
      /\ UNCHANGED <<swapVars, scriptVars>> /\ fault' = "no_current"
  BY DEF BlocksMain, Die, scriptVars
<1>2. HeldOnce /\ EachValueOnce
  BY DEF TimedInv
<1>3. SwapInv' /\ TypeOK' /\ NobodyForgotten'
  BY <1>1, StacksUntouched DEF Faults
<1>4. pushed' \in 0..MaxPush
  BY TimedTypes
<1>5. ChannelTypeOK'
  BY <1>1, <1>3, <1>4, TimedTypes DEF ChannelTypeOK
<1>6. HeldOnce' /\ Held' = Held /\ Seen' = Seen
  BY <1>1, <1>2 DEF HeldOnce, Held, Seen
<1>7. EachValueOnce'
  BY <1>1, <1>2, <1>6, Placed DEF EachValueOnce, Seen, Held
<1> QED BY <1>3, <1>5, <1>6, <1>7 DEF TimedInv

\* free_object: what is queued is given back, and nobody holds anything.
LEMMA FreeObjectTimed == ASSUME TimedInv, FreeObject PROVE TimedInv'
<1>1. /\ UNCHANGED <<consumer_queue, producer_queue, op, item, pushed, delivered>>
      /\ UNCHANGED <<swapVars, scriptVars, fault>> /\ destroyed' = TRUE
      /\ dropped' = dropped \union ToSet(data_queue) /\ data_queue' = <<>>
  BY DEF FreeObject, vars
<1>2. HeldOnce /\ EachValueOnce
  BY DEF TimedInv
<1>3. SwapInv' /\ TypeOK' /\ NobodyForgotten'
  BY <1>1, StacksUntouched
<1>4. ToSet(data_queue) \in SUBSET Values /\ data_queue' \in Seq(Values)
  BY <1>1, TimedTypes DEF ToSet
<1>5. ChannelTypeOK'
  BY <1>1, <1>3, <1>4, TimedTypes DEF ChannelTypeOK
<1>6. HeldOnce' /\ Held' = Held
  BY <1>1, <1>2 DEF HeldOnce, Held
<1>7. Seen' = delivered
  <2>1. delivered \in Seq(Values)
    BY TimedTypes
  <2>2. delivered \o <<>> = delivered
    BY <2>1, ConcatEmptySeq
  <2> QED BY <1>1, <2>2 DEF Seen
<1>8. /\ ToSet(Seen) = ToSet(delivered) \union ToSet(data_queue)
      /\ IsInjective(delivered) /\ ToSet(delivered) \intersect ToSet(data_queue) = {}
  <2>1. delivered \in Seq(Values) /\ data_queue \in Seq(Values) /\ IsInjective(Seen)
    BY <1>2, Placed, TimedTypes
  <2> HIDE DEF Values
  <2> QED BY <2>1, ConcatContains DEF Seen
<1>9. EachValueOnce'
  <2>1. fault' = "none" => ToSet(Seen') \union dropped' \union Held' = 1..pushed'
    BY <1>1, <1>2, <1>6, <1>7, <1>8, Placed
  <2>2. ToSet(Seen') \intersect (dropped' \union Held') = {} /\ dropped' \intersect Held' = {}
    BY <1>1, <1>2, <1>6, <1>7, <1>8, Placed
  <2> QED BY <1>7, <1>8, <2>1, <2>2 DEF EachValueOnce, Seen, Held
<1> QED BY <1>3, <1>5, <1>6, <1>9 DEF TimedInv

\* The scheduler parks nobody but the stack that executes, which is in no call.
LEMMA SchedulerTimed ==
  ASSUME TimedInv, op[running] = "none", Next, UNCHANGED chanVars
  PROVE  TimedInv'
<1>1. UNCHANGED <<data_queue, consumer_queue, producer_queue, op, item, pushed,
                  delivered, dropped, destroyed>>
  BY DEF chanVars
<1>2. SwapInv' /\ TypeOK' /\ ParksItself /\ (fault' = "none" => fault = "none")
  BY SchedulerSwaps, TimedTypes
<1>3. HeldOnce /\ EachValueOnce /\ NobodyForgotten
  BY DEF TimedInv
<1>4. ChannelTypeOK'
  BY <1>1, <1>2, TimedTypes DEF ChannelTypeOK
<1>5. HeldOnce' /\ Held' = Held /\ Seen' = Seen
  BY <1>1, <1>3 DEF HeldOnce, Held, Seen
<1>6. EachValueOnce'
  BY <1>1, <1>2, <1>3, <1>5, Placed DEF EachValueOnce, Seen, Held
<1>7. NobodyForgotten'
  BY <1>1, <1>2, <1>3 DEF NobodyForgotten, ParksItself
<1> QED BY <1>2, <1>4, <1>5, <1>6, <1>7 DEF TimedInv

LEMMA PushTimed == ASSUME TimedInv, Push PROVE TimedInv'
<1>1. /\ UserCode /\ op[running] = "none" /\ pushed < MaxPush /\ pushed' = pushed + 1
      /\ UNCHANGED <<last_cid, stage, defer_tasks, user_yield_coros, destroyed>>
  BY DEF Push, ScriptCode
<1>2. /\ pushed + 1 \in Values /\ pushed' \in 0..MaxPush /\ pushed' \in pushed..MaxPush
      /\ 1..pushed' = (1..pushed) \union {pushed + 1} /\ pushed + 1 \notin 1..pushed
  <2>1. pushed \in Nat /\ MaxPush \in Nat
    BY TimedTypes, CoChannelAssumption
  <2>2. pushed + 1 \in Values /\ pushed' \in 0..MaxPush /\ pushed' \in pushed..MaxPush
    BY <1>1, <2>1 DEF Values
  <2>3. 1..pushed' = (1..pushed) \union {pushed + 1} /\ pushed + 1 \notin 1..pushed
    BY <1>1, <2>1
  <2> QED BY <2>2, <2>3
<1>3. CASE Enqueue(pushed + 1)
  <2>1. ToSet(Seen) \union dropped \union Held = 1..pushed
    BY <1>1, Placed DEF TimedInv, UserCode
  <2> QED BY <1>1, <1>2, <1>3, <2>1, EnqueueTimed
<1>4. CASE BlocksMain
  BY <1>1, <1>2, <1>4, MainDiesTimed
<1>5. CASE /\ current # Main
           /\ producer_queue' = Append(producer_queue, current)
           /\ op' = [op EXCEPT ![running] = "push"]
           /\ item' = [item EXCEPT ![running] = pushed + 1]
           /\ Block
           /\ UNCHANGED <<data_queue, consumer_queue, delivered, dropped>>
  BY <1>1, <1>5, PushBlocksTimed
<1> QED BY <1>3, <1>4, <1>5 DEF Push

LEMMA PushWokenTimed == ASSUME TimedInv, PushWoken PROVE TimedInv'
<1>1. /\ UserCode /\ op[running] = "push" /\ fault = "none"
      /\ UNCHANGED <<last_cid, stage, defer_tasks, user_yield_coros, pushed, destroyed>>
  BY DEF PushWoken, UserCode
<1>2. CASE Enqueue(item[running])
  <2>1. item[running] \in Held /\ item[running] \in Values
    BY <1>1, TimedTypes DEF TimedInv, Held, HeldOnce
  <2>2. item[running] \in 1..pushed /\ item[running] \notin ToSet(Seen)
        /\ item[running] \notin dropped
    BY <1>1, <2>1, Placed DEF TimedInv
  <2>3. pushed' \in 0..MaxPush /\ 1..pushed' = (1..pushed) \union {item[running]}
    BY <1>1, <2>2, TimedTypes
  <2> QED BY <1>1, <1>2, <2>1, <2>2, <2>3, EnqueueTimed
<1>3. CASE /\ op' = [op EXCEPT ![running] = "none"]
           /\ item' = [item EXCEPT ![running] = NoItem]
           /\ dropped' = dropped \union {item[running]}
           /\ UNCHANGED <<data_queue, consumer_queue, producer_queue, delivered,
                          swapVars, timers, fault>>
  BY <1>1, <1>3, PushGivesUp
<1> QED BY <1>2, <1>3 DEF PushWoken

LEMMA PopTimed == ASSUME TimedInv, Pop PROVE TimedInv'
<1>1. /\ UserCode /\ op[running] = "none"
      /\ UNCHANGED <<last_cid, stage, defer_tasks, user_yield_coros, pushed, destroyed>>
  BY DEF Pop, ScriptCode
<1>2. CASE data_queue # <<>> /\ Dequeue
  BY <1>1, <1>2, DequeueTimed
<1>3. CASE BlocksMain
  <2>1. pushed' \in pushed..MaxPush
    BY <1>1, TimedTypes, CoChannelAssumption
  <2> QED BY <1>1, <1>3, <2>1, MainDiesTimed
<1>4. CASE /\ current # Main
           /\ consumer_queue' = Append(consumer_queue, current)
           /\ op' = [op EXCEPT ![running] = "pop"]
           /\ Block
           /\ UNCHANGED <<data_queue, producer_queue, item, delivered, dropped>>
  BY <1>1, <1>4, PopBlocksTimed
<1> QED BY <1>2, <1>3, <1>4 DEF Pop

LEMMA PopWokenTimed == ASSUME TimedInv, PopWoken PROVE TimedInv'
<1>1. /\ UserCode /\ op[running] = "pop"
      /\ UNCHANGED <<last_cid, stage, defer_tasks, user_yield_coros, pushed, destroyed>>
  BY DEF PopWoken
<1>2. CASE data_queue # <<>> /\ Dequeue
  BY <1>1, <1>2, DequeueTimed
<1>3. CASE /\ op' = [op EXCEPT ![running] = "none"]
           /\ UNCHANGED <<data_queue, consumer_queue, producer_queue, item, delivered,
                          dropped, swapVars, timers, fault>>
  BY <1>1, <1>3, PopGivesUp
<1> QED BY <1>2, <1>3 DEF PopWoken

LEMMA TimedStutters == ASSUME TimedInv, UNCHANGED allVars PROVE TimedInv'
<1>1. UNCHANGED <<data_queue, consumer_queue, producer_queue, op, item, pushed,
                  delivered, dropped, destroyed, swapVars, scriptVars, fault>>
  BY DEF allVars, chanVars, vars
<1>2. HeldOnce /\ EachValueOnce
  BY DEF TimedInv
<1>3. SwapInv' /\ TypeOK' /\ NobodyForgotten'
  BY <1>1, StacksUntouched
<1>4. ChannelTypeOK'
  BY <1>1, <1>3, TimedTypes DEF ChannelTypeOK
<1>5. HeldOnce' /\ Held' = Held /\ Seen' = Seen
  BY <1>1, <1>2 DEF HeldOnce, Held, Seen
<1>6. EachValueOnce'
  BY <1>1, <1>2, <1>5, Placed DEF EachValueOnce, Seen, Held
<1> QED BY <1>3, <1>4, <1>5, <1>6 DEF TimedInv

LEMMA TimedInit == ASSUME ChannelInit PROVE TimedInv
<1>1. ChannelInv
  BY ChannelInitInv
<1>2. ChannelTypeOK /\ SwapInv
  BY <1>1 DEF ChannelInv
<1>3. /\ data_queue = <<>> /\ delivered = <<>> /\ dropped = {} /\ pushed = 0
      /\ op = [x \in Contexts |-> "none"] /\ item = [x \in Contexts |-> NoItem]
      /\ ctx = [c \in Cids |-> "none"]
  BY DEF ChannelInit, Init
<1>4. HeldOnce /\ NobodyForgotten
  BY <1>3 DEF HeldOnce, NobodyForgotten
<1>5. Held = {}
  BY <1>3 DEF Held
<1>6. Seen = <<>>
  BY <1>3, ConcatEmptySeq, EmptySeq DEF Seen
<1>7. ToSet(Seen) = {} /\ IsInjective(Seen)
  BY <1>6 DEF ToSet, IsInjective
<1>8. 1..pushed = {}
  BY <1>3
<1>9. EachValueOnce
  BY <1>3, <1>5, <1>7, <1>8, Placed
<1> QED BY <1>2, <1>4, <1>9 DEF TimedInv

LEMMA TimedInvHolds == ChannelSpec => []TimedInv
<1>1. TimedInv /\ [ChannelNext]_allVars => TimedInv'
  BY PushTimed, PushWokenTimed, PopTimed, PopWokenTimed, FreeObjectTimed, SchedulerTimed,
     TimedStutters DEF ChannelNext
<1> QED BY <1>1, TimedInit, PTL DEF ChannelSpec

\* With timeouts and without, whatever is resumed when, every value pushed is
\* received, queued, held by a blocked push, given back or freed, and in one
\* of these places only (Channel::push, pop and free_object).
THEOREM NoValueLostOrDoubled == ChannelSpec => []EachValueOnce
BY TimedInvHolds, PTL DEF TimedInv

\* With timeouts and without, whoever is parked in push or pop is in the queue
\* of that call, behind however many entries that timed out.
THEOREM WaitersStayQueued == ChannelSpec => []NobodyForgotten
BY TimedInvHolds, PTL DEF TimedInv

\* Channel calls with timeouts keep C stack, scheduler and PHP stack together,
\* and what closing frees exact, up to the stale resume that kills the process.
THEOREM TimeoutsKeepStacks == ChannelSpec => [](StackCoherence /\ ClosedExactly)
BY TimedInvHolds, PTL DEF TimedInv, SwapInv

=============================================================================
