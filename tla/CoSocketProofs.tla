---------------------------- MODULE CoSocketProofs ----------------------------
(***************************************************************************)
(* Proofs about sockets and the event loop, for any number of coroutines,  *)
(* sockets and descriptors.                                                *)
(*                                                                         *)
(* The loop holds numbers: events of an epoll_wait that is over, and in    *)
(* epoll the ids of coroutines.  They are right because each belongs to a  *)
(* call that is parked, and because nobody else can end that call.         *)
(***************************************************************************)
EXTENDS CoSocket, CoroutineProofs, Minimum, FiniteSetTheorems

\* A coroutine parked outside wait_event has one timer or one entry in
\* user_yield_coros; any other coroutine has neither.
Wakes ==
  \A co \in Cids :
    timers[co] + (IF co \in user_yield_coros THEN 1 ELSE 0)
      = IF ctx[co] = "parked" /\ ~ Waiting(co) THEN 1 ELSE 0

\* In wait_event a coroutine is parked, unless the loop just resumed it, which
\* it does only for one that epoll knows of.
CallsParked ==
  /\ ~ Waiting(Main)
  /\ \A co \in Cids : Waiting(co) => ctx[co] = "parked" \/ co = running
  /\ Waiting(running) => waits[running].added

\* The scheduler's part: it does not depend on descriptors.
Schedule ==
  /\ TypeOK
  /\ SwapInv
  /\ NoStaleResume
  /\ Wakes
  /\ CallsParked

\* No two objects name the same descriptor, and what they name is open.
DescriptorsKept ==
  /\ \A s \in Sockets : socket[s] \in Fds => fdstate[socket[s]] # "closed"
  /\ \A s, t \in Sockets : socket[s] \in Fds /\ socket[s] = socket[t] => s = t

\* A call keeps its object, though not its descriptor.
CallsOnSockets ==
  \A x \in Contexts : Waiting(x) => socket[waits[x].sock] \in Fds \union {LIB_BAD_SOCKET}

\* What epoll watches, it watches for a call that waits for it.
WatchesWaiters ==
  \A fd \in Fds : registered[fd] # NoRegistration =>
    LET w == waits[registered[fd].cid] IN
    /\ Waiting(registered[fd].cid) /\ w.added
    /\ socket[w.sock] = fd

\* Nobody waits uncounted: event_wait does not return under a waiting call.
Counted == event_num = 0 => \A x \in Contexts : ~ Waiting(x)

\* The sockets' part: it does not depend on who executes.
Polled ==
  /\ SocketTypeOK
  /\ DescriptorsKept
  /\ CallsOnSockets
  /\ WatchesWaiters
  /\ WaitersRegistered
  /\ Counted

\* i is the event of a coroutine parked in a wait that epoll knows of.
Intact(i) ==
  \E fd \in Fds, id \in Cids :
    /\ events[i] = touint64(fd, id)
    /\ Waiting(id) /\ waits[id].added /\ ctx[id] = "parked"
    /\ socket[waits[id].sock] \in {fd, LIB_BAD_SOCKET}

\* Of the events not yet dispatched, each is intact and has a coroutine of its
\* own.  Slot 1 is dispatched before any coroutine runs that could write to it.
Pending ==
  /\ events \in [DOMAIN events -> Nat]
  /\ events # << >> => phase = "handle"
  /\ 1 \in DOMAIN events => running = Main /\ callee[Main] = NoCallee
  /\ \A i \in DOMAIN events : Intact(i)
  /\ \A i, j \in DOMAIN events :
       i # j => fromuint64(events[i]).id # fromuint64(events[j]).id

SocketInv == Schedule /\ Polled /\ Pending

\* Every open descriptor has an object.
Owned == \A fd \in Fds : fdstate[fd] # "closed" => \E s \in Sockets : socket[s] = fd

-----------------------------------------------------------------------------
(* Words, descriptors and the parts of the invariant. *)

LEMMA ContextsSplit == Contexts = Cids \union {Main} /\ Main \notin Cids
BY CoroutineAssumption DEF Contexts, Cids, Main

\* The descriptor and the coroutine come out of the word as they went in.
LEMMA WordsRoundTrip ==
  ASSUME NEW fd \in Fds, NEW id \in Cids
  PROVE  /\ touint64(fd, id) \in Nat
         /\ fromuint64(touint64(fd, id)) = [fd |-> fd, id |-> id]
<1>1. fd \in Nat /\ id \in Nat /\ HalfWord \in Nat /\ id < HalfWord
  BY CoSocketAssumption, CoroutineAssumption DEF Fds, Cids
<1>2. (fd * HalfWord + id) % HalfWord = id
  BY <1>1
<1>3. (fd * HalfWord + id) \div HalfWord = fd
  BY <1>1
<1> QED BY <1>1, <1>2, <1>3 DEF touint64, fromuint64

\* The kernel hands out a descriptor that is closed, or none.
LEMMA NewFdIsFree == NewFd = BadFd \/ (NewFd \in Fds /\ fdstate[NewFd] = "closed")
<1> DEFINE free == {fd \in Fds : fdstate[fd] = "closed"}
<1>1. free \in SUBSET Nat
  BY DEF Fds
<1>2. free # {} => Min(free) \in free
  BY <1>1, MinIsLeast
<1> QED BY <1>2 DEF NewFd

LEMMA BadValues ==
  BadFd \notin Fds /\ LIB_BAD_SOCKET \notin Fds /\ NoSocket \notin Fds
  /\ BadFd # NoSocket /\ LIB_BAD_SOCKET # NoSocket /\ LIB_BAD_SOCKET # BadFd
BY CoSocketAssumption DEF Fds, BadFd, LIB_BAD_SOCKET, NoSocket

\* A call in progress has its name and its object.
LEMMA WaitsTyped ==
  ASSUME SocketTypeOK, NEW x \in Contexts, Waiting(x)
  PROVE  /\ waits[x] \in [call : Calls, sock : Sockets, added : BOOLEAN]
         /\ waits[x].call \in Calls /\ waits[x].sock \in Sockets /\ waits[x].added \in BOOLEAN
BY DEF SocketTypeOK, Waiting

LEMMA NotWaitingFields ==
  NotWaiting.added = FALSE /\ NotWaiting.sock = 0 /\ 0 \notin Sockets
BY CoSocketAssumption DEF NotWaiting, Sockets

\* What a step may do to calls in progress: nothing, but for the one of the
\* executing stack, which may end.
WaitersStay ==
  /\ \A x \in Contexts :
       waits'[x] = waits[x] \/ (x = running /\ waits'[x] = NotWaiting)
  /\ \A x \in Cids : Waiting(x) /\ waits'[x] = waits[x] =>
       ctx'[x] = ctx[x] /\ (x = running => running' = x)

\* And to their objects: at most close them.
CallsKeepObjects ==
  \A s \in Sockets : socket[s] \in Fds \union {LIB_BAD_SOCKET} =>
    socket'[s] \in {socket[s], LIB_BAD_SOCKET}

\* The events of a turn stay true while coroutines run that are not theirs.
LEMMA PendingStays ==
  ASSUME Pending, Schedule, SocketTypeOK, CallsKeepObjects, UNCHANGED <<events, phase>>,
         \A x \in Cids \ {running} : Waiting(x) =>
           waits'[x] = waits[x] /\ (ctx[x] = "parked" => ctx'[x] = "parked"),
         1 \in DOMAIN events => UNCHANGED <<running, callee>>
  PROVE  Pending'
<1>1. ASSUME NEW i \in DOMAIN events PROVE Intact(i)'
  <2>1. PICK fd \in Fds, id \in Cids :
          /\ events[i] = touint64(fd, id)
          /\ Waiting(id) /\ waits[id].added /\ ctx[id] = "parked"
          /\ socket[waits[id].sock] \in {fd, LIB_BAD_SOCKET}
    BY <1>1 DEF Pending, Intact
  <2>2. id # running /\ id \in Contexts
    BY <2>1, ContextsSplit DEF Schedule, SwapInv, Frames, Entered
  <2>3. waits'[id] = waits[id] /\ ctx'[id] = "parked"
    BY <2>1, <2>2
  <2>4. waits[id].sock \in Sockets
    BY <2>1, <2>2, WaitsTyped
  <2>5. socket'[waits[id].sock] \in {fd, LIB_BAD_SOCKET}
    BY <2>1, <2>4 DEF CallsKeepObjects
  <2> QED BY <2>1, <2>3, <2>5 DEF Intact, Waiting
<1>2. \A i, j \in DOMAIN events' :
        i # j => fromuint64(events'[i]).id # fromuint64(events'[j]).id
  BY DEF Pending
<1> QED BY <1>1, <1>2 DEF Pending

\* The scheduler's part follows, where it concerns calls in progress.
LEMMA ScheduleStays ==
  ASSUME Schedule, WaitersStay, TypeOK', SwapInv', NoStaleResume', Wakes'
  PROVE  Schedule'
<1>1. running' \in Contexts /\ (running' \in Cids => ctx'[running'] = "active")
      /\ running \in Contexts /\ (running \in Cids => ctx[running] = "active")
  BY ContextsSplit DEF Schedule, SwapInv, SwapTypeOK, Frames, Entered
<1>2. ASSUME NEW x \in Contexts, Waiting(x)' PROVE Waiting(x) /\ waits'[x] = waits[x]
  BY <1>2 DEF WaitersStay, Waiting
<1>3. ~ Waiting(Main)'
  BY <1>2, ContextsSplit DEF Schedule, CallsParked
<1>4. ASSUME NEW co \in Cids, Waiting(co)' PROVE ctx'[co] = "parked" \/ co = running'
  BY <1>2, <1>4, ContextsSplit DEF Schedule, CallsParked, WaitersStay
<1>5. ASSUME Waiting(running)' PROVE waits'[running'].added
  <2>1. running' \in Cids /\ Waiting(running') /\ waits'[running'] = waits[running']
    BY <1>1, <1>2, <1>3, <1>5, ContextsSplit
  <2>2. running' = running
    BY <1>1, <2>1 DEF Schedule, CallsParked, WaitersStay
  <2> QED BY <2>1, <2>2 DEF Schedule, CallsParked
<1> QED BY <1>3, <1>4, <1>5 DEF Schedule, CallsParked

-----------------------------------------------------------------------------
(* The scheduler's own steps. *)

\* A process that died left everything else as it was.
LEMMA DyingLeaves ==
  ASSUME Schedule, NEW why \in Faults \ {"none", "stale_resume"}, Die(why),
         UNCHANGED <<scriptVars, waits>>
  PROVE  Schedule' /\ WaitersStay
<1>1. SwapInv'
  BY SwapInvStable DEF Schedule, Die, scriptVars
<1>2. TypeOK' /\ NoStaleResume' /\ Wakes'
  BY <1>1 DEF Schedule, SwapInv, TypeOK, Die, NoStaleResume, Wakes, Waiting, scriptVars, swapVars
<1>3. WaitersStay
  BY DEF WaitersStay, Die, swapVars
<1> QED BY <1>1, <1>2, <1>3, ScheduleStays

\* What changes no stack and only what the scheduler does not look at.
LEMMA ScheduleStable ==
  ASSUME Schedule, UNCHANGED <<swapVars, last_cid, user_yield_coros, timers, fault>>,
         stage' \in [Cids -> Stages], defer_tasks' \in [Contexts -> 0..MaxDefer],
         UNCHANGED waits
  PROVE  Schedule' /\ WaitersStay
<1>1. SwapInv'
  BY SwapInvStable DEF Schedule
<1>2. TypeOK' /\ NoStaleResume' /\ Wakes'
  BY <1>1 DEF Schedule, SwapInv, TypeOK, NoStaleResume, Wakes, Waiting, swapVars
<1>3. WaitersStay
  BY DEF WaitersStay, swapVars
<1> QED BY <1>1, <1>2, <1>3, ScheduleStays

\* The executing coroutine is not parked, a waiting one is.
LEMMA ActiveRuns ==
  ASSUME Schedule
  PROVE  /\ running \in Cids => ctx[running] = "active"
         /\ running \in Contexts /\ current \in Contexts
         /\ ctx \in [Cids -> CtxStates] /\ timers \in [Cids -> Nat]
         /\ \A x \in Contexts : Waiting(x) => x \in Cids /\ (x = running \/ ctx[x] = "parked")
BY ContextsSplit DEF Schedule, SwapInv, SwapTypeOK, TypeOK, Frames, Entered, CallsParked

\* The tail of run() and resume() concerns the coroutine that came back.
LEMMA ReturnsSchedule ==
  ASSUME Schedule, SwapInReturns, UNCHANGED waits
  PROVE  Schedule' /\ WaitersStay
<1>1. UNCHANGED <<scriptVars, fault, running>>
      /\ \/ UNCHANGED ctx
         \/ \E co \in Cids : ctx[co] = "end" /\ ctx' = [ctx EXCEPT ![co] = "deleted"]
  BY DEF SwapInReturns, Schedule, SwapInv, SwapTypeOK, NoCallee, Cids, Contexts
<1>2. SwapInv' /\ TypeOK'
  BY <1>1, SwapInReturnsKeeps DEF Schedule, SwapInv, TypeOK, scriptVars
<1>3. \A x \in Contexts : Waiting(x) => x \in Cids /\ ctx[x] \in {"active", "parked"}
  BY ActiveRuns
<1>4. WaitersStay
  BY <1>1, <1>3, ActiveRuns, ContextsSplit DEF WaitersStay
<1>5. Wakes' /\ NoStaleResume'
  BY <1>1, ActiveRuns DEF Schedule, Wakes, Waiting, NoStaleResume, scriptVars
<1> QED BY <1>2, <1>4, <1>5, ScheduleStays

\* Cco::create; the server's loop makes one when its accept has come back.
LEMMA CreateSchedule ==
  ASSUME Schedule, Create,
         \A x \in Contexts : x # running => waits'[x] = waits[x],
         waits'[running] = NotWaiting
  PROVE  Schedule' /\ WaitersStay
<1> DEFINE c == last_cid + 1
<1>1. /\ SwapInv' /\ c \in Cids /\ ctx[c] = "none"
      /\ ctx' = [ctx EXCEPT ![c] = "active"]
      /\ UNCHANGED <<stage, defer_tasks, user_yield_coros, timers, fault>>
  BY CreateKeeps DEF Create, Schedule
<1>2. TypeOK' /\ NoStaleResume'
  BY <1>1 DEF Schedule, SwapInv, TypeOK, NoStaleResume
<1> HIDE DEF c
<1>3. WaitersStay
  BY <1>1, ActiveRuns, ContextsSplit DEF WaitersStay, Waiting
<1>4. Wakes'
  <2>1. ASSUME NEW x \in Cids
        PROVE  (ctx'[x] = "parked" /\ ~ Waiting(x)') <=> (ctx[x] = "parked" /\ ~ Waiting(x))
    BY <1>1, ActiveRuns, ContextsSplit DEF Waiting
  <2> QED BY <1>1, <2>1 DEF Schedule, Wakes
<1> QED BY <1>1, <1>2, <1>3, <1>4, ScheduleStays

\* A coroutine that parks outside wait_event gets its one way to be woken.
LEMMA ParksSchedule ==
  ASSUME Schedule, UserCode, ~ Waiting(running), current # Main, Yield(current),
         UNCHANGED <<last_cid, stage, defer_tasks, waits>>,
         \/ /\ user_yield_coros' = user_yield_coros \union {current}
            /\ UNCHANGED timers
         \/ /\ timers' = [timers EXCEPT ![current] = @ + 1]
            /\ UNCHANGED user_yield_coros
  PROVE  Schedule' /\ WaitersStay
<1>1. SwapInv' /\ ctx' = [ctx EXCEPT ![current] = "parked"] /\ UNCHANGED fault
  BY YieldKeeps DEF Yield, Schedule
<1>2. current \in Cids /\ ctx[current] = "active" /\ current = running
  BY CurrentActive DEF Schedule, SwapInv, StackCoherence
<1>3. TypeOK' /\ NoStaleResume'
  BY <1>1, <1>2 DEF Schedule, SwapInv, TypeOK, NoStaleResume
<1>4. Wakes'
  BY <1>1, <1>2, ActiveRuns DEF Schedule, Wakes, Waiting
<1>5. WaitersStay
  BY <1>1, <1>2, ActiveRuns DEF WaitersStay
<1> QED BY <1>1, <1>3, <1>4, <1>5, ScheduleStays

\* A coroutine that is resumed from where it parked, which is not wait_event.
LEMMA WakesSchedule ==
  ASSUME Schedule, UserCode, ~ Waiting(running), NEW c \in Cids, Resume(c),
         UNCHANGED <<last_cid, stage, defer_tasks, waits>>,
         \/ /\ c \in user_yield_coros /\ user_yield_coros' = user_yield_coros \ {c}
            /\ UNCHANGED timers
         \/ /\ timers[c] > 0 /\ timers' = [timers EXCEPT ![c] = @ - 1]
            /\ UNCHANGED user_yield_coros
  PROVE  Schedule' /\ WaitersStay
<1>1. /\ timers[c] + (IF c \in user_yield_coros THEN 1 ELSE 0) = 1
      /\ ctx[c] = "parked" /\ ~ Waiting(c)
  BY ActiveRuns DEF Schedule, Wakes
<1>2. SwapInv' /\ ctx' = [ctx EXCEPT ![c] = "active"] /\ UNCHANGED fault
  BY <1>1, ResumeKeeps DEF Schedule
<1>3. timers' \in [Cids -> Nat] /\ user_yield_coros' \in SUBSET Cids
      /\ timers'[c] = 0 /\ c \notin user_yield_coros'
      /\ \A x \in Cids \ {c} :
           timers'[x] = timers[x] /\ (x \in user_yield_coros' <=> x \in user_yield_coros)
  BY <1>1, ActiveRuns DEF Schedule, TypeOK
<1>4. TypeOK' /\ NoStaleResume'
  BY <1>2, <1>3 DEF Schedule, SwapInv, TypeOK, NoStaleResume
<1>5. Wakes'
  BY <1>1, <1>2, <1>3, ActiveRuns DEF Schedule, Wakes, Waiting
<1>6. WaitersStay
  BY <1>1, <1>2, ActiveRuns, ContextsSplit DEF WaitersStay
<1> QED BY <1>2, <1>4, <1>5, <1>6, ScheduleStays

\* A coroutine that ends was not waiting.
LEMMA EndsSchedule ==
  ASSUME Schedule, ContextEnds, ~ Waiting(running), UNCHANGED waits
  PROVE  Schedule' /\ WaitersStay
<1>1. /\ SwapInv' /\ running \in Cids /\ ctx[running] = "active"
      /\ ctx' = [ctx EXCEPT ![running] = "end"]
  BY ContextEndsKeeps DEF Schedule, TypeOK
<1>2. UNCHANGED <<scriptVars, fault>>
  BY DEF ContextEnds
<1>3. TypeOK' /\ NoStaleResume'
  BY <1>1, <1>2 DEF Schedule, SwapInv, TypeOK, NoStaleResume, scriptVars
<1>4. Wakes'
  BY <1>1, <1>2, ActiveRuns DEF Schedule, Wakes, Waiting, scriptVars
<1>5. WaitersStay
  BY <1>1, ActiveRuns DEF WaitersStay
<1> QED BY <1>1, <1>3, <1>4, <1>5, ScheduleStays

\* The API, as the scripts of this module call it.
LEMMA ScriptSchedule ==
  ASSUME Schedule, SchedulerScript
  PROVE  Schedule' /\ WaitersStay
<1>1. UserCode /\ waits[running] = NotWaiting /\ ~ Waiting(running) /\ UNCHANGED waits
  BY DEF SchedulerScript, ScriptRuns, Waiting, socketVars
<1>2. CASE Create
  BY <1>1, <1>2, CreateSchedule
<1>3. CASE UserYield
  <2>1. CASE current = Main /\ Die("no_current") /\ UNCHANGED user_yield_coros
    BY <1>1, <1>3, <2>1, DyingLeaves DEF UserYield, scriptVars, Faults
  <2>2. CASE /\ current # Main
             /\ user_yield_coros' = user_yield_coros \union {current}
             /\ Yield(current)
    BY <1>1, <1>3, <2>2, ParksSchedule DEF UserYield
  <2> QED BY <1>3, <2>1, <2>2 DEF UserYield
<1>4. ASSUME NEW c \in Cids, UserResume(c) PROVE Schedule' /\ WaitersStay
  BY <1>1, <1>4, WakesSchedule DEF UserResume
<1>5. CASE Sleep
  <2>1. CASE current = Main /\ Die("no_current") /\ UNCHANGED timers
    BY <1>1, <1>5, <2>1, DyingLeaves DEF Sleep, scriptVars, Faults
  <2>2. CASE /\ current # Main
             /\ timers' = [timers EXCEPT ![current] = @ + 1]
             /\ Yield(current)
    BY <1>1, <1>5, <2>2, ParksSchedule DEF Sleep
  <2> QED BY <1>5, <2>1, <2>2 DEF Sleep
<1>6. CASE Defer \/ FunctionReturns \/ RunDeferred \/ Destructs
  <2>1. defer_tasks[current] \in 0..MaxDefer /\ defer_tasks \in [Contexts -> 0..MaxDefer]
        /\ stage \in [Cids -> Stages]
    BY DEF Schedule, SwapInv, SwapTypeOK, TypeOK
  <2>2. UNCHANGED <<swapVars, last_cid, user_yield_coros, timers, fault>>
        /\ stage' \in [Cids -> Stages]
    BY <1>6, <2>1 DEF Defer, FunctionReturns, RunDeferred, Destructs, InStage, Stages
  <2>3. defer_tasks' \in [Contexts -> 0..MaxDefer]
    <3>1. CASE Defer
      <4>1. defer_tasks[current] + 1 \in 0..MaxDefer
        BY <2>1, <3>1, CoroutineAssumption DEF Defer
      <4> QED BY <2>1, <3>1, <4>1 DEF Defer
    <3>2. CASE RunDeferred
      <4>1. defer_tasks[current] - 1 \in 0..MaxDefer
        BY <2>1, <3>2, CoroutineAssumption DEF RunDeferred, InStage
      <4> QED BY <2>1, <3>2, <4>1 DEF RunDeferred
    <3>3. CASE FunctionReturns \/ Destructs
      BY <2>1, <3>3 DEF FunctionReturns, Destructs
    <3> QED BY <1>6, <3>1, <3>2, <3>3
  <2> QED BY <1>1, <2>2, <2>3, ScheduleStable
<1>7. CASE ContextEnds
  BY <1>1, <1>7, EndsSchedule
<1> QED BY <1>2, <1>3, <1>4, <1>5, <1>6, <1>7 DEF SchedulerScript, ScriptStep

\* wait_event parks the coroutine whose call it is, with no other way to wake.
LEMMA WaitsSchedule ==
  ASSUME Schedule, UserCode, current # Main, Yield(current), UNCHANGED scriptVars,
         SocketTypeOK, NEW w, w # NotWaiting,
         waits' = [waits EXCEPT ![running] = w]
  PROVE  /\ Schedule' /\ current = running /\ current \in Cids
         /\ ctx' = [ctx EXCEPT ![current] = "parked"]
<1>1. SwapInv' /\ ctx' = [ctx EXCEPT ![current] = "parked"] /\ UNCHANGED fault
  BY YieldKeeps DEF Yield, Schedule, scriptVars
<1>2. current \in Cids /\ ctx[current] = "active" /\ current = running
  BY CurrentActive DEF Schedule, SwapInv, StackCoherence
<1>3. TypeOK' /\ NoStaleResume'
  BY <1>1 DEF Schedule, SwapInv, TypeOK, NoStaleResume, scriptVars
<1>4. /\ waits'[running] # NotWaiting
      /\ \A x \in Contexts : x # running => waits'[x] = waits[x]
  BY <1>2, ContextsSplit DEF SocketTypeOK, Waiting
<1>5. Wakes'
  BY <1>1, <1>2, <1>4, ActiveRuns, ContextsSplit DEF Schedule, Wakes, Waiting, scriptVars
<1>6. CallsParked'
  <2>1. running' \in Cids => ctx'[running'] = "active"
    BY <1>1 DEF SwapInv, Frames, Entered, Main, Cids
  <2>2. running' \in Contexts /\ running' # running
    BY <1>1, <1>2, <2>1, ActiveRuns DEF SwapInv, SwapTypeOK
  <2>3. ~ Waiting(running')
    BY <1>1, <1>2, <2>1, <2>2, ActiveRuns
  <2> QED BY <1>1, <1>2, <1>4, <2>2, <2>3, ActiveRuns, ContextsSplit DEF CallsParked, Waiting
<1> QED BY <1>1, <1>2, <1>3, <1>5, <1>6 DEF Schedule

\* The loop resumes a coroutine out of wait_event.
LEMMA DispatchSchedule ==
  ASSUME Schedule, UserCode, running = Main, NEW c \in Cids, Resume(c),
         Waiting(c), waits[c].added, ctx[c] = "parked",
         UNCHANGED <<scriptVars, waits>>
  PROVE  Schedule' /\ ctx' = [ctx EXCEPT ![c] = "active"]
<1>1. SwapInv' /\ ctx' = [ctx EXCEPT ![c] = "active"] /\ UNCHANGED fault
  BY ResumeKeeps DEF Schedule, scriptVars
<1>2. running' = c
  BY DEF Resume, SwapIn
<1>3. TypeOK' /\ NoStaleResume'
  BY <1>1 DEF Schedule, SwapInv, TypeOK, NoStaleResume, scriptVars
<1>4. Wakes'
  BY <1>1, ActiveRuns DEF Schedule, Wakes, Waiting, scriptVars
<1>5. CallsParked'
  BY <1>1, <1>2, ActiveRuns, ContextsSplit DEF Schedule, CallsParked, Waiting
<1> QED BY <1>1, <1>3, <1>4, <1>5 DEF Schedule

-----------------------------------------------------------------------------
(* Descriptors, objects and registrations. *)

\* A step that makes objects at most: what there was is left alone.
ObjectsMade ==
  /\ socket' \in [Sockets -> Fds \union {BadFd, LIB_BAD_SOCKET, NoSocket}]
  /\ fdstate' \in [Fds -> {"closed", "created", "bound", "listening", "connected"}]
  /\ ready' \in [Fds -> SUBSET {"read", "write"}]
  /\ DescriptorsKept'
  /\ \A t \in Sockets : socket[t] # NoSocket => socket'[t] = socket[t]
  /\ \A fd \in Fds : fdstate[fd] = "closed" /\ fdstate'[fd] # "closed" =>
       \E t \in Sockets : socket'[t] = fd

\* An object over a new descriptor, or over none.
LEMMA WrapsMakes ==
  ASSUME Polled, NEW s \in Sockets, NEW st \in {"created", "bound", "listening", "connected"},
         NewObject(s), NEW fd \in {NewFd, BadFd}, socket' = [socket EXCEPT ![s] = fd],
         Opens(fd, st), ready' \in [Fds -> SUBSET {"read", "write"}]
  PROVE  ObjectsMade
<1>1. socket[s] = NoSocket
  BY DEF NewObject
<1>2. fd = BadFd \/ (fd \in Fds /\ fdstate[fd] = "closed")
  BY NewFdIsFree
<1>3. socket \in [Sockets -> Fds \union {BadFd, LIB_BAD_SOCKET, NoSocket}]
      /\ fdstate \in [Fds -> {"closed", "created", "bound", "listening", "connected"}]
  BY DEF Polled, SocketTypeOK
<1>4. /\ socket' \in [Sockets -> Fds \union {BadFd, LIB_BAD_SOCKET, NoSocket}]
      /\ fdstate' \in [Fds -> {"closed", "created", "bound", "listening", "connected"}]
  BY <1>2, <1>3 DEF Opens
<1>5. DescriptorsKept'
  <2>1. fd = BadFd => fdstate' = fdstate
    BY DEF Opens
  <2>2. fd # BadFd => fdstate' = [fdstate EXCEPT ![fd] = st]
    BY DEF Opens
  <2>3. \A t \in Sockets : socket[t] \in Fds => fdstate[socket[t]] # "closed"
    BY DEF Polled, DescriptorsKept
  <2>4. \A t, u \in Sockets : socket[t] \in Fds /\ socket[t] = socket[u] => t = u
    BY DEF Polled, DescriptorsKept
  <2> QED BY <1>2, <1>3, <2>1, <2>2, <2>3, <2>4, BadValues DEF DescriptorsKept
<1>6. \A f \in Fds : fdstate[f] = "closed" /\ fdstate'[f] # "closed" => socket'[s] = f
  BY <1>2, <1>3 DEF Opens
<1> QED BY <1>1, <1>3, <1>4, <1>5, <1>6 DEF ObjectsMade

\* accept makes an object in any case; recv and send make none.
LEMMA CompletesMakes ==
  ASSUME Polled, NEW call \in Calls, NEW s \in Sockets, NEW gaveUp,
         Completes(call, s, gaveUp)
  PROVE  ObjectsMade
<1>0. ready \in [Fds -> SUBSET {"read", "write"}]
  BY DEF Polled, SocketTypeOK
<1>1. CASE Accepts(s, gaveUp)
  <2>1. PICK conn \in Sockets :
    \/ /\ gaveUp \/ ~ Works("accept", socket[s])
       /\ Wraps(conn, BadFd)
       /\ UNCHANGED kernelVars
    \/ /\ ~ gaveUp
       /\ Works("accept", socket[s])
       /\ "read" \in ready[socket[s]]
       /\ Wraps(conn, NewFd)
       /\ Opens(NewFd, "connected")
       /\ \E rest \in {{}, {"read"}} :
            ready' = [ready EXCEPT ![socket[s]] = rest, ![NewFd] = {"write"}]
    BY <1>1 DEF Accepts
  <2>2. NewObject(conn) /\ ready' \in [Fds -> SUBSET {"read", "write"}]
    BY <1>0, <2>1 DEF Wraps, kernelVars
  <2>3. \/ socket' = [socket EXCEPT ![conn] = BadFd] /\ Opens(BadFd, "connected")
        \/ socket' = [socket EXCEPT ![conn] = NewFd] /\ Opens(NewFd, "connected")
    BY <2>1 DEF Wraps, kernelVars, Opens
  <2> QED BY <2>2, <2>3, WrapsMakes
<1>2. CASE Transfers(call, s, gaveUp)
  <2>1. UNCHANGED <<socket, fdstate>> /\ ready' \in [Fds -> SUBSET {"read", "write"}]
    BY <1>0, <1>2 DEF Transfers
  <2> QED BY <2>1 DEF ObjectsMade, Polled, SocketTypeOK, DescriptorsKept
<1> QED BY <1>1, <1>2 DEF Completes

\* Where no call begins or ends, what epoll watches stays right.
LEMMA GrowthKeeps ==
  ASSUME Polled, TypeOK', ObjectsMade, UNCHANGED <<registered, waits, loopVars, event_num>>
  PROVE  Polled' /\ CallsKeepObjects
<1>1. SocketTypeOK'
  BY DEF Polled, SocketTypeOK, ObjectsMade, loopVars
<1>2. \A x \in Contexts : Waiting(x) =>
        waits[x].sock \in Sockets /\ socket'[waits[x].sock] = socket[waits[x].sock]
        /\ socket[waits[x].sock] \in Fds \union {LIB_BAD_SOCKET}
  BY WaitsTyped, BadValues DEF Polled, CallsOnSockets, ObjectsMade
<1>3. CallsOnSockets'
  BY <1>2 DEF CallsOnSockets, Waiting
<1>4. WatchesWaiters'
  <2>1. \A fd \in Fds : registered[fd] # NoRegistration => registered[fd].cid \in Contexts
    BY ContextsSplit DEF Polled, SocketTypeOK
  <2> QED BY <1>2, <2>1 DEF Polled, WatchesWaiters, Waiting
<1>5. WaitersRegistered'
  <2>1. \A x \in Cids : waits[x].added => Waiting(x)
    BY NotWaitingFields DEF Waiting
  <2> QED BY <1>2, <2>1, ContextsSplit DEF Polled, WaitersRegistered
<1>6. Counted' /\ DescriptorsKept'
  BY DEF Polled, Counted, ObjectsMade, Waiting
<1>7. CallsKeepObjects
  BY BadValues DEF ObjectsMade, CallsKeepObjects
<1> QED BY <1>1, <1>3, <1>4, <1>5, <1>6, <1>7 DEF Polled

\* The registration a woken call finds is its own.
LEMMA OwnRegistration ==
  ASSUME Polled, Schedule, Waiting(running), socket[waits[running].sock] \in Fds
  PROVE  /\ running \in Cids
         /\ registered[socket[waits[running].sock]].cid = running
         /\ registered[socket[waits[running].sock]] # NoRegistration
         /\ \A x \in Cids \ {running} :
              waits[x].added => socket[waits[x].sock] # socket[waits[running].sock]
<1>1. running \in Cids /\ waits[running].added
  BY ActiveRuns DEF Schedule, CallsParked
<1>2. registered[socket[waits[running].sock]] =
        [cid |-> running, event |-> EventOf(waits[running].call)]
  BY <1>1 DEF Polled, WaitersRegistered
<1>3. \A x \in Cids : waits[x].added /\ socket[waits[x].sock] = socket[waits[running].sock] =>
        registered[socket[waits[running].sock]] = [cid |-> x, event |-> EventOf(waits[x].call)]
  BY DEF Polled, WaitersRegistered
<1>4. registered[socket[waits[running].sock]].cid = running
  BY <1>2
<1>5. registered[socket[waits[running].sock]] # NoRegistration
  BY <1>1, <1>4, ContextsSplit DEF NoRegistration
<1>6. ASSUME NEW x \in Cids, waits[x].added, socket[waits[x].sock] = socket[waits[running].sock]
      PROVE  x = running
  <2>1. registered[socket[waits[running].sock]] = [cid |-> x, event |-> EventOf(waits[x].call)]
    BY <1>3, <1>6
  <2>2. registered[socket[waits[running].sock]].cid = x
    BY <2>1
  <2> QED BY <1>4, <2>2
<1> QED BY <1>1, <1>4, <1>5, <1>6

\* A call that ends takes its own registration with it.
LEMMA EndsKeeps ==
  ASSUME Polled, Schedule, TypeOK', ObjectsMade, Waiting(running),
         socket[waits[running].sock] \in Fds,
         registered' = Deregistered(socket[waits[running].sock]),
         waits' = [waits EXCEPT ![running] = NotWaiting],
         UNCHANGED <<loopVars, event_num>>
  PROVE  Polled' /\ CallsKeepObjects
<1> DEFINE fd == socket[waits[running].sock]
<1>0. running \in Contexts
  BY ActiveRuns
<1>a. waits \in [Contexts -> {NotWaiting} \union [call : Calls, sock : Sockets, added : BOOLEAN]]
      /\ registered \in [Fds -> {NoRegistration} \union [cid : Cids, event : {"read", "write"}]]
  BY DEF Polled, SocketTypeOK
<1>b. /\ registered'[fd] = NoRegistration
      /\ \A f \in Fds \ {fd} : registered'[f] = registered[f]
      /\ waits'[running] = NotWaiting
      /\ \A x \in Contexts \ {running} : waits'[x] = waits[x]
  BY <1>0, <1>a DEF Deregistered
<1>1. SocketTypeOK'
  <2>1. registered' \in [Fds -> {NoRegistration} \union [cid : Cids, event : {"read", "write"}]]
        /\ waits' \in [Contexts -> {NotWaiting} \union [call : Calls, sock : Sockets, added : BOOLEAN]]
    BY <1>a DEF Deregistered
  <2> QED BY <2>1 DEF Polled, SocketTypeOK, ObjectsMade, loopVars
<1>2. \A x \in Contexts : Waiting(x) =>
        waits[x].sock \in Sockets /\ socket'[waits[x].sock] = socket[waits[x].sock]
        /\ socket[waits[x].sock] \in Fds \union {LIB_BAD_SOCKET}
  BY WaitsTyped, BadValues DEF Polled, CallsOnSockets, ObjectsMade
<1>3. CallsOnSockets'
  BY <1>b, <1>2 DEF CallsOnSockets, Waiting
<1>4. WatchesWaiters'
  <2> SUFFICES ASSUME NEW f \in Fds, registered'[f] # NoRegistration
               PROVE  LET w == waits'[registered'[f].cid] IN
                      w # NotWaiting /\ w.added /\ socket'[w.sock] = f
    BY DEF WatchesWaiters, Waiting
  <2>1. f # fd /\ registered'[f] = registered[f]
    BY <1>b
  <2> DEFINE c == registered[f].cid
  <2>2. c \in Contexts /\ Waiting(c) /\ waits[c].added /\ socket[waits[c].sock] = f
    BY <1>a, <2>1, ContextsSplit DEF Polled, WatchesWaiters
  <2>3. c # running
    BY <2>1, <2>2
  <2> QED BY <1>b, <1>2, <2>1, <2>2, <2>3 DEF Waiting
<1>5. WaitersRegistered'
  <2> SUFFICES ASSUME NEW x \in Cids, waits'[x].added, socket'[waits'[x].sock] \in Fds
               PROVE  registered'[socket'[waits'[x].sock]]
                        = [cid |-> x, event |-> EventOf(waits'[x].call)]
    BY DEF WaitersRegistered
  <2>1. x # running /\ waits'[x] = waits[x] /\ Waiting(x)
    BY <1>b, ContextsSplit, NotWaitingFields DEF Waiting
  <2>2. socket'[waits[x].sock] = socket[waits[x].sock]
    BY <1>2, <2>1, ContextsSplit
  <2>3. socket[waits[x].sock] # fd
    BY <2>1, OwnRegistration
  <2> QED BY <1>b, <2>1, <2>2, <2>3 DEF Polled, WaitersRegistered
<1>6. Counted' /\ DescriptorsKept'
  BY <1>b DEF Polled, Counted, ObjectsMade, Waiting
<1>7. CallsKeepObjects
  BY BadValues DEF ObjectsMade, CallsKeepObjects
<1> QED BY <1>1, <1>3, <1>4, <1>5, <1>6, <1>7 DEF Polled

\* bind and listen change what a descriptor is; peers, what it can do.
LEMMA KernelKeeps ==
  ASSUME Polled, TypeOK', UNCHANGED <<socket, registered, waits, loopVars, event_num>>,
         fdstate' \in [Fds -> {"closed", "created", "bound", "listening", "connected"}],
         ready' \in [Fds -> SUBSET {"read", "write"}],
         \A fd \in Fds : fdstate[fd] # "closed" <=> fdstate'[fd] # "closed"
  PROVE  Polled' /\ CallsKeepObjects
<1>1. ObjectsMade
  BY DEF Polled, SocketTypeOK, DescriptorsKept, ObjectsMade
<1> QED BY <1>1, GrowthKeeps

\* An object that lets go of its descriptor, or is gone, is nobody else's, and
\* what epoll watched the descriptor for is forgotten with it.
LEMMA ClosesKeeps ==
  ASSUME Polled, TypeOK', NEW s \in Sockets, libsocket_close(socket[s]),
         NEW v \in {LIB_BAD_SOCKET, NoSocket}, socket' = [socket EXCEPT ![s] = v],
         v = NoSocket => \A x \in Contexts : Waiting(x) => waits[x].sock # s,
         UNCHANGED <<waits, loopVars, event_num>>
  PROVE  Polled'
<1>a. /\ socket \in [Sockets -> Fds \union {BadFd, LIB_BAD_SOCKET, NoSocket}]
      /\ fdstate \in [Fds -> {"closed", "created", "bound", "listening", "connected"}]
      /\ ready \in [Fds -> SUBSET {"read", "write"}]
      /\ registered \in [Fds -> {NoRegistration} \union [cid : Cids, event : {"read", "write"}]]
  BY DEF Polled, SocketTypeOK
<1>b. /\ socket'[s] = v /\ v \notin Fds
      /\ \A t \in Sockets \ {s} : socket'[t] = socket[t]
  BY <1>a, BadValues
<1>c. \A fd \in Fds :
        IF fd = socket[s]
          THEN registered'[fd] = NoRegistration
          ELSE fdstate'[fd] = fdstate[fd] /\ registered'[fd] = registered[fd]
  BY <1>a DEF libsocket_close, kernelVars
<1>1. SocketTypeOK'
  <2>1. /\ socket' \in [Sockets -> Fds \union {BadFd, LIB_BAD_SOCKET, NoSocket}]
        /\ fdstate' \in [Fds -> {"closed", "created", "bound", "listening", "connected"}]
        /\ ready' \in [Fds -> SUBSET {"read", "write"}]
        /\ registered' \in [Fds -> {NoRegistration} \union [cid : Cids, event : {"read", "write"}]]
    BY <1>a DEF libsocket_close, kernelVars
  <2> QED BY <2>1 DEF Polled, SocketTypeOK, loopVars
<1>2. DescriptorsKept'
  <2>1. /\ \A t \in Sockets : socket[t] \in Fds => fdstate[socket[t]] # "closed"
        /\ \A t, u \in Sockets : socket[t] \in Fds /\ socket[t] = socket[u] => t = u
    BY DEF Polled, DescriptorsKept
  <2> QED BY <1>b, <1>c, <2>1 DEF DescriptorsKept
<1>3. \A x \in Contexts : Waiting(x) =>
        waits[x].sock \in Sockets /\ socket[waits[x].sock] \in Fds \union {LIB_BAD_SOCKET}
  BY WaitsTyped DEF Polled, CallsOnSockets
<1>4. CallsOnSockets'
  BY <1>b, <1>3 DEF CallsOnSockets, Waiting
<1>5. WatchesWaiters'
  <2>1. \A fd \in Fds : registered[fd] # NoRegistration => registered[fd].cid \in Contexts
    BY <1>a, ContextsSplit
  <2> QED BY <1>b, <1>c, <1>3, <2>1 DEF Polled, WatchesWaiters, Waiting
<1>6. WaitersRegistered'
  <2> SUFFICES ASSUME NEW x \in Cids, waits[x].added, socket'[waits[x].sock] \in Fds
               PROVE  registered'[socket'[waits[x].sock]]
                        = [cid |-> x, event |-> EventOf(waits[x].call)]
    BY DEF WaitersRegistered
  <2>1. x \in Contexts /\ waits[x].sock \in Sockets
    BY <1>3, ContextsSplit, NotWaitingFields DEF Waiting
  <2>2. waits[x].sock # s /\ socket'[waits[x].sock] = socket[waits[x].sock]
    BY <1>b, <2>1
  <2>3. socket[waits[x].sock] # socket[s]
    BY <2>1, <2>2 DEF Polled, DescriptorsKept
  <2> QED BY <1>c, <2>2, <2>3 DEF Polled, WaitersRegistered
<1>7. Counted'
  BY DEF Polled, Counted, Waiting
<1> QED BY <1>1, <1>2, <1>4, <1>5, <1>6, <1>7 DEF Polled

\* A call that would block registers itself unless another did before; reg
\* is the table of registrations without its own.
LEMMA RegisterKeeps ==
  ASSUME Polled, TypeOK', NEW call \in Calls, NEW s \in Sockets, socket[s] \in Fds,
         running \in Cids,
         NEW reg \in [Fds -> {NoRegistration} \union [cid : Cids, event : {"read", "write"}]],
         \A f \in Fds : reg[f] # NoRegistration =>
           reg[f] = registered[f] /\ reg[f].cid # running,
         \A x \in Cids \ {running} : waits[x].added /\ socket[waits[x].sock] \in Fds =>
           reg[socket[waits[x].sock]] = registered[socket[waits[x].sock]],
         registered' = AddTo(reg, socket[s], [cid |-> running, event |-> EventOf(call)]),
         waits' = [waits EXCEPT ![running] =
           [call |-> call, sock |-> s, added |-> reg[socket[s]] = NoRegistration]],
         event_num' = 1, DOMAIN events' \subseteq Fds,
         \A i \in DOMAIN events' : events'[i] \in Nat,
         UNCHANGED <<socket, kernelVars, phase>>
  PROVE  Polled'
<1> DEFINE fd == socket[s]
           new == [cid |-> running, event |-> EventOf(call)]
           w == [call |-> call, sock |-> s, added |-> reg[fd] = NoRegistration]
           Registrations == {NoRegistration} \union [cid : Cids, event : {"read", "write"}]
<1>a. new \in [cid : Cids, event : {"read", "write"}] /\ new # NoRegistration
  BY ContextsSplit DEF EventOf, NoRegistration
<1>b. w \in [call : Calls, sock : Sockets, added : BOOLEAN] /\ w # NotWaiting
      /\ w.sock = s /\ w.call = call
  BY NotWaitingFields DEF NotWaiting
<1>c. /\ waits \in [Contexts -> {NotWaiting} \union [call : Calls, sock : Sockets, added : BOOLEAN]]
      /\ running \in Contexts
  BY ContextsSplit DEF Polled, SocketTypeOK
<1>d. waits'[running] = w /\ \A x \in Contexts \ {running} : waits'[x] = waits[x]
  BY <1>c
<1>e. /\ reg[fd] = NoRegistration => registered'[fd] = new
      /\ reg[fd] # NoRegistration => registered'[fd] = reg[fd]
      /\ \A f \in Fds \ {fd} : registered'[f] = reg[f]
  BY DEF AddTo
<1>f. registered' \in [Fds -> Registrations]
  BY <1>a DEF AddTo
<1> HIDE DEF w, new
<1>1. SocketTypeOK'
  BY <1>b, <1>c, <1>f DEF Polled, SocketTypeOK, kernelVars
<1>2. DescriptorsKept'
  BY DEF Polled, DescriptorsKept, kernelVars
<1>3. CallsOnSockets'
  BY <1>b, <1>d DEF Polled, CallsOnSockets, Waiting
<1>4. WatchesWaiters'
  <2> SUFFICES ASSUME NEW f \in Fds, registered'[f] # NoRegistration
               PROVE  LET v == waits'[registered'[f].cid] IN
                      v # NotWaiting /\ v.added /\ socket[v.sock] = f
    BY DEF WatchesWaiters, Waiting
  <2>1. CASE f = fd /\ reg[fd] = NoRegistration
    <3>1. registered'[f].cid = running
      BY <1>e, <2>1 DEF new
    <3>2. w.added
      BY <2>1 DEF w
    <3> QED BY <1>b, <1>d, <2>1, <3>1, <3>2
  <2>2. CASE f # fd \/ reg[fd] # NoRegistration
    <3>1. registered'[f] = reg[f] /\ reg[f] = registered[f] /\ reg[f].cid # running
      BY <1>e, <2>2
    <3>2. registered[f].cid \in Contexts
      BY <3>1, ContextsSplit DEF Polled, SocketTypeOK
    <3> QED BY <1>d, <3>1, <3>2 DEF Polled, WatchesWaiters, Waiting
  <2> QED BY <2>1, <2>2
<1>5. WaitersRegistered'
  <2> SUFFICES ASSUME NEW x \in Cids, waits'[x].added, socket[waits'[x].sock] \in Fds
               PROVE  registered'[socket[waits'[x].sock]]
                        = [cid |-> x, event |-> EventOf(waits'[x].call)]
    BY DEF WaitersRegistered
  <2>1. CASE x = running
    <3>0. w.added
      BY <1>d, <2>1
    <3>1. reg[fd] = NoRegistration
      BY <3>0 DEF w
    <3> QED BY <1>b, <1>d, <1>e, <2>1, <3>1 DEF new
  <2>2. CASE x # running
    <3>1. waits'[x] = waits[x]
      BY <1>d, <2>2, ContextsSplit
    <3>2. registered[socket[waits[x].sock]] = [cid |-> x, event |-> EventOf(waits[x].call)]
      BY <3>1 DEF Polled, WaitersRegistered
    <3>3. reg[socket[waits[x].sock]] = registered[socket[waits[x].sock]]
      BY <2>2, <3>1
    <3>4. registered[socket[waits[x].sock]].cid = x
      BY <3>2
    <3>5. reg[socket[waits[x].sock]] # NoRegistration
      BY <3>3, <3>4, ContextsSplit DEF NoRegistration
    <3>6. registered'[socket[waits[x].sock]] = reg[socket[waits[x].sock]]
      BY <1>e, <3>1, <3>5
    <3> QED BY <3>1, <3>2, <3>3, <3>6
  <2> QED BY <2>1, <2>2
<1>6. Counted'
  BY DEF Counted
<1> QED BY <1>1, <1>2, <1>3, <1>4, <1>5, <1>6 DEF Polled

-----------------------------------------------------------------------------
(* The steps of a script. *)

\* Nobody looks at a descriptor or an event but through this module's steps.
LEMMA PolledStable ==
  ASSUME Polled, TypeOK', UNCHANGED socketVars
  PROVE  Polled' /\ CallsKeepObjects
<1>1. ObjectsMade
  BY DEF Polled, SocketTypeOK, DescriptorsKept, ObjectsMade, socketVars, kernelVars
<1> QED BY <1>1, GrowthKeeps DEF socketVars

\* The parts together, when no event is added or taken.
LEMMA TurnGoesOn ==
  ASSUME SocketInv, Schedule', Polled', WaitersStay, CallsKeepObjects,
         UNCHANGED <<events, phase>>,
         1 \in DOMAIN events => UNCHANGED <<running, callee>>
  PROVE  SocketInv'
<1>1. \A x \in Cids \ {running} : Waiting(x) =>
        waits'[x] = waits[x] /\ (ctx[x] = "parked" => ctx'[x] = "parked")
  BY ContextsSplit DEF WaitersStay
<1>2. Pending'
  BY <1>1, PendingStays DEF SocketInv, Polled
<1> QED BY <1>2 DEF SocketInv

\* While slot 1 is not dispatched, no script runs, and no call returns.
LEMMA FirstSlotFirst ==
  ASSUME SocketInv, 1 \in DOMAIN events
  PROVE  ~ ScriptRuns /\ ~ InWaitEvent /\ ~ SwapInReturns /\ phase = "handle"
<1>1. running = Main /\ callee[Main] = NoCallee /\ phase = "handle"
  <2>1. events # << >>
    OBVIOUS
  <2> QED BY <2>1 DEF SocketInv, Pending
<1>2. ~ Waiting(Main)
  BY DEF SocketInv, Schedule, CallsParked
<1> QED BY <1>1, <1>2 DEF ScriptRuns, InWaitEvent, SwapInReturns, Waiting

LEMMA DeadKeeps ==
  ASSUME SocketInv, NEW why \in Faults \ {"none", "stale_resume"}, DieOf(why)
  PROVE  SocketInv'
<1>1. UNCHANGED socketVars /\ UNCHANGED <<events, phase, waits, running, callee, scriptVars>>
  BY DEF DieOf, socketVars, loopVars, Die, swapVars
<1>2. Schedule' /\ WaitersStay
  BY <1>1, DyingLeaves DEF SocketInv, DieOf
<1>3. Polled' /\ CallsKeepObjects
  BY <1>1, <1>2, PolledStable DEF SocketInv, Schedule
<1> QED BY <1>1, <1>2, <1>3, TurnGoesOn

\* The scheduler's steps, sockets aside.
LEMMA SchedulerTurn ==
  ASSUME SocketInv, Schedule', WaitersStay, UNCHANGED socketVars,
         1 \in DOMAIN events => UNCHANGED <<running, callee>>
  PROVE  SocketInv'
<1>1. Polled' /\ CallsKeepObjects
  BY PolledStable DEF SocketInv, Schedule
<1> QED BY <1>1, TurnGoesOn DEF socketVars, loopVars

\* Descriptors and objects, the scheduler aside.
LEMMA ObjectsTurn ==
  ASSUME SocketInv, Polled', CallsKeepObjects, UNCHANGED <<vars, waits, events, phase>>
  PROVE  SocketInv'
<1>1. /\ UNCHANGED <<swapVars, last_cid, user_yield_coros, timers, fault>>
      /\ UNCHANGED <<stage, defer_tasks, running, callee>>
  BY DEF vars, scriptVars, swapVars
<1>2. Schedule' /\ WaitersStay
  BY <1>1, ScheduleStable DEF SocketInv, Schedule, TypeOK
<1> QED BY <1>1, <1>2, TurnGoesOn

LEMMA TypeOKStable == ASSUME TypeOK, UNCHANGED vars PROVE TypeOK'
BY DEF TypeOK, SwapTypeOK, vars, swapVars, scriptVars

\* A call that blocks, for the first time or again.
LEMMA BlocksKeeps ==
  ASSUME SocketInv, UserCode, NEW call \in Calls, NEW s \in Sockets, socket[s] \in Fds,
         NEW reg,
         \/ reg = registered /\ ~ Waiting(running)
         \/ /\ reg = Deregistered(socket[s])
            /\ Waiting(running) /\ waits[running].sock = s,
         Blocks(call, s, reg)
  PROVE  SocketInv'
<1>1. CASE current = Main /\ DieOf("no_current")
  BY <1>1, DeadKeeps DEF Faults
<1>2. CASE ~ (current = Main /\ DieOf("no_current"))
  <2> DEFINE fd == socket[s]
             w == [call |-> call, sock |-> s, added |-> reg[fd] = NoRegistration]
             Registrations == {NoRegistration} \union [cid : Cids, event : {"read", "write"}]
  <2>1. /\ current # Main
        /\ WriteEvent(touint64(fd, current))
        /\ registered' = AddTo(reg, fd, [cid |-> current, event |-> EventOf(call)])
        /\ event_num' = 1
        /\ waits' = [waits EXCEPT ![running] = w]
        /\ Yield(current)
        /\ UNCHANGED <<socket, kernelVars, phase, scriptVars>>
    BY <1>2 DEF Blocks, wait_event, CountEvent
  <2>2. w # NotWaiting
    <3>1. w.sock = s
      OBVIOUS
    <3> QED BY <3>1, NotWaitingFields
  <2> HIDE DEF w
  <2>3. /\ Schedule' /\ current = running /\ running \in Cids
        /\ ctx' = [ctx EXCEPT ![running] = "parked"]
    BY <2>1, <2>2, WaitsSchedule DEF SocketInv, Polled
  <2>4. 1 \notin DOMAIN events /\ UNCHANGED events
    BY <2>1, <2>3, ContextsSplit DEF SocketInv, Pending, WriteEvent
  <2>5. registered \in [Fds -> Registrations]
    BY DEF SocketInv, Polled, SocketTypeOK
  <2>6. /\ reg \in [Fds -> Registrations]
        /\ \A f \in Fds : reg[f] # NoRegistration =>
             reg[f] = registered[f] /\ reg[f].cid # running
        /\ \A x \in Cids \ {running} : waits[x].added /\ socket[waits[x].sock] \in Fds =>
             reg[socket[waits[x].sock]] = registered[socket[waits[x].sock]]
    <3>1. CASE reg = registered /\ ~ Waiting(running)
      BY <2>5, <3>1 DEF SocketInv, Polled, WatchesWaiters
    <3>2. CASE reg = Deregistered(fd) /\ Waiting(running) /\ waits[running].sock = s
      <4>1. reg \in [Fds -> Registrations]
        BY <2>5, <3>2 DEF Deregistered
      <4>2. reg[fd] = NoRegistration /\ \A f \in Fds \ {fd} : reg[f] = registered[f]
        BY <2>5, <3>2 DEF Deregistered
      <4>3. ASSUME NEW f \in Fds, reg[f] # NoRegistration
            PROVE  reg[f] = registered[f] /\ reg[f].cid # running
        BY <3>2, <4>2, <4>3 DEF SocketInv, Polled, WatchesWaiters
      <4>4. \A x \in Cids \ {running} : waits[x].added => socket[waits[x].sock] # fd
        BY <3>2, OwnRegistration DEF SocketInv
      <4> QED BY <4>1, <4>2, <4>3, <4>4
    <3> QED BY <3>1, <3>2
  <2>7. Polled'
    BY <2>1, <2>3, <2>4, <2>6, RegisterKeeps DEF SocketInv, Polled, SocketTypeOK, Schedule, w
  <2>8. CallsKeepObjects
    BY <2>1 DEF CallsKeepObjects
  <2>9. \A x \in Cids \ {running} : Waiting(x) =>
          waits'[x] = waits[x] /\ (ctx[x] = "parked" => ctx'[x] = "parked")
    BY <2>1, <2>3, ActiveRuns, ContextsSplit DEF SocketInv, Polled, SocketTypeOK
  <2>10. Pending'
    BY <2>1, <2>4, <2>8, <2>9, PendingStays DEF SocketInv, Polled
  <2> QED BY <2>3, <2>7, <2>10 DEF SocketInv
<1> QED BY <1>1, <1>2

\* new Socket, by a script or by the server.
LEMMA NewKeeps ==
  ASSUME SocketInv, NEW s \in Sockets,
         NEW st \in {"created", "bound", "listening", "connected"}, Socket_new(s, st)
  PROVE  SocketInv'
<1>1. ready' \in [Fds -> SUBSET {"read", "write"}]
  BY DEF Socket_new, SocketInv, Polled, SocketTypeOK
<1>2. ObjectsMade
  BY <1>1, WrapsMakes DEF Socket_new, SocketInv
<1>3. TypeOK'
  BY TypeOKStable DEF Socket_new, SocketInv, Schedule
<1>4. Polled' /\ CallsKeepObjects
  BY <1>2, <1>3, GrowthKeeps DEF Socket_new, SocketInv
<1> QED BY <1>4, ObjectsTurn DEF Socket_new, loopVars

\* bind and listen.
LEMMA MovesKeeps ==
  ASSUME SocketInv, NEW s \in Sockets, NEW from \in SUBSET {"created", "bound"},
         NEW to \in {"bound", "listening"}, Moves(s, from, to)
  PROVE  SocketInv'
<1>1. CASE socket[s] = LIB_BAD_SOCKET /\ DieOf("bad_socket")
  BY <1>1, DeadKeeps DEF Faults
<1>2. CASE /\ socket[s] \in Fds
           /\ fdstate[socket[s]] \in from
           /\ fdstate' = [fdstate EXCEPT ![socket[s]] = to]
           /\ UNCHANGED <<vars, socket, ready, registered, waits, loopVars, event_num>>
  <2>1. TypeOK'
    BY <1>2, TypeOKStable DEF SocketInv, Schedule
  <2>2. /\ fdstate' \in [Fds -> {"closed", "created", "bound", "listening", "connected"}]
        /\ ready' \in [Fds -> SUBSET {"read", "write"}]
        /\ \A fd \in Fds : fdstate[fd] # "closed" <=> fdstate'[fd] # "closed"
    BY <1>2 DEF SocketInv, Polled, SocketTypeOK
  <2>3. Polled' /\ CallsKeepObjects
    BY <1>2, <2>1, <2>2, KernelKeeps DEF SocketInv
  <2> QED BY <1>2, <2>3, ObjectsTurn DEF loopVars
<1> QED BY <1>1, <1>2 DEF Moves

\* close, and the destructor of an object no call uses.
LEMMA CloseKeeps ==
  ASSUME SocketInv, NEW s \in Sockets, Socket_close(s) \/ Socket_free(s)
  PROVE  SocketInv'
<1>1. CASE ScriptRuns /\ socket[s] = LIB_BAD_SOCKET /\ DieOf("bad_socket")
  BY <1>1, DeadKeeps DEF Faults
<1>2. ASSUME NEW v \in {LIB_BAD_SOCKET, NoSocket}, libsocket_close(socket[s]),
             socket' = [socket EXCEPT ![s] = v],
             v = NoSocket => \A x \in Contexts : Waiting(x) => waits[x].sock # s,
             UNCHANGED <<vars, waits, loopVars, event_num>>
      PROVE  SocketInv'
  <2>1. TypeOK'
    BY <1>2, TypeOKStable DEF SocketInv, Schedule
  <2>2. Polled'
    BY <1>2, <2>1, ClosesKeeps DEF SocketInv
  <2>3. UNCHANGED <<swapVars, scriptVars, fault, events, phase, running, callee>>
    BY <1>2 DEF vars, swapVars, loopVars
  <2>4. Schedule' /\ WaitersStay
    BY <1>2, <2>3, ScheduleStable DEF SocketInv, Schedule, TypeOK, scriptVars
  <2>5. CASE v = LIB_BAD_SOCKET
    <3>1. CallsKeepObjects
      BY <1>2, <2>5 DEF SocketInv, Polled, SocketTypeOK, CallsKeepObjects
    <3> QED BY <2>2, <2>3, <2>4, <3>1, TurnGoesOn
  <2>6. CASE v = NoSocket
    <3>1. ASSUME NEW i \in DOMAIN events PROVE Intact(i)'
      <4>1. PICK fd \in Fds, id \in Cids :
              /\ events[i] = touint64(fd, id)
              /\ Waiting(id) /\ waits[id].added /\ ctx[id] = "parked"
              /\ socket[waits[id].sock] \in {fd, LIB_BAD_SOCKET}
        BY <3>1 DEF SocketInv, Pending, Intact
      <4>2. waits[id].sock # s /\ waits[id].sock \in Sockets
        BY <1>2, <2>6, <4>1, ContextsSplit, WaitsTyped DEF SocketInv, Polled
      <4>3. socket'[waits[id].sock] = socket[waits[id].sock]
        BY <1>2, <4>2 DEF SocketInv, Polled, SocketTypeOK
      <4> QED BY <1>2, <2>3, <4>1, <4>3 DEF Intact, Waiting, swapVars
    <3>2. Pending'
      BY <2>3, <3>1 DEF SocketInv, Pending
    <3> QED BY <2>2, <2>4, <3>2 DEF SocketInv
  <2> QED BY <2>5, <2>6
<1>3. CASE /\ libsocket_close(socket[s])
           /\ socket' = [socket EXCEPT ![s] = LIB_BAD_SOCKET]
           /\ UNCHANGED <<vars, waits, loopVars, event_num>>
  BY <1>2, <1>3, BadValues
<1>4. CASE Socket_free(s)
  BY <1>2, <1>4 DEF Socket_free
<1> QED BY <1>1, <1>3, <1>4 DEF Socket_close

\* accept, recv and send, called by a script.
LEMMA CallKeeps ==
  ASSUME SocketInv, NEW call \in Calls, NEW s \in Sockets, Call(call, s)
  PROVE  SocketInv'
<1>1. CASE socket[s] = LIB_BAD_SOCKET /\ DieOf("bad_socket")
  BY <1>1, DeadKeeps DEF Faults
<1>2. CASE Blocks(call, s, registered)
  <2>1. socket[s] \in Fds /\ UserCode /\ ~ Waiting(running)
    BY <1>2 DEF Blocks, Works, Call, ScriptRuns, Waiting
  <2> QED BY <1>2, <2>1, BlocksKeeps
<1>3. CASE /\ Completes(call, s, FALSE)
           /\ UNCHANGED <<vars, registered, waits, loopVars, event_num>>
  <2>1. ObjectsMade
    BY <1>3, CompletesMakes DEF SocketInv
  <2>2. TypeOK'
    BY <1>3, TypeOKStable DEF SocketInv, Schedule
  <2>3. Polled' /\ CallsKeepObjects
    BY <1>3, <2>1, <2>2, GrowthKeeps DEF SocketInv
  <2> QED BY <1>3, <2>3, ObjectsTurn DEF loopVars
<1> QED BY <1>1, <1>2, <1>3 DEF Call

\* A call that was woken and comes to its end, whatever the caller does next
\* on the scheduler's side.
LEMMA FinishesKeeps ==
  ASSUME SocketInv, InWaitEvent, NEW call \in Calls, NEW s \in Sockets,
         waits[running].sock = s, socket[s] \in Fds, Finishes(call, s),
         Schedule', WaitersStay
  PROVE  SocketInv'
<1>1. ObjectsMade
  BY CompletesMakes DEF Finishes, SocketInv
<1>2. Waiting(running)
  BY DEF InWaitEvent, Waiting
<1>3. Polled' /\ CallsKeepObjects
  BY <1>1, <1>2, EndsKeeps DEF Finishes, SocketInv, Schedule
<1>4. UNCHANGED <<events, phase>>
  BY DEF Finishes, loopVars
<1> QED BY <1>3, <1>4, TurnGoesOn, FirstSlotFirst

\* The call that ends on the executing stack, with the scheduler at rest.
LEMMA FinishesSchedule ==
  ASSUME Schedule, SocketTypeOK, UNCHANGED <<swapVars, scriptVars>>,
         waits' = [waits EXCEPT ![running] = NotWaiting],
         fault' = fault \/ fault' \in Faults \ {"none", "stale_resume"}
  PROVE  Schedule' /\ WaitersStay
<1>1. SwapInv'
  BY SwapInvStable DEF Schedule, scriptVars
<1>2. TypeOK' /\ NoStaleResume'
  BY <1>1 DEF Schedule, TypeOK, SwapInv, NoStaleResume, scriptVars
<1>3. UNCHANGED <<ctx, running, timers, user_yield_coros>>
  BY DEF scriptVars, swapVars
<1>4. \A x \in Contexts : waits'[x] = IF x = running THEN NotWaiting ELSE waits[x]
  BY DEF SocketTypeOK
<1>5. WaitersStay
  BY <1>3, <1>4 DEF WaitersStay
<1>6. Wakes'
  <2>1. ASSUME NEW x \in Cids
        PROVE  (ctx'[x] = "parked" /\ ~ Waiting(x)') <=> (ctx[x] = "parked" /\ ~ Waiting(x))
    BY <1>3, <1>4, ActiveRuns, ContextsSplit DEF Waiting
  <2> QED BY <1>3, <2>1 DEF Schedule, Wakes
<1> QED BY <1>1, <1>2, <1>5, <1>6, ScheduleStays

\* The rest of wait_event.
LEMMA WokenKeeps ==
  ASSUME SocketInv, Woken
  PROVE  SocketInv'
<1> DEFINE call == waits[running].call
           s == waits[running].sock
<1>1. InWaitEvent /\ UserCode /\ Waiting(running) /\ call \in Calls /\ s \in Sockets
  BY WaitsTyped, ActiveRuns DEF Woken, InWaitEvent, Waiting, SocketInv, Polled
<1>2. CASE socket[s] = LIB_BAD_SOCKET /\ DieOf("bad_socket")
  BY <1>2, DeadKeeps DEF Faults
<1>3. CASE socket[s] \in Fds /\ BlocksAgain(call, s)
  BY <1>1, <1>3, BlocksKeeps DEF BlocksAgain
<1>4. CASE socket[s] \in Fds /\ Finishes(call, s) /\ UNCHANGED vars
  <2>1. Schedule' /\ WaitersStay
    BY <1>4, FinishesSchedule DEF Finishes, SocketInv, Polled, vars
  <2> QED BY <1>1, <1>4, <2>1, FinishesKeeps
<1> QED BY <1>2, <1>3, <1>4 DEF Woken

-----------------------------------------------------------------------------
(* The steps of event_wait. *)

LEMMA LoopStartsKeeps ==
  ASSUME SocketInv, LoopStarts
  PROVE  SocketInv'
<1>1. UNCHANGED <<swapVars, scriptVars, fault, running, callee, vars, events, waits>>
      /\ phase' = "poll" /\ phase = "script"
  BY DEF LoopStarts, ScriptRuns, vars, swapVars
<1>2. Schedule'
  BY <1>1, ScheduleStable DEF SocketInv, Schedule, TypeOK, scriptVars
<1>3. Polled'
  BY <1>1, <1>2 DEF LoopStarts, SocketInv, Polled, Schedule, SocketTypeOK, DescriptorsKept,
                    CallsOnSockets, WatchesWaiters, WaitersRegistered, Counted, Waiting, kernelVars
<1>4. Pending'
  BY <1>1, FirstSlotFirst DEF LoopStarts, SocketInv, Pending
<1> QED BY <1>2, <1>3, <1>4 DEF SocketInv

\* epoll_wait answers no more descriptors than there are.
LEMMA ReadyFits ==
  Cardinality(WatchedAndReady) \in Nat /\ 1..Cardinality(WatchedAndReady) \subseteq Fds
<1>1. MaxFd \in Nat
  BY CoSocketAssumption
<1>2. IsFiniteSet(Fds) /\ Cardinality(Fds) = MaxFd
  BY <1>1, FS_Interval DEF Fds
<1>3. WatchedAndReady \subseteq Fds
  BY DEF WatchedAndReady
<1>4. Cardinality(WatchedAndReady) \in Nat /\ Cardinality(WatchedAndReady) <= MaxFd
  BY <1>2, <1>3, FS_Subset, FS_CardinalityType
<1> QED BY <1>1, <1>4 DEF Fds

\* What epoll_wait answers is true: each word names a coroutine that waits for
\* that descriptor, and no coroutine waits for two.
LEMMA PollKeeps ==
  ASSUME SocketInv, Poll
  PROVE  SocketInv'
<1> DEFINE n == Cardinality(WatchedAndReady)
<1>1. PICK order \in Injection(1..n, WatchedAndReady) :
        events' = [i \in 1..n |-> touint64(order[i], registered[order[i]].cid)]
  BY DEF Poll
<1>2. /\ LoopRuns /\ phase' = "handle"
      /\ UNCHANGED <<vars, socket, kernelVars, registered, waits, event_num>>
      /\ UNCHANGED <<swapVars, scriptVars, fault, running, callee, ctx>>
  BY DEF Poll, vars, swapVars
<1>3. Schedule'
  BY <1>2, ScheduleStable DEF SocketInv, Schedule, TypeOK, scriptVars
<1>4. order \in [1..n -> WatchedAndReady]
      /\ \A i, j \in 1..n : order[i] = order[j] => i = j
  BY DEF Injection, IsInjective
<1>5. ASSUME NEW i \in 1..n
      PROVE  /\ order[i] \in Fds /\ registered[order[i]].cid \in Cids
             /\ Waiting(registered[order[i]].cid) /\ waits[registered[order[i]].cid].added
             /\ ctx[registered[order[i]].cid] = "parked"
             /\ socket[waits[registered[order[i]].cid].sock] = order[i]
  <2> DEFINE fd == order[i]
             c == registered[order[i]].cid
  <2>1. fd \in Fds /\ c # Main
    BY <1>4 DEF WatchedAndReady
  <2>2. registered[fd] # NoRegistration
    BY <2>1 DEF NoRegistration
  <2>3. c \in Cids
    BY <2>1, <2>2 DEF SocketInv, Polled, SocketTypeOK
  <2>4. Waiting(c) /\ waits[c].added /\ socket[waits[c].sock] = fd
    BY <2>1, <2>2 DEF SocketInv, Polled, WatchesWaiters
  <2>5. ctx[c] = "parked"
    BY <1>2, <2>3, <2>4, ActiveRuns, ContextsSplit DEF SocketInv, LoopRuns
  <2> QED BY <2>1, <2>3, <2>4, <2>5
<1>6. ASSUME NEW i \in 1..n
      PROVE  /\ events'[i] = touint64(order[i], registered[order[i]].cid)
             /\ events'[i] \in Nat
             /\ fromuint64(events'[i]).id = registered[order[i]].cid
  BY <1>1, <1>5, WordsRoundTrip
<1>7. Pending'
  <2>1. DOMAIN events' = 1..n
    BY <1>1
  <2>2. events' \in [DOMAIN events' -> Nat]
    BY <1>1, <1>6
  <2>3. \A i \in 1..n : Intact(i)'
    BY <1>2, <1>5, <1>6 DEF Intact, Waiting
  <2>4. ASSUME NEW i \in 1..n, NEW j \in 1..n, i # j
        PROVE  fromuint64(events'[i]).id # fromuint64(events'[j]).id
    BY <1>4, <1>5, <1>6, <2>4
  <2>5. running' = Main /\ callee'[Main] = NoCallee
    BY <1>2 DEF LoopRuns, UserCode
  <2> QED BY <1>2, <2>1, <2>2, <2>3, <2>4, <2>5 DEF Pending
<1>8. SocketTypeOK'
  <2>1. DOMAIN events' \subseteq Fds /\ \A i \in DOMAIN events' : events'[i] \in Nat
    BY <1>1, <1>6, ReadyFits
  <2> QED BY <1>2, <1>3, <2>1 DEF SocketInv, Polled, Schedule, SocketTypeOK, kernelVars
<1>9. Polled'
  BY <1>2, <1>8 DEF SocketInv, Polled, DescriptorsKept, CallsOnSockets, WatchesWaiters,
                    WaitersRegistered, Counted, Waiting, kernelVars
<1> QED BY <1>3, <1>7, <1>9 DEF SocketInv

\* A function of no argument is the empty sequence.
LEMMA EmptyFunction ==
  ASSUME NEW S, NEW f \in [{} -> S]
  PROVE  f = << >>
<1>1. << >> = [x \in {} |-> << >>[x]]
  OBVIOUS
<1>2. f = [x \in {} |-> f[x]]
  OBVIOUS
<1> QED BY <1>1, <1>2

\* The loop takes the event in the lowest slot, and the coroutine it names is
\* parked in a wait that epoll knows of.
LEMMA FirstEvent ==
  ASSUME SocketInv, events # << >>
  PROVE  /\ Min(DOMAIN events) \in DOMAIN events
         /\ \A j \in DOMAIN events : Min(DOMAIN events) <= j
         /\ \E id \in Cids :
              /\ fromuint64(events[Min(DOMAIN events)]).id = id
              /\ Waiting(id) /\ waits[id].added /\ ctx[id] = "parked"
<1> DEFINE i == Min(DOMAIN events)
<1>1. events \in [DOMAIN events -> Nat] /\ DOMAIN events \in SUBSET Nat
  BY DEF SocketInv, Pending, Polled, SocketTypeOK, Fds
<1>2. DOMAIN events # {}
  BY <1>1, EmptyFunction
<1>3. i \in DOMAIN events /\ \A j \in DOMAIN events : i <= j
  BY <1>1, <1>2, MinIsLeast
<1> HIDE DEF i
<1>4. PICK fd \in Fds, id \in Cids :
        /\ events[i] = touint64(fd, id)
        /\ Waiting(id) /\ waits[id].added /\ ctx[id] = "parked"
  BY <1>3 DEF SocketInv, Pending, Intact
<1>5. fromuint64(events[i]).id = id
  BY <1>4, WordsRoundTrip
<1> QED BY <1>3, <1>4, <1>5 DEF i

\* The event of a turn resumes the coroutine it was meant for, and leaves the
\* other events as true as they were.
LEMMA DispatchKeeps ==
  ASSUME SocketInv, Dispatch
  PROVE  SocketInv'
<1> DEFINE i == Min(DOMAIN events)
<1>0. DOMAIN events \subseteq Fds /\ Fds \subseteq Nat /\ events \in [DOMAIN events -> Nat]
  BY DEF SocketInv, Pending, Polled, SocketTypeOK, Fds
<1>1. i \in DOMAIN events /\ \A j \in DOMAIN events : i <= j
  BY FirstEvent DEF Dispatch
<1>2. /\ LoopRuns /\ events' = Restrict(events, DOMAIN events \ {i})
      /\ Resume(fromuint64(events[i]).id)
      /\ UNCHANGED <<scriptVars, socket, kernelVars, registered, waits, phase, event_num>>
  BY DEF Dispatch
<1> HIDE DEF i
<1>4. PICK id \in Cids :
        /\ fromuint64(events[i]).id = id
        /\ Waiting(id) /\ waits[id].added /\ ctx[id] = "parked"
  BY FirstEvent DEF Dispatch, i
<1>5. Schedule' /\ ctx' = [ctx EXCEPT ![id] = "active"]
  BY <1>2, <1>4, DispatchSchedule DEF LoopRuns, SocketInv
<1>6. /\ DOMAIN events' = DOMAIN events \ {i}
      /\ \A j \in DOMAIN events \ {i} : events'[j] = events[j]
      /\ events' \in [DOMAIN events' -> Nat]
  BY <1>0, <1>2 DEF Restrict
<1>7. 1 \notin DOMAIN events'
  <2>1. i \in Nat \ {0} /\ \A j \in DOMAIN events : j \in Nat \ {0}
    BY <1>0, <1>1 DEF Fds
  <2> QED BY <1>1, <1>6, <2>1
<1>8. ASSUME NEW j \in DOMAIN events' PROVE Intact(j)'
  <2>1. j \in DOMAIN events /\ j # i /\ events'[j] = events[j]
    BY <1>6, <1>8
  <2>2. PICK f \in Fds, c \in Cids :
          /\ events[j] = touint64(f, c)
          /\ Waiting(c) /\ waits[c].added /\ ctx[c] = "parked"
          /\ socket[waits[c].sock] \in {f, LIB_BAD_SOCKET}
    BY <2>1 DEF SocketInv, Pending, Intact
  <2>3. c # id
    <3>1. fromuint64(events[j]).id # fromuint64(events[i]).id
      BY <1>1, <2>1 DEF SocketInv, Pending
    <3>2. fromuint64(events[j]).id = c
      BY <2>2, WordsRoundTrip
    <3> QED BY <1>4, <3>1, <3>2
  <2>4. ctx'[c] = "parked"
    BY <1>5, <2>2, <2>3, ActiveRuns DEF SocketInv
  <2> QED BY <1>2, <2>1, <2>2, <2>4 DEF Intact, Waiting
<1>9. Pending'
  <2>1. phase' = "handle"
    BY <1>0, <1>2 DEF SocketInv, Pending, Dispatch
  <2>2. ASSUME NEW j \in DOMAIN events', NEW k \in DOMAIN events', j # k
        PROVE  fromuint64(events'[j]).id # fromuint64(events'[k]).id
    BY <1>6, <2>2 DEF SocketInv, Pending
  <2>3. \A j \in DOMAIN events' : Intact(j)'
    BY <1>8
  <2> HIDE DEF Intact
  <2>4. events' \in [DOMAIN events' -> Nat]
    BY <1>6
  <2>5. 1 \in DOMAIN events' => running' = Main /\ callee'[Main] = NoCallee
    BY <1>7
  <2> QED BY <2>1, <2>2, <2>3, <2>4, <2>5 DEF Pending
<1>10. Polled'
  <2>1. DOMAIN events' \subseteq Fds /\ \A j \in DOMAIN events' : events'[j] \in Nat
    BY <1>0, <1>6
  <2>2. SocketTypeOK'
    BY <1>2, <1>5, <2>1 DEF SocketInv, Polled, Schedule, SocketTypeOK, kernelVars
  <2> QED BY <1>2, <2>2 DEF SocketInv, Polled, DescriptorsKept, CallsOnSockets, WatchesWaiters,
                            WaitersRegistered, Counted, Waiting, kernelVars
<1> QED BY <1>5, <1>9, <1>10 DEF SocketInv

\* A sleeper is not in wait_event, so its timer takes nobody out of it.
LEMMA TimerKeeps ==
  ASSUME SocketInv, NEW co \in Cids, TimerFires(co)
  PROVE  SocketInv'
<1>1. /\ UserCode /\ running = Main /\ events = << >> /\ UNCHANGED socketVars
      /\ timers[co] > 0 /\ timers' = [timers EXCEPT ![co] = @ - 1] /\ Resume(co)
      /\ UNCHANGED <<last_cid, stage, defer_tasks, user_yield_coros>>
  BY DEF TimerFires, SleepCall, LoopRuns
<1>2. UNCHANGED waits
  BY <1>1 DEF socketVars
<1>3. ~ Waiting(running)
  BY <1>1 DEF SocketInv, Schedule, CallsParked
<1>4. Schedule' /\ WaitersStay
  BY <1>1, <1>2, <1>3, WakesSchedule DEF SocketInv
<1>5. 1 \notin DOMAIN events
  BY <1>1
<1> QED BY <1>1, <1>4, <1>5, SchedulerTurn

\* event_wait returns, and the epoll set goes, only when nobody waits.
LEMMA TurnEndsKeeps ==
  ASSUME SocketInv, TurnEnds
  PROVE  SocketInv'
<1>1. /\ phase' \in {"script", "poll"} /\ events = << >>
      /\ UNCHANGED <<vars, socket, kernelVars, waits, events>>
      /\ UNCHANGED <<swapVars, scriptVars, fault, running, callee>>
  BY DEF TurnEnds, event_free, vars, swapVars
<1>2. Schedule'
  BY <1>1, ScheduleStable DEF SocketInv, Schedule, TypeOK, scriptVars
<1>3. \/ UNCHANGED <<registered, event_num>>
      \/ /\ event_num = 0 /\ event_num' = 0
         /\ registered' = [fd \in Fds |-> NoRegistration]
  BY DEF TurnEnds, event_free
<1>4. SocketTypeOK'
  BY <1>1, <1>2, <1>3 DEF SocketInv, Polled, Schedule, SocketTypeOK, kernelVars
<1>5. DescriptorsKept' /\ CallsOnSockets' /\ Counted'
  BY <1>1, <1>3 DEF SocketInv, Polled, DescriptorsKept, CallsOnSockets, Counted, Waiting, kernelVars
<1>6. WatchesWaiters' /\ WaitersRegistered'
  <2>1. CASE UNCHANGED <<registered, event_num>>
    BY <1>1, <2>1 DEF SocketInv, Polled, WatchesWaiters, WaitersRegistered, Waiting
  <2>2. CASE event_num = 0 /\ registered' = [fd \in Fds |-> NoRegistration]
    <3>1. \A x \in Cids : waits'[x] = NotWaiting
      BY <1>1, <2>2, ContextsSplit DEF SocketInv, Polled, Counted, Waiting
    <3> QED BY <2>2, <3>1, NotWaitingFields DEF WatchesWaiters, WaitersRegistered
  <2> QED BY <1>3, <2>1, <2>2
<1>7. Pending'
  BY <1>1 DEF SocketInv, Pending
<1> QED BY <1>2, <1>4, <1>5, <1>6, <1>7 DEF SocketInv, Polled

LEMMA PeerKeeps ==
  ASSUME SocketInv, NEW fd \in Fds, PeerActs(fd) \/ PeerAborts(fd)
  PROVE  SocketInv'
<1>1. UNCHANGED <<vars, socket, fdstate, registered, waits, loopVars, event_num>>
      /\ \E can \in SUBSET {"read", "write"} : ready' = [ready EXCEPT ![fd] = can]
  <2>1. ready[fd] \in SUBSET {"read", "write"}
    BY DEF SocketInv, Polled, SocketTypeOK
  <2> QED BY <2>1 DEF PeerActs, PeerAborts
<1>2. /\ fdstate' \in [Fds -> {"closed", "created", "bound", "listening", "connected"}]
      /\ ready' \in [Fds -> SUBSET {"read", "write"}]
      /\ \A f \in Fds : fdstate[f] # "closed" <=> fdstate'[f] # "closed"
  BY <1>1 DEF SocketInv, Polled, SocketTypeOK
<1>3. TypeOK'
  BY <1>1, TypeOKStable DEF SocketInv, Schedule
<1>4. Polled' /\ CallsKeepObjects
  BY <1>1, <1>2, <1>3, KernelKeeps DEF SocketInv
<1> QED BY <1>1, <1>4, ObjectsTurn DEF loopVars

-----------------------------------------------------------------------------
(* Sockets, altogether. *)

LEMMA SocketInitInv == SocketInit => SocketInv /\ Owned
<1> SUFFICES ASSUME SocketInit PROVE SocketInv /\ Owned
  OBVIOUS
<1>1. IInv
  BY InitInv DEF SocketInit
<1>2. \A x \in Contexts : ~ Waiting(x)
  BY DEF SocketInit, Waiting
<1>3. Schedule
  BY <1>1, <1>2, ContextsSplit
     DEF Schedule, IInv, Wakes, OneWakeSource, CallsParked, SwapInv, SwapTypeOK
<1>4. SocketTypeOK
  BY <1>1 DEF SocketInit, SocketTypeOK, IInv
<1>5. DescriptorsKept /\ CallsOnSockets /\ WatchesWaiters /\ WaitersRegistered /\ Counted /\ Owned
  BY <1>2, BadValues, ContextsSplit, NotWaitingFields
     DEF SocketInit, DescriptorsKept, CallsOnSockets, WatchesWaiters, WaitersRegistered, Counted,
         Owned
<1>6. Pending
  BY DEF SocketInit, Pending
<1> QED BY <1>3, <1>4, <1>5, <1>6 DEF SocketInv, Polled

LEMMA ScriptKeeps ==
  ASSUME SocketInv, NEW s \in Sockets, SocketScript(s)
  PROVE  SocketInv'
<1>1. CASE Socket_construct(s)
  BY <1>1, NewKeeps DEF Socket_construct
<1>2. CASE Socket_bind(s) \/ Socket_listen(s)
  BY <1>2, MovesKeeps DEF Socket_bind, Socket_listen
<1>3. CASE Socket_close(s) \/ Socket_free(s)
  BY <1>3, CloseKeeps
<1>4. ASSUME NEW call \in Calls, Call(call, s) PROVE SocketInv'
  BY <1>4, CallKeeps
<1> QED BY <1>1, <1>2, <1>3, <1>4 DEF SocketScript

LEMMA LoopKeeps ==
  ASSUME SocketInv, LoopStep
  PROVE  SocketInv'
BY PollKeeps, DispatchKeeps, TimerKeeps, TurnEndsKeeps, PeerKeeps DEF LoopStep

\* A call that came back, whatever it resumed did.
LEMMA ReturnsKeep ==
  ASSUME SocketInv, SwapInReturns, UNCHANGED socketVars
  PROVE  SocketInv'
<1>1. Schedule' /\ WaitersStay
  BY ReturnsSchedule DEF SocketInv, socketVars
<1> QED BY <1>1, SchedulerTurn, FirstSlotFirst

LEMMA SocketStutters ==
  ASSUME SocketInv, UNCHANGED socketAllVars
  PROVE  SocketInv'
<1>1. UNCHANGED <<swapVars, scriptVars, fault, vars, waits, running, callee, socketVars>>
  BY DEF socketAllVars, vars, swapVars, socketVars
<1>2. Schedule' /\ WaitersStay
  BY <1>1, ScheduleStable DEF SocketInv, Schedule, TypeOK, scriptVars
<1> QED BY <1>1, <1>2, SchedulerTurn

LEMMA SocketNextInv == SocketInv /\ [SocketNext]_socketAllVars => SocketInv'
<1> SUFFICES ASSUME SocketInv, [SocketNext]_socketAllVars PROVE SocketInv'
  OBVIOUS
<1>1. CASE SwapInReturns /\ UNCHANGED socketVars
  BY <1>1, ReturnsKeep
<1>2. CASE SchedulerScript
  <2>1. Schedule' /\ WaitersStay
    BY <1>2, ScriptSchedule DEF SocketInv
  <2> QED BY <1>2, <2>1, SchedulerTurn, FirstSlotFirst DEF SchedulerScript
<1>3. ASSUME NEW s \in Sockets, SocketScript(s) PROVE SocketInv'
  BY <1>3, ScriptKeeps
<1>4. CASE Woken
  BY <1>4, WokenKeeps
<1>5. CASE LoopStarts
  BY <1>5, LoopStartsKeeps
<1>6. CASE LoopStep
  BY <1>6, LoopKeeps
<1>7. CASE UNCHANGED socketAllVars
  BY <1>7, SocketStutters
<1> QED BY <1>1, <1>2, <1>3, <1>4, <1>5, <1>6, <1>7 DEF SocketNext

THEOREM SocketInvariantHolds == SocketSpec => []SocketInv
BY SocketInitInv, SocketNextInv, PTL DEF SocketSpec

-----------------------------------------------------------------------------
(* Descriptors without an object. *)

LEMMA OwnedGrows ==
  ASSUME Owned, Polled, ObjectsMade
  PROVE  Owned'
<1> SUFFICES ASSUME NEW fd \in Fds, fdstate'[fd] # "closed"
             PROVE  \E t \in Sockets : socket'[t] = fd
  BY DEF Owned
<1>1. CASE fdstate[fd] = "closed"
  BY <1>1 DEF ObjectsMade
<1>2. CASE fdstate[fd] # "closed"
  <2>1. PICK t \in Sockets : socket[t] = fd
    BY <1>2 DEF Owned
  <2> QED BY <2>1, BadValues DEF ObjectsMade
<1> QED BY <1>1, <1>2

LEMMA OwnedStable ==
  ASSUME Owned, UNCHANGED socket,
         \A fd \in Fds : fdstate'[fd] # "closed" => fdstate[fd] # "closed"
  PROVE  Owned'
BY DEF Owned

LEMMA OwnedCloses ==
  ASSUME Owned, Polled, NEW s \in Sockets, libsocket_close(socket[s]),
         NEW v, socket' = [socket EXCEPT ![s] = v]
  PROVE  Owned'
<1> SUFFICES ASSUME NEW fd \in Fds, fdstate'[fd] # "closed"
             PROVE  \E t \in Sockets : socket'[t] = fd
  BY DEF Owned
<1>1. fd # socket[s] /\ fdstate[fd] # "closed"
  BY DEF libsocket_close, kernelVars, Polled, SocketTypeOK
<1>2. PICK t \in Sockets : socket[t] = fd
  BY <1>1 DEF Owned
<1> QED BY <1>1, <1>2 DEF Polled, SocketTypeOK

\* Only close and the destructor take the object off a descriptor, and both
\* close it; what opens one makes an object for it.
LEMMA OwnedNext ==
  ASSUME SocketInv, Owned, [SocketNext]_socketAllVars
  PROVE  Owned'
<1>0. Polled
  BY DEF SocketInv
<1>1. CASE UNCHANGED <<socket, fdstate>>
  BY <1>1, OwnedStable
<1>2. ASSUME NEW s \in Sockets, Socket_construct(s) PROVE Owned'
  <2>1. ready' \in [Fds -> SUBSET {"read", "write"}]
    BY <1>0, <1>2 DEF Socket_construct, Socket_new, Polled, SocketTypeOK
  <2>2. ObjectsMade
    BY <1>0, <1>2, <2>1, WrapsMakes DEF Socket_construct, Socket_new
  <2> QED BY <1>0, <2>2, OwnedGrows
<1>3. ASSUME NEW s \in Sockets, NEW from \in SUBSET {"created", "bound"}, NEW to, Moves(s, from, to)
      PROVE  Owned'
  <2>1. UNCHANGED socket /\ \A fd \in Fds : fdstate'[fd] # "closed" => fdstate[fd] # "closed"
    BY <1>0, <1>3 DEF Moves, DieOf, socketVars, kernelVars, Polled, SocketTypeOK
  <2> QED BY <2>1, OwnedStable
<1>4. ASSUME NEW s \in Sockets, Socket_close(s) \/ Socket_free(s) PROVE Owned'
  <2>1. CASE libsocket_close(socket[s]) /\ \E v : socket' = [socket EXCEPT ![s] = v]
    BY <1>0, <2>1, OwnedCloses
  <2>2. CASE DieOf("bad_socket")
    BY <1>1, <2>2 DEF DieOf, socketVars, kernelVars
  <2> QED BY <1>4, <2>1, <2>2 DEF Socket_close, Socket_free
<1>5. ASSUME NEW call \in Calls, NEW s \in Sockets, NEW gaveUp, Completes(call, s, gaveUp)
      PROVE  Owned'
  BY <1>0, <1>5, CompletesMakes, OwnedGrows
<1>6. ASSUME NEW call, NEW s, NEW reg, Blocks(call, s, reg) PROVE Owned'
  BY <1>1, <1>6 DEF Blocks, wait_event, DieOf, socketVars, kernelVars
<1>7. CASE DieOf("bad_socket")
  BY <1>1, <1>7 DEF DieOf, socketVars, kernelVars
<1>8. ASSUME NEW call \in Calls, NEW s \in Sockets, Call(call, s) PROVE Owned'
  BY <1>5, <1>6, <1>7, <1>8 DEF Call
<1>9. CASE Woken
  <2>1. waits[running].call \in Calls /\ waits[running].sock \in Sockets
    BY <1>9, WaitsTyped, ActiveRuns DEF Woken, InWaitEvent, Waiting, SocketInv, Polled
  <2> QED BY <1>5, <1>6, <1>7, <1>9, <2>1 DEF Woken, BlocksAgain, Finishes
<1>10. ASSUME NEW s \in Sockets, SocketScript(s) PROVE Owned'
  BY <1>2, <1>3, <1>4, <1>8, <1>10 DEF SocketScript, Socket_bind, Socket_listen
<1>11. CASE \/ SwapInReturns /\ UNCHANGED socketVars
            \/ SchedulerScript
            \/ LoopStarts
            \/ LoopStep
            \/ UNCHANGED socketAllVars
  <2>1. UNCHANGED <<socket, fdstate>>
    BY <1>11 DEF SchedulerScript, LoopStarts, LoopStep, Poll, Dispatch, TimerFires, TurnEnds,
                 PeerActs, PeerAborts, socketVars, socketAllVars, kernelVars
  <2> QED BY <1>1, <2>1
<1> QED BY <1>9, <1>10, <1>11 DEF SocketNext

LEMMA OwnersHold == SocketSpec => []Owned
<1>1. SocketSpec => []SocketInv
  BY SocketInvariantHolds
<1>2. SocketInit => Owned
  BY SocketInitInv
<1>3. SocketInv /\ Owned /\ [SocketNext]_socketAllVars => Owned'
  BY OwnedNext
<1> QED BY <1>1, <1>2, <1>3, PTL DEF SocketSpec

-----------------------------------------------------------------------------
(* What the runs check, for any number of coroutines, sockets and descriptors. *)

\* Every variable keeps its type: the loop's array holds no more events than
\* the process can have descriptors, and none it cannot name.
THEOREM SocketTypeCorrect == SocketSpec => []SocketTypeOK
BY SocketInvariantHolds, PTL DEF SocketInv, Polled

\* The loop resumes for an event the coroutine that waits for it, although
\* others ran, closed sockets and called epoll since the kernel answered.
THEOREM EventsStayIntact == SocketSpec => []EventsIntact
<1>1. SocketInv => EventsIntact
  <2> SUFFICES ASSUME SocketInv, NEW i \in DOMAIN events
               PROVE  LET e == fromuint64(events[i]) IN
                 /\ e.id \in Cids
                 /\ Waiting(e.id) /\ ctx[e.id] = "parked"
                 /\ socket[waits[e.id].sock] \in {e.fd, LIB_BAD_SOCKET}
                 /\ \A j \in DOMAIN events \ {i} : fromuint64(events[j]).id # e.id
    BY DEF EventsIntact
  <2>1. PICK fd \in Fds, id \in Cids :
          /\ events[i] = touint64(fd, id)
          /\ Waiting(id) /\ waits[id].added /\ ctx[id] = "parked"
          /\ socket[waits[id].sock] \in {fd, LIB_BAD_SOCKET}
    BY DEF SocketInv, Pending, Intact
  <2>2. fromuint64(events[i]) = [fd |-> fd, id |-> id]
    BY <2>1, WordsRoundTrip
  <2>3. \A j \in DOMAIN events \ {i} : fromuint64(events[j]).id # fromuint64(events[i]).id
    BY DEF SocketInv, Pending
  <2> QED BY <2>1, <2>2, <2>3
<1> QED BY <1>1, SocketInvariantHolds, PTL

\* wait_event's registration stands until the coroutine runs again, so the
\* EPOLL_CTL_DEL it makes then is of its own.
THEOREM WaitersStayRegistered == SocketSpec => []WaitersRegistered
BY SocketInvariantHolds, PTL DEF SocketInv, Polled

\* A descriptor that is open belongs to one object.
THEOREM DescriptorsHaveOwners == SocketSpec => []DescriptorsOwned
<1>1. SocketInv /\ Owned => DescriptorsOwned
  <2> SUFFICES ASSUME SocketInv, Owned PROVE DescriptorsOwned
    OBVIOUS
  <2>1. DescriptorsKept
    BY DEF SocketInv, Polled
  <2>2. ASSUME NEW fd \in Fds, fdstate[fd] # "closed"
        PROVE  Cardinality({s \in Sockets : socket[s] = fd}) = 1
    <3>1. PICK s \in Sockets : socket[s] = fd
      BY <2>2 DEF Owned
    <3>2. {t \in Sockets : socket[t] = fd} = {s}
      BY <2>1, <3>1 DEF DescriptorsKept
    <3> QED BY <3>2, FS_Singleton
  <2> QED BY <2>1, <2>2 DEF DescriptorsKept, DescriptorsOwned
<1> QED BY <1>1, SocketInvariantHolds, OwnersHold, PTL

\* No socket call, timer or event resumes a coroutine that is not parked.
THEOREM SocketsResumeParked == SocketSpec => []NoStaleResume
BY SocketInvariantHolds, PTL DEF SocketInv, Schedule

\* event_wait returns when all that is parked is in Cco::yield: each parked
\* coroutine has one who wakes it, no timer is left, and event_num, which
\* nothing counts down, is 0 only when nobody ever waited in this epoll set.
THEOREM LoopReturnsLast == SocketSpec => LoopKeepsWaiting
<1> DEFINE Returns == phase # "script" /\ phase' = "script"
           Idle == \A x \in Cids : ctx[x] = "parked" => x \in user_yield_coros
<1>1. SocketInv /\ [SocketNext]_socketAllVars => [Returns => Idle]_socketAllVars
  <2> SUFFICES ASSUME SocketInv, SocketNext, Returns PROVE Idle
    OBVIOUS
  <2>1. ASSUME UNCHANGED phase PROVE FALSE
    BY <2>1
  <2>2. CASE TurnEnds
    <3>1. (\A co \in Cids : timers[co] = 0) /\ event_num = 0
      BY <2>2 DEF TurnEnds
    <3>2. \A co \in Cids : ~ Waiting(co)
      BY <3>1, ContextsSplit DEF SocketInv, Polled, Counted
    <3> QED BY <3>1, <3>2 DEF SocketInv, Schedule, Wakes
  <2>3. ASSUME NEW s \in Sockets, SocketScript(s) PROVE FALSE
    <3>1. ASSUME NEW call, NEW reg, Blocks(call, s, reg) PROVE FALSE
      BY <2>1, <3>1 DEF Blocks, wait_event, DieOf, socketVars, loopVars
    <3>2. CASE DieOf("bad_socket")
      BY <2>1, <3>2 DEF DieOf, socketVars, loopVars
    <3> QED BY <2>1, <2>3, <3>1, <3>2
         DEF SocketScript, Socket_construct, Socket_new, Socket_bind, Socket_listen, Moves,
             Socket_close, Socket_free, Call, loopVars
  <2>4. CASE Woken
    BY <2>1, <2>4 DEF Woken, BlocksAgain, Blocks, wait_event, Finishes, DieOf, socketVars, loopVars
  <2>5. ASSUME NEW co \in Cids, TimerFires(co) PROVE FALSE
    BY <2>1, <2>5 DEF TimerFires, socketVars, loopVars
  <2>6. ASSUME NEW fd \in Fds, PeerActs(fd) \/ PeerAborts(fd) PROVE FALSE
    BY <2>1, <2>6 DEF PeerActs, PeerAborts, loopVars
  <2>7. CASE (SwapInReturns /\ UNCHANGED socketVars) \/ SchedulerScript \/ LoopStarts \/ Poll \/ Dispatch
    BY <2>1, <2>7 DEF SchedulerScript, LoopStarts, Poll, Dispatch, socketVars, loopVars
  <2> QED BY <2>2, <2>3, <2>4, <2>5, <2>6, <2>7 DEF SocketNext, LoopStep
<1> QED BY <1>1, SocketInvariantHolds, PTL DEF SocketSpec, LoopKeepsWaiting

=============================================================================
