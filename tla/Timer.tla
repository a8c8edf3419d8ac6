-------------------------------- MODULE Timer --------------------------------
(***************************************************************************)
(* Lib\Timer, the timer of Coroutine::sleep and the event loop that runs   *)
(* them: create_time_event, del_time, search_nearest_time,                 *)
(* process_time_event and event_wait, for a script that waits for no       *)
(* socket.                                                                 *)
(*                                                                         *)
(* Delays are any long.  Two of the numbers the code makes of them are     *)
(* narrowed to an int, the timeout of epoll_wait and the answer of a tick, *)
(* and sleep gives its seconds to a function that takes milliseconds.      *)
(*                                                                         *)
(* create_time_event counts ids up and inserts at the head, so the linked  *)
(* list is always in descending order of ids: it is a function from the    *)
(* ids in it, and te->next is the next smaller id.                         *)
(***************************************************************************)
EXTENDS Integers

CONSTANTS Second,       \* milliseconds in a second: 1000, or fewer to check
          HalfInt,      \* an int is in -HalfInt..HalfInt - 1: 2^31, or fewer
          TickDelays,   \* arguments of Timer::tick
          AfterDelays,  \* arguments of Timer::after
          SleepTimes,   \* arguments of Cco::sleep, in milliseconds
          MaxTimers,    \* bound: number of timers ever created
          MaxClock,     \* bound: the clock
          MaxSkew       \* bound: how often the clock is set back

ASSUME TimerAssumption ==
  /\ Second \in Nat \ {0} /\ HalfInt \in Nat /\ Second < HalfInt
  /\ TickDelays \in SUBSET Int /\ AfterDelays \in SUBSET Int
  /\ SleepTimes \in SUBSET (Nat \ {0})
  /\ MaxTimers \in Nat /\ MaxSkew \in Nat
  /\ MaxClock \in Nat /\ MaxClock >= 2 * Second

NOMORE == -1
Null == -1
NoProc == "none"
Procs == {"tick", "after", "sleep_call"}
Ids == 0..(MaxTimers - 1)

VARIABLES
  clock,       \* gettimeofday, in milliseconds
  timeNextId,  \* LibG.timeNextId
  lastTime,    \* LibG.lastTime, in seconds
  timeHead,    \* the list of TimeEvents: when_sec, when_ms, proc and data,
               \* the delay asked for; due, a history, is when that is over
  pc,          \* script, loop, epoll, walk or callback
  timeout,     \* what is left of epoll_wait's timeout
  te,          \* the TimeEvent process_time_event is at, or Null
  maxId,       \* its last timer
  proc,        \* the proc it calls, or NoProc
  fault,       \* why the process died, "none" while it lives
  owed,        \* history: timers due when this walk began, and not run yet
  skews        \* number of times the clock was set back

listVars == <<timeNextId, timeHead>>
walkVars == <<te, maxId, proc, lastTime, owed, fault>>
vars == <<clock, pc, timeout, skews, listVars, walkVars>>

Init ==
  /\ clock \in Second..(2 * Second - 1)
  /\ timeNextId = 0
  /\ lastTime = 0
  /\ timeHead = << >>
  /\ pc = "script"
  /\ timeout = 0
  /\ te = Null
  /\ maxId = Null
  /\ proc = NoProc
  /\ fault = "none"
  /\ owed = {}
  /\ skews = 0

-----------------------------------------------------------------------------
(* Times and the list. *)

Armed == DOMAIN timeHead

\* C's division and remainder, which round to 0.
quotient(ms) == IF ms >= 0 THEN ms \div Second ELSE -((-ms) \div Second)
remainder(ms) == ms - Second * quotient(ms)

\* A long that becomes an int loses its upper bits.
toint(n) == ((n + HalfInt) % (2 * HalfInt)) - HalfInt

Ints == -HalfInt..(HalfInt - 1)

\* MUTANT add_milliseconds_tonow: without the carry.
WithoutCarry(ms) ==
  [sec |-> clock \div Second + quotient(ms), ms |-> (clock % Second) + remainder(ms)]

\* Seconds and milliseconds of now plus ms, with one carry and no borrow: of
\* a delay below 0 the milliseconds may stay below 0.
add_milliseconds_tonow(ms) ==
  LET sec == clock \div Second + quotient(ms)
      rest == (clock % Second) + remainder(ms)
  IN IF rest >= Second THEN [sec |-> sec + 1, ms |-> rest - Second]
                       ELSE [sec |-> sec, ms |-> rest]

\* A TimeEvent armed to run after ms, where the script asked for data.
TimeEvent(name, ms, data) ==
  LET when == add_milliseconds_tonow(ms) IN
  [when_sec |-> when.sec, when_ms |-> when.ms, proc |-> name, data |-> data,
   due |-> clock + data]

\* MUTANT Due: the milliseconds are compared whatever the seconds are.
DueInAnySecond(when) ==
  clock \div Second > when.when_sec \/ clock % Second >= when.when_ms

\* The comparison of process_time_event.
Due(when) ==
  \/ clock \div Second > when.when_sec
  \/ clock \div Second = when.when_sec /\ clock % Second >= when.when_ms

Earlier(a, b) ==
  \/ a.when_sec < b.when_sec
  \/ a.when_sec = b.when_sec /\ a.when_ms < b.when_ms

nearest == CHOOSE a \in Armed : \A b \in Armed : ~ Earlier(timeHead[b], timeHead[a])

\* MUTANT cut: the difference as it is.
uncut(n) == n

cut(n) == IF n < 0 THEN 0 ELSE n

\* How long epoll_wait may sleep.  Of an overdue timer the borrow makes the
\* milliseconds positive before they are cut, and they are waited for.
nearest_time ==
  LET when == timeHead[nearest]
      borrow == IF when.when_ms < clock % Second THEN 1 ELSE 0
      sec == when.when_sec - clock \div Second - borrow
      ms == when.when_ms + borrow * Second - (clock % Second)
  IN cut(sec) * Second + cut(ms)

\* The timeout for epoll_wait, an int.
search_nearest_time == IF Armed = {} THEN Second ELSE toint(nearest_time)

\* The first TimeEvent of a part of the list.
First(ids) == IF ids = {} THEN Null ELSE CHOOSE i \in ids : \A j \in ids : j <= i

Without(id) == [i \in Armed \ {id} |-> timeHead[i]]

-----------------------------------------------------------------------------
(* The script, before event_wait and in callbacks. *)

Script == pc \in {"script", "callback"} /\ fault = "none"

\* create_time_event(ms, name), for data as the script gave it.
create_time_event(name, ms, data) ==
  LET id == timeNextId IN
  /\ Script
  /\ timeNextId < MaxTimers
  /\ timeNextId' = id + 1
  /\ timeHead' = [i \in Armed \union {id} |->
                    IF i = id THEN TimeEvent(name, ms, data) ELSE timeHead[i]]
  /\ UNCHANGED <<clock, pc, timeout, skews, walkVars>>

Tick == \E ms \in TickDelays : create_time_event("tick", ms, ms)
After == \E ms \in AfterDelays : create_time_event("after", ms, ms)

\* Coroutine::sleep, up to its yield: double seconds become a long long, which
\* cuts their fraction, of milliseconds.
Sleep == \E ms \in SleepTimes : create_time_event("sleep_call", ms \div Second, ms)

\* Timer::del: unlink, finalize and free; ERROR if the id is not in the list.
del_time(id) ==
  /\ Script
  /\ id \in Armed
  /\ timeHead' = Without(id)
  /\ UNCHANGED <<clock, pc, timeout, skews, timeNextId, walkVars>>

\* Code takes time, the loop's too; what epoll_wait sleeps is in Awake.
Elapse ==
  /\ pc # "epoll"
  /\ fault = "none"
  /\ clock < MaxClock
  /\ clock' = clock + 1
  /\ UNCHANGED <<pc, timeout, skews, listVars, walkVars>>

\* Somebody sets the clock back, not into the first second of 1970.  What was
\* due need not be any more.
Skew ==
  /\ fault = "none"
  /\ skews < MaxSkew
  /\ skews' = skews + 1
  /\ clock' \in Second..(clock - 1)
  /\ owed' = {}
  /\ UNCHANGED <<pc, timeout, listVars, te, maxId, proc, lastTime, fault>>

-----------------------------------------------------------------------------
(* event_wait. *)

EventWait ==
  /\ pc = "script"
  /\ fault = "none"
  /\ pc' = "loop"
  /\ UNCHANGED <<clock, timeout, skews, listVars, walkVars>>

\* epoll_wait is called, and no descriptor is ever ready.
Block ==
  /\ pc = "loop"
  /\ timeout' = search_nearest_time
  /\ pc' = "epoll"
  /\ UNCHANGED <<clock, skews, listVars, walkVars>>

\* MUTANT Reset: the clock's jump is not noticed.
ResetNothing(now) == timeHead

\* If time went backwards, every timer's second is 0.
Reset(now) ==
  [i \in Armed |-> IF now < lastTime THEN [timeHead[i] EXCEPT !.when_sec = 0]
                                     ELSE timeHead[i]]

\* The timeout is over, perhaps a moment ago, and process_time_event begins.
\* A timeout below 0 is never over.
Awake ==
  /\ pc = "epoll"
  /\ timeout >= 0
  /\ \E late \in 0..1 :
       /\ clock + timeout + late <= MaxClock
       /\ clock' = clock + timeout + late
  /\ LET now == clock' \div Second IN
       /\ timeHead' = Reset(now)
       /\ lastTime' = now
  /\ maxId' = timeNextId - 1
  /\ te' = First(Armed)
  /\ owed' = {i \in Armed : Due(timeHead[i])'}
  /\ timeout' = 0
  /\ pc' = "walk"
  /\ UNCHANGED <<skews, timeNextId, proc, fault>>

\* MUTANT Arrived: the newest timer of this walk counts as an invalid one.
ArrivedBeforeMaxId == te < maxId /\ Due(timeHead[te])

\* A timer to run: it is due, and no callback of this walk created it.
Arrived == te <= maxId /\ Due(timeHead[te])

Skip ==
  /\ pc = "walk"
  /\ te # Null
  /\ ~ Arrived
  /\ te' = First({i \in Armed : i < te})
  /\ UNCHANGED <<clock, pc, timeout, skews, listVars, maxId, proc, lastTime, owed, fault>>

\* proc is called: a tick's or an after's callback, or sleep_call.
Call ==
  /\ pc = "walk"
  /\ te # Null
  /\ Arrived
  /\ proc' = timeHead[te].proc
  /\ owed' = owed \ {te}
  /\ pc' = "callback"
  /\ UNCHANGED <<clock, timeout, skews, listVars, te, maxId, lastTime, fault>>

\* What proc answers, an int: only a tick has more to come.
Answer(event) == IF event.proc = "tick" THEN toint(event.data) ELSE NOMORE

\* Delete the event, if it is there still, or arm it again.
Rearm(retval) ==
  \/ retval = NOMORE /\ timeHead' = Without(te)
  \/ /\ retval # NOMORE
     /\ LET event == timeHead[te] IN
        timeHead' = [timeHead EXCEPT ![te] = TimeEvent(event.proc, retval, event.data)]

\* The walk starts over: the list may have changed.
Restart == First(Armed')

\* proc returns.  The answer of a tick is in its data and the time to set in
\* its TimeEvent: both are gone if the callback deleted its own timer.
Return ==
  /\ pc = "callback"
  /\ fault = "none"
  /\ \/ /\ te \notin Armed /\ proc = "tick"
        /\ fault' = "freed_event"
        /\ UNCHANGED <<pc, proc, timeHead, te>>
     \/ /\ \/ te \notin Armed /\ proc # "tick" /\ Rearm(NOMORE)
           \/ te \in Armed /\ Rearm(Answer(timeHead[te]))
        /\ te' = Restart
        /\ proc' = NoProc
        /\ pc' = "walk"
        /\ UNCHANGED fault
  /\ UNCHANGED <<clock, timeout, skews, timeNextId, maxId, lastTime, owed>>

\* The end of the list: event_wait returns when no timer is left.
WalkEnds ==
  /\ pc = "walk"
  /\ te = Null
  /\ maxId' = Null
  /\ owed' = {}
  /\ pc' = IF Armed = {} THEN "script" ELSE "loop"
  /\ UNCHANGED <<clock, timeout, skews, listVars, te, proc, lastTime, fault>>

Loop == EventWait \/ Block \/ Awake \/ Skip \/ Call \/ Return \/ WalkEnds

Next ==
  \/ Tick
  \/ After
  \/ Sleep
  \/ \E id \in Ids : del_time(id)
  \/ Elapse
  \/ Skew
  \/ Loop

Spec == Init /\ [][Next]_vars

\* The loop runs, callbacks return, and the script waits for events.
FairSpec == Spec /\ WF_vars(Loop)

-----------------------------------------------------------------------------
(* Properties. *)

\* The milliseconds of a TimeEvent are below 0 for some delays below 0, never
\* a second or more; the timeout is an int.
Events == [when_sec : Int, when_ms : -(Second - 1)..(Second - 1), proc : Procs,
           data : TickDelays \union AfterDelays \union SleepTimes, due : Int]

TypeOK ==
  /\ clock \in 0..MaxClock
  /\ timeNextId \in 0..MaxTimers
  /\ lastTime \in Nat
  /\ Armed \in SUBSET (0..(timeNextId - 1))
  /\ \A i \in Armed : timeHead[i] \in Events
  /\ pc \in {"script", "loop", "epoll", "walk", "callback"}
  /\ timeout \in Ints
  /\ te \in Ids \union {Null}
  /\ maxId \in Ids \union {Null}
  /\ proc \in Procs \union {NoProc}
  /\ fault \in {"none", "freed_event"}
  /\ owed \in SUBSET Ids
  /\ skews \in 0..MaxSkew

\* A walk leaves no timer out: one that was due when it began has run by its
\* end, or was deleted, whatever the callbacks created and deleted meanwhile
\* and however often the walk started over.
WalkComplete == pc = "walk" /\ te = Null => owed \intersect Armed = {}

\* The period of a tick survives its way through an int.
PeriodFits(event) == event.proc = "tick" => event.data \in Ints

\* How much less than was asked for a timer is armed with: a sleeper gets a
\* millisecond for each whole second.
Lost(event) ==
  IF event.proc = "sleep_call" THEN event.data - event.data \div Second ELSE 0

\* No timer runs before its time, first or again, while nobody sets the clock
\* back; delays below 0 are over at once.  What a sleeper loses to its unit
\* counts as over.  It does not speak of ticks whose period is no int.
NeverEarly ==
  [][pc = "walk" /\ pc' = "callback" /\ PeriodFits(timeHead[te])
       => clock >= timeHead[te].due - Lost(timeHead[te]) \/ skews > 0]_vars

left(event) == IF clock < event.due THEN event.due - clock ELSE 0

\* A timer near enough for its timeout to be an int.
InReach(event) == left(event) + Second <= HalfInt /\ PeriodFits(event)

\* epoll_wait is never asked to sleep a whole second past a timer in reach,
\* and never for ever: timers further off, which alone would make the timeout
\* overflow, and delays below 0 in the same list do no harm.
OversleepsLessThanASecond ==
  pc = "loop" => \A i \in Armed :
    InReach(timeHead[i]) => search_nearest_time \in 0..(left(timeHead[i]) + Second - 1)

\* When the clock was set back by a second or more since the last walk, the
\* next walk runs every timer that was waiting, so none waits for the time
\* the clock has to make up.
SkewResets ==
  [][pc = "epoll" /\ pc' = "walk" /\ lastTime' < lastTime
       => owed' = Armed]_vars

\* Every timer in reach is called or deleted in the end, unless the clock is
\* set back and it is not in reach any more: neither the walk nor the loop goes
\* round and round without it, however callbacks change the list.  It takes
\* periods above 0 that fit an int.  What is exempt is time running out: a tick
\* whose callback takes longer than its period comes before all older timers
\* for ever.
OutOfTime ==
  \/ clock = MaxClock
  \/ pc = "epoll" /\ clock + timeout + 1 > MaxClock
Waits(i) == i \in Armed /\ InReach(timeHead[i])
TimersRun ==
  \A i \in Ids :
    Waits(i) ~> (~ Waits(i) \/ (pc = "callback" /\ te = i)
                   \/ OutOfTime \/ fault # "none")

\* search_nearest_time does not block when a timer is overdue.
OverdueDoesNotBlock ==
  pc = "epoll" /\ timeout > 0 => \A i \in Armed : ~ Due(timeHead[i])

\* No callback's timer is freed under process_time_event.
NothingFreedInUse == fault = "none"
=============================================================================
