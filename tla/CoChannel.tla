------------------------------ MODULE CoChannel ------------------------------
(***************************************************************************)
(* Lib\Coroutine\Channel on top of the scheduler: push and pop, which park *)
(* the calling coroutine in yield and wake a peer with resume, and the     *)
(* one-shot timers their timeout argument creates.                         *)
(*                                                                         *)
(* A wake-up is synchronous: the peer runs, on its own stack, before the   *)
(* push or pop that woke it returns, and goes on with whatever script code *)
(* follows until it parks or ends.  sleep_timeout does what sleep_call     *)
(* does, so SleepCall of the scheduler fires both.                         *)
(***************************************************************************)
EXTENDS Coroutine, SequencesExt

CONSTANTS MaxPush,   \* bound: number of calls of push
          MaxQueue,  \* bound: entries in a queue of waiters
          Timeouts   \* may a blocking call pass a timeout > 0: a choice each

ASSUME CoChannelAssumption ==
  /\ MaxPush \in Nat /\ MaxQueue \in Nat
  /\ Timeouts \in SUBSET BOOLEAN \ {{}}

VARIABLES
  data_queue,      \* values, numbered in the order push was called
  consumer_queue,  \* Coroutine* of blocked pops
  producer_queue,  \* Coroutine* of blocked pushes
  op,              \* the call each C stack is blocked in
  item,            \* the value a blocked push holds
  pushed,          \* number of pushes called
  delivered,       \* history: values returned by pop
  dropped,         \* history: values given back by a failed push, or freed
  destroyed        \* free_object has run

chanVars == <<data_queue, consumer_queue, producer_queue, op, item, pushed,
              delivered, dropped, destroyed>>
allVars == <<vars, chanVars>>

Values == 1..MaxPush
NoItem == 0

\* Channel::capacity: its in-class initialiser.  The constructor ignores the
\* argument, which only reaches the object's "capacity" property.
capacity == 1

ChannelInit ==
  /\ Init
  /\ data_queue = <<>>
  /\ consumer_queue = <<>>
  /\ producer_queue = <<>>
  /\ op = [x \in Contexts |-> "none"]
  /\ item = [x \in Contexts |-> NoItem]
  /\ pushed = 0
  /\ delivered = <<>>
  /\ dropped = {}
  /\ destroyed = FALSE

Full == Len(data_queue) = capacity

\* The executing stack is in script code, outside push and pop.
ScriptCode == UserCode /\ op[running] = "none"

-----------------------------------------------------------------------------
(* Steps of push and pop. *)

\* create_time_event if a timeout was given, and yield.
Block ==
  /\ \E limited \in Timeouts :
       timers' = [timers EXCEPT ![current] = IF limited THEN @ + 1 ELSE @]
  /\ Yield(current)

\* Resume the first of a queue of waiters, if there is one.
WakeFirst(queue) ==
  \/ queue = <<>> /\ UNCHANGED <<swapVars, fault>>
  \/ queue # <<>> /\ Resume(Head(queue))

\* MUTANT WakeConsumer: the entry stays in the queue.
WakeConsumerKeptQueued == WakeFirst(consumer_queue) /\ UNCHANGED consumer_queue

\* MUTANT WakeConsumer: push leaves it to the next pop to notice.
WakeNoConsumer == UNCHANGED <<consumer_queue, swapVars, fault>>

\* MUTANT WakeConsumer: the front is resumed, the back taken out.
WakeConsumerDropBack ==
  /\ consumer_queue' = IF consumer_queue = <<>> THEN <<>> ELSE Front(consumer_queue)
  /\ WakeFirst(consumer_queue)

\* MUTANT WakeProducer: pop tells another consumer instead.
WakeWrongQueue == WakeFirst(consumer_queue) /\ UNCHANGED producer_queue

\* MUTANT WakeProducer: the producer that has waited shortest.
WakeLastProducer ==
  /\ producer_queue' = IF producer_queue = <<>> THEN <<>> ELSE Front(producer_queue)
  /\ \/ producer_queue = <<>> /\ UNCHANGED <<swapVars, fault>>
     \/ producer_queue # <<>> /\ Resume(Last(producer_queue))

\* A push wakes the consumer, a pop the producer, that has waited longest.
WakeConsumer ==
  /\ consumer_queue' = IF consumer_queue = <<>> THEN <<>> ELSE Tail(consumer_queue)
  /\ WakeFirst(consumer_queue)

WakeProducer ==
  /\ producer_queue' = IF producer_queue = <<>> THEN <<>> ELSE Tail(producer_queue)
  /\ WakeFirst(producer_queue)

\* The part of push from data_queue.push on.
Enqueue(v) ==
  /\ data_queue' = Append(data_queue, v)
  /\ op' = [op EXCEPT ![running] = "none"]
  /\ item' = [item EXCEPT ![running] = NoItem]
  /\ WakeConsumer
  /\ UNCHANGED <<producer_queue, dropped, delivered, timers>>

\* MUTANT TakeFront: front() without pop().
PeekFront == delivered' = Append(delivered, Head(data_queue)) /\ UNCHANGED data_queue

TakeFront ==
  /\ data_queue' = Tail(data_queue)
  /\ delivered' = Append(delivered, Head(data_queue))

\* The part of pop from data_queue.front on.
Dequeue ==
  /\ TakeFront
  /\ op' = [op EXCEPT ![running] = "none"]
  /\ WakeProducer
  /\ UNCHANGED <<consumer_queue, item, dropped, timers>>

\* MUTANT BlocksMain: the main script queues up like a coroutine.
MainWaits ==
  /\ current = Main
  /\ consumer_queue' = Append(consumer_queue, current)
  /\ UNCHANGED <<swapVars, fault, data_queue, producer_queue, op, item, delivered,
                 dropped, timers>>

\* Outside a coroutine a call that has to wait follows a null pointer.
BlocksMain ==
  /\ current = Main
  /\ Die("no_current")
  /\ UNCHANGED <<data_queue, consumer_queue, producer_queue, op, item, delivered,
                 dropped, timers>>

Push ==
  LET v == pushed + 1 IN
  /\ ScriptCode
  /\ ~ destroyed
  /\ pushed < MaxPush
  /\ pushed' = v
  /\ \/ ~ Full /\ Enqueue(v)
     \/ Full /\ BlocksMain
     \/ /\ Full
        /\ current # Main
        /\ Len(producer_queue) < MaxQueue
        /\ producer_queue' = Append(producer_queue, current)
        /\ op' = [op EXCEPT ![running] = "push"]
        /\ item' = [item EXCEPT ![running] = v]
        /\ Block
        /\ UNCHANGED <<data_queue, consumer_queue, delivered, dropped>>
  /\ UNCHANGED <<last_cid, stage, defer_tasks, user_yield_coros, destroyed>>

\* push after its yield: false if the channel is full still, and the wrapper
\* gives the value back.
PushWoken ==
  /\ UserCode
  /\ op[running] = "push"
  /\ \/ ~ Full /\ Enqueue(item[running])
     \/ /\ Full
        /\ op' = [op EXCEPT ![running] = "none"]
        /\ item' = [item EXCEPT ![running] = NoItem]
        /\ dropped' = dropped \union {item[running]}
        /\ UNCHANGED <<data_queue, consumer_queue, producer_queue, delivered,
                       swapVars, timers, fault>>
  /\ UNCHANGED <<last_cid, stage, defer_tasks, user_yield_coros, pushed, destroyed>>

Pop ==
  /\ ScriptCode
  /\ ~ destroyed
  /\ \/ data_queue # <<>> /\ Dequeue
     \/ data_queue = <<>> /\ BlocksMain
     \/ /\ data_queue = <<>>
        /\ current # Main
        /\ Len(consumer_queue) < MaxQueue
        /\ consumer_queue' = Append(consumer_queue, current)
        /\ op' = [op EXCEPT ![running] = "pop"]
        /\ Block
        /\ UNCHANGED <<data_queue, producer_queue, item, delivered, dropped>>
  /\ UNCHANGED <<last_cid, stage, defer_tasks, user_yield_coros, pushed, destroyed>>

\* pop after its yield: nullptr if the channel is empty still.
PopWoken ==
  /\ UserCode
  /\ op[running] = "pop"
  /\ \/ data_queue # <<>> /\ Dequeue
     \/ /\ data_queue = <<>>
        /\ op' = [op EXCEPT ![running] = "none"]
        /\ UNCHANGED <<data_queue, consumer_queue, producer_queue, item, delivered,
                       dropped, swapVars, timers, fault>>
  /\ UNCHANGED <<last_cid, stage, defer_tasks, user_yield_coros, pushed, destroyed>>

\* free_object drains the queue.  A frame that is inside push or pop holds a
\* reference to the object, so none is.
FreeObject ==
  /\ UserCode
  /\ ~ destroyed
  /\ \A x \in Contexts : op[x] = "none" /\ callee[x] = NoCallee
  /\ destroyed' = TRUE
  /\ dropped' = dropped \union ToSet(data_queue)
  /\ data_queue' = <<>>
  /\ UNCHANGED <<vars, consumer_queue, producer_queue, op, item, pushed, delivered>>

ChannelNext ==
  \/ Push
  \/ PushWoken
  \/ Pop
  \/ PopWoken
  \/ FreeObject
  \/ /\ op[running] = "none"
     /\ Next
     /\ UNCHANGED chanVars

ChannelSpec == ChannelInit /\ [][ChannelNext]_allVars

-----------------------------------------------------------------------------
(* Properties. *)

ChannelTypeOK ==
  /\ TypeOK
  /\ data_queue \in Seq(Values)
  /\ consumer_queue \in Seq(Cids)
  /\ producer_queue \in Seq(Cids)
  /\ op \in [Contexts -> {"none", "push", "pop"}]
  /\ item \in [Contexts -> Values \union {NoItem}]
  /\ pushed \in 0..MaxPush
  /\ delivered \in Seq(Values)
  /\ dropped \in SUBSET Values
  /\ destroyed \in BOOLEAN

\* A queue of waiters holds each coroutine that waits in that call, once, and
\* nobody else: who is popped from it is resumed without being asked.
QueuesHoldWaiters(queue, call) ==
  /\ IsInjective(queue)
  /\ ToSet(queue) = {co \in Cids : op[co] = call /\ ctx[co] = "parked"}
WaitersQueued ==
  QueuesHoldWaiters(consumer_queue, "pop") /\ QueuesHoldWaiters(producer_queue, "push")

\* What timeouts leave of that: a coroutine parked in a call, with or without
\* a timeout, is in the queue of that call, so it is reached from there however
\* many entries of calls that timed out are before it.
NobodyForgotten ==
  \A co \in Cids : ctx[co] = "parked" =>
    /\ op[co] = "pop" => co \in ToSet(consumer_queue)
    /\ op[co] = "push" => co \in ToSet(producer_queue)

\* While script code executes nobody waits for what is there: no consumer
\* while a value is queued, no producer while there is room.
NobodyWaitsInVain ==
  ScriptCode =>
    /\ consumer_queue # <<>> => data_queue = <<>>
    /\ producer_queue # <<>> => Full

\* A call that blocked without a timeout is woken only when it can succeed:
\* nobody takes the value or the room between the wake-up and the recheck.
WokenSucceeds ==
  UserCode =>
    /\ op[running] = "pop" => data_queue # <<>>
    /\ op[running] = "push" => ~ Full

\* Values are received in the order push was called, blocked or not: a push
\* that found room never overtakes one that waits for it.
DeliveredInOrder == \A i \in DOMAIN delivered : delivered[i] = i

\* Every value pushed is in one place: received, queued, held by a blocked
\* push, given back or freed; none twice, none lost.
EachValueOnce ==
  LET held == {item[x] : x \in {y \in Contexts : op[y] = "push"}}
      seen == delivered \o data_queue
  IN /\ IsInjective(seen)
     /\ fault = "none" => ToSet(seen) \union dropped \union held = 1..pushed
     /\ ToSet(seen) \intersect (dropped \union held) = {}
     /\ dropped \intersect held = {}
=============================================================================
