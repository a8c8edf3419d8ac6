------------------------------ MODULE CoSocket ------------------------------
(***************************************************************************)
(* Lib\Coroutine\Socket and the event loop, on top of the scheduler.       *)
(*                                                                         *)
(* accept, recv and send are non-blocking system calls.  One that would    *)
(* block registers its descriptor with epoll under the calling coroutine's *)
(* id, parks the coroutine, and tries again when the loop, which runs on   *)
(* the main stack, resumes it.  The loop resumes one coroutine after the   *)
(* other for the events of a single epoll_wait, and each of them may close *)
(* sockets, register others or end before the next one's turn.             *)
(***************************************************************************)
EXTENDS Coroutine, FiniteSetsExt, Functions

CONSTANTS MaxSockets, \* bound: Socket objects alive at a time
          MaxFd,      \* the process's limit of open descriptors
          HalfWord    \* 2^32: one more than the largest half of a 64-bit word

\* Both halves are ints: an id of HalfWord \div 2 or more is negative, and its
\* sign would extend into the descriptor's half.  No process gets that far.
ASSUME CoSocketAssumption ==
  /\ MaxSockets \in Nat
  /\ MaxFd \in Nat
  /\ HalfWord \in Nat
  /\ 2 * MaxFd < HalfWord /\ 2 * MaxCid < HalfWord

Sockets == 1..MaxSockets
Fds == 1..MaxFd

BadFd == -1           \* a Socket over a system call that failed
LIB_BAD_SOCKET == -2  \* what close leaves in the PHP object
NoSocket == -3        \* no such PHP object

NotWaiting == [call |-> "none", sock |-> 0, added |-> FALSE]
NoRegistration == [cid |-> Main, event |-> "none"]
Calls == {"accept", "recv", "send"}

VARIABLES
  socket,      \* descriptor of each PHP object's Socket
  fdstate,     \* kernel: what a descriptor is
  ready,       \* kernel: what it can do at once
  registered,  \* kernel: what epoll watches it for, and whom it is to wake
  waits,       \* the call a stack is parked in; added: did EPOLL_CTL_ADD work
  phase,       \* where the main stack is in event_wait
  events,      \* words of LibG.poll->events not dispatched yet, by slot
  event_num    \* 0 or, as nobody counts it down, more

kernelVars == <<fdstate, ready>>
loopVars == <<phase, events>>
socketVars == <<socket, kernelVars, registered, waits, loopVars, event_num>>
socketAllVars == <<vars, socketVars>>

\* init_poll: no descriptor watched, no event counted.
SocketInit ==
  /\ Init
  /\ socket = [s \in Sockets |-> NoSocket]
  /\ fdstate = [fd \in Fds |-> "closed"]
  /\ ready = [fd \in Fds |-> {}]
  /\ registered = [fd \in Fds |-> NoRegistration]
  /\ waits = [x \in Contexts |-> NotWaiting]
  /\ phase = "script"
  /\ events = << >>
  /\ event_num = 0

touint64(fd, id) == fd * HalfWord + id
fromuint64(u64) == [fd |-> u64 \div HalfWord, id |-> u64 % HalfWord]

\* The executing stack is in script code: neither inside a socket call nor,
\* in main, inside event_wait.
ScriptRuns ==
  /\ UserCode
  /\ waits[running] = NotWaiting
  /\ running = Main => phase = "script"

-----------------------------------------------------------------------------
(* Descriptors. *)

\* socket() and accept() answer the lowest free descriptor, or fail.
NewFd == LET free == {fd \in Fds : fdstate[fd] = "closed"}
         IN IF free = {} THEN BadFd ELSE Min(free)

\* libsocket_create and accept: the descriptor enters the table in state st.
Opens(fd, st) ==
  fdstate' = IF fd = BadFd THEN fdstate ELSE [fdstate EXCEPT ![fd] = st]

\* close(): the kernel forgets the descriptor, its registration included.
libsocket_close(fd) ==
  IF fd \in Fds
    THEN /\ fdstate' = [fdstate EXCEPT ![fd] = "closed"]
         /\ ready' = [ready EXCEPT ![fd] = {}]
         /\ registered' = [registered EXCEPT ![fd] = NoRegistration]
    ELSE UNCHANGED <<kernelVars, registered>>

\* Peers connect, send, read, or hang up (which reads and writes at once).
PeerActs(fd) ==
  /\ fault = "none"
  /\ \/ fdstate[fd] = "listening" /\ ready' = [ready EXCEPT ![fd] = {"read"}]
     \/ /\ fdstate[fd] = "connected"
        /\ \E what \in {"read", "write"} :
             ready' = [ready EXCEPT ![fd] = @ \union {what}]
  /\ UNCHANGED <<vars, socket, fdstate, registered, waits, loopVars, event_num>>

\* The last connection waiting to be accepted is reset.
PeerAborts(fd) ==
  /\ fault = "none"
  /\ fdstate[fd] = "listening"
  /\ ready' = [ready EXCEPT ![fd] = {}]
  /\ UNCHANGED <<vars, socket, fdstate, registered, waits, loopVars, event_num>>

-----------------------------------------------------------------------------
(* The socket object. *)

\* A method follows the Socket* that close or free left behind.
DieOf(why) == Die(why) /\ UNCHANGED <<scriptVars, socketVars>>

\* A new object takes the lowest number that is free.
NewObject(s) == socket[s] = NoSocket /\ \A t \in 1..(s - 1) : socket[t] # NoSocket

\* new Socket: a descriptor, or -1 when there is none; state st follows.
Socket_new(s, st) ==
  /\ NewObject(s)
  /\ socket' = [socket EXCEPT ![s] = NewFd]
  /\ Opens(NewFd, st)
  /\ UNCHANGED <<vars, ready, registered, waits, loopVars, event_num>>

Socket_construct(s) == ScriptRuns /\ Socket_new(s, "created")

\* libsocket_bind fails on an address in use and on a descriptor bound
\* before; libsocket_listen needs no bind: the kernel picks a port.
Moves(s, from, to) ==
  \/ socket[s] = LIB_BAD_SOCKET /\ DieOf("bad_socket")
  \/ /\ socket[s] \in Fds
     /\ fdstate[socket[s]] \in from
     /\ fdstate' = [fdstate EXCEPT ![socket[s]] = to]
     /\ UNCHANGED <<vars, socket, ready, registered, waits, loopVars, event_num>>

Socket_bind(s) == ScriptRuns /\ Moves(s, {"created"}, "bound")
Socket_listen(s) == ScriptRuns /\ Moves(s, {"created", "bound"}, "listening")

\* MUTANT Socket_close: the object is not marked.
CloseUnmarked(s) ==
  /\ ScriptRuns
  /\ socket[s] \in Fds
  /\ libsocket_close(socket[s])
  /\ UNCHANGED <<vars, socket, waits, loopVars, event_num>>

\* close: a Socket whose descriptor is not open is kept.
Socket_close(s) ==
  /\ ScriptRuns
  /\ \/ socket[s] = LIB_BAD_SOCKET /\ DieOf("bad_socket")
     \/ /\ socket[s] \in Fds
        /\ libsocket_close(socket[s])
        /\ socket' = [socket EXCEPT ![s] = LIB_BAD_SOCKET]
        /\ UNCHANGED <<vars, waits, loopVars, event_num>>

\* free_object, when no variable and no call of a script refers to it.
Socket_free(s) ==
  /\ ScriptRuns
  /\ socket[s] # NoSocket
  /\ \A x \in Contexts : waits[x].sock # s
  /\ libsocket_close(socket[s])
  /\ socket' = [socket EXCEPT ![s] = NoSocket]
  /\ UNCHANGED <<vars, waits, loopVars, event_num>>

-----------------------------------------------------------------------------
(* Calls that may block. *)

\* MUTANT EventOf: the caller's word goes to epoll as it is.
EventUntranslated(call) == call

\* What the descriptor must be able to do, and what it must be.
EventOf(call) == IF call = "send" THEN "write" ELSE "read"

Suits(call) == IF call = "accept" THEN "listening" ELSE "connected"

\* The system call answers, now or, with EAGAIN, later.  accept takes its new
\* descriptor before it looks for a connection.
Works(call, fd) ==
  /\ fd \in Fds
  /\ fdstate[fd] = Suits(call)
  /\ call = "accept" => NewFd # BadFd

\* The event to register is built in slot 0 (here 1) of the array the loop
\* may be walking.
WriteEvent(word) ==
  events' = IF 1 \in DOMAIN events THEN [events EXCEPT ![1] = word] ELSE events

\* MUTANT AddTo: a registration that exists is replaced.
ModifyIn(reg, fd, new) == [reg EXCEPT ![fd] = new]

\* EPOLL_CTL_ADD: refused (EEXIST) when the descriptor is watched already.
AddTo(reg, fd, new) ==
  IF reg[fd] = NoRegistration THEN [reg EXCEPT ![fd] = new] ELSE reg

\* MUTANT CountEvent: the wait is not counted.
CountNothing == UNCHANGED event_num

CountEvent == event_num' = 1

\* wait_event up to its yield.  reg is the table of registrations, the
\* caller's own removed.
wait_event(call, s, reg) ==
  LET fd == socket[s]
      new == [cid |-> current, event |-> EventOf(call)]
  IN \/ current = Main /\ DieOf("no_current")
     \/ /\ current # Main
        /\ WriteEvent(touint64(fd, current))
        /\ registered' = AddTo(reg, fd, new)
        /\ CountEvent
        /\ waits' = [waits EXCEPT ![running] =
             [call |-> call, sock |-> s, added |-> reg[fd] = NoRegistration]]
        /\ Yield(current)
        /\ UNCHANGED <<socket, kernelVars, phase, scriptVars>>

\* The call would block: EAGAIN.
Blocks(call, s, reg) ==
  /\ Works(call, socket[s])
  /\ EventOf(call) \notin ready[socket[s]]
  /\ wait_event(call, s, reg)

\* new Socket(connfd).
Wraps(conn, connfd) ==
  /\ NewObject(conn)
  /\ socket' = [socket EXCEPT ![conn] = connfd]

\* accept answers an object in any case: over a connection, or over -1.
Accepts(s, gaveUp) ==
  \E conn \in Sockets :
    \/ /\ gaveUp \/ ~ Works("accept", socket[s])
       /\ Wraps(conn, BadFd)
       /\ UNCHANGED kernelVars
    \/ /\ ~ gaveUp
       /\ Works("accept", socket[s])
       /\ "read" \in ready[socket[s]]
       /\ Wraps(conn, NewFd)
       /\ Opens(NewFd, "connected")
       /\ \E rest \in {{}, {"read"}} :
            ready' = [ready EXCEPT ![socket[s]] = rest, ![NewFd] = {"write"}]

\* recv and send answer what they got, or false.
Transfers(call, s, gaveUp) ==
  /\ UNCHANGED <<socket, fdstate>>
  /\ \/ (gaveUp \/ ~ Works(call, socket[s])) /\ UNCHANGED ready
     \/ /\ ~ gaveUp
        /\ Works(call, socket[s])
        /\ EventOf(call) \in ready[socket[s]]
        /\ \E rest \in {ready[socket[s]], ready[socket[s]] \ {EventOf(call)}} :
             ready' = [ready EXCEPT ![socket[s]] = rest]

\* The call comes to its end; what follows is the caller's.
Completes(call, s, gaveUp) ==
  \/ call = "accept" /\ Accepts(s, gaveUp)
  \/ call # "accept" /\ Transfers(call, s, gaveUp)

\* A script calls accept, recv or send.
Call(call, s) ==
  /\ ScriptRuns
  /\ \/ socket[s] = LIB_BAD_SOCKET /\ DieOf("bad_socket")
     \/ /\ socket[s] \in Fds \union {BadFd}
        /\ \/ Blocks(call, s, registered)
           \/ /\ Completes(call, s, FALSE)
              /\ UNCHANGED <<vars, registered, waits, loopVars, event_num>>

\* The executing stack was resumed in wait_event.
InWaitEvent == UserCode /\ waits[running] # NotWaiting

\* MUTANT Deregistered: the registration is left in place.
StillRegistered(fd) == registered

\* EPOLL_CTL_DEL, if there is something to delete; else wait_event fails.
Deregistered(fd) == [registered EXCEPT ![fd] = NoRegistration]

\* wait_event fails after its yield: nothing was left to delete.
GaveUp(s) == registered[socket[s]] = NoRegistration

\* Resumed, the call tries again and blocks again.
BlocksAgain(call, s) == ~ GaveUp(s) /\ Blocks(call, s, Deregistered(socket[s]))

\* Resumed, the call comes to its end.
Finishes(call, s) ==
  /\ Completes(call, s, GaveUp(s))
  /\ registered' = Deregistered(socket[s])
  /\ waits' = [waits EXCEPT ![running] = NotWaiting]
  /\ UNCHANGED <<loopVars, event_num>>

\* The rest of wait_event, and the loop around it, in a call of a script.
Woken ==
  LET call == waits[running].call
      s == waits[running].sock
  IN /\ InWaitEvent
     /\ \/ socket[s] = LIB_BAD_SOCKET /\ DieOf("bad_socket")
        \/ socket[s] \in Fds /\ BlocksAgain(call, s)
        \/ socket[s] \in Fds /\ Finishes(call, s) /\ UNCHANGED vars

-----------------------------------------------------------------------------
(* event_wait, called by the main script. *)

\* The main stack is in event_wait and executes.
LoopRuns == UserCode /\ running = Main /\ phase # "script"

LoopStarts ==
  /\ ScriptRuns
  /\ running = Main
  /\ phase' = "poll"
  /\ UNCHANGED <<vars, socket, kernelVars, registered, waits, events, event_num>>

WatchedAndReady ==
  {fd \in Fds : registered[fd].cid # Main /\ registered[fd].event \in ready[fd]}

\* epoll_wait: all that is ready, in any order (the 16 slots are never
\* exceeded here), or nothing once the timeout of search_nearest_time is over:
\* the nearest timer's, or a second if there is none.
Poll ==
  LET n == Cardinality(WatchedAndReady) IN
  /\ LoopRuns
  /\ phase = "poll"
  /\ phase' = "handle"
  /\ \E order \in Injection(1..n, WatchedAndReady) :
       events' = [i \in 1..n |-> touint64(order[i], registered[order[i]].cid)]
  /\ UNCHANGED <<vars, socket, kernelVars, registered, waits, event_num>>

\* MUTANT Dispatch: only the first event of a turn.
DispatchFirst ==
  /\ LoopRuns
  /\ events # << >>
  /\ events' = << >>
  /\ Resume(fromuint64(events[1]).id)
  /\ UNCHANGED <<scriptVars, socket, kernelVars, registered, waits, phase, event_num>>

\* One turn of the loop over the events.
Dispatch ==
  /\ LoopRuns
  /\ events # << >>
  /\ LET i == Min(DOMAIN events) IN
       /\ events' = Restrict(events, DOMAIN events \ {i})
       /\ Resume(fromuint64(events[i]).id)
  /\ UNCHANGED <<scriptVars, socket, kernelVars, registered, waits, phase, event_num>>

\* process_time_event calls sleep_call for a timer whose time has come.
TimerFires(co) ==
  /\ LoopRuns
  /\ phase = "handle" /\ events = << >>
  /\ SleepCall(co)
  /\ UNCHANGED socketVars

\* event_free, free_poll: the epoll set goes, with what it watches.  The next
\* wait or event_wait makes another, with no event counted.
event_free ==
  /\ phase' = "script"
  /\ registered' = [fd \in Fds |-> NoRegistration]
  /\ event_num' = 0

\* The end of a turn: return, or once more.
TurnEnds ==
  LET idle == (\A co \in Cids : timers[co] = 0) /\ event_num = 0 IN
  /\ LoopRuns
  /\ phase = "handle" /\ events = << >>
  /\ \/ idle /\ event_free
     \/ ~ idle /\ phase' = "poll" /\ UNCHANGED <<registered, event_num>>
  /\ UNCHANGED <<vars, socket, kernelVars, waits, events>>

\* The scheduler's API: the timers aside, which the loop runs.
SchedulerScript == ScriptRuns /\ ScriptStep /\ UNCHANGED socketVars

SocketScript(s) ==
  \/ Socket_construct(s)
  \/ Socket_bind(s)
  \/ Socket_listen(s)
  \/ Socket_close(s)
  \/ Socket_free(s)
  \/ \E call \in Calls : Call(call, s)

\* The main stack in event_wait, and what changes the descriptors under it.
LoopStep ==
  \/ Poll
  \/ Dispatch
  \/ \E co \in Cids : TimerFires(co)
  \/ TurnEnds
  \/ \E fd \in Fds : PeerActs(fd) \/ PeerAborts(fd)

SocketNext ==
  \/ SwapInReturns /\ UNCHANGED socketVars
  \/ SchedulerScript
  \/ \E s \in Sockets : SocketScript(s)
  \/ Woken
  \/ LoopStarts
  \/ LoopStep

\* Peers are free, and a coroutine need not give control back, but the loop
\* goes on when it has it.  A turn ends although timers fire, because a walk
\* over the timers ends: it skips those made meanwhile, whose ids are above
\* its maxId, and sleep_call answers NOMORE.
SocketSpec ==
  /\ SocketInit /\ [][SocketNext]_socketAllVars
  /\ WF_socketAllVars(Poll) /\ WF_socketAllVars(Dispatch)
  /\ SF_socketAllVars(TurnEnds)

-----------------------------------------------------------------------------
(* Properties. *)

SocketTypeOK ==
  /\ TypeOK
  /\ socket \in [Sockets -> Fds \union {BadFd, LIB_BAD_SOCKET, NoSocket}]
  /\ fdstate \in [Fds -> {"closed", "created", "bound", "listening", "connected"}]
  /\ ready \in [Fds -> SUBSET {"read", "write"}]
  /\ registered \in [Fds -> {NoRegistration} \union [cid : Cids, event : {"read", "write"}]]
  /\ waits \in [Contexts -> {NotWaiting} \union [call : Calls, sock : Sockets, added : BOOLEAN]]
  /\ phase \in {"script", "poll", "handle"}
  /\ DOMAIN events \subseteq Fds /\ \A i \in DOMAIN events : events[i] \in Nat
  /\ event_num \in {0, 1}

\* x is parked in wait_event.
Waiting(x) == waits[x] # NotWaiting

\* Every event the loop has still to dispatch names a coroutine of its own,
\* parked in wait_event for that very descriptor (or for one closed since):
\* neither the coroutines dispatched before it nor the registrations they
\* built in slot 0 of the same array have made it stale.
EventsIntact ==
  \A i \in DOMAIN events :
    LET e == fromuint64(events[i]) IN
    /\ e.id \in Cids
    /\ Waiting(e.id) /\ ctx[e.id] = "parked"
    /\ socket[waits[e.id].sock] \in {e.fd, LIB_BAD_SOCKET}
    /\ \A j \in DOMAIN events \ {i} : fromuint64(events[j]).id # e.id

\* Every open descriptor belongs to one object and no object names a closed
\* one, whose number the next accept hands out again: nobody reads or closes
\* another's connection, and none stays open with nobody to close it.
DescriptorsOwned ==
  /\ \A s \in Sockets : socket[s] \in Fds => fdstate[socket[s]] # "closed"
  /\ \A fd \in Fds : fdstate[fd] # "closed" =>
       Cardinality({s \in Sockets : socket[s] = fd}) = 1

\* A coroutine parked in wait_event, if EPOLL_CTL_ADD accepted it and its
\* socket was not closed, is watched for under its own id and for what its
\* call needs until it runs again, whatever others do with that descriptor;
\* so the EPOLL_CTL_DEL that follows deletes no one else's registration.
WaitersRegistered ==
  \A x \in Cids :
    LET w == waits[x] IN
    w.added /\ socket[w.sock] \in Fds =>
      registered[socket[w.sock]] = [cid |-> x, event |-> EventOf(w.call)]

\* event_wait comes back only when every parked coroutine is in Cco::yield:
\* whoever sleeps, or waits for a descriptor (refused by epoll or not), needs
\* the loop to wake it and would be lost with it.
LoopKeepsWaiting ==
  [][phase # "script" /\ phase' = "script" =>
       \A x \in Cids : ctx[x] = "parked" => x \in user_yield_coros]_socketAllVars

\* What x waits for is there, and epoll knows of it.
Servable(x) ==
  /\ fault = "none"
  /\ waits[x].added
  /\ socket[waits[x].sock] \in Fds
  /\ EventOf(waits[x].call) \in ready[socket[waits[x].sock]]

\* A coroutine whose descriptor is ready, and stays so, is resumed, if the
\* coroutines resumed before it give control back to the loop.
ReadyIsServed ==
  []<>LoopRuns => \A x \in Cids : Servable(x) ~> ~ Servable(x)
=============================================================================
