---------------------------- MODULE CoServerProofs ----------------------------
(***************************************************************************)
(* Proofs about the server, for any number of coroutines, sockets and      *)
(* descriptors.                                                            *)
(*                                                                         *)
(* A coroutine that accepted its one connection since a shutdown could     *)
(* accept another if the flag went up and down again while it waits.  But  *)
(* the flag goes up in a start that runs above it, and when that one lets  *)
(* go of the stack it has the server's descriptor registered with epoll:   *)
(* the coroutine below is refused (EEXIST) and never woken.                *)
(***************************************************************************)
EXTENDS CoServer, CoSocketProofs

\* d is the depth at which each entered stack lies: the executing one on top,
\* the others each below the one it entered.
Depths(d) ==
  /\ d \in [Contexts -> Nat]
  /\ d[Main] = 0
  /\ \A x \in Contexts : Entered(x) /\ x # running =>
       d[x] < d[running] /\ d[callee[x]] = d[x] + 1

\* The server's part of the types.
ServerTypes ==
  /\ server \in Sockets \union {NoServer}
  /\ handler \in BOOLEAN
  /\ serv_running \in BOOLEAN
  /\ serving \in SUBSET Contexts
  /\ late \in [Contexts -> Nat]

\* Whoever is in start waits in its accept or has been entered; and nobody
\* else waits for the server's descriptor.
ServesOnServer ==
  /\ serving # {} => server # NoServer
  /\ server # NoServer => socket[server] \in Fds \union {BadFd}
  /\ \A x \in Contexts : Waiting(x) =>
       /\ x \in serving <=> waits[x].sock = server
       /\ x \in serving => waits[x].call = "accept"
  /\ \A x \in serving : Waiting(x) \/ Entered(x)
  /\ phase # "script" => Main \notin serving

\* The loop resumes a call onto an otherwise empty stack.
WokenAlone ==
  Waiting(running) =>
    /\ phase # "script"
    /\ \A x \in Contexts : Entered(x) => x \in {Main, running}

\* Who accepted one since the flag fell waits for no other.
LateOnce ==
  /\ \A x \in Contexts : late[x] <= 1
  /\ \A x \in Contexts : late[x] = 1 => x \in serving
  /\ \A x \in Contexts : late[x] = 1 /\ Waiting(x) => ~ waits[x].added

\* x is about to look at the flag, having accepted its one.
Late(x) == Entered(x) /\ late[x] = 1 /\ ~ Waiting(x)

\* While the flag is up again, the descriptor is taken, or one of those above
\* is in start and will take it.
LateIsRefused(d) ==
  serv_running /\ server # NoServer /\ socket[server] \in Fds =>
    \/ registered[socket[server]] # NoRegistration
    \/ \A x \in Contexts : Late(x) => \E y \in serving : Entered(y) /\ d[x] < d[y]

ServerInv ==
  /\ SocketInv
  /\ ServerTypes
  /\ ServesOnServer
  /\ WokenAlone
  /\ LateOnce
  /\ \E d \in [Contexts -> Nat] : Depths(d) /\ LateIsRefused(d)

-----------------------------------------------------------------------------
(* The depth of a stack. *)

\* The stacks that were entered go on at the depth they had.
DepthsGoOn ==
  \A d \in [Contexts -> Nat] : Depths(d) =>
    \E e \in [Contexts -> Nat] :
      Depths(e)' /\ \A x \in Contexts : Entered(x) => e[x] = d[x]

LEMMA DepthsStay ==
  ASSUME UNCHANGED running,
         \A x \in Contexts : Entered(x)' <=> Entered(x),
         \A x \in Contexts : x # running => callee'[x] = callee[x]
  PROVE  DepthsGoOn
<1>1. ASSUME NEW d \in [Contexts -> Nat], Depths(d) PROVE Depths(d)'
  BY <1>1 DEF Depths
<1> QED BY <1>1 DEF DepthsGoOn

\* create and resume put a stack on top.
LEMMA DepthsPush ==
  ASSUME SwapInv, NEW c \in Cids, ctx[c] # "active",
         running' = c, callee' = [callee EXCEPT ![running] = c],
         ctx' = [ctx EXCEPT ![c] = "active"]
  PROVE  DepthsGoOn
<1> SUFFICES ASSUME NEW d \in [Contexts -> Nat], Depths(d)
             PROVE  \E e \in [Contexts -> Nat] :
                      Depths(e)' /\ \A x \in Contexts : Entered(x) => e[x] = d[x]
  BY DEF DepthsGoOn
<1>1. /\ running \in Contexts /\ Entered(running) /\ ~ Entered(c) /\ c \in Contexts
      /\ Main \in Contexts /\ c # Main
      /\ ctx \in [Cids -> CtxStates] /\ callee \in [Contexts -> Contexts]
  BY ContextsSplit DEF SwapInv, SwapTypeOK, Frames, Entered
<1>2. \A x \in Contexts : Entered(x)' <=> Entered(x) \/ x = c
  BY <1>1 DEF Entered
<1>3. PICK e \in [Contexts -> Nat] :
        e[c] = d[running] + 1 /\ \A x \in Contexts : x # c => e[x] = d[x]
  <2>1. [d EXCEPT ![c] = d[running] + 1] \in [Contexts -> Nat]
    BY <1>1
  <2> QED BY <1>1, <2>1
<1>4. Depths(e)'
  <2>1. e[Main] = 0
    BY <1>1, <1>3 DEF Depths
  <2>2. ASSUME NEW x \in Contexts, Entered(x)', x # c
        PROVE  e[x] < e[c] /\ e[callee'[x]] = e[x] + 1
    <3>1. Entered(x) /\ e[x] = d[x] /\ e[running] = d[running]
      BY <1>1, <1>2, <1>3, <2>2
    <3>2. d[x] \in Nat /\ d[running] \in Nat /\ d[x] <= d[running]
      BY <1>1, <3>1 DEF Depths
    <3>3. CASE x = running
      BY <1>1, <1>3, <3>1, <3>2, <3>3
    <3>4. CASE x # running
      <4>1. callee'[x] = callee[x] /\ callee[x] \in Contexts
        BY <1>1, <3>4
      <4>2. callee[x] # c
        BY <1>1, <3>1, <3>4 DEF SwapInv, Frames
      <4> QED BY <1>3, <3>1, <3>2, <3>4, <4>1, <4>2 DEF Depths
    <3> QED BY <3>3, <3>4
  <2> QED BY <1>3, <2>1, <2>2 DEF Depths
<1>5. \A x \in Contexts : Entered(x) => e[x] = d[x]
  BY <1>1, <1>3
<1> QED BY <1>3, <1>4, <1>5

\* yield and the end of a coroutine take it off, and what it was entered from
\* is on top again.
LEMMA DepthsPop ==
  ASSUME SwapInv, UserCode, NEW y \in Cids, NEW r, y = running, r = origin[y],
         running' = r, NEW st \in {"parked", "end"}, ctx' = [ctx EXCEPT ![y] = st],
         UNCHANGED callee
  PROVE  DepthsGoOn
<1>1. /\ ctx[y] = "active" /\ Entered(y) /\ Entered(r) /\ callee[r] = y
      /\ r \in Contexts /\ y \in Contexts /\ r # y /\ ~ Entered(y)'
      /\ ctx \in [Cids -> CtxStates]
  <2>1. ctx[y] = "active" /\ y \in Contexts /\ ctx \in [Cids -> CtxStates]
        /\ r \in Contexts /\ callee[y] = 0
    BY ContextsSplit DEF SwapInv, SwapTypeOK, Frames, Entered, UserCode, NoCallee
  <2>2. Entered(r) /\ callee[r] = y
    BY <2>1 DEF SwapInv, Links
  <2>3. Entered(y) /\ ~ Entered(y)'
    BY <2>1, ContextsSplit DEF Entered
  <2> QED BY <2>1, <2>2, <2>3, ContextsSplit DEF Main
<1>2. \A x \in Contexts : Entered(x)' => Entered(x) /\ x # y
  BY <1>1 DEF Entered
<1>3. ASSUME NEW d \in [Contexts -> Nat], Depths(d) PROVE Depths(d)'
  <2>1. d[y] = d[r] + 1 /\ d[r] \in Nat
    BY <1>1, <1>3 DEF Depths
  <2>2. ASSUME NEW x \in Contexts, Entered(x)', x # r
        PROVE  d[x] < d[r] /\ d[callee[x]] = d[x] + 1
    <3>1. Entered(x) /\ x # y
      BY <1>2, <2>2
    <3>2. d[x] < d[y] /\ d[callee[x]] = d[x] + 1 /\ d[x] \in Nat
      BY <1>3, <3>1 DEF Depths
    <3>3. callee[x] \in Contexts /\ Entered(callee[x]) /\ origin[callee[x]] = x
      BY <3>1, ContextsSplit DEF SwapInv, Frames, Entered
    <3>4. callee[x] # y
      BY <2>2, <3>3
    <3>5. d[callee[x]] < d[y]
      BY <1>3, <3>3, <3>4 DEF Depths
    <3> QED BY <2>1, <3>2, <3>5
  <2> QED BY <1>3, <2>2 DEF Depths
<1> QED BY <1>3 DEF DepthsGoOn

\* Under a main script that executes there is nobody.
LEMMA MainAlone ==
  ASSUME NEW d \in [Contexts -> Nat], Depths(d), running = Main
  PROVE  \A x \in Contexts : Entered(x) => x = Main
BY DEF Depths

-----------------------------------------------------------------------------
(* Steps that are not the server's. *)

\* What they leave alone: the calls, stacks and object of those in start.
ServingStay ==
  /\ \A x \in serving : waits'[x] = waits[x] /\ (Entered(x) => Entered(x)')
  /\ \A x \in Contexts \ serving :
       waits'[x] = waits[x] \/ waits'[x] = NotWaiting \/ waits'[x].sock # server
  /\ server # NoServer => socket'[server] = socket[server]

NoneLate == \A x \in Contexts : ~ Late(x)

\* What epoll watches the server's descriptor for is left alone too, or it
\* does not matter.
ServerWatched ==
  \/ /\ server # NoServer /\ socket[server] \in Fds
     /\ registered[socket[server]] # NoRegistration
     => registered'[socket[server]] # NoRegistration
  \/ NoneLate

LEMMA Undisturbed ==
  ASSUME ServerInv, SocketInv', UNCHANGED serverVars, ServingStay, DepthsGoOn,
         phase' # "script" => phase # "script" \/ Main \notin serving,
         ServerWatched, WokenAlone'
  PROVE  ServerInv'
<1>0. UNCHANGED <<server, handler, serv_running, serving, late>>
  BY DEF serverVars
<1>1. ServerTypes'
  BY <1>0 DEF ServerInv, ServerTypes
<1>2. ServesOnServer'
  <2>1. ASSUME NEW x \in Contexts, Waiting(x)'
        PROVE  /\ x \in serving <=> waits'[x].sock = server
               /\ x \in serving => waits'[x].call = "accept"
    BY <2>1 DEF ServerInv, ServesOnServer, ServingStay, Waiting
  <2>2. ASSUME NEW x \in serving PROVE Waiting(x)' \/ Entered(x)'
    BY DEF ServerInv, ServesOnServer, ServingStay, Waiting
  <2> QED BY <1>0, <2>1, <2>2 DEF ServerInv, ServesOnServer, ServingStay
<1>3. LateOnce'
  BY <1>0 DEF ServerInv, LateOnce, ServingStay, Waiting
<1>4. ASSUME NEW x \in Contexts, Late(x)' PROVE Late(x) /\ Entered(x)
  <2>1. x \in serving /\ late[x] = 1 /\ ~ Waiting(x)
    BY <1>0, <1>4 DEF Late, ServerInv, LateOnce, ServingStay, Waiting
  <2> QED BY <2>1 DEF Late, ServerInv, ServesOnServer
<1>5. PICK d \in [Contexts -> Nat] : Depths(d) /\ LateIsRefused(d)
  BY DEF ServerInv
<1>6. PICK e \in [Contexts -> Nat] :
        Depths(e)' /\ \A x \in Contexts : Entered(x) => e[x] = d[x]
  BY <1>5 DEF DepthsGoOn
<1>7. LateIsRefused(e)'
  <2> SUFFICES ASSUME serv_running, server # NoServer, socket[server] \in Fds,
                      registered'[socket[server]] = NoRegistration,
                      NEW x \in Contexts, Late(x)'
               PROVE  \E y \in serving : Entered(y)' /\ e[x] < e[y]
    BY <1>0 DEF LateIsRefused, ServingStay
  <2>1. Late(x) /\ Entered(x) /\ registered[socket[server]] = NoRegistration
    BY <1>4 DEF ServerWatched, NoneLate
  <2>2. PICK y \in serving : Entered(y) /\ d[x] < d[y]
    BY <1>5, <2>1 DEF LateIsRefused
  <2>3. y \in Contexts
    BY DEF ServerInv, ServerTypes
  <2> QED BY <1>6, <2>1, <2>2, <2>3 DEF ServingStay
<1> QED BY <1>1, <1>2, <1>3, <1>6, <1>7 DEF ServerInv

\* A script does not run on a stack that was just woken.
LEMMA OnlyTheLoopWakes ==
  ASSUME Schedule, Schedule', WaitersStay
  PROVE  Waiting(running)' => running' = running /\ waits'[running] = waits[running]
<1> SUFFICES ASSUME Waiting(running)'
             PROVE  running' = running /\ waits'[running] = waits[running]
  OBVIOUS
<1>1. running' \in Cids /\ ctx'[running'] = "active" /\ running' \in Contexts
  BY ContextsSplit DEF Schedule, SwapInv, SwapTypeOK, Frames, Entered, CallsParked
<1>2. waits'[running'] = waits[running'] /\ Waiting(running')
  BY <1>1 DEF WaitersStay, Waiting
<1>3. running' = running
  BY <1>1, <1>2, ActiveRuns DEF WaitersStay
<1> QED BY <1>2, <1>3

\* With the scheduler at rest every stack stays where it is.
LEMMA AtRest ==
  ASSUME UNCHANGED vars
  PROVE  /\ DepthsGoOn
         /\ \A x : Entered(x)' <=> Entered(x)
         /\ UNCHANGED <<ctx, running, callee>>
<1>1. UNCHANGED <<ctx, running, callee>> /\ \A x : Entered(x)' <=> Entered(x)
  BY DEF Entered, vars, swapVars
<1> QED BY <1>1, DepthsStay

\* On the stack of the loop nobody is in start.
LEMMA LoneLoop ==
  ASSUME ServerInv, (running = Main /\ phase # "script") \/ Waiting(running)
  PROVE  NoneLate
<1> SUFFICES ASSUME NEW x \in Contexts, Late(x) PROVE FALSE
  BY DEF NoneLate
<1>1. PICK d \in [Contexts -> Nat] : Depths(d)
  BY DEF ServerInv
<1>2. phase # "script" /\ x \in {Main, running}
  BY <1>1, MainAlone DEF Late, ServerInv, WokenAlone
<1>3. x = Main
  BY <1>2 DEF Late
<1> QED BY <1>2, <1>3 DEF Late, ServerInv, ServesOnServer, LateOnce

\* A call that parks takes its stack off and registers its descriptor.
LEMMA BlocksEffect ==
  ASSUME SocketInv, UserCode, NEW call \in Calls, NEW s \in Sockets, socket[s] \in Fds,
         NEW reg \in [Fds -> {NoRegistration} \union [cid : Cids, event : {"read", "write"}]],
         Blocks(call, s, reg)
  PROVE  \/ DieOf("no_current")
         \/ /\ running \in Cids /\ running' = origin[running]
            /\ ctx' = [ctx EXCEPT ![running] = "parked"]
            /\ UNCHANGED <<callee, socket, phase>>
            /\ waits'[running] =
                 [call |-> call, sock |-> s, added |-> reg[socket[s]] = NoRegistration]
            /\ waits'[running] # NotWaiting
            /\ \A x \in Contexts \ {running} : waits'[x] = waits[x]
            /\ \A fd \in Fds : reg[fd] # NoRegistration => registered'[fd] = reg[fd]
            /\ registered'[socket[s]] # NoRegistration
<1> SUFFICES ASSUME ~ DieOf("no_current")
             PROVE  /\ running \in Cids /\ running' = origin[running]
                    /\ ctx' = [ctx EXCEPT ![running] = "parked"]
                    /\ UNCHANGED <<callee, socket, phase>>
                    /\ waits'[running] =
                         [call |-> call, sock |-> s, added |-> reg[socket[s]] = NoRegistration]
                    /\ waits'[running] # NotWaiting
                    /\ \A x \in Contexts \ {running} : waits'[x] = waits[x]
                    /\ \A fd \in Fds : reg[fd] # NoRegistration => registered'[fd] = reg[fd]
                    /\ registered'[socket[s]] # NoRegistration
  OBVIOUS
<1> DEFINE w == [call |-> call, sock |-> s, added |-> reg[socket[s]] = NoRegistration]
<1>1. /\ current # Main
      /\ registered' = AddTo(reg, socket[s], [cid |-> current, event |-> EventOf(call)])
      /\ waits' = [waits EXCEPT ![running] = w]
      /\ Yield(current)
      /\ UNCHANGED <<socket, kernelVars, phase, scriptVars>>
  BY DEF Blocks, wait_event
<1>2. current \in Cids /\ ctx[current] = "active" /\ current = running
  BY <1>1, CurrentActive DEF SocketInv, Schedule, SwapInv, StackCoherence
<1>3. swap_ctx[running] = origin[running]
  BY <1>2 DEF SocketInv, Schedule, SwapInv, Links
<1>4. /\ waits'[running] = w
      /\ \A x \in Contexts \ {running} : waits'[x] = waits[x]
  BY <1>1, <1>2, ContextsSplit DEF SocketInv, Polled, SocketTypeOK
<1>5. w # NotWaiting
  <2>1. w.sock = s
    OBVIOUS
  <2> QED BY <2>1, NotWaitingFields
<1>6. [cid |-> current, event |-> EventOf(call)] # NoRegistration
  <2>1. [cid |-> current, event |-> EventOf(call)].cid = current /\ NoRegistration.cid = Main
    BY DEF NoRegistration
  <2> QED BY <1>1, <2>1
<1>7. /\ \A fd \in Fds : reg[fd] # NoRegistration => registered'[fd] = reg[fd]
      /\ registered'[socket[s]] # NoRegistration
  BY <1>1, <1>6 DEF AddTo
<1> QED BY <1>1, <1>2, <1>3, <1>4, <1>5, <1>7 DEF Yield

\* A step of the sockets' with the scheduler at rest.
LEMMA ObjectsUndisturbed ==
  ASSUME ServerInv, SocketInv', UNCHANGED <<serverVars, vars, waits, phase>>,
         server # NoServer => socket'[server] = socket[server], ServerWatched
  PROVE  ServerInv'
<1>1. DepthsGoOn /\ (\A x : Entered(x)' <=> Entered(x)) /\ UNCHANGED running
  BY AtRest
<1>2. ServingStay
  BY <1>1 DEF ServingStay
<1>3. WokenAlone'
  BY <1>1 DEF ServerInv, WokenAlone, Waiting
<1> QED BY <1>1, <1>2, <1>3, Undisturbed

LEMMA DeadUndisturbed ==
  ASSUME ServerInv, NEW why \in Faults \ {"none", "stale_resume"}, DieOf(why),
         UNCHANGED serverVars
  PROVE  ServerInv'
<1>1. UNCHANGED <<ctx, running, callee, waits, phase, socket, registered>>
  BY DEF DieOf, Die, swapVars, socketVars, loopVars
<1>2. SocketInv'
  BY DeadKeeps DEF ServerInv
<1>3. \A x : Entered(x)' <=> Entered(x)
  BY <1>1 DEF Entered
<1>4. DepthsGoOn
  BY <1>1, <1>3, DepthsStay
<1>5. ServingStay /\ WokenAlone' /\ ServerWatched
  BY <1>1, <1>3 DEF ServingStay, ServerInv, WokenAlone, Waiting, ServerWatched
<1> QED BY <1>1, <1>2, <1>4, <1>5, Undisturbed

\* A scheduler's step of a script, by none of those in start.
LEMMA ScriptUndisturbed ==
  ASSUME ServerInv, Schedule', WaitersStay, UNCHANGED <<serverVars, socketVars>>,
         ScriptRuns, DepthsGoOn,
         \A x \in serving : Entered(x) => Entered(x)'
  PROVE  ServerInv'
<1>1. UNCHANGED <<waits, phase, socket, registered>>
  BY DEF socketVars, loopVars
<1>2. SocketInv'
  BY SchedulerTurn, FirstSlotFirst DEF ServerInv
<1>3. WokenAlone'
  BY OnlyTheLoopWakes DEF ServerInv, SocketInv, ScriptRuns, Waiting, WokenAlone
<1>4. ServingStay /\ ServerWatched
  BY <1>1 DEF ServingStay, ServerWatched
<1> QED BY <1>1, <1>2, <1>3, <1>4, Undisturbed

\* A call that blocks, not in start and not for the server's descriptor.
LEMMA BlocksUndisturbed ==
  ASSUME ServerInv, UserCode, running \notin serving, UNCHANGED serverVars,
         NEW call \in Calls, NEW s \in Sockets \ {server}, socket[s] \in Fds, NEW reg,
         \/ reg = registered /\ ~ Waiting(running)
         \/ /\ reg = Deregistered(socket[s])
            /\ Waiting(running) /\ waits[running].sock = s,
         Blocks(call, s, reg)
  PROVE  ServerInv'
<1>1. SocketInv'
  BY BlocksKeeps DEF ServerInv
<1>2. CASE DieOf("no_current")
  BY <1>2, DeadUndisturbed DEF Faults
<1>3. CASE ~ DieOf("no_current")
  <2>1. reg \in [Fds -> {NoRegistration} \union [cid : Cids, event : {"read", "write"}]]
    BY DEF ServerInv, SocketInv, Polled, SocketTypeOK, Deregistered
  <2>2. /\ running \in Cids /\ running' = origin[running]
        /\ ctx' = [ctx EXCEPT ![running] = "parked"]
        /\ UNCHANGED <<callee, socket, phase>>
        /\ waits'[running] =
             [call |-> call, sock |-> s, added |-> reg[socket[s]] = NoRegistration]
        /\ \A x \in Contexts \ {running} : waits'[x] = waits[x]
        /\ \A fd \in Fds : reg[fd] # NoRegistration => registered'[fd] = reg[fd]
    BY <1>3, <2>1, BlocksEffect DEF ServerInv
  <2>2a. waits'[running].sock = s
    BY <2>2
  <2>3. DepthsGoOn
    BY <2>2, DepthsPop DEF ServerInv, SocketInv, Schedule
  <2>4. ServingStay
    <3>1. \A x \in serving : x # running /\ x \in Contexts
      BY DEF ServerInv, ServerTypes
    <3>2. \A x \in serving : Entered(x) => Entered(x)'
      BY <2>2, <3>1, ActiveRuns DEF Entered, ServerInv, SocketInv
    <3> QED BY <2>2, <2>2a, <3>1, <3>2 DEF ServingStay
  <2>5. ~ Waiting(running)'
    <3>1. running' \in Contexts /\ (running' \in Cids => ctx'[running'] = "active")
      BY <1>1, ActiveRuns DEF SocketInv, Schedule, SwapInv, SwapTypeOK, Frames, Entered, Main, Cids
    <3>2. running' # running
      BY <2>2, <3>1, ActiveRuns DEF ServerInv, SocketInv
    <3>3. running' \in Cids => ctx[running'] = "active"
      BY <2>2, <3>1, <3>2, ActiveRuns DEF ServerInv, SocketInv
    <3>4. ~ Waiting(running')
      BY <3>1, <3>2, <3>3, ActiveRuns DEF ServerInv, SocketInv
    <3> QED BY <2>2, <3>1, <3>2, <3>4 DEF Waiting
  <2>6. ServerWatched
    BY <2>2, LoneLoop DEF ServerWatched
  <2> QED BY <1>1, <2>2, <2>3, <2>4, <2>5, <2>6, Undisturbed DEF WokenAlone
<1> QED BY <1>2, <1>3

\* A scheduler's step of a script moves the executing stack alone.
LEMMA ScriptDepths ==
  ASSUME Schedule, SchedulerScript
  PROVE  DepthsGoOn /\ \A x \in Contexts : Entered(x) /\ x # running => Entered(x)'
<1>1. /\ UserCode /\ SwapInv /\ running \in Contexts /\ current = running
      /\ running \in Cids => ctx[running] = "active"
      /\ ctx \in [Cids -> CtxStates] /\ callee \in [Contexts -> Contexts]
  BY ActiveRuns DEF SchedulerScript, ScriptRuns, UserCode, Schedule, SwapInv, SwapTypeOK,
                    StackCoherence
<1>2. ASSUME NEW c \in Cids, ctx[c] # "active", running' = c,
             callee' = [callee EXCEPT ![running] = c],
             ctx' = [ctx EXCEPT ![c] = "active"]
      PROVE  DepthsGoOn /\ \A x \in Contexts : Entered(x) /\ x # running => Entered(x)'
  BY <1>1, <1>2, DepthsPush DEF Entered
<1>3. ASSUME running \in Cids, NEW st \in {"parked", "end"},
             ctx' = [ctx EXCEPT ![running] = st], running' = swap_ctx[running],
             UNCHANGED callee
      PROVE  DepthsGoOn /\ \A x \in Contexts : Entered(x) /\ x # running => Entered(x)'
  <2>1. ctx[running] = "active" /\ running' = origin[running]
    BY <1>1, <1>3 DEF SwapInv, Links
  <2> QED BY <1>1, <1>3, <2>1, DepthsPop DEF Entered
<1>4. ASSUME UNCHANGED <<ctx, running, callee>>
      PROVE  DepthsGoOn /\ \A x \in Contexts : Entered(x) /\ x # running => Entered(x)'
  BY <1>4, DepthsStay DEF Entered
<1>5. CASE Create
  <2>1. /\ last_cid + 1 \in Cids /\ ctx[last_cid + 1] = "none"
        /\ ctx' = [ctx EXCEPT ![last_cid + 1] = "active"]
    BY <1>5, CreateKeeps DEF Schedule
  <2>2. running' = last_cid + 1 /\ callee' = [callee EXCEPT ![running] = last_cid + 1]
    BY <1>5 DEF Create, SwapIn
  <2> QED BY <1>2, <2>1, <2>2
<1>6. ASSUME NEW c \in Cids, UserResume(c)
      PROVE  DepthsGoOn /\ \A x \in Contexts : Entered(x) /\ x # running => Entered(x)'
  <2>1. CASE ctx[c] # "parked" /\ Die("stale_resume")
    BY <1>4, <2>1 DEF Die, swapVars
  <2>2. CASE ctx[c] = "parked" /\ SwapIn(c)
    BY <1>2, <2>2 DEF SwapIn
  <2> QED BY <1>6, <2>1, <2>2 DEF UserResume, Resume
<1>7. CASE UserYield \/ Sleep
  <2>1. CASE Die("no_current")
    BY <1>4, <2>1 DEF Die, swapVars
  <2>2. CASE current # Main /\ Yield(current)
    <3>1. running \in Cids
      BY <1>1, <2>2, ContextsSplit
    <3> QED BY <1>1, <1>3, <2>2, <3>1 DEF Yield
  <2> QED BY <1>7, <2>1, <2>2 DEF UserYield, Sleep
<1>8. CASE Defer \/ FunctionReturns \/ RunDeferred \/ Destructs
  BY <1>4, <1>8 DEF Defer, FunctionReturns, RunDeferred, Destructs, swapVars
<1>9. CASE ContextEnds
  <2>1. running \in Cids /\ ctx' = [ctx EXCEPT ![running] = "end"]
        /\ running' = swap_ctx[running] /\ UNCHANGED callee
    BY <1>9 DEF ContextEnds, InStage
  <2> QED BY <1>3, <2>1
<1> QED BY <1>5, <1>6, <1>7, <1>8, <1>9 DEF SchedulerScript, ScriptStep

\* What scripts do to sockets other than the server's.
LEMMA ServerScriptsKeep ==
  ASSUME ServerInv, ServerScripts, UNCHANGED serverVars
  PROVE  ServerInv'
<1>0. /\ ScriptRuns /\ running \notin serving /\ UserCode /\ ~ Waiting(running)
      /\ SocketInv /\ Schedule
  BY DEF ServerScripts, ServerScript, ScriptRuns, Waiting, ServerInv, SocketInv
<1>a. serving \subseteq Contexts /\ ctx \in [Cids -> CtxStates]
  BY <1>0, ActiveRuns DEF ServerInv, ServerTypes
<1>b. server # NoServer => server \in Sockets /\ socket[server] \in Fds \union {BadFd}
  BY DEF ServerInv, ServerTypes, ServesOnServer
<1>1. CASE SchedulerScript
  <2>1. Schedule' /\ WaitersStay /\ DepthsGoOn
    BY <1>0, <1>1, ScriptSchedule, ScriptDepths
  <2>2. \A x \in serving : Entered(x) => Entered(x)'
    BY <1>0, <1>a, <1>1, ScriptDepths
  <2>3. UNCHANGED socketVars
    BY <1>1 DEF SchedulerScript
  <2> QED BY <1>0, <2>1, <2>2, <2>3, ScriptUndisturbed
<1>2. CASE LoopStarts
  <2>1. SocketInv'
    BY <1>0, <1>2, LoopStartsKeeps
  <2>2. /\ UNCHANGED <<vars, waits, socket, registered>> /\ running = Main
    BY <1>2 DEF LoopStarts
  <2>3. DepthsGoOn /\ (\A x : Entered(x)' <=> Entered(x)) /\ UNCHANGED running
    BY <2>2, AtRest
  <2>4. ServingStay /\ ServerWatched /\ WokenAlone'
    BY <1>0, <2>2, <2>3 DEF ServingStay, ServerWatched, WokenAlone, Waiting
  <2> QED BY <1>0, <2>1, <2>2, <2>3, <2>4, Undisturbed
<1>3. ASSUME NEW s \in Sockets \ {server}, Socket_close(s) \/ Socket_free(s)
      PROVE  ServerInv'
  <2>1. SocketInv'
    BY <1>0, <1>3, CloseKeeps
  <2>2. CASE DieOf("bad_socket")
    BY <2>2, DeadUndisturbed DEF Faults
  <2>3. CASE /\ libsocket_close(socket[s])
             /\ \E v : socket' = [socket EXCEPT ![s] = v]
             /\ UNCHANGED <<vars, waits, loopVars, event_num>>
    <3>1. server # NoServer => socket'[server] = socket[server]
      BY <1>b, <2>3 DEF SocketInv, ServerInv, Polled, SocketTypeOK
    <3>2. server # NoServer /\ socket[server] \in Fds =>
            registered'[socket[server]] = registered[socket[server]]
      <4>1. server # NoServer /\ socket[server] \in Fds => socket[server] # socket[s]
        BY <1>0, <1>b DEF SocketInv, Polled, DescriptorsKept
      <4> QED BY <1>0, <2>3, <4>1 DEF libsocket_close, SocketInv, Polled, SocketTypeOK
    <3> QED BY <2>1, <2>3, <3>1, <3>2, ObjectsUndisturbed DEF ServerWatched, loopVars
  <2> QED BY <1>3, <2>2, <2>3 DEF Socket_close, Socket_free
<1>4. ASSUME NEW s \in Sockets \ {server}, NEW call \in HandlerCalls, Call(call, s)
      PROVE  ServerInv'
  <2>0. call \in Calls
    BY CoServerAssumption
  <2>1. CASE DieOf("bad_socket")
    BY <2>1, DeadUndisturbed DEF Faults
  <2>2. CASE Blocks(call, s, registered)
    <3>1. socket[s] \in Fds
      BY <2>2 DEF Blocks, Works
    <3> QED BY <1>0, <2>0, <2>2, <3>1, BlocksUndisturbed
  <2>3. CASE /\ Completes(call, s, FALSE)
             /\ UNCHANGED <<vars, registered, waits, loopVars, event_num>>
    <3>1. SocketInv'
      BY <1>0, <1>4, <2>0, CallKeeps
    <3>2. ObjectsMade
      BY <1>0, <2>0, <2>3, CompletesMakes DEF SocketInv
    <3>3. server # NoServer => socket'[server] = socket[server]
      BY <1>b, <3>2, BadValues DEF ObjectsMade
    <3> QED BY <2>3, <3>1, <3>3, ObjectsUndisturbed DEF ServerWatched, loopVars
  <2> QED BY <1>4, <2>1, <2>2, <2>3 DEF Call
<1> QED BY <1>1, <1>2, <1>3, <1>4 DEF ServerScripts

\* The call of a coroutine that is not in start goes on.
LEMMA OthersWoken ==
  ASSUME ServerInv, running \notin serving, Woken, UNCHANGED serverVars
  PROVE  ServerInv'
<1> DEFINE call == waits[running].call
           s == waits[running].sock
<1>1. InWaitEvent /\ UserCode /\ Waiting(running) /\ call \in Calls /\ s \in Sockets
  BY WaitsTyped, ActiveRuns DEF Woken, InWaitEvent, Waiting, ServerInv, SocketInv, Polled
<1>2. s # server /\ running \in Contexts
  BY <1>1, ActiveRuns DEF ServerInv, ServesOnServer, SocketInv
<1>3. CASE DieOf("bad_socket")
  BY <1>3, DeadUndisturbed DEF Faults
<1>4. CASE socket[s] \in Fds /\ BlocksAgain(call, s)
  BY <1>1, <1>2, <1>4, BlocksUndisturbed DEF BlocksAgain
<1>5. CASE socket[s] \in Fds /\ Finishes(call, s) /\ UNCHANGED vars
  <2>1. SocketInv'
    BY WokenKeeps DEF ServerInv
  <2>2. /\ waits' = [waits EXCEPT ![running] = NotWaiting]
        /\ UNCHANGED phase /\ Completes(call, s, GaveUp(s))
    BY <1>5 DEF Finishes, loopVars
  <2>3. ObjectsMade
    BY <1>1, <2>2, CompletesMakes DEF ServerInv, SocketInv
  <2>4. server # NoServer => socket'[server] = socket[server]
    BY <2>3, BadValues DEF ObjectsMade, ServerInv, ServerTypes, ServesOnServer
  <2>5. DepthsGoOn /\ (\A x : Entered(x)' <=> Entered(x)) /\ UNCHANGED running
    BY <1>5, AtRest
  <2>6. /\ waits'[running] = NotWaiting
        /\ \A x \in Contexts \ {running} : waits'[x] = waits[x]
    BY <1>2, <2>2 DEF ServerInv, SocketInv, Polled, SocketTypeOK
  <2>7. ServingStay
    BY <2>4, <2>5, <2>6 DEF ServingStay, ServerInv, ServerTypes
  <2>8. ServerWatched
    BY <1>1, LoneLoop DEF ServerWatched
  <2>9. WokenAlone'
    BY <2>5, <2>6 DEF WokenAlone, Waiting
  <2> QED BY <2>1, <2>2, <2>5, <2>7, <2>8, <2>9, Undisturbed
<1> QED BY <1>3, <1>4, <1>5 DEF Woken

\* The tail of run() and resume().
LEMMA ReturnsUndisturbed ==
  ASSUME ServerInv, SwapInReturns, UNCHANGED <<socketVars, serverVars>>
  PROVE  ServerInv'
<1>1. SocketInv'
  BY ReturnsKeep DEF ServerInv
<1>2. UNCHANGED <<waits, phase, socket, registered>>
  BY DEF socketVars, loopVars
<1>3. /\ UNCHANGED running /\ callee' = [callee EXCEPT ![running] = NoCallee]
      /\ \/ UNCHANGED ctx
         \/ \E co \in Cids : ctx[co] = "end" /\ ctx' = [ctx EXCEPT ![co] = "deleted"]
  <2>1. callee[running] # NoCallee => callee[running] \in Cids
    BY ContextsSplit DEF ServerInv, SocketInv, Schedule, SwapInv, SwapTypeOK, NoCallee, Main
  <2> QED BY <2>1 DEF SwapInReturns
<1>4. \A x \in Contexts : Entered(x)' <=> Entered(x)
  BY <1>3, ActiveRuns DEF Entered, ServerInv, SocketInv
<1>5. DepthsGoOn
  BY <1>3, <1>4, DepthsStay DEF ServerInv, SocketInv, Schedule, SwapInv, SwapTypeOK
<1>6. ServingStay /\ ServerWatched /\ WokenAlone'
  BY <1>2, <1>3, <1>4
     DEF ServingStay, ServerWatched, WokenAlone, Waiting, ServerInv, ServerTypes
<1> QED BY <1>1, <1>2, <1>5, <1>6, Undisturbed

\* A coroutine that the loop resumes is alone with it.
LEMMA LoopUndisturbed ==
  ASSUME ServerInv, LoopStep, UNCHANGED serverVars
  PROVE  ServerInv'
<1>0. SocketInv /\ Schedule /\ SocketInv' /\ Schedule'
  BY LoopKeeps DEF ServerInv, SocketInv
<1>1. CASE Poll \/ TurnEnds
  <2>1. /\ UNCHANGED <<vars, waits, socket>> /\ running = Main /\ phase # "script"
    BY <1>1 DEF Poll, TurnEnds, LoopRuns
  <2>2. DepthsGoOn /\ (\A x : Entered(x)' <=> Entered(x)) /\ UNCHANGED running
    BY <2>1, AtRest
  <2>3. ServingStay /\ ServerWatched
    BY <2>1, <2>2, LoneLoop DEF ServingStay, ServerWatched
  <2>4. WokenAlone'
    BY <1>0, <2>1, <2>2 DEF WokenAlone, Waiting, Schedule, CallsParked
  <2> QED BY <1>0, <2>1, <2>2, <2>3, <2>4, Undisturbed
<1>2. ASSUME NEW fd \in Fds, PeerActs(fd) \/ PeerAborts(fd)
      PROVE  ServerInv'
  <2>1. UNCHANGED <<vars, waits, socket, phase, registered>>
    BY <1>2 DEF PeerActs, PeerAborts, loopVars
  <2> QED BY <1>0, <2>1, ObjectsUndisturbed DEF ServerWatched
<1>3. ASSUME UserCode, running = Main, phase # "script", NEW c \in Cids, ctx[c] = "parked",
             Resume(c), UNCHANGED <<waits, phase, socket>>,
             UNCHANGED last_cid
      PROVE  ServerInv'
  <2>1. /\ running' = c /\ callee' = [callee EXCEPT ![running] = c]
        /\ ctx' = [ctx EXCEPT ![c] = "active"]
    BY <1>3 DEF Resume, SwapIn
  <2>2. DepthsGoOn
    BY <1>0, <1>3, <2>1, DepthsPush DEF Schedule
  <2>3. ServingStay /\ ServerWatched
    BY <1>0, <1>3, <2>1, LoneLoop, ActiveRuns DEF ServingStay, ServerWatched, Entered
  <2>4. WokenAlone'
    <3>1. PICK d \in [Contexts -> Nat] : Depths(d)
      BY DEF ServerInv
    <3>2. \A x \in Contexts : Entered(x) => x = Main
      BY <1>3, <3>1, MainAlone
    <3>3. \A x \in Contexts : Entered(x)' => x \in {Main, c}
      BY <1>0, <2>1, <3>2, ActiveRuns DEF Entered
    <3> QED BY <1>3, <2>1, <3>3 DEF WokenAlone
  <2> QED BY <1>0, <1>3, <2>2, <2>3, <2>4, Undisturbed
<1>4. CASE Dispatch
  <2> DEFINE i == Min(DOMAIN events)
  <2>1. /\ UserCode /\ running = Main /\ phase # "script" /\ Resume(fromuint64(events[i]).id)
        /\ UNCHANGED <<waits, phase, socket>> /\ UNCHANGED last_cid
    BY <1>4 DEF Dispatch, LoopRuns, scriptVars
  <2>2. PICK id \in Cids : ctx[id] = "parked" /\ fromuint64(events[i]).id = id
    BY <1>0, <1>4, FirstEvent DEF Dispatch
  <2> HIDE DEF i
  <2> QED BY <1>3, <2>1, <2>2
<1>5. ASSUME NEW co \in Cids, TimerFires(co) PROVE ServerInv'
  <2>1. /\ UserCode /\ running = Main /\ phase # "script" /\ Resume(co) /\ timers[co] > 0
        /\ UNCHANGED <<waits, phase, socket>> /\ UNCHANGED last_cid
    BY <1>5 DEF TimerFires, SleepCall, LoopRuns, socketVars, loopVars
  <2>2. ctx[co] = "parked"
    BY <1>0, <2>1, ActiveRuns DEF Schedule, Wakes
  <2> QED BY <1>3, <2>1, <2>2
<1> QED BY <1>1, <1>2, <1>4, <1>5 DEF LoopStep

-----------------------------------------------------------------------------
(* Steps of the server. *)

\* What it does with the scheduler at rest.
LEMMA ServerAtRest ==
  ASSUME ServerInv, SocketInv', UNCHANGED <<vars, waits, phase>>,
         ServerTypes', ServesOnServer', LateOnce',
         \/ serving' = {}
         \/ ~ serv_running'
         \/ UNCHANGED <<server, socket, registered, serv_running, serving, late>>
  PROVE  ServerInv'
<1>1. DepthsGoOn /\ (\A x : Entered(x)' <=> Entered(x)) /\ UNCHANGED running
  BY AtRest
<1>2. WokenAlone'
  BY <1>1 DEF ServerInv, WokenAlone, Waiting
<1>3. PICK d \in [Contexts -> Nat] : Depths(d) /\ LateIsRefused(d)
  BY DEF ServerInv
<1>4. PICK e \in [Contexts -> Nat] :
        Depths(e)' /\ \A x \in Contexts : Entered(x) => e[x] = d[x]
  BY <1>1, <1>3 DEF DepthsGoOn
<1>5. LateIsRefused(e)'
  <2>1. CASE serving' = {}
    <3>1. \A x \in Contexts : ~ Late(x)'
      BY <2>1 DEF Late, LateOnce
    <3> QED BY <3>1 DEF LateIsRefused
  <2>2. CASE ~ serv_running'
    BY <2>2 DEF LateIsRefused
  <2>3. CASE UNCHANGED <<server, socket, registered, serv_running, serving, late>>
    <3> SUFFICES ASSUME serv_running, server # NoServer, socket[server] \in Fds,
                        registered[socket[server]] = NoRegistration,
                        NEW x \in Contexts, Late(x)'
                 PROVE  \E y \in serving : Entered(y)' /\ e[x] < e[y]
      BY <2>3 DEF LateIsRefused
    <3>1. Late(x) /\ Entered(x)
      BY <1>1, <2>3 DEF Late, Waiting
    <3>2. PICK y \in serving : Entered(y) /\ d[x] < d[y]
      BY <1>3, <3>1 DEF LateIsRefused
    <3>3. y \in Contexts
      BY DEF ServerInv, ServerTypes
    <3> QED BY <1>1, <1>4, <3>1, <3>2, <3>3
  <2> QED BY <2>1, <2>2, <2>3
<1> QED BY <1>2, <1>4, <1>5 DEF ServerInv

\* The constructor, over a descriptor nobody has.
LEMMA ConstructKeeps ==
  ASSUME ServerInv, NEW s \in Sockets, Server_construct(s)
  PROVE  ServerInv'
<1>1. PICK st \in {"created", "bound", "listening"} : Socket_new(s, st)
  BY DEF Server_construct, Listens
<1>2. SocketInv'
  BY <1>1, NewKeeps DEF ServerInv
<1>3. /\ server = NoServer /\ server' = s /\ s # NoServer
      /\ UNCHANGED <<vars, waits, phase, handler, serv_running, serving, late>>
  BY <1>1 DEF Server_construct, Socket_new, loopVars, NoServer, Sockets
<1>4. socket[s] = NoSocket /\ socket'[s] \in Fds \union {BadFd}
  BY <1>1, NewFdIsFree DEF Socket_new, NewObject, ServerInv, SocketInv, Polled, SocketTypeOK
<1>5. serving = {}
  BY <1>3 DEF ServerInv, ServesOnServer
<1>6. ServerTypes'
  BY <1>3 DEF ServerInv, ServerTypes
<1>7. ServesOnServer'
  <2>1. \A x \in Contexts : Waiting(x) => waits[x].sock # s
    BY <1>4, BadValues DEF ServerInv, SocketInv, Polled, CallsOnSockets
  <2> QED BY <1>3, <1>4, <1>5, <2>1 DEF ServesOnServer, Waiting
<1>8. LateOnce'
  BY <1>3 DEF ServerInv, LateOnce, Waiting
<1> QED BY <1>2, <1>3, <1>5, <1>6, <1>7, <1>8, ServerAtRest

\* The Socket is lost with its descriptor open; it is nobody's.
LEMMA FreeKeeps ==
  ASSUME ServerInv, Server_free
  PROVE  ServerInv'
<1>1. /\ server \in Sockets /\ server # NoServer /\ serving = {} /\ server' = NoServer
      /\ handler' = FALSE /\ serv_running' = FALSE
      /\ UNCHANGED <<vars, kernelVars, registered, waits, loopVars, event_num, serving, late>>
      /\ socket \in [Sockets -> Fds \union {BadFd, LIB_BAD_SOCKET, NoSocket}]
  BY DEF Server_free, ServerInv, ServerTypes, SocketInv, Polled, SocketTypeOK
<1>2. /\ socket'[server] = NoSocket
      /\ \A t \in Sockets \ {server} : socket'[t] = socket[t]
  BY <1>1 DEF Server_free
<1>3. \A x \in Contexts : Waiting(x) => waits[x].sock \in Sockets \ {server}
  BY <1>1, WaitsTyped DEF ServerInv, ServesOnServer, SocketInv, Polled
<1>4. Schedule'
  <2>1. UNCHANGED <<swapVars, last_cid, user_yield_coros, timers, fault, stage, defer_tasks, waits>>
    BY <1>1 DEF vars, scriptVars
  <2> QED BY <2>1, ScheduleStable DEF ServerInv, SocketInv, Schedule, TypeOK
<1>5. Polled'
  <2>0. Polled /\ UNCHANGED <<fdstate, ready, phase, events>>
    BY <1>1 DEF ServerInv, SocketInv, kernelVars, loopVars
  <2>1. SocketTypeOK'
    <3>1. socket' \in [Sockets -> Fds \union {BadFd, LIB_BAD_SOCKET, NoSocket}]
      BY <1>1 DEF Server_free
    <3>2. TypeOK'
      BY <1>4 DEF Schedule
    <3> QED BY <1>1, <2>0, <3>1, <3>2 DEF Polled, SocketTypeOK
  <2>2. DescriptorsKept'
    BY <1>2, <2>0, BadValues DEF Polled, DescriptorsKept
  <2>3. CallsOnSockets'
    BY <1>1, <1>2, <1>3, <2>0 DEF Polled, CallsOnSockets, Waiting
  <2>4. WatchesWaiters'
    <3> SUFFICES ASSUME NEW fd \in Fds, registered[fd] # NoRegistration
                 PROVE  LET w == waits[registered[fd].cid] IN
                        /\ Waiting(registered[fd].cid) /\ w.added
                        /\ socket'[w.sock] = fd
      BY <1>1 DEF WatchesWaiters, Waiting
    <3>1. registered[fd].cid \in Contexts
      BY <2>0, ContextsSplit DEF Polled, SocketTypeOK
    <3> QED BY <1>2, <1>3, <2>0, <3>1 DEF Polled, WatchesWaiters
  <2>5. WaitersRegistered'
    <3>1. \A x \in Cids : waits[x].added => Waiting(x)
      BY NotWaitingFields DEF Waiting
    <3>2. \A x \in Cids : waits[x].added => socket'[waits[x].sock] = socket[waits[x].sock]
      BY <1>2, <1>3, <3>1, ContextsSplit
    <3> QED BY <1>1, <2>0, <3>2 DEF Polled, WaitersRegistered
  <2> QED BY <1>1, <2>0, <2>1, <2>2, <2>3, <2>4, <2>5 DEF Polled, Counted, Waiting
<1>6. Pending'
  <2>0. Pending /\ UNCHANGED <<phase, events, running, callee, ctx, waits>>
    BY <1>1 DEF ServerInv, SocketInv, loopVars, vars, swapVars
  <2>1. ASSUME NEW i \in DOMAIN events PROVE Intact(i)'
    BY <1>2, <1>3, <2>0, ContextsSplit DEF Pending, Intact, Waiting
  <2> QED BY <2>0, <2>1 DEF Pending
<1>7. SocketInv'
  BY <1>4, <1>5, <1>6 DEF SocketInv
<1>8. ServerTypes'
  BY <1>1 DEF ServerInv, ServerTypes
<1>9. ServesOnServer'
  <2>1. \A x \in Contexts : Waiting(x) => waits[x].sock # NoServer
    BY <1>3 DEF NoServer, Sockets
  <2> QED BY <1>1, <2>1 DEF ServesOnServer, Waiting
<1>10. LateOnce'
  BY <1>1 DEF ServerInv, LateOnce, Waiting
<1> QED BY <1>1, <1>7, <1>8, <1>9, <1>10, ServerAtRest DEF loopVars

\* Calls that set the handler or the flag.
LEMMA FlagKeeps ==
  ASSUME ServerInv, Server_set_handler \/ Server_shutdown
  PROVE  ServerInv'
<1>1. /\ UNCHANGED <<vars, socketVars, server, serving, late>>
      /\ UNCHANGED <<waits, phase, socket, registered>>
      /\ serv_running' \in BOOLEAN /\ handler' \in BOOLEAN
      /\ ~ serv_running' \/ UNCHANGED serv_running
  BY DEF Server_set_handler, Server_shutdown, socketVars, loopVars, ServerInv, ServerTypes
<1>2. SocketInv'
  BY <1>1, SocketStutters DEF ServerInv, socketAllVars
<1>3. ServerTypes' /\ LateOnce'
  BY <1>1 DEF ServerInv, ServerTypes, LateOnce, Waiting
<1>4. ServesOnServer'
  <2>1. \A x : Entered(x)' <=> Entered(x)
    BY <1>1, AtRest
  <2> QED BY <1>1, <2>1 DEF ServerInv, ServesOnServer, Waiting
<1> QED BY <1>1, <1>2, <1>3, <1>4, ServerAtRest

\* start returns.
LEMMA LeavesKeeps ==
  ASSUME ServerInv, ScriptRuns, running \in serving, ~ serv_running,
         serving' = serving \ {running}, late' = [late EXCEPT ![running] = 0],
         UNCHANGED <<vars, socketVars, server, handler, serv_running>>
  PROVE  ServerInv'
<1>1. UNCHANGED <<waits, phase, socket, registered>>
  BY DEF socketVars, loopVars
<1>2. SocketInv'
  BY SocketStutters DEF ServerInv, socketAllVars
<1>3. ServerTypes' /\ LateOnce'
  BY <1>1 DEF ServerInv, ServerTypes, LateOnce, Waiting
<1>4. ServesOnServer'
  <2>1. (\A x : Entered(x)' <=> Entered(x)) /\ ~ Waiting(running)
    BY <1>1, AtRest DEF ScriptRuns, Waiting
  <2> QED BY <1>1, <2>1 DEF ServerInv, ServesOnServer, Waiting
<1> QED BY <1>1, <1>2, <1>3, <1>4, ServerAtRest

\* accept came back, and the handler runs on top of start, or is not there.
LEMMA Serves ==
  ASSUME ServerInv, SocketInv', UserCode, running = Main => phase = "script",
         Create \/ UNCHANGED <<ctx, running, callee>>,
         waits' = [waits EXCEPT ![running] = NotWaiting],
         server # NoServer, socket'[server] = socket[server], UNCHANGED <<server, handler, phase>>,
         serving' = serving \union {running}, serv_running' \in BOOLEAN,
         late' \in [Contexts -> Nat],
         \A x \in Contexts \ {running} : late'[x] = late[x],
         late'[running] <= 1,
         late'[running] = 1 /\ serv_running' /\ socket[server] \in Fds =>
           registered'[socket[server]] # NoRegistration
  PROVE  ServerInv'
<1>0. /\ running \in Contexts /\ Entered(running) /\ serving \subseteq Contexts
      /\ ctx \in [Cids -> CtxStates] /\ Schedule /\ SwapInv /\ Schedule'
  BY ActiveRuns DEF ServerInv, ServerTypes, SocketInv, Schedule, SwapInv, Frames
<1>1. waits'[running] = NotWaiting /\ \A x \in Contexts \ {running} : waits'[x] = waits[x]
  BY <1>0 DEF ServerInv, SocketInv, Polled, SocketTypeOK
<1>2. PICK c \in Contexts :
        /\ DepthsGoOn
        /\ \A x \in Contexts : Entered(x) => Entered(x)'
        /\ \A x \in Contexts \ {c} : Entered(x)' => Entered(x)
        /\ c # running => c \notin serving
        /\ running' \in {running, c}
        /\ c # running => ~ Waiting(c)
  <2>1. CASE UNCHANGED <<ctx, running, callee>>
    <3>1. \A x \in Contexts : Entered(x)' <=> Entered(x)
      BY <2>1 DEF Entered
    <3> QED BY <1>0, <2>1, <3>1, DepthsStay
  <2>2. CASE Create
    <3> DEFINE n == last_cid + 1
    <3>1. n \in Cids /\ ctx[n] = "none" /\ ctx' = [ctx EXCEPT ![n] = "active"]
      BY <1>0, <2>2, CreateKeeps
    <3>2. running' = n /\ callee' = [callee EXCEPT ![running] = n]
      BY <2>2 DEF Create, SwapIn
    <3> HIDE DEF n
    <3>3. DepthsGoOn
      BY <1>0, <3>1, <3>2, DepthsPush
    <3>4. /\ \A x \in Contexts : Entered(x) => Entered(x)'
          /\ \A x \in Contexts \ {n} : Entered(x)' => Entered(x)
          /\ ~ Entered(n) /\ n \in Contexts
      BY <1>0, <3>1, ContextsSplit DEF Entered
    <3>5. n # running => ~ Waiting(n)
      BY <1>0, <3>1, <3>4, ActiveRuns
    <3>6. n # running => n \notin serving
      BY <3>4, <3>5 DEF ServerInv, ServesOnServer
    <3> QED BY <3>2, <3>3, <3>4, <3>5, <3>6
  <2> QED BY <2>1, <2>2
<1>3. ServerTypes'
  BY <1>0 DEF ServerInv, ServerTypes
<1>4. ServesOnServer'
  <2>1. ASSUME NEW x \in Contexts, Waiting(x)'
        PROVE  /\ x \in serving' <=> waits'[x].sock = server
               /\ x \in serving' => waits'[x].call = "accept"
    <3>1. x # running /\ Waiting(x) /\ waits'[x] = waits[x]
      BY <1>1, <2>1 DEF Waiting
    <3> QED BY <3>1 DEF ServerInv, ServesOnServer
  <2>2. ASSUME NEW x \in serving' PROVE Waiting(x)' \/ Entered(x)'
    <3>1. CASE x = running
      BY <1>0, <1>2, <3>1
    <3>2. CASE x # running
      BY <1>0, <1>1, <1>2, <3>2 DEF ServerInv, ServesOnServer, Waiting
    <3> QED BY <3>1, <3>2
  <2> QED BY <2>1, <2>2 DEF ServerInv, ServesOnServer
<1>5. WokenAlone'
  <2>1. ~ Waiting(running)'
    BY <1>1, <1>2 DEF Waiting
  <2> QED BY <2>1 DEF WokenAlone
<1>6. LateOnce'
  <2> SUFFICES ASSUME NEW x \in Contexts
               PROVE  /\ late'[x] <= 1
                      /\ late'[x] = 1 => x \in serving'
                      /\ late'[x] = 1 /\ Waiting(x)' => ~ waits'[x].added
    BY DEF LateOnce
  <2>1. CASE x = running
    BY <1>1, <2>1 DEF Waiting
  <2>2. CASE x # running
    BY <1>1, <2>2 DEF ServerInv, LateOnce, Waiting
  <2> QED BY <2>1, <2>2
<1>7. PICK d \in [Contexts -> Nat] : Depths(d)
  BY DEF ServerInv
<1>8. PICK e \in [Contexts -> Nat] :
        Depths(e)' /\ \A x \in Contexts : Entered(x) => e[x] = d[x]
  BY <1>2, <1>7 DEF DepthsGoOn
<1>9. LateIsRefused(e)'
  <2> SUFFICES ASSUME serv_running', socket[server] \in Fds,
                      registered'[socket[server]] = NoRegistration,
                      NEW x \in Contexts, Late(x)'
               PROVE  \E y \in serving' : Entered(y)' /\ e[x] < e[y]
    BY DEF LateIsRefused
  <2>1. x # running /\ x \in serving' /\ Entered(x)'
    BY <1>6 DEF Late, LateOnce
  <2>2. x \in serving /\ x # c /\ Entered(x)
    BY <1>2, <2>1
  <2>3. d[x] < d[running]
    BY <1>7, <2>1, <2>2 DEF Depths
  <2> QED BY <1>0, <1>2, <1>8, <2>2, <2>3
<1> QED BY <1>3, <1>4, <1>5, <1>6, <1>8, <1>9 DEF ServerInv

\* start parks in accept, and the server's descriptor is watched, for it or
\* for another.
LEMMA StartParks ==
  ASSUME ServerInv, UserCode, server # NoServer, NEW reg,
         \/ reg = registered /\ ~ Waiting(running)
         \/ /\ reg = Deregistered(socket[server])
            /\ Waiting(running) /\ waits[running].sock = server,
         Blocks("accept", server, reg), ~ DieOf("no_current"),
         late[running] = 1 => reg[socket[server]] # NoRegistration,
         serving' = serving \union {running}, serv_running' \in BOOLEAN,
         UNCHANGED <<server, handler, late>>
  PROVE  ServerInv'
<1>0. /\ server \in Sockets /\ "accept" \in Calls /\ socket[server] \in Fds
      /\ running \in Contexts /\ ctx \in [Cids -> CtxStates] /\ Schedule /\ SwapInv
      /\ serving \subseteq Contexts
      /\ reg \in [Fds -> {NoRegistration} \union [cid : Cids, event : {"read", "write"}]]
  BY ActiveRuns DEF ServerInv, ServerTypes, SocketInv, Polled, SocketTypeOK, Schedule,
                    Deregistered, Calls, Blocks, Works
<1>1. SocketInv'
  BY <1>0, BlocksKeeps DEF ServerInv
<1>2. /\ running \in Cids /\ running' = origin[running]
      /\ ctx' = [ctx EXCEPT ![running] = "parked"]
      /\ UNCHANGED <<callee, socket, phase>>
      /\ waits'[running] =
           [call |-> "accept", sock |-> server, added |-> reg[socket[server]] = NoRegistration]
      /\ \A x \in Contexts \ {running} : waits'[x] = waits[x]
      /\ registered'[socket[server]] # NoRegistration
  BY <1>0, BlocksEffect DEF ServerInv
<1>3. /\ waits'[running].call = "accept" /\ waits'[running].sock = server
      /\ waits'[running].added = (reg[socket[server]] = NoRegistration)
  BY <1>2
<1>4. waits'[running] # NotWaiting
  BY <1>0, <1>3, NotWaitingFields
<1>5. DepthsGoOn
  BY <1>0, <1>2, DepthsPop
<1>6. \A x \in Contexts \ {running} : Entered(x)' <=> Entered(x)
  BY <1>0, <1>2 DEF Entered
<1>7. WokenAlone'
  <2>1. /\ running' \in Contexts /\ (running' \in Cids => ctx'[running'] = "active")
    BY <1>1 DEF SocketInv, Schedule, SwapInv, SwapTypeOK, Frames, Entered, Main, Cids
  <2>2. running' # running
    BY <1>0, <1>2, <2>1
  <2>3. running' \in Cids => ctx[running'] = "active"
    BY <1>0, <1>2, <2>1, <2>2
  <2>4. ~ Waiting(running')
    BY <1>0, <2>1, <2>2, <2>3, ActiveRuns
  <2>5. ~ Waiting(running)'
    BY <1>2, <2>1, <2>2, <2>4 DEF Waiting
  <2> QED BY <2>5 DEF WokenAlone
<1>8. ServerTypes'
  BY <1>0 DEF ServerInv, ServerTypes
<1>9. ServesOnServer'
  <2>1. ASSUME NEW x \in Contexts, Waiting(x)'
        PROVE  /\ x \in serving' <=> waits'[x].sock = server
               /\ x \in serving' => waits'[x].call = "accept"
    <3>1. CASE x = running
      BY <1>3, <3>1
    <3>2. CASE x # running
      BY <1>2, <2>1, <3>2 DEF ServerInv, ServesOnServer, Waiting
    <3> QED BY <3>1, <3>2
  <2>2. ASSUME NEW x \in serving' PROVE Waiting(x)' \/ Entered(x)'
    <3>1. CASE x = running
      BY <1>4, <3>1 DEF Waiting
    <3>2. CASE x # running
      BY <1>0, <1>2, <1>6, <3>2 DEF ServerInv, ServesOnServer, Waiting
    <3> QED BY <3>1, <3>2
  <2>3. phase' # "script" => Main \notin serving'
    BY <1>2, ContextsSplit DEF ServerInv, ServesOnServer
  <2> QED BY <1>0, <1>2, <2>1, <2>2, <2>3 DEF ServesOnServer
<1>10. LateOnce'
  <2> SUFFICES ASSUME NEW x \in Contexts
               PROVE  /\ late[x] <= 1
                      /\ late[x] = 1 => x \in serving'
                      /\ late[x] = 1 /\ Waiting(x)' => ~ waits'[x].added
    BY DEF LateOnce
  <2>1. CASE x = running
    BY <1>3, <2>1 DEF ServerInv, LateOnce
  <2>2. CASE x # running
    BY <1>2, <2>2 DEF ServerInv, LateOnce, Waiting
  <2> QED BY <2>1, <2>2
<1>11. PICK d \in [Contexts -> Nat] : Depths(d)
  BY DEF ServerInv
<1>12. PICK e \in [Contexts -> Nat] : Depths(e)'
  BY <1>5, <1>11 DEF DepthsGoOn
<1>13. LateIsRefused(e)'
  BY <1>2 DEF LateIsRefused
<1> QED BY <1>1, <1>7, <1>8, <1>9, <1>10, <1>12, <1>13 DEF ServerInv

\* Who accepted its one since the flag fell and finds it up again, finds the
\* server's descriptor taken.
LEMMA LateFindsItTaken ==
  ASSUME ServerInv, server # NoServer, socket[server] \in Fds, serv_running,
         ~ Waiting(running), late[running] = 1
  PROVE  registered[socket[server]] # NoRegistration
<1> SUFFICES ASSUME registered[socket[server]] = NoRegistration PROVE FALSE
  OBVIOUS
<1>1. PICK d \in [Contexts -> Nat] : Depths(d) /\ LateIsRefused(d)
  BY DEF ServerInv
<1>2. running \in Contexts /\ Late(running)
  BY ActiveRuns DEF Late, ServerInv, SocketInv, Schedule, SwapInv, Frames
<1>3. PICK y \in serving : Entered(y) /\ d[running] < d[y]
  BY <1>1, <1>2 DEF LateIsRefused
<1>4. y \in Contexts /\ d[y] \in Nat /\ d[running] \in Nat
  BY <1>2 DEF ServerInv, ServerTypes
<1>5. y = running \/ d[y] < d[running]
  BY <1>1, <1>3, <1>4 DEF Depths
<1> QED BY <1>3, <1>4, <1>5

\* A connection, at once, and the handler on top or the process dead.
LEMMA AcceptedKeeps ==
  ASSUME SocketInv, ScriptRuns, server \in Sockets, Completes("accept", server, FALSE),
         UNCHANGED <<registered, waits, loopVars, event_num>>,
         Create \/ (Die("no_handler") /\ UNCHANGED scriptVars)
  PROVE  SocketInv' /\ ObjectsMade
<1>1. ObjectsMade
  BY CompletesMakes DEF SocketInv, Calls
<1>2. Schedule' /\ WaitersStay
  BY CreateSchedule, DyingLeaves DEF SocketInv, ScriptRuns, Faults
<1>3. Polled' /\ CallsKeepObjects
  BY <1>1, <1>2, GrowthKeeps DEF SocketInv, Schedule
<1> QED BY <1>1, <1>2, <1>3, TurnGoesOn, FirstSlotFirst DEF loopVars

\* accept, when start calls it for the first time or again.
LEMMA AcceptsKeeps ==
  ASSUME ServerInv, ScriptRuns, server # NoServer, ServerAccepts(TRUE),
         serving' = serving \union {running}, serv_running' = TRUE,
         UNCHANGED <<server, handler>>, serv_running \/ running \notin serving
  PROVE  ServerInv'
<1>0. /\ UserCode /\ ~ Waiting(running) /\ running \in Contexts /\ server \in Sockets
      /\ (running = Main => phase = "script") /\ waits[running] = NotWaiting
      /\ late \in [Contexts -> Nat] /\ late[running] <= 1
      /\ waits = [waits EXCEPT ![running] = NotWaiting]
      /\ socket[server] \in Fds \union {BadFd}
  BY ActiveRuns DEF ScriptRuns, Waiting, ServerInv, ServerTypes, ServesOnServer, LateOnce,
                    SocketInv, Polled, SocketTypeOK
<1>1. socket[server] \in Fds /\ late[running] = 1 => registered[socket[server]] # NoRegistration
  BY <1>0, LateFindsItTaken DEF ServerInv, LateOnce
<1>2. CASE DieOf("no_current") /\ UNCHANGED late
  <2>1. /\ UNCHANGED <<ctx, running, callee, waits, phase, socket, registered>>
    BY <1>2 DEF DieOf, Die, swapVars, socketVars, loopVars
  <2>2. SocketInv'
    BY <1>2, DeadKeeps DEF ServerInv, Faults
  <2> QED BY <1>0, <1>1, <1>2, <2>1, <2>2, Serves
<1>3. CASE Blocks("accept", server, registered) /\ UNCHANGED late
  <2>1. CASE DieOf("no_current")
    BY <1>2, <1>3, <2>1
  <2>2. CASE ~ DieOf("no_current")
    <3>1. socket[server] \in Fds
      BY <1>3 DEF Blocks, Works
    <3> QED BY <1>0, <1>1, <1>3, <2>2, <3>1, StartParks
  <2> QED BY <2>1, <2>2
<1>4. CASE /\ Completes("accept", server, FALSE)
           /\ UNCHANGED <<registered, waits, loopVars, event_num>>
           /\ Serve(TRUE)
  <2>1. SocketInv' /\ ObjectsMade
    <3>1. Create \/ (Die("no_handler") /\ UNCHANGED scriptVars)
      BY <1>4 DEF Serve
    <3> QED BY <1>0, <1>4, <3>1, AcceptedKeeps DEF ServerInv
  <2>2. socket'[server] = socket[server] /\ UNCHANGED <<phase, registered, waits>>
    BY <1>0, <1>4, <2>1, BadValues DEF ObjectsMade, loopVars
  <2>3. CASE Create /\ late' = [late EXCEPT ![running] = 0]
    BY <1>0, <2>1, <2>2, <2>3, Serves
  <2>4. CASE Die("no_handler") /\ UNCHANGED <<scriptVars, late>>
    <3>1. UNCHANGED <<ctx, running, callee>>
      BY <2>4 DEF Die, swapVars
    <3> QED BY <1>0, <1>1, <2>1, <2>2, <2>4, <3>1, Serves
  <2> QED BY <1>4, <2>3, <2>4 DEF Serve
<1> QED BY <1>3, <1>4 DEF ServerAccepts

LEMMA StartKeeps == ASSUME ServerInv, Server_start PROVE ServerInv'
BY AcceptsKeeps DEF Server_start, ServerScript

LEMMA TurnKeeps == ASSUME ServerInv, ServerTurn PROVE ServerInv'
<1>1. CASE KeepsServing /\ ServerAccepts(serv_running) /\ UNCHANGED serving
  <2>1. serv_running = TRUE /\ server # NoServer /\ serving = serving \union {running}
    BY <1>1 DEF ServerTurn, KeepsServing, ServerInv, ServerTypes, ServesOnServer
  <2> QED BY <1>1, <2>1, AcceptsKeeps DEF ServerTurn
<1>2. CASE ~ KeepsServing
  BY <1>2, LeavesKeeps DEF ServerTurn, KeepsServing
<1> QED BY <1>1, <1>2 DEF ServerTurn

\* start goes on in accept: the one it was resumed for was not yet accepted.
LEMMA AcceptWoken == ASSUME ServerInv, ServerWoken PROVE ServerInv'
<1>0. /\ InWaitEvent /\ UserCode /\ Waiting(running) /\ running \in serving
      /\ running \in Contexts /\ server \in Sockets /\ server # NoServer
      /\ waits[running].sock = server /\ socket[server] \in Fds
      /\ serving = serving \union {running} /\ "accept" \in Calls
      /\ UNCHANGED <<server, handler, serv_running, serving>>
      /\ serv_running \in BOOLEAN /\ late \in [Contexts -> Nat]
  <2>1. /\ InWaitEvent /\ UserCode /\ Waiting(running) /\ running \in serving
        /\ running \in Contexts /\ server \in Sockets /\ server # NoServer
        /\ waits[running].sock = server
    BY ActiveRuns DEF ServerWoken, InWaitEvent, Waiting, ServerInv, ServerTypes, ServesOnServer,
                      SocketInv, NoServer
  <2>2. socket[server] \in Fds
    BY <2>1, BadValues DEF ServerInv, ServesOnServer, SocketInv, Polled, CallsOnSockets
  <2> QED BY <2>1, <2>2 DEF ServerWoken, Calls, ServerInv, ServerTypes
<1>1. late[running] = 0
  BY <1>0 DEF ServerInv, LateOnce, SocketInv, Schedule, CallsParked
<1>2. running \in Cids
  BY <1>0, ActiveRuns DEF ServerInv, SocketInv
<1>3. CASE BlocksAgain("accept", server) /\ UNCHANGED late
  <2>1. CASE DieOf("no_current")
    BY <1>0, <1>3, <2>1, DeadUndisturbed DEF serverVars, Faults
  <2>2. CASE ~ DieOf("no_current")
    BY <1>0, <1>1, <1>3, <2>2, StartParks DEF BlocksAgain
  <2> QED BY <2>1, <2>2
<1>4. CASE Finishes("accept", server) /\ Serve(serv_running)
  <2>1. /\ waits' = [waits EXCEPT ![running] = NotWaiting] /\ UNCHANGED phase
        /\ Completes("accept", server, GaveUp(server))
    BY <1>4 DEF Finishes, loopVars
  <2>2. /\ waits'[running] = NotWaiting
        /\ \A x \in Contexts : x # running => waits'[x] = waits[x]
    BY <1>0, <2>1 DEF ServerInv, SocketInv, Polled, SocketTypeOK
  <2>3. ObjectsMade
    BY <1>0, <2>1, CompletesMakes DEF ServerInv, SocketInv
  <2>4. socket'[server] = socket[server]
    BY <1>0, <2>3, BadValues DEF ObjectsMade
  <2>5. Main # running
    BY <1>2, ContextsSplit
  <2>6. CASE Create /\ late' = [late EXCEPT ![running] = IF serv_running THEN 0 ELSE @ + 1]
    <3>1. SocketInv'
      <4>1. Schedule' /\ WaitersStay
        BY <2>2, <2>6, CreateSchedule DEF ServerInv, SocketInv
      <4> QED BY <1>0, <1>4, <4>1, FinishesKeeps DEF ServerInv
    <3>2. late'[running] = (IF serv_running THEN 0 ELSE 1)
      BY <1>0, <1>1, <2>6
    <3>3. late' \in [Contexts -> Nat]
      BY <1>0, <1>1, <2>6
    <3>4. \A x \in Contexts \ {running} : late'[x] = late[x]
      BY <1>0, <2>6
    <3> QED BY <1>0, <2>1, <2>4, <2>5, <2>6, <3>1, <3>2, <3>3, <3>4, Serves
  <2>7. CASE Die("no_handler") /\ UNCHANGED <<scriptVars, late>>
    <3>1. SocketInv'
      <4>1. Schedule' /\ WaitersStay
        BY <2>1, <2>7, FinishesSchedule DEF ServerInv, SocketInv, Polled, Die, Faults
      <4> QED BY <1>0, <1>4, <4>1, FinishesKeeps DEF ServerInv
    <3>2. UNCHANGED <<ctx, running, callee>>
      BY <2>7 DEF Die, swapVars
    <3> QED BY <1>0, <1>1, <2>1, <2>4, <2>5, <2>7, <3>1, <3>2, Serves
  <2> QED BY <1>4, <2>6, <2>7 DEF Serve
<1> QED BY <1>3, <1>4 DEF ServerWoken

-----------------------------------------------------------------------------
(* The invariant. *)

LEMMA ServerInitInv == ServerInit => ServerInv
<1> SUFFICES ASSUME ServerInit PROVE ServerInv
  OBVIOUS
<1>1. SocketInv
  BY SocketInitInv DEF ServerInit
<1>2. /\ \A x \in Contexts : ~ Waiting(x)
      /\ running = Main /\ Main \in Contexts
      /\ \A x \in Contexts : Entered(x) => x = Main
  BY ContextsSplit DEF ServerInit, SocketInit, Init, Waiting, Entered
<1>3. ServerTypes /\ ServesOnServer /\ WokenAlone /\ LateOnce
  <2>1. late \in [Contexts -> Nat] /\ \A x \in Contexts : late[x] = 0
    BY DEF ServerInit
  <2>2. serving = {} /\ server = NoServer /\ handler = FALSE /\ serv_running = FALSE
    BY DEF ServerInit
  <2>3. ServerTypes
    BY <2>1, <2>2 DEF ServerTypes
  <2>4. ServesOnServer /\ WokenAlone
    BY <1>2, <2>2 DEF ServesOnServer, WokenAlone
  <2> QED BY <2>1, <2>3, <2>4 DEF LateOnce
<1>4. \E d \in [Contexts -> Nat] : Depths(d) /\ LateIsRefused(d)
  <2> DEFINE d == [x \in Contexts |-> 0]
  <2>1. d \in [Contexts -> Nat] /\ d[Main] = 0
    BY <1>2
  <2> HIDE DEF d
  <2>2. Depths(d) /\ LateIsRefused(d)
    BY <1>2, <2>1 DEF Depths, LateIsRefused, ServerInit
  <2> QED BY <2>1, <2>2
<1> QED BY <1>1, <1>3, <1>4 DEF ServerInv

LEMMA ServerNextInv == ServerInv /\ [ServerNext]_everything => ServerInv'
<1> SUFFICES ASSUME ServerInv, [ServerNext]_everything PROVE ServerInv'
  OBVIOUS
<1>1. CASE UNCHANGED serverVars /\ SwapInReturns /\ UNCHANGED socketVars
  BY <1>1, ReturnsUndisturbed
<1>2. CASE UNCHANGED serverVars /\ ServerScripts
  BY <1>2, ServerScriptsKeep
<1>3. CASE UNCHANGED serverVars /\ running \notin serving /\ Woken
  BY <1>3, OthersWoken
<1>4. CASE UNCHANGED serverVars /\ LoopStep
  BY <1>4, LoopUndisturbed
<1>5. CASE \E s \in Sockets : Server_construct(s)
  BY <1>5, ConstructKeeps
<1>6. CASE Server_set_handler \/ Server_shutdown
  BY <1>6, FlagKeeps
<1>7. CASE Server_free
  BY <1>7, FreeKeeps
<1>8. CASE Server_start
  BY <1>8, StartKeeps
<1>9. CASE ServerWoken
  BY <1>9, AcceptWoken
<1>10. CASE ServerTurn
  BY <1>10, TurnKeeps
<1>11. CASE UNCHANGED everything
  <2>1. UNCHANGED <<vars, socketVars, serverVars, waits, phase, socket, registered>>
    BY <1>11 DEF everything, socketAllVars, socketVars, loopVars
  <2>2. SocketInv'
    BY <2>1, SocketStutters DEF ServerInv, socketAllVars
  <2> QED BY <2>1, <2>2, ObjectsUndisturbed DEF ServerWatched
<1> QED BY <1>1, <1>2, <1>3, <1>4, <1>5, <1>6, <1>7, <1>8, <1>9, <1>10, <1>11 DEF ServerNext

\* The whole of the invariant.
THEOREM ServerInvariantHolds == ServerSpec => []ServerInv
BY ServerInitInv, ServerNextInv, PTL DEF ServerSpec

-----------------------------------------------------------------------------
(* What the runs check, for any number of coroutines, sockets and descriptors. *)

\* Every variable of a server and of what is under it keeps its type.
THEOREM ServerTypeCorrect == ServerSpec => []ServerTypeOK
<1>1. ServerInv => ServerTypeOK
  BY DEF ServerInv, ServerTypes, ServerTypeOK, SocketInv, Polled
<1> QED BY <1>1, ServerInvariantHolds, PTL

\* A coroutine in start accepts one connection after a shutdown and no second
\* one, although another may start the server again while it waits: the one
\* that does takes the server's descriptor first.
THEOREM ShutdownEndsServing == ServerSpec => []ShutdownAcceptsOneMore
<1>1. ServerInv => ShutdownAcceptsOneMore
  BY DEF ServerInv, LateOnce, ShutdownAcceptsOneMore
<1> QED BY <1>1, ServerInvariantHolds, PTL

\* Under a server too nobody is resumed who is not parked: the loop, a
\* handler's end and start itself give control to those who wait for it.
THEOREM ServersResumeParked == ServerSpec => []NoStaleResume
<1>1. ServerInv => NoStaleResume
  BY DEF ServerInv, SocketInv, Schedule
<1> QED BY <1>1, ServerInvariantHolds, PTL

=============================================================================
