------------------------------ MODULE CoServer ------------------------------
(***************************************************************************)
(* Lib\Coroutine\Server: an accept loop in the coroutine that calls start, *)
(* a coroutine for each connection, and a flag that ends the loop.  The    *)
(* handler runs at once, on top of start, and start goes on when it first  *)
(* yields or ends.                                                         *)
(***************************************************************************)
EXTENDS CoSocket

CONSTANTS Sleepers,     \* bound: who calls sleep, yield and resume
          HandlerCalls  \* bound: what is called on connections

ASSUME CoServerAssumption == HandlerCalls \subseteq Calls

VARIABLES
  server,        \* the slot of the server's own Socket, or NoServer
  handler,       \* Server::handler: has it been set
  serv_running,  \* Server::running
  serving,       \* the stacks inside Server::start
  late           \* history: connections each accepted since running fell

serverVars == <<server, handler, serv_running, serving, late>>
everything == <<socketAllVars, serverVars>>

NoServer == 0

ServerInit ==
  /\ SocketInit
  /\ server = NoServer
  /\ handler = FALSE
  /\ serv_running = FALSE
  /\ serving = {}
  /\ late = [x \in Contexts |-> 0]

\* The executing stack is in script code proper.
ServerScript == ScriptRuns /\ running \notin serving

\* Server::Server: socket, then bind and listen, either of which may fail.
Listens(s) == \E st \in {"created", "bound", "listening"} : Socket_new(s, st)

Server_construct(s) ==
  /\ ServerScript
  /\ server = NoServer
  /\ server' = s
  /\ Listens(s)
  /\ UNCHANGED <<handler, serv_running, serving, late>>

\* A second handler replaces the first.
Server_set_handler ==
  /\ ServerScript
  /\ server # NoServer
  /\ handler' = TRUE
  /\ UNCHANGED <<vars, socketVars, server, serv_running, serving, late>>

\* The destructor is empty: the Socket is lost, and its descriptor open.
Server_free ==
  /\ ServerScript
  /\ server # NoServer
  /\ serving = {}
  /\ server' = NoServer
  /\ handler' = FALSE
  /\ serv_running' = FALSE
  /\ socket' = [socket EXCEPT ![server] = NoSocket]
  /\ UNCHANGED <<vars, kernelVars, registered, waits, loopVars, event_num,
                 serving, late>>

\* accept came back: an object for the connection, and a coroutine that runs
\* the handler with it; with no handler set, a null pointer is followed.
Serve(on) ==
  \/ /\ handler
     /\ Create
     /\ late' = [late EXCEPT ![running] = IF on THEN 0 ELSE @ + 1]
  \/ ~ handler /\ Die("no_handler") /\ UNCHANGED <<scriptVars, late>>

\* accept, called by start on the executing stack.
ServerAccepts(on) ==
  \/ Blocks("accept", server, registered) /\ UNCHANGED late
  \/ /\ Completes("accept", server, FALSE)
     /\ UNCHANGED <<registered, waits, loopVars, event_num>>
     /\ Serve(on)

Server_start ==
  /\ ServerScript
  /\ server # NoServer
  /\ serving' = serving \union {running}
  /\ serv_running' = TRUE
  /\ UNCHANGED <<server, handler>>
  /\ ServerAccepts(TRUE)

\* accept goes on after it was woken.
ServerWoken ==
  /\ InWaitEvent
  /\ running \in serving
  /\ \/ BlocksAgain("accept", server) /\ UNCHANGED late
     \/ Finishes("accept", server) /\ Serve(serv_running)
  /\ UNCHANGED <<server, handler, serv_running, serving>>

\* MUTANT KeepsServing: the loop never looks.
ServesForEver == TRUE

KeepsServing == serv_running

\* The handler gave control back: while (running).
ServerTurn ==
  /\ ScriptRuns
  /\ running \in serving
  /\ UNCHANGED <<server, handler, serv_running>>
  /\ \/ KeepsServing /\ ServerAccepts(serv_running) /\ UNCHANGED serving
     \/ /\ ~ KeepsServing
        /\ serving' = serving \ {running}
        /\ late' = [late EXCEPT ![running] = 0]
        /\ UNCHANGED <<vars, socketVars>>

Server_shutdown ==
  /\ ServerScript
  /\ server # NoServer
  /\ serv_running' = FALSE
  /\ UNCHANGED <<vars, socketVars, server, handler, serving, late>>

\* What scripts do besides: the scheduler's calls, event_wait, and on the
\* connections, which are all the sockets they have, recv, send and close.
ServerScripts ==
  /\ ServerScript
  /\ \/ /\ SchedulerScript
        /\ running \in Sleepers \/ UNCHANGED <<user_yield_coros, timers>>
     \/ LoopStarts
     \/ \E s \in Sockets \ {server} :
          \/ Socket_close(s)
          \/ Socket_free(s)
          \/ \E call \in HandlerCalls : Call(call, s)

ServerNext ==
  \/ /\ UNCHANGED serverVars
     /\ \/ SwapInReturns /\ UNCHANGED socketVars
        \/ ServerScripts
        \/ running \notin serving /\ Woken
        \/ LoopStep
  \/ \E s \in Sockets : Server_construct(s)
  \/ Server_set_handler
  \/ Server_free
  \/ Server_start
  \/ ServerWoken
  \/ ServerTurn
  \/ Server_shutdown

ServerSpec == ServerInit /\ [][ServerNext]_everything

-----------------------------------------------------------------------------
(* Properties. *)

ServerTypeOK ==
  /\ SocketTypeOK
  /\ server \in Sockets \union {NoServer}
  /\ handler \in BOOLEAN
  /\ serv_running \in BOOLEAN
  /\ serving \in SUBSET Contexts
  /\ late \in [Contexts -> Nat]

\* After shutdown, each coroutine in start accepts one more connection and
\* no second one, also when the shutdown comes from the handler it runs, or
\* from a coroutine that runs while it waits in accept.
ShutdownAcceptsOneMore == \A x \in Contexts : late[x] <= 1
=============================================================================
