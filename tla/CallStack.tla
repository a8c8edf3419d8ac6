------------------------------ MODULE CallStack ------------------------------
(***************************************************************************)
(* What asymmetric coroutines promise: the contexts that have been entered *)
(* and not left form one stack with the main script at its bottom.         *)
(* Creating or resuming a coroutine pushes it, whether it was entered      *)
(* before or not; only the top can yield or end, and either gives control  *)
(* back to the context that entered it last.  What ended never runs again. *)
(***************************************************************************)
EXTENDS Naturals, SequencesExt

CONSTANTS Main,      \* the script outside every coroutine
          Coroutines \* everything that may be entered

VARIABLES stack, parked, ended

callStackVars == <<stack, parked, ended>>

CallStackInit == stack = <<Main>> /\ parked = {} /\ ended = {}

\* co starts or continues on behalf of the top.
Enter(co) ==
  /\ ~ Contains(stack, co)
  /\ co \notin ended
  /\ stack' = Append(stack, co)
  /\ parked' = parked \ {co}
  /\ UNCHANGED ended

\* The top yields to the context below it.
Leave ==
  /\ Len(stack) > 1
  /\ stack' = Front(stack)
  /\ parked' = parked \union {Last(stack)}
  /\ UNCHANGED ended

\* The top ends, and the context below it continues.
Return ==
  /\ Len(stack) > 1
  /\ stack' = Front(stack)
  /\ ended' = ended \union {Last(stack)}
  /\ UNCHANGED parked

CallStackNext == (\E co \in Coroutines : Enter(co)) \/ Leave \/ Return

CallStackSpec == CallStackInit /\ [][CallStackNext]_callStackVars
=============================================================================
