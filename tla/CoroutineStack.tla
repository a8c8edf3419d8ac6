--------------------------- MODULE CoroutineStack ---------------------------
(***************************************************************************)
(* The scheduler implements the call stack of CallStack.  The chain of     *)
(* origin pointers from current to nullptr is the stack: the code keeps it *)
(* only as those pointers, and rewrites one at each switch.                *)
(***************************************************************************)
EXTENDS Coroutine, SequencesExt

\* The chain of origins below and including x, main script first.
ChainTo[x \in Contexts] ==
  IF x = Main THEN <<Main>> ELSE Append(ChainTo[origin[x]], x)

OriginChain == ChainTo[current]

Abstract == INSTANCE CallStack WITH
  Coroutines <- Cids,
  stack <- OriginChain,
  parked <- {co \in Cids : ctx[co] = "parked"},
  ended <- {co \in Cids : ctx[co] = "deleted"}

\* Every step of the scheduler is a step of the call stack or none at all.
ImplementsCallStack == Abstract!CallStackSpec
=============================================================================
