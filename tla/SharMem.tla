------------------------------- MODULE SharMem -------------------------------
(***************************************************************************)
(* Lib\SharMem: an integer in anonymous shared memory.  Where it lies is   *)
(* kept in two globals, shm and res, not in the object, and fork copies    *)
(* them; incr is a load and a store.                                       *)
(*                                                                         *)
(* The class shares nothing with Lib\Process but the processes, so a       *)
(* behaviour here uses one of the two.                                     *)
(***************************************************************************)
EXTENDS ProcessPool

CONSTANTS MaxMapping,   \* bound: mappings ever made
          MaxIncr       \* bound: increments of one mapping

ASSUME SharMemAssumption == MaxMapping \in Nat /\ MaxIncr \in Nat

Mappings == 1..MaxMapping
NoMapping == 0
Idle == -1

VARIABLES
  uses,     \* the class this script uses
  view,     \* each process's globals and what is mapped into it
  value,    \* kernel: the integer in each mapping
  made,     \* number of mappings made so far
  done,     \* history: increments completed on each mapping
  sharers   \* history: the processes each mapping was ever mapped into

memVars == <<view, value, made, done, sharers>>
sharVars == <<poolVars, uses, memVars>>

Views ==
  [shm : Mappings \union {NoMapping},
   res : Mappings \union {NoMapping},
   mapped : SUBSET Mappings,
   objects : Nat,                      \* live SharMem objects
   loaded : {Idle} \union Nat]         \* *res, in the middle of an increment

SharInit ==
  /\ PoolInit
  /\ uses \in {"Process", "SharMem"}
  /\ view = [p \in Processes |-> [shm |-> NoMapping, res |-> NoMapping,
                                  mapped |-> {}, objects |-> 0, loaded |-> Idle]]
  /\ value = [m \in Mappings |-> 0]
  /\ made = 0
  /\ done = [m \in Mappings |-> 0]
  /\ sharers = [m \in Mappings |-> {}]

\* p runs script code, outside an increment.
Free(p) == uses = "SharMem" /\ Runs(p) /\ view[p].loaded = Idle

\* SIGSEGV.
Crash(p) == Ends(p, "crashed") /\ UNCHANGED memVars

\* MUTANT Points: res is set once.
PointsOnce(v, m) == [v EXCEPT !.shm = m, !.mapped = @ \union {m}, !.objects = @ + 1,
                              !.res = IF @ = NoMapping THEN m ELSE @]

\* __construct makes both globals point to the new mapping.
Points(v, m) == [v EXCEPT !.shm = m, !.mapped = @ \union {m}, !.objects = @ + 1,
                          !.res = m]

\* __construct: map, point to the mapping and add 1 to its integer.  When
\* mmap fails, the address it answered is followed all the same.
Shm_construct(p) ==
  LET m == made + 1 IN
  /\ Free(p)
  /\ \/ Crash(p)
     \/ /\ m \in Mappings
        /\ made' = m
        /\ view' = [view EXCEPT ![p] = Points(@, m)]
        /\ value' = [value EXCEPT ![view'[p].res] = @ + 1]
        /\ done' = [done EXCEPT ![m] = @ + 1]
        /\ sharers' = [sharers EXCEPT ![m] = {p}]
        /\ UNCHANGED poolVars

\* munmap of the newest mapping; of what is not mapped it succeeds.
shm_free(v) == [v EXCEPT !.mapped = @ \ {v.shm}]

Destroyed(v) == [shm_free(v) EXCEPT !.objects = @ - 1]

\* MUTANT Shm_destruct: called for an object destroyed before.
DestructAgain(p) ==
  /\ Free(p)
  /\ view' = [view EXCEPT ![p] = Destroyed(@)]
  /\ UNCHANGED <<poolVars, value, made, done, sharers>>

\* __destruct of any object.
Shm_destruct(p) ==
  /\ Free(p)
  /\ view[p].objects > 0
  /\ view' = [view EXCEPT ![p] = Destroyed(@)]
  /\ UNCHANGED <<poolVars, value, made, done, sharers>>

\* incr loads the integer; incr and get die when it is not mapped.
Incr_load(p) ==
  /\ Free(p)
  /\ view[p].objects > 0
  /\ \/ view[p].res \notin view[p].mapped /\ Crash(p)
     \/ /\ view[p].res \in view[p].mapped
        /\ view' = [view EXCEPT ![p].loaded = value[view[p].res]]
        /\ UNCHANGED <<poolVars, value, made, done, sharers>>

\* incr stores what it loaded and one.
Incr_store(p) ==
  LET m == view[p].res IN
  /\ Runs(p)
  /\ view[p].loaded # Idle
  /\ done[m] < MaxIncr
  /\ value' = [value EXCEPT ![m] = view[p].loaded + 1]
  /\ done' = [done EXCEPT ![m] = @ + 1]
  /\ view' = [view EXCEPT ![p].loaded = Idle]
  /\ UNCHANGED <<poolVars, made, sharers>>

\* fork copies the globals and shares what is mapped.
Shm_fork(p) ==
  /\ Free(p)
  /\ lib_fork(p)
  /\ \E child \in Processes :
       /\ state'[child] # state[child]
       /\ view' = [view EXCEPT ![child] = view[p]]
       /\ sharers' = [m \in Mappings |->
            IF m \in view[p].mapped THEN sharers[m] \union {child} ELSE sharers[m]]
  /\ UNCHANGED <<value, made, done>>

MemoryStep(p) ==
  \/ Shm_construct(p)
  \/ Shm_destruct(p)
  \/ Incr_load(p)
  \/ Incr_store(p)
  \/ Shm_fork(p)
  \/ Free(p) /\ Exit(p) /\ UNCHANGED memVars

SharNext ==
  /\ UNCHANGED uses
  /\ \E p \in Processes :
       \/ uses = "Process" /\ PoolStep(p) /\ UNCHANGED memVars
       \/ MemoryStep(p)

SharSpec == SharInit /\ [][SharNext]_sharVars

-----------------------------------------------------------------------------
(* Properties. *)

SharTypeOK ==
  /\ PoolTypeOK
  /\ uses \in {"Process", "SharMem"}
  /\ view \in [Processes -> Views]
  /\ value \in [Mappings -> Nat]
  /\ made \in 0..MaxMapping
  /\ done \in [Mappings -> Nat]
  /\ sharers \in [Mappings -> SUBSET Processes]

\* No increment appears from nowhere, and none is lost on a mapping that
\* only one process ever had, whichever objects it created and destroyed
\* meanwhile: the unlocked load and store lose counts between processes only.
AloneNothingLost ==
  \A m \in Mappings :
    /\ value[m] <= done[m]
    /\ Cardinality(sharers[m]) <= 1 => value[m] = done[m]
=============================================================================
