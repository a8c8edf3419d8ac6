----------------------------- MODULE ProcessPool -----------------------------
(***************************************************************************)
(* Lib\Process: worker processes and the socket pairs they talk through,   *)
(* and lib_fork.                                                           *)
(*                                                                         *)
(* A Process object is an index into processes[], a table that fork copies *)
(* like everything else in memory.  The object's pair is opened by start   *)
(* and kept by parent and child, both ends of it; write uses end 0 and     *)
(* read end 1, in whatever process they are called.                        *)
(*                                                                         *)
(* The entry of an object points to the function it was constructed with   *)
(* and does not count as a holder of it: a closure nobody else holds is    *)
(* freed, and its memory may become that of a newer object's closure.      *)
(***************************************************************************)
EXTENDS Integers, FiniteSetsExt, SequencesExt

CONSTANTS MaxProcess,    \* bound: processes ever, the first included
          MaxObject,     \* bound: Process objects ever constructed
          MAX_PROCESSES, \* entries of processes[] (1024)
          MaxPair,       \* bound: socket pairs ever opened
          MaxFd,         \* the limit of open descriptors, stdin being 0
          Buffer         \* messages the kernel keeps for one end

ASSUME ProcessPoolAssumption ==
  /\ MaxProcess \in Nat \ {0} /\ MaxObject \in Nat /\ MAX_PROCESSES \in Nat \ {0}
  /\ MaxPair \in Nat /\ MaxFd \in Nat /\ Buffer \in Nat \ {0}

Processes == 1..MaxProcess
Objects == 1..MaxObject
Slots == 0..(MAX_PROCESSES - 1)
Pairs == 1..MaxPair
Fds == 0..MaxFd

Script == 1        \* the process the script began in; its parent is 0
Nobody == 0
NoSlot == -1
NoObject == 0
Closed == <<0, 0>>
Stdin == <<0, 1>>
PairEnds == Pairs \X {0, 1}

VARIABLES
  state,      \* of each process id: unused, running, exited or crashed
  born,       \* by what each process was forked
  parent,     \* and by whom
  image,      \* the memory of each process: what fork copies
  fds,        \* kernel: the descriptor table of each process
  queue,      \* kernel: what waits to be read at each end
  opened,     \* number of pairs opened so far
  constructed, \* number of objects constructed so far
  released,   \* history: a function was freed that an entry points to
  lateObject, \* history: an object was constructed after a start
  forkFailed, \* history: start could not fork
  crossed,    \* history: a message was read through another object
  strayed     \* history: a worker was given another object's function

poolVars == <<state, born, parent, image, fds, queue, opened, constructed,
              released, lateObject, forkFailed, crossed, strayed>>

\* The globals of process.cc, the slot property of the objects, and of which
\* objects the function's memory is free.  Of the function an entry points to
\* it is told whose lies there: no two lie in one place.
Image ==
  [slot : [Objects -> Slots \union {NoSlot}],
   process_slot : 0..MAX_PROCESSES,
   channel : [Slots -> Fds \X Fds],
   func : [Slots -> Objects \union {NoObject}],
   freed : SUBSET Objects,
   ce_pid : Processes,
   ce_parent : Processes \union {Nobody},
   started : BOOLEAN]           \* history: it, or its parent before, called start

\* lib_process_init, in the process the script begins in.
Loaded ==
  [slot |-> [o \in Objects |-> NoSlot],
   process_slot |-> 0,
   channel |-> [s \in Slots |-> <<0, 0>>],
   func |-> [s \in Slots |-> NoObject],
   freed |-> {},
   ce_pid |-> Script,
   ce_parent |-> Nobody,
   started |-> FALSE]

PoolInit ==
  /\ state = [p \in Processes |-> IF p = Script THEN "running" ELSE "unused"]
  /\ born = [p \in Processes |-> IF p = Script THEN "loaded" ELSE "unused"]
  /\ parent = [p \in Processes |-> Nobody]
  /\ image = [p \in Processes |-> Loaded]
  /\ fds = [p \in Processes |-> [fd \in Fds |->
              IF p = Script /\ fd = 0 THEN Stdin ELSE Closed]]
  /\ queue = [e \in PairEnds |-> <<>>]
  /\ opened = 0
  /\ constructed = 0
  /\ released = FALSE
  /\ lateObject = FALSE
  /\ forkFailed = FALSE
  /\ crossed = FALSE
  /\ strayed = FALSE

Runs(p) == state[p] = "running"

\* p has a variable that holds o.
Holds(p, o) == image[p].slot[o] # NoSlot

\* p stops, and the kernel closes what it had open.
Ends(p, how) ==
  /\ state' = [state EXCEPT ![p] = how]
  /\ fds' = [fds EXCEPT ![p] = [fd \in Fds |-> Closed]]
  /\ UNCHANGED <<born, parent, image, queue, opened, constructed, released,
                 lateObject, forkFailed, crossed, strayed>>

Kernel == <<fds, queue, opened>>
Family == <<state, born, parent>>

-----------------------------------------------------------------------------
(* Objects. *)

\* MUTANT NextSlot: the index is not counted up.
SameSlot(n) == n

NextSlot(n) == n + 1

\* __construct: take the entry at process_slot, whose bound nobody checks.
\* The function of o lies in memory of its own, or where u's was; literal says
\* that it is freed when __construct returns.
TakesEntry(im, o, s, u, literal) ==
  [im EXCEPT !.slot[o] = s,
             !.func = [t \in Slots |-> IF t = s \/ im.func[t] = u THEN o ELSE im.func[t]],
             !.freed = (@ \ {u}) \union (IF literal THEN {o} ELSE {}),
             !.process_slot = NextSlot(s)]

\* A function that the script holds for a while and lets go of later does no
\* more than a literal: one that is freed but not overwritten still runs.
Construct(p) ==
  LET o == constructed + 1
      s == image[p].process_slot
  IN /\ Runs(p)
     /\ \/ /\ s \in Slots /\ constructed < MaxObject
           /\ \E u \in image[p].freed \union {o}, literal \in BOOLEAN :
                /\ image' = [image EXCEPT ![p] = TakesEntry(@, o, s, u, literal)]
                /\ released' = (released \/ literal)
           /\ constructed' = o
           /\ lateObject' = (lateObject \/ image[p].started)
           /\ UNCHANGED <<Family, Kernel, forkFailed, crossed, strayed>>
        \/ /\ s \notin Slots
           /\ Ends(p, "crashed")

-----------------------------------------------------------------------------
(* Processes. *)

FreeFds(p) == {fd \in Fds : fds[p][fd] = Closed}

\* MUTANT Forks: the child closes end 0, which is the parent's.
ForksClosing(p, child, table, how) ==
  /\ state[child] = "unused"
  /\ \A q \in Processes : q < child => state[q] # "unused"
  /\ state' = [state EXCEPT ![child] = "running"]
  /\ born' = [born EXCEPT ![child] = how]
  /\ parent' = [parent EXCEPT ![child] = p]
  /\ fds' = [fds EXCEPT ![p] = table, ![child] =
       [fd \in Fds |-> IF table[fd] \in Pairs \X {0} THEN Closed ELSE table[fd]]]

\* fork: the next process id, and a copy of p's descriptors.
Forks(p, child, table, how) ==
  /\ state[child] = "unused"
  /\ \A q \in Processes : q < child => state[q] # "unused"
  /\ state' = [state EXCEPT ![child] = "running"]
  /\ born' = [born EXCEPT ![child] = how]
  /\ parent' = [parent EXCEPT ![child] = p]
  /\ fds' = [fds EXCEPT ![p] = table, ![child] = table]

\* The child's side of start: whom it takes for its parent and itself.
ChildOf(im, child) == [im EXCEPT !.ce_parent = im.ce_pid, !.ce_pid = child]

\* socketpair: the two lowest free descriptors become the ends of a pair.
Opened(p, k) ==
  LET a == Min(FreeFds(p))
      b == Min(FreeFds(p) \ {a})
  IN [pair |-> <<a, b>>,
      table |-> [fds[p] EXCEPT ![a] = <<k, 0>>, ![b] = <<k, 1>>]]

\* A new pair in entry s, and process_slot set back to it.
OpensEntry(im, s, pair) ==
  [im EXCEPT !.channel = [@ EXCEPT ![s] = pair],
             !.process_slot = s,
             !.started = TRUE]

\* start, when fork fails: what is closed is not the pair but what the entry
\* held before, both descriptors 0 if it held none.
ForkFails(p, s, im, table) ==
  LET old == image[p].channel[s] IN
  /\ image' = [image EXCEPT ![p] = im]
  /\ fds' = [fds EXCEPT ![p] = [table EXCEPT ![old[1]] = Closed, ![old[2]] = Closed]]
  /\ forkFailed' = TRUE
  /\ UNCHANGED <<Family, strayed>>

\* A pair in entry s, and fork; the child calls the function the entry points
\* to.  It strays if that is not object o's.
spwan_process(p, s, o) ==
  LET k == opened + 1
      new == Opened(p, k)
      im == OpensEntry(image[p], s, new.pair)
  IN /\ k \in Pairs
     /\ Cardinality(FreeFds(p)) >= 2
     /\ opened' = k
     /\ UNCHANGED <<queue, constructed, released, lateObject, crossed>>
     /\ \/ ForkFails(p, s, im, new.table)
        \/ \E child \in Processes :
             /\ Forks(p, child, new.table, "start")
             /\ image' = [image EXCEPT ![p] = im, ![child] = ChildOf(im, child)]
             /\ strayed' = (strayed \/ im.func[s] # o)
             /\ UNCHANGED forkFailed

Start(p, o) == Runs(p) /\ Holds(p, o) /\ spwan_process(p, image[p].slot[o], o)

\* lib_fork: ce_pid and ce_parent are not looked at.
lib_fork(p) ==
  /\ Runs(p)
  /\ \E child \in Processes :
       /\ Forks(p, child, fds[p], "lib_fork")
       /\ image' = [image EXCEPT ![child] = image[p]]
  /\ UNCHANGED <<queue, opened, constructed, released, lateObject, forkFailed,
                 crossed, strayed>>

\* exit(0) after the worker's function, the end of the script, or the death of
\* a worker that calls freed memory which holds no object's function any more.
Exit(p) == Runs(p) /\ Ends(p, "exited")

-----------------------------------------------------------------------------
(* Messages.  Of a message only the object it was written through is kept. *)

Peer(e) == <<e[1], 1 - e[2]>>

\* Some process still has end e.
Open(e) == \E p \in Processes, fd \in Fds : fds[p][fd] = e

\* write sends to end 0, read receives from end 1.
WriteFd(p, o) == image[p].channel[image[p].slot[o]][1]
ReadFd(p, o) == image[p].channel[image[p].slot[o]][2]

\* write blocks while the buffer is full.  It answers TRUE when it fails, as
\* it does on stdin and on a closed descriptor, and then nothing happens.
Write(p, o) ==
  LET e == fds[p][WriteFd(p, o)] IN
  /\ Runs(p) /\ Holds(p, o)
  /\ e \in PairEnds
  /\ Open(Peer(e))
  /\ Len(queue[Peer(e)]) < Buffer
  /\ queue' = [queue EXCEPT ![Peer(e)] = Append(@, o)]
  /\ UNCHANGED <<Family, image, fds, opened, constructed, released, lateObject,
                 forkFailed, crossed, strayed>>

\* read blocks while the end is empty and some process has the other one.
Read(p, o) ==
  LET e == fds[p][ReadFd(p, o)] IN
  /\ Runs(p) /\ Holds(p, o)
  /\ e \in PairEnds
  /\ queue[e] # <<>>
  /\ queue' = [queue EXCEPT ![e] = Tail(@)]
  /\ crossed' = (crossed \/ Head(queue[e]) # o)
  /\ UNCHANGED <<Family, image, fds, opened, constructed, released, lateObject,
                 forkFailed, strayed>>

PoolStep(p) ==
  \/ Construct(p)
  \/ lib_fork(p)
  \/ Exit(p)
  \/ \E o \in Objects : Start(p, o) \/ Write(p, o) \/ Read(p, o)

PoolNext == \E p \in Processes : PoolStep(p)

PoolSpec == PoolInit /\ [][PoolNext]_poolVars

-----------------------------------------------------------------------------
(* Properties. *)

PoolTypeOK ==
  /\ state \in [Processes -> {"unused", "running", "exited", "crashed"}]
  /\ born \in [Processes -> {"unused", "loaded", "start", "lib_fork"}]
  /\ parent \in [Processes -> Processes \union {Nobody}]
  /\ image \in [Processes -> Image]
  /\ fds \in [Processes -> [Fds -> PairEnds \union {Stdin, Closed}]]
  /\ queue \in [PairEnds -> Seq(Objects)]
  /\ opened \in 0..MaxPair
  /\ constructed \in 0..MaxObject
  /\ released \in BOOLEAN
  /\ lateObject \in BOOLEAN
  /\ forkFailed \in BOOLEAN
  /\ crossed \in BOOLEAN
  /\ strayed \in BOOLEAN

\* A message is only read through the object it was written through, by
\* whichever processes - as long as every object was constructed before the
\* process or one it descends from called start, which sets process_slot back,
\* and no fork failed, which closes descriptors that are not the pair's.  And a
\* worker runs the function its object was constructed with, if the script
\* besides keeps all these functions itself.
NoCrossTalk ==
  /\ crossed => lateObject \/ forkFailed
  /\ strayed => lateObject \/ released

\* A function literal is as good as one the script keeps.
LiteralsWork == strayed => lateObject

\* The entries that start filled name the two ends of a pair, each of another.
PairedIn(channel, table) ==
  \A s \in Slots : channel[s] # <<0, 0>> =>
    /\ table[channel[s][1]] \in Pairs \X {0}
    /\ table[channel[s][2]] = Peer(table[channel[s][1]])
    /\ \A t \in Slots \ {s} : table[channel[t][1]] # table[channel[s][1]]

\* Unless a fork failed, an entry that start filled names, in every process
\* that has a copy of it, the two ends of one pair, open there, and no two
\* entries name the same pair: descriptor numbers, which start reuses and
\* fork duplicates, never lead a message astray.
EntriesArePairs ==
  ~ forkFailed =>
    \A p \in Processes : Runs(p) => PairedIn(image[p].channel, fds[p])

\* A process forked by start knows itself, and its parent if that was not
\* itself left with another's id by lib_fork.
PidsRight ==
  \A p \in Processes :
    born[p] = "start" =>
      /\ image[p].ce_pid = p
      /\ born[parent[p]] # "lib_fork" => image[p].ce_parent = parent[p]
=============================================================================
