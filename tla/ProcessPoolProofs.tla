-------------------------- MODULE ProcessPoolProofs --------------------------
(***************************************************************************)
(* Proofs about worker processes and their pipes, for any number of        *)
(* processes, objects, pairs and descriptors.                              *)
(*                                                                         *)
(* That messages stay with their object is a fact about descriptor         *)
(* numbers, which fork copies and the kernel hands out again, and about    *)
(* process_slot, which start sets back.  The invariant says whose a pair   *)
(* is.  At the end, the memory they share: who may write a mapping is      *)
(* whoever it was ever mapped into, which only fork extends.               *)
(***************************************************************************)
EXTENDS SharMem, Minimum, FiniteSetTheorems, SequenceTheorems, TLAPS

\* No descriptor and no queue belongs to a pair that was not opened yet.
FdsOpened ==
  \A p \in Processes, fd \in Fds :
    fds[p][fd] \in PairEnds => fds[p][fd][1] <= opened

QueuesOpened == \A e \in PairEnds : opened < e[1] => queue[e] = <<>>

\* No process knows an object that was not constructed yet.
Unborn ==
  \A p \in Processes, o \in Objects : constructed < o => image[p].slot[o] = NoSlot

\* A process in which nobody called start has no pair, and process_slot is
\* beyond the entries in use.
Unstarted ==
  \A p \in Processes : ~ image[p].started =>
    /\ \A s \in Slots : image[p].channel[s] = <<0, 0>>
    /\ \A o \in Objects : image[p].slot[o] < image[p].process_slot

\* Descriptor 0, which an entry names before start, is nobody's end.
StdinKept == ~ forkFailed => \A p \in Processes : Runs(p) => fds[p][0] = Stdin

Orderly == ~ lateObject /\ ~ forkFailed

\* No two objects took one entry.
OwnEntry ==
  ~ lateObject => \A p \in Processes, o, u \in Objects :
    Holds(p, o) /\ image[p].slot[o] = image[p].slot[u] => o = u

Kept == ~ lateObject /\ ~ released

\* An entry still points to the function of the object that took it.
OwnFunction ==
  Kept => \A p \in Processes :
    /\ image[p].freed = {}
    /\ \A o \in Objects : Holds(p, o) => image[p].func[image[p].slot[o]] = o

\* p can write and read through o.
HasPair(p, o) ==
  Runs(p) /\ Holds(p, o) /\ image[p].channel[image[p].slot[o]] # <<0, 0>>

PairOf(p, o) == fds[p][WriteFd(p, o)][1]

\* A pair belongs to one object, whichever processes use it, and so does
\* what waits in it.
OnePerPair ==
  Orderly => \A p, q \in Processes, o, u \in Objects :
    HasPair(p, o) /\ HasPair(q, u) /\ PairOf(p, o) = PairOf(q, u) => o = u

OnlyOf(messages, o) == \A j \in DOMAIN messages : messages[j] = o

QueuesOwn ==
  Orderly => \A p \in Processes, o \in Objects : HasPair(p, o) =>
    \A i \in {0, 1} : OnlyOf(queue[<<PairOf(p, o), i>>], o)

PoolInv ==
  /\ PoolTypeOK
  /\ FdsOpened
  /\ QueuesOpened
  /\ Unborn
  /\ Unstarted
  /\ StdinKept
  /\ OwnEntry
  /\ OwnFunction
  /\ EntriesArePairs
  /\ OnePerPair
  /\ QueuesOwn
  /\ NoCrossTalk

\* Who was forked from whom, and knew its own id.
IdsInv ==
  /\ PidsRight
  /\ \A p \in Processes :
       /\ state[p] = "unused" <=> born[p] = "unused"
       /\ born[p] = "loaded" => p = Script /\ image[p].ce_pid = Script
       /\ born[p] \in {"start", "lib_fork"} =>
            parent[p] \in Processes /\ state[parent[p]] # "unused"

-----------------------------------------------------------------------------
(* The steps' pieces. *)

\* socketpair gives two different descriptors that were free.
LEMMA OpenedFresh ==
  ASSUME NEW p \in Processes, NEW k \in Pairs, PoolTypeOK,
         Cardinality(FreeFds(p)) >= 2
  PROVE  \E a, b \in FreeFds(p) :
           /\ a # b
           /\ Opened(p, k).pair = <<a, b>>
           /\ Opened(p, k).table = [fds[p] EXCEPT ![a] = <<k, 0>>, ![b] = <<k, 1>>]
<1> DEFINE S == FreeFds(p)
           a == Min(S)
           b == Min(S \ {a})
<1>1. IsFiniteSet(S) /\ S \in SUBSET Nat
  <2>1. IsFiniteSet(Fds)
    BY FS_Interval, ProcessPoolAssumption DEF Fds
  <2> QED BY <2>1, FS_Subset, ProcessPoolAssumption DEF FreeFds, Fds
<1>2. S # {} /\ a \in S
  <2>1. S # {}
    BY FS_EmptySet
  <2> QED BY <1>1, <2>1, MinIsLeast
<1>3. b \in S \ {a}
  <2>1. Cardinality(S \ {a}) = Cardinality(S) - 1 /\ Cardinality(S) \in Nat
    BY <1>1, <1>2, FS_RemoveElement, FS_CardinalityType
  <2>2. S \ {a} # {}
    BY <2>1, FS_EmptySet
  <2>3. S \ {a} \in SUBSET Nat
    BY <1>1
  <2> QED BY <2>2, <2>3, MinIsLeast
<1> QED BY <1>2, <1>3 DEF Opened

\* A process that stops leaves the others what they have.
LEMMA EndsKeeps ==
  ASSUME PoolInv, NEW p \in Processes, NEW how \in {"exited", "crashed"}, Ends(p, how)
  PROVE  PoolInv'
<1>1. /\ state' = [state EXCEPT ![p] = how]
      /\ fds' = [fds EXCEPT ![p] = [fd \in Fds |-> Closed]]
      /\ UNCHANGED <<born, parent, image, queue, opened, constructed, released, lateObject,
                     forkFailed, crossed, strayed>>
  BY DEF Ends
<1>2. Closed \notin PairEnds
  BY DEF Closed, PairEnds, Pairs
<1>3. \A q \in Processes : Runs(q)' => Runs(q) /\ fds'[q] = fds[q]
  BY <1>1 DEF PoolInv, PoolTypeOK, Runs
<1>4. PoolTypeOK'
  BY <1>1 DEF PoolInv, PoolTypeOK
<1>5. FdsOpened' /\ QueuesOpened'
  BY <1>1, <1>2 DEF PoolInv, PoolTypeOK, FdsOpened, QueuesOpened
<1>6. Unborn' /\ Unstarted' /\ OwnEntry' /\ OwnFunction' /\ NoCrossTalk'
  BY <1>1 DEF PoolInv, Unborn, Unstarted, OwnEntry, OwnFunction, NoCrossTalk, Kept, Holds
<1>7. StdinKept' /\ EntriesArePairs'
  BY <1>1, <1>3 DEF PoolInv, StdinKept, EntriesArePairs
<1>8. \A q \in Processes, o \in Objects :
        HasPair(q, o)' => HasPair(q, o) /\ PairOf(q, o)' = PairOf(q, o)
  BY <1>1, <1>3 DEF HasPair, PairOf, WriteFd, Holds
<1>9. OnePerPair' /\ QueuesOwn'
  BY <1>1, <1>8 DEF PoolInv, OnePerPair, QueuesOwn, Orderly
<1> QED BY <1>4, <1>5, <1>6, <1>7, <1>9 DEF PoolInv

\* A new object takes an entry nobody has, unless it comes too late.
LEMMA ConstructKeeps ==
  ASSUME PoolInv, NEW p \in Processes, Construct(p)
  PROVE  PoolInv'
<1> DEFINE o == constructed + 1
           s == image[p].process_slot
<1>1. CASE s \notin Slots
  <2>1. Ends(p, "crashed")
    BY <1>1 DEF Construct
  <2> QED BY <2>1, EndsKeeps
<1>2. CASE s \in Slots
  <2>z. PICK was \in image[p].freed \union {o}, literal \in BOOLEAN :
          /\ image' = [image EXCEPT ![p] = TakesEntry(image[p], o, s, was, literal)]
          /\ released' = (released \/ literal)
    BY <1>2 DEF Construct
  <2> DEFINE im == TakesEntry(image[p], o, s, was, literal)
  <2>0. /\ o \in Objects
        /\ image' = [image EXCEPT ![p] = im]
        /\ constructed' = o
        /\ released' = (released \/ literal)
        /\ lateObject' = (lateObject \/ image[p].started)
        /\ UNCHANGED <<state, born, parent, fds, queue, opened, forkFailed, crossed, strayed>>
    BY <1>2, <2>z, ProcessPoolAssumption
       DEF Construct, PoolInv, PoolTypeOK, Objects, Family, Kernel
  <2>a. image[p] \in Image
    BY DEF PoolInv, PoolTypeOK
  <2>b. /\ im.slot = [image[p].slot EXCEPT ![o] = s]
        /\ im.func = [t \in Slots |-> IF t = s \/ image[p].func[t] = was
                                       THEN o ELSE image[p].func[t]]
        /\ im.freed = (image[p].freed \ {was}) \union (IF literal THEN {o} ELSE {})
        /\ im.process_slot = s + 1
        /\ im.channel = image[p].channel
        /\ im.ce_pid = image[p].ce_pid /\ im.ce_parent = image[p].ce_parent
        /\ im.started = image[p].started
    BY <2>a DEF Image, TakesEntry, NextSlot
  <2>c. s + 1 \in 0..MAX_PROCESSES /\ s \in Slots
    BY <1>2, ProcessPoolAssumption DEF Slots
  <2>d. im \in Image
    <3>1. im.func \in [Slots -> Objects \union {NoObject}] /\ im.freed \in SUBSET Objects
      BY <2>a, <2>0, <2>b DEF Image
    <3>2. im.slot \in [Objects -> Slots \union {NoSlot}]
      BY <2>a, <2>0, <2>b, <2>c DEF Image
    <3>3. /\ image[p].freed \in SUBSET Objects
          /\ image[p].func \in [Slots -> Objects \union {NoObject}]
      BY <2>a DEF Image
    <3> HIDE <2>0, <2>z
    <3> QED BY <2>a, <2>b, <2>c, <3>1, <3>2 DEF Image, TakesEntry, NextSlot
  <2>f. Kept' => /\ Kept /\ was = o /\ im.freed = {}
                 /\ \A t \in Slots : im.func[t] = IF t = s THEN o ELSE image[p].func[t]
    <3> SUFFICES ASSUME Kept' PROVE /\ Kept /\ was = o /\ im.freed = {}
          /\ \A t \in Slots : im.func[t] = IF t = s THEN o ELSE image[p].func[t]
      OBVIOUS
    <3>1. Kept /\ ~ literal
      BY <2>0 DEF Kept
    <3>2. image[p].freed = {}
      BY <3>1 DEF PoolInv, OwnFunction
    <3>3. was = o /\ im.freed = {}
      BY <2>b, <3>1, <3>2
    <3> QED BY <2>b, <3>1, <3>3
  <2>e. \A q \in Processes : image[q] \in Image /\ image'[q] = IF q = p THEN im ELSE image[q]
    BY <2>0 DEF PoolInv, PoolTypeOK
  <2>1. \A q \in Processes :
          /\ \A u \in Objects :
               /\ image[q].slot[u] \in Slots \union {NoSlot}
               /\ image'[q].slot[u] = IF q = p /\ u = o THEN s ELSE image[q].slot[u]
          /\ q # p => image'[q].func = image[q].func /\ image'[q].freed = image[q].freed
          /\ image'[q].process_slot = IF q = p THEN s + 1 ELSE image[q].process_slot
          /\ image'[q].channel = image[q].channel
          /\ image'[q].started = image[q].started
          /\ image[q].process_slot \in Int
    BY <2>0, <2>a, <2>b, <2>c, <2>e DEF Image
  <2>2. PoolTypeOK'
    BY <2>0, <2>d, ProcessPoolAssumption DEF PoolInv, PoolTypeOK, Objects
  <2>3. FdsOpened' /\ QueuesOpened' /\ StdinKept' /\ NoCrossTalk'
    BY <2>0 DEF PoolInv, FdsOpened, QueuesOpened, StdinKept, NoCrossTalk, Runs
  <2>4. Unborn'
    <3>1. SUFFICES ASSUME NEW q \in Processes, NEW u \in Objects, o < u
                   PROVE  image'[q].slot[u] = NoSlot
      BY <2>0 DEF Unborn
    <3>2. constructed < u /\ u # o
      BY <2>0, <3>1 DEF PoolInv, PoolTypeOK, Objects
    <3> QED BY <2>1, <3>2 DEF PoolInv, Unborn
  <2>5. Unstarted'
    <3>1. s \in Int /\ \A t \in Slots : t \in Int
      BY <2>c DEF Slots
    <3> QED BY <2>1, <3>1, <1>2 DEF PoolInv, Unstarted, NoSlot
  <2>5a. ~ lateObject' => /\ ~ lateObject /\ ~ image[p].started
                          /\ image[p].channel[s] = <<0, 0>>
                          /\ \A v \in Objects : image[p].slot[v] < s
    BY <1>2, <2>0 DEF PoolInv, Unstarted
  <2>6. Orderly' => /\ Orderly /\ ~ image[p].started
                    /\ image[p].channel[s] = <<0, 0>>
    BY <2>0, <2>5a DEF Orderly
  <2>8. ~ lateObject' => \A v \in Objects : image[p].slot[v] # s
    BY <2>c, <2>5a, <2>1 DEF Slots, NoSlot
  <2>8a. OwnEntry'
    <3> SUFFICES ASSUME ~ lateObject', NEW q \in Processes, NEW v \in Objects, NEW w \in Objects,
                        Holds(q, v)', image'[q].slot[v] = image'[q].slot[w]
                 PROVE  v = w
      BY DEF OwnEntry
    <3>1. /\ image'[q].slot[v] = IF q = p /\ v = o THEN s ELSE image[q].slot[v]
          /\ image'[q].slot[w] = IF q = p /\ w = o THEN s ELSE image[q].slot[w]
      BY <2>1
    <3>2. CASE q = p /\ (v = o \/ w = o)
      BY <2>8, <3>1, <3>2
    <3>3. CASE ~ (q = p /\ (v = o \/ w = o))
      BY <2>5a, <3>1, <3>3 DEF PoolInv, OwnEntry, Holds
    <3> QED BY <3>2, <3>3
  <2>7. OwnFunction'
    <3> SUFFICES ASSUME Kept', NEW q \in Processes
                 PROVE  /\ image'[q].freed = {}
                        /\ \A v \in Objects : Holds(q, v)' => image'[q].func[image'[q].slot[v]] = v
      BY DEF OwnFunction
    <3>1. CASE q # p
      <4>1. /\ image[q].freed = {}
            /\ \A v \in Objects : Holds(q, v) => image[q].func[image[q].slot[v]] = v
        BY <2>f DEF PoolInv, OwnFunction
      <4> QED BY <2>1, <3>1, <4>1 DEF Holds
    <3>2. CASE q = p
      <4>1. image'[p] = im
        BY <2>e
      <4>2. im.freed = {} /\ Kept
        BY <2>f
      <4> SUFFICES ASSUME NEW v \in Objects, Holds(p, v)'
                   PROVE  image'[p].func[image'[p].slot[v]] = v
        BY <3>2, <4>1, <4>2
      <4>3. CASE v = o
        <5>1. image'[p].slot[v] = s
          BY <2>1, <4>3
        <5> QED BY <1>2, <2>f, <4>1, <4>3, <5>1
      <4>4. CASE v # o
        <5>1. image'[p].slot[v] = image[p].slot[v] /\ image[p].slot[v] \in Slots
          BY <2>1, <4>4 DEF Holds
        <5>2. image[p].slot[v] # s
          BY <2>8 DEF Kept
        <5>3. image[p].func[image[p].slot[v]] = v
          BY <4>2, <5>1 DEF PoolInv, OwnFunction, Holds
        <5> QED BY <2>f, <4>1, <5>1, <5>2, <5>3
      <4> QED BY <4>3, <4>4
    <3> QED BY <3>1, <3>2
  <2>9. EntriesArePairs'
    BY <2>0, <2>1 DEF PoolInv, EntriesArePairs, Runs
  <2>10. Orderly' => \A q \in Processes, u \in Objects :
           HasPair(q, u)' => HasPair(q, u) /\ PairOf(q, u)' = PairOf(q, u)
    <3> SUFFICES ASSUME Orderly', NEW q \in Processes, NEW u \in Objects, HasPair(q, u)'
                 PROVE  HasPair(q, u) /\ PairOf(q, u)' = PairOf(q, u)
      OBVIOUS
    <3>1. ~ (q = p /\ u = o)
      <4> SUFFICES ASSUME q = p, u = o PROVE FALSE
        OBVIOUS
      <4>1. image'[q].slot[u] = s /\ image'[q].channel[s] = <<0, 0>>
        BY <2>1, <2>6
      <4> QED BY <4>1 DEF HasPair
    <3>2. image'[q].slot[u] = image[q].slot[u] /\ image'[q].channel = image[q].channel
      BY <2>1, <3>1
    <3> QED BY <2>0, <3>2 DEF HasPair, PairOf, WriteFd, Holds, Runs
  <2>11. OnePerPair' /\ QueuesOwn'
    BY <2>0, <2>6, <2>10 DEF PoolInv, OnePerPair, QueuesOwn
  <2> QED BY <2>2, <2>3, <2>4, <2>5, <2>7, <2>8a, <2>9, <2>11 DEF PoolInv
<1> QED BY <1>1, <1>2

LEMMA FirstEnd ==
  ASSUME NEW e \in Pairs \X {0}
  PROVE  e[1] \in Pairs /\ e = <<e[1], 0>> /\ Peer(e) = <<e[1], 1>>
<1>1. e[1] \in Pairs /\ e[2] = 0 /\ e = <<e[1], e[2]>>
  OBVIOUS
<1> QED BY <1>1 DEF Peer

\* An object whose descriptors are ends has a pair, and they are its two ends.
LEMMA EndsOfPair ==
  ASSUME PoolInv, ~ forkFailed, NEW p \in Processes, NEW o \in Objects,
         Runs(p), Holds(p, o),
         fds[p][WriteFd(p, o)] \in PairEnds \/ fds[p][ReadFd(p, o)] \in PairEnds
  PROVE  /\ HasPair(p, o)
         /\ PairOf(p, o) \in Pairs
         /\ fds[p][WriteFd(p, o)] = <<PairOf(p, o), 0>>
         /\ fds[p][ReadFd(p, o)] = <<PairOf(p, o), 1>>
<1> DEFINE s == image[p].slot[o]
           ch == image[p].channel[s]
<1>1. s \in Slots
  BY DEF PoolInv, PoolTypeOK, Image, Holds
<1>2. HasPair(p, o)
  <2>1. SUFFICES ASSUME ch = <<0, 0>> PROVE FALSE
    BY DEF HasPair
  <2>2. fds[p][0] = Stdin /\ Stdin \notin PairEnds
    BY DEF PoolInv, StdinKept, Stdin, PairEnds, Pairs
  <2> QED BY <2>1, <2>2 DEF WriteFd, ReadFd
<1>3. fds[p][ch[1]] \in Pairs \X {0} /\ fds[p][ch[2]] = Peer(fds[p][ch[1]])
  BY <1>1, <1>2 DEF PoolInv, EntriesArePairs, PairedIn, HasPair
<1> DEFINE e == fds[p][ch[1]]
<1>4. e[1] \in Pairs /\ e = <<e[1], 0>> /\ Peer(e) = <<e[1], 1>>
  BY <1>3, FirstEnd
<1> QED BY <1>2, <1>3, <1>4 DEF PairOf, WriteFd, ReadFd

LEMMA PairsOfObjects ==
  ASSUME PoolInv, ~ forkFailed, NEW p \in Processes, NEW o \in Objects, HasPair(p, o)
  PROVE  /\ PairOf(p, o) \in Pairs
         /\ fds[p][WriteFd(p, o)] = <<PairOf(p, o), 0>>
         /\ fds[p][ReadFd(p, o)] = <<PairOf(p, o), 1>>
<1>1. image[p].slot[o] \in Slots
  BY DEF PoolInv, PoolTypeOK, Image, Holds, HasPair
<1>2. fds[p][WriteFd(p, o)] \in Pairs \X {0}
  BY <1>1 DEF PoolInv, EntriesArePairs, PairedIn, HasPair, WriteFd
<1> QED BY <1>2, EndsOfPair DEF HasPair, PairEnds

LEMMA FdsOfObjects ==
  ASSUME PoolTypeOK, NEW p \in Processes, NEW o \in Objects, Holds(p, o)
  PROVE  WriteFd(p, o) \in Fds /\ ReadFd(p, o) \in Fds
<1>1. image[p].slot[o] \in Slots /\ image[p].channel \in [Slots -> Fds \X Fds]
  BY DEF PoolTypeOK, Image, Holds
<1> QED BY <1>1 DEF WriteFd, ReadFd

LEMMA PeerIsEnd ==
  ASSUME NEW e \in PairEnds
  PROVE  Peer(e) \in PairEnds /\ Peer(e)[1] = e[1] /\ Peer(e) # e /\ e[1] \in Pairs
BY DEF PairEnds, Peer

\* What write appends to the other end belongs there.
LEMMA WriteKeeps ==
  ASSUME PoolInv, NEW p \in Processes, NEW o \in Objects, Write(p, o)
  PROVE  PoolInv'
<1> DEFINE e == fds[p][WriteFd(p, o)]
           f == Peer(e)
<1>0. /\ Runs(p) /\ Holds(p, o) /\ e \in PairEnds
      /\ queue' = [queue EXCEPT ![f] = Append(@, o)]
      /\ UNCHANGED <<state, born, parent, image, fds, opened, constructed, released, lateObject,
                     forkFailed, crossed, strayed>>
  BY DEF Write, Family
<1>1. f \in PairEnds /\ f[1] = e[1] /\ queue[f] \in Seq(Objects)
  BY <1>0, PeerIsEnd DEF PoolInv, PoolTypeOK
<1>2. PoolTypeOK'
  BY <1>0, <1>1 DEF PoolInv, PoolTypeOK
<1>3. e[1] <= opened
  BY <1>0, FdsOfObjects DEF PoolInv, FdsOpened
<1>4. QueuesOpened'
  <2>1. e[1] \in Int /\ opened \in Int
    BY <1>0, PeerIsEnd DEF Pairs, PoolInv, PoolTypeOK
  <2> QED BY <1>0, <1>1, <1>3, <2>1 DEF PoolInv, PoolTypeOK, QueuesOpened
<1>5. FdsOpened' /\ Unborn' /\ Unstarted' /\ StdinKept' /\ OwnEntry' /\ OwnFunction' /\ EntriesArePairs'
      /\ NoCrossTalk'
  BY <1>0 DEF PoolInv, FdsOpened, Unborn, Unstarted, StdinKept, OwnEntry, OwnFunction, Kept,
              EntriesArePairs, NoCrossTalk, Orderly, Holds, Runs
<1>6. \A q \in Processes, u \in Objects :
        /\ HasPair(q, u)' <=> HasPair(q, u)
        /\ PairOf(q, u)' = PairOf(q, u)
  BY <1>0 DEF HasPair, PairOf, WriteFd, Holds, Runs
<1>7. OnePerPair'
  BY <1>0, <1>6 DEF PoolInv, OnePerPair, Orderly
<1>8. QueuesOwn'
  <2> SUFFICES ASSUME Orderly', NEW q \in Processes, NEW u \in Objects, HasPair(q, u)',
                      NEW i \in {0, 1}
               PROVE  OnlyOf(queue'[<<PairOf(q, u)', i>>], u)
    BY DEF QueuesOwn
  <2>0. PairOf(q, u)' = PairOf(q, u)
    BY <1>6
  <2>1. Orderly /\ HasPair(q, u) /\ PairOf(q, u) \in Pairs
    BY <1>0, <1>6, PairsOfObjects DEF Orderly, PoolInv
  <2>4. OnlyOf(queue[<<PairOf(q, u), i>>], u) /\ <<PairOf(q, u), i>> \in PairEnds
    BY <2>1 DEF PoolInv, QueuesOwn, PairEnds
  <2>2. CASE <<PairOf(q, u), i>> # f
    BY <1>0, <2>0, <2>4, <2>2 DEF PoolInv, PoolTypeOK
  <2>3. CASE <<PairOf(q, u), i>> = f
    <3>1. HasPair(p, o) /\ PairOf(p, o) = e[1]
      BY <1>0, <2>1, EndsOfPair DEF Orderly, PairOf
    <3>a. PairOf(q, u) = f[1]
      BY <2>3
    <3>2. u = o
      BY <1>1, <2>1, <3>a, <3>1 DEF PoolInv, OnePerPair
    <3>4. queue'[f] = Append(queue[f], o)
      BY <1>0, <1>1 DEF PoolInv, PoolTypeOK
    <3>5. \A l \in DOMAIN queue[f] : queue[f][l] = o
      BY <2>3, <2>4, <3>2 DEF OnlyOf
    <3>6. OnlyOf(Append(queue[f], o), o)
      BY <1>1, <3>5 DEF OnlyOf
    <3> QED BY <2>0, <2>3, <3>2, <3>4, <3>6
  <2> QED BY <2>2, <2>3
<1> QED BY <1>2, <1>4, <1>5, <1>7, <1>8 DEF PoolInv

\* What read takes was written through the object it is read through.
LEMMA ReadKeeps ==
  ASSUME PoolInv, NEW p \in Processes, NEW o \in Objects, Read(p, o)
  PROVE  PoolInv'
<1> DEFINE e == fds[p][ReadFd(p, o)]
<1>0. /\ Runs(p) /\ Holds(p, o) /\ e \in PairEnds
      /\ queue[e] # <<>>
      /\ queue' = [queue EXCEPT ![e] = Tail(@)]
      /\ crossed' = (crossed \/ Head(queue[e]) # o)
      /\ UNCHANGED <<state, born, parent, image, fds, opened, constructed, released, lateObject,
                     forkFailed, strayed>>
  BY DEF Read, Family
<1>1. queue[e] \in Seq(Objects) /\ Tail(queue[e]) \in Seq(Objects)
      /\ \A l \in DOMAIN Tail(queue[e]) :
           l + 1 \in DOMAIN queue[e] /\ Tail(queue[e])[l] = queue[e][l + 1]
      /\ 1 \in DOMAIN queue[e] /\ Head(queue[e]) = queue[e][1]
  BY <1>0 DEF PoolInv, PoolTypeOK
<1>2. PoolTypeOK'
  BY <1>0, <1>1 DEF PoolInv, PoolTypeOK
<1>4. QueuesOpened'
  BY <1>0 DEF PoolInv, PoolTypeOK, QueuesOpened
<1>5. FdsOpened' /\ Unborn' /\ Unstarted' /\ StdinKept' /\ OwnEntry' /\ OwnFunction' /\ EntriesArePairs'
  BY <1>0 DEF PoolInv, FdsOpened, Unborn, Unstarted, StdinKept, OwnEntry, OwnFunction, Kept,
              EntriesArePairs, Orderly, Holds, Runs
<1>6. \A q \in Processes, u \in Objects :
        /\ HasPair(q, u)' <=> HasPair(q, u)
        /\ PairOf(q, u)' = PairOf(q, u)
  BY <1>0 DEF HasPair, PairOf, WriteFd, Holds, Runs
<1>7. OnePerPair'
  BY <1>0, <1>6 DEF PoolInv, OnePerPair, Orderly
<1>8. QueuesOwn'
  <2> SUFFICES ASSUME Orderly', NEW q \in Processes, NEW u \in Objects, HasPair(q, u)',
                      NEW i \in {0, 1}
               PROVE  OnlyOf(queue'[<<PairOf(q, u)', i>>], u)
    BY DEF QueuesOwn
  <2>0. PairOf(q, u)' = PairOf(q, u)
    BY <1>6
  <2>1. Orderly /\ HasPair(q, u) /\ PairOf(q, u) \in Pairs
    BY <1>0, <1>6, PairsOfObjects DEF Orderly, PoolInv
  <2>4. OnlyOf(queue[<<PairOf(q, u), i>>], u) /\ <<PairOf(q, u), i>> \in PairEnds
    BY <2>1 DEF PoolInv, QueuesOwn, PairEnds
  <2>2. CASE <<PairOf(q, u), i>> # e
    BY <1>0, <2>0, <2>4, <2>2 DEF PoolInv, PoolTypeOK
  <2>3. CASE <<PairOf(q, u), i>> = e
    <3>1. queue'[e] = Tail(queue[e])
      BY <1>0 DEF PoolInv, PoolTypeOK
    <3>2. \A l \in DOMAIN queue[e] : queue[e][l] = u
      BY <2>3, <2>4 DEF OnlyOf
    <3>3. OnlyOf(Tail(queue[e]), u)
      BY <1>1, <3>2 DEF OnlyOf
    <3> QED BY <2>0, <2>3, <3>1, <3>3
  <2> QED BY <2>2, <2>3
<1>9. NoCrossTalk'
  <2>1. Orderly => Head(queue[e]) = o
    <3>1. SUFFICES ASSUME Orderly PROVE queue[e][1] = o
      BY <1>1
    <3>2. HasPair(p, o) /\ e = <<PairOf(p, o), 1>>
      BY <1>0, <3>1, EndsOfPair DEF Orderly
    <3>3. OnlyOf(queue[e], o)
      BY <3>1, <3>2 DEF PoolInv, QueuesOwn
    <3> QED BY <1>1, <3>3 DEF OnlyOf
  <2> QED BY <1>0, <2>1 DEF PoolInv, NoCrossTalk, Orderly
<1> QED BY <1>2, <1>4, <1>5, <1>7, <1>8, <1>9 DEF PoolInv

-----------------------------------------------------------------------------
(* The steps that fork. *)

\* What start does to p's memory, and to its descriptors.
LEMMA EntryOpened ==
  \A x \in Image, t \in Slots, c, d \in Fds :
    /\ OpensEntry(x, t, <<c, d>>) \in Image
    /\ OpensEntry(x, t, <<c, d>>).slot = x.slot
    /\ OpensEntry(x, t, <<c, d>>).func = x.func
    /\ OpensEntry(x, t, <<c, d>>).freed = x.freed
    /\ OpensEntry(x, t, <<c, d>>).ce_pid = x.ce_pid
    /\ OpensEntry(x, t, <<c, d>>).ce_parent = x.ce_parent
    /\ OpensEntry(x, t, <<c, d>>).started = TRUE
    /\ OpensEntry(x, t, <<c, d>>).channel = [x.channel EXCEPT ![t] = <<c, d>>]
<1> SUFFICES ASSUME NEW im \in Image, NEW s \in Slots, NEW a \in Fds, NEW b \in Fds
             PROVE  /\ OpensEntry(im, s, <<a, b>>) \in Image
                    /\ OpensEntry(im, s, <<a, b>>).slot = im.slot
                    /\ OpensEntry(im, s, <<a, b>>).func = im.func
                    /\ OpensEntry(im, s, <<a, b>>).freed = im.freed
                    /\ OpensEntry(im, s, <<a, b>>).ce_pid = im.ce_pid
                    /\ OpensEntry(im, s, <<a, b>>).ce_parent = im.ce_parent
                    /\ OpensEntry(im, s, <<a, b>>).started = TRUE
                    /\ OpensEntry(im, s, <<a, b>>).channel = [im.channel EXCEPT ![s] = <<a, b>>]
  OBVIOUS
<1>1. s \in 0..MAX_PROCESSES /\ im.channel \in [Slots -> Fds \X Fds]
  BY ProcessPoolAssumption DEF Slots, Image
<1>2. [im.channel EXCEPT ![s] = <<a, b>>] \in [Slots -> Fds \X Fds]
  BY <1>1
<1> QED BY <1>1, <1>2 DEF Image, OpensEntry

LEMMA PairOpened ==
  ASSUME PoolInv, NEW p \in Processes, NEW k \in Pairs, Cardinality(FreeFds(p)) >= 2
  PROVE  /\ Opened(p, k).table \in [Fds -> PairEnds \union {Stdin, Closed}]
         /\ \E a, b \in FreeFds(p) :
              /\ a # b
              /\ Opened(p, k).pair = <<a, b>>
              /\ \A fd \in Fds :
                   Opened(p, k).table[fd] = IF fd = a THEN <<k, 0>>
                                            ELSE IF fd = b THEN <<k, 1>>
                                            ELSE fds[p][fd]
<1>1. fds[p] \in [Fds -> PairEnds \union {Stdin, Closed}]
  BY DEF PoolInv, PoolTypeOK
<1>2. PICK a, b \in FreeFds(p) :
        /\ a # b
        /\ Opened(p, k).pair = <<a, b>>
        /\ Opened(p, k).table = [fds[p] EXCEPT ![a] = <<k, 0>>, ![b] = <<k, 1>>]
  BY OpenedFresh DEF PoolInv
<1>3. a \in Fds /\ b \in Fds /\ <<k, 0>> \in PairEnds /\ <<k, 1>> \in PairEnds
  BY DEF FreeFds, PairEnds
<1> QED BY <1>1, <1>2, <1>3

LEMMA SlotOfObject ==
  ASSUME PoolTypeOK, NEW p \in Processes, NEW o \in Objects, Holds(p, o)
  PROVE  image[p].slot[o] \in Slots
BY DEF PoolTypeOK, Image, Holds

StartFails(p, o, k, im) ==
  /\ Holds(p, o) /\ Cardinality(FreeFds(p)) >= 2
  /\ k = opened + 1 /\ opened' = k
  /\ UNCHANGED <<queue, constructed, released, lateObject, crossed>>
  /\ im = OpensEntry(image[p], image[p].slot[o], Opened(p, k).pair)
  /\ ForkFails(p, image[p].slot[o], im, Opened(p, k).table)

\* When fork fails nothing is promised of the pipes any more.
LEMMA ForkFailsKeeps ==
  ASSUME PoolInv, NEW p \in Processes, NEW o \in Objects, NEW k \in Pairs, NEW im,
         StartFails(p, o, k, im)
  PROVE  PoolInv'
<1> DEFINE s == image[p].slot[o]
           old == image[p].channel[s]
           table == Opened(p, k).table
<1>0. k = opened + 1 /\ opened' = k /\ UNCHANGED <<queue, constructed, released, lateObject>>
  BY DEF StartFails
<1>a. Holds(p, o) /\ Cardinality(FreeFds(p)) >= 2
  BY DEF StartFails
<1>1. /\ im = OpensEntry(image[p], s, Opened(p, k).pair)
      /\ image' = [image EXCEPT ![p] = im]
      /\ fds' = [fds EXCEPT ![p] = [table EXCEPT ![old[1]] = Closed, ![old[2]] = Closed]]
      /\ forkFailed' = TRUE
      /\ UNCHANGED <<state, born, parent, crossed, strayed, released, lateObject>>
  BY DEF StartFails, ForkFails, Family
<1>2. s \in Slots /\ im \in Image /\ im.slot = image[p].slot /\ im.started = TRUE
      /\ im.func = image[p].func /\ im.freed = image[p].freed
      /\ table \in [Fds -> PairEnds \union {Stdin, Closed}]
      /\ \A fd \in Fds : table[fd] \in {<<k, 0>>, <<k, 1>>, fds[p][fd]}
  <2>1. image[p] \in Image
    BY DEF PoolInv, PoolTypeOK
  <2>2. FreeFds(p) \in SUBSET Fds
    BY DEF FreeFds
  <2>3. s \in Slots
    BY <1>a, SlotOfObject DEF PoolInv
  <2>4. PICK a, b \in FreeFds(p) :
          /\ Opened(p, k).pair = <<a, b>>
          /\ \A fd \in Fds : table[fd] = IF fd = a THEN <<k, 0>>
                                       ELSE IF fd = b THEN <<k, 1>>
                                       ELSE fds[p][fd]
    BY <1>a, PairOpened
  <2> HIDE DEF s, table, old
  <2>5. im \in Image /\ im.slot = image[p].slot /\ im.started = TRUE
        /\ im.func = image[p].func /\ im.freed = image[p].freed
    <3>1. im = OpensEntry(image[p], s, <<a, b>>)
      BY <1>1, <2>4
    <3>2. a \in Fds /\ b \in Fds
      BY <2>2
    <3>3. im \in Image
      BY <3>1, <3>2, <2>1, <2>3, EntryOpened, Zenon
    <3>4. im.slot = image[p].slot
      <4>1. OpensEntry(image[p], s, <<a, b>>).slot = image[p].slot
        BY <2>1 DEF OpensEntry, Image
      <4> QED BY <3>1, <4>1
    <3>5. im.started = TRUE
      BY <3>1, <3>2, <2>1, <2>3, EntryOpened
    <3>6. im.func = image[p].func /\ im.freed = image[p].freed
      <4>1. /\ OpensEntry(image[p], s, <<a, b>>).func = image[p].func
            /\ OpensEntry(image[p], s, <<a, b>>).freed = image[p].freed
        BY <2>1 DEF OpensEntry, Image
      <4> QED BY <3>1, <4>1
    <3> QED BY <3>3, <3>4, <3>5, <3>6
  <2> QED BY <1>a, <2>3, <2>4, <2>5, PairOpened DEF table
<1>3. \A q \in Processes : fds[q] \in [Fds -> PairEnds \union {Stdin, Closed}]
                           /\ image[q] \in Image
                           /\ image'[q] = IF q = p THEN im ELSE image[q]
  BY <1>1 DEF PoolInv, PoolTypeOK
<1>4. \A q \in Processes, fd \in Fds :
        /\ fds'[q][fd] \in {<<k, 0>>, <<k, 1>>, fds[q][fd], Closed}
        /\ fds'[q] \in [Fds -> PairEnds \union {Stdin, Closed}]
  <2>1. \A q \in Processes :
          fds'[q] = IF q = p THEN [table EXCEPT ![old[1]] = Closed, ![old[2]] = Closed]
                             ELSE fds[q]
    BY <1>1 DEF PoolInv, PoolTypeOK
  <2> HIDE DEF table, old
  <2> QED BY <1>2, <1>3, <2>1
<1>5. PoolTypeOK'
  <2>1. opened' \in 0..MaxPair
    BY <1>0 DEF Pairs
  <2>2. fds' \in [Processes -> [Fds -> PairEnds \union {Stdin, Closed}]]
    <3>1. [table EXCEPT ![old[1]] = Closed, ![old[2]] = Closed]
            \in [Fds -> PairEnds \union {Stdin, Closed}]
      BY <1>2
    <3> QED BY <3>1, <1>1 DEF PoolInv, PoolTypeOK
  <2> QED BY <1>0, <1>1, <1>2, <2>1, <2>2 DEF PoolInv, PoolTypeOK
<1>6. FdsOpened'
  <2> SUFFICES ASSUME NEW q \in Processes, NEW fd \in Fds, fds'[q][fd] \in PairEnds
               PROVE  fds'[q][fd][1] <= k
    BY <1>0 DEF FdsOpened
  <2>1. Closed \notin PairEnds /\ opened \in Int
    BY DEF Closed, PairEnds, Pairs, PoolInv, PoolTypeOK
  <2>2. CASE fds'[q][fd] = fds[q][fd]
    <3>1. fds[q][fd][1] <= opened /\ fds[q][fd][1] \in Int
      BY <2>2, PeerIsEnd DEF PoolInv, FdsOpened, Pairs
    <3>2. opened \in Int /\ k = opened + 1
      BY <1>0, <2>1
    <3> QED BY <2>2, <3>1, <3>2
  <2>3. CASE fds'[q][fd] \in {<<k, 0>>, <<k, 1>>}
    BY <2>3 DEF Pairs
  <2> QED BY <1>4, <2>1, <2>2, <2>3
<1>7. QueuesOpened'
  <2>1. opened \in Int /\ \A e \in PairEnds : e[1] \in Int
    BY DEF PairEnds, Pairs, PoolInv, PoolTypeOK
  <2> QED BY <1>0, <2>1 DEF PoolInv, QueuesOpened
<1>8. Unborn' /\ Unstarted'
  <2>1. \A q \in Processes :
          /\ image'[q].slot = image[q].slot
          /\ ~ image'[q].started => image'[q] = image[q]
    BY <1>2, <1>3
  <2>2. constructed' = constructed
    BY <1>0
  <2> QED BY <2>1, <2>2 DEF PoolInv, Unborn, Unstarted
<1>9. ~ Orderly' /\ StdinKept' /\ EntriesArePairs'
  BY <1>1 DEF Orderly, StdinKept, EntriesArePairs
<1>10. NoCrossTalk'
  BY <1>1 DEF PoolInv, NoCrossTalk
<1>11. OwnEntry' /\ OwnFunction'
  <2>1. \A q \in Processes :
          /\ image'[q].slot = image[q].slot /\ image'[q].func = image[q].func
          /\ image'[q].freed = image[q].freed
    BY <1>2, <1>3
  <2>2. OwnEntry'
    BY <1>0, <2>1 DEF PoolInv, OwnEntry, Holds
  <2>3. OwnFunction'
    BY <1>0, <2>1 DEF PoolInv, OwnFunction, Kept, Holds
  <2> QED BY <2>2, <2>3
<1> QED BY <1>5, <1>6, <1>7, <1>8, <1>9, <1>10, <1>11 DEF PoolInv, OnePerPair, QueuesOwn

\* The descriptors after start: the entries in use still name their pairs.
LEMMA StillPaired ==
  ASSUME PoolInv, ~ forkFailed, NEW p \in Processes, Runs(p),
         NEW s \in Slots, NEW k \in Pairs, opened < k,
         NEW a \in FreeFds(p), NEW b \in FreeFds(p), a # b,
         NEW table, \A fd \in Fds : table[fd] = IF fd = a THEN <<k, 0>>
                                                ELSE IF fd = b THEN <<k, 1>>
                                                ELSE fds[p][fd]
  PROVE  /\ table[0] = Stdin
         /\ \A t \in Slots \ {s} :
              LET ch == image[p].channel[t] IN
              /\ table[ch[1]] = fds[p][ch[1]] /\ table[ch[1]] # <<k, 0>>
              /\ ch # <<0, 0>> => table[ch[2]] = fds[p][ch[2]]
         /\ PairedIn([image[p].channel EXCEPT ![s] = <<a, b>>], table)
<1> DEFINE channel == [image[p].channel EXCEPT ![s] = <<a, b>>]
<1>1. image[p].channel \in [Slots -> Fds \X Fds] /\ opened \in Int
  BY DEF PoolInv, PoolTypeOK, Image
<1>2. Stdin # Closed /\ Closed \notin PairEnds /\ Stdin \notin PairEnds
      /\ \A e \in Pairs \X {0} : e \in PairEnds /\ Peer(e) \in PairEnds
  BY DEF Stdin, Closed, PairEnds, Pairs, Peer
<1>3. 0 \in Fds /\ a \in Fds /\ b \in Fds /\ fds[p][a] = Closed /\ fds[p][b] = Closed
  BY ProcessPoolAssumption DEF Fds, FreeFds
<1>4. fds[p][0] = Stdin /\ table[0] = Stdin
  BY <1>2, <1>3 DEF PoolInv, StdinKept
<1>5. ASSUME NEW t \in Slots
      PROVE  LET ch == image[p].channel[t] IN
             /\ table[ch[1]] = fds[p][ch[1]] /\ table[ch[1]] # <<k, 0>>
             /\ ch # <<0, 0>> => table[ch[2]] = fds[p][ch[2]]
  <2> DEFINE ch == image[p].channel[t]
  <2>1. ch[1] \in Fds /\ ch[2] \in Fds
    BY <1>1
  <2>2. CASE ch = <<0, 0>>
    BY <1>2, <1>3, <1>4, <2>2 DEF Stdin, Pairs
  <2>3. CASE ch # <<0, 0>>
    <3>1. fds[p][ch[1]] \in Pairs \X {0} /\ fds[p][ch[2]] = Peer(fds[p][ch[1]])
      BY <1>5, <2>3 DEF PoolInv, EntriesArePairs, PairedIn
    <3>2. ch[1] \notin {a, b} /\ ch[2] \notin {a, b}
      BY <1>2, <1>3, <3>1
    <3>3. fds[p][ch[1]][1] <= opened
      BY <1>2, <2>1, <3>1 DEF PoolInv, FdsOpened
    <3>4. fds[p][ch[1]] # <<k, 0>>
      BY <1>1, <3>3 DEF Pairs
    <3> QED BY <2>1, <3>2, <3>4
  <2> QED BY <2>2, <2>3
<1>6. PairedIn(channel, table)
  <2> SUFFICES ASSUME NEW t \in Slots, channel[t] # <<0, 0>>
               PROVE  /\ table[channel[t][1]] \in Pairs \X {0}
                      /\ table[channel[t][2]] = Peer(table[channel[t][1]])
                      /\ \A v \in Slots \ {t} : table[channel[v][1]] # table[channel[t][1]]
    BY DEF PairedIn
  <2>1. channel[s] = <<a, b>> /\ table[a] = <<k, 0>> /\ table[b] = <<k, 1>>
        /\ \A v \in Slots \ {s} : channel[v] = image[p].channel[v]
    BY <1>1, <1>3
  <2> HIDE DEF channel
  <2>2. CASE t = s
    <3>1. \A v \in Slots \ {s} : table[channel[v][1]] # <<k, 0>>
      BY <1>5, <2>1
    <3>2. <<k, 0>> \in Pairs \X {0} /\ Peer(<<k, 0>>) = <<k, 1>>
      BY DEF Peer
    <3> QED BY <2>1, <2>2, <3>1, <3>2
  <2>3. CASE t # s
    <3>0. PairedIn(image[p].channel, fds[p])
      BY DEF PoolInv, EntriesArePairs
    <3>1. /\ fds[p][channel[t][1]] \in Pairs \X {0}
          /\ fds[p][channel[t][2]] = Peer(fds[p][channel[t][1]])
          /\ \A v \in Slots \ {t} :
               fds[p][image[p].channel[v][1]] # fds[p][channel[t][1]]
      <4>1. t \in Slots /\ channel[t] = image[p].channel[t] /\ image[p].channel[t] # <<0, 0>>
        BY <2>1, <2>3
      <4>2. /\ fds[p][image[p].channel[t][1]] \in Pairs \X {0}
            /\ fds[p][image[p].channel[t][2]] = Peer(fds[p][image[p].channel[t][1]])
            /\ \A v \in Slots \ {t} :
                 fds[p][image[p].channel[v][1]] # fds[p][image[p].channel[t][1]]
        BY <3>0, <4>1, Zenon DEF PairedIn
      <4> QED BY <4>1, <4>2
    <3>2. table[channel[t][1]] = fds[p][channel[t][1]] /\ table[channel[t][1]] # <<k, 0>>
          /\ table[channel[t][2]] = fds[p][channel[t][2]]
      BY <1>5, <2>1, <2>3
    <3>3. ASSUME NEW v \in Slots \ {t}
          PROVE  table[channel[v][1]] # table[channel[t][1]]
      <4>1. CASE v = s
        BY <2>1, <3>2, <4>1
      <4>2. CASE v # s
        <5>1. channel[v] = image[p].channel[v] /\ table[channel[v][1]] = fds[p][channel[v][1]]
          BY <1>5, <2>1, <4>2
        <5>2. fds[p][channel[v][1]] # fds[p][channel[t][1]]
          BY <3>1, <5>1
        <5> QED BY <3>2, <5>1, <5>2
      <4> QED BY <4>1, <4>2
    <3> QED BY <3>1, <3>2, <3>3
  <2> QED BY <2>2, <2>3
<1> QED BY <1>4, <1>5, <1>6

\* A fork of p, by start or lib_fork: the child and what it now shares.
LEMMA ForkedFamily ==
  ASSUME PoolInv, NEW p \in Processes, Runs(p), NEW child \in Processes,
         NEW table \in [Fds -> PairEnds \union {Stdin, Closed}],
         NEW how \in {"start", "lib_fork"}, Forks(p, child, table, how)
  PROVE  /\ child # p /\ ~ Runs(child)
         /\ state' \in [Processes -> {"unused", "running", "exited", "crashed"}]
         /\ born' \in [Processes -> {"unused", "loaded", "start", "lib_fork"}]
         /\ parent' \in [Processes -> Processes \union {Nobody}]
         /\ fds' \in [Processes -> [Fds -> PairEnds \union {Stdin, Closed}]]
         /\ \A q \in Processes :
              /\ Runs(q)' <=> Runs(q) \/ q = child
              /\ fds'[q] = IF q \in {p, child} THEN table ELSE fds[q]
BY DEF Forks, PoolInv, PoolTypeOK, Runs

LEMMA ChildImage ==
  ASSUME NEW im \in Image, NEW child \in Processes
  PROVE  /\ ChildOf(im, child) \in Image
         /\ ChildOf(im, child).slot = im.slot
         /\ ChildOf(im, child).func = im.func
         /\ ChildOf(im, child).freed = im.freed
         /\ ChildOf(im, child).channel = im.channel
         /\ ChildOf(im, child).started = im.started
         /\ ChildOf(im, child).ce_pid = child
         /\ ChildOf(im, child).ce_parent = im.ce_pid
BY DEF ChildOf, Image

StartForks(p, o, k, im, child) ==
  /\ Runs(p) /\ Holds(p, o) /\ Cardinality(FreeFds(p)) >= 2
  /\ k = opened + 1 /\ opened' = k
  /\ UNCHANGED <<queue, constructed, released, lateObject, forkFailed, crossed>>
  /\ im = OpensEntry(image[p], image[p].slot[o], Opened(p, k).pair)
  /\ Forks(p, child, Opened(p, k).table, "start")
  /\ image' = [image EXCEPT ![p] = im, ![child] = ChildOf(im, child)]
  /\ strayed' = (strayed \/ im.func[image[p].slot[o]] # o)

\* A worker is forked with the pair that start opened for its object.
LEMMA ForksKeeps ==
  ASSUME PoolInv, NEW p \in Processes, NEW o \in Objects, NEW k \in Pairs, NEW im,
         NEW child \in Processes, StartForks(p, o, k, im, child)
  PROVE  PoolInv'
<1> DEFINE s == image[p].slot[o]
           table == Opened(p, k).table
           D == {p, child}
<1>0. /\ Runs(p) /\ Holds(p, o) /\ Cardinality(FreeFds(p)) >= 2
      /\ k = opened + 1 /\ opened' = k
      /\ UNCHANGED <<queue, constructed, released, lateObject, forkFailed, crossed>>
      /\ im = OpensEntry(image[p], s, Opened(p, k).pair)
      /\ Forks(p, child, table, "start")
      /\ image' = [image EXCEPT ![p] = im, ![child] = ChildOf(im, child)]
      /\ strayed' = (strayed \/ im.func[s] # o)
  BY DEF StartForks
<1>1. image[p] \in Image /\ s \in Slots /\ opened \in Int /\ opened < k
  BY <1>0, SlotOfObject DEF PoolInv, PoolTypeOK
<1>2. PICK a, b \in FreeFds(p) :
        /\ a # b
        /\ Opened(p, k).pair = <<a, b>>
        /\ \A fd \in Fds : table[fd] = IF fd = a THEN <<k, 0>>
                                       ELSE IF fd = b THEN <<k, 1>>
                                       ELSE fds[p][fd]
  BY <1>0, PairOpened
<1>3. table \in [Fds -> PairEnds \union {Stdin, Closed}]
  BY <1>0, PairOpened
<1>4. /\ im \in Image
      /\ im.slot = image[p].slot /\ im.func = image[p].func /\ im.freed = image[p].freed
      /\ im.started = TRUE
      /\ im.channel = [image[p].channel EXCEPT ![s] = <<a, b>>]
  <2>1. im = OpensEntry(image[p], s, <<a, b>>)
    BY <1>0, <1>2
  <2>2. a \in Fds /\ b \in Fds
    BY <1>2 DEF FreeFds
  <2> HIDE DEF s
  <2>3. /\ OpensEntry(image[p], s, <<a, b>>) \in Image
        /\ OpensEntry(image[p], s, <<a, b>>).slot = image[p].slot
        /\ OpensEntry(image[p], s, <<a, b>>).func = image[p].func
        /\ OpensEntry(image[p], s, <<a, b>>).freed = image[p].freed
        /\ OpensEntry(image[p], s, <<a, b>>).started = TRUE
        /\ OpensEntry(image[p], s, <<a, b>>).channel = [image[p].channel EXCEPT ![s] = <<a, b>>]
    BY <1>1, <2>2, EntryOpened
  <2> QED BY <2>1, <2>3
<1>5. /\ child # p /\ ~ Runs(child)
      /\ state' \in [Processes -> {"unused", "running", "exited", "crashed"}]
      /\ born' \in [Processes -> {"unused", "loaded", "start", "lib_fork"}]
      /\ parent' \in [Processes -> Processes \union {Nobody}]
      /\ fds' \in [Processes -> [Fds -> PairEnds \union {Stdin, Closed}]]
      /\ \A q \in Processes :
           /\ Runs(q)' <=> Runs(q) \/ q = child
           /\ fds'[q] = IF q \in D THEN table ELSE fds[q]
  BY <1>0, <1>3, ForkedFamily
<1> HIDE DEF s, table
<1>6. \A q \in Processes :
        /\ image'[q] \in Image
        /\ q \notin D => image'[q] = image[q]
        /\ q \in D => /\ image'[q].slot = image[p].slot
                      /\ image'[q].func = image[p].func
                      /\ image'[q].freed = image[p].freed
                      /\ image'[q].channel = im.channel
                      /\ image'[q].started = TRUE
  <2>1. ChildOf(im, child) \in Image
        /\ ChildOf(im, child).slot = im.slot /\ ChildOf(im, child).func = im.func
        /\ ChildOf(im, child).freed = im.freed
        /\ ChildOf(im, child).channel = im.channel
        /\ ChildOf(im, child).started = im.started
    BY <1>4, ChildImage
  <2>2. /\ image'[p] = im /\ image'[child] = ChildOf(im, child)
        /\ \A q \in Processes : image[q] \in Image /\ (q \notin D => image'[q] = image[q])
    BY <1>0, <1>5 DEF PoolInv, PoolTypeOK
  <2> QED BY <1>4, <2>1, <2>2
<1>7. PoolTypeOK'
  <2>1. image' \in [Processes -> Image]
    BY <1>0, <1>4, ChildImage DEF PoolInv, PoolTypeOK
  <2> QED BY <1>0, <1>5, <2>1 DEF PoolInv, PoolTypeOK, Pairs
<1>8. FdsOpened'
  <2> SUFFICES ASSUME NEW q \in Processes, NEW fd \in Fds, fds'[q][fd] \in PairEnds
               PROVE  fds'[q][fd][1] <= k
    BY <1>0 DEF FdsOpened
  <2>1. PICK r \in Processes : fds'[q][fd] \in {fds[r][fd], <<k, 0>>, <<k, 1>>}
    BY <1>2, <1>5
  <2>2. CASE fds'[q][fd] = fds[r][fd]
    <3>1. fds[r][fd][1] <= opened /\ fds[r][fd][1] \in Int
      BY <2>2, PeerIsEnd DEF PoolInv, FdsOpened, Pairs
    <3>2. k \in Int
      BY DEF Pairs
    <3> QED BY <1>1, <2>2, <3>1, <3>2
  <2>3. CASE fds'[q][fd] \in {<<k, 0>>, <<k, 1>>}
    BY <2>3 DEF Pairs
  <2> QED BY <2>1, <2>2, <2>3
<1>9. QueuesOpened'
  <2>1. \A e \in PairEnds : e[1] \in Int
    BY DEF PairEnds, Pairs
  <2> QED BY <1>0, <1>1, <2>1 DEF PoolInv, QueuesOpened
<1>10. Unborn' /\ Unstarted'
  <2>1. \A q \in Processes : \E r \in Processes : image'[q].slot = image[r].slot
    BY <1>6
  <2>2. Unborn'
    <3>1. constructed' = constructed
      BY <1>0
    <3> QED BY <2>1, <3>1 DEF PoolInv, Unborn
  <2>3. \A q \in Processes : ~ image'[q].started => image'[q] = image[q]
    BY <1>6
  <2>4. Unstarted'
    BY <2>3 DEF PoolInv, Unstarted
  <2> QED BY <2>2, <2>4
<1>11. ~ forkFailed => /\ table[0] = Stdin
                       /\ \A t \in Slots \ {s} :
                            table[image[p].channel[t][1]] = fds[p][image[p].channel[t][1]]
                       /\ PairedIn(im.channel, table)
  <2>1. a \in FreeFds(p) /\ b \in FreeFds(p) /\ a # b
        /\ \A fd \in Fds : table[fd] = IF fd = a THEN <<k, 0>>
                                     ELSE IF fd = b THEN <<k, 1>>
                                     ELSE fds[p][fd]
    BY <1>2
  <2> SUFFICES ASSUME ~ forkFailed
               PROVE  /\ table[0] = Stdin
                      /\ \A t \in Slots \ {s} :
                           table[image[p].channel[t][1]] = fds[p][image[p].channel[t][1]]
                      /\ PairedIn([image[p].channel EXCEPT ![s] = <<a, b>>], table)
    BY <1>4
  <2> HIDE DEF D
  <2>2. Runs(p) /\ opened < k /\ s \in Slots
    BY <1>0, <1>1
  <2>3. /\ table[0] = Stdin
        /\ \A t \in Slots \ {s} :
             LET ch == image[p].channel[t] IN
             /\ table[ch[1]] = fds[p][ch[1]] /\ table[ch[1]] # <<k, 0>>
             /\ ch # <<0, 0>> => table[ch[2]] = fds[p][ch[2]]
        /\ PairedIn([image[p].channel EXCEPT ![s] = <<a, b>>], table)
    BY <2>1, <2>2, StillPaired
  <2> QED BY <2>3
<1>12. StdinKept' /\ EntriesArePairs'
  <2>1. 0 \in Fds
    BY ProcessPoolAssumption DEF Fds
  <2>2. StdinKept'
    BY <1>0, <1>5, <1>11, <2>1 DEF PoolInv, StdinKept
  <2>3. EntriesArePairs'
    <3> SUFFICES ASSUME ~ forkFailed, NEW q \in Processes, Runs(q)'
                 PROVE  PairedIn(image[q].channel, fds[q])'
      BY <1>0 DEF EntriesArePairs
    <3>1. CASE q \in D
      <4>1. image'[q].channel = im.channel /\ fds'[q] = table
        BY <1>5, <1>6, <3>1
      <4> QED BY <1>11, <4>1
    <3>2. CASE q \notin D
      BY <1>5, <1>6, <3>2 DEF PoolInv, EntriesArePairs
    <3> QED BY <3>1, <3>2
  <2> QED BY <2>2, <2>3
<1>13. Orderly' => Orderly
  BY <1>0 DEF Orderly
<1>14. OwnEntry' /\ OwnFunction'
  <2>1. \A q \in Processes : \E r \in Processes :
          /\ image'[q].slot = image[r].slot /\ image'[q].func = image[r].func
          /\ image'[q].freed = image[r].freed
    BY <1>6
  <2>2. OwnEntry'
    BY <1>0, <2>1 DEF PoolInv, OwnEntry, Holds
  <2>3. OwnFunction'
    <3> SUFFICES ASSUME Kept', NEW q \in Processes
                 PROVE  /\ image'[q].freed = {}
                        /\ \A v \in Objects : Holds(q, v)' => image'[q].func[image'[q].slot[v]] = v
      BY DEF OwnFunction
    <3>1. PICK r \in Processes :
            /\ image'[q].slot = image[r].slot /\ image'[q].func = image[r].func
            /\ image'[q].freed = image[r].freed
      BY <2>1
    <3>2. Kept
      BY <1>0 DEF Kept
    <3>3. /\ image[r].freed = {}
          /\ \A v \in Objects : Holds(r, v) => image[r].func[image[r].slot[v]] = v
      BY <3>2 DEF PoolInv, OwnFunction
    <3> QED BY <3>1, <3>3 DEF Holds
  <2> QED BY <2>2, <2>3
<1>15. Orderly => \A u \in Objects : Holds(p, u) /\ image[p].slot[u] = s => u = o
  BY <1>0 DEF PoolInv, OwnEntry, Orderly, s
<1>16. ASSUME Orderly, NEW q \in Processes, NEW u \in Objects, HasPair(q, u)'
       PROVE  \/ u = o /\ PairOf(q, u)' = k
              \/ \E r \in Processes : HasPair(r, u) /\ PairOf(q, u)' = PairOf(r, u)
  <2> DEFINE t == image'[q].slot[u]
  <2>1. Runs(q)' /\ t # NoSlot /\ image'[q].channel[t] # <<0, 0>>
        /\ PairOf(q, u)' = fds'[q][image'[q].channel[t][1]][1]
    BY <1>16 DEF HasPair, Holds, PairOf, WriteFd
  <2>2. CASE q \in D
    <3>1. t = image[p].slot[u] /\ Holds(p, u) /\ t \in Slots
      <4>1. image'[q].slot = image[p].slot
        BY <1>6, <2>2
      <4>2. t = image[p].slot[u] /\ Holds(p, u)
        BY <2>1, <4>1 DEF Holds
      <4> QED BY <4>2, SlotOfObject DEF PoolInv
    <3>2. PairOf(q, u)' = table[im.channel[t][1]][1] /\ im.channel[t] # <<0, 0>>
      BY <1>5, <1>6, <2>1, <2>2
    <3>3. CASE t = s
      <4>1. u = o
        BY <1>15, <1>16, <3>1, <3>3
      <4>2. im.channel[s][1] = a /\ table[a] = <<k, 0>>
        BY <1>1, <1>2, <1>4 DEF Image, FreeFds
      <4>3. PairOf(q, u)' = k
        BY <3>2, <3>3, <4>2
      <4> QED BY <4>1, <4>3
    <3>4. CASE t # s
      <4>1. im.channel[t] = image[p].channel[t]
        <5>1. image[p].channel \in [Slots -> Fds \X Fds]
          BY <1>1 DEF Image
        <5> QED BY <1>1, <1>4, <3>1, <3>4, <5>1
      <4>2. HasPair(p, u) /\ PairOf(p, u) = fds[p][image[p].channel[t][1]][1]
        BY <1>0, <3>1, <3>2, <4>1 DEF HasPair, PairOf, WriteFd
      <4>3. table[image[p].channel[t][1]] = fds[p][image[p].channel[t][1]]
        BY <1>11, <1>16, <3>1, <3>4 DEF Orderly
      <4> QED BY <3>2, <4>1, <4>2, <4>3
    <3> QED BY <3>3, <3>4
  <2>3. CASE q \notin D
    <3>1. HasPair(q, u) /\ PairOf(q, u)' = PairOf(q, u)
      BY <1>5, <1>6, <1>16, <2>3 DEF HasPair, PairOf, WriteFd, Holds
    <3> QED BY <3>1
  <2> QED BY <2>2, <2>3
<1>17. ASSUME Orderly, NEW r \in Processes, NEW u \in Objects, HasPair(r, u)
       PROVE  PairOf(r, u) # k
  <2>1. PairOf(r, u) \in Pairs /\ fds[r][WriteFd(r, u)] = <<PairOf(r, u), 0>>
    BY <1>17, PairsOfObjects DEF Orderly
  <2>2. WriteFd(r, u) \in Fds
    BY <1>17, FdsOfObjects DEF HasPair, PoolInv
  <2>3. PairOf(r, u) <= opened
    <3>1. <<PairOf(r, u), 0>> \in PairEnds
      BY <2>1 DEF PairEnds
    <3>2. fds[r][WriteFd(r, u)][1] <= opened
      BY <2>1, <2>2, <3>1 DEF PoolInv, FdsOpened
    <3> QED BY <2>1, <3>2
  <2> QED BY <1>1, <2>1, <2>3 DEF Pairs
<1>18. OnePerPair'
  BY <1>13, <1>16, <1>17 DEF PoolInv, OnePerPair
<1>19. QueuesOwn'
  <2> SUFFICES ASSUME Orderly', NEW q \in Processes, NEW u \in Objects, HasPair(q, u)',
                      NEW i \in {0, 1}
               PROVE  OnlyOf(queue'[<<PairOf(q, u)', i>>], u)
    BY DEF QueuesOwn
  <2>1. queue[<<k, i>>] = <<>> /\ DOMAIN <<>> = {}
    BY <1>0, <1>1 DEF PoolInv, QueuesOpened, PairEnds
  <2>2. CASE u = o /\ PairOf(q, u)' = k
    BY <1>0, <2>1, <2>2 DEF OnlyOf
  <2>3. CASE \E r \in Processes : HasPair(r, u) /\ PairOf(q, u)' = PairOf(r, u)
    BY <1>0, <1>13, <2>3 DEF PoolInv, QueuesOwn
  <2> QED BY <1>13, <1>16, <2>2, <2>3
<1>20. NoCrossTalk'
  <2>1. Kept => im.func[s] = o
    BY <1>0, <1>4 DEF PoolInv, OwnFunction, s
  <2> QED BY <1>0, <2>1 DEF PoolInv, NoCrossTalk, Kept
<1> QED BY <1>7, <1>8, <1>9, <1>10, <1>12, <1>14, <1>18, <1>19, <1>20 DEF PoolInv

LEMMA StartKeeps ==
  ASSUME PoolInv, NEW p \in Processes, NEW o \in Objects, Start(p, o)
  PROVE  PoolInv'
<1> DEFINE k == opened + 1
           s == image[p].slot[o]
           im == OpensEntry(image[p], s, Opened(p, k).pair)
<1>1. /\ Runs(p) /\ Holds(p, o) /\ k \in Pairs /\ Cardinality(FreeFds(p)) >= 2
      /\ opened' = k /\ UNCHANGED <<queue, constructed, released, lateObject, crossed>>
  BY DEF Start, spwan_process
<1>2. CASE ForkFails(p, s, im, Opened(p, k).table)
  <2>1. StartFails(p, o, k, im)
    BY <1>1, <1>2 DEF StartFails
  <2> QED BY <1>1, <2>1, ForkFailsKeeps
<1>3. CASE \E child \in Processes : StartForks(p, o, k, im, child)
  BY <1>1, <1>3, ForksKeeps
<1>4. ForkFails(p, s, im, Opened(p, k).table)
      \/ \E child \in Processes : StartForks(p, o, k, im, child)
  BY <1>1 DEF Start, spwan_process, StartForks
<1> QED BY <1>2, <1>3, <1>4

\* The child of lib_fork is p once more.
LEMMA lib_forkKeeps ==
  ASSUME PoolInv, NEW p \in Processes, lib_fork(p)
  PROVE  PoolInv'
<1>1. PICK child \in Processes :
        /\ Forks(p, child, fds[p], "lib_fork")
        /\ image' = [image EXCEPT ![child] = image[p]]
  BY DEF lib_fork
<1>2. Runs(p) /\ UNCHANGED <<queue, opened, constructed, released, lateObject, forkFailed,
                             crossed, strayed>>
  BY DEF lib_fork
<1>3. /\ child # p /\ ~ Runs(child)
      /\ state' \in [Processes -> {"unused", "running", "exited", "crashed"}]
      /\ born' \in [Processes -> {"unused", "loaded", "start", "lib_fork"}]
      /\ parent' \in [Processes -> Processes \union {Nobody}]
      /\ fds' \in [Processes -> [Fds -> PairEnds \union {Stdin, Closed}]]
      /\ \A q \in Processes :
           /\ Runs(q)' <=> Runs(q) \/ q = child
           /\ fds'[q] = IF q \in {p, child} THEN fds[p] ELSE fds[q]
  <2>1. fds[p] \in [Fds -> PairEnds \union {Stdin, Closed}]
    BY DEF PoolInv, PoolTypeOK
  <2> QED BY <1>1, <1>2, <2>1, ForkedFamily
\* Every process now is like one that was running before.
<1>4. \A q \in Processes : \E r \in Processes :
        /\ image'[q] = image[r] /\ fds'[q] = fds[r]
        /\ Runs(q)' => Runs(r)
  <2>1. \A q \in Processes : image'[q] = IF q = child THEN image[p] ELSE image[q]
    BY <1>1 DEF PoolInv, PoolTypeOK
  <2> SUFFICES ASSUME NEW q \in Processes
               PROVE  \E r \in Processes :
                        /\ image'[q] = image[r] /\ fds'[q] = fds[r]
                        /\ Runs(q)' => Runs(r)
    OBVIOUS
  <2>2. CASE q = child
    BY <1>2, <1>3, <2>1, <2>2
  <2>3. CASE q # child
    BY <1>3, <2>1, <2>3
  <2> QED BY <2>2, <2>3
<1>5. PoolTypeOK'
  <2>1. image' \in [Processes -> Image]
    BY <1>1 DEF PoolInv, PoolTypeOK
  <2> QED BY <1>2, <1>3, <2>1 DEF PoolInv, PoolTypeOK
<1>6. FdsOpened'
  BY <1>2, <1>4 DEF PoolInv, FdsOpened
<1>7. Unborn'
  BY <1>2, <1>4 DEF PoolInv, Unborn
<1>8. Unstarted'
  BY <1>2, <1>4 DEF PoolInv, Unstarted
<1>9. StdinKept'
  BY <1>2, <1>4 DEF PoolInv, StdinKept
<1>10. EntriesArePairs'
  BY <1>2, <1>4 DEF PoolInv, EntriesArePairs
<1>11. Orderly' <=> Orderly
  BY <1>2 DEF Orderly
<1>12. OwnEntry' /\ OwnFunction'
  BY <1>2, <1>4 DEF PoolInv, OwnEntry, OwnFunction, Kept, Holds
<1>13. QueuesOpened' /\ NoCrossTalk'
  BY <1>2 DEF PoolInv, QueuesOpened, NoCrossTalk
<1>14. \A q \in Processes : \E r \in Processes : \A u \in Objects :
         HasPair(q, u)' => HasPair(r, u) /\ PairOf(q, u)' = PairOf(r, u)
  <2> SUFFICES ASSUME NEW q \in Processes
               PROVE  \E r \in Processes : \A u \in Objects :
                        HasPair(q, u)' => HasPair(r, u) /\ PairOf(q, u)' = PairOf(r, u)
    OBVIOUS
  <2>1. PICK r \in Processes : /\ image'[q] = image[r] /\ fds'[q] = fds[r]
                               /\ Runs(q)' => Runs(r)
    BY <1>4
  <2> QED BY <2>1 DEF HasPair, PairOf, WriteFd, Holds
<1>15. OnePerPair'
  BY <1>11, <1>14 DEF PoolInv, OnePerPair
<1>16. QueuesOwn'
  <2>1. queue' = queue
    BY <1>2
  <2> QED BY <1>11, <1>14, <2>1 DEF PoolInv, QueuesOwn
<1> QED BY <1>5, <1>6, <1>7, <1>8, <1>9, <1>10, <1>12, <1>13, <1>15, <1>16 DEF PoolInv

-----------------------------------------------------------------------------
(* The theorems. *)

LEMMA PoolInitInv == PoolInit => PoolInv
<1> SUFFICES ASSUME PoolInit PROVE PoolInv
  OBVIOUS
<1>1. Loaded \in Image /\ Script \in Processes
  BY ProcessPoolAssumption
     DEF Loaded, Image, Slots, Fds, Objects, Processes, Script, NoSlot, NoObject, Nobody
<1>2. Stdin \notin PairEnds /\ Closed \notin PairEnds /\ 0 \in Fds
  BY ProcessPoolAssumption DEF Stdin, Closed, PairEnds, Pairs, Fds
<1>3. PoolTypeOK
  <2>1. fds \in [Processes -> [Fds -> PairEnds \union {Stdin, Closed}]]
    BY DEF PoolInit
  <2>2. queue \in [PairEnds -> Seq(Objects)]
    BY DEF PoolInit
  <2>3. opened \in 0..MaxPair /\ constructed \in 0..MaxObject
    BY ProcessPoolAssumption DEF PoolInit
  <2> QED BY <1>1, <2>1, <2>2, <2>3 DEF PoolInit, PoolTypeOK
<1>4. \A p \in Processes : image[p] = Loaded
  BY DEF PoolInit
<1>5. Loaded.started = FALSE /\ (\A s \in Slots : Loaded.channel[s] = <<0, 0>>)
      /\ Loaded.process_slot = 0 /\ (\A o \in Objects : Loaded.slot[o] = NoSlot)
  BY DEF Loaded
<1>6. FdsOpened /\ QueuesOpened /\ NoCrossTalk
  BY <1>2 DEF PoolInit, FdsOpened, QueuesOpened, NoCrossTalk
<1>7. Unborn /\ Unstarted
  BY <1>4, <1>5 DEF Unborn, Unstarted, NoSlot
<1>8. StdinKept
  BY <1>2 DEF PoolInit, StdinKept, Runs
<1>9. \A p \in Processes, o \in Objects : ~ Holds(p, o)
  BY <1>4, <1>5 DEF Holds
<1>10. OwnEntry /\ OwnFunction /\ OnePerPair /\ QueuesOwn
  <2>1. \A p \in Processes : image[p].freed = {}
    BY <1>4 DEF Loaded
  <2> QED BY <1>9, <2>1 DEF OwnEntry, OwnFunction, OnePerPair, QueuesOwn, HasPair
<1>11. EntriesArePairs
  BY <1>4, <1>5 DEF EntriesArePairs, PairedIn
<1> QED BY <1>3, <1>6, <1>7, <1>8, <1>10, <1>11 DEF PoolInv

LEMMA PoolNextInv == PoolInv /\ [PoolNext]_poolVars => PoolInv'
<1> SUFFICES ASSUME PoolInv, [PoolNext]_poolVars PROVE PoolInv'
  OBVIOUS
<1>1. ASSUME NEW p \in Processes, Construct(p) PROVE PoolInv'
  BY <1>1, ConstructKeeps
<1>2. ASSUME NEW p \in Processes, lib_fork(p) PROVE PoolInv'
  BY <1>2, lib_forkKeeps
<1>3. ASSUME NEW p \in Processes, Exit(p) PROVE PoolInv'
  BY <1>3, EndsKeeps DEF Exit
<1>4. ASSUME NEW p \in Processes, NEW o \in Objects, Start(p, o) PROVE PoolInv'
  BY <1>4, StartKeeps
<1>5. ASSUME NEW p \in Processes, NEW o \in Objects, Write(p, o) PROVE PoolInv'
  BY <1>5, WriteKeeps
<1>6. ASSUME NEW p \in Processes, NEW o \in Objects, Read(p, o) PROVE PoolInv'
  BY <1>6, ReadKeeps
<1>7. CASE UNCHANGED poolVars
  <2>1. PoolTypeOK'
    BY <1>7 DEF poolVars, PoolInv, PoolTypeOK
  <2>2. FdsOpened' /\ QueuesOpened' /\ Unborn' /\ Unstarted' /\ StdinKept'
    BY <1>7 DEF poolVars, PoolInv, FdsOpened, QueuesOpened, Unborn, Unstarted, StdinKept, Runs
  <2>3. OwnEntry' /\ OwnFunction' /\ EntriesArePairs' /\ NoCrossTalk'
    BY <1>7 DEF poolVars, PoolInv, OwnEntry, OwnFunction, EntriesArePairs, NoCrossTalk, Kept,
                Holds, Runs
  <2>4. Orderly' = Orderly /\ queue' = queue
        /\ \A q \in Processes, u \in Objects :
             (HasPair(q, u)' <=> HasPair(q, u)) /\ PairOf(q, u)' = PairOf(q, u)
    BY <1>7 DEF poolVars, Orderly, HasPair, PairOf, WriteFd, Holds, Runs
  <2>5. OnePerPair'
    BY <2>4 DEF PoolInv, OnePerPair
  <2>6. QueuesOwn'
    BY <2>4 DEF PoolInv, QueuesOwn
  <2> QED BY <2>1, <2>2, <2>3, <2>5, <2>6 DEF PoolInv
<1> QED BY <1>1, <1>2, <1>3, <1>4, <1>5, <1>6, <1>7 DEF PoolNext, PoolStep

LEMMA PoolAlways == PoolSpec => []PoolInv
<1> QED BY PoolInitInv, PoolNextInv, PTL DEF PoolSpec

\* Types: the tables, descriptors and queues of every process stay in range.
THEOREM PoolTypesAlwaysOK == PoolSpec => []PoolTypeOK
<1>1. PoolInv => PoolTypeOK
  BY DEF PoolInv
<1> QED BY <1>1, PoolAlways, PTL

\* No reuse of a descriptor number and no fork makes an entry that start filled
\* name anything but the two ends of a pair of its own, while no fork failed.
THEOREM EntriesAlwaysArePairs == PoolSpec => []EntriesArePairs
<1>1. PoolInv => EntriesArePairs
  BY DEF PoolInv
<1> QED BY <1>1, PoolAlways, PTL

\* A message reaches the object it was written through, however many processes
\* share its pair, unless an object was constructed after a start or a fork
\* failed; a worker is given the function of its own object, unless an object
\* was constructed after a start or a function was freed that an entry points
\* to, as every closure literal is.
THEOREM CrossTalkNeedsACause == PoolSpec => []NoCrossTalk
<1>1. PoolInv => NoCrossTalk
  BY DEF PoolInv
<1> QED BY <1>1, PoolAlways, PTL

-----------------------------------------------------------------------------
(* Who is who. *)

\* A process knows itself unless lib_fork left it with its parent's id.
LEMMA IdsKept ==
  ASSUME PoolTypeOK, PoolTypeOK', IdsInv, [PoolNext]_poolVars
  PROVE  IdsInv'
<1>0. \A p \in Processes : born[p] \in {"unused", "loaded", "start", "lib_fork"}
  BY DEF PoolTypeOK
<1>1. ASSUME NEW p \in Processes, NEW child \in Processes, NEW table, NEW how,
             how \in {"start", "lib_fork"}, Runs(p), Forks(p, child, table, how)
      PROVE  /\ child # p /\ state[child] = "unused" /\ born[child] = "unused"
             /\ \A q \in Processes :
                  /\ state'[q] = IF q = child THEN "running" ELSE state[q]
                  /\ born'[q] = IF q = child THEN how ELSE born[q]
                  /\ parent'[q] = IF q = child THEN p ELSE parent[q]
  BY <1>1 DEF Forks, Runs, PoolTypeOK, IdsInv
<1>2. ASSUME NEW p \in Processes, lib_fork(p) PROVE IdsInv'
  <2>1. PICK child \in Processes :
          /\ Forks(p, child, fds[p], "lib_fork")
          /\ image' = [image EXCEPT ![child] = image[p]]
          /\ Runs(p)
    BY <1>2 DEF lib_fork
  <2>2. \A q \in Processes : q # child => image'[q] = image[q]
    BY <2>1 DEF PoolTypeOK
  <2>3. \A q \in Processes :
          /\ state'[q] = IF q = child THEN "running" ELSE state[q]
          /\ born'[q] = IF q = child THEN "lib_fork" ELSE born[q]
          /\ parent'[q] = IF q = child THEN p ELSE parent[q]
    BY <1>1, <2>1
  <2>4. child # p /\ state[child] = "unused" /\ born[child] = "unused"
    BY <1>1, <2>1
  <2> QED BY <2>1, <2>2, <2>3, <2>4 DEF IdsInv, PidsRight, Runs
<1>3. ASSUME NEW p \in Processes, NEW o \in Objects, Start(p, o) PROVE IdsInv'
  <2> DEFINE s == image[p].slot[o]
             k == opened + 1
             im == OpensEntry(image[p], s, Opened(p, k).pair)
  <2>0. Runs(p) /\ image[p] \in Image /\ im.ce_pid = image[p].ce_pid
        /\ im.ce_parent = image[p].ce_parent
    BY <1>3 DEF Start, PoolTypeOK, OpensEntry, Image
  <2>1. CASE ForkFails(p, s, im, Opened(p, k).table)
    <3>1. UNCHANGED <<state, born, parent>> /\ image' = [image EXCEPT ![p] = im]
      BY <2>1 DEF ForkFails, Family
    <3>2. \A q \in Processes : image'[q].ce_pid = image[q].ce_pid
                               /\ image'[q].ce_parent = image[q].ce_parent
      BY <2>0, <3>1 DEF PoolTypeOK
    <3> QED BY <3>1, <3>2 DEF IdsInv, PidsRight
  <2>2. CASE \E child \in Processes : StartForks(p, o, k, im, child)
    <3>1. PICK child \in Processes :
            /\ Forks(p, child, Opened(p, k).table, "start")
            /\ image' = [image EXCEPT ![p] = im, ![child] = ChildOf(im, child)]
      BY <2>2 DEF StartForks
    <3>2. \A q \in Processes :
            /\ state'[q] = IF q = child THEN "running" ELSE state[q]
            /\ born'[q] = IF q = child THEN "start" ELSE born[q]
            /\ parent'[q] = IF q = child THEN p ELSE parent[q]
      BY <1>1, <2>0, <3>1
    <3>3. child # p /\ state[child] = "unused" /\ born[child] = "unused"
      BY <1>1, <2>0, <3>1
    <3>4. \A q \in Processes \ {child} :
            image'[q].ce_pid = image[q].ce_pid /\ image'[q].ce_parent = image[q].ce_parent
      BY <2>0, <3>1 DEF PoolTypeOK
    <3>5. image'[child].ce_pid = child /\ image'[child].ce_parent = image[p].ce_pid
      <4>1. image'[child] = ChildOf(im, child)
        BY <3>1, <3>3 DEF PoolTypeOK
      <4>2. ChildOf(im, child).ce_pid = child /\ ChildOf(im, child).ce_parent = im.ce_pid
        <5>1. im = [image[p] EXCEPT !.channel = [@ EXCEPT ![s] = Opened(p, k).pair],
                                    !.process_slot = s, !.started = TRUE]
          BY DEF OpensEntry
        <5> QED BY <2>0, <5>1 DEF ChildOf, Image
      <4> QED BY <2>0, <4>1, <4>2
    <3>6. born[p] # "lib_fork" => image[p].ce_pid = p
      BY <2>0 DEF IdsInv, PidsRight, Runs, PoolTypeOK
    <3> QED BY <2>0, <3>2, <3>3, <3>4, <3>5, <3>6 DEF IdsInv, PidsRight, Runs
  <2>3. ForkFails(p, s, im, Opened(p, k).table)
        \/ \E child \in Processes : StartForks(p, o, k, im, child)
    BY <1>3 DEF Start, spwan_process, StartForks
  <2> QED BY <2>1, <2>2, <2>3
<1>4. ASSUME NEW p \in Processes, NEW how \in {"exited", "crashed"}, Runs(p), Ends(p, how)
      PROVE  IdsInv'
  <2>1. /\ \A q \in Processes : state'[q] = "unused" <=> state[q] = "unused"
        /\ UNCHANGED <<born, parent, image>>
    <3>1. state' = [state EXCEPT ![p] = how] /\ UNCHANGED <<born, parent, image>>
      BY <1>4 DEF Ends
    <3> QED BY <1>4, <3>1 DEF PoolTypeOK, Runs
  <2> QED BY <2>1 DEF IdsInv, PidsRight
<1>5. ASSUME UNCHANGED <<state, born, parent>>,
             \A q \in Processes : image'[q].ce_pid = image[q].ce_pid
                                 /\ image'[q].ce_parent = image[q].ce_parent
      PROVE  IdsInv'
  BY <1>5 DEF IdsInv, PidsRight
<1>6. ASSUME NEW p \in Processes, Construct(p) PROVE IdsInv'
  <2> DEFINE o == constructed + 1
             s == image[p].process_slot
  <2>1. CASE s \notin Slots
    BY <1>4, <1>6, <2>1 DEF Construct
  <2>2. CASE s \in Slots
    <3>1. PICK u \in image[p].freed \union {o}, literal \in BOOLEAN :
            /\ image' = [image EXCEPT ![p] = TakesEntry(image[p], o, s, u, literal)]
            /\ UNCHANGED <<state, born, parent>>
      BY <1>6, <2>2 DEF Construct, Family
    <3>2. image[p] \in Image
      BY DEF PoolTypeOK
    <3>3. TakesEntry(image[p], o, s, u, literal).ce_pid = image[p].ce_pid
          /\ TakesEntry(image[p], o, s, u, literal).ce_parent = image[p].ce_parent
      BY <3>2 DEF TakesEntry, Image
    <3>4. \A q \in Processes :
            image'[q] = IF q = p THEN TakesEntry(image[p], o, s, u, literal) ELSE image[q]
      BY <3>1 DEF PoolTypeOK
    <3> QED BY <1>5, <3>1, <3>3, <3>4
  <2> QED BY <2>1, <2>2
<1>7. ASSUME NEW p \in Processes, Exit(p) PROVE IdsInv'
  BY <1>4, <1>7 DEF Exit
<1>8. ASSUME NEW p \in Processes, NEW o \in Objects, Write(p, o) \/ Read(p, o) PROVE IdsInv'
  BY <1>5, <1>8 DEF Write, Read, Family
<1>9. CASE UNCHANGED poolVars
  BY <1>5, <1>9 DEF poolVars
<1> QED BY <1>2, <1>3, <1>6, <1>7, <1>8, <1>9 DEF PoolNext, PoolStep

\* A worker forked by start has the id it believes to have, and knows by whom
\* it was forked unless that one was itself misled by lib_fork, which updates
\* neither ce_pid nor ce_parent.
THEOREM WorkersKnowThemselves == PoolSpec => []PidsRight
<1>1. PoolInit => IdsInv
  BY ProcessPoolAssumption DEF PoolInit, IdsInv, PidsRight, Loaded, Processes, Script
<1>2. PoolTypeOK /\ PoolTypeOK' /\ IdsInv /\ [PoolNext]_poolVars => IdsInv'
  BY IdsKept
<1>3. IdsInv => PidsRight
  BY DEF IdsInv
<1> QED BY <1>1, <1>2, <1>3, PoolTypesAlwaysOK, PTL DEF PoolSpec

-----------------------------------------------------------------------------
(* Shared memory, for any number of processes and mappings. *)

\* What is not made yet is nobody's.
MappingsMade ==
  \A m \in Mappings : made < m => value[m] = 0 /\ done[m] = 0 /\ sharers[m] = {}

ViewsMade ==
  \A p \in Processes : view[p].shm <= made /\ view[p].res <= made

\* A process has only what was once mapped into it.
MappedShared ==
  \A p \in Processes : \A m \in view[p].mapped : p \in sharers[m]

\* A process in the middle of an increment has the mapping.
LoadingShared ==
  \A p \in Processes :
    view[p].loaded # Idle => view[p].res \in Mappings /\ p \in sharers[view[p].res]

\* What it loaded was counted, and is what is there if nobody else can write.
LoadedCounted ==
  \A p \in Processes, m \in Mappings :
    view[p].loaded # Idle /\ view[p].res = m =>
      /\ view[p].loaded <= done[m]
      /\ Cardinality(sharers[m]) <= 1 => view[p].loaded = value[m]

SharInv ==
  /\ SharTypeOK
  /\ MappingsMade
  /\ ViewsMade
  /\ MappedShared
  /\ LoadingShared
  /\ LoadedCounted
  /\ AloneNothingLost

-----------------------------------------------------------------------------
LEMMA ProcessesFinite ==
  ASSUME NEW S \in SUBSET Processes
  PROVE  IsFiniteSet(S) /\ Cardinality(S) \in Nat
<1>1. IsFiniteSet(Processes)
  BY FS_Interval, ProcessPoolAssumption DEF Processes
<1> QED BY <1>1, FS_Subset, FS_CardinalityType

\* A set with at most one member has no two.
LEMMA AtMostOne ==
  ASSUME NEW S \in SUBSET Processes, Cardinality(S) <= 1, NEW p \in S, NEW q \in S
  PROVE  p = q
<1>1. IsFiniteSet(S) /\ IsFiniteSet(S \ {p}) /\ Cardinality(S) \in Nat
  BY ProcessesFinite
<1>2. Cardinality(S \ {p}) = Cardinality(S) - 1 /\ Cardinality(S \ {p}) \in Nat
  BY <1>1, FS_RemoveElement, FS_CardinalityType
<1>3. S \ {p} = {}
  BY <1>1, <1>2, FS_EmptySet
<1> QED BY <1>3

\* A mapping that gains a process had no more of them before.
LEMMA SharersGrow ==
  ASSUME NEW S \in SUBSET Processes, NEW c \in Processes, Cardinality(S \union {c}) <= 1
  PROVE  Cardinality(S) <= 1
<1>1. S \subseteq S \union {c} /\ IsFiniteSet(S \union {c})
  BY ProcessesFinite
<1>2. Cardinality(S) <= Cardinality(S \union {c})
  BY <1>1, FS_Subset
<1>3. Cardinality(S) \in Nat /\ Cardinality(S \union {c}) \in Nat
  BY ProcessesFinite
<1> QED BY <1>2, <1>3

\* The steps that leave memory alone.
LEMMA MemoryKept ==
  ASSUME SharInv, PoolTypeOK', UNCHANGED <<uses, memVars>>
  PROVE  SharInv'
<1>1. UNCHANGED <<view, value, made, done, sharers>>
  BY DEF memVars
<1>2. SharTypeOK'
  BY <1>1 DEF SharInv, SharTypeOK
<1>3. MappingsMade' /\ ViewsMade' /\ MappedShared' /\ LoadingShared'
  BY <1>1 DEF SharInv, MappingsMade, ViewsMade, MappedShared, LoadingShared
<1>4. LoadedCounted' /\ AloneNothingLost'
  BY <1>1 DEF SharInv, LoadedCounted, AloneNothingLost
<1> QED BY <1>2, <1>3, <1>4 DEF SharInv

LEMMA CrashKeeps ==
  ASSUME PoolInv, SharInv, NEW p \in Processes, Crash(p), UNCHANGED uses
  PROVE  PoolInv' /\ SharInv'
<1>1. PoolInv'
  BY EndsKeeps DEF Crash
<1> QED BY <1>1, MemoryKept DEF Crash, PoolInv

LEMMA PoolKept ==
  ASSUME PoolInv, UNCHANGED poolVars
  PROVE  PoolInv'
BY PoolNextInv

LEMMA ConstructShares ==
  ASSUME PoolInv, SharInv, NEW p \in Processes, Shm_construct(p), UNCHANGED uses
  PROVE  PoolInv' /\ SharInv'
<1> DEFINE m == made + 1
           v == Points(view[p], m)
<1>1. CASE Crash(p)
  BY <1>1, CrashKeeps
<1>2. CASE ~ Crash(p)
  <2>1. /\ m \in Mappings /\ made' = m
        /\ view' = [view EXCEPT ![p] = Points(@, m)]
        /\ value' = [value EXCEPT ![view'[p].res] = @ + 1]
        /\ done' = [done EXCEPT ![m] = @ + 1]
        /\ sharers' = [sharers EXCEPT ![m] = {p}]
        /\ UNCHANGED poolVars
        /\ view[p].loaded = Idle
    BY <1>2 DEF Shm_construct, Free
  <2>2. PoolInv'
    BY <2>1, PoolKept
  <2>3. /\ view[p] \in Views /\ made \in Nat /\ made < m /\ MaxMapping \in Nat
        /\ value[m] = 0 /\ done[m] = 0 /\ sharers[m] = {}
    BY <2>1, SharMemAssumption DEF SharInv, SharTypeOK, MappingsMade
  <2>4. /\ v \in Views
        /\ v.shm = m /\ v.res = m /\ v.loaded = Idle
        /\ v.mapped = view[p].mapped \union {m}
    <3>1. view[p].mapped \union {m} \in SUBSET Mappings /\ view[p].objects + 1 \in Nat
      BY <2>1, <2>3 DEF Views
    <3> QED BY <2>1, <2>3, <3>1 DEF Views, Points
  <2>5. \A q \in Processes : view'[q] = IF q = p THEN v ELSE view[q]
    BY <2>1 DEF SharInv, SharTypeOK
  <2>6. \A n \in Mappings :
          /\ value'[n] = IF n = m THEN 1 ELSE value[n]
          /\ done'[n] = IF n = m THEN 1 ELSE done[n]
          /\ sharers'[n] = IF n = m THEN {p} ELSE sharers[n]
    BY <2>1, <2>3, <2>4, <2>5 DEF SharInv, SharTypeOK
  <2> HIDE DEF v, m
  <2>7. SharTypeOK'
    <3>1. view' \in [Processes -> Views]
      BY <2>1, <2>4, <2>5 DEF SharInv, SharTypeOK, v
    <3>2. value' \in [Mappings -> Nat] /\ done' \in [Mappings -> Nat]
      BY <2>1, <2>3, <2>4, <2>5 DEF SharInv, SharTypeOK
    <3>3. sharers' \in [Mappings -> SUBSET Processes]
      BY <2>1 DEF SharInv, SharTypeOK
    <3>4. made' \in 0..MaxMapping
      BY <2>1, <2>3 DEF Mappings
    <3> QED BY <2>2, <3>1, <3>2, <3>3, <3>4 DEF SharInv, SharTypeOK, PoolInv
  <2>8. MappingsMade'
    BY <2>1, <2>3, <2>6 DEF SharInv, MappingsMade, Mappings
  <2>9. ViewsMade'
    <3>1. \A q \in Processes : view[q].shm \in Int /\ view[q].res \in Int
      BY DEF SharInv, SharTypeOK, Views, Mappings, NoMapping
    <3>2. m \in Int /\ made \in Int
      BY <2>1, <2>3 DEF Mappings
    <3> QED BY <2>1, <2>3, <2>4, <2>5, <3>1, <3>2 DEF SharInv, ViewsMade
  <2>10. MappedShared'
    <3>1. \A q \in Processes : view[q].mapped \in SUBSET Mappings
      BY DEF SharInv, SharTypeOK, Views
    <3>2. \A q \in Processes : m \notin view[q].mapped
      BY <2>3 DEF SharInv, MappedShared
    <3>3. ASSUME NEW q \in Processes, NEW n \in view'[q].mapped
          PROVE  q \in sharers'[n]
      <4>1. CASE n = m
        BY <2>1, <2>4, <2>5, <2>6, <3>2, <3>3, <4>1
      <4>2. CASE n # m
        <5>1. n \in view[q].mapped /\ n \in Mappings
          BY <2>4, <2>5, <3>1, <3>3, <4>2
        <5> QED BY <2>6, <4>2, <5>1 DEF SharInv, MappedShared
      <4> QED BY <4>1, <4>2
    <3> QED BY <3>3 DEF MappedShared
  <2>11. \A q \in Processes : view'[q].loaded # Idle =>
           q # p /\ view[q].loaded # Idle /\ view'[q].res = view[q].res
           /\ view[q].res \in Mappings /\ view[q].res # m
    BY <2>3, <2>4, <2>5 DEF SharInv, LoadingShared
  <2>12. LoadingShared'
    BY <2>6, <2>11 DEF SharInv, LoadingShared
  <2>13. LoadedCounted'
    BY <2>5, <2>6, <2>11 DEF SharInv, LoadedCounted
  <2>14. AloneNothingLost'
    BY <2>6 DEF SharInv, AloneNothingLost
  <2> QED BY <2>2, <2>7, <2>8, <2>9, <2>10, <2>12, <2>13, <2>14 DEF SharInv
<1> QED BY <1>1, <1>2

LEMMA DestructShares ==
  ASSUME PoolInv, SharInv, NEW p \in Processes, Shm_destruct(p), UNCHANGED uses
  PROVE  PoolInv' /\ SharInv'
<1> DEFINE v == Destroyed(view[p])
<1>1. /\ view[p].objects > 0 /\ view[p].loaded = Idle
      /\ view' = [view EXCEPT ![p] = v]
      /\ UNCHANGED <<poolVars, value, made, done, sharers>>
  BY DEF Shm_destruct, Free
<1>2. PoolInv'
  BY <1>1, PoolKept
<1>3. view[p] \in Views
  BY DEF SharInv, SharTypeOK
<1>4. /\ v \in Views /\ v.shm = view[p].shm /\ v.res = view[p].res /\ v.loaded = Idle
      /\ v.mapped \subseteq view[p].mapped
  <2> DEFINE w == shm_free(view[p])
  <2>1. /\ w \in Views /\ w.shm = view[p].shm /\ w.res = view[p].res /\ w.loaded = Idle
        /\ w.mapped \subseteq view[p].mapped /\ w.objects = view[p].objects
    BY <1>1, <1>3 DEF Views, shm_free
  <2>2. v = [w EXCEPT !.objects = @ - 1]
    BY DEF Destroyed
  <2> HIDE DEF w, v
  <2> QED BY <1>1, <1>3, <2>1, <2>2 DEF Views
<1>5. \A q \in Processes : view'[q] = IF q = p THEN v ELSE view[q]
  BY <1>1 DEF SharInv, SharTypeOK
<1> HIDE DEF v
<1>6. SharTypeOK'
  <2>1. view' \in [Processes -> Views]
    BY <1>1, <1>4 DEF SharInv, SharTypeOK
  <2> QED BY <1>1, <1>2, <2>1 DEF SharInv, SharTypeOK, PoolInv
<1>7. ViewsMade' /\ MappedShared'
  BY <1>1, <1>4, <1>5 DEF SharInv, ViewsMade, MappedShared
<1>8. LoadingShared' /\ LoadedCounted'
  BY <1>1, <1>4, <1>5 DEF SharInv, LoadingShared, LoadedCounted
<1>9. MappingsMade' /\ AloneNothingLost'
  BY <1>1 DEF SharInv, MappingsMade, AloneNothingLost
<1> QED BY <1>2, <1>6, <1>7, <1>8, <1>9 DEF SharInv

\* What is loaded is what was counted if nobody else has the mapping.
LEMMA LoadShares ==
  ASSUME PoolInv, SharInv, NEW p \in Processes, Incr_load(p), UNCHANGED uses
  PROVE  PoolInv' /\ SharInv'
<1> DEFINE m == view[p].res
           v == [view[p] EXCEPT !.loaded = value[m]]
<1>1. CASE Crash(p)
  BY <1>1, CrashKeeps
<1>2. CASE ~ Crash(p)
  <2>1. /\ m \in view[p].mapped
        /\ view' = [view EXCEPT ![p] = v]
        /\ UNCHANGED <<poolVars, value, made, done, sharers>>
    BY <1>2 DEF Incr_load
  <2>2. PoolInv'
    BY <2>1, PoolKept
  <2>3. view[p] \in Views /\ m \in Mappings /\ p \in sharers[m] /\ value[m] \in Nat
    BY <2>1 DEF SharInv, SharTypeOK, Views, MappedShared
  <2>4. /\ v \in Views /\ v.shm = view[p].shm /\ v.res = m /\ v.loaded = value[m]
        /\ v.mapped = view[p].mapped
    BY <2>3 DEF Views
  <2>5. \A q \in Processes : view'[q] = IF q = p THEN v ELSE view[q]
    BY <2>1 DEF SharInv, SharTypeOK
  <2>6. value[m] <= done[m] /\ (Cardinality(sharers[m]) <= 1 => value[m] = done[m])
    BY <2>3 DEF SharInv, AloneNothingLost
  <2> HIDE DEF v, m
  <2>7. SharTypeOK'
    <3>1. view' \in [Processes -> Views]
      BY <2>1, <2>4 DEF SharInv, SharTypeOK
    <3> QED BY <2>1, <2>2, <3>1 DEF SharInv, SharTypeOK, PoolInv
  <2>8. ViewsMade' /\ MappedShared'
    BY <2>1, <2>4, <2>5 DEF SharInv, ViewsMade, MappedShared, m
  <2>9. LoadingShared'
    BY <2>1, <2>3, <2>4, <2>5 DEF SharInv, LoadingShared
  <2>10. LoadedCounted'
    BY <2>1, <2>3, <2>4, <2>5, <2>6 DEF SharInv, LoadedCounted
  <2>11. MappingsMade' /\ AloneNothingLost'
    BY <2>1 DEF SharInv, MappingsMade, AloneNothingLost
  <2> QED BY <2>2, <2>7, <2>8, <2>9, <2>10, <2>11 DEF SharInv
<1> QED BY <1>1, <1>2

\* Stored over another process's increment, it is lost; alone, it is not.
LEMMA StoreShares ==
  ASSUME PoolInv, SharInv, NEW p \in Processes, Incr_store(p), UNCHANGED uses
  PROVE  PoolInv' /\ SharInv'
<1> DEFINE m == view[p].res
           n == view[p].loaded
           v == [view[p] EXCEPT !.loaded = Idle]
<1>1. /\ n # Idle
      /\ value' = [value EXCEPT ![m] = n + 1]
      /\ done' = [done EXCEPT ![m] = @ + 1]
      /\ view' = [view EXCEPT ![p] = v]
      /\ UNCHANGED <<poolVars, made, sharers>>
  BY DEF Incr_store
<1>2. PoolInv'
  BY <1>1, PoolKept
<1>3. view[p] \in Views /\ n \in Nat
  BY <1>1 DEF SharInv, SharTypeOK, Views
<1>4. m \in Mappings /\ p \in sharers[m]
  BY <1>1 DEF SharInv, LoadingShared
<1>5. v \in Views /\ v.shm = view[p].shm /\ v.res = m /\ v.loaded = Idle
      /\ v.mapped = view[p].mapped
  BY <1>3 DEF Views
<1>6. \A q \in Processes : view'[q] = IF q = p THEN v ELSE view[q]
  BY <1>1 DEF SharInv, SharTypeOK
<1>7. value[m] \in Nat /\ done[m] \in Nat /\ sharers[m] \in SUBSET Processes
  BY <1>4 DEF SharInv, SharTypeOK
<1>8. \A k \in Mappings :
        /\ value'[k] = IF k = m THEN n + 1 ELSE value[k]
        /\ done'[k] = IF k = m THEN done[m] + 1 ELSE done[k]
  BY <1>1, <1>4 DEF SharInv, SharTypeOK
<1>9. n <= done[m] /\ (Cardinality(sharers[m]) <= 1 => n = value[m] /\ n = done[m])
  BY <1>1, <1>4 DEF SharInv, LoadedCounted, AloneNothingLost
<1>10. sharers' = sharers /\ made' = made
  BY <1>1
<1> HIDE DEF v, m, n
<1>11. SharTypeOK'
  <2>1. view' \in [Processes -> Views]
    BY <1>1, <1>5 DEF SharInv, SharTypeOK
  <2>2. value' \in [Mappings -> Nat] /\ done' \in [Mappings -> Nat]
    BY <1>1, <1>3, <1>4, <1>7 DEF SharInv, SharTypeOK
  <2> QED BY <1>1, <1>2, <2>1, <2>2 DEF SharInv, SharTypeOK, PoolInv
<1>12. MappingsMade'
  BY <1>4, <1>8, <1>10 DEF SharInv, MappingsMade
<1>13. ViewsMade' /\ MappedShared'
  BY <1>5, <1>6, <1>10 DEF SharInv, ViewsMade, MappedShared, m
<1>14. LoadingShared'
  BY <1>5, <1>6, <1>10 DEF SharInv, LoadingShared
<1>15. LoadedCounted'
  <2> SUFFICES ASSUME NEW q \in Processes, NEW k \in Mappings,
                      view'[q].loaded # Idle, view'[q].res = k
               PROVE  /\ view'[q].loaded <= done'[k]
                      /\ Cardinality(sharers[k]) <= 1 => view'[q].loaded = value'[k]
    BY <1>10 DEF LoadedCounted
  <2>1. q # p /\ view'[q] = view[q]
    BY <1>5, <1>6
  <2>2. /\ view[q].loaded <= done[k]
        /\ Cardinality(sharers[k]) <= 1 => view[q].loaded = value[k]
        /\ q \in sharers[k] /\ view[q].loaded \in Nat
    BY <2>1 DEF SharInv, LoadedCounted, LoadingShared, SharTypeOK, Views
  <2>3. CASE k = m
    <3>1. ~ Cardinality(sharers[m]) <= 1
      BY <1>4, <1>7, <2>1, <2>2, <2>3, AtMostOne
    <3> QED BY <1>7, <1>8, <2>1, <2>2, <2>3, <3>1
  <2>4. CASE k # m
    BY <1>8, <2>1, <2>2, <2>4
  <2> QED BY <2>3, <2>4
<1>16. AloneNothingLost'
  <2> SUFFICES ASSUME NEW k \in Mappings
               PROVE  /\ value'[k] <= done'[k]
                      /\ Cardinality(sharers[k]) <= 1 => value'[k] = done'[k]
    BY <1>10 DEF AloneNothingLost
  <2>1. CASE k = m
    BY <1>3, <1>7, <1>8, <1>9, <2>1
  <2>2. CASE k # m
    BY <1>8, <2>2 DEF SharInv, AloneNothingLost
  <2> QED BY <2>1, <2>2
<1> QED BY <1>2, <1>11, <1>12, <1>13, <1>14, <1>15, <1>16 DEF SharInv

\* The child of a fork shares what its parent had mapped.
LEMMA ForkShares ==
  ASSUME PoolInv, SharInv, NEW p \in Processes, Shm_fork(p), UNCHANGED uses
  PROVE  PoolInv' /\ SharInv'
<1>1. PoolInv'
  BY lib_forkKeeps DEF Shm_fork
<1>2. PICK child \in Processes :
        /\ state'[child] # state[child]
        /\ view' = [view EXCEPT ![child] = view[p]]
        /\ sharers' = [m \in Mappings |->
             IF m \in view[p].mapped THEN sharers[m] \union {child} ELSE sharers[m]]
  BY DEF Shm_fork
<1>3. view[p].loaded = Idle /\ UNCHANGED <<value, made, done>>
  BY DEF Shm_fork, Free
<1>4. \A q \in Processes : view'[q] = IF q = child THEN view[p] ELSE view[q]
  BY <1>2 DEF SharInv, SharTypeOK
<1>5. \A m \in Mappings :
        /\ sharers'[m] = IF m \in view[p].mapped THEN sharers[m] \union {child}
                         ELSE sharers[m]
        /\ sharers[m] \in SUBSET Processes
        /\ Cardinality(sharers'[m]) <= 1 => Cardinality(sharers[m]) <= 1
  BY <1>2, SharersGrow DEF SharInv, SharTypeOK
<1>6. SharTypeOK'
  <2>1. view' \in [Processes -> Views]
    BY <1>2 DEF SharInv, SharTypeOK
  <2>2. sharers' \in [Mappings -> SUBSET Processes]
    BY <1>2 DEF SharInv, SharTypeOK
  <2> QED BY <1>1, <1>3, <2>1, <2>2 DEF SharInv, SharTypeOK, PoolInv
<1>7. MappingsMade'
  <2>1. \A m \in Mappings : made < m => m \notin view[p].mapped
    BY DEF SharInv, MappingsMade, MappedShared
  <2> QED BY <1>3, <1>5, <2>1 DEF SharInv, MappingsMade
<1>8. ViewsMade'
  BY <1>3, <1>4 DEF SharInv, ViewsMade
<1>9. MappedShared'
  <2>1. \A q \in Processes : view[q].mapped \in SUBSET Mappings
    BY DEF SharInv, SharTypeOK, Views
  <2> SUFFICES ASSUME NEW q \in Processes, NEW m \in view'[q].mapped
               PROVE  q \in sharers'[m]
    BY DEF MappedShared
  <2>2. CASE q = child
    BY <1>4, <1>5, <2>1, <2>2
  <2>3. CASE q # child
    BY <1>4, <1>5, <2>1, <2>3 DEF SharInv, MappedShared
  <2> QED BY <2>2, <2>3
<1>10. \A q \in Processes : view'[q].loaded # Idle => view'[q] = view[q]
  BY <1>3, <1>4
<1>11. LoadingShared'
  BY <1>5, <1>10 DEF SharInv, LoadingShared
<1>12. LoadedCounted'
  <2> SUFFICES ASSUME NEW q \in Processes, NEW m \in Mappings,
                      view'[q].loaded # Idle, view'[q].res = m
               PROVE  /\ view'[q].loaded <= done'[m]
                      /\ Cardinality(sharers'[m]) <= 1 => view'[q].loaded = value'[m]
    BY DEF LoadedCounted
  <2>1. view[q].loaded <= done[m]
        /\ (Cardinality(sharers[m]) <= 1 => view[q].loaded = value[m])
    BY <1>10 DEF SharInv, LoadedCounted
  <2> QED BY <1>3, <1>5, <1>10, <2>1
<1>13. AloneNothingLost'
  BY <1>3, <1>5 DEF SharInv, AloneNothingLost
<1> QED BY <1>1, <1>6, <1>7, <1>8, <1>9, <1>11, <1>12, <1>13 DEF SharInv

-----------------------------------------------------------------------------
(* The theorems. *)

LEMMA SharInitInv == SharInit => PoolInv /\ SharInv
<1> SUFFICES ASSUME SharInit PROVE PoolInv /\ SharInv
  OBVIOUS
<1>1. PoolInv
  BY PoolInitInv DEF SharInit
<1>2. /\ \A p \in Processes :
           /\ view[p].shm = NoMapping /\ view[p].res = NoMapping
           /\ view[p].mapped = {} /\ view[p].loaded = Idle
      /\ \A m \in Mappings : value[m] = 0 /\ done[m] = 0 /\ sharers[m] = {}
      /\ made = 0
  BY DEF SharInit
<1>3. SharTypeOK
  BY <1>1, SharMemAssumption DEF SharInit, SharTypeOK, Views, PoolInv, NoMapping, Idle
<1>4. MappingsMade /\ MappedShared /\ LoadingShared /\ LoadedCounted
  BY <1>2 DEF MappingsMade, MappedShared, LoadingShared, LoadedCounted
<1>5. ViewsMade /\ AloneNothingLost
  BY <1>2 DEF ViewsMade, AloneNothingLost, NoMapping
<1> QED BY <1>1, <1>3, <1>4, <1>5 DEF SharInv

LEMMA SharNextInv ==
  PoolInv /\ SharInv /\ [SharNext]_sharVars => PoolInv' /\ SharInv'
<1> SUFFICES ASSUME PoolInv, SharInv, [SharNext]_sharVars PROVE PoolInv' /\ SharInv'
  OBVIOUS
<1>1. ASSUME NEW p \in Processes, PoolStep(p), UNCHANGED <<uses, memVars>>
      PROVE  PoolInv' /\ SharInv'
  <2>1. PoolInv'
    BY <1>1, PoolNextInv DEF PoolNext
  <2> QED BY <1>1, <2>1, MemoryKept DEF PoolInv
<1>2. ASSUME NEW p \in Processes, MemoryStep(p), UNCHANGED uses
      PROVE  PoolInv' /\ SharInv'
  <2>1. CASE Shm_construct(p)
    BY <1>2, <2>1, ConstructShares
  <2>2. CASE Shm_destruct(p)
    BY <1>2, <2>2, DestructShares
  <2>3. CASE Incr_load(p)
    BY <1>2, <2>3, LoadShares
  <2>4. CASE Incr_store(p)
    BY <1>2, <2>4, StoreShares
  <2>5. CASE Shm_fork(p)
    BY <1>2, <2>5, ForkShares
  <2>6. CASE Free(p) /\ Exit(p) /\ UNCHANGED memVars
    <3>1. PoolInv'
      BY <2>6, EndsKeeps DEF Exit
    <3> QED BY <1>2, <2>6, <3>1, MemoryKept DEF PoolInv
  <2> QED BY <1>2, <2>1, <2>2, <2>3, <2>4, <2>5, <2>6 DEF MemoryStep
<1>3. CASE UNCHANGED sharVars
  <2>1. PoolInv' /\ UNCHANGED <<uses, memVars>>
    BY <1>3, PoolKept DEF sharVars
  <2> QED BY <2>1, MemoryKept DEF PoolInv
<1> QED BY <1>1, <1>2, <1>3 DEF SharNext

LEMMA SharAlways == SharSpec => [](PoolInv /\ SharInv)
<1> QED BY SharInitInv, SharNextInv, PTL DEF SharSpec

\* Types, of the processes and of the memory they share.
THEOREM SharTypesAlwaysOK == SharSpec => []SharTypeOK
<1>1. SharInv => SharTypeOK
  BY DEF SharInv
<1> QED BY <1>1, SharAlways, PTL

\* The unlocked increment loses counts between processes only: on a mapping
\* one process alone ever had, every increment is there, though objects share
\* two globals and any of them unmaps the newest.
THEOREM CountsLostBetweenProcessesOnly == SharSpec => []AloneNothingLost
<1>1. SharInv => AloneNothingLost
  BY DEF SharInv
<1> QED BY <1>1, SharAlways, PTL
=============================================================================
