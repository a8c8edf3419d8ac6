----------------------------- MODULE TimerProofs -----------------------------
(***************************************************************************)
(* Proofs about Lib\Timer and sleep, for any number of milliseconds in a  *)
(* second, any width of an int, any delays, below 0 too, and any number of *)
(* timers.                                                                 *)
(*                                                                         *)
(* A TimeEvent's two fields are read as one number, Key: that carrying and *)
(* borrowing by hand keep it right is what the proofs about time rest on.  *)
(* The code compares the fields one after the other; of milliseconds below *)
(* 0 that is not the order of their numbers, but near enough to it.        *)
(* The walk is proved to leave nobody out by what is still ahead of it.    *)
(***************************************************************************)
EXTENDS Timer, Minimum

Key(when) == Second * when.when_sec + when.when_ms

\* What TypeOK says, and that the walk is at a timer in the list.
Typed ==
  /\ TypeOK
  /\ timeHead \in [Armed -> Events]
  /\ Second <= clock
  /\ pc = "walk" => te \in Armed \union {Null}
  /\ pc = "callback" => te # Null
  /\ pc \in {"walk", "callback"} => maxId < timeNextId

\* A timer's fields say when it was asked for, less what a sleeper loses, or
\* lie in the past once the clock was set back and Reset took its seconds.
KeysRight ==
  \A i \in Armed : PeriodFits(timeHead[i]) =>
    /\ Key(timeHead[i]) <= timeHead[i].due \/ Key(timeHead[i]) < Second
    /\ skews = 0 => Key(timeHead[i]) = timeHead[i].due - Lost(timeHead[i])

LastTimePast == skews = 0 => lastTime <= clock \div Second

\* The timers this walk owes are due, were there when it began, and are ahead
\* of it, or behind where it will start over.
OwedAhead ==
  /\ pc \in {"walk", "callback"} =>
       \A i \in owed : i <= maxId /\ (i \in Armed => Due(timeHead[i]))
  /\ pc = "walk" => \A i \in owed \intersect Armed : te # Null /\ i <= te
  /\ pc = "callback" => te \notin owed

TimerInv == Typed /\ KeysRight /\ LastTimePast /\ OwedAhead

-----------------------------------------------------------------------------
(* Arithmetic. *)

LEMMA DivMod ==
  ASSUME NEW s \in Nat \ {0}, NEW a \in Nat
  PROVE  /\ a \div s \in Nat /\ a % s \in 0..(s - 1)
         /\ a = s * (a \div s) + (a % s)
OBVIOUS

LEMMA AtLeastOne ==
  ASSUME NEW s \in Nat \ {0}, NEW a \in Nat, s <= a
  PROVE  a \div s >= 1
OBVIOUS

LEMMA DivGrows ==
  ASSUME NEW s \in Nat \ {0}, NEW a \in Nat, NEW b \in Nat, a <= b
  PROVE  a \div s <= b \div s
OBVIOUS

LEMMA DelaysAreInts ==
  \A ms \in TickDelays \union AfterDelays \union SleepTimes : ms \in Int
<1>1. \A ms \in TickDelays \union AfterDelays : ms \in Int
  BY TimerAssumption
<1>2. \A ms \in SleepTimes : ms \in Int
  <2>1. \A ms \in SleepTimes : ms \in Nat \ {0}
    BY TimerAssumption
  <2> QED BY <2>1
<1> QED BY <1>1, <1>2

LEMMA KeyType ==
  ASSUME NEW a \in Events
  PROVE  /\ Key(a) \in Int /\ Key(a) = Second * a.when_sec + a.when_ms
         /\ a.when_sec \in Int /\ a.when_ms \in -(Second - 1)..(Second - 1)
         /\ a.due \in Int /\ a.proc \in Procs /\ a.data \in Int
<1>1. Second \in Nat /\ a.when_sec \in Int /\ a.when_ms \in -(Second - 1)..(Second - 1)
  BY TimerAssumption DEF Events
<1>2. a.due \in Int /\ a.proc \in Procs /\ a.data \in Int
  <2>1. a.due \in Int /\ a.proc \in Procs /\ a.data \in TickDelays \union AfterDelays \union SleepTimes
    BY DEF Events
  <2> QED BY <2>1, DelaysAreInts
<1>3. Second * a.when_sec \in Int /\ a.when_ms \in Int
  BY <1>1
<1> QED BY <1>1, <1>2, <1>3 DEF Key

LEMMA Monotone ==
  ASSUME NEW s \in Nat, NEW x \in Int, NEW y \in Int, x < y
  PROVE  s * x + s <= s * y
<1>1. s * (y - x) >= s
  OBVIOUS
<1>2. s * (y - x) = s * y - s * x
  OBVIOUS
<1> QED BY <1>1, <1>2

\* What is due by its fields is due by its number.
LEMMA DueByKey ==
  ASSUME NEW a \in Events, NEW now \in Nat,
         \/ now \div Second > a.when_sec
         \/ now \div Second = a.when_sec /\ now % Second >= a.when_ms
  PROVE  Key(a) <= now
<1> DEFINE c == now \div Second
           r == now % Second
<1>1. /\ Second \in Nat \ {0} /\ c \in Nat /\ r \in 0..(Second - 1)
      /\ now = Second * c + r
  BY TimerAssumption, DivMod
<1>2. /\ a.when_sec \in Int /\ a.when_ms \in -(Second - 1)..(Second - 1)
      /\ Key(a) = Second * a.when_sec + a.when_ms
  BY KeyType
<1>3. a.when_sec < c \/ (a.when_sec = c /\ a.when_ms <= r)
  BY <1>1, <1>2
<1>4. a.when_sec < c => Second * a.when_sec + Second <= Second * c
  BY <1>1, <1>2, Monotone
<1>5. Second * a.when_sec \in Int /\ Second * c \in Int
  BY <1>1, <1>2
<1> HIDE DEF c, r
<1>6. CASE a.when_sec < c
  BY <1>1, <1>2, <1>4, <1>5, <1>6
<1>7. CASE a.when_sec = c /\ a.when_ms <= r
  <2>1. Key(a) = Second * c + a.when_ms
    BY <1>2, <1>7
  <2> QED BY <1>1, <1>2, <1>5, <1>7, <2>1
<1> QED BY <1>3, <1>6, <1>7

\* And stays due as time goes on.
LEMMA DueStays ==
  ASSUME NEW sec \in Int, NEW ms \in Int, NEW now \in Nat, NEW later \in Nat, now <= later,
         \/ now \div Second > sec
         \/ now \div Second = sec /\ now % Second >= ms
  PROVE  \/ later \div Second > sec
         \/ later \div Second = sec /\ later % Second >= ms
<1>1. /\ now \div Second \in Nat /\ later \div Second \in Nat
      /\ now % Second \in Nat /\ later % Second \in Nat
      /\ now = Second * (now \div Second) + (now % Second)
      /\ later = Second * (later \div Second) + (later % Second)
  BY TimerAssumption, DivMod
<1>2. now \div Second <= later \div Second
  BY TimerAssumption, DivGrows
<1>3. now \div Second = later \div Second => now % Second <= later % Second
  <2> DEFINE c == now \div Second
             k == Second * c
  <2> SUFFICES ASSUME c = later \div Second PROVE now % Second <= later % Second
    OBVIOUS
  <2>1. k \in Int /\ now = k + (now % Second) /\ later = k + (later % Second)
    BY <1>1, TimerAssumption
  <2> HIDE DEF k
  <2> QED BY <1>1, <2>1
<1> QED BY <1>1, <1>2, <1>3

\* C's division and remainder.
LEMMA QuotientRemainder ==
  ASSUME NEW ms \in Int
  PROVE  /\ quotient(ms) \in Int /\ remainder(ms) \in -(Second - 1)..(Second - 1)
         /\ ms = Second * quotient(ms) + remainder(ms)
<1>1. Second \in Nat \ {0}
  BY TimerAssumption
<1>2. CASE ms >= 0
  <2>1. ms \div Second \in Nat /\ ms % Second \in 0..(Second - 1)
        /\ ms = Second * (ms \div Second) + (ms % Second)
    <3> DEFINE s == Second
    <3>1. s \in Nat \ {0} /\ ms \in Nat
      BY <1>1, <1>2
    <3> HIDE DEF s
    <3>2. /\ ms \div s \in Nat /\ ms % s \in 0..(s - 1)
          /\ ms = s * (ms \div s) + (ms % s)
      BY <3>1, DivMod
    <3> QED BY <3>1, <3>2 DEF s
  <2>2. quotient(ms) = ms \div Second
    BY <1>2 DEF quotient
  <2>3. Second * quotient(ms) \in Int /\ remainder(ms) = ms - Second * quotient(ms)
    BY <1>1, <2>1, <2>2 DEF remainder
  <2> QED BY <1>1, <2>1, <2>2, <2>3
<1>3. CASE ~ (ms >= 0)
  <2>1. -ms \in Nat
    BY <1>3
  <2>2. (-ms) \div Second \in Nat /\ (-ms) % Second \in 0..(Second - 1)
        /\ -ms = Second * ((-ms) \div Second) + ((-ms) % Second)
    BY <1>1, <2>1, DivMod
  <2>3. quotient(ms) = -((-ms) \div Second)
    BY <1>3 DEF quotient
  <2>4. Second * quotient(ms) = -(Second * ((-ms) \div Second))
    BY <1>1, <2>2, <2>3
  <2>5. remainder(ms) = ms - Second * quotient(ms) /\ Second * ((-ms) \div Second) \in Int
    BY <1>1, <2>2 DEF remainder
  <2>6. remainder(ms) = -((-ms) % Second)
    BY <2>2, <2>4, <2>5
  <2> QED BY <1>1, <2>2, <2>3, <2>4, <2>5, <2>6
<1> QED BY <1>2, <1>3

\* add_milliseconds_tonow carries once, which is enough.
LEMMA ArmedFor ==
  ASSUME NEW ms \in Int, NEW name \in Procs,
         NEW data \in TickDelays \union AfterDelays \union SleepTimes, clock \in Nat
  PROVE  /\ TimeEvent(name, ms, data) \in Events
         /\ Key(TimeEvent(name, ms, data)) = clock + ms
         /\ TimeEvent(name, ms, data).due = clock + data
         /\ TimeEvent(name, ms, data).proc = name
         /\ TimeEvent(name, ms, data).data = data
<1> DEFINE c == clock \div Second
           r == clock % Second
           d == quotient(ms)
           q == remainder(ms)
           when == add_milliseconds_tonow(ms)
<1>1. Second \in Nat \ {0} /\ data \in Int
  BY TimerAssumption
<1>2. /\ c \in Nat /\ r \in 0..(Second - 1) /\ clock = Second * c + r
      /\ d \in Int /\ q \in -(Second - 1)..(Second - 1) /\ ms = Second * d + q
  BY <1>1, DivMod, QuotientRemainder
<1>3. when = IF r + q >= Second THEN [sec |-> c + d + 1, ms |-> r + q - Second]
                                ELSE [sec |-> c + d, ms |-> r + q]
  BY <1>1, <1>2 DEF add_milliseconds_tonow
<1> HIDE DEF c, r, d, q, when
<1>4. /\ when.sec \in Int /\ when.ms \in -(Second - 1)..(Second - 1)
      /\ Second * when.sec + when.ms = clock + ms
  <2>1. CASE r + q >= Second
    <3>1. Second * (c + d + 1) = Second * c + Second * d + Second
      BY <1>1, <1>2
    <3> QED BY <1>1, <1>2, <1>3, <2>1, <3>1
  <2>2. CASE ~ (r + q >= Second)
    <3>1. Second * (c + d) = Second * c + Second * d
      BY <1>1, <1>2
    <3> QED BY <1>1, <1>2, <1>3, <2>2, <3>1
  <2> QED BY <2>1, <2>2
<1>5. TimeEvent(name, ms, data) =
        [when_sec |-> when.sec, when_ms |-> when.ms, proc |-> name, data |-> data,
         due |-> clock + data]
  BY DEF TimeEvent, when
<1> QED BY <1>1, <1>4, <1>5 DEF Events, Key

\* What fits an int is not changed by becoming one.
LEMMA IntsFit ==
  /\ \A n \in Int : toint(n) \in Ints
  /\ \A n \in Ints : toint(n) = n
<1>0. HalfInt \in Nat /\ HalfInt > 0
  BY TimerAssumption
<1>1. ASSUME NEW n \in Int PROVE toint(n) \in Ints
  <2> DEFINE w == 2 * HalfInt
  <2>1. w \in Nat \ {0} /\ n + HalfInt \in Int
    BY <1>0
  <2> HIDE DEF w
  <2>2. (n + HalfInt) % w \in 0..(w - 1)
    BY <2>1
  <2> USE DEF w
  <2>3. (n + HalfInt) % (2 * HalfInt) \in 0..(2 * HalfInt - 1)
    BY <2>2
  <2> QED BY <1>0, <2>3 DEF toint, Ints
<1>2. ASSUME NEW n \in Ints PROVE toint(n) = n
  <2> DEFINE w == 2 * HalfInt
             k == n + HalfInt
  <2>1. w \in Nat \ {0} /\ k \in 0..(w - 1) /\ n \in Int
    BY <1>0 DEF Ints
  <2> HIDE DEF w, k
  <2>2. k % w = k
    BY <2>1
  <2> USE DEF w, k
  <2>3. (n + HalfInt) % (2 * HalfInt) = n + HalfInt
    BY <2>2
  <2> QED BY <1>0, <2>1, <2>3 DEF toint
<1> QED BY <1>1, <1>2

-----------------------------------------------------------------------------
(* The list. *)

LEMMA Greatest ==
  ASSUME NEW n \in Nat, NEW S \in SUBSET (0..n), S # {}
  PROVE  \E i \in S : \A j \in S : j <= i
<1> DEFINE T == {k \in 0..n : n - k \in S}
<1>1. PICK i \in S : TRUE
  OBVIOUS
<1>2. n - i \in T /\ T \in SUBSET Nat
  OBVIOUS
<1>3. Min(T) \in T /\ \A k \in T : Min(T) <= k
  BY <1>2, MinIsLeast
<1>4. n - Min(T) \in S
  BY <1>3
<1>5. \A j \in S : j <= n - Min(T)
  <2> SUFFICES ASSUME NEW j \in S PROVE j <= n - Min(T)
    OBVIOUS
  <2>1. n - j \in T /\ j \in Int /\ Min(T) \in Int
    BY <1>3
  <2>2. Min(T) <= n - j
    BY <1>3, <2>1
  <2> QED BY <2>1, <2>2
<1> QED BY <1>4, <1>5

\* First answers the greatest id, the newest timer.
LEMMA FirstIsGreatest ==
  ASSUME NEW ids \in SUBSET Ids
  PROVE  /\ First(ids) \in ids \union {Null}
         /\ \A i \in ids : First(ids) # Null /\ i <= First(ids)
<1>1. CASE ids = {}
  BY <1>1 DEF First
<1>2. CASE ids # {}
  <2>1. PICK j \in ids : TRUE
    BY <1>2
  <2>2. MaxTimers - 1 \in Nat /\ ids \in SUBSET (0..(MaxTimers - 1))
    BY <2>1, TimerAssumption DEF Ids
  <2>3. \E i \in ids : \A k \in ids : k <= i
    BY <1>2, <2>2, Greatest
  <2>4. First(ids) \in ids /\ \A k \in ids : k <= First(ids)
    BY <1>2, <2>3 DEF First
  <2>5. Null \notin ids
    BY <2>2 DEF Null
  <2> QED BY <2>4, <2>5
<1> QED BY <1>1, <1>2

\* Of the timers up to some id, one is no later than the others.
LEMMA OneIsFirst ==
  ASSUME NEW f, NEW n \in Nat, NEW S \in SUBSET (0..n), S # {},
         \A i \in S : f[i] \in Events
  PROVE  \E a \in S : \A b \in S : ~ Earlier(f[b], f[a])
<1> DEFINE Upto(m) == S \intersect (0..m)
           Has(m) == Upto(m) # {} =>
                       \E a \in Upto(m) : \A b \in Upto(m) : ~ Earlier(f[b], f[a])
           Lacks == {m \in Nat : ~ Has(m)}
<1>0. ASSUME NEW x \in Events, NEW y \in Events, NEW z \in Events,
             ~ Earlier(y, x), ~ Earlier(z, y)
      PROVE  ~ Earlier(z, x)
  <2>1. /\ x.when_sec \in Int /\ y.when_sec \in Int /\ z.when_sec \in Int
        /\ x.when_ms \in Int /\ y.when_ms \in Int /\ z.when_ms \in Int
    BY KeyType, TimerAssumption
  <2> QED BY <1>0, <2>1 DEF Earlier
<1>a. ASSUME NEW x \in Events, NEW y \in Events
      PROVE  ~ Earlier(x, x) /\ (~ Earlier(x, y) \/ ~ Earlier(y, x))
  <2>1. /\ x.when_sec \in Int /\ y.when_sec \in Int
        /\ x.when_ms \in Int /\ y.when_ms \in Int
    BY KeyType, TimerAssumption
  <2> QED BY <2>1 DEF Earlier
<1>1. Has(0)
  <2> SUFFICES ASSUME Upto(0) # {}
               PROVE  \E a \in Upto(0) : \A b \in Upto(0) : ~ Earlier(f[b], f[a])
    OBVIOUS
  <2>1. 0 \in S /\ \A b \in Upto(0) : b = 0
    OBVIOUS
  <2> QED BY <2>1, <1>a
<1>2. ASSUME NEW m \in Nat, Has(m) PROVE Has(m + 1)
  <2>1. CASE m + 1 \notin S
    <3>1. Upto(m + 1) = Upto(m)
      BY <2>1
    <3> QED BY <1>2, <3>1
  <2>2. CASE m + 1 \in S
    <3>0. /\ m + 1 \in Upto(m + 1) /\ \A b \in Upto(m + 1) : b \in Upto(m) \/ b = m + 1
          /\ \A b \in Upto(m) : b \in Upto(m + 1) /\ b \in S
      BY <2>2
    <3> HIDE DEF Upto
    <3>1. CASE Upto(m) = {}
      BY <1>a, <2>2, <3>0, <3>1
    <3>2. CASE Upto(m) # {}
      <4>1. PICK a \in Upto(m) : \A b \in Upto(m) : ~ Earlier(f[b], f[a])
        BY <1>2, <3>2
      <4>2. f[a] \in Events /\ f[m + 1] \in Events
        BY <2>2, <3>0, <4>1
      <4>3. CASE ~ Earlier(f[m + 1], f[a])
        BY <3>0, <4>1, <4>3
      <4>4. CASE Earlier(f[m + 1], f[a])
        <5>1. ~ Earlier(f[a], f[m + 1])
          BY <1>a, <4>2, <4>4
        <5>2. \A b \in Upto(m) : ~ Earlier(f[b], f[m + 1])
          BY <1>0, <3>0, <4>1, <4>2, <5>1
        <5> QED BY <1>a, <3>0, <4>2, <5>2
      <4> QED BY <4>3, <4>4
    <3> QED BY <3>1, <3>2
  <2> QED BY <2>1, <2>2
<1> HIDE DEF Has
<1>3. Lacks = {}
  <2> SUFFICES ASSUME Lacks # {} PROVE FALSE
    OBVIOUS
  <2>1. Min(Lacks) \in Lacks /\ \A y \in Lacks : Min(Lacks) <= y
    BY MinIsLeast
  <2>2. Min(Lacks) \in Nat /\ ~ Has(Min(Lacks)) /\ Min(Lacks) # 0
    BY <1>1, <2>1
  <2>3. Min(Lacks) - 1 \in Nat /\ Min(Lacks) - 1 \notin Lacks
    BY <2>1, <2>2
  <2>4. Has(Min(Lacks) - 1)
    BY <2>3
  <2>5. Has((Min(Lacks) - 1) + 1) /\ (Min(Lacks) - 1) + 1 = Min(Lacks)
    BY <1>2, <2>2, <2>3, <2>4
  <2> QED BY <2>2, <2>5
<1>4. Has(n) /\ Upto(n) = S
  BY <1>3
<1> QED BY <1>4 DEF Has

\* The search for the nearest timer finds one that no other is before.
LEMMA NearestIsLeast ==
  ASSUME \A i \in Armed : timeHead[i] \in Events, Armed \in SUBSET Ids, Armed # {}
  PROVE  nearest \in Armed /\ \A i \in Armed : ~ Earlier(timeHead[i], timeHead[nearest])
<1>1. MaxTimers - 1 \in Nat /\ Armed \in SUBSET (0..(MaxTimers - 1))
  <2>1. PICK i \in Armed : i \in 0..(MaxTimers - 1)
    BY DEF Ids
  <2> QED BY <2>1, TimerAssumption DEF Ids
<1>2. \E a \in Armed : \A b \in Armed : ~ Earlier(timeHead[b], timeHead[a])
  BY <1>1, OneIsFirst
<1> QED BY <1>2 DEF nearest

\* How long epoll_wait may sleep, before that becomes an int: less than a
\* second past any timer.
LEMMA SearchBounds ==
  ASSUME \A i \in Armed : timeHead[i] \in Events, Armed \in SUBSET Ids, clock \in Nat,
         NEW i \in Armed
  PROVE  /\ nearest_time \in Nat
         /\ \/ nearest_time < Second
            \/ nearest_time < Second + Key(timeHead[i]) - clock
<1> DEFINE c == clock \div Second
           r == clock % Second
           sa == timeHead[nearest].when_sec
           ma == timeHead[nearest].when_ms
           si == timeHead[i].when_sec
           mi == timeHead[i].when_ms
           borrow == IF ma < r THEN 1 ELSE 0
           sec == sa - c - borrow
           ms == ma + borrow * Second - r
<1>1. /\ Second \in Nat \ {0} /\ c \in Nat /\ r \in 0..(Second - 1)
      /\ clock = Second * c + r
  BY TimerAssumption, DivMod
<1>2. nearest \in Armed /\ ~ Earlier(timeHead[i], timeHead[nearest])
  BY NearestIsLeast
<1>3. /\ sa \in Int /\ ma \in -(Second - 1)..(Second - 1)
      /\ si \in Int /\ mi \in -(Second - 1)..(Second - 1)
      /\ Key(timeHead[i]) = Second * si + mi
  BY <1>2, KeyType
<1>4. sa < si \/ (sa = si /\ ma <= mi)
  BY <1>2, <1>3 DEF Earlier
<1>5. nearest_time = (IF sec < 0 THEN 0 ELSE sec) * Second + (IF ms < 0 THEN 0 ELSE ms)
  BY DEF nearest_time, cut
<1> HIDE DEF c, r, sa, ma, si, mi
<1>6. /\ borrow \in {0, 1} /\ ms \in -(Second - 1)..(Second - 1) /\ sec \in Int
      /\ ms < 0 => borrow = 1 /\ ma < 0
  BY <1>1, <1>3
<1>7. /\ Second * sec = Second * sa - Second * c - Second * borrow
      /\ Second * borrow = borrow * Second
  BY <1>1, <1>3, <1>6
<1>8. sa < si => Second * sa + Second <= Second * si
  BY <1>1, <1>3, Monotone
<1>9. /\ Second * sa \in Int /\ Second * si \in Int /\ Second * c \in Int
      /\ borrow * Second = IF borrow = 1 THEN Second ELSE 0
  BY <1>1, <1>3, <1>6
<1>10. CASE sec < 0
  <2>1. nearest_time = IF ms < 0 THEN 0 ELSE ms
    BY <1>1, <1>5, <1>6, <1>10
  <2> QED BY <1>1, <1>6, <2>1
<1>11. CASE ~ (sec < 0) /\ ms < 0
  <2>1. nearest_time = Second * sec /\ Second * sec \in Nat
    BY <1>1, <1>5, <1>6, <1>11
  <2>2. Second * sec = Second * sa - Second * c - Second
    BY <1>1, <1>6, <1>7, <1>9, <1>11
  <2> QED BY <1>1, <1>3, <1>4, <1>8, <1>9, <1>11, <2>1, <2>2
<1>12. CASE ~ (sec < 0) /\ ~ (ms < 0)
  <2>1. nearest_time = Second * sec + ms /\ Second * sec \in Nat
    BY <1>1, <1>5, <1>6, <1>12
  <2>2. nearest_time = Second * sa - Second * c + ma - r
    <3> HIDE DEF sec
    <3> QED BY <1>1, <1>3, <1>6, <1>7, <1>9, <2>1
  <2>3. nearest_time \in Nat
    BY <1>6, <1>12, <2>1
  <2> QED BY <1>1, <1>3, <1>4, <1>8, <1>9, <2>2, <2>3
<1> QED BY <1>10, <1>11, <1>12

LEMMA TimeoutIsInt ==
  ASSUME \A i \in Armed : timeHead[i] \in Events, Armed \in SUBSET Ids, clock \in Nat
  PROVE  search_nearest_time \in Ints
<1>1. CASE Armed = {}
  BY <1>1, TimerAssumption DEF search_nearest_time, Ints
<1>2. CASE Armed # {}
  <2>1. nearest_time \in Int
    BY <1>2, SearchBounds
  <2> QED BY <1>2, <2>1, IntsFit DEF search_nearest_time
<1> QED BY <1>1, <1>2

-----------------------------------------------------------------------------
(* The steps. *)

LEMMA Types ==
  ASSUME Typed
  PROVE  /\ clock \in Nat /\ clock <= MaxClock /\ MaxClock \in Nat
         /\ Second \in Nat \ {0} /\ timeNextId \in Nat /\ timeNextId <= MaxTimers
         /\ MaxTimers \in Nat
         /\ Armed \in SUBSET (0..(timeNextId - 1)) /\ Armed \in SUBSET Ids
         /\ \A i \in Armed : timeHead[i] \in Events /\ i \in Nat /\ i < timeNextId
         /\ te \in Int /\ maxId \in Int /\ timeout \in Ints
<1>1. /\ clock \in 0..MaxClock /\ timeNextId \in 0..MaxTimers
      /\ Armed \in SUBSET (0..(timeNextId - 1))
      /\ te \in Ids \union {Null} /\ maxId \in Ids \union {Null} /\ timeout \in Ints
  BY DEF Typed, TypeOK
<1>2. \A i \in Armed : timeHead[i] \in Events
  BY DEF Typed
<1> QED BY <1>1, <1>2, TimerAssumption DEF Ids, Null

LEMMA TimerInitInv == Init => TimerInv
<1> SUFFICES ASSUME Init PROVE TimerInv
  OBVIOUS
<1>1. Armed = {} /\ timeHead = << >>
  BY DEF Init, Armed
<1>2. TypeOK
  BY <1>1, TimerAssumption DEF Init, TypeOK, Null, Ints
<1>3. Typed
  BY <1>1, <1>2, TimerAssumption DEF Init, Typed
<1>4. LastTimePast
  <2>1. clock \div Second \in Nat
    BY <1>3, Types, DivMod
  <2> QED BY <2>1 DEF Init, LastTimePast
<1> QED BY <1>1, <1>3, <1>4 DEF Init, TimerInv, KeysRight, OwedAhead

LEMMA CreateKeeps ==
  ASSUME TimerInv, NEW ms \in Int, NEW name \in Procs,
         NEW data \in TickDelays \union AfterDelays \union SleepTimes,
         \/ name # "sleep_call" /\ ms = data
         \/ name = "sleep_call" /\ ms = data \div Second /\ ms <= data,
         create_time_event(name, ms, data)
  PROVE  TimerInv'
<1> DEFINE id == timeNextId
           event == TimeEvent(name, ms, data)
<1>0. /\ pc \in {"script", "callback"} /\ id < MaxTimers /\ timeNextId' = id + 1
      /\ timeHead' = [i \in Armed \union {id} |-> IF i = id THEN event ELSE timeHead[i]]
      /\ UNCHANGED <<clock, pc, timeout, skews, te, maxId, proc, lastTime, owed, fault>>
  BY DEF create_time_event, Script, walkVars
<1>a. Typed
  BY DEF TimerInv
<1>1. /\ event \in Events /\ Key(event) = clock + ms /\ event.due = clock + data
      /\ event.proc = name /\ event.data = data /\ data \in Int
  BY <1>a, Types, ArmedFor, TimerAssumption
<1> HIDE DEF event
<1>2. /\ Armed' = Armed \union {id} /\ id \notin Armed
      /\ timeHead'[id] = event
      /\ \A i \in Armed : timeHead'[i] = timeHead[i]
  BY <1>0, <1>a, Types DEF Armed
<1>3. Typed'
  <2>1. \A i \in Armed' : timeHead'[i] \in Events
    BY <1>1, <1>2, <1>a, Types
  <2>2. Armed' \in SUBSET (0..(timeNextId' - 1))
    BY <1>0, <1>2, <1>a, Types
  <2>3. timeHead' \in [Armed' -> Events]
    BY <1>0, <1>2, <2>1
  <2>4. TypeOK'
    <3>1. timeNextId' \in 0..MaxTimers /\ TypeOK
      BY <1>0, <1>a, Types, TimerAssumption DEF Typed, TypeOK
    <3> QED BY <1>0, <2>1, <2>2, <3>1 DEF TypeOK
  <2>5. pc \in {"walk", "callback"} => maxId < timeNextId'
    BY <1>0, <1>a, Types DEF Typed
  <2> QED BY <1>0, <1>a, <2>3, <2>4, <2>5 DEF Typed
<1>4. KeysRight'
  <2> SUFFICES ASSUME NEW i \in Armed', PeriodFits(timeHead'[i])
               PROVE  /\ Key(timeHead'[i]) <= timeHead'[i].due \/ Key(timeHead'[i]) < Second
                      /\ skews = 0 =>
                           Key(timeHead'[i]) = timeHead'[i].due - Lost(timeHead'[i])
    BY <1>0 DEF KeysRight, Key, Lost, PeriodFits, Ints
  <2>1. CASE i = id
    <3>1. timeHead'[i] = event /\ clock \in Nat
      BY <1>2, <1>a, <2>1, Types
    <3>2. Lost(event) = data - ms /\ ms <= data
      BY <1>1 DEF Lost
    <3> QED BY <1>1, <3>1, <3>2
  <2>2. CASE i # id
    BY <1>2, <2>2 DEF TimerInv, KeysRight
  <2> QED BY <2>1, <2>2
<1>5. LastTimePast'
  BY <1>0 DEF TimerInv, LastTimePast
<1>6. OwedAhead'
  <2>1. \A i \in Armed : Due(timeHead[i])' <=> Due(timeHead[i])
    BY <1>0, <1>2 DEF Due
  <2>2. pc = "callback" => maxId < id
    BY <1>a DEF Typed
  <2>3. pc # "walk" /\ pc' = pc /\ owed' = owed /\ te' = te /\ maxId' = maxId
    BY <1>0
  <2>4. pc = "callback" => \A i \in owed : i # id
    BY <2>2, <1>a, Types DEF TimerInv, OwedAhead
  <2> QED BY <1>2, <2>1, <2>3, <2>4 DEF TimerInv, OwedAhead
<1> QED BY <1>3, <1>4, <1>5, <1>6 DEF TimerInv

LEMMA DeleteKeeps ==
  ASSUME TimerInv, NEW id \in Ids, del_time(id)
  PROVE  TimerInv'
<1>0. /\ pc \in {"script", "callback"} /\ id \in Armed
      /\ timeHead' = [i \in Armed \ {id} |-> timeHead[i]]
      /\ UNCHANGED <<clock, pc, timeout, skews, timeNextId, te, maxId, proc, lastTime, owed, fault>>
  BY DEF del_time, Script, walkVars, Without
<1>a. Typed
  BY DEF TimerInv
<1>1. Armed' = Armed \ {id} /\ \A i \in Armed' : timeHead'[i] = timeHead[i]
  BY <1>0 DEF Armed
<1>2. Typed'
  <2>1. timeHead' \in [Armed' -> Events]
    BY <1>0, <1>1, <1>a, Types
  <2>2. TypeOK'
    BY <1>0, <1>1, <1>a, Types DEF Typed, TypeOK
  <2> QED BY <1>0, <1>a, <2>1, <2>2 DEF Typed
<1>3. KeysRight'
  BY <1>0, <1>1 DEF TimerInv, KeysRight, Key, PeriodFits, Ints
<1>4. LastTimePast' /\ OwedAhead'
  BY <1>0, <1>1 DEF TimerInv, LastTimePast, OwedAhead, Due
<1> QED BY <1>2, <1>3, <1>4, <1>a DEF TimerInv

LEMMA ElapseKeeps ==
  ASSUME TimerInv, Elapse
  PROVE  TimerInv'
<1>0. /\ clock < MaxClock /\ clock' = clock + 1
      /\ UNCHANGED <<pc, timeout, skews, timeNextId, timeHead, te, maxId, proc, lastTime, owed, fault>>
  BY DEF Elapse, listVars, walkVars
<1>a. Typed
  BY DEF TimerInv
<1>1. Armed' = Armed
  BY <1>0 DEF Armed
<1>2. Typed'
  <2>1. TypeOK'
    BY <1>0, <1>1, <1>a, Types DEF Typed, TypeOK
  <2> QED BY <1>0, <1>1, <1>a, <2>1, Types DEF Typed
<1>3. KeysRight'
  BY <1>0, <1>1 DEF TimerInv, KeysRight, Key, PeriodFits, Ints
<1>4. LastTimePast'
  <2>1. clock \div Second <= clock' \div Second
    BY <1>0, <1>a, Types, DivGrows
  <2>2. lastTime \in Nat /\ clock \div Second \in Nat /\ clock' \div Second \in Nat
    <3>1. clock \in Nat /\ clock' \in Nat /\ Second \in Nat \ {0}
      BY <1>0, <1>a, Types
    <3>2. clock \div Second \in Nat /\ clock' \div Second \in Nat
      BY <3>1, DivMod
    <3> QED BY <1>a, <3>2 DEF Typed, TypeOK
  <2> QED BY <1>0, <2>1, <2>2 DEF TimerInv, LastTimePast
<1>5. \A i \in Armed : Due(timeHead[i]) => Due(timeHead[i])'
  <2> SUFFICES ASSUME NEW i \in Armed, Due(timeHead[i]) PROVE Due(timeHead[i])'
    OBVIOUS
  <2>1. /\ timeHead[i].when_sec \in Int /\ timeHead[i].when_ms \in Int
        /\ clock \in Nat /\ clock' \in Nat /\ clock <= clock' /\ timeHead' = timeHead
    BY <1>0, <1>a, Types, KeyType, TimerAssumption
  <2> QED BY <2>1, DueStays DEF Due
<1>6. OwedAhead'
  BY <1>0, <1>1, <1>5 DEF TimerInv, OwedAhead
<1> QED BY <1>2, <1>3, <1>4, <1>6 DEF TimerInv

\* Set back, the clock owes nothing, and says how often that happened.
LEMMA SkewKeeps ==
  ASSUME TimerInv, Skew
  PROVE  TimerInv'
<1>0. /\ skews < MaxSkew /\ skews' = skews + 1 /\ clock' \in Second..(clock - 1) /\ owed' = {}
      /\ UNCHANGED <<pc, timeout, timeNextId, timeHead, te, maxId, proc, lastTime, fault>>
  BY DEF Skew, listVars
<1>a. Typed
  BY DEF TimerInv
<1>1. Armed' = Armed
  BY <1>0 DEF Armed
<1>b. skews \in Nat /\ skews' # 0 /\ skews' \in 0..MaxSkew /\ clock' \in 0..MaxClock
      /\ Second <= clock'
  BY <1>0, <1>a, Types, TimerAssumption DEF Typed, TypeOK
<1>2. Typed'
  <2>1. TypeOK'
    BY <1>0, <1>1, <1>a, <1>b DEF Typed, TypeOK
  <2> QED BY <1>0, <1>1, <1>a, <1>b, <2>1 DEF Typed
<1>3. KeysRight' /\ LastTimePast'
  BY <1>0, <1>1, <1>b DEF TimerInv, KeysRight, Key, PeriodFits, Ints, LastTimePast
<1>4. OwedAhead'
  BY <1>0, <1>1 DEF OwedAhead
<1> QED BY <1>2, <1>3, <1>4 DEF TimerInv

LEMMA EventWaitKeeps ==
  ASSUME TimerInv, EventWait
  PROVE  TimerInv'
<1>0. /\ pc = "script" /\ pc' = "loop"
      /\ UNCHANGED <<clock, timeout, skews, timeNextId, timeHead, te, maxId, proc, lastTime, owed, fault>>
  BY DEF EventWait, listVars, walkVars
<1>1. Armed' = Armed
  BY <1>0 DEF Armed
<1>2. TypeOK'
  BY <1>0, <1>1 DEF TimerInv, Typed, TypeOK
<1>3. Typed'
  BY <1>0, <1>1, <1>2 DEF TimerInv, Typed
<1>4. KeysRight' /\ LastTimePast' /\ OwedAhead'
  BY <1>0, <1>1 DEF TimerInv, KeysRight, Key, PeriodFits, Ints, LastTimePast, OwedAhead
<1> QED BY <1>3, <1>4 DEF TimerInv

LEMMA BlockKeeps ==
  ASSUME TimerInv, Block
  PROVE  TimerInv'
<1>0. /\ pc = "loop" /\ pc' = "epoll" /\ timeout' = search_nearest_time
      /\ UNCHANGED <<clock, skews, timeNextId, timeHead, te, maxId, proc, lastTime, owed, fault>>
  BY DEF Block, listVars, walkVars
<1>1. Armed' = Armed
  BY <1>0 DEF Armed
<1>2. timeout' \in Ints
  BY <1>0, Types, TimeoutIsInt DEF TimerInv
<1>3. TypeOK'
  BY <1>0, <1>1, <1>2 DEF TimerInv, Typed, TypeOK
<1>4. Typed'
  BY <1>0, <1>1, <1>3 DEF TimerInv, Typed
<1>5. KeysRight' /\ LastTimePast' /\ OwedAhead'
  BY <1>0, <1>1 DEF TimerInv, KeysRight, Key, PeriodFits, Ints, LastTimePast, OwedAhead
<1> QED BY <1>4, <1>5 DEF TimerInv

\* A walk begins: it owes what is due, and starts at the newest timer.
LEMMA AwakeKeeps ==
  ASSUME TimerInv, Awake
  PROVE  TimerInv'
<1> DEFINE now == clock' \div Second
<1>0. /\ pc = "epoll" /\ pc' = "walk"
      /\ \E late \in 0..1 : clock' = clock + timeout + late /\ clock' <= MaxClock
      /\ timeHead' = Reset(now) /\ lastTime' = now
      /\ maxId' = timeNextId - 1 /\ te' = First(Armed)
      /\ owed' = {i \in Armed : Due(timeHead[i])'}
      /\ timeout' = 0
      /\ UNCHANGED <<skews, timeNextId, proc, fault>>
  BY DEF Awake
<1>a. Typed /\ timeout \in Nat
  BY TimerAssumption DEF TimerInv, Typed, TypeOK, Awake, Ints
<1>b. clock' \in Nat /\ clock <= clock' /\ clock' <= MaxClock
  BY <1>0, <1>a, Types
<1>c. now \in Nat /\ clock \div Second \in Nat /\ clock \div Second <= now
  BY <1>a, <1>b, Types, DivMod, DivGrows
<1>1. /\ Armed' = Armed
      /\ \A i \in Armed :
           timeHead'[i] = IF now < lastTime THEN [timeHead[i] EXCEPT !.when_sec = 0]
                                            ELSE timeHead[i]
  BY <1>0 DEF Reset, Armed
<1>2. \A i \in Armed : timeHead'[i] \in Events
  <2> SUFFICES ASSUME NEW i \in Armed PROVE timeHead'[i] \in Events
    OBVIOUS
  <2>1. timeHead[i] \in Events
    BY <1>a, Types
  <2>2. [timeHead[i] EXCEPT !.when_sec = 0] \in Events
    BY <2>1 DEF Events
  <2> QED BY <1>1, <2>1, <2>2
<1>3. First(Armed) \in Armed \union {Null}
      /\ \A i \in Armed : First(Armed) # Null /\ i <= First(Armed)
  BY <1>a, Types, FirstIsGreatest
<1>4. Typed'
  <2>1. timeHead' \in [Armed' -> Events]
    BY <1>0, <1>1, <1>2 DEF Reset
  <2>2. maxId' \in Ids \union {Null} /\ te' \in Ids \union {Null} /\ maxId' < timeNextId
    <3>1. timeNextId \in Nat /\ timeNextId <= MaxTimers /\ MaxTimers \in Nat
          /\ Armed \in SUBSET Ids
      BY <1>a, Types
    <3>2. maxId' = timeNextId - 1 /\ te' = First(Armed)
      BY <1>0
    <3>3. te' \in Ids \union {Null}
      BY <1>3, <3>1, <3>2
    <3> QED BY <3>1, <3>2, <3>3 DEF Ids, Null
  <2>3. TypeOK'
    <3>1. \A i \in Armed' : timeHead'[i] \in Events
      BY <1>1, <1>2
    <3>2. owed' \in SUBSET Ids /\ clock' \in 0..MaxClock
      BY <1>0, <1>a, <1>b, Types
    <3> QED BY <1>0, <1>1, <1>a, <1>c, <2>2, <3>1, <3>2, TimerAssumption DEF Typed, TypeOK, Ints
  <2>4. Second <= clock'
    BY <1>a, <1>b, Types DEF Typed
  <2> QED BY <1>0, <1>1, <1>3, <2>1, <2>2, <2>3, <2>4 DEF Typed
<1>5. KeysRight'
  <2> SUFFICES ASSUME NEW i \in Armed, PeriodFits(timeHead'[i])
               PROVE  /\ Key(timeHead'[i]) <= timeHead'[i].due \/ Key(timeHead'[i]) < Second
                      /\ skews = 0 =>
                           Key(timeHead'[i]) = timeHead'[i].due - Lost(timeHead'[i])
    BY <1>0, <1>1 DEF KeysRight, Key, Lost, PeriodFits, Ints
  <2>1. CASE timeHead'[i] = timeHead[i]
    BY <2>1 DEF TimerInv, KeysRight
  <2>2. CASE timeHead'[i] # timeHead[i]
    <3>1. now < lastTime /\ timeHead'[i] = [timeHead[i] EXCEPT !.when_sec = 0]
      BY <1>1, <2>2
    <3> HIDE DEF now
    <3>2. skews # 0
      <4>1. lastTime \in Nat
        BY <1>a DEF Typed, TypeOK
      <4> QED BY <1>c, <3>1, <4>1 DEF TimerInv, LastTimePast
    <3>3. timeHead[i] \in Events
      BY <1>a, Types
    <3>4. /\ timeHead'[i].due = timeHead[i].due /\ timeHead'[i].when_sec = 0
          /\ timeHead'[i].when_ms = timeHead[i].when_ms
      BY <3>1, <3>3 DEF Events
    <3>5. Second \in Nat /\ timeHead[i].when_ms \in Int /\ timeHead[i].when_ms < Second
      BY <3>3, KeyType, TimerAssumption
    <3>6. Key(timeHead'[i]) < Second
      BY <3>4, <3>5 DEF Key
    <3> QED BY <3>2, <3>6
  <2> QED BY <2>1, <2>2
<1>6. LastTimePast'
  BY <1>0, <1>c DEF LastTimePast
<1>7. OwedAhead'
  <2>1. \A i \in owed' : i \in Armed /\ Due(timeHead[i])' /\ i <= maxId'
    BY <1>0, <1>a, Types
  <2> QED BY <1>0, <1>1, <1>3, <2>1 DEF OwedAhead
<1> QED BY <1>4, <1>5, <1>6, <1>7 DEF TimerInv

LEMMA SkipKeeps ==
  ASSUME TimerInv, Skip
  PROVE  TimerInv'
<1> DEFINE rest == {i \in Armed : i < te}
<1>0. /\ pc = "walk" /\ te # Null /\ ~ Arrived /\ te' = First(rest)
      /\ UNCHANGED <<clock, pc, timeout, skews, timeNextId, timeHead, maxId, proc, lastTime, owed, fault>>
  BY DEF Skip, listVars
<1>a. Typed
  BY DEF TimerInv
<1>1. Armed' = Armed
  BY <1>0 DEF Armed
<1>2. First(rest) \in rest \union {Null}
      /\ \A i \in rest : First(rest) # Null /\ i <= First(rest)
  <2>1. rest \in SUBSET Ids
    BY <1>a, Types
  <2> QED BY <2>1, FirstIsGreatest
<1> HIDE DEF rest
<1>3. Typed'
  <2>1. te' \in Ids \union {Null} /\ te' \in Armed \union {Null}
    BY <1>0, <1>2, <1>a, Types DEF rest
  <2>2. TypeOK'
    BY <1>0, <1>1, <1>a, <2>1 DEF Typed, TypeOK
  <2> QED BY <1>0, <1>1, <1>a, <2>1, <2>2 DEF Typed
<1>4. KeysRight' /\ LastTimePast'
  BY <1>0, <1>1 DEF TimerInv, KeysRight, Key, PeriodFits, Ints, LastTimePast
<1>5. OwedAhead'
  <2>1. \A i \in owed \intersect Armed : i <= maxId /\ Due(timeHead[i]) /\ i <= te
    BY <1>0 DEF TimerInv, OwedAhead
  <2>2. te \notin owed \intersect Armed
    BY <1>0, <2>1 DEF Arrived
  <2>3. owed \intersect Armed \subseteq rest
    BY <1>a, <2>1, <2>2, Types DEF rest
  <2>4. \A i \in owed \intersect Armed : te' # Null /\ i <= te'
    BY <1>0, <1>2, <2>3
  <2>5. \A i \in owed : i <= maxId /\ (i \in Armed => Due(timeHead[i])')
    BY <1>0, <1>1 DEF TimerInv, OwedAhead, Due
  <2> QED BY <1>0, <1>1, <2>4, <2>5 DEF OwedAhead
<1> QED BY <1>3, <1>4, <1>5 DEF TimerInv

LEMMA CallKeeps ==
  ASSUME TimerInv, Call
  PROVE  TimerInv'
<1>0. /\ pc = "walk" /\ pc' = "callback" /\ te # Null /\ te \in Armed
      /\ proc' = timeHead[te].proc /\ owed' = owed \ {te}
      /\ UNCHANGED <<clock, timeout, skews, timeNextId, timeHead, te, maxId, lastTime, fault>>
  BY DEF Call, listVars, TimerInv, Typed
<1>a. Typed /\ timeHead[te] \in Events
  BY <1>0 DEF TimerInv, Typed
<1>1. Armed' = Armed
  BY <1>0 DEF Armed
<1>2. Typed'
  <2>1. proc' \in Procs
    BY <1>0, <1>a DEF Events
  <2>2. TypeOK'
    BY <1>0, <1>1, <1>a, <2>1 DEF Typed, TypeOK
  <2> QED BY <1>0, <1>1, <1>a, <2>2 DEF Typed
<1>3. KeysRight' /\ LastTimePast' /\ OwedAhead'
  BY <1>0, <1>1 DEF TimerInv, KeysRight, Key, PeriodFits, Ints, LastTimePast, OwedAhead, Due
<1> QED BY <1>2, <1>3 DEF TimerInv

\* The list changed only where the walk is, and the walk starts over.
LEMMA WalkStartsOver ==
  ASSUME TimerInv, pc = "callback", pc' = "walk", te # Null, te' = Restart, proc' = NoProc,
         UNCHANGED <<clock, timeout, skews, timeNextId, maxId, lastTime, owed, fault>>,
         Armed' \subseteq Armed, timeHead' \in [Armed' -> Events],
         \A i \in Armed' :
            \/ i # te /\ timeHead'[i] = timeHead[i]
            \/ i = te /\ Lost(timeHead'[i]) = 0 /\ timeHead'[i].due \in Int
                       /\ (PeriodFits(timeHead'[i]) => Key(timeHead'[i]) = timeHead'[i].due)
  PROVE  TimerInv'
<1>a. Typed
  BY DEF TimerInv
<1>1. First(Armed') \in Armed' \union {Null}
      /\ \A i \in Armed' : First(Armed') # Null /\ i <= First(Armed')
  BY <1>a, Types, FirstIsGreatest
<1>2. te' = First(Armed')
  BY DEF Restart
<1>3. Typed'
  <2>1. te' \in Ids \union {Null}
    BY <1>1, <1>2, <1>a, Types
  <2>2. \A i \in Armed' : timeHead'[i] \in Events
    OBVIOUS
  <2>3. TypeOK'
    BY <1>a, <2>1, <2>2 DEF Typed, TypeOK, Events, Ints
  <2> QED BY <1>a, <1>1, <1>2, <2>3 DEF Typed
<1>4. KeysRight'
  <2> SUFFICES ASSUME NEW i \in Armed', PeriodFits(timeHead'[i])
               PROVE  /\ Key(timeHead'[i]) <= timeHead'[i].due \/ Key(timeHead'[i]) < Second
                      /\ skews = 0 =>
                           Key(timeHead'[i]) = timeHead'[i].due - Lost(timeHead'[i])
    BY DEF KeysRight, Key, Lost, PeriodFits, Ints
  <2>1. CASE timeHead'[i] = timeHead[i] /\ i \in Armed
    BY <2>1 DEF TimerInv, KeysRight
  <2>2. CASE /\ Key(timeHead'[i]) = timeHead'[i].due /\ timeHead'[i].due \in Int
             /\ Lost(timeHead'[i]) = 0
    BY <2>2
  <2> QED BY <2>1, <2>2
<1>5. LastTimePast'
  BY DEF TimerInv, LastTimePast
<1>6. OwedAhead'
  <2>1. \A i \in owed \intersect Armed' : i # te /\ i \in Armed /\ timeHead'[i] = timeHead[i]
    BY DEF TimerInv, OwedAhead
  <2>2. \A i \in owed : i <= maxId /\ (i \in Armed' => Due(timeHead[i]) /\ Due(timeHead[i])')
    BY <2>1 DEF TimerInv, OwedAhead, Due
  <2> QED BY <1>1, <1>2, <2>2 DEF OwedAhead
<1> QED BY <1>3, <1>4, <1>5, <1>6 DEF TimerInv

\* A timer that ran is armed again or taken out; the walk starts over.
LEMMA ReturnKeeps ==
  ASSUME TimerInv, Return
  PROVE  TimerInv'
<1>a. Typed
  BY DEF TimerInv
<1>0. /\ pc = "callback" /\ te # Null
      /\ UNCHANGED <<clock, timeout, skews, timeNextId, maxId, lastTime, owed>>
  BY <1>a DEF Return, Typed
<1>1. CASE fault' = "freed_event" /\ UNCHANGED <<pc, proc, timeHead, te>>
  <2>1. Armed' = Armed
    BY <1>1 DEF Armed
  <2>2. TypeOK'
    BY <1>0, <1>1, <1>a, <2>1 DEF Typed, TypeOK
  <2>3. Typed'
    BY <1>0, <1>1, <1>a, <2>1, <2>2 DEF Typed
  <2>4. KeysRight' /\ LastTimePast' /\ OwedAhead'
    BY <1>0, <1>1, <2>1 DEF TimerInv, KeysRight, Key, Lost, PeriodFits, Ints, LastTimePast, OwedAhead, Due
  <2> QED BY <2>3, <2>4 DEF TimerInv
<1>2. CASE /\ \/ te \notin Armed /\ proc # "tick" /\ Rearm(NOMORE)
              \/ te \in Armed /\ Rearm(Answer(timeHead[te]))
           /\ te' = Restart /\ proc' = NoProc /\ pc' = "walk" /\ UNCHANGED fault
  <2> DEFINE data == timeHead[te].data
             event == TimeEvent("tick", toint(data), data)
             Again == timeHead' = [timeHead EXCEPT ![te] = event]
  <2>1. CASE timeHead' = Without(te)
    <3>1. timeHead' = [i \in Armed \ {te} |-> timeHead[i]]
      BY <2>1 DEF Without
    <3>2. Armed' = Armed \ {te}
      BY <3>1 DEF Armed
    <3>3. timeHead' \in [Armed' -> Events]
      BY <3>1, <3>2, <1>a, Types
    <3> QED BY <1>0, <1>2, <3>1, <3>2, <3>3, WalkStartsOver
  <2>2. CASE te \in Armed /\ timeHead[te].proc = "tick" /\ Again
    <3>1. /\ clock \in Nat
          /\ data \in TickDelays \union AfterDelays \union SleepTimes /\ data \in Int
      <4>1. timeHead[te] \in Events /\ clock \in Nat
        BY <1>a, <2>2, Types
      <4>2. data \in TickDelays \union AfterDelays \union SleepTimes
        BY <4>1 DEF Events
      <4> QED BY <4>1, <4>2, DelaysAreInts
    <3>2. toint(data) \in Int /\ (data \in Ints => toint(data) = data)
      BY <3>1, IntsFit DEF Ints
    <3>3. /\ event \in Events /\ Key(event) = clock + toint(data)
          /\ event.due = clock + data /\ event.data = data /\ event.proc = "tick"
      BY <3>1, <3>2, ArmedFor DEF Procs
    <3> HIDE DEF event
    <3>4. Armed' = Armed /\ timeHead' \in [Armed' -> Events]
      <4>1. timeHead \in [Armed -> Events]
        BY <1>a DEF Typed
      <4>2. timeHead' \in [Armed -> Events]
        BY <2>2, <3>3, <4>1
      <4> QED BY <4>2 DEF Armed
    <3>5. /\ Lost(event) = 0 /\ event.due \in Int
          /\ PeriodFits(event) => Key(event) = event.due
      BY <3>1, <3>2, <3>3 DEF PeriodFits, Lost
    <3>6. \A i \in Armed' : \/ i # te /\ timeHead'[i] = timeHead[i]
                            \/ i = te /\ timeHead'[i] = event
      BY <1>a, <2>2, <3>4 DEF Typed
    <3> QED BY <1>0, <1>2, <3>4, <3>5, <3>6, WalkStartsOver
  <2>3. timeHead' = Without(te)
          \/ (te \in Armed /\ timeHead[te].proc = "tick" /\ Again)
    BY <1>2 DEF Rearm, Answer
  <2> QED BY <2>1, <2>2, <2>3
<1> QED BY <1>1, <1>2 DEF Return

LEMMA WalkEndsKeeps ==
  ASSUME TimerInv, WalkEnds
  PROVE  TimerInv'
<1>0. /\ pc = "walk" /\ pc' \in {"script", "loop"} /\ maxId' = Null /\ owed' = {}
      /\ UNCHANGED <<clock, timeout, skews, timeNextId, timeHead, te, proc, lastTime, fault>>
  BY DEF WalkEnds, listVars
<1>1. Armed' = Armed
  BY <1>0 DEF Armed
<1>2. TypeOK'
  BY <1>0, <1>1 DEF TimerInv, Typed, TypeOK
<1>3. Typed'
  BY <1>0, <1>1, <1>2 DEF TimerInv, Typed
<1>4. KeysRight' /\ LastTimePast' /\ OwedAhead'
  BY <1>0, <1>1 DEF TimerInv, KeysRight, Key, PeriodFits, Ints, LastTimePast, OwedAhead
<1> QED BY <1>3, <1>4 DEF TimerInv

-----------------------------------------------------------------------------
(* The theorems. *)

LEMMA TimerNextInv == TimerInv /\ [Next]_vars => TimerInv'
<1> SUFFICES ASSUME TimerInv, [Next]_vars PROVE TimerInv'
  OBVIOUS
<1>1. CASE Tick
  <2>1. PICK ms \in TickDelays : create_time_event("tick", ms, ms)
    BY <1>1 DEF Tick
  <2>2. ms \in Int /\ "tick" \in Procs
    BY TimerAssumption DEF Procs
  <2> QED BY <2>1, <2>2, CreateKeeps
<1>2. CASE After
  <2>1. PICK ms \in AfterDelays : create_time_event("after", ms, ms)
    BY <1>2 DEF After
  <2>2. ms \in Int /\ "after" \in Procs
    BY TimerAssumption DEF Procs
  <2> QED BY <2>1, <2>2, CreateKeeps
<1>8. CASE Sleep
  <2>1. PICK ms \in SleepTimes : create_time_event("sleep_call", ms \div Second, ms)
    BY <1>8 DEF Sleep
  <2>2. /\ ms \in Nat /\ Second \in Nat \ {0} /\ "sleep_call" \in Procs
    BY TimerAssumption DEF Procs
  <2>3. ms \div Second \in Int /\ ms \div Second <= ms
    <3>1. ms \div Second \in Nat /\ ms = Second * (ms \div Second) + (ms % Second)
          /\ ms % Second \in Nat
      <4> DEFINE s == Second
      <4>1. s \in Nat \ {0} /\ ms \in Nat
        BY <2>2
      <4> HIDE DEF s
      <4>2. /\ ms \div s \in Nat /\ ms % s \in 0..(s - 1)
            /\ ms = s * (ms \div s) + (ms % s)
        BY <4>1, DivMod
      <4> QED BY <4>1, <4>2 DEF s
    <3>2. Second * (ms \div Second) >= ms \div Second
      BY <2>2, <3>1
    <3> QED BY <2>2, <3>1, <3>2
  <2> QED BY <2>1, <2>2, <2>3, CreateKeeps
<1>3. CASE \E id \in Ids : del_time(id)
  BY <1>3, DeleteKeeps
<1>4. CASE Elapse
  BY <1>4, ElapseKeeps
<1>5. CASE Skew
  BY <1>5, SkewKeeps
<1>6. CASE Loop
  BY <1>6, EventWaitKeeps, BlockKeeps, AwakeKeeps, SkipKeeps, CallKeeps, ReturnKeeps,
     WalkEndsKeeps DEF Loop
<1>7. CASE UNCHANGED vars
  <2>0. UNCHANGED <<clock, pc, timeout, skews, timeNextId, timeHead, te, maxId, proc, lastTime,
                    owed, fault>>
    BY <1>7 DEF vars, listVars, walkVars
  <2>1. Armed' = Armed
    BY <2>0 DEF Armed
  <2>2. TypeOK'
    BY <2>0, <2>1 DEF TimerInv, Typed, TypeOK
  <2>3. Typed'
    BY <2>0, <2>1, <2>2 DEF TimerInv, Typed
  <2>4. KeysRight' /\ LastTimePast' /\ OwedAhead'
    BY <2>0, <2>1 DEF TimerInv, KeysRight, Key, PeriodFits, Ints, LastTimePast, OwedAhead, Due
  <2> QED BY <2>3, <2>4 DEF TimerInv
<1> QED BY <1>1, <1>2, <1>3, <1>4, <1>5, <1>6, <1>7, <1>8 DEF Next

LEMMA TimerAlways == Spec => []TimerInv
<1> QED BY TimerInitInv, TimerNextInv, PTL DEF Spec

\* Types of the list and the loop, ids never used twice among them, for delays
\* below 0 too.  What epoll_wait is given is an int.
THEOREM TimerTypesAlwaysOK == Spec => []TypeOK
<1>1. TimerInv => TypeOK
  BY DEF TimerInv, Typed
<1> QED BY <1>1, TimerAlways, PTL

\* However callbacks create and delete timers, and though the walk starts over
\* after each, it ends with every timer run that was due when it began.
THEOREM WalksAreComplete == Spec => []WalkComplete
<1>1. TimerInv => WalkComplete
  BY DEF TimerInv, OwedAhead, WalkComplete
<1> QED BY <1>1, TimerAlways, PTL

\* A timer is run at its time or later, first and again, a sleeper at the one
\* its unit leaves it, unless somebody set the clock back, or it is a tick whose
\* period is no int.
THEOREM TimersNeverEarly == Spec => NeverEarly
<1>1. TimerInv /\ [Next]_vars =>
        [pc = "walk" /\ pc' = "callback" /\ PeriodFits(timeHead[te])
           => clock >= timeHead[te].due - Lost(timeHead[te]) \/ skews > 0]_vars
  <2> SUFFICES ASSUME TimerInv, Next, pc = "walk", pc' = "callback",
                      PeriodFits(timeHead[te])
               PROVE  clock >= timeHead[te].due - Lost(timeHead[te]) \/ skews > 0
    OBVIOUS
  <2>1. Call
    BY DEF Next, Loop, Tick, After, Sleep, create_time_event, Script, del_time, Elapse, Skew,
           EventWait, Block, Awake, Skip, Return, WalkEnds
  <2>2. te \in Armed /\ Due(timeHead[te])
    BY <2>1 DEF Call, Arrived, TimerInv, Typed
  <2>3. timeHead[te] \in Events /\ clock \in Nat
    BY <2>2, Types DEF TimerInv
  <2>4. Key(timeHead[te]) <= clock
    BY <2>2, <2>3, DueByKey DEF Due
  <2>5. skews \in Nat /\ (skews = 0 => Key(timeHead[te]) = timeHead[te].due - Lost(timeHead[te]))
    BY <2>2, TimerAssumption DEF TimerInv, Typed, TypeOK, KeysRight
  <2> QED BY <2>3, <2>4, <2>5
<1> QED BY <1>1, TimerAlways, PTL DEF NeverEarly, Spec

\* epoll_wait is given less than a second more than what is left until any
\* timer that is near enough for an int, the rounding of an overdue one
\* included: never a negative number, with which it would sleep for ever.
THEOREM SleepsNotFarBeyond == Spec => []OversleepsLessThanASecond
<1>1. TimerInv => OversleepsLessThanASecond
  <2> SUFFICES ASSUME TimerInv PROVE OversleepsLessThanASecond
    OBVIOUS
  <2> SUFFICES ASSUME NEW i \in Armed, InReach(timeHead[i])
               PROVE  search_nearest_time \in 0..(left(timeHead[i]) + Second - 1)
    BY DEF OversleepsLessThanASecond
  <2> DEFINE rest == left(timeHead[i])
  <2>1. /\ clock \in Nat /\ Second \in Nat \ {0} /\ HalfInt \in Nat /\ Second <= clock
        /\ \A j \in Armed : timeHead[j] \in Events
        /\ Armed \in SUBSET Ids
    BY Types, TimerAssumption DEF TimerInv, Typed
  <2>2. timeHead[i].due \in Int /\ Key(timeHead[i]) \in Int
    BY <2>1, KeyType
  <2>3. Key(timeHead[i]) <= timeHead[i].due \/ Key(timeHead[i]) < Second
    BY DEF TimerInv, KeysRight, InReach
  <2>4. /\ nearest_time \in Nat
        /\ nearest_time < Second \/ nearest_time < Second + Key(timeHead[i]) - clock
    BY <2>1, SearchBounds
  <2> HIDE DEF nearest_time
  <2>5. /\ rest \in Int /\ rest >= 0 /\ rest >= timeHead[i].due - clock
        /\ rest + Second <= HalfInt /\ PeriodFits(timeHead[i])
    BY <2>1, <2>2 DEF InReach, left
  <2> HIDE DEF rest
  <2>6. nearest_time \in 0..(rest + Second - 1)
    BY <2>1, <2>2, <2>3, <2>4, <2>5
  <2>7. toint(nearest_time) = nearest_time
    BY <2>1, <2>5, <2>6, IntsFit DEF Ints
  <2>8. search_nearest_time = nearest_time
    BY <2>7 DEF search_nearest_time
  <2> QED BY <2>6, <2>8 DEF rest
<1> QED BY <1>1, TimerAlways, PTL

\* The walk that notices a clock set back runs everything that waits.
THEOREM SetBackRunsAll == Spec => SkewResets
<1>1. TimerInv /\ TimerInv' /\ [Next]_vars =>
        [pc = "epoll" /\ pc' = "walk" /\ lastTime' < lastTime => owed' = Armed]_vars
  <2> SUFFICES ASSUME TimerInv, TimerInv', Next, pc = "epoll", pc' = "walk",
                      lastTime' < lastTime
               PROVE  owed' = Armed
    OBVIOUS
  <2>1. Awake
    BY DEF Next, Loop, Tick, After, Sleep, create_time_event, Script, del_time, Elapse, Skew,
           EventWait, Block, Skip, Call, Return, WalkEnds
  <2> DEFINE now == clock' \div Second
  <2>2. /\ timeHead' = Reset(now) /\ lastTime' = now
        /\ owed' = {i \in Armed : Due(timeHead[i])'}
    BY <2>1 DEF Awake
  <2>3. clock' \in Nat /\ Second <= clock' /\ Second \in Nat \ {0}
    <3>1. clock' \in 0..MaxClock /\ Second <= clock'
      BY DEF TimerInv, Typed, TypeOK
    <3> QED BY <3>1, TimerAssumption
  <2>4. now >= 1 /\ now \in Nat
    BY <2>3, AtLeastOne, DivMod
  <2>5. \A i \in Armed : timeHead[i] \in Events /\ timeHead'[i].when_sec = 0
    BY <2>2, Types DEF Reset, TimerInv, Events
  <2>6. \A i \in Armed : Due(timeHead[i])'
    BY <2>4, <2>5 DEF Due
  <2> QED BY <2>2, <2>6
<1> QED BY <1>1, TimerAlways, PTL DEF SkewResets, Spec

=============================================================================
