----------------------------- MODULE TimerProofs -----------------------------
(***************************************************************************)
(* Proofs about Timer: for every set of timers, every timeout, number of      *)
(* ticks and of requests, and every capacity of the queue of deferred calls.  *)
(*                                                                         *)
(* The argument: the ticks that wait in the queue are in order and end with    *)
(* the last that came (TicksAhead, LastTick), so a start that waits behind    *)
(* them is run when exactly the ticks before it are counted (StartsInOrder);  *)
(* linking and unlinking keep the ticks to every other timer, so that each     *)
(* expires when it should (Timed); and the last request for a timer decides     *)
(* whether it is linked (Wants).                                            *)
(***************************************************************************)
EXTENDS Timer, SequenceTheorems, FiniteSetTheorems, WellFoundedInduction, TLAPS

Entry == Insertion \cup Removal \cup Tick
IsTick(e) == e.op = "tick"
IsFor(e, t) == e.op # "tick" /\ e.timer = t

(* The tick at which the start was asked for.                               *)
Asked(e) == e.due - e.timeout

Once(l) == \A i, j \in 1..Len(l) : l[i] = l[j] => i = j
In(l, t) == \E i \in 1..Len(l) : l[i] = t

LinkedOnce == Once(list)

(* PendSV counts up to the tick of its call, and only within one.             *)
Counting ==
  /\ phase # "idle" <=> current # None /\ IsTick(current)
  /\ phase # "idle" => timer_millis <= current.millis /\ current.millis <= millis
  /\ phase \in {"expire", "unlink", "call"} => timer_millis < current.millis
  /\ phase = "unlink" => Expired
  /\ timer_millis <= millis

(* The ticks that wait come after those counted and after each other ...      *)
TicksAhead ==
  \A i \in 1..Len(queue) : IsTick(queue[i]) =>
    /\ timer_millis < queue[i].millis /\ queue[i].millis <= millis
    /\ phase # "idle" => current.millis < queue[i].millis
    /\ \A j \in 1..i - 1 : IsTick(queue[j]) => queue[j].millis < queue[i].millis

(* ... and the last of them is the last that came, unless it was dropped.      *)
LastTick ==
  \/ millis \in dropped
  \/ timer_millis = millis
  \/ phase # "idle" /\ current.millis = millis
  \/ \E i \in 1..Len(queue) : IsTick(queue[i]) /\ queue[i].millis = millis

(* A start that waits will find the ticks counted that had come when it was    *)
(* asked for, and no later one.                                            *)
StartsInOrder ==
  /\ \A i \in 1..Len(queue) : queue[i].op = "insert" =>
       /\ timer_millis <= Asked(queue[i]) /\ Asked(queue[i]) <= millis
       /\ phase # "idle" => current.millis <= Asked(queue[i])
       /\ \A j \in 1..i - 1 : IsTick(queue[j]) => queue[j].millis <= Asked(queue[i])
       /\ dropped = {} =>
            \/ timer_millis = Asked(queue[i])
            \/ phase # "idle" /\ current.millis = Asked(queue[i])
            \/ \E j \in 1..i - 1 : IsTick(queue[j]) /\ queue[j].millis = Asked(queue[i])
  /\ current # None /\ current.op = "insert" =>
       /\ timer_millis <= Asked(current)
       /\ dropped = {} => timer_millis = Asked(current)

(* The last request for a timer, if one is pending, and the list otherwise,    *)
(* say what is wanted of it.                                               *)
Wants ==
  \A t \in Timers :
    /\ \A i \in 1..Len(queue) :
         IsFor(queue[i], t) /\ (\A j \in i + 1..Len(queue) : ~IsFor(queue[j], t)) =>
           (queue[i].op = "insert" <=> t \in wanted)
    /\ current # None /\ IsFor(current, t) /\ (\A i \in 1..Len(queue) : ~IsFor(queue[i], t)) =>
         (current.op = "insert" <=> t \in wanted)
    /\ ~Pending(t) => (Linked(t) <=> t \in wanted)

(* A timer that is silent is not linked, or its bit is cleared or about to be,  *)
(* and no start for it waits.                                              *)
Silenced ==
  \A t \in silent :
    /\ \A i \in 1..Len(queue) : ~(queue[i].op = "insert" /\ queue[i].timer = t)
    /\ ~(current # None /\ current.op = "insert" /\ current.timer = t)
    /\ ~Linked(t) \/ t \in stopping \/ ~enabled[t]

(* Each linked timer will expire at its tick, and the head has ticks left      *)
(* whenever one is about to be counted.                                     *)
Timed ==
  ~disturbed =>
    /\ \A i \in 1..Len(list) :
         Expiry(i) <= due[list[i]] /\ (dropped = {} => Expiry(i) = due[list[i]])
    /\ phase \in {"idle", "count"} /\ list # << >> => remaining[list[1]] > 0

(* What waits in the queue is in order.                                       *)
Waits == Counting /\ TicksAhead /\ LastTick /\ StartsInOrder

IInv == TypeOK /\ LinkedOnce /\ Waits /\ Wants /\ Silenced /\ Timed

-----------------------------------------------------------------------------
(* Numbers.                                                                *)

LEMMA Least == \A T \in SUBSET Nat : T # {} => \E x \in T : \A y \in T : x <= y
<1> SUFFICES ASSUME NEW T \in SUBSET Nat, T # {}
             PROVE  \E x \in T : \A y \in T : x <= y
  OBVIOUS
<1>1. PICK x \in T : \A y \in T : ~(<<y, x>> \in OpToRel(<, Nat))
  BY WFMin, NatLessThanWellFounded
<1>2. \A y \in T : ~(y < x)
  BY <1>1 DEF OpToRel
<1> QED  BY <1>2

LEMMA Induction ==
  \A S \in SUBSET Nat : 0 \in S /\ (\A n \in S : n + 1 \in S) => S = Nat
<1> SUFFICES ASSUME NEW S \in SUBSET Nat, 0 \in S, \A n \in S : n + 1 \in S, S # Nat
             PROVE  FALSE
  OBVIOUS
<1>1. PICK x \in Nat \ S : \A y \in Nat \ S : x <= y
  <2>1. Nat \ S # {}
    OBVIOUS
  <2> QED  BY <2>1, Least
<1>2. x # 0 /\ x - 1 \in Nat /\ x - 1 + 1 = x
  BY <1>1
<1>3. x - 1 \in S
  BY <1>1, <1>2
<1> QED  BY <1>1, <1>2, <1>3

(* A set of numbers up to n has a largest.                                   *)
LEMMA Largest ==
  \A n \in Nat : \A S \in SUBSET (0..n) :
    S # {} => Max(S) \in S /\ \A y \in S : y <= Max(S)
<1> SUFFICES ASSUME NEW n \in Nat, NEW S \in SUBSET (0..n), S # {}
             PROVE  Max(S) \in S /\ \A y \in S : y <= Max(S)
  OBVIOUS
<1> DEFINE T == {n - y : y \in S}
<1>1. T \in SUBSET Nat /\ T # {}
  <2>1. \A y \in S : n - y \in Nat
    OBVIOUS
  <2>2. PICK y \in S : TRUE
    OBVIOUS
  <2>3. n - y \in T
    BY <2>2
  <2> QED  BY <2>1, <2>3
<1>2. PICK x \in T : \A y \in T : x <= y
  BY <1>1, Least
<1>3. PICK m \in S : x = n - m
  BY <1>2
<1>4. \A y \in S : n - y \in T /\ x <= n - y
  BY <1>2
<1>5. \A y \in S : m >= y
  BY <1>3, <1>4
<1> QED  BY <1>3, <1>5 DEF Max

-----------------------------------------------------------------------------
(* The ticks of a list.                                                    *)

(* The sum starts with nothing and takes one element at a time.              *)
LEMMA TicksStep ==
  ASSUME NEW l \in Seq(Timers), NEW r \in [Timers -> Nat]
  PROVE  /\ TicksTo(l, r, 0) = 0
         /\ \A i \in 0..Len(l) : TicksTo(l, r, i) \in Nat
         /\ \A i \in 1..Len(l) : TicksTo(l, r, i) = TicksTo(l, r, i - 1) + r[l[i]]
<1> DEFINE IsSum(f, n) == f[0] = 0 /\ \A j \in 1..n : f[j] = f[j - 1] + r[l[j]]
           Sum(n) == CHOOSE f : f = [j \in 0..n |-> IF j = 0 THEN 0 ELSE f[j - 1] + r[l[j]]]
<1>1. Len(l) \in Nat /\ \A j \in 1..Len(l) : r[l[j]] \in Nat
  BY ElementOfSeq, LenProperties
<1>2. \A n \in 0..Len(l) : \E f \in [0..n -> Nat] : IsSum(f, n)
  <2> DEFINE Has(n) == \E f \in [0..n -> Nat] : IsSum(f, n)
             S == {n \in Nat : n <= Len(l) => Has(n)}
  <2>1. 0 \in S
    <3>1. [j \in 0..0 |-> 0] \in [0..0 -> Nat] /\ IsSum([j \in 0..0 |-> 0], 0)
      OBVIOUS
    <3> QED  BY <3>1
  <2>2. ASSUME NEW n \in S PROVE n + 1 \in S
    <3> SUFFICES ASSUME n + 1 <= Len(l)
                 PROVE  Has(n + 1)
      <4> HIDE DEF Has
      <4> QED  OBVIOUS
    <3>1. n \in Nat /\ n <= Len(l)
      BY <1>1
    <3>2. PICK f \in [0..n -> Nat] : IsSum(f, n)
      BY <3>1
    <3> DEFINE g == [j \in 0..n + 1 |-> IF j <= n THEN f[j] ELSE f[n] + r[l[n + 1]]]
    <3>3. g \in [0..n + 1 -> Nat]
      BY <1>1, <3>1
    <3>4. IsSum(g, n + 1)
      BY <1>1, <3>1, <3>2
    <3> QED  BY <3>3, <3>4
  <2>3. S = Nat
    <3> HIDE DEF S
    <3>1. S \in SUBSET Nat
      BY DEF S
    <3> QED  BY <2>1, <2>2, <3>1, Induction
  <2>4. \A n \in Nat : n \in S
    BY <2>3
  <2>5. \A n \in 0..Len(l) : n \in Nat /\ n <= Len(l)
    BY <1>1
  <2> QED  BY <2>4, <2>5
<1>3. \A n \in 0..Len(l) : IsSum(Sum(n), n)
  <2> TAKE n \in 0..Len(l)
  <2>1. PICK f \in [0..n -> Nat] : IsSum(f, n)
    BY <1>2
  <2>2. f = [j \in 0..n |-> IF j = 0 THEN 0 ELSE f[j - 1] + r[l[j]]]
    BY <1>1, <2>1
  <2>3. Sum(n) = [j \in 0..n |-> IF j = 0 THEN 0 ELSE Sum(n)[j - 1] + r[l[j]]]
    BY <2>2
  <2> HIDE DEF Sum
  <2> QED  BY <1>1, <2>3
<1>4. \A n \in 0..Len(l) : TicksTo(l, r, n) = Sum(n)[n]
  BY DEF TicksTo
<1> HIDE DEF Sum
<1>5. \A j \in 0..Len(l) : Sum(j)[j] \in Nat /\ \A n \in j..Len(l) : Sum(n)[j] = Sum(j)[j]
  <2> DEFINE S == {j \in Nat : j <= Len(l) =>
                     Sum(j)[j] \in Nat /\ \A n \in j..Len(l) : Sum(n)[j] = Sum(j)[j]}
  <2>1. 0 \in S
    BY <1>1, <1>3
  <2>2. ASSUME NEW j \in S PROVE j + 1 \in S
    <3> SUFFICES ASSUME j + 1 <= Len(l)
                 PROVE  /\ Sum(j + 1)[j + 1] \in Nat
                        /\ \A n \in j + 1..Len(l) : Sum(n)[j + 1] = Sum(j + 1)[j + 1]
      OBVIOUS
    <3>1. /\ j \in Nat /\ j <= Len(l)
          /\ Sum(j)[j] \in Nat /\ \A n \in j..Len(l) : Sum(n)[j] = Sum(j)[j]
      BY <1>1
    <3>2. \A n \in j + 1..Len(l) : Sum(n)[j + 1] = Sum(j)[j] + r[l[j + 1]]
      <4> TAKE n \in j + 1..Len(l)
      <4>1. n \in 0..Len(l) /\ j + 1 \in 1..n /\ n \in j..Len(l)
        BY <1>1, <3>1
      <4>2. Sum(n)[j + 1] = Sum(n)[j + 1 - 1] + r[l[j + 1]]
        BY <1>3, <4>1
      <4> QED  BY <3>1, <4>1, <4>2
    <3>3. Sum(j + 1)[j + 1] = Sum(j)[j] + r[l[j + 1]]
      BY <1>1, <3>1, <3>2
    <3> QED  BY <1>1, <3>1, <3>2, <3>3
  <2>3. S = Nat
    <3> HIDE DEF S
    <3>1. S \in SUBSET Nat
      BY DEF S
    <3> QED  BY <2>1, <2>2, <3>1, Induction
  <2>4. \A j \in Nat : j \in S
    BY <2>3
  <2> QED  BY <1>1, <2>4
<1>6. TicksTo(l, r, 0) = 0
  BY <1>1, <1>3, <1>4
<1>7. \A i \in 0..Len(l) : TicksTo(l, r, i) \in Nat
  BY <1>4, <1>5
<1>8. \A i \in 1..Len(l) : TicksTo(l, r, i) = TicksTo(l, r, i - 1) + r[l[i]]
  <2> TAKE i \in 1..Len(l)
  <2>1. i \in 0..Len(l) /\ i - 1 \in 0..Len(l) /\ i \in i - 1..Len(l) /\ i \in 1..i
    BY <1>1
  <2>2. Sum(i)[i] = Sum(i)[i - 1] + r[l[i]]
    BY <1>3, <2>1
  <2>3. Sum(i)[i - 1] = Sum(i - 1)[i - 1]
    BY <1>5, <2>1
  <2> QED  BY <1>4, <2>1, <2>2, <2>3
<1> QED  BY <1>6, <1>7, <1>8

Apart(x, y, c) == x = y + c

(* Two lists that go on alike after a and b keep their distance.             *)
LEMMA TicksAlong ==
  ASSUME NEW l \in Seq(Timers), NEW r \in [Timers -> Nat],
         NEW k \in Seq(Timers), NEW q \in [Timers -> Nat],
         NEW a \in Nat, NEW b \in Nat, NEW n \in Nat, NEW c \in Int,
         a + n <= Len(l), b + n <= Len(k),
         Apart(TicksTo(l, r, a), TicksTo(k, q, b), c),
         \A j \in 1..n : r[l[a + j]] = q[k[b + j]]
  PROVE  \A j \in 0..n : Apart(TicksTo(l, r, a + j), TicksTo(k, q, b + j), c)
<1> DEFINE S == {j \in Nat : j <= n => Apart(TicksTo(l, r, a + j), TicksTo(k, q, b + j), c)}
<1>1. 0 \in S
  <2>1. a + 0 = a /\ b + 0 = b
    OBVIOUS
  <2> QED  BY <2>1
<1>2. ASSUME NEW j \in S PROVE j + 1 \in S
  <2> SUFFICES ASSUME j + 1 <= n
               PROVE  Apart(TicksTo(l, r, a + (j + 1)), TicksTo(k, q, b + (j + 1)), c)
    OBVIOUS
  <2>1. j \in Nat /\ Apart(TicksTo(l, r, a + j), TicksTo(k, q, b + j), c)
    OBVIOUS
  <2>2. Len(l) \in Nat /\ Len(k) \in Nat
    BY LenProperties
  <2>3. /\ a + (j + 1) \in 1..Len(l) /\ b + (j + 1) \in 1..Len(k)
        /\ a + (j + 1) - 1 = a + j /\ b + (j + 1) - 1 = b + j /\ j + 1 \in 1..n
        /\ a + j \in 0..Len(l) /\ b + j \in 0..Len(k)
    BY <2>1, <2>2
  <2>4. TicksTo(l, r, a + (j + 1)) = TicksTo(l, r, a + j) + r[l[a + (j + 1)]]
    <3>1. \A i \in 1..Len(l) : TicksTo(l, r, i) = TicksTo(l, r, i - 1) + r[l[i]]
      BY TicksStep
    <3> QED  BY <2>3, <3>1
  <2>5. TicksTo(k, q, b + (j + 1)) = TicksTo(k, q, b + j) + q[k[b + (j + 1)]]
    <3>1. \A i \in 1..Len(k) : TicksTo(k, q, i) = TicksTo(k, q, i - 1) + q[k[i]]
      BY TicksStep
    <3> QED  BY <2>3, <3>1
  <2>6. r[l[a + (j + 1)]] = q[k[b + (j + 1)]] /\ q[k[b + (j + 1)]] \in Nat
    BY <2>3, ElementOfSeq
  <2>7. TicksTo(k, q, b + j) \in Nat
    BY <2>3, TicksStep
  <2> HIDE DEF S
  <2> DEFINE x == TicksTo(k, q, b + j)
             y == q[k[b + (j + 1)]]
  <2>8. x \in Nat /\ y \in Nat /\ (x + c) + y = (x + y) + c
    <3>1. x \in Nat /\ y \in Nat
      BY <2>6, <2>7
    <3> HIDE DEF x, y
    <3> QED  BY <3>1
  <2> QED  BY <2>1, <2>4, <2>5, <2>6, <2>8 DEF Apart
<1>3. S = Nat
  <2> HIDE DEF S
  <2>1. S \in SUBSET Nat
    BY DEF S
  <2> QED  BY <1>1, <1>2, <2>1, Induction
<1>4. \A j \in Nat : j \in S
  BY <1>3
<1> QED  BY <1>4

(* The ticks to an element are no fewer than those to the first.              *)
LEMMA TicksGrow ==
  ASSUME NEW l \in Seq(Timers), NEW r \in [Timers -> Nat]
  PROVE  \A i \in 1..Len(l) : TicksTo(l, r, i) >= r[l[1]]
<1>1. /\ TicksTo(l, r, 0) = 0
      /\ \A i \in 0..Len(l) : TicksTo(l, r, i) \in Nat
      /\ \A i \in 1..Len(l) : TicksTo(l, r, i) = TicksTo(l, r, i - 1) + r[l[i]]
  BY TicksStep
<1>2. Len(l) \in Nat /\ \A i \in 1..Len(l) : r[l[i]] \in Nat
  BY LenProperties, ElementOfSeq
<1> DEFINE S == {j \in Nat : j + 1 <= Len(l) => TicksTo(l, r, j + 1) >= r[l[1]]}
<1>3. 0 \in S
  BY <1>1, <1>2
<1>4. ASSUME NEW j \in S PROVE j + 1 \in S
  <2> SUFFICES ASSUME j + 1 + 1 <= Len(l)
               PROVE  TicksTo(l, r, j + 1 + 1) >= r[l[1]]
    OBVIOUS
  <2>1. TicksTo(l, r, j + 1) >= r[l[1]]
    BY <1>2
  <2>2. /\ TicksTo(l, r, j + 1 + 1) = TicksTo(l, r, j + 1 + 1 - 1) + r[l[j + 1 + 1]]
        /\ j + 1 + 1 - 1 = j + 1
        /\ TicksTo(l, r, j + 1) \in Nat /\ r[l[j + 1 + 1]] \in Nat /\ r[l[1]] \in Nat
    BY <1>1, <1>2
  <2> HIDE DEF S
  <2> QED  BY <2>1, <2>2
<1>5. S = Nat
  <2> HIDE DEF S
  <2>1. S \in SUBSET Nat
    BY DEF S
  <2> QED  BY <1>3, <1>4, <2>1, Induction
<1>6. \A i \in 1..Len(l) : i - 1 \in S /\ i - 1 + 1 = i
  <2> HIDE DEF S
  <2> QED  BY <1>2, <1>5
<1> QED  BY <1>2, <1>6

-----------------------------------------------------------------------------
(* Lists.                                                                  *)

(* A timer is taken out of the list, and the others close up.                *)
LEMMA WithoutList ==
  ASSUME NEW l \in Seq(Timers), NEW t \in Timers, Once(l)
  PROVE  LET m == Without(l, t) IN
         /\ m \in Seq(Timers)
         /\ ~In(l, t) => m = l
         /\ \A k \in 1..Len(l) : l[k] = t =>
              /\ Len(m) = Len(l) - 1
              /\ \A i \in 1..Len(m) : m[i] = IF i < k THEN l[i] ELSE l[i + 1]
<1> DEFINE m == Without(l, t)
<1>1. Len(l) \in Nat
  BY LenProperties
<1>2. ~In(l, t) => m = l
  BY DEF In, Without, RemoveFirst
<1>3. ASSUME NEW k \in 1..Len(l), l[k] = t
      PROVE  /\ m \in Seq(Timers)
             /\ Len(m) = Len(l) - 1
             /\ \A i \in 1..Len(m) : m[i] = IF i < k THEN l[i] ELSE l[i + 1]
  <2>1. {i \in 1..Len(l) : l[i] = t} = {k}
    BY <1>3 DEF Once
  <2>2. Min({k}) = k
    BY <1>1 DEF Min
  <2>3. SelectInSeq(l, LAMBDA v : v = t) = k
    BY <2>1, <2>2 DEF SelectInSeq
  <2>4. m = SubSeq(l, 1, k - 1) \o SubSeq(l, k + 1, Len(l))
    BY <1>3, <2>3 DEF Without, RemoveFirst, RemoveAt
  <2> DEFINE x == SubSeq(l, 1, k - 1)
             y == SubSeq(l, k + 1, Len(l))
  <2>5. /\ x \in Seq(Timers) /\ Len(x) = k - 1
        /\ \A i \in 1..k - 1 : x[i] = l[i]
    <3>1. \A i \in 1..k - 1 : l[i] \in Timers
      BY <1>1, ElementOfSeq
    <3>2. /\ x \in Seq(Timers) /\ Len(x) = IF 1 <= k - 1 THEN k - 1 - 1 + 1 ELSE 0
          /\ \A i \in 1..k - 1 - 1 + 1 : x[i] = l[1 + i - 1]
      BY <1>1, <3>1, SubSeqProperties
    <3> HIDE DEF x
    <3> QED  BY <1>1, <3>2
  <2>6. /\ y \in Seq(Timers) /\ Len(y) = Len(l) - k
        /\ \A i \in 1..Len(l) - k : y[i] = l[k + i]
    <3>1. \A i \in k + 1..Len(l) : l[i] \in Timers
      BY <1>1, ElementOfSeq
    <3>2. /\ y \in Seq(Timers) /\ Len(y) = IF k + 1 <= Len(l) THEN Len(l) - (k + 1) + 1 ELSE 0
          /\ \A i \in 1..Len(l) - (k + 1) + 1 : y[i] = l[k + 1 + i - 1]
      BY <1>1, <3>1, SubSeqProperties
    <3> HIDE DEF y
    <3> QED  BY <1>1, <3>2
  <2> HIDE DEF x, y
  <2>7. /\ x \o y \in Seq(Timers) /\ Len(x \o y) = Len(x) + Len(y)
        /\ \A i \in 1..Len(x) + Len(y) :
             (x \o y)[i] = IF i <= Len(x) THEN x[i] ELSE y[i - Len(x)]
    BY <2>5, <2>6, ConcatProperties
  <2>8. \A i \in 1..Len(l) - 1 : (x \o y)[i] = IF i < k THEN l[i] ELSE l[i + 1]
    <3> TAKE i \in 1..Len(l) - 1
    <3>1. i \in 1..Len(x) + Len(y) /\ (i <= Len(x) <=> i < k)
      BY <1>1, <2>5, <2>6
    <3>2. i < k => i \in 1..k - 1
      BY <1>1
    <3>3. ~(i < k) => i - (k - 1) \in 1..Len(l) - k /\ k + (i - (k - 1)) = i + 1
      BY <1>1
    <3> QED  BY <2>5, <2>6, <2>7, <3>1, <3>2, <3>3
  <2>9. m = x \o y
    BY <2>4 DEF x, y
  <2> HIDE DEF m
  <2>10. Len(x \o y) = Len(l) - 1
    BY <1>1, <2>5, <2>6, <2>7
  <2> QED  BY <2>7, <2>8, <2>9, <2>10
<1>4. m \in Seq(Timers)
  BY <1>2, <1>3 DEF In
<1> QED  BY <1>2, <1>3, <1>4

(* The others are still there, once.                                        *)
LEMMA WithoutOnce ==
  ASSUME NEW l \in Seq(Timers), NEW t \in Timers, Once(l)
  PROVE  LET m == Without(l, t) IN
         /\ Once(m)
         /\ \A u \in Timers : In(m, u) <=> In(l, u) /\ u # t
<1> DEFINE m == Without(l, t)
<1>1. Len(l) \in Nat
  BY LenProperties
<1>2. CASE ~In(l, t)
  BY <1>2, WithoutList DEF In
<1>3. CASE In(l, t)
  <2>1. PICK k \in 1..Len(l) : l[k] = t
    BY <1>3 DEF In
  <2>2. /\ Len(m) = Len(l) - 1
        /\ \A i \in 1..Len(m) : m[i] = IF i < k THEN l[i] ELSE l[i + 1]
    BY <2>1, WithoutList
  <2> HIDE DEF m
  <2>3. Once(m)
    BY <1>1, <2>1, <2>2 DEF Once
  <2>4. ASSUME NEW u \in Timers, In(m, u)
        PROVE  In(l, u) /\ u # t
    <3>1. PICK i \in 1..Len(m) : m[i] = u
      BY <2>4 DEF In
    <3>2. CASE i < k
      BY <1>1, <2>1, <2>2, <3>1, <3>2 DEF In, Once
    <3>3. CASE ~(i < k)
      <4>1. i + 1 \in 1..Len(l) /\ i + 1 # k /\ l[i + 1] = u
        BY <1>1, <2>2, <3>1, <3>3
      <4> QED  BY <2>1, <4>1 DEF In, Once
    <3> QED  BY <3>2, <3>3
  <2>5. ASSUME NEW u \in Timers, In(l, u), u # t
        PROVE  In(m, u)
    <3>1. PICK i \in 1..Len(l) : l[i] = u
      BY <2>5 DEF In
    <3>2. CASE i < k
      <4>1. i \in 1..Len(m) /\ m[i] = u
        BY <1>1, <2>2, <3>1, <3>2
      <4> QED  BY <4>1 DEF In
    <3>3. CASE i > k
      <4>1. i - 1 \in 1..Len(m) /\ m[i - 1] = l[i - 1 + 1] /\ i - 1 + 1 = i
        BY <1>1, <2>2, <3>3
      <4> QED  BY <3>1, <4>1 DEF In
    <3> QED  BY <2>1, <2>5, <3>1, <3>2, <3>3
  <2> QED  BY <2>3, <2>4, <2>5 DEF m
<1> QED  BY <1>2, <1>3

(* A timer that is not in the list is put in behind p others.                *)
LEMMA InsertList ==
  ASSUME NEW l \in Seq(Timers), NEW t \in Timers, NEW p \in 0..Len(l), Once(l), ~In(l, t)
  PROVE  LET m == InsertAt(l, p + 1, t) IN
         /\ m \in Seq(Timers) /\ Len(m) = Len(l) + 1
         /\ \A i \in 1..Len(m) :
              m[i] = IF i <= p THEN l[i] ELSE IF i = p + 1 THEN t ELSE l[i - 1]
         /\ Once(m)
         /\ \A u \in Timers : In(m, u) <=> In(l, u) \/ u = t
<1> DEFINE m == InsertAt(l, p + 1, t)
           x == SubSeq(l, 1, p)
           y == SubSeq(l, p + 1, Len(l))
<1>1. Len(l) \in Nat
  BY LenProperties
<1>2. m = x \o <<t>> \o y
  <2>1. p + 1 - 1 = p
    OBVIOUS
  <2>2. m = SubSeq(l, 1, (p + 1) - 1) \o <<t>> \o y
    BY DEF InsertAt
  <2>3. SubSeq(l, 1, (p + 1) - 1) = x
    BY <2>1
  <2> HIDE DEF m, x, y
  <2> QED  BY <2>2, <2>3
<1>3. /\ x \in Seq(Timers) /\ Len(x) = p
      /\ \A i \in 1..p : x[i] = l[i]
  <2>1. \A i \in 1..p : l[i] \in Timers
    BY <1>1, ElementOfSeq
  <2>2. /\ x \in Seq(Timers) /\ Len(x) = IF 1 <= p THEN p - 1 + 1 ELSE 0
        /\ \A i \in 1..p - 1 + 1 : x[i] = l[1 + i - 1]
    BY <1>1, <2>1, SubSeqProperties
  <2> HIDE DEF x
  <2> QED  BY <1>1, <2>2
<1>4. /\ y \in Seq(Timers) /\ Len(y) = Len(l) - p
      /\ \A i \in 1..Len(l) - p : y[i] = l[p + i]
  <2>1. \A i \in p + 1..Len(l) : l[i] \in Timers
    BY <1>1, ElementOfSeq
  <2>2. /\ y \in Seq(Timers) /\ Len(y) = IF p + 1 <= Len(l) THEN Len(l) - (p + 1) + 1 ELSE 0
        /\ \A i \in 1..Len(l) - (p + 1) + 1 : y[i] = l[p + 1 + i - 1]
    BY <1>1, <2>1, SubSeqProperties
  <2> HIDE DEF y
  <2> QED  BY <1>1, <2>2
<1> HIDE DEF x, y
<1>5. <<t>> \in Seq(Timers) /\ Len(<<t>>) = 1 /\ <<t>>[1] = t
  OBVIOUS
<1> DEFINE z == x \o <<t>>
<1>6. /\ z \in Seq(Timers) /\ Len(z) = p + 1
      /\ \A i \in 1..p + 1 : z[i] = IF i <= p THEN l[i] ELSE t
  <2>1. /\ x \o <<t>> \in Seq(Timers) /\ Len(x \o <<t>>) = Len(x) + Len(<<t>>)
        /\ \A i \in 1..Len(x) + Len(<<t>>) :
             (x \o <<t>>)[i] = IF i <= Len(x) THEN x[i] ELSE <<t>>[i - Len(x)]
    BY <1>3, <1>5, ConcatProperties
  <2> HIDE DEF z
  <2>2. \A i \in 1..p + 1 : (x \o <<t>>)[i] = IF i <= p THEN l[i] ELSE t
    <3> TAKE i \in 1..p + 1
    <3>1. i <= p => i \in 1..p
      OBVIOUS
    <3>2. ~(i <= p) => i - p = 1
      OBVIOUS
    <3> QED  BY <1>3, <1>5, <2>1, <3>1, <3>2
  <2> QED  BY <1>3, <1>5, <2>1, <2>2 DEF z
<1> HIDE DEF z
<1>7. /\ z \o y \in Seq(Timers) /\ Len(z \o y) = Len(z) + Len(y)
      /\ \A i \in 1..Len(z) + Len(y) :
           (z \o y)[i] = IF i <= Len(z) THEN z[i] ELSE y[i - Len(z)]
  BY <1>4, <1>6, ConcatProperties
<1>8. m = z \o y
  BY <1>2 DEF z
<1> HIDE DEF m
<1>9. m \in Seq(Timers) /\ Len(m) = Len(l) + 1
  BY <1>1, <1>4, <1>6, <1>7, <1>8
<1>10. \A i \in 1..Len(m) :
         m[i] = IF i <= p THEN l[i] ELSE IF i = p + 1 THEN t ELSE l[i - 1]
  <2> TAKE i \in 1..Len(m)
  <2>1. i \in 1..Len(z) + Len(y)
    BY <1>1, <1>4, <1>6, <1>9
  <2>2. i <= p + 1 => i \in 1..p + 1 /\ (~(i <= p) => i = p + 1)
    BY <1>1, <1>9
  <2>3. ~(i <= p + 1) => i - (p + 1) \in 1..Len(l) - p /\ p + (i - (p + 1)) = i - 1
    BY <1>1, <1>9
  <2>4. m[i] = IF i <= p + 1 THEN z[i] ELSE y[i - (p + 1)]
    BY <1>6, <1>7, <1>8, <2>1
  <2>5. CASE i <= p + 1
    BY <1>6, <2>2, <2>4, <2>5
  <2>6. CASE ~(i <= p + 1)
    BY <1>4, <1>9, <2>3, <2>4, <2>6
  <2> QED  BY <2>5, <2>6
<1>11. Once(m)
  <2> DEFINE from(i) == IF i <= p THEN i ELSE i - 1
  <2>1. \A i \in 1..Len(m) :
          /\ i # p + 1 => from(i) \in 1..Len(l) /\ m[i] = l[from(i)]
          /\ i = p + 1 => m[i] = t
    BY <1>1, <1>9, <1>10
  <2>2. \A i \in 1..Len(m) : i # p + 1 => m[i] # t
    BY <2>1 DEF In
  <2>3. \A i, j \in 1..Len(m) : i # p + 1 /\ j # p + 1 /\ from(i) = from(j) => i = j
    BY <1>1, <1>9
  <2> HIDE DEF from
  <2> QED  BY <2>1, <2>2, <2>3 DEF Once
<1>12. \A u \in Timers : In(m, u) <=> In(l, u) \/ u = t
  <2>1. ASSUME NEW u \in Timers, In(m, u)
        PROVE  In(l, u) \/ u = t
    <3>1. PICK i \in 1..Len(m) : m[i] = u
      BY <2>1 DEF In
    <3>2. CASE i <= p
      <4>1. i \in 1..Len(l) /\ l[i] = u
        BY <1>1, <1>10, <3>1, <3>2
      <4> QED  BY <4>1 DEF In
    <3>3. CASE i > p + 1
      <4>1. i - 1 \in 1..Len(l) /\ l[i - 1] = u
        BY <1>1, <1>9, <1>10, <3>1, <3>3
      <4> QED  BY <4>1 DEF In
    <3>4. i = p + 1 => u = t
      BY <1>10, <3>1
    <3> QED  BY <1>1, <1>9, <3>1, <3>2, <3>3, <3>4
  <2>2. ASSUME NEW u \in Timers, In(l, u)
        PROVE  In(m, u)
    <3>1. PICK i \in 1..Len(l) : l[i] = u
      BY <2>2 DEF In
    <3>2. CASE i <= p
      <4>1. i \in 1..Len(m) /\ m[i] = u
        BY <1>1, <1>9, <1>10, <3>1, <3>2
      <4> QED  BY <4>1 DEF In
    <3>3. CASE i > p
      <4>1. i + 1 \in 1..Len(m) /\ ~(i + 1 <= p) /\ i + 1 # p + 1 /\ i + 1 - 1 = i
        BY <1>1, <1>9, <3>3
      <4>2. m[i + 1] = u
        BY <1>10, <3>1, <4>1
      <4> QED  BY <4>1, <4>2 DEF In
    <3> QED  BY <3>2, <3>3
  <2>3. In(m, t)
    <3>1. p + 1 \in 1..Len(m) /\ ~(p + 1 <= p)
      BY <1>1, <1>9
    <3>2. m[p + 1] = t
      BY <1>10, <3>1
    <3> QED  BY <3>1, <3>2 DEF In
  <2> QED  BY <2>1, <2>2, <2>3
<1> QED  BY <1>9, <1>10, <1>11, <1>12 DEF m

-----------------------------------------------------------------------------
(* The ticks when a timer is taken out or put in.                            *)

Alike(l, r, k, q, n) == \A j \in 1..n : r[l[j]] = q[k[j]]
SameTicks(l, r, k, q, n) == \A j \in 0..n : TicksTo(l, r, j) = TicksTo(k, q, j)

(* Lists that begin alike have the same ticks so far.                        *)
LEMMA TicksAlike ==
  ASSUME NEW l \in Seq(Timers), NEW r \in [Timers -> Nat],
         NEW k \in Seq(Timers), NEW q \in [Timers -> Nat],
         NEW n \in Nat, n <= Len(l), n <= Len(k), Alike(l, r, k, q, n)
  PROVE  SameTicks(l, r, k, q, n)
<1> DEFINE z == 0
<1>1. z \in Nat /\ z \in Int /\ z + n = n
  OBVIOUS
<1>2. Apart(TicksTo(l, r, z), TicksTo(k, q, z), z)
  <2>1. TicksTo(l, r, 0) = 0 /\ TicksTo(k, q, 0) = 0
    BY TicksStep
  <2> QED  BY <2>1 DEF Apart
<1>3. \A j \in 1..n : r[l[z + j]] = q[k[z + j]]
  BY DEF Alike
<1> HIDE DEF z
<1>4. \A j \in 0..n : Apart(TicksTo(l, r, z + j), TicksTo(k, q, z + j), z)
  BY <1>1, <1>2, <1>3, TicksAlong
<1>5. ASSUME NEW j \in 0..n
      PROVE  TicksTo(l, r, j) = TicksTo(k, q, j)
  <2>1. TicksTo(k, q, j) \in Nat
    BY LenProperties, TicksStep
  <2>2. TicksTo(l, r, j) = TicksTo(k, q, j) + 0
    BY <1>4 DEF Apart, z
  <2> QED  BY <2>1, <2>2
<1> QED  BY <1>5 DEF SameTicks

(* Only the elements' own ticks count.                                      *)
LEMMA TicksSame ==
  ASSUME NEW l \in Seq(Timers), NEW r \in [Timers -> Nat], NEW q \in [Timers -> Nat],
         \A i \in 1..Len(l) : r[l[i]] = q[l[i]]
  PROVE  \A i \in 0..Len(l) : TicksTo(l, r, i) = TicksTo(l, q, i)
<1> DEFINE n == Len(l)
<1>1. n \in Nat /\ n <= Len(l)
  BY LenProperties
<1>2. Alike(l, r, l, q, n)
  BY DEF Alike
<1> HIDE DEF n
<1>3. SameTicks(l, r, l, q, n)
  BY <1>1, <1>2, TicksAlike
<1> QED  BY <1>3 DEF SameTicks, n

(* Those before t keep their ticks, those behind it lose the ticks of t.       *)
LEMMA TicksWithout ==
  ASSUME NEW l \in Seq(Timers), NEW t \in Timers, Once(l), NEW r \in [Timers -> Nat],
         NEW k \in 1..Len(l), l[k] = t
  PROVE  LET m == Without(l, t) IN
         /\ \A i \in 0..k - 1 : TicksTo(m, r, i) = TicksTo(l, r, i)
         /\ \A i \in k - 1..Len(l) - 1 : TicksTo(m, r, i) = TicksTo(l, r, i + 1) - r[t]
<1> DEFINE m == Without(l, t)
<1>1. Len(l) \in Nat
  BY LenProperties
<1>2. /\ m \in Seq(Timers) /\ Len(m) = Len(l) - 1
      /\ \A i \in 1..Len(m) : m[i] = IF i < k THEN l[i] ELSE l[i + 1]
  BY WithoutList
<1> HIDE DEF m
<1>3. \A i \in 0..k - 1 : TicksTo(m, r, i) = TicksTo(l, r, i)
  <2>1. k - 1 \in Nat /\ k - 1 <= Len(m) /\ k - 1 <= Len(l)
    BY <1>1, <1>2
  <2>2. Alike(m, r, l, r, k - 1)
    <3>1. \A j \in 1..k - 1 : j \in 1..Len(m) /\ j < k
      BY <1>1, <1>2
    <3> QED  BY <1>2, <3>1 DEF Alike
  <2>3. SameTicks(m, r, l, r, k - 1)
    BY <1>2, <2>1, <2>2, TicksAlike
  <2> QED  BY <2>3 DEF SameTicks
<1>4. TicksTo(m, r, k - 1) = TicksTo(l, r, k) - r[t]
  <2>1. TicksTo(l, r, k) = TicksTo(l, r, k - 1) + r[l[k]]
    BY TicksStep
  <2>2. TicksTo(l, r, k - 1) \in Nat /\ r[t] \in Nat
    BY <1>1, TicksStep
  <2> QED  BY <1>1, <1>3, <2>1, <2>2
<1>5. \A i \in k - 1..Len(l) - 1 : TicksTo(m, r, i) = TicksTo(l, r, i + 1) - r[t]
  <2> DEFINE n == Len(l) - k
             c == 0 - r[t]
             a == k - 1
  <2>1. /\ a \in Nat /\ k \in Nat /\ n \in Nat /\ c \in Int
        /\ a + n <= Len(m) /\ k + n <= Len(l)
    BY <1>1, <1>2
  <2>2. Apart(TicksTo(m, r, a), TicksTo(l, r, k), c)
    <3>1. TicksTo(l, r, k) \in Nat /\ r[t] \in Nat
      BY <1>1, TicksStep
    <3> QED  BY <1>4, <3>1 DEF Apart
  <2>3. \A j \in 1..n : r[m[a + j]] = r[l[k + j]]
    <3> TAKE j \in 1..n
    <3>1. a + j \in 1..Len(m) /\ ~(a + j < k) /\ (a + j) + 1 = k + j
      BY <1>1, <1>2
    <3> QED  BY <1>2, <3>1
  <2> HIDE DEF n, c, a
  <2>4. \A j \in 0..n : Apart(TicksTo(m, r, a + j), TicksTo(l, r, k + j), c)
    BY <1>2, <2>1, <2>2, <2>3, TicksAlong
  <2>5. ASSUME NEW i \in k - 1..Len(l) - 1
        PROVE  TicksTo(m, r, i) = TicksTo(l, r, i + 1) - r[t]
    <3>1. /\ i - a \in 0..n /\ a + (i - a) = i
          /\ k + (i - a) = i + 1 /\ i + 1 \in 0..Len(l)
      BY <1>1 DEF n, a
    <3>2. TicksTo(m, r, i) = TicksTo(l, r, i + 1) + c
      BY <2>4, <3>1 DEF Apart
    <3>3. TicksTo(l, r, i + 1) \in Nat /\ r[t] \in Nat
      BY <3>1, TicksStep
    <3> QED  BY <3>2, <3>3 DEF c
  <2> QED  BY <2>5
<1> QED  BY <1>3, <1>5 DEF m

(* The place of armv7m_timer_insert: behind all that expire no later.          *)
Passed(l, r, timeout) == Max({i \in 0..Len(l) : TicksTo(l, r, i) <= timeout})

LEMMA PassedFits ==
  ASSUME NEW l \in Seq(Timers), NEW r \in [Timers -> Nat], NEW timeout \in Nat
  PROVE  LET p == Passed(l, r, timeout) IN
         /\ p \in 0..Len(l)
         /\ TicksTo(l, r, p) \in Nat /\ TicksTo(l, r, p) <= timeout
         /\ p < Len(l) => TicksTo(l, r, p) + r[l[p + 1]] > timeout
<1> DEFINE S == {i \in 0..Len(l) : TicksTo(l, r, i) <= timeout}
<1>1. Len(l) \in Nat
  BY LenProperties
<1>2. 0 \in S
  BY <1>1, TicksStep
<1>3. S \in SUBSET (0..Len(l)) /\ S # {}
  BY <1>2
<1>4. Max(S) \in S /\ \A y \in S : y <= Max(S)
  <2> HIDE DEF S
  <2> QED  BY <1>1, <1>3, Largest
<1> DEFINE p == Passed(l, r, timeout)
<1>5. p = Max(S)
  BY DEF Passed
<1>6. p \in 0..Len(l) /\ TicksTo(l, r, p) <= timeout
  BY <1>4, <1>5
<1>7. TicksTo(l, r, p) \in Nat
  BY <1>6, TicksStep
<1>8. ASSUME p < Len(l)
      PROVE  TicksTo(l, r, p) + r[l[p + 1]] > timeout
  <2> HIDE DEF p
  <2>1. p + 1 \in 1..Len(l) /\ p + 1 \in 0..Len(l) /\ (p + 1) - 1 = p
    BY <1>1, <1>6, <1>8
  <2>2. p + 1 \notin S
    <3> HIDE DEF S
    <3> QED  BY <1>4, <1>5, <1>6
  <2>3. ~(TicksTo(l, r, p + 1) <= timeout)
    BY <2>1, <2>2
  <2>4. TicksTo(l, r, p + 1) = TicksTo(l, r, (p + 1) - 1) + r[l[p + 1]]
    BY <2>1, TicksStep
  <2>5. TicksTo(l, r, p + 1) \in Nat
    BY <2>1, TicksStep
  <2> QED  BY <2>1, <2>3, <2>4, <2>5
<1> HIDE DEF p
<1> QED  BY <1>6, <1>7, <1>8 DEF p

(* The ticks that armv7m_timer_insert leaves: those of t come off its        *)
(* successor's.                                                            *)
Shortened(l, r, t, timeout) ==
  LET p == Passed(l, r, timeout)
      ticks == timeout - TicksTo(l, r, p)
  IN [u \in Timers |-> CASE u = t -> ticks
                        [] p < Len(l) /\ u = l[p + 1] -> r[u] - ticks
                        [] OTHER -> r[u]]

(* They are ticks: the successor has more than t leaves it.                  *)
LEMMA ShortenedFits ==
  ASSUME NEW l \in Seq(Timers), NEW t \in Timers, ~In(l, t),
         NEW r \in [Timers -> Nat], NEW timeout \in Nat
  PROVE  /\ Shortened(l, r, t, timeout) \in [Timers -> Nat]
         /\ \A u \in Timers : \/ Shortened(l, r, t, timeout)[u] <= r[u]
                              \/ Shortened(l, r, t, timeout)[u] <= timeout
<1> DEFINE p == Passed(l, r, timeout)
           q == Shortened(l, r, t, timeout)
           x == TicksTo(l, r, p)
           ticks == timeout - x
<1>1. /\ p \in 0..Len(l) /\ x \in Nat /\ x <= timeout
      /\ p < Len(l) => x + r[l[p + 1]] > timeout
  BY PassedFits
<1>2. q = [u \in Timers |-> CASE u = t -> ticks
                             [] p < Len(l) /\ u = l[p + 1] -> r[u] - ticks
                             [] OTHER -> r[u]]
  BY DEF Shortened
<1> HIDE DEF p, q, x
<1>3. Len(l) \in Nat
  BY LenProperties
<1>4. ticks \in Nat /\ ticks <= timeout
  BY <1>1
<1>5. ASSUME NEW u \in Timers
      PROVE  q[u] \in Nat /\ (q[u] <= r[u] \/ q[u] <= timeout)
  <2>1. r[u] \in Nat
    OBVIOUS
  <2>2. CASE u = t
    <3>1. q[u] = ticks
      <4>1. p < Len(l) => l[p + 1] # t
        BY <1>3, <1>1 DEF In
      <4> HIDE DEF ticks
      <4> QED  BY <1>2, <2>2, <4>1
    <3> QED  BY <1>4, <3>1
  <2>3. CASE u # t /\ p < Len(l) /\ u = l[p + 1]
    <3>1. q[u] = r[u] - ticks
      BY <1>2, <2>3
    <3>2. x + r[u] > timeout
      BY <1>1, <2>3
    <3> QED  BY <1>1, <1>4, <2>1, <3>1, <3>2
  <2>4. CASE u # t /\ ~(p < Len(l) /\ u = l[p + 1])
    BY <1>2, <2>1, <2>4
  <2> QED  BY <2>2, <2>3, <2>4
<1>6. q \in [Timers -> Nat]
  BY <1>2, <1>5
<1> QED  BY <1>5, <1>6 DEF q

(* A timer that is put in gets its ticks, and the others keep theirs.         *)
LEMMA TicksInsert ==
  ASSUME NEW l \in Seq(Timers), NEW t \in Timers, Once(l), ~In(l, t),
         NEW r \in [Timers -> Nat], NEW timeout \in Nat
  PROVE  LET p == Passed(l, r, timeout)
             m == InsertAt(l, p + 1, t)
             q == Shortened(l, r, t, timeout)
         IN /\ \A i \in 0..p : TicksTo(m, q, i) = TicksTo(l, r, i)
            /\ TicksTo(m, q, p + 1) = timeout
            /\ \A i \in p + 1..Len(l) : TicksTo(m, q, i + 1) = TicksTo(l, r, i)
<1> DEFINE p == Passed(l, r, timeout)
           m == InsertAt(l, p + 1, t)
           q == Shortened(l, r, t, timeout)
           ticks == timeout - TicksTo(l, r, p)
<1>1. Len(l) \in Nat /\ \A i \in 1..Len(l) : l[i] \in Timers /\ l[i] # t
  BY LenProperties, ElementOfSeq DEF In
<1>2. p \in 0..Len(l) /\ TicksTo(l, r, p) \in Nat /\ TicksTo(l, r, p) <= timeout
  BY PassedFits
<1>3. q \in [Timers -> Nat]
  BY ShortenedFits
<1>4. \A u \in Timers : q[u] = CASE u = t -> ticks
                                 [] p < Len(l) /\ u = l[p + 1] -> r[u] - ticks
                                 [] OTHER -> r[u]
  BY DEF Shortened
<1> HIDE DEF p, q
<1>5. /\ m \in Seq(Timers) /\ Len(m) = Len(l) + 1
      /\ \A i \in 1..Len(m) :
           m[i] = IF i <= p THEN l[i] ELSE IF i = p + 1 THEN t ELSE l[i - 1]
  BY <1>2, InsertList
<1>6. ticks \in Nat
  BY <1>2
<1> HIDE DEF m, ticks
<1>7. Len(l) \in Nat /\ p \in Nat /\ p <= Len(l) /\ Len(m) = Len(l) + 1
  BY <1>1, <1>2, <1>5
<1>8. \A i \in 1..Len(l) : i # p + 1 => q[l[i]] = r[l[i]]
  <2> TAKE i \in 1..Len(l)
  <2>1. i # p + 1 /\ p < Len(l) => l[i] # l[p + 1]
    BY <1>1, <1>2 DEF Once
  <2> QED  BY <1>1, <1>4, <2>1
<1>9. q[t] = ticks /\ (p < Len(l) => q[l[p + 1]] = r[l[p + 1]] - ticks)
  <2>1. p < Len(l) => l[p + 1] \in Timers /\ l[p + 1] # t
    BY <1>1, <1>2
  <2> QED  BY <1>4, <2>1
<1>10. \A i \in 0..p : TicksTo(m, q, i) = TicksTo(l, r, i)
  <2>1. p \in Nat /\ p <= Len(m) /\ p <= Len(l)
    BY <1>7
  <2>2. Alike(m, q, l, r, p)
    <3> SUFFICES ASSUME NEW j \in 1..p PROVE q[m[j]] = r[l[j]]
      BY DEF Alike
    <3>1. j \in 1..Len(m) /\ j \in 1..Len(l) /\ j <= p /\ j # p + 1
      BY <1>7
    <3>2. m[j] = l[j]
      BY <1>5, <3>1
    <3> QED  BY <1>8, <3>1, <3>2
  <2>3. m \in Seq(Timers)
    BY <1>5
  <2>4. SameTicks(m, q, l, r, p)
    BY <1>3, <2>1, <2>2, <2>3, TicksAlike
  <2> QED  BY <2>4 DEF SameTicks
<1>11. TicksTo(m, q, p + 1) = timeout
  <2>1. p + 1 \in 1..Len(m) /\ (p + 1) - 1 = p /\ ~(p + 1 <= p)
    BY <1>7
  <2>2. m[p + 1] = t
    BY <1>5, <2>1
  <2>3. TicksTo(m, q, p + 1) = TicksTo(m, q, (p + 1) - 1) + q[m[p + 1]]
    BY <1>5, <1>3, <2>1, TicksStep
  <2>4. TicksTo(m, q, p) = TicksTo(l, r, p)
    BY <1>2, <1>10
  <2>5. ticks = timeout - TicksTo(l, r, p)
    BY DEF ticks
  <2> QED  BY <1>2, <1>9, <2>1, <2>2, <2>3, <2>4, <2>5
<1>12. ASSUME p < Len(l)
      PROVE  TicksTo(m, q, p + 2) = TicksTo(l, r, p + 1)
  <2>1. /\ p + 2 \in 1..Len(m) /\ (p + 2) - 1 = p + 1 /\ ~(p + 2 <= p) /\ p + 2 # p + 1
        /\ p + 1 \in 1..Len(l) /\ (p + 1) - 1 = p
    BY <1>12, <1>7
  <2>2. m[p + 2] = l[p + 1]
    BY <1>5, <2>1
  <2>3. TicksTo(m, q, p + 2) = TicksTo(m, q, (p + 2) - 1) + q[m[p + 2]]
    BY <1>5, <1>3, <2>1, TicksStep
  <2>4. TicksTo(l, r, p + 1) = TicksTo(l, r, (p + 1) - 1) + r[l[p + 1]]
    BY <2>1, TicksStep
  <2>5. r[l[p + 1]] \in Nat
    BY <1>1, <2>1
  <2>6. TicksTo(m, q, p + 2) = timeout + (r[l[p + 1]] - ticks)
    BY <1>9, <1>11, <1>12, <2>1, <2>2, <2>3
  <2>7. ticks = timeout - TicksTo(l, r, p)
    BY DEF ticks
  <2> QED  BY <1>2, <2>1, <2>4, <2>5, <2>6, <2>7
<1>13. \A i \in p + 1..Len(l) : TicksTo(m, q, i + 1) = TicksTo(l, r, i)
  <2> SUFFICES ASSUME p < Len(l)
               PROVE  \A i \in p + 1..Len(l) : TicksTo(m, q, i + 1) = TicksTo(l, r, i)
    BY <1>1, <1>2
  <2> DEFINE n == Len(l) - (p + 1)
             a == p + 2
             b == p + 1
             z == 0
  <2>1. /\ a \in Nat /\ b \in Nat /\ n \in Nat /\ z \in Int
        /\ a + n <= Len(m) /\ b + n <= Len(l)
    BY <1>7
  <2>2. Apart(TicksTo(m, q, a), TicksTo(l, r, b), z)
    <3>1. TicksTo(l, r, p + 1) \in Nat
      BY <1>1, <1>2, TicksStep
    <3> QED  BY <1>12, <3>1 DEF Apart
  <2>3. \A j \in 1..n : q[m[a + j]] = r[l[b + j]]
    <3> TAKE j \in 1..n
    <3>1. /\ a + j \in 1..Len(m) /\ ~(a + j <= p) /\ a + j # p + 1
          /\ (a + j) - 1 = b + j
          /\ b + j \in 1..Len(l) /\ b + j # p + 1
      BY <1>7
    <3>2. m[a + j] = l[b + j]
      BY <1>5, <3>1
    <3> QED  BY <1>8, <3>1, <3>2
  <2> HIDE DEF n, a, b, z
  <2>4. \A j \in 0..n : Apart(TicksTo(m, q, a + j), TicksTo(l, r, b + j), z)
    BY <1>5, <1>3, <2>1, <2>2, <2>3, TicksAlong
  <2>5. ASSUME NEW i \in p + 1..Len(l)
        PROVE  TicksTo(m, q, i + 1) = TicksTo(l, r, i)
    <3>1. /\ i - b \in 0..n /\ a + (i - b) = i + 1
          /\ b + (i - b) = i /\ i \in 0..Len(l)
      BY <1>1, <1>2 DEF n, a, b
    <3>2. TicksTo(l, r, i) \in Nat
      BY <3>1, TicksStep
    <3> QED  BY <2>4, <3>1, <3>2 DEF Apart, z
  <2> QED  BY <2>5
<1> QED  BY <1>10, <1>11, <1>13 DEF m, p, q

-----------------------------------------------------------------------------
(* What the two operations on the list do to each timer.                     *)

(* The i-th element of m is a timer of l, other than t, with the ticks it had.  *)
Kept(l, r, m, q, t, i) ==
  \E j \in 1..Len(l) : /\ l[j] = m[i] /\ l[j] # t
                       /\ TicksTo(m, q, i) = TicksTo(l, r, j)

(* Taking out t disturbs the others only if t had ticks and was not the last.  *)
LEMMA WithoutKept ==
  ASSUME NEW l \in Seq(Timers), NEW t \in Timers, Once(l), NEW r \in [Timers -> Nat],
         In(l, t) => r[t] = 0 \/ l[Len(l)] = t
  PROVE  \A i \in 1..Len(Without(l, t)) : Kept(l, r, Without(l, t), r, t, i)
<1> DEFINE m == Without(l, t)
<1>1. Len(l) \in Nat
  BY LenProperties
<1>2. CASE ~In(l, t)
  <2>1. m = l
    BY <1>2, WithoutList
  <2>2. \A i \in 1..Len(l) : l[i] # t
    BY <1>2 DEF In
  <2> QED  BY <2>1, <2>2 DEF Kept
<1>3. CASE In(l, t)
  <2>1. PICK k \in 1..Len(l) : l[k] = t
    BY <1>3 DEF In
  <2>2. /\ Len(m) = Len(l) - 1
        /\ \A i \in 1..Len(m) : m[i] = IF i < k THEN l[i] ELSE l[i + 1]
    BY <2>1, WithoutList
  <2>3. /\ \A i \in 0..k - 1 : TicksTo(m, r, i) = TicksTo(l, r, i)
        /\ \A i \in k - 1..Len(l) - 1 : TicksTo(m, r, i) = TicksTo(l, r, i + 1) - r[t]
    BY <2>1, TicksWithout
  <2> HIDE DEF m
  <2>4. ASSUME NEW i \in 1..Len(m)
        PROVE  Kept(l, r, m, r, t, i)
    <3>1. CASE i < k
      <4>1. i \in 1..Len(l) /\ i \in 0..k - 1 /\ i # k
        BY <1>1, <2>1, <3>1
      <4>2. m[i] = l[i] /\ l[i] # t
        BY <2>1, <2>2, <3>1, <4>1 DEF Once
      <4> QED  BY <2>3, <4>1, <4>2 DEF Kept
    <3>2. CASE ~(i < k)
      <4>1. i + 1 \in 1..Len(l) /\ i + 1 \in 0..Len(l) /\ i \in k - 1..Len(l) - 1 /\ i + 1 # k
        BY <1>1, <2>1, <2>2, <3>2
      <4>2. m[i] = l[i + 1] /\ l[i + 1] # t
        BY <2>1, <2>2, <3>2, <4>1 DEF Once
      <4>3. r[t] = 0
        <5>1. k # Len(l) /\ Len(l) \in 1..Len(l)
          BY <1>1, <2>1, <2>2, <3>2
        <5> QED  BY <1>3, <2>1, <5>1 DEF Once
      <4>4. TicksTo(l, r, i + 1) \in Nat
        BY <4>1, TicksStep
      <4>5. TicksTo(m, r, i) = TicksTo(l, r, i + 1) - r[t]
        BY <2>3, <4>1
      <4>6. TicksTo(m, r, i) = TicksTo(l, r, i + 1)
        BY <4>3, <4>4, <4>5
      <4> QED  BY <4>1, <4>2, <4>6 DEF Kept
    <3> QED  BY <3>1, <3>2
  <2> QED  BY <2>4 DEF m
<1> QED  BY <1>2, <1>3

(* Putting in t disturbs no other.                                          *)
LEMMA InsertKept ==
  ASSUME NEW l \in Seq(Timers), NEW t \in Timers, Once(l), ~In(l, t),
         NEW r \in [Timers -> Nat], NEW timeout \in Nat
  PROVE  LET m == InsertAt(l, Passed(l, r, timeout) + 1, t)
             q == Shortened(l, r, t, timeout)
         IN \A i \in 1..Len(m) : \/ m[i] = t /\ TicksTo(m, q, i) = timeout
                                 \/ Kept(l, r, m, q, t, i)
<1> DEFINE p == Passed(l, r, timeout)
           m == InsertAt(l, p + 1, t)
           q == Shortened(l, r, t, timeout)
<1>1. Len(l) \in Nat /\ \A i \in 1..Len(l) : l[i] # t
  BY LenProperties DEF In
<1>2. p \in 0..Len(l)
  BY PassedFits
<1>3. /\ \A i \in 0..p : TicksTo(m, q, i) = TicksTo(l, r, i)
      /\ TicksTo(m, q, p + 1) = timeout
      /\ \A i \in p + 1..Len(l) : TicksTo(m, q, i + 1) = TicksTo(l, r, i)
  BY TicksInsert
<1> HIDE DEF p, q
<1>4. /\ Len(m) = Len(l) + 1
      /\ \A i \in 1..Len(m) :
           m[i] = IF i <= p THEN l[i] ELSE IF i = p + 1 THEN t ELSE l[i - 1]
  BY <1>2, InsertList
<1> HIDE DEF m
<1>5. ASSUME NEW i \in 1..Len(m)
      PROVE  (m[i] = t /\ TicksTo(m, q, i) = timeout) \/ Kept(l, r, m, q, t, i)
  <2>1. CASE i <= p
    <3>1. i \in 1..Len(l) /\ i \in 0..p
      BY <1>1, <1>2, <2>1
    <3> QED  BY <1>1, <1>3, <1>4, <2>1, <3>1 DEF Kept
  <2>2. CASE i = p + 1
    <3>1. ~(i <= p)
      BY <1>2, <2>2
    <3> QED  BY <1>3, <1>4, <2>2, <3>1
  <2>3. CASE i > p + 1
    <3>1. /\ i - 1 \in 1..Len(l) /\ i - 1 \in p + 1..Len(l) /\ (i - 1) + 1 = i
          /\ ~(i <= p) /\ i # p + 1
      BY <1>1, <1>2, <1>4, <2>3
    <3>2. TicksTo(m, q, (i - 1) + 1) = TicksTo(l, r, i - 1)
      BY <1>3, <3>1
    <3>3. m[i] = l[i - 1]
      BY <1>4, <3>1
    <3> QED  BY <1>1, <3>1, <3>2, <3>3 DEF Kept
  <2> QED  BY <1>2, <1>4, <2>1, <2>2, <2>3
<1> QED  BY <1>5 DEF m, p, q

ListOK == list \in Seq(Timers) /\ remaining \in [Timers -> 0..Word - 1] /\ Once(list)

LEMMA Words == Word \in Nat /\ MaxTimeout \in Nat /\ MaxTimeout < Word
               /\ \A timeout \in Timeout : timeout \in Nat /\ timeout < Word
  BY BoundAssumption DEF Timeout

LEMMA ListNats == ListOK => remaining \in [Timers -> Nat]
<1>1. \A x \in 0..Word - 1 : x \in Nat
  BY Words
<1> QED  BY <1>1 DEF ListOK

(* armv7m_timer_insert, whether t was linked or not.                         *)
LEMMA Linking ==
  ASSUME ListOK, NEW t \in Timers, NEW timeout \in Timeout, Link(t, timeout)
  PROVE  /\ ListOK'
         /\ \A u \in Timers : In(list', u) <=> In(list, u) \/ u = t
         /\ ~Disturbs(t) => \A i \in 1..Len(list') :
              \/ list'[i] = t /\ TicksTo(list', remaining', i) = timeout
              \/ Kept(list, remaining, list', remaining', t, i)
<1> DEFINE l == Without(list, t)
           p == Passed(l, remaining, timeout)
<1>1. list' = InsertAt(l, p + 1, t) /\ remaining' = Shortened(l, remaining, t, timeout)
  BY DEF Link, Passed, Shortened
<1>2. timeout \in Nat /\ timeout < Word
  BY Words
<1>3. /\ list \in Seq(Timers) /\ Once(list) /\ remaining \in [Timers -> Nat]
      /\ \A u \in Timers : remaining[u] \in Nat /\ remaining[u] < Word
  <2>1. \A x \in 0..Word - 1 : x \in Nat /\ x < Word
    BY Words
  <2> QED  BY <2>1 DEF ListOK
<1>4. l \in Seq(Timers) /\ Once(l) /\ \A u \in Timers : In(l, u) <=> In(list, u) /\ u # t
  BY <1>3, WithoutList, WithoutOnce
<1>5. ~Disturbs(t) => \A i \in 1..Len(l) : Kept(list, remaining, l, remaining, t, i)
  <2>1. ~Disturbs(t) /\ In(list, t) => remaining[t] = 0 \/ list[Len(list)] = t
    BY <1>3 DEF Disturbs, In, Linked
  <2> QED  BY <1>3, <2>1, WithoutKept
<1> HIDE DEF l
<1>6. p \in 0..Len(l)
  BY <1>2, <1>3, <1>4, PassedFits
<1>7. ~In(l, t)
  BY <1>4
<1>8. \A i \in 1..Len(list') : \/ list'[i] = t /\ TicksTo(list', remaining', i) = timeout
                               \/ Kept(l, remaining, list', remaining', t, i)
  BY <1>1, <1>2, <1>3, <1>4, <1>7, InsertKept
<1>9. remaining' \in [Timers -> 0..Word - 1]
  <2>1. /\ remaining' \in [Timers -> Nat]
        /\ \A u \in Timers : remaining'[u] <= remaining[u] \/ remaining'[u] <= timeout
    BY <1>1, <1>2, <1>3, <1>4, <1>7, ShortenedFits
  <2>2. ASSUME NEW u \in Timers
        PROVE  remaining'[u] \in 0..Word - 1
    <3>1. remaining'[u] \in Nat /\ remaining'[u] < Word
      <4>1. remaining'[u] \in Nat /\ remaining[u] \in Nat /\ remaining[u] < Word
        BY <1>3, <2>1
      <4>2. remaining'[u] <= remaining[u] \/ remaining'[u] <= timeout
        BY <2>1
      <4> QED  BY <1>2, <4>1, <4>2, Words
    <3> QED  BY <3>1, Words
  <2> QED  BY <2>1, <2>2
<1> HIDE DEF p
<1>10. /\ list' \in Seq(Timers) /\ Once(list')
       /\ \A u \in Timers : In(list', u) <=> In(l, u) \/ u = t
  BY <1>1, <1>4, <1>6, <1>7, InsertList
<1>11. ASSUME NEW i, NEW j, list'[i] = l[j], Kept(list, remaining, l, remaining, t, j),
              TicksTo(list', remaining', i) = TicksTo(l, remaining, j)
       PROVE  Kept(list, remaining, list', remaining', t, i)
  BY <1>11 DEF Kept
<1>12. ASSUME ~Disturbs(t), NEW i \in 1..Len(list'),
              Kept(l, remaining, list', remaining', t, i)
       PROVE  Kept(list, remaining, list', remaining', t, i)
  <2>1. PICK j \in 1..Len(l) : /\ l[j] = list'[i]
                               /\ TicksTo(list', remaining', i) = TicksTo(l, remaining, j)
    BY <1>12 DEF Kept
  <2>2. Kept(list, remaining, l, remaining, t, j)
    BY <1>5, <1>12
  <2> QED  BY <1>11, <2>1, <2>2
<1> QED  BY <1>4, <1>8, <1>9, <1>10, <1>12 DEF ListOK

(* armv7m_timer_remove, whether t was linked or not.                         *)
LEMMA Unlinking ==
  ASSUME ListOK, NEW t \in Timers, Unlink(t)
  PROVE  /\ ListOK'
         /\ \A u \in Timers : In(list', u) <=> In(list, u) /\ u # t
         /\ ~Disturbs(t) =>
              \A i \in 1..Len(list') : Kept(list, remaining, list', remaining', t, i)
<1>1. list' = Without(list, t) /\ remaining' = [remaining EXCEPT ![t] = 0]
  BY DEF Unlink
<1>2. list \in Seq(Timers) /\ Once(list) /\ remaining \in [Timers -> Nat]
  BY ListNats DEF ListOK
<1>3. /\ list' \in Seq(Timers) /\ Once(list')
      /\ \A u \in Timers : In(list', u) <=> In(list, u) /\ u # t
  BY <1>1, <1>2, WithoutList, WithoutOnce
<1>4. remaining' \in [Timers -> 0..Word - 1] /\ remaining' \in [Timers -> Nat]
  <2>1. 0 \in 0..Word - 1
    BY Words
  <2> QED  BY <1>1, <1>2, <2>1 DEF ListOK
<1>5. ~Disturbs(t) => \A i \in 1..Len(list') : Kept(list, remaining, list', remaining, t, i)
  <2>1. ~Disturbs(t) /\ In(list, t) => remaining[t] = 0 \/ list[Len(list)] = t
    BY <1>2 DEF Disturbs, In, Linked
  <2> QED  BY <1>1, <1>2, <2>1, WithoutKept
<1>6. \A i \in 1..Len(list') : list'[i] \in Timers /\ list'[i] # t
  BY <1>3, ElementOfSeq DEF In
<1>7. \A i \in 0..Len(list') : TicksTo(list', remaining, i) = TicksTo(list', remaining', i)
  <2>1. \A i \in 1..Len(list') : remaining[list'[i]] = remaining'[list'[i]]
    BY <1>1, <1>2, <1>6
  <2> QED  BY <1>2, <1>3, <1>4, <2>1, TicksSame
<1>8. \A i \in 1..Len(list') : i \in 0..Len(list')
  BY <1>3, LenProperties
<1> QED  BY <1>3, <1>4, <1>5, <1>7, <1>8 DEF ListOK, Kept

-----------------------------------------------------------------------------
(* The queue of deferred calls.                                              *)

LEMMA Bounds ==
  /\ MaxMillis \in Nat /\ MaxTimeout \in Nat /\ MaxCalls \in Nat /\ Capacity \in Nat
  /\ \A timeout \in Timeout : timeout \in Nat /\ timeout <= MaxTimeout
  BY BoundAssumption DEF Timeout

LEMMA Entries ==
  ASSUME NEW e \in Entry
  PROVE  /\ e # None
         /\ e.op \in {"insert", "remove", "tick"}
         /\ IsTick(e) => e.millis \in Nat
         /\ e.op # "tick" => e.timer \in Timers
         /\ e.op = "insert" => /\ e.timeout \in Timeout /\ e.due \in Nat
                               /\ e.due <= MaxMillis + MaxTimeout
                               /\ Asked(e) \in Int /\ e.due = Asked(e) + e.timeout
<1>1. e # None
  BY NoneAssumption DEF Entry
<1>2. CASE e \in Insertion
  BY <1>1, <1>2, Bounds DEF Insertion, IsTick, Asked
<1>3. CASE e \in Removal
  BY <1>1, <1>3 DEF Removal, IsTick
<1>4. CASE e \in Tick
  BY <1>1, <1>4, Bounds DEF Tick, IsTick
<1> QED  BY <1>2, <1>3, <1>4 DEF Entry

LEMMA Numbers ==
  ASSUME TypeOK
  PROVE  /\ ListOK <=> LinkedOnce
         /\ millis \in Nat /\ millis <= MaxMillis
         /\ timer_millis \in Nat /\ timer_millis <= MaxMillis
         /\ queue \in Seq(Entry) /\ Len(queue) \in Nat
         /\ \A i \in 1..Len(queue) : queue[i] \in Entry
         /\ current # None => current \in Entry
<1>1. queue \in Seq(Entry) /\ current \in Entry \cup {None}
  BY DEF TypeOK, Queue!TypeOK, Entry
<1>2. Len(queue) \in Nat /\ \A i \in 1..Len(queue) : queue[i] \in Entry
  BY <1>1, LenProperties, ElementOfSeq
<1> QED  BY <1>1, <1>2, Bounds DEF TypeOK, ListOK, LinkedOnce

LEMMA Accepting ==
  ASSUME TypeOK, NEW e \in Entry, Queue!Accept(e)
  PROVE  /\ Queue!TypeOK'
         /\ Len(queue') = Len(queue) + 1 /\ current' = current
         /\ \A i \in 1..Len(queue) : queue'[i] = queue[i]
         /\ queue'[Len(queue) + 1] = e
<1>1. queue' = Append(queue, e) /\ current' = current /\ Len(queue) < Capacity
  BY DEF Queue!Accept
<1>2. queue \in Seq(Entry) /\ Len(queue) \in Nat
  BY Numbers
<1>3. /\ queue' \in Seq(Entry) /\ Len(queue') = Len(queue) + 1
      /\ \A i \in 1..Len(queue) : queue'[i] = queue[i]
      /\ queue'[Len(queue) + 1] = e
  BY <1>1, <1>2, AppendProperties
<1>4. Len(queue') <= Capacity
  BY <1>1, <1>2, <1>3, Bounds
<1>5. Queue!TypeOK'
  BY <1>1, <1>3, <1>4 DEF TypeOK, Queue!TypeOK, Entry
<1> QED  BY <1>1, <1>3, <1>5

LEMMA Starting ==
  ASSUME TypeOK, Queue!Start
  PROVE  /\ Queue!TypeOK'
         /\ current = None /\ current' \in Entry /\ current' = queue[1] /\ current' = Head(queue)
         /\ Len(queue) > 0 /\ Len(queue') = Len(queue) - 1
         /\ \A i \in 1..Len(queue') : queue'[i] = queue[i + 1]
<1>1. current = None /\ queue # << >> /\ current' = Head(queue) /\ queue' = Tail(queue)
  BY DEF Queue!Start
<1>2. queue \in Seq(Entry) /\ Len(queue) \in Nat /\ Len(queue) <= Capacity
  BY Numbers DEF TypeOK, Queue!TypeOK
<1>3. /\ Head(queue) \in Entry /\ queue' \in Seq(Entry) /\ Len(queue') = Len(queue) - 1
      /\ \A i \in 1..Len(queue') : queue'[i] = queue[i + 1]
  BY <1>1, <1>2, HeadTailProperties
<1>4. Head(queue) = queue[1] /\ Len(queue) > 0
  BY <1>1, <1>2, EmptySeq, LenProperties
<1>5. Len(queue') <= Capacity
  BY <1>2, <1>3, Bounds
<1>6. Queue!TypeOK'
  BY <1>1, <1>3, <1>5 DEF TypeOK, Queue!TypeOK, Entry
<1> QED  BY <1>1, <1>3, <1>4, <1>6

LEMMA Finishing ==
  ASSUME TypeOK, Queue!Finish
  PROVE  Queue!TypeOK' /\ current # None /\ current' = None /\ queue' = queue
  BY DEF TypeOK, Queue!TypeOK, Queue!Finish

-----------------------------------------------------------------------------
(* Conjuncts that a step does not touch.                                      *)

LEMMA WaitsSame ==
  ASSUME Waits, UNCHANGED <<millis, timer_millis, queue, current, phase, dropped>>,
         phase = "unlink" => Expired'
  PROVE  Waits'
  BY DEF Waits, Counting, TicksAhead, LastTick, StartsInOrder

LEMMA WantsSame ==
  ASSUME Wants, UNCHANGED <<list, queue, current, wanted>>
  PROVE  Wants'
  BY DEF Wants, Pending, Linked

LEMMA TimedSame ==
  ASSUME Timed, UNCHANGED <<list, remaining, due, disturbed, dropped>>, Now' = Now,
         phase' \in {"idle", "count"} => phase \in {"idle", "count"}
  PROVE  Timed'
  BY DEF Timed, Expiry

-----------------------------------------------------------------------------
(* The initial state, and the interrupt handlers.                              *)

LEMMA InitInv == Init => IInv
<1> SUFFICES ASSUME Init PROVE IInv
  OBVIOUS
<1>1. /\ list = << >> /\ queue = << >> /\ current = None /\ phase = "idle"
      /\ millis = 0 /\ timer_millis = 0 /\ wanted = {} /\ silent = {}
  BY DEF Init, Queue!Init
<1>2. Len(list) = 0 /\ Len(queue) = 0
  BY <1>1
<1>3. TypeOK
  <2>1. /\ 0 \in 0..Word - 1 /\ 0 \in 0..MaxMillis /\ 0 \in 0..MaxCalls
        /\ 0 \in 0..MaxMillis + MaxTimeout /\ 0 <= Capacity
    BY Bounds, Words
  <2>2. Queue!TypeOK
    BY <1>1, <1>2, <2>1 DEF Queue!TypeOK
  <2>3. /\ list \in Seq(Timers) /\ remaining \in [Timers -> 0..Word - 1]
        /\ enabled \in [Timers -> BOOLEAN] /\ due \in [Timers -> 0..MaxMillis + MaxTimeout]
    BY <1>1, <2>1 DEF Init
  <2>4. /\ stopping = {} /\ calls = 0 /\ callback = FALSE /\ disturbed = FALSE
        /\ dropped = {}
    BY DEF Init
  <2> QED  BY <1>1, <2>1, <2>2, <2>3, <2>4 DEF TypeOK
<1>4. LinkedOnce /\ Silenced /\ Timed
  BY <1>1, <1>2 DEF LinkedOnce, Once, Silenced, Timed
<1>5. Waits
  BY <1>1, <1>2 DEF Waits, Counting, TicksAhead, LastTick, StartsInOrder
<1>6. Wants
  BY <1>1, <1>2 DEF Wants, Pending, Linked
<1> QED  BY <1>3, <1>4, <1>5, <1>6 DEF IInv

(* What the requests in the queue say changes with the one that joins it.       *)
LEMMA WantsAccepted ==
  ASSUME TypeOK, Wants, NEW e \in Entry, Queue!Accept(e), UNCHANGED list,
         IF IsTick(e) THEN wanted' = wanted
         ELSE wanted' = IF e.op = "insert" THEN wanted \cup {e.timer} ELSE wanted \ {e.timer}
  PROVE  Wants'
<1>1. /\ Len(queue') = Len(queue) + 1 /\ current' = current /\ Len(queue) \in Nat
      /\ \A i \in 1..Len(queue) : queue'[i] = queue[i]
      /\ queue'[Len(queue) + 1] = e
  BY Accepting, Numbers
<1>2. \A i \in 1..Len(queue) : i \in 1..Len(queue') /\ i # Len(queue')
  BY <1>1
<1>3. \A i \in 1..Len(queue') : i \in 1..Len(queue) \/ i = Len(queue')
  BY <1>1
<1>4. Len(queue') \in 1..Len(queue') /\ queue'[Len(queue')] = e
  BY <1>1
<1>5. ASSUME NEW t \in Timers
      PROVE  IsFor(e, t) \/ (t \in wanted' <=> t \in wanted)
  BY <1>5 DEF IsFor, IsTick
<1>6. ASSUME NEW t \in Timers, NEW i \in 1..Len(queue'), IsFor(queue'[i], t),
             \A j \in i + 1..Len(queue') : ~IsFor(queue'[j], t)
      PROVE  queue'[i].op = "insert" <=> t \in wanted'
  <2>1. CASE i = Len(queue')
    <3>1. IsFor(e, t)
      BY <1>4, <1>6, <2>1
    <3> QED  BY <1>4, <2>1, <3>1 DEF IsFor, IsTick
  <2>2. CASE i \in 1..Len(queue)
    <3>1. Len(queue') \in i + 1..Len(queue')
      BY <1>1, <2>2
    <3>2. ~IsFor(e, t)
      BY <1>4, <1>6, <3>1
    <3>3. \A j \in i + 1..Len(queue) : j \in 1..Len(queue) /\ j \in i + 1..Len(queue')
      BY <1>1, <2>2
    <3>4. queue[i].op = "insert" <=> t \in wanted
      BY <1>1, <1>6, <2>2, <3>3 DEF Wants
    <3> QED  BY <1>1, <1>5, <2>2, <3>2, <3>4
  <2> QED  BY <1>3, <2>1, <2>2
<1>7. ASSUME NEW t \in Timers, current' # None, IsFor(current', t),
             \A i \in 1..Len(queue') : ~IsFor(queue'[i], t)
      PROVE  current'.op = "insert" <=> t \in wanted'
  <2>1. ~IsFor(e, t)
    BY <1>4, <1>7
  <2>2. \A i \in 1..Len(queue) : ~IsFor(queue[i], t)
    BY <1>1, <1>2, <1>7
  <2> QED  BY <1>1, <1>5, <1>7, <2>1, <2>2 DEF Wants
<1>8. ASSUME NEW t \in Timers, ~Pending(t)'
      PROVE  Linked(t)' <=> t \in wanted'
  <2>1. ~IsFor(e, t)
    BY <1>4, <1>8 DEF Pending, IsFor
  <2>2. ~Pending(t)
    BY <1>1, <1>2, <1>8 DEF Pending
  <2>3. Linked(t)' <=> Linked(t)
    BY DEF Linked
  <2> QED  BY <1>5, <2>1, <2>2, <2>3 DEF Wants
<1> QED  BY <1>6, <1>7, <1>8 DEF Wants

LEMMA SysTickKeeps == ASSUME IInv, SysTick PROVE IInv'
<1> DEFINE e == [op |-> "tick", millis |-> millis + 1]
<1>1. /\ UNCHANGED <<list, remaining, enabled, timer_millis, phase, callback, stopping, calls, due>>
      /\ UNCHANGED <<wanted, silent, disturbed>>
      /\ millis' = millis + 1 /\ millis < MaxMillis
  BY DEF SysTick
<1>2. TypeOK /\ LinkedOnce /\ Waits /\ Wants /\ Silenced /\ Timed
  BY DEF IInv
<1>3. /\ millis \in Nat /\ timer_millis \in Nat /\ MaxMillis \in Nat /\ Len(queue) \in Nat
      /\ millis' \in Nat /\ millis <= millis'
      /\ \A i \in 1..Len(queue) : queue[i] \in Entry
      /\ current # None => current \in Entry
  BY <1>1, <1>2, Numbers, Bounds
<1>4. e \in Entry /\ IsTick(e) /\ e.millis = millis'
  <2>1. millis + 1 \in 1..MaxMillis
    BY <1>1, <1>3
  <2> QED  BY <1>1, <2>1 DEF Entry, Tick, IsTick
<1> HIDE DEF e
<1>5. \/ Queue!Accept(e) /\ dropped' = dropped
      \/ dropped' = dropped \cup {millis'} /\ queue' = queue /\ current' = current
  BY <1>1 DEF SysTick, e
<1>6. Now' = Now /\ LinkedOnce'
  BY <1>1, <1>2 DEF Now, LinkedOnce
<1>7. phase = "unlink" => Expired'
  BY <1>1, <1>2 DEF Waits, Counting, Expired
<1>8. \A i \in 1..Len(queue) : /\ IsTick(queue[i]) => queue[i].millis \in Nat
                               /\ queue[i].op = "insert" => Asked(queue[i]) \in Int
  BY <1>3, Entries
<1>9. phase # "idle" => current.millis \in Nat
  BY <1>2, <1>3, Entries DEF Waits, Counting
<1>10. CASE Queue!Accept(e) /\ dropped' = dropped
  <2>1. /\ Queue!TypeOK' /\ Len(queue') = Len(queue) + 1 /\ current' = current
        /\ \A i \in 1..Len(queue) : queue'[i] = queue[i]
        /\ queue'[Len(queue) + 1] = e
    BY <1>2, <1>4, <1>10, Accepting
  <2>2. TypeOK'
    BY <1>1, <1>2, <1>3, <1>10, <2>1 DEF TypeOK
  <2>3. Wants'
    BY <1>1, <1>2, <1>4, <1>10, WantsAccepted
  <2>4. Silenced'
    BY <1>1, <1>2, <1>3, <1>4, <2>1 DEF Silenced, Linked, IsTick
  <2>5. Timed'
    BY <1>1, <1>2, <1>6, <1>10, TimedSame
  <2>6. Counting'
    BY <1>1, <1>2, <1>3, <1>7, <1>9, <2>1 DEF Waits, Counting
  <2>7. TicksAhead'
    BY <1>1, <1>2, <1>3, <1>4, <1>8, <1>9, <2>1 DEF Waits, Counting, TicksAhead
  <2>8. LastTick'
    BY <1>3, <1>4, <2>1 DEF LastTick
  <2>9. StartsInOrder'
    <3>1. /\ e.op # "insert"
          /\ \A i \in 1..Len(queue') : i \in 1..Len(queue) \/ queue'[i] = e
          /\ \A i \in 1..Len(queue) : \A j \in 1..i - 1 : j \in 1..Len(queue)
      BY <1>3, <1>4, <2>1 DEF IsTick
    <3> QED  BY <1>1, <1>2, <1>3, <1>8, <1>9, <1>10, <2>1, <3>1 DEF Waits, StartsInOrder
  <2> QED  BY <1>6, <2>2, <2>3, <2>4, <2>5, <2>6, <2>7, <2>8, <2>9 DEF IInv, Waits
<1>11. CASE dropped' = dropped \cup {millis'} /\ queue' = queue /\ current' = current
  <2>1. TypeOK'
    BY <1>1, <1>2, <1>3, <1>11 DEF TypeOK, Queue!TypeOK
  <2>2. Wants' /\ Silenced'
    BY <1>1, <1>2, <1>11, WantsSame DEF Silenced, Linked
  <2>3. Timed'
    BY <1>1, <1>2, <1>6, <1>11 DEF Timed, Expiry
  <2>4. Counting'
    BY <1>1, <1>2, <1>3, <1>7, <1>9, <1>11 DEF Waits, Counting
  <2>5. TicksAhead'
    BY <1>1, <1>2, <1>3, <1>8, <1>9, <1>11 DEF Waits, TicksAhead
  <2>6. LastTick'
    BY <1>11 DEF LastTick
  <2>7. StartsInOrder'
    BY <1>1, <1>2, <1>3, <1>8, <1>9, <1>11 DEF Waits, StartsInOrder
  <2> QED  BY <1>6, <2>1, <2>2, <2>3, <2>4, <2>5, <2>6, <2>7 DEF IInv, Waits
<1> QED  BY <1>5, <1>10, <1>11

LEMMA IsrStartKeeps ==
  ASSUME IInv, NEW t \in Timers, NEW timeout \in Timeout, IsrStart(t, timeout)
  PROVE  IInv'
<1> DEFINE e == [op |-> "insert", timer |-> t, timeout |-> timeout, due |-> millis + timeout]
<1>1. /\ UNCHANGED <<list, remaining, enabled, millis, timer_millis, phase, callback, stopping>>
      /\ UNCHANGED <<due, disturbed, dropped>>
      /\ calls < MaxCalls /\ calls' = calls + 1
      /\ wanted' = wanted \cup {t} /\ silent' = silent \ {t} /\ Queue!Accept(e)
  BY DEF IsrStart
<1>2. TypeOK /\ LinkedOnce /\ Waits /\ Wants /\ Silenced /\ Timed
  BY DEF IInv
<1>3. /\ millis \in Nat /\ timer_millis \in Nat /\ Len(queue) \in Nat
      /\ \A i \in 1..Len(queue) : queue[i] \in Entry
      /\ current # None => current \in Entry
  BY <1>2, Numbers
<1>4. e \in Entry /\ e.op = "insert" /\ ~IsTick(e) /\ Asked(e) = millis /\ e.timer = t
  <2>1. millis + timeout \in 0..MaxMillis + MaxTimeout /\ (millis + timeout) - timeout = millis
    BY <1>2, Bounds, Numbers
  <2> QED  BY <2>1 DEF Entry, Insertion, IsTick, Asked
<1> HIDE DEF e
<1>5. /\ Queue!TypeOK' /\ Len(queue') = Len(queue) + 1 /\ current' = current
      /\ \A i \in 1..Len(queue) : queue'[i] = queue[i]
      /\ queue'[Len(queue) + 1] = e
  BY <1>1, <1>2, <1>4, Accepting
<1>6. /\ \A i \in 1..Len(queue') : i \in 1..Len(queue) \/ (i = Len(queue) + 1 /\ queue'[i] = e)
      /\ \A i \in 1..Len(queue) : \A j \in 1..i - 1 : j \in 1..Len(queue)
  BY <1>3, <1>5
<1>7. TypeOK'
  <2>1. calls' \in 0..MaxCalls
    BY <1>1, <1>2, Bounds DEF TypeOK
  <2> QED  BY <1>1, <1>2, <1>5, <2>1 DEF TypeOK
<1>8. LinkedOnce' /\ Now' = Now /\ (phase = "unlink" => Expired')
  BY <1>1, <1>2 DEF LinkedOnce, Now, Waits, Counting, Expired
<1>9. Wants'
  BY <1>1, <1>2, <1>4, WantsAccepted
<1>10. Timed'
  BY <1>1, <1>2, <1>8, TimedSame
<1>11. Silenced'
  BY <1>1, <1>2, <1>4, <1>5, <1>6 DEF Silenced, Linked
<1>12. Counting'
  BY <1>1, <1>2, <1>5, <1>8 DEF Waits, Counting
<1>13. TicksAhead'
  BY <1>1, <1>2, <1>4, <1>5, <1>6 DEF Waits, TicksAhead
<1>14. LastTick'
  <2>1. \A i \in 1..Len(queue) : i \in 1..Len(queue')
    BY <1>3, <1>5
  <2> QED  BY <1>1, <1>2, <1>5, <2>1 DEF Waits, LastTick
<1>15. StartsInOrder'
  <2>1. ASSUME NEW i \in 1..Len(queue'), queue'[i].op = "insert"
        PROVE  /\ timer_millis <= Asked(queue'[i]) /\ Asked(queue'[i]) <= millis
               /\ phase # "idle" => current.millis <= Asked(queue'[i])
               /\ \A j \in 1..i - 1 : IsTick(queue'[j]) => queue'[j].millis <= Asked(queue'[i])
               /\ dropped = {} =>
                    \/ timer_millis = Asked(queue'[i])
                    \/ phase # "idle" /\ current.millis = Asked(queue'[i])
                    \/ \E j \in 1..i - 1 :
                         IsTick(queue'[j]) /\ queue'[j].millis = Asked(queue'[i])
    <3>1. CASE i \in 1..Len(queue)
      BY <1>2, <1>5, <1>6, <2>1, <3>1 DEF Waits, StartsInOrder
    <3>2. CASE i = Len(queue) + 1 /\ queue'[i] = e
      <4>1. \A j : j \in 1..i - 1 <=> j \in 1..Len(queue)
        BY <1>3, <3>2
      <4>2. timer_millis <= millis /\ (phase # "idle" => current.millis <= millis)
        BY <1>2 DEF Waits, Counting
      <4>3. \A j \in 1..i - 1 : IsTick(queue'[j]) => queue'[j].millis <= millis
        BY <1>2, <1>5, <4>1 DEF Waits, TicksAhead
      <4>4. dropped = {} => \/ timer_millis = millis
                            \/ phase # "idle" /\ current.millis = millis
                            \/ \E j \in 1..i - 1 : IsTick(queue'[j]) /\ queue'[j].millis = millis
        BY <1>2, <1>5, <4>1 DEF Waits, LastTick
      <4> QED  BY <1>3, <1>4, <3>2, <4>2, <4>3, <4>4
    <3> QED  BY <1>6, <3>1, <3>2
  <2>2. current' # None /\ current'.op = "insert" =>
          /\ timer_millis <= Asked(current')
          /\ dropped = {} => timer_millis = Asked(current')
    BY <1>2, <1>5 DEF Waits, StartsInOrder
  <2> QED  BY <1>1, <1>5, <2>1, <2>2 DEF StartsInOrder
<1> QED  BY <1>7, <1>8, <1>9, <1>10, <1>11, <1>12, <1>13, <1>14, <1>15 DEF IInv, Waits

LEMMA IsrStopKeeps == ASSUME IInv, NEW t \in Timers, IsrStop(t) PROVE IInv'
<1> DEFINE e == [op |-> "remove", timer |-> t]
<1>1. /\ UNCHANGED <<list, remaining, enabled, millis, timer_millis, phase, callback>>
      /\ UNCHANGED <<due, disturbed, dropped>>
      /\ calls < MaxCalls /\ calls' = calls + 1
      /\ wanted' = wanted \ {t} /\ stopping' = stopping \cup {t} /\ Queue!Accept(e)
      /\ silent' = IF Pending(t) THEN silent ELSE silent \cup {t}
  BY DEF IsrStop
<1>2. TypeOK /\ LinkedOnce /\ Waits /\ Wants /\ Silenced /\ Timed
  BY DEF IInv
<1>3. /\ millis \in Nat /\ timer_millis \in Nat /\ Len(queue) \in Nat
      /\ \A i \in 1..Len(queue) : queue[i] \in Entry
      /\ current # None => current \in Entry
  BY <1>2, Numbers
<1>4. e \in Entry /\ e.op = "remove" /\ ~IsTick(e) /\ e.timer = t
  BY DEF Entry, Removal, IsTick
<1> HIDE DEF e
<1>5. /\ Queue!TypeOK' /\ Len(queue') = Len(queue) + 1 /\ current' = current
      /\ \A i \in 1..Len(queue) : queue'[i] = queue[i]
      /\ queue'[Len(queue) + 1] = e
  BY <1>1, <1>2, <1>4, Accepting
<1>6. /\ \A i \in 1..Len(queue') : i \in 1..Len(queue) \/ (i = Len(queue) + 1 /\ queue'[i] = e)
      /\ \A i \in 1..Len(queue) : \A j \in 1..i - 1 : j \in 1..Len(queue)
  BY <1>3, <1>5
<1>7. TypeOK'
  <2>1. calls' \in 0..MaxCalls
    BY <1>1, <1>2, Bounds DEF TypeOK
  <2>2. silent' \subseteq Timers
    BY <1>1, <1>2 DEF TypeOK
  <2> QED  BY <1>1, <1>2, <1>5, <2>1, <2>2 DEF TypeOK
<1>8. LinkedOnce' /\ Now' = Now /\ (phase = "unlink" => Expired')
  BY <1>1, <1>2 DEF LinkedOnce, Now, Waits, Counting, Expired
<1>9. Wants'
  <2>1. e.op # "insert"
    BY <1>4
  <2> QED  BY <1>1, <1>2, <1>4, <2>1, WantsAccepted
<1>10. Timed'
  BY <1>1, <1>2, <1>8, TimedSame
<1>11. Silenced'
  <2>1. CASE Pending(t)
    BY <1>1, <1>2, <1>4, <1>5, <1>6, <2>1 DEF Silenced, Linked
  <2>2. CASE ~Pending(t)
    <3>1. /\ \A i \in 1..Len(queue) : ~(queue[i].op = "insert" /\ queue[i].timer = t)
          /\ ~(current # None /\ current.op = "insert" /\ current.timer = t)
      BY <2>2 DEF Pending
    <3> QED  BY <1>1, <1>2, <1>4, <1>5, <1>6, <2>2, <3>1 DEF Silenced, Linked
  <2> QED  BY <2>1, <2>2
<1>12. Counting'
  BY <1>1, <1>2, <1>5, <1>8 DEF Waits, Counting
<1>13. TicksAhead'
  BY <1>1, <1>2, <1>4, <1>5, <1>6 DEF Waits, TicksAhead
<1>14. LastTick'
  <2>1. \A i \in 1..Len(queue) : i \in 1..Len(queue')
    BY <1>3, <1>5
  <2> QED  BY <1>1, <1>2, <1>5, <2>1 DEF Waits, LastTick
<1>15. StartsInOrder'
  <2>1. e.op # "insert"
    BY <1>4
  <2> QED  BY <1>1, <1>2, <1>5, <1>6, <2>1 DEF Waits, StartsInOrder
<1> QED  BY <1>7, <1>8, <1>9, <1>10, <1>11, <1>12, <1>13, <1>14, <1>15 DEF IInv, Waits

LEMMA IsrDisableKeeps == ASSUME IInv, NEW t \in Timers, IsrDisable(t) PROVE IInv'
<1>1. /\ UNCHANGED <<list, remaining, millis, timer_millis, queue, current, phase, callback>>
      /\ UNCHANGED <<calls, due, wanted, silent, disturbed, dropped>>
      /\ stopping' = stopping \ {t} /\ enabled' = [enabled EXCEPT ![t] = FALSE]
  BY DEF IsrDisable, history
<1>2. TypeOK /\ LinkedOnce /\ Waits /\ Wants /\ Silenced /\ Timed
  BY DEF IInv
<1>3. TypeOK'
  BY <1>1, <1>2 DEF TypeOK, Queue!TypeOK
<1>4. LinkedOnce' /\ Now' = Now /\ (phase = "unlink" => Expired')
  BY <1>1, <1>2 DEF LinkedOnce, Now, Waits, Counting, Expired
<1>5. Waits' /\ Wants' /\ Timed'
  BY <1>1, <1>2, <1>4, WaitsSame, WantsSame, TimedSame
<1>6. Silenced'
  <2>1. ASSUME NEW u \in silent
        PROVE  Linked(u) => u \in stopping' \/ ~enabled'[u]
    <3>1. u \in Timers /\ enabled \in [Timers -> BOOLEAN]
      BY <1>2 DEF TypeOK
    <3>2. CASE u = t
      BY <1>1, <3>1, <3>2
    <3>3. CASE u # t
      BY <1>1, <1>2, <3>1, <3>3 DEF Silenced
    <3> QED  BY <3>2, <3>3
  <2> QED  BY <1>1, <1>2, <2>1 DEF Silenced, Linked
<1> QED  BY <1>3, <1>4, <1>5, <1>6 DEF IInv

-----------------------------------------------------------------------------
(* What a step does to the expiries.                                          *)

(* A tick of the list is no later than d, and at d if no tick was dropped.       *)
Meets(now, ticks, d) == now + ticks <= d /\ (dropped = {} => now + ticks = d)

HeadHasTicks == phase \in {"idle", "count"} /\ list # << >> => remaining[list[1]] > 0

TimedParts ==
  (\A i \in 1..Len(list) : Meets(Now, TicksTo(list, remaining, i), due[list[i]])) /\ HeadHasTicks

LEMMA TimedIs == Timed <=> (~disturbed => TimedParts)
  BY DEF Timed, TimedParts, Meets, HeadHasTicks, Expiry

(* The head of the list has the first ticks.                                  *)
LEMMA HeadTicks ==
  ASSUME NEW l \in Seq(Timers), NEW r \in [Timers -> Nat], l # << >>
  PROVE  /\ Len(l) \in Nat /\ 1 \in 1..Len(l) /\ l[1] \in Timers /\ Head(l) = l[1]
         /\ r[l[1]] \in Nat /\ TicksTo(l, r, 1) = r[l[1]]
<1>1. Len(l) \in Nat /\ Len(l) # 0
  BY LenProperties, EmptySeq
<1>2. 1 \in 1..Len(l) /\ l[1] \in Timers
  BY <1>1, ElementOfSeq
<1>3. TicksTo(l, r, 0) = 0 /\ TicksTo(l, r, 1) = TicksTo(l, r, 1 - 1) + r[l[1]]
  BY <1>2, TicksStep
<1>4. 1 - 1 = 0 /\ r[l[1]] \in Nat
  BY <1>2
<1> QED  BY <1>1, <1>2, <1>3, <1>4

(* A timer of the new list that is kept meets its tick as it did before.         *)
LEMMA KeptMeets ==
  ASSUME NEW t, TimedParts, NEW i \in 1..Len(list'),
         Kept(list, remaining, list', remaining', t, i),
         UNCHANGED dropped, Now' = Now,
         due' = due \/ \A u \in Timers : u # t => due'[u] = due[u], list \in Seq(Timers)
  PROVE  Meets(Now, TicksTo(list, remaining, i), due[list[i]])'
<1>1. PICK j \in 1..Len(list) : /\ list[j] = list'[i] /\ list[j] # t
                                /\ TicksTo(list', remaining', i) = TicksTo(list, remaining, j)
  BY DEF Kept
<1>2. list[j] \in Timers
  BY ElementOfSeq
<1>3. due'[list'[i]] = due[list[j]]
  BY <1>1, <1>2
<1>4. Meets(Now, TicksTo(list, remaining, j), due[list[j]])
  BY DEF TimedParts
<1> QED  BY <1>1, <1>3, <1>4 DEF Meets

(* The head of the new list has ticks left if all of its elements are kept, or   *)
(* have their timeout, which is not 0 when the next tick is to be counted.       *)
LEMMA HeadKept ==
  ASSUME ListOK, ListOK', NEW t, HeadHasTicks, NEW timeout \in Timeout,
         phase' \in {"idle", "count"} => phase \in {"idle", "count"} /\ timeout # 0,
         \A i \in 1..Len(list') : \/ list'[i] = t /\ TicksTo(list', remaining', i) = timeout
                                  \/ Kept(list, remaining, list', remaining', t, i)
  PROVE  HeadHasTicks'
<1> SUFFICES ASSUME phase' \in {"idle", "count"}, list' # << >>
             PROVE  remaining'[list'[1]] > 0
  BY DEF HeadHasTicks
<1>1. /\ 1 \in 1..Len(list') /\ remaining'[list'[1]] \in Nat
      /\ TicksTo(list', remaining', 1) = remaining'[list'[1]]
  <2>1. list' \in Seq(Timers) /\ remaining' \in [Timers -> Nat]
    <3>1. \A x \in 0..Word - 1 : x \in Nat
      BY Words
    <3> QED  BY <3>1 DEF ListOK
  <2> QED  BY <2>1, HeadTicks
<1>2. CASE TicksTo(list', remaining', 1) = timeout
  BY <1>1, <1>2, Bounds
<1>3. CASE Kept(list, remaining, list', remaining', t, 1)
  <2>1. PICK j \in 1..Len(list) : TicksTo(list', remaining', 1) = TicksTo(list, remaining, j)
    BY <1>3 DEF Kept
  <2>2. list # << >> /\ list \in Seq(Timers) /\ remaining \in [Timers -> Nat]
    BY ListNats, LenProperties, EmptySeq DEF ListOK
  <2>3. remaining[list[1]] > 0 /\ remaining[list[1]] \in Nat
    BY <2>2, HeadTicks DEF HeadHasTicks
  <2>4. TicksTo(list, remaining, j) >= remaining[list[1]]
    BY <2>2, TicksGrow
  <2> QED  BY <1>1, <2>1, <2>3, <2>4
<1> QED  BY <1>1, <1>2, <1>3

(* A timer is started with the ticks to the tick it is due at.                *)
LEMMA LinkTimed ==
  ASSUME ListOK, Timed, NEW t \in Timers, NEW timeout \in Timeout, NEW d, Link(t, timeout),
         due \in [Timers -> 0..MaxMillis + MaxTimeout], due' = [due EXCEPT ![t] = d],
         disturbed' = (disturbed \/ Disturbs(t) \/ Wraps(timeout)), UNCHANGED dropped,
         Now' = Now, ~disturbed' => Meets(Now, timeout, d),
         phase' \in {"idle", "count"} => phase \in {"idle", "count"}
  PROVE  Timed'
<1>1. ~disturbed' => ~disturbed /\ ~Disturbs(t) /\ ~Wraps(timeout)
  OBVIOUS
<1> SUFFICES ASSUME ~disturbed' PROVE TimedParts'
  BY DEF Timed, TimedParts, Meets, HeadHasTicks, Expiry
<1>2. TimedParts
  BY <1>1, TimedIs
<1>3. /\ ListOK'
      /\ \A i \in 1..Len(list') : \/ list'[i] = t /\ TicksTo(list', remaining', i) = timeout
                                  \/ Kept(list, remaining, list', remaining', t, i)
  BY <1>1, Linking
<1>4. ASSUME NEW i \in 1..Len(list')
      PROVE  Meets(Now, TicksTo(list, remaining, i), due[list[i]])'
  <2>1. CASE list'[i] = t /\ TicksTo(list', remaining', i) = timeout
    <3>1. due'[t] = d
      OBVIOUS
    <3> QED  BY <2>1, <3>1 DEF Meets
  <2>2. CASE Kept(list, remaining, list', remaining', t, i)
    <3>1. (\A u \in Timers : u # t => due'[u] = due[u]) /\ list \in Seq(Timers)
      BY DEF ListOK
    <3> QED  BY <1>2, <2>2, <3>1, KeptMeets
  <2> QED  BY <1>3, <2>1, <2>2
<1>5. HeadHasTicks'
  <2>1. phase' \in {"idle", "count"} => phase \in {"idle", "count"} /\ timeout # 0
    BY <1>1 DEF Wraps
  <2> QED  BY <1>2, <1>3, <2>1, HeadKept DEF TimedParts
<1> QED  BY <1>4, <1>5 DEF TimedParts

LEMMA UnlinkTimed ==
  ASSUME ListOK, Timed, NEW t \in Timers, Unlink(t), UNCHANGED due,
         ~disturbed' => ~disturbed /\ ~Disturbs(t), UNCHANGED dropped, Now' = Now,
         phase' \in {"idle", "count"} => phase \in {"idle", "count"}
  PROVE  Timed'
<1> SUFFICES ASSUME ~disturbed' PROVE TimedParts'
  BY DEF Timed, TimedParts, Meets, HeadHasTicks, Expiry
<1>1. TimedParts
  BY TimedIs
<1>2. /\ ListOK'
      /\ \A i \in 1..Len(list') : Kept(list, remaining, list', remaining', t, i)
  BY Unlinking
<1>3. ASSUME NEW i \in 1..Len(list')
      PROVE  Meets(Now, TicksTo(list, remaining, i), due[list[i]])'
  <2>1. list \in Seq(Timers)
    BY DEF ListOK
  <2> QED  BY <1>1, <1>2, <2>1, KeptMeets
<1>4. HeadHasTicks'
  <2>1. 1 \in Timeout /\ 1 # 0
    BY BoundAssumption DEF Timeout
  <2> QED  BY <1>1, <1>2, <2>1, HeadKept DEF TimedParts
<1> QED  BY <1>3, <1>4 DEF TimedParts

-----------------------------------------------------------------------------
(* The requests that are carried out.                                          *)

LEMMA NowFits ==
  ASSUME TypeOK, Waits
  PROVE  Now \in Nat /\ Now <= MaxMillis /\ (phase = "idle" => Now = timer_millis)
<1>1. /\ timer_millis \in Nat /\ timer_millis <= MaxMillis /\ MaxMillis \in Nat
      /\ millis \in Nat /\ millis <= MaxMillis
  BY Numbers, Bounds
<1>2. CASE phase \in {"expire", "unlink", "call"}
  <2>1. current.millis \in Nat /\ timer_millis < current.millis /\ current.millis <= millis
    BY <1>2, Numbers, Entries DEF Waits, Counting
  <2> QED  BY <1>1, <1>2, <2>1 DEF Now
<1>3. CASE phase \notin {"expire", "unlink", "call"}
  BY <1>1, <1>3 DEF Now
<1> QED  BY <1>2, <1>3

(* A request of the thread, or of a callback, comes after those that wait only    *)
(* if there is none for that timer.                                            *)
LEMMA WantsAtOnce ==
  ASSUME Wants, NEW t \in Timers, NEW start \in BOOLEAN, UNCHANGED <<queue, current>>,
         \A u \in Timers : In(list', u) <=> IF u = t THEN start ELSE In(list, u),
         wanted' = IF Pending(t) THEN wanted
                   ELSE IF start THEN wanted \cup {t} ELSE wanted \ {t}
  PROVE  Wants'
<1>1. ASSUME NEW u \in Timers
      PROVE  Linked(u)' <=> IF u = t THEN start ELSE Linked(u)
  BY DEF Linked, In
<1>2. \A u \in Timers : Pending(u)' <=> Pending(u)
  BY DEF Pending
<1>3. ASSUME NEW u \in Timers, u = t => Pending(t)
      PROVE  u \in wanted' <=> u \in wanted
  BY <1>3
<1>4. ~Pending(t) => /\ \A i \in 1..Len(queue) : ~IsFor(queue[i], t)
                     /\ current # None => ~IsFor(current, t)
  BY DEF Pending, IsFor
<1>5. ASSUME NEW u \in Timers, NEW i \in 1..Len(queue), IsFor(queue[i], u),
             \A j \in i + 1..Len(queue) : ~IsFor(queue[j], u)
      PROVE  queue[i].op = "insert" <=> u \in wanted'
  BY <1>3, <1>4, <1>5 DEF Wants
<1>6. ASSUME NEW u \in Timers, current # None, IsFor(current, u),
             \A i \in 1..Len(queue) : ~IsFor(queue[i], u)
      PROVE  current.op = "insert" <=> u \in wanted'
  BY <1>3, <1>4, <1>6 DEF Wants
<1>7. ASSUME NEW u \in Timers, ~Pending(u)
      PROVE  Linked(u)' <=> u \in wanted'
  <2>1. CASE u = t
    BY <1>1, <1>7, <2>1
  <2>2. CASE u # t
    BY <1>1, <1>3, <1>7, <2>2 DEF Wants
  <2> QED  BY <2>1, <2>2
<1> QED  BY <1>2, <1>5, <1>6, <1>7 DEF Wants

(* A deferred request is the last one for its timer unless another waits.        *)
LEMMA WantsDeferred ==
  ASSUME Wants, current # None, IsFor(current, current.timer), current.timer \in Timers,
         queue' = queue, current' = None, wanted' = wanted,
         \A u \in Timers : In(list', u) <=>
           IF u = current.timer THEN current.op = "insert" ELSE In(list, u)
  PROVE  Wants'
<1>1. ASSUME NEW u \in Timers
      PROVE  Linked(u)' <=> IF u = current.timer THEN current.op = "insert" ELSE Linked(u)
  BY DEF Linked, In
<1>2. ASSUME NEW u \in Timers, ~Pending(u)'
      PROVE  Linked(u)' <=> u \in wanted
  <2>1. \A i \in 1..Len(queue) : ~IsFor(queue[i], u)
    BY <1>2 DEF Pending, IsFor
  <2>2. CASE u = current.timer
    BY <1>1, <2>1, <2>2 DEF Wants
  <2>3. CASE u # current.timer
    <3>1. ~Pending(u)
      BY <1>2, <2>3 DEF Pending
    <3> QED  BY <1>1, <2>3, <3>1 DEF Wants
  <2> QED  BY <2>2, <2>3
<1> QED  BY <1>2 DEF Wants

Directly ==
  /\ UNCHANGED <<queue, current>>
  /\ callback' \in BOOLEAN
  /\ \/ phase = "idle" /\ phase' = "idle"
     \/ phase = "call" /\ phase' = "expire"

LEMMA DirectWaits ==
  ASSUME Waits, Directly, UNCHANGED <<millis, timer_millis, dropped>>
  PROVE  Waits' /\ Now' = Now
<1>1. UNCHANGED <<queue, current>> /\ phase' # "unlink"
  BY DEF Directly
<1>2. (phase # "idle" <=> phase' # "idle")
      /\ (phase' \in {"expire", "unlink", "call"} <=> phase \in {"expire", "unlink", "call"})
  BY DEF Directly
<1>3. Counting'
  BY <1>1, <1>2 DEF Waits, Counting
<1>4. TicksAhead' /\ LastTick' /\ StartsInOrder'
  BY <1>1, <1>2 DEF Waits, TicksAhead, LastTick, StartsInOrder
<1>5. Now' = Now
  BY <1>2 DEF Now
<1> QED  BY <1>3, <1>4, <1>5 DEF Waits

LEMMA DirectStartKeeps ==
  ASSUME IInv, NEW t \in Timers, NEW timeout \in Timeout, DirectStart(t, timeout), Directly
  PROVE  IInv'
<1>1. /\ UNCHANGED <<enabled, millis, timer_millis, stopping, dropped, queue, current>>
      /\ calls < MaxCalls /\ calls' = calls + 1 /\ Link(t, timeout)
      /\ due' = [due EXCEPT ![t] = Now + timeout] /\ silent' = silent \ {t}
      /\ wanted' = IF Pending(t) THEN wanted ELSE wanted \cup {t}
      /\ callback' \in BOOLEAN /\ phase' \in {"idle", "expire"}
      /\ phase' \in {"idle", "count"} => phase \in {"idle", "count"}
  BY DEF DirectStart, Directly
<1>2. disturbed' = (disturbed \/ Disturbs(t) \/ Wraps(timeout))
  BY Zenon DEF DirectStart
<1>3. TypeOK /\ LinkedOnce /\ Waits /\ Wants /\ Silenced /\ Timed /\ ListOK
  BY Numbers DEF IInv
<1>4. /\ ListOK'
      /\ \A u \in Timers : In(list', u) <=> In(list, u) \/ u = t
  BY <1>1, <1>3, Linking
<1>5. Now \in Nat /\ Now <= MaxMillis
  BY <1>3, NowFits
<1>6. Waits' /\ Now' = Now
  BY <1>1, <1>3, DirectWaits
<1>7. TypeOK'
  <2>1. Now + timeout \in 0..MaxMillis + MaxTimeout
    BY <1>5, Bounds
  <2>2. due' \in [Timers -> 0..MaxMillis + MaxTimeout] /\ calls' \in 0..MaxCalls
    BY <1>1, <1>3, <2>1, Bounds DEF TypeOK
  <2>3. wanted' \subseteq Timers /\ silent' \subseteq Timers /\ disturbed' \in BOOLEAN
    BY <1>1, <1>2, <1>3, Zenon DEF TypeOK
  <2> QED  BY <1>1, <1>3, <1>4, <2>2, <2>3 DEF TypeOK, Queue!TypeOK, ListOK
<1>8. LinkedOnce'
  BY <1>4 DEF ListOK, LinkedOnce
<1>9. Wants'
  <2> DEFINE start == TRUE
  <2>1. /\ start \in BOOLEAN
        /\ \A u \in Timers : In(list', u) <=> IF u = t THEN start ELSE In(list, u)
        /\ wanted' = IF Pending(t) THEN wanted
                     ELSE IF start THEN wanted \cup {t} ELSE wanted \ {t}
    BY <1>1, <1>4
  <2> HIDE DEF start
  <2> QED  BY <1>1, <1>3, <2>1, WantsAtOnce
<1>10. Silenced'
  <2>1. ASSUME NEW u \in silent'
        PROVE  u \in silent /\ (Linked(u)' <=> Linked(u))
    BY <1>1, <1>3, <1>4, <2>1 DEF TypeOK, Linked, In
  <2> QED  BY <1>1, <1>3, <2>1 DEF Silenced
<1>11. Timed'
  <2>1. Meets(Now, timeout, Now + timeout)
    BY <1>5, Bounds DEF Meets
  <2>2. due \in [Timers -> 0..MaxMillis + MaxTimeout] /\ dropped' = dropped
    BY <1>1, <1>3 DEF TypeOK
  <2> QED  BY <1>1, <1>2, <1>3, <1>6, <2>1, <2>2, LinkTimed
<1> QED  BY <1>3, <1>6, <1>7, <1>8, <1>9, <1>10, <1>11 DEF IInv

LEMMA UnlinkSilences ==
  ASSUME TypeOK, Silenced, NEW t \in Timers, Unlink(t), UNCHANGED <<queue, stopping, silent>>,
         current' = current \/ current' = None,
         \A u \in Timers : In(list', u) <=> In(list, u) /\ u # t
  PROVE  Silenced'
<1>1. ASSUME NEW u \in silent, u # t
      PROVE  enabled'[u] = enabled[u] /\ (Linked(u)' <=> Linked(u))
  <2>1. u \in Timers /\ enabled \in [Timers -> BOOLEAN]
    BY DEF TypeOK
  <2> QED  BY <1>1, <2>1 DEF Unlink, Linked, In
<1>2. ~Linked(t)'
  BY DEF Linked, In
<1> QED  BY <1>1, <1>2 DEF Silenced

LEMMA DirectStopKeeps ==
  ASSUME IInv, NEW t \in Timers, DirectStop(t), Directly
  PROVE  IInv'
<1>1. /\ UNCHANGED <<millis, timer_millis, stopping, due, silent, dropped, queue, current>>
      /\ calls < MaxCalls /\ calls' = calls + 1 /\ Unlink(t)
      /\ wanted' = IF Pending(t) THEN wanted ELSE wanted \ {t}
      /\ callback' \in BOOLEAN /\ phase' \in {"idle", "expire"}
      /\ phase' \in {"idle", "count"} => phase \in {"idle", "count"}
  BY DEF DirectStop, Directly
<1>2. disturbed' = (disturbed \/ Disturbs(t))
  BY Zenon DEF DirectStop
<1>3. TypeOK /\ LinkedOnce /\ Waits /\ Wants /\ Silenced /\ Timed /\ ListOK
  BY Numbers DEF IInv
<1>4. /\ ListOK'
      /\ \A u \in Timers : In(list', u) <=> In(list, u) /\ u # t
  BY <1>1, <1>3, Unlinking
<1>5. Waits' /\ Now' = Now
  BY <1>1, <1>3, DirectWaits
<1>6. TypeOK'
  <2>1. enabled' \in [Timers -> BOOLEAN] /\ calls' \in 0..MaxCalls
    BY <1>1, <1>3, Bounds DEF TypeOK, Unlink
  <2>2. wanted' \subseteq Timers /\ disturbed' \in BOOLEAN
    BY <1>1, <1>2, <1>3, Zenon DEF TypeOK
  <2> QED  BY <1>1, <1>3, <1>4, <2>1, <2>2 DEF TypeOK, Queue!TypeOK, ListOK
<1>7. LinkedOnce'
  BY <1>4 DEF ListOK, LinkedOnce
<1>8. Wants'
  <2> DEFINE start == FALSE
  <2>1. /\ start \in BOOLEAN
        /\ \A u \in Timers : In(list', u) <=> IF u = t THEN start ELSE In(list, u)
        /\ wanted' = IF Pending(t) THEN wanted
                     ELSE IF start THEN wanted \cup {t} ELSE wanted \ {t}
    BY <1>1, <1>4
  <2> HIDE DEF start
  <2> QED  BY <1>1, <1>3, <2>1, WantsAtOnce
<1>9. Silenced'
  BY <1>1, <1>3, <1>4, UnlinkSilences
<1>10. Timed'
  <2>1. ~disturbed' => ~disturbed /\ ~Disturbs(t)
    BY <1>2
  <2> QED  BY <1>1, <1>3, <1>5, <2>1, UnlinkTimed
<1> QED  BY <1>3, <1>5, <1>6, <1>7, <1>8, <1>9, <1>10 DEF IInv

LEMMA ThreadCallKeeps == ASSUME IInv, ThreadCall PROVE IInv'
<1>1. /\ current = None /\ UNCHANGED <<queue, current, phase, callback>>
      /\ \/ \E t \in Timers, timeout \in Timeout : DirectStart(t, timeout)
         \/ \E t \in Timers : DirectStop(t)
  BY DEF ThreadCall
<1>2. Directly
  BY <1>1 DEF IInv, TypeOK, Waits, Counting, Directly
<1> QED  BY <1>1, <1>2, DirectStartKeeps, DirectStopKeeps

LEMMA RunCallbackKeeps == ASSUME IInv, RunCallback PROVE IInv'
<1>1. /\ phase = "call" /\ phase' = "expire" /\ callback' = FALSE
      /\ UNCHANGED <<queue, current>>
      /\ \/ \E t \in Timers, timeout \in Timeout : DirectStart(t, timeout)
         \/ \E t \in Timers : DirectStop(t)
         \/ UNCHANGED <<list, remaining, enabled, millis, timer_millis, stopping, calls, history>>
  BY DEF RunCallback
<1>2. Directly
  BY <1>1 DEF Directly
<1>3. CASE UNCHANGED <<list, remaining, enabled, millis, timer_millis, stopping, calls, history>>
  <2>1. /\ UNCHANGED <<list, remaining, enabled, millis, timer_millis, stopping, calls>>
        /\ UNCHANGED <<due, wanted, silent, disturbed, dropped>>
    BY <1>3 DEF history
  <2>2. TypeOK /\ LinkedOnce /\ Waits /\ Wants /\ Silenced /\ Timed
    BY DEF IInv
  <2>3. Waits' /\ Now' = Now
    BY <1>2, <2>1, <2>2, DirectWaits
  <2>4. TypeOK'
    BY <1>1, <2>1, <2>2 DEF TypeOK, Queue!TypeOK
  <2>5. LinkedOnce' /\ Silenced'
    BY <1>1, <2>1, <2>2 DEF LinkedOnce, Silenced, Linked
  <2>6. Wants' /\ Timed'
    BY <1>1, <2>1, <2>2, <2>3, WantsSame, TimedSame
  <2> QED  BY <2>3, <2>4, <2>5, <2>6 DEF IInv
<1> QED  BY <1>1, <1>2, <1>3, DirectStartKeeps, DirectStopKeeps

LEMMA DispatchKeeps == ASSUME IInv, Dispatch PROVE IInv'
<1>1. /\ UNCHANGED <<list, remaining, enabled, millis, timer_millis, callback, stopping, calls>>
      /\ UNCHANGED <<due, wanted, silent, disturbed, dropped>>
      /\ Queue!Start /\ phase' = IF Head(queue).op = "tick" THEN "count" ELSE "idle"
  BY DEF Dispatch, history
<1>2. TypeOK /\ LinkedOnce /\ Waits /\ Wants /\ Silenced /\ Timed
  BY DEF IInv
<1>3. /\ millis \in Nat /\ timer_millis \in Nat /\ Len(queue) \in Nat
      /\ \A i \in 1..Len(queue) : queue[i] \in Entry
  BY <1>2, Numbers
<1>4. /\ Queue!TypeOK'
      /\ current = None /\ current' \in Entry /\ current' = queue[1] /\ current' = Head(queue)
      /\ Len(queue) > 0 /\ Len(queue') = Len(queue) - 1
      /\ \A i \in 1..Len(queue') : queue'[i] = queue[i + 1]
  BY <1>1, <1>2, Starting
<1>5. /\ 1 \in 1..Len(queue)
      /\ \A i \in 1..Len(queue') : i + 1 \in 1..Len(queue) /\ i + 1 # 1 /\ 1 \in 1..(i + 1) - 1
      /\ \A i \in 1..Len(queue) : i = 1 \/ (i - 1 \in 1..Len(queue') /\ (i - 1) + 1 = i)
  BY <1>3, <1>4
<1>6. phase = "idle" /\ phase' = (IF IsTick(current') THEN "count" ELSE "idle") /\ current' # None
  BY <1>1, <1>2, <1>4, Entries DEF Waits, Counting, IsTick
<1>7. TypeOK'
  BY <1>1, <1>2, <1>4, <1>6 DEF TypeOK
<1>8. LinkedOnce' /\ Silenced'
  <2>1. LinkedOnce'
    BY <1>1, <1>2 DEF LinkedOnce
  <2>2. ASSUME NEW u \in silent
        PROVE  /\ \A i \in 1..Len(queue') : ~(queue'[i].op = "insert" /\ queue'[i].timer = u)
               /\ ~(current'.op = "insert" /\ current'.timer = u)
    BY <1>2, <1>4, <1>5 DEF Silenced
  <2> QED  BY <1>1, <1>2, <2>1, <2>2 DEF Silenced, Linked
<1>9. Now' = Now /\ phase' # "unlink"
  BY <1>1, <1>6 DEF Now
<1>10. Timed'
  BY <1>1, <1>2, <1>6, <1>9, TimedSame
<1>11. Counting'
  <2>1. IsTick(current') => current'.millis \in Nat
    BY <1>4, Entries
  <2> QED  BY <1>1, <1>2, <1>3, <1>4, <1>5, <1>6, <2>1 DEF Waits, Counting, TicksAhead
<1>12. TicksAhead'
  <2>1. ASSUME NEW i \in 1..Len(queue'), IsTick(queue'[i])
        PROVE  /\ timer_millis < queue'[i].millis /\ queue'[i].millis <= millis
               /\ phase' # "idle" => current'.millis < queue'[i].millis
               /\ \A j \in 1..i - 1 : IsTick(queue'[j]) => queue'[j].millis < queue'[i].millis
    <3>1. queue'[i] = queue[i + 1] /\ i + 1 \in 1..Len(queue) /\ 1 \in 1..(i + 1) - 1
      BY <1>4, <1>5
    <3>2. \A j \in 1..i - 1 : j \in 1..Len(queue') /\ j + 1 \in 1..(i + 1) - 1
      BY <1>3, <1>4
    <3>3. \A j \in 1..(i + 1) - 1 : IsTick(queue[j]) => queue[j].millis < queue[i + 1].millis
      BY <1>2, <2>1, <3>1 DEF Waits, TicksAhead
    <3>4. timer_millis < queue[i + 1].millis /\ queue[i + 1].millis <= millis
      BY <1>2, <2>1, <3>1 DEF Waits, TicksAhead
    <3>5. \A j \in 1..i - 1 : IsTick(queue'[j]) => queue'[j].millis < queue'[i].millis
      BY <1>4, <3>1, <3>2, <3>3
    <3>6. phase' # "idle" => current'.millis < queue'[i].millis
      BY <1>4, <1>6, <3>1, <3>3
    <3> QED  BY <3>1, <3>4, <3>5, <3>6
  <2> QED  BY <1>1, <2>1 DEF TicksAhead
<1>13. LastTick'
  <2>1. CASE millis \in dropped \/ timer_millis = millis
    BY <1>1, <2>1 DEF LastTick
  <2>2. CASE \E i \in 1..Len(queue) : IsTick(queue[i]) /\ queue[i].millis = millis
    <3>1. PICK i \in 1..Len(queue) : IsTick(queue[i]) /\ queue[i].millis = millis
      BY <2>2
    <3>2. CASE i = 1
      BY <1>1, <1>4, <1>6, <3>1, <3>2 DEF LastTick
    <3>3. CASE i - 1 \in 1..Len(queue') /\ (i - 1) + 1 = i
      <4>1. queue'[i - 1] = queue[i]
        BY <1>4, <3>3
      <4> QED  BY <1>1, <3>1, <3>3, <4>1 DEF LastTick
    <3> QED  BY <1>5, <3>2, <3>3
  <2> QED  BY <1>2, <1>6, <2>1, <2>2 DEF Waits, LastTick
<1>14. StartsInOrder'
  <2>1. ASSUME NEW i \in 1..Len(queue'), queue'[i].op = "insert"
        PROVE  /\ timer_millis <= Asked(queue'[i]) /\ Asked(queue'[i]) <= millis
               /\ phase' # "idle" => current'.millis <= Asked(queue'[i])
               /\ \A j \in 1..i - 1 : IsTick(queue'[j]) => queue'[j].millis <= Asked(queue'[i])
               /\ dropped = {} =>
                    \/ timer_millis = Asked(queue'[i])
                    \/ phase' # "idle" /\ current'.millis = Asked(queue'[i])
                    \/ \E j \in 1..i - 1 :
                         IsTick(queue'[j]) /\ queue'[j].millis = Asked(queue'[i])
    <3>1. queue'[i] = queue[i + 1] /\ i + 1 \in 1..Len(queue) /\ 1 \in 1..(i + 1) - 1
      BY <1>4, <1>5
    <3>2. /\ \A j \in 1..i - 1 : j \in 1..Len(queue') /\ j + 1 \in 1..(i + 1) - 1
          /\ \A j \in 1..(i + 1) - 1 :
               j = 1 \/ (j - 1 \in 1..i - 1 /\ j - 1 \in 1..Len(queue') /\ (j - 1) + 1 = j)
      BY <1>3, <1>4
    <3>3. /\ timer_millis <= Asked(queue[i + 1]) /\ Asked(queue[i + 1]) <= millis
          /\ \A j \in 1..(i + 1) - 1 : IsTick(queue[j]) => queue[j].millis <= Asked(queue[i + 1])
          /\ dropped = {} =>
               \/ timer_millis = Asked(queue[i + 1])
               \/ \E j \in 1..(i + 1) - 1 :
                    IsTick(queue[j]) /\ queue[j].millis = Asked(queue[i + 1])
      BY <1>2, <1>6, <2>1, <3>1 DEF Waits, StartsInOrder
    <3>4. \A j \in 1..i - 1 : IsTick(queue'[j]) => queue'[j].millis <= Asked(queue'[i])
      BY <1>4, <3>1, <3>2, <3>3
    <3>5. phase' # "idle" => current'.millis <= Asked(queue'[i])
      BY <1>4, <1>6, <3>1, <3>3
    <3>6. ASSUME NEW j \in 1..(i + 1) - 1, IsTick(queue[j]), queue[j].millis = Asked(queue[i + 1])
          PROVE  \/ phase' # "idle" /\ current'.millis = Asked(queue'[i])
                 \/ \E k \in 1..i - 1 : IsTick(queue'[k]) /\ queue'[k].millis = Asked(queue'[i])
      <4>1. CASE j = 1
        BY <1>4, <1>6, <3>1, <3>6, <4>1
      <4>2. CASE j - 1 \in 1..i - 1 /\ j - 1 \in 1..Len(queue') /\ (j - 1) + 1 = j
        <5>1. queue'[j - 1] = queue[j]
          BY <1>4, <4>2
        <5> QED  BY <3>1, <3>6, <4>2, <5>1
      <4> QED  BY <3>2, <4>1, <4>2
    <3> QED  BY <3>1, <3>3, <3>4, <3>5, <3>6
  <2>2. current'.op = "insert" =>
          /\ timer_millis <= Asked(current')
          /\ dropped = {} => timer_millis = Asked(current')
    <3>1. \A j : j \notin 1..1 - 1
      OBVIOUS
    <3> QED  BY <1>2, <1>4, <1>5, <1>6, <3>1 DEF Waits, StartsInOrder
  <2> QED  BY <1>1, <2>1, <2>2 DEF StartsInOrder
<1>15. Wants'
  <2>1. ASSUME NEW t \in Timers, NEW i \in 1..Len(queue'), IsFor(queue'[i], t),
               \A j \in i + 1..Len(queue') : ~IsFor(queue'[j], t)
        PROVE  queue'[i].op = "insert" <=> t \in wanted
    <3>1. queue'[i] = queue[i + 1] /\ i + 1 \in 1..Len(queue)
      BY <1>4, <1>5
    <3>2. \A j \in (i + 1) + 1..Len(queue) :
            j - 1 \in i + 1..Len(queue') /\ j - 1 \in 1..Len(queue') /\ (j - 1) + 1 = j
      BY <1>3, <1>4
    <3>3. \A j \in (i + 1) + 1..Len(queue) : queue[j] = queue'[j - 1]
      BY <1>4, <3>2
    <3>4. \A j \in (i + 1) + 1..Len(queue) : ~IsFor(queue[j], t)
      BY <2>1, <3>2, <3>3
    <3> QED  BY <1>2, <2>1, <3>1, <3>4 DEF Wants
  <2>2. ASSUME NEW t \in Timers, IsFor(current', t), \A i \in 1..Len(queue') : ~IsFor(queue'[i], t)
        PROVE  current'.op = "insert" <=> t \in wanted
    <3>1. \A j \in 1 + 1..Len(queue) : j - 1 \in 1..Len(queue') /\ (j - 1) + 1 = j
      BY <1>3, <1>4
    <3>2. \A j \in 1 + 1..Len(queue) : queue[j] = queue'[j - 1]
      BY <1>4, <3>1
    <3>3. \A j \in 1 + 1..Len(queue) : ~IsFor(queue[j], t)
      BY <2>2, <3>1, <3>2
    <3> QED  BY <1>2, <1>4, <1>5, <2>2, <3>3 DEF Wants
  <2>3. ASSUME NEW t \in Timers, ~Pending(t)'
        PROVE  Linked(t)' <=> t \in wanted
    <3>1. ASSUME NEW i \in 1..Len(queue)
          PROVE  ~(queue[i].op # "tick" /\ queue[i].timer = t)
      <4>1. CASE i = 1
        BY <1>4, <1>6, <2>3, <4>1 DEF Pending
      <4>2. CASE i - 1 \in 1..Len(queue') /\ (i - 1) + 1 = i
        <5>1. queue'[i - 1] = queue[i]
          BY <1>4, <4>2
        <5> QED  BY <2>3, <4>2, <5>1 DEF Pending
      <4> QED  BY <1>5, <4>1, <4>2
    <3>2. ~Pending(t)
      BY <1>4, <3>1 DEF Pending
    <3>3. Linked(t)' <=> Linked(t)
      BY <1>1 DEF Linked
    <3> QED  BY <1>2, <3>2, <3>3 DEF Wants
  <2> QED  BY <1>1, <2>1, <2>2, <2>3 DEF Wants
<1> QED  BY <1>7, <1>8, <1>10, <1>11, <1>12, <1>13, <1>14, <1>15 DEF IInv, Waits

(* When a deferred request returns, nothing else of the queue changes.            *)
LEMMA ReturnWaits ==
  ASSUME Waits, current # None, ~IsTick(current),
         UNCHANGED <<millis, timer_millis, phase, dropped>>,
         queue' = queue, current' = None
  PROVE  Waits' /\ Now' = Now /\ phase = "idle"
<1>1. phase = "idle"
  BY DEF Waits, Counting
<1>2. Counting' /\ TicksAhead' /\ LastTick' /\ StartsInOrder'
  BY <1>1 DEF Waits, Counting, TicksAhead, LastTick, StartsInOrder
<1> QED  BY <1>1, <1>2 DEF Waits, Now

LEMMA RunInsertKeeps == ASSUME IInv, RunInsert PROVE IInv'
<1> DEFINE t == current.timer
<1>1. /\ UNCHANGED <<enabled, millis, timer_millis, phase, callback, stopping, calls>>
      /\ UNCHANGED <<wanted, silent, dropped>>
      /\ current # None /\ current.op = "insert" /\ Link(t, current.timeout)
      /\ due' = [due EXCEPT ![t] = current.due] /\ Queue!Finish
  BY DEF RunInsert
<1>2. disturbed' = (disturbed \/ Disturbs(t) \/ Wraps(current.timeout))
  BY Zenon DEF RunInsert
<1>3. TypeOK /\ LinkedOnce /\ Waits /\ Wants /\ Silenced /\ Timed /\ ListOK
  BY Numbers DEF IInv
<1>4. /\ current \in Entry /\ t \in Timers /\ current.timeout \in Timeout
      /\ current.due \in Nat /\ current.due <= MaxMillis + MaxTimeout
      /\ Asked(current) \in Int /\ current.due = Asked(current) + current.timeout
      /\ ~IsTick(current) /\ IsFor(current, t)
  BY <1>1, <1>3, Numbers, Entries DEF IsTick, IsFor
<1>5. Queue!TypeOK' /\ current' = None /\ queue' = queue
  BY <1>1, <1>3, Finishing
<1>6. /\ ListOK'
      /\ \A u \in Timers : In(list', u) <=> In(list, u) \/ u = t
  BY <1>1, <1>3, <1>4, Linking
<1>7. Waits' /\ Now' = Now /\ phase = "idle" /\ Now = timer_millis /\ Now \in Nat
  BY <1>1, <1>3, <1>4, <1>5, ReturnWaits, NowFits
<1>8. TypeOK'
  <2>1. current.due \in 0..MaxMillis + MaxTimeout
    BY <1>4, Bounds
  <2>2. due' \in [Timers -> 0..MaxMillis + MaxTimeout]
    BY <1>1, <1>3, <2>1 DEF TypeOK
  <2>3. disturbed' \in BOOLEAN
    BY <1>2, <1>3, Zenon DEF TypeOK
  <2> QED  BY <1>1, <1>3, <1>5, <1>6, <2>2, <2>3 DEF TypeOK, ListOK
<1>9. LinkedOnce'
  BY <1>6 DEF ListOK, LinkedOnce
<1>10. Wants'
  BY <1>1, <1>3, <1>4, <1>5, <1>6, WantsDeferred
<1>11. Silenced'
  <2>1. ASSUME NEW u \in silent
        PROVE  Linked(u)' <=> Linked(u)
    <3>1. u # t /\ u \in Timers
      BY <1>1, <1>3 DEF Silenced, TypeOK
    <3> QED  BY <1>6, <3>1 DEF Linked, In
  <2> QED  BY <1>1, <1>3, <1>5, <2>1 DEF Silenced
<1>12. Timed'
  <2>1. Meets(Now, current.timeout, current.due)
    <3>1. timer_millis <= Asked(current) /\ (dropped = {} => timer_millis = Asked(current))
      BY <1>1, <1>3 DEF Waits, StartsInOrder
    <3> QED  BY <1>4, <1>7, <3>1, Bounds DEF Meets
  <2>2. due \in [Timers -> 0..MaxMillis + MaxTimeout] /\ dropped' = dropped /\ phase' = phase
    BY <1>1, <1>3 DEF TypeOK
  <2> HIDE DEF t
  <2> QED  BY <1>1, <1>2, <1>3, <1>4, <1>7, <2>1, <2>2, LinkTimed
<1> QED  BY <1>7, <1>8, <1>9, <1>10, <1>11, <1>12 DEF IInv

LEMMA RunRemoveKeeps == ASSUME IInv, RunRemove PROVE IInv'
<1> DEFINE t == current.timer
<1>1. /\ UNCHANGED <<millis, timer_millis, phase, callback, stopping, calls, due>>
      /\ UNCHANGED <<wanted, silent, dropped>>
      /\ current # None /\ current.op = "remove" /\ Unlink(t) /\ Queue!Finish
  BY DEF RunRemove
<1>2. disturbed' = (disturbed \/ Disturbs(t))
  BY Zenon DEF RunRemove
<1>3. TypeOK /\ LinkedOnce /\ Waits /\ Wants /\ Silenced /\ Timed /\ ListOK
  BY Numbers DEF IInv
<1>4. current \in Entry /\ t \in Timers /\ ~IsTick(current) /\ IsFor(current, t)
  BY <1>1, <1>3, Numbers, Entries DEF IsTick, IsFor
<1>5. Queue!TypeOK' /\ current' = None /\ queue' = queue
  BY <1>1, <1>3, Finishing
<1>6. /\ ListOK'
      /\ \A u \in Timers : In(list', u) <=> In(list, u) /\ u # t
  BY <1>1, <1>3, <1>4, Unlinking
<1>7. Waits' /\ Now' = Now
  BY <1>1, <1>3, <1>4, <1>5, ReturnWaits
<1>8. TypeOK'
  <2>1. enabled' \in [Timers -> BOOLEAN]
    BY <1>1, <1>3 DEF TypeOK, Unlink
  <2>2. disturbed' \in BOOLEAN
    BY <1>2, <1>3, Zenon DEF TypeOK
  <2> QED  BY <1>1, <1>3, <1>5, <1>6, <2>1, <2>2 DEF TypeOK, ListOK
<1>9. LinkedOnce'
  BY <1>6 DEF ListOK, LinkedOnce
<1>10. Wants'
  BY <1>1, <1>3, <1>4, <1>5, <1>6, WantsDeferred
<1>11. Silenced'
  BY <1>1, <1>3, <1>4, <1>5, <1>6, UnlinkSilences
<1>12. Timed'
  <2>1. ~disturbed' => ~disturbed /\ ~Disturbs(t)
    BY <1>2
  <2> HIDE DEF t
  <2> QED  BY <1>1, <1>3, <1>4, <1>7, <2>1, UnlinkTimed
<1> QED  BY <1>7, <1>8, <1>9, <1>10, <1>11, <1>12 DEF IInv

-----------------------------------------------------------------------------
(* armv7m_timer_callback.                                                    *)

LEMMA CountDoneKeeps == ASSUME IInv, CountDone PROVE IInv'
<1>1. /\ UNCHANGED <<list, remaining, enabled, millis, timer_millis, callback, stopping, calls>>
      /\ UNCHANGED <<due, wanted, silent, disturbed, dropped>>
      /\ phase = "count" /\ phase' = "idle" /\ timer_millis = current.millis /\ Queue!Finish
  BY DEF CountDone, history
<1>2. TypeOK /\ LinkedOnce /\ Waits /\ Wants /\ Silenced /\ Timed
  BY DEF IInv
<1>3. Queue!TypeOK' /\ current # None /\ current' = None /\ queue' = queue
  BY <1>1, <1>2, Finishing
<1>4. current \in Entry /\ IsTick(current)
  BY <1>1, <1>2, <1>3, Numbers DEF Waits, Counting
<1>5. TypeOK'
  BY <1>1, <1>2, <1>3 DEF TypeOK
<1>6. LinkedOnce' /\ Silenced' /\ Now' = Now
  BY <1>1, <1>2, <1>3 DEF LinkedOnce, Silenced, Linked, Now
<1>7. Timed'
  BY <1>1, <1>2, <1>6, TimedSame
<1>8. Waits'
  <2>1. Counting' /\ TicksAhead' /\ LastTick'
    BY <1>1, <1>2, <1>3 DEF Waits, Counting, TicksAhead, LastTick
  <2>2. StartsInOrder'
    BY <1>1, <1>2, <1>3 DEF Waits, StartsInOrder
  <2> QED  BY <2>1, <2>2 DEF Waits
<1>9. Wants'
  <2>1. \A t \in Timers : Pending(t)' <=> Pending(t)
    BY <1>3, <1>4 DEF Pending, IsTick
  <2> QED  BY <1>1, <1>2, <1>3, <2>1 DEF Wants, Linked
<1> QED  BY <1>5, <1>6, <1>7, <1>8, <1>9 DEF IInv

LEMMA ReadCallbackKeeps == ASSUME IInv, ReadCallback PROVE IInv'
<1>1. /\ UNCHANGED <<list, remaining, enabled, millis, timer_millis, stopping, calls>>
      /\ UNCHANGED <<queue, current, due, wanted, silent, disturbed, dropped>>
      /\ phase = "expire" /\ phase' = "unlink" /\ Expired
  BY DEF ReadCallback, history
<1>2. TypeOK /\ LinkedOnce /\ Waits /\ Wants /\ Silenced /\ Timed
  BY DEF IInv
<1>3. callback' \in BOOLEAN
  <2>1. list # << >> /\ list \in Seq(Timers) /\ enabled \in [Timers -> BOOLEAN]
    BY <1>1, <1>2 DEF Expired, TypeOK
  <2>2. Head(list) \in Timers
    BY <2>1, HeadTailProperties
  <2>3. callback' = enabled[Head(list)]
    BY Zenon DEF ReadCallback
  <2> QED  BY <2>1, <2>2, <2>3
<1>4. TypeOK'
  BY <1>1, <1>2, <1>3 DEF TypeOK, Queue!TypeOK
<1>5. LinkedOnce' /\ Silenced' /\ Now' = Now
  BY <1>1, <1>2 DEF LinkedOnce, Silenced, Linked, Now
<1>6. Wants' /\ Timed'
  BY <1>1, <1>2, <1>5, WantsSame, TimedSame
<1>7. Waits'
  <2>1. Counting'
    BY <1>1, <1>2 DEF Waits, Counting, Expired
  <2>2. TicksAhead' /\ LastTick' /\ StartsInOrder'
    BY <1>1, <1>2 DEF Waits, TicksAhead, LastTick, StartsInOrder
  <2> QED  BY <2>1, <2>2 DEF Waits
<1> QED  BY <1>4, <1>5, <1>6, <1>7 DEF IInv

LEMMA NextTickKeeps == ASSUME IInv, NextTick PROVE IInv'
<1>1. /\ UNCHANGED <<list, remaining, enabled, millis, callback, stopping, calls, queue, current>>
      /\ UNCHANGED <<due, wanted, silent, disturbed, dropped>>
      /\ phase = "expire" /\ phase' = "count" /\ ~Expired /\ timer_millis' = timer_millis + 1
  BY DEF NextTick, history
<1>2. TypeOK /\ LinkedOnce /\ Waits /\ Wants /\ Silenced /\ Timed /\ ListOK
  BY Numbers DEF IInv
<1>3. /\ millis \in Nat /\ timer_millis \in Nat /\ Len(queue) \in Nat
      /\ \A i \in 1..Len(queue) : queue[i] \in Entry
      /\ current \in Entry /\ IsTick(current) /\ current.millis \in Nat
      /\ timer_millis < current.millis /\ current.millis <= millis /\ millis <= MaxMillis
  BY <1>1, <1>2, Numbers, Entries DEF Waits, Counting
<1>4. timer_millis' \in Nat /\ timer_millis' <= current.millis /\ timer_millis' <= MaxMillis
  BY <1>1, <1>3, Bounds
<1>5. TypeOK'
  <2>1. timer_millis' \in 0..MaxMillis
    BY <1>4, Bounds
  <2> QED  BY <1>1, <1>2, <2>1 DEF TypeOK, Queue!TypeOK
<1>6. LinkedOnce' /\ Silenced' /\ Now' = Now /\ Wants'
  BY <1>1, <1>2, WantsSame DEF LinkedOnce, Silenced, Linked, Now
<1>7. Timed'
  <2>1. ASSUME list # << >> PROVE remaining[list[1]] > 0
    <3>1. list \in Seq(Timers) /\ remaining \in [Timers -> Nat]
      BY <1>2, ListNats DEF ListOK
    <3> QED  BY <1>1, <2>1, <3>1, HeadTicks DEF Expired
  <2> QED  BY <1>1, <1>2, <1>6, <2>1 DEF Timed, Expiry
<1>8. \A i \in 1..Len(queue) : /\ IsTick(queue[i]) => queue[i].millis \in Nat
                               /\ queue[i].op = "insert" => Asked(queue[i]) \in Int
  BY <1>3, Entries
<1>9. Counting'
  BY <1>1, <1>2, <1>3, <1>4 DEF Waits, Counting
<1>10. TicksAhead'
  BY <1>1, <1>2, <1>3, <1>4, <1>8 DEF Waits, TicksAhead
<1>11. LastTick'
  BY <1>1, <1>2, <1>3 DEF Waits, LastTick
<1>12. StartsInOrder'
  <2>1. \A i \in 1..Len(queue) : queue[i].op = "insert" =>
          /\ timer_millis' <= Asked(queue[i]) /\ timer_millis # Asked(queue[i])
    BY <1>1, <1>2, <1>3, <1>4, <1>8 DEF Waits, StartsInOrder
  <2>2. current.op # "insert"
    BY <1>3 DEF IsTick
  <2> QED  BY <1>1, <1>2, <2>1, <2>2 DEF Waits, StartsInOrder
<1> QED  BY <1>5, <1>6, <1>7, <1>9, <1>10, <1>11, <1>12 DEF IInv, Waits

LEMMA ExpireKeeps == ASSUME IInv, Expire PROVE IInv'
<1> DEFINE t == Head(list)
<1>1. /\ UNCHANGED <<millis, timer_millis, callback, stopping, calls, queue, current, due>>
      /\ UNCHANGED <<silent, disturbed, dropped>>
      /\ phase = "unlink" /\ phase' \in {"call", "expire"} /\ Unlink(t)
      /\ wanted' = IF Pending(t) THEN wanted ELSE wanted \ {t}
  BY DEF Expire
<1>2. TypeOK /\ LinkedOnce /\ Waits /\ Wants /\ Silenced /\ Timed /\ ListOK
  BY Numbers DEF IInv
<1>3. Expired /\ t \in Timers /\ remaining[t] = 0
  <2>1. Expired
    BY <1>1, <1>2 DEF Waits, Counting
  <2>2. list # << >> /\ list \in Seq(Timers)
    BY <1>2, <2>1 DEF Expired, ListOK
  <2> QED  BY <2>1, <2>2, HeadTailProperties DEF Expired
<1> HIDE DEF t
<1>4. /\ ListOK'
      /\ \A u \in Timers : In(list', u) <=> In(list, u) /\ u # t
  BY <1>1, <1>2, <1>3, Unlinking
<1>5. TypeOK'
  <2>1. enabled' \in [Timers -> BOOLEAN]
    BY <1>1, <1>2 DEF TypeOK, Unlink
  <2>2. wanted' \subseteq Timers
    BY <1>1, <1>2 DEF TypeOK
  <2> QED  BY <1>1, <1>2, <1>4, <2>1, <2>2 DEF TypeOK, Queue!TypeOK, ListOK
<1>6. LinkedOnce'
  BY <1>4 DEF ListOK, LinkedOnce
<1>7. Wants'
  <2> DEFINE start == FALSE
  <2>1. /\ start \in BOOLEAN
        /\ \A u \in Timers : In(list', u) <=> IF u = t THEN start ELSE In(list, u)
        /\ wanted' = IF Pending(t) THEN wanted
                     ELSE IF start THEN wanted \cup {t} ELSE wanted \ {t}
    BY <1>1, <1>4
  <2> HIDE DEF start
  <2> QED  BY <1>1, <1>2, <1>3, <2>1, WantsAtOnce
<1>8. Silenced'
  BY <1>1, <1>2, <1>3, <1>4, UnlinkSilences
<1>9. Now' = Now
  BY <1>1 DEF Now
<1>10. Timed'
  <2>1. ~disturbed' => ~disturbed /\ ~Disturbs(t)
    BY <1>1, <1>3 DEF Disturbs
  <2> QED  BY <1>1, <1>2, <1>3, <1>9, <2>1, UnlinkTimed
<1>11. Waits'
  <2>1. Counting'
    BY <1>1, <1>2 DEF Waits, Counting
  <2>2. TicksAhead' /\ LastTick' /\ StartsInOrder'
    BY <1>1, <1>2 DEF Waits, TicksAhead, LastTick, StartsInOrder
  <2> QED  BY <2>1, <2>2 DEF Waits
<1> QED  BY <1>5, <1>6, <1>7, <1>8, <1>10, <1>11 DEF IInv

(* The head loses a tick, and so do the ticks to every element.                 *)
LEMMA TicksCounted ==
  ASSUME NEW l \in Seq(Timers), Once(l), l # << >>,
         NEW r \in [Timers -> Nat], NEW q \in [Timers -> Nat],
         q[l[1]] = r[l[1]] - 1, \A u \in Timers : u # l[1] => q[u] = r[u]
  PROVE  \A i \in 1..Len(l) : TicksTo(l, q, i) = TicksTo(l, r, i) - 1
<1>1. /\ Len(l) \in Nat /\ 1 \in 1..Len(l) /\ r[l[1]] \in Nat
      /\ TicksTo(l, r, 1) = r[l[1]] /\ TicksTo(l, q, 1) = q[l[1]]
  BY HeadTicks
<1> DEFINE n == Len(l) - 1
           c == 0 - 1
           a == 1
<1>2. a \in Nat /\ n \in Nat /\ c \in Int /\ a + n <= Len(l)
  BY <1>1
<1>3. Apart(TicksTo(l, q, a), TicksTo(l, r, a), c)
  BY <1>1 DEF Apart
<1>4. \A j \in 1..n : q[l[a + j]] = r[l[a + j]]
  <2> TAKE j \in 1..n
  <2>1. a + j \in 1..Len(l) /\ a + j # 1
    BY <1>1
  <2>2. l[a + j] \in Timers /\ l[a + j] # l[1]
    BY <1>1, <2>1, ElementOfSeq DEF Once
  <2> QED  BY <2>2
<1> HIDE DEF n, c, a
<1>5. \A j \in 0..n : Apart(TicksTo(l, q, a + j), TicksTo(l, r, a + j), c)
  BY <1>2, <1>3, <1>4, TicksAlong
<1>6. ASSUME NEW i \in 1..Len(l)
      PROVE  TicksTo(l, q, i) = TicksTo(l, r, i) - 1
  <2>1. i - a \in 0..n /\ a + (i - a) = i /\ i \in 0..Len(l)
    BY <1>1 DEF n, a
  <2>2. TicksTo(l, q, i) = TicksTo(l, r, i) + c
    BY <1>5, <2>1 DEF Apart
  <2>3. TicksTo(l, r, i) \in Nat
    BY <2>1, TicksStep
  <2> QED  BY <2>2, <2>3 DEF c
<1> QED  BY <1>6

LEMMA CountKeeps == ASSUME IInv, Count PROVE IInv'
<1>1. /\ UNCHANGED <<list, enabled, millis, timer_millis, callback, stopping, calls>>
      /\ UNCHANGED <<queue, current, due, wanted, silent, disturbed, dropped>>
      /\ phase = "count" /\ phase' = "expire" /\ timer_millis # current.millis
      /\ remaining' = IF list = << >> THEN remaining
                      ELSE [remaining EXCEPT ![Head(list)] = (@ - 1) % Word]
  BY DEF Count, history
<1>2. TypeOK /\ LinkedOnce /\ Waits /\ Wants /\ Silenced /\ Timed /\ ListOK
  BY Numbers DEF IInv
<1>3. list \in Seq(Timers) /\ Once(list) /\ remaining \in [Timers -> Nat]
  BY <1>2, ListNats DEF ListOK
<1>4. timer_millis \in Nat /\ current.millis \in Nat /\ timer_millis < current.millis
  BY <1>1, <1>2, Numbers, Entries DEF Waits, Counting
<1>5. remaining' \in [Timers -> 0..Word - 1]
  <2>1. ASSUME NEW x \in Int PROVE x % Word \in 0..Word - 1
    BY Words
  <2>2. ASSUME list # << >>
        PROVE  Head(list) \in Timers /\ remaining[Head(list)] - 1 \in Int
    BY <1>3, <2>2, HeadTailProperties
  <2>3. remaining \in [Timers -> 0..Word - 1]
    BY <1>2 DEF TypeOK
  <2> QED  BY <1>1, <2>1, <2>2, <2>3
<1>6. TypeOK'
  BY <1>1, <1>2, <1>5 DEF TypeOK, Queue!TypeOK
<1>7. LinkedOnce' /\ Silenced' /\ Wants'
  BY <1>1, <1>2, WantsSame DEF LinkedOnce, Silenced, Linked
<1>8. Waits'
  <2>1. Counting'
    BY <1>1, <1>2, <1>4 DEF Waits, Counting
  <2>2. TicksAhead' /\ LastTick' /\ StartsInOrder'
    BY <1>1, <1>2 DEF Waits, TicksAhead, LastTick, StartsInOrder
  <2> QED  BY <2>1, <2>2 DEF Waits
<1>9. Timed'
  <2> SUFFICES ASSUME ~disturbed
               PROVE  \A i \in 1..Len(list) :
                        /\ Expiry(i)' <= due[list[i]]
                        /\ dropped = {} => Expiry(i)' = due[list[i]]
    BY <1>1 DEF Timed
  <2> SUFFICES ASSUME list # << >>
               PROVE  \A i \in 1..Len(list) : Expiry(i)' = Expiry(i)
    <3>1. \A i \in 1..Len(list) : list # << >>
      BY <1>3
    <3> QED  BY <1>2, <3>1 DEF Timed
  <2>1. /\ Head(list) = list[1] /\ list[1] \in Timers /\ remaining[list[1]] \in Nat
        /\ Len(list) \in Nat
    BY <1>3, HeadTicks
  <2>2. remaining[list[1]] > 0 /\ remaining[list[1]] < Word
    <3>1. \A x \in 0..Word - 1 : x < Word
      BY Words
    <3> QED  BY <1>1, <1>2, <2>1, <3>1 DEF Timed, TypeOK
  <2>3. (remaining[list[1]] - 1) % Word = remaining[list[1]] - 1
    <3>1. ASSUME NEW x \in Nat, x > 0, x < Word PROVE (x - 1) % Word = x - 1
      BY <3>1, Words
    <3> QED  BY <2>1, <2>2, <3>1
  <2>4. /\ remaining'[list[1]] = remaining[list[1]] - 1
        /\ \A u \in Timers : u # list[1] => remaining'[u] = remaining[u]
    BY <1>1, <1>3, <2>1, <2>3
  <2>5. remaining' \in [Timers -> Nat]
    <3>1. \A x \in 0..Word - 1 : x \in Nat
      BY Words
    <3> QED  BY <1>5, <3>1
  <2>6. \A i \in 1..Len(list) : TicksTo(list, remaining', i) = TicksTo(list, remaining, i) - 1
    BY <1>3, <2>4, <2>5, TicksCounted
  <2>7. \A i \in 1..Len(list) : TicksTo(list, remaining, i) \in Nat
    <3>1. \A i \in 1..Len(list) : i \in 0..Len(list)
      BY <2>1
    <3> QED  BY <1>3, <3>1, TicksStep
  <2>8. Now = timer_millis /\ Now' = timer_millis + 1
    BY <1>1 DEF Now
  <2>9. ASSUME NEW i \in 1..Len(list) PROVE Expiry(i)' = Expiry(i)
    <3>1. TicksTo(list', remaining', i) = TicksTo(list, remaining, i) - 1
      BY <1>1, <2>6
    <3> QED  BY <1>4, <2>7, <2>8, <3>1 DEF Expiry
  <2> QED  BY <2>9
<1> QED  BY <1>6, <1>7, <1>8, <1>9 DEF IInv

-----------------------------------------------------------------------------
LEMMA StutterKeeps == ASSUME IInv, UNCHANGED vars PROVE IInv'
<1>1. /\ UNCHANGED <<list, remaining, enabled, millis, timer_millis, phase, callback>>
      /\ UNCHANGED <<stopping, calls, queue, current, due, wanted, silent, disturbed, dropped>>
  BY DEF vars, codeVars, history
<1>2. TypeOK /\ LinkedOnce /\ Waits /\ Wants /\ Silenced /\ Timed
  BY DEF IInv
<1>3. LinkedOnce' /\ Silenced' /\ Now' = Now /\ (phase = "unlink" => Expired')
  BY <1>1, <1>2 DEF LinkedOnce, Silenced, Linked, Now, Waits, Counting, Expired
<1>4. TypeOK'
  BY <1>1, <1>2 DEF TypeOK, Queue!TypeOK
<1> QED  BY <1>1, <1>2, <1>3, <1>4, WaitsSame, WantsSame, TimedSame DEF IInv

LEMMA NextKeeps == IInv /\ [Next]_vars => IInv'
<1> SUFFICES ASSUME IInv, [Next]_vars PROVE IInv'
  OBVIOUS
<1>1. CASE UNCHANGED vars
  BY <1>1, StutterKeeps
<1>2. CASE Next
  BY <1>2, SysTickKeeps, IsrStartKeeps, IsrStopKeeps, IsrDisableKeeps, ThreadCallKeeps,
     DispatchKeeps, RunInsertKeeps, RunRemoveKeeps, CountKeeps, CountDoneKeeps,
     ReadCallbackKeeps, ExpireKeeps, RunCallbackKeeps, NextTickKeeps DEF Next
<1> QED  BY <1>1, <1>2

(* The argument holds of every state that the timers reach.                    *)
THEOREM Invariance == Spec => []IInv
  BY InitInv, NextKeeps, PTL DEF Spec

(* Every field of armv7m_timer.c keeps its type: no subtraction from a         *)
(* remaining wraps outside the word.                                         *)
THEOREM TypeCorrect == Spec => []TypeOK
<1>1. IInv => TypeOK
  BY DEF IInv
<1> QED  BY <1>1, Invariance, PTL

(* No timer expires after the tick it was started for, and none before it       *)
(* while no tick was dropped, unless a timer was unlinked in front of others.     *)
THEOREM ExpiresOnTime == Spec => []OnTime
<1>1. IInv => OnTime
  BY DEF IInv, Timed, OnTime
<1> QED  BY <1>1, Invariance, PTL

(* Once its requests are carried out, a timer is linked, and once only, iff the   *)
(* last one was to start it and it has not expired since.                       *)
THEOREM LastRequestCounts == Spec => []LinkedIffWanted
<1>1. ASSUME IInv PROVE LinkedIffWanted
  <2> SUFFICES ASSUME NEW t \in Timers, ~Pending(t)
               PROVE  Cardinality({i \in 1..Len(list) : list[i] = t}) =
                        IF t \in wanted THEN 1 ELSE 0
    BY DEF LinkedIffWanted
  <2>1. (Linked(t) <=> t \in wanted) /\ Once(list)
    BY <1>1 DEF IInv, Wants, LinkedOnce
  <2>2. CASE t \in wanted
    <3>1. PICK k \in 1..Len(list) : list[k] = t
      BY <2>1, <2>2 DEF Linked
    <3>2. {i \in 1..Len(list) : list[i] = t} = {k}
      BY <2>1, <3>1 DEF Once
    <3> QED  BY <2>2, <3>2, FS_Singleton
  <2>3. CASE t \notin wanted
    <3>1. {i \in 1..Len(list) : list[i] = t} = {}
      BY <2>1, <2>3 DEF Linked
    <3> QED  BY <2>3, <3>1, FS_EmptySet
  <2> QED  BY <2>2, <2>3
<1> QED  BY <1>1, Invariance, PTL

(* When the queue has drained, every tick is counted, unless the last one was     *)
(* dropped.                                                                *)
THEOREM CatchesUp == Spec => []CaughtUp
<1>1. ASSUME IInv PROVE CaughtUp
  <2> SUFFICES ASSUME queue = << >>, current = None, millis \notin dropped
               PROVE  timer_millis = millis
    BY DEF CaughtUp
  <2>1. phase = "idle" /\ \A i : i \notin 1..Len(queue)
    BY <1>1 DEF IInv, Waits, Counting
  <2> QED  BY <1>1, <2>1 DEF IInv, Waits, LastTick
<1> QED  BY <1>1, Invariance, PTL

(* A timer that a handler has stopped, with no earlier request for it pending,     *)
(* does not fire unless its callback had been read.                            *)
THEOREM StopsAreSilent == Spec => StopSilences
<1>1. ASSUME IInv, ReadCallback, callback' PROVE Head(list) \notin silent
  <2>1. /\ stopping = {} /\ list # << >> /\ list \in Seq(Timers)
        /\ enabled \in [Timers -> BOOLEAN]
    BY <1>1 DEF IInv, TypeOK, ReadCallback, NoHandler, Expired
  <2>2. Head(list) = list[1] /\ 1 \in 1..Len(list)
    BY <2>1, LenProperties, EmptySeq
  <2>3. Linked(Head(list))
    BY <2>2 DEF Linked
  <2>4. enabled[Head(list)]
    <3>1. callback' = enabled[Head(list)]
      BY <1>1, Zenon DEF ReadCallback
    <3> QED  BY <1>1, <3>1, Zenon
  <2> QED  BY <1>1, <2>1, <2>3, <2>4 DEF IInv, Silenced
<1>2. IInv => (ReadCallback /\ callback' => Head(list) \notin silent)
  BY <1>1
<1> QED  BY <1>2, Invariance, PTL DEF StopSilences

(* The timers use the deferred calls as a bounded queue that runs one at a time,   *)
(* and PendSV implements it: what is proved of each holds of both together.       *)
THEOREM QueueUsed == Spec => Queue!Spec
<1>1. Init => Queue!Init
  BY DEF Init
<1>2. ASSUME IInv, [Next]_vars
      PROVE  [Queue!Next]_<<queue, current>>
  <2>1. CASE UNCHANGED vars
    BY <2>1 DEF vars
  <2>2. CASE SysTick
    <3>1. ASSUME Queue!Accept([op |-> "tick", millis |-> millis + 1])
          PROVE  Queue!Next
      <4>1. millis + 1 \in 1..MaxMillis
        BY <1>2, <2>2, Numbers, Bounds DEF IInv, SysTick
      <4> QED  BY <3>1, <4>1 DEF Queue!Next, Tick
    <3> QED  BY <2>2, <3>1 DEF SysTick
  <2>3. ASSUME NEW t \in Timers, NEW timeout \in Timeout, IsrStart(t, timeout)
        PROVE  Queue!Next
    <3>1. millis + timeout \in 0..MaxMillis + MaxTimeout
      BY <1>2, Numbers, Bounds DEF IInv
    <3> QED  BY <2>3, <3>1 DEF IsrStart, Queue!Next, Insertion
  <2>4. ASSUME NEW t \in Timers, IsrStop(t)
        PROVE  Queue!Next
    BY <2>4 DEF IsrStop, Queue!Next, Removal
  <2>5. CASE Dispatch
    BY <2>5 DEF Dispatch, Queue!Next
  <2>6. CASE RunInsert \/ RunRemove \/ CountDone
    BY <2>6 DEF RunInsert, RunRemove, CountDone, Queue!Next
  <2>7. ASSUME NEW t \in Timers, IsrDisable(t)
        PROVE  UNCHANGED <<queue, current>>
    BY <2>7 DEF IsrDisable
  <2>8. CASE ThreadCall \/ Count \/ ReadCallback \/ Expire \/ RunCallback \/ NextTick
    BY <2>8 DEF ThreadCall, Count, ReadCallback, Expire, RunCallback, NextTick
  <2> QED  BY <1>2, <2>1, <2>2, <2>3, <2>4, <2>5, <2>6, <2>7, <2>8 DEF Next
<1> QED  BY <1>1, <1>2, Invariance, PTL DEF Spec, Queue!Spec
=============================================================================
