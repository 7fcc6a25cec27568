------------------------- MODULE ClockThreadsProofs -------------------------
(***************************************************************************)
(* Parts that do not depend on each other.                                 *)
(*                                                                         *)
(* Clock: no Clock object is passed over, and the promise of ClockSpec is  *)
(* kept, for any objects, timeouts, periods, lag and width of the tick     *)
(* count: proved of the work function that no interrupt disturbs at the    *)
(* object it is expiring (~Racing).                                        *)
(*                                                                         *)
(* PthreadMutex, as PosixThreads has it: a mutex is in one hand, a thread  *)
(* with no mutex runs at its own priority, and the promises of the two     *)
(* protocols are kept where a thread locks one mutex at a time.            *)
(*                                                                         *)
(* PthreadLife, as PosixThreads has it: every thread is freed, once.       *)
(***************************************************************************)
EXTENDS Clock, PosixThreads, QueueProofs

-----------------------------------------------------------------------------
(* Clock: the inductive invariant.                                         *)

Serving == pc \in {"walk", "expire", "call"}

\* Where the work function is in the ticks.  No tick is counted for an empty
\* queue, which stays empty while the function runs.
WorkOK ==
  /\ swiCount + ticksLeft <= MaxLag
  /\ ~Serving => ticksLeft = 0 /\ elem = <<>>
  /\ Serving /\ clockQ # <<>> => compare = Minus(ticks, swiCount + ticksLeft)
  /\ pc = "expire" => \E o \in Objects : obj = {o} /\ Due(o) /\ found = currTimeout[o]

\* An object is on the queue once, and only such a one is active.
ObjectsOK ==
  /\ \A i, j \in DOMAIN clockQ : clockQ[i] = clockQ[j] => i = j
  /\ \A o \in Objects : active[o] => Created(o)
  /\ \A o \in Objects : Created(o) => timeout[o] \in Timeouts

\* An active object is not passed over, and is not so far ahead that it would
\* look passed over.
InTime(o) ==
  active[o] => Left(o) + Behind(o) >= 1 /\ 2 * (Left(o) + MaxLag) < TickLimit

IInv == TypeOK /\ WorkOK /\ ObjectsOK /\ \A o \in Objects : InTime(o)

-----------------------------------------------------------------------------
(* The arithmetic of the tick count.                                       *)

\* From one count to another the short way round, as a signed number.
Gap(c, t) == LET d == Minus(c, t) IN IF 2 * d < TickLimit THEN d ELSE d - TickLimit

LEMMA Remainders ==
  ASSUME NEW N \in Nat, NEW a \in Int
  PROVE  /\ a \in 0 .. N - 1 => a % N = a
         /\ N > 0 /\ a \in -N .. -1 => a % N = a + N
         /\ a \in N .. 2 * N - 1 => a % N = a - N
<1>1. CASE a \in 0 .. N - 1
  BY <1>1
<1>2. CASE N > 0 /\ a \in -N .. -1
  BY <1>2
<1>3. CASE a \in N .. 2 * N - 1
  BY <1>3
<1> QED BY <1>1, <1>2, <1>3

LEMMA Counted ==
  ASSUME NEW m \in UInt32, NEW n \in UInt32
  PROVE  /\ Plus(m, n) \in UInt32 /\ Minus(m, n) \in UInt32
         /\ Plus(m, n) \in {m + n, m + n - TickLimit}
         /\ Minus(m, n) \in {m - n, m - n + TickLimit}
<1>1. /\ TickLimit \in Nat /\ TickLimit > 0 /\ m \in Int /\ n \in Int
      /\ 0 <= m /\ m < TickLimit /\ 0 <= n /\ n < TickLimit
  BY TimeoutsAssumption DEF UInt32
<1>2. Plus(m, n) = IF m + n < TickLimit THEN m + n ELSE m + n - TickLimit
  <2> DEFINE a == m + n
  <2>1. a \in Int /\ 0 <= a /\ a <= 2 * TickLimit - 1
    BY <1>1
  <2>2. a \in 0 .. TickLimit - 1 \/ a \in TickLimit .. 2 * TickLimit - 1
    BY <1>1, <2>1
  <2> HIDE DEF a
  <2>3. a \in 0 .. TickLimit - 1 => a % TickLimit = a
    BY <1>1, <2>1, Remainders
  <2>4. a \in TickLimit .. 2 * TickLimit - 1 => a % TickLimit = a - TickLimit
    BY <1>1, <2>1, Remainders
  <2> DEFINE r == a % TickLimit
  <2> HIDE DEF r
  <2>5. r = IF a < TickLimit THEN a ELSE a - TickLimit
    <3>1. /\ a \in 0 .. TickLimit - 1 => r = a
          /\ a \in TickLimit .. 2 * TickLimit - 1 => r = a - TickLimit
      BY <2>3, <2>4 DEF r
    <3> QED BY <1>1, <2>1, <2>2, <3>1
  <2>6. Plus(m, n) = r
    BY Zenon DEF Plus, r, a
  <2> QED BY <1>1, <2>1, <2>5, <2>6 DEF a
<1>3. Minus(m, n) = IF m - n >= 0 THEN m - n ELSE m - n + TickLimit
  <2> DEFINE a == m - n
  <2>1. a \in Int /\ -TickLimit <= a /\ a < TickLimit
    BY <1>1
  <2>2. a \in 0 .. TickLimit - 1 \/ a \in -TickLimit .. -1
    BY <1>1, <2>1
  <2> HIDE DEF a
  <2>3. a \in 0 .. TickLimit - 1 => a % TickLimit = a
    BY <1>1, <2>1, Remainders
  <2>4. a \in -TickLimit .. -1 => a % TickLimit = a + TickLimit
    BY <1>1, <2>1, Remainders
  <2> DEFINE r == a % TickLimit
  <2> HIDE DEF r
  <2>5. r = IF a >= 0 THEN a ELSE a + TickLimit
    <3>1. /\ a \in 0 .. TickLimit - 1 => r = a
          /\ a \in -TickLimit .. -1 => r = a + TickLimit
      BY <2>3, <2>4 DEF r
    <3> QED BY <1>1, <2>1, <2>2, <3>1
  <2>6. Minus(m, n) = r
    BY Zenon DEF Minus, r, a
  <2> QED BY <1>1, <2>1, <2>5, <2>6 DEF a
<1> QED BY <1>1, <1>2, <1>3 DEF UInt32

\* The gap is the difference but for the wraps, and lies between minus and plus
\* half the range; which makes it the only such number.
LEMMA GapIs ==
  ASSUME NEW c \in UInt32, NEW t \in UInt32
  PROVE  /\ Gap(c, t) \in Int
         /\ -TickLimit <= 2 * Gap(c, t) /\ 2 * Gap(c, t) < TickLimit
         /\ Gap(c, t) \in {c - t, c - t + TickLimit, c - t - TickLimit}
<1>1. TickLimit \in Nat /\ \A m \in UInt32 : m \in Int /\ 0 <= m /\ m < TickLimit
  BY TimeoutsAssumption DEF UInt32
<1> DEFINE d == Minus(c, t)
<1>2. d \in UInt32 /\ d \in {c - t, c - t + TickLimit}
  BY Counted
<1> HIDE DEF d
<1>3. Gap(c, t) = IF 2 * d < TickLimit THEN d ELSE d - TickLimit
  BY DEF Gap, d
<1> QED BY <1>1, <1>2, <1>3

LEMMA GapOnly ==
  ASSUME NEW c \in UInt32, NEW t \in UInt32, NEW l \in Int,
         -TickLimit <= 2 * l, 2 * l < TickLimit,
         l \in {c - t, c - t + TickLimit, c - t - TickLimit}
  PROVE  Gap(c, t) = l
<1>1. TickLimit \in Nat /\ c \in Int /\ t \in Int
  BY TimeoutsAssumption DEF UInt32
<1> QED BY <1>1, GapIs

\* n ticks after a moment, seen at this moment, is n ticks ahead.
LEMMA GapAfter ==
  ASSUME NEW t \in UInt32, NEW n \in Timeouts \cup Periods
  PROVE  n \in UInt32 /\ Plus(t, n) \in UInt32 /\ Gap(Plus(t, n), t) = n
<1>1. /\ TickLimit \in Nat /\ MaxLag \in Nat /\ n \in Nat /\ 2 * (n + MaxLag) < TickLimit
      /\ t \in Int /\ 0 <= t /\ t < TickLimit
  BY TimeoutsAssumption DEF UInt32
<1>2. n \in UInt32
  BY <1>1 DEF UInt32
<1>3. Plus(t, n) \in UInt32 /\ Plus(t, n) \in {t + n, t + n - TickLimit}
  BY <1>2, Counted
<1> DEFINE c == Plus(t, n)
<1> HIDE DEF c
<1>4. c \in UInt32 /\ c \in {t + n, t + n - TickLimit}
  BY <1>3 DEF c
<1>5. n \in {c - t, c - t + TickLimit, c - t - TickLimit} /\ c \in Int
  BY <1>1, <1>4 DEF UInt32
<1> QED BY <1>1, <1>2, <1>4, <1>5, GapOnly DEF c

\* A tick brings every due time one nearer, and a period puts it off.
LEMMA GapMoves ==
  ASSUME NEW c \in UInt32, NEW t \in UInt32
  PROVE  /\ 2 * (Gap(c, t) - 1) >= -TickLimit /\ 1 \in UInt32 => Gap(c, Plus(t, 1)) = Gap(c, t) - 1
         /\ \A n \in UInt32 : 2 * (Gap(c, t) + n) < TickLimit => Gap(Plus(c, n), t) = Gap(c, t) + n
<1>1. TickLimit \in Nat /\ \A m \in UInt32 : m \in Int /\ 0 <= m /\ m < TickLimit
  BY TimeoutsAssumption DEF UInt32
<1> DEFINE g == Gap(c, t)
<1>2. /\ g \in Int /\ -TickLimit <= 2 * g /\ 2 * g < TickLimit
      /\ g \in {c - t, c - t + TickLimit, c - t - TickLimit}
  BY GapIs
<1> HIDE DEF g
<1>3. ASSUME 2 * (g - 1) >= -TickLimit, 1 \in UInt32 PROVE Gap(c, Plus(t, 1)) = g - 1
  <2> DEFINE w == Plus(t, 1)
  <2>1. w \in UInt32 /\ w \in {t + 1, t + 1 - TickLimit}
    BY <1>3, Counted
  <2> HIDE DEF w
  <2>2. Gap(c, w) \in Int /\ -TickLimit <= 2 * Gap(c, w) /\ 2 * Gap(c, w) < TickLimit
        /\ Gap(c, w) \in {c - w, c - w + TickLimit, c - w - TickLimit}
    BY <2>1, GapIs
  <2> DEFINE h == Gap(c, w)
  <2> HIDE DEF h
  <2>3. h = g - 1
    BY <1>1, <1>2, <1>3, <2>1, <2>2 DEF h
  <2> QED BY <2>3 DEF w, h
<1>4. ASSUME NEW n \in UInt32, 2 * (g + n) < TickLimit PROVE Gap(Plus(c, n), t) = g + n
  <2> DEFINE w == Plus(c, n)
  <2>1. w \in UInt32 /\ w \in {c + n, c + n - TickLimit}
    BY Counted
  <2> HIDE DEF w
  <2>2. Gap(w, t) \in Int /\ -TickLimit <= 2 * Gap(w, t) /\ 2 * Gap(w, t) < TickLimit
        /\ Gap(w, t) \in {w - t, w - t + TickLimit, w - t - TickLimit}
    BY <2>1, GapIs
  <2> DEFINE h == Gap(w, t)
  <2> HIDE DEF h
  <2>3. h = g + n
    BY <1>1, <1>2, <1>4, <2>1, <2>2 DEF h
  <2> QED BY <2>3 DEF w, h
<1> QED BY <1>3, <1>4 DEF g

-----------------------------------------------------------------------------
(* Sequences: the queue of the objects, and what is left of it to visit.   *)

On(q, x)    == \E i \in DOMAIN q : q[i] = x
OnceOnly(q) == \A i, j \in DOMAIN q : q[i] = q[j] => i = j

LEMMA WithoutHead ==
  ASSUME NEW T, NEW q \in Seq(T), q # <<>>
  PROVE  /\ Tail(q) \in Seq(T) /\ Head(q) \in T
         /\ \A x : On(q, x) <=> x = Head(q) \/ On(Tail(q), x)
<1> DEFINE z == Tail(q)
           m == Len(q)
           h == Head(q)
<1>1. /\ m \in Nat /\ m # 0 /\ z \in Seq(T) /\ h \in T /\ h = q[1]
      /\ \A i \in 1 .. m - 1 : z[i] = q[i + 1]
      /\ DOMAIN q = 1 .. m /\ DOMAIN z = 1 .. m - 1
  OBVIOUS
<1> HIDE DEF z, m, h
<1>2. /\ 1 \in 1 .. m
      /\ \A i \in 1 .. m : i = 1 \/ (i - 1 \in 1 .. m - 1 /\ (i - 1) + 1 = i)
      /\ \A i \in 1 .. m - 1 : i + 1 \in 1 .. m
  BY <1>1
<1>3. ASSUME NEW x PROVE On(q, x) <=> x = h \/ On(z, x)
  <2>1. ASSUME NEW i \in 1 .. m PROVE q[i] = h \/ On(z, q[i])
    BY <1>1, <1>2 DEF On
  <2>2. ASSUME NEW i \in 1 .. m - 1 PROVE On(q, z[i])
    BY <1>1, <1>2 DEF On
  <2> QED BY <2>1, <2>2, <1>1, <1>2 DEF On
<1> QED BY <1>1, <1>3 DEF z, h

LEMMA WithLast ==
  ASSUME NEW T, NEW q \in Seq(T), OnceOnly(q), NEW y \in T, ~On(q, y)
  PROVE  /\ Append(q, y) \in Seq(T) /\ OnceOnly(Append(q, y))
         /\ \A x : On(Append(q, y), x) <=> On(q, x) \/ x = y
<1> DEFINE z == Append(q, y)
           m == Len(q)
<1>1. /\ m \in Nat /\ z \in Seq(T) /\ DOMAIN q = 1 .. m /\ DOMAIN z = 1 .. m + 1
      /\ z[m + 1] = y /\ \A i \in 1 .. m : z[i] = q[i]
  OBVIOUS
<1> HIDE DEF z, m
<1>2. \A i \in 1 .. m + 1 : i \in 1 .. m \/ i = m + 1
  BY <1>1
<1>3. 1 .. m \subseteq 1 .. m + 1 /\ m + 1 \in 1 .. m + 1
  BY <1>1
<1>4. \A x : On(z, x) <=> On(q, x) \/ x = y
  BY <1>1, <1>2, <1>3 DEF On
<1>5. OnceOnly(z)
  <2> SUFFICES ASSUME NEW i \in 1 .. m + 1, NEW j \in 1 .. m + 1, z[i] = z[j] PROVE i = j
    BY <1>1 DEF OnceOnly
  <2>1. CASE i \in 1 .. m /\ j \in 1 .. m
    BY <2>1, <1>1 DEF OnceOnly
  <2>2. CASE i = m + 1 /\ j \in 1 .. m
    BY <2>2, <1>1 DEF On
  <2>3. CASE i \in 1 .. m /\ j = m + 1
    BY <2>3, <1>1 DEF On
  <2> QED BY <2>1, <2>2, <2>3, <1>2
<1> QED BY <1>1, <1>4, <1>5 DEF z

\* RemoveFirst takes x out and leaves the others.
LEMMA Unlinked ==
  ASSUME NEW T, NEW q \in Seq(T), OnceOnly(q), NEW x, On(q, x)
  PROVE  LET z == RemoveFirst(q, x)
         IN  /\ z \in Seq(T) /\ OnceOnly(z)
             /\ \A y : On(z, y) <=> On(q, y) /\ y # x
<1> DEFINE z == RemoveFirst(q, x)
           m == Len(q)
<1>1. m \in Nat /\ DOMAIN q = 1 .. m /\ \A i \in 1 .. m : q[i] \in T
  OBVIOUS
<1>2. PICK k \in 1 .. m : q[k] = x
  BY <1>1 DEF On
<1> DEFINE places == {i \in 1 .. m : q[i] = x}
<1>3. places = {k}
  BY <1>1, <1>2 DEF OnceOnly
<1>4. Min(places) = k
  <2>1. \E y \in {k} : \A w \in {k} : y =< w
    BY <1>2
  <2>2. Min({k}) \in {k}
    BY <2>1 DEF Min
  <2> QED BY <2>2, <1>3
<1>5. z = SubSeq(q, 1, k - 1) \o SubSeq(q, k + 1, m)
  <2>1. \E i \in 1 .. Len(q) : q[i] = x
    BY <1>2
  <2>2. places # {}
    BY <1>3
  <2> QED BY <2>1, <2>2, <1>4 DEF RemoveFirst, SelectInSeq, RemoveAt
<1> HIDE DEF z, places
<1>6. /\ z \in Seq(T) /\ DOMAIN z = 1 .. m - 1
      /\ \A i \in 1 .. m - 1 : z[i] = IF i < k THEN q[i] ELSE q[i + 1]
  <2> DEFINE a == SubSeq(q, 1, k - 1)
             c == SubSeq(q, k + 1, m)
  <2>1. a \in Seq(T) /\ Len(a) = k - 1 /\ \A i \in 1 .. k - 1 : a[i] = q[i]
    BY <1>2
  <2>2. c \in Seq(T) /\ Len(c) = m - k /\ \A i \in 1 .. m - k : c[i] = q[k + i]
    BY <1>2
  <2>3. z = a \o c
    BY <1>5
  <2> HIDE DEF a, c, m
  <2>4. a \o c \in Seq(T) /\ Len(a \o c) = Len(a) + Len(c)
    BY <2>1, <2>2
  <2>5. Len(a \o c) = m - 1 /\ Len(a) + Len(c) = m - 1
    BY <2>1, <2>2, <2>4, <1>1, <1>2
  <2>6. ASSUME NEW i \in 1 .. m - 1 PROVE z[i] = IF i < k THEN q[i] ELSE q[i + 1]
    <3>1. CASE i < k
      BY <3>1, <2>1, <2>2, <2>3, <1>1, <1>2
    <3>2. CASE ~(i < k)
      <4>1. i - (k - 1) \in 1 .. m - k /\ k + (i - (k - 1)) = i + 1
        BY <3>2, <1>1, <1>2
      <4>2. z[i] = c[i - (k - 1)]
        BY <3>2, <2>1, <2>2, <2>3, <1>1, <1>2
      <4> QED BY <3>2, <4>1, <4>2, <2>2
    <3> QED BY <3>1, <3>2
  <2>7. DOMAIN (a \o c) = 1 .. Len(a \o c)
    BY <2>4
  <2> QED BY <2>3, <2>4, <2>5, <2>6, <2>7
<1>7. \A i \in 1 .. m : i = k \/ (i < k /\ i \in 1 .. m - 1)
                        \/ (i - 1 \in 1 .. m - 1 /\ ~(i - 1 < k) /\ (i - 1) + 1 = i)
  BY <1>1, <1>2
<1> DEFINE old(i) == IF i < k THEN i ELSE i + 1
<1>8. \A i \in 1 .. m - 1 : old(i) \in 1 .. m /\ old(i) # k /\ z[i] = q[old(i)]
  BY <1>1, <1>2, <1>6
<1>9. \A i, j \in 1 .. m - 1 : old(i) = old(j) => i = j
  BY <1>1, <1>2
<1> HIDE DEF old, m
<1>10. OnceOnly(z)
  BY <1>1, <1>6, <1>8, <1>9 DEF OnceOnly
<1>11. ASSUME NEW y PROVE On(z, y) <=> On(q, y) /\ y # x
  <2>1. ASSUME NEW i \in 1 .. m - 1 PROVE On(q, z[i]) /\ z[i] # x
    BY <1>1, <1>2, <1>8 DEF On, OnceOnly
  <2>2. ASSUME NEW i \in 1 .. m, q[i] # x PROVE On(z, q[i])
    BY <1>1, <1>2, <1>6, <1>7, <2>2 DEF On
  <2> QED BY <2>1, <2>2, <1>1, <1>6 DEF On
<1> QED BY <1>6, <1>10, <1>11 DEF z

LEMMA InRange == \A a \in Int : a % TickLimit \in UInt32
<1>1. TickLimit \in Nat /\ TickLimit > 0
  BY TimeoutsAssumption
<1> QED BY <1>1 DEF UInt32

\* The tick that is served stays the same when one more is counted, and moves
\* on when there is one less to serve.
LEMMA StaysBehind ==
  ASSUME NEW t \in UInt32, NEW s \in Nat, s + 1 \in UInt32
  PROVE  /\ Minus(Plus(t, 1), s + 1) = Minus(t, s)
         /\ Plus(Minus(t, s + 1), 1) = Minus(t, s)
<1>1. /\ TickLimit \in Nat /\ \A m \in UInt32 : m \in Int /\ 0 <= m /\ m < TickLimit
      /\ 1 \in UInt32 /\ s \in UInt32
  BY TimeoutsAssumption DEF UInt32
<1> DEFINE p == Plus(t, 1)
           b == Minus(t, s)
           c == Minus(t, s + 1)
<1>2. /\ p \in UInt32 /\ p \in {t + 1, t + 1 - TickLimit}
      /\ b \in UInt32 /\ b \in {t - s, t - s + TickLimit}
      /\ c \in UInt32 /\ c \in {t - (s + 1), t - (s + 1) + TickLimit}
  BY <1>1, Counted
<1> HIDE DEF p, b, c
<1> DEFINE x == Minus(p, s + 1)
           y == Plus(c, 1)
<1>3. /\ x \in UInt32 /\ x \in {p - (s + 1), p - (s + 1) + TickLimit}
      /\ y \in UInt32 /\ y \in {c + 1, c + 1 - TickLimit}
  BY <1>1, <1>2, Counted
<1> HIDE DEF x, y
<1>4. x = b /\ y = b
  BY <1>1, <1>2, <1>3
<1> QED BY <1>4 DEF x, y, p, b, c

\* Whoever is due s ticks ago is due at the tick s ticks ago.
LEMMA GapBack ==
  ASSUME NEW c \in UInt32, NEW t \in UInt32, NEW s \in UInt32, 2 * s < TickLimit
  PROVE  Gap(c, t) = -s <=> c = Minus(t, s)
<1>1. TickLimit \in Nat /\ \A m \in UInt32 : m \in Int /\ 0 <= m /\ m < TickLimit
  BY TimeoutsAssumption DEF UInt32
<1> DEFINE b == Minus(t, s)
           g == Gap(c, t)
<1>2. /\ b \in UInt32 /\ b \in {t - s, t - s + TickLimit}
      /\ g \in Int /\ -TickLimit <= 2 * g /\ 2 * g < TickLimit
      /\ g \in {c - t, c - t + TickLimit, c - t - TickLimit}
  BY Counted, GapIs
<1> HIDE DEF b, g
<1>3. g = -s <=> c = b
  BY <1>1, <1>2
<1> QED BY <1>3 DEF b, g

-----------------------------------------------------------------------------
(* What the invariant says of an object.                                   *)

LEMMA Types ==
  ASSUME TypeOK
  PROVE  /\ TickLimit \in Nat \ {0} /\ MaxLag \in Nat
         /\ ticks \in UInt32 /\ compare \in UInt32 /\ found \in UInt32
         /\ swiCount \in Nat /\ ticksLeft \in Nat
         /\ clockQ \in Seq(Objects) /\ elem \in Seq(Objects)
         /\ active \in [Objects -> BOOLEAN] /\ currTimeout \in [Objects -> UInt32]
         /\ timeout \in [Objects -> Timeouts \cup {0}] /\ period \in [Objects -> Periods \cup {0}]
         /\ obj \in SUBSET Objects
BY TimeoutsAssumption DEF TypeOK

LEMMA CreatedOn == /\ \A o : Created(o) <=> On(clockQ, o)
                   /\ \A o : Ahead(o) <=> On(elem, o) \/ (pc = "expire" /\ o \in obj)
BY DEF Created, Ahead, On

\* Where there is an object, the lag is far below the range of the tick count.
LEMMA Room ==
  ASSUME IInv, NEW o \in Objects, Created(o)
  PROVE  /\ clockQ # <<>> /\ timeout[o] \in Timeouts
         /\ 1 \in UInt32 /\ \A s \in 0 .. MaxLag : s \in UInt32 /\ s + 1 \in UInt32
         /\ 2 * MaxLag + 2 < TickLimit
<1>1. timeout[o] \in Timeouts
  BY DEF IInv, ObjectsOK
<1>2. clockQ # <<>>
  BY DEF Created
<1>3. 2 * MaxLag + 2 < TickLimit /\ MaxLag \in Nat /\ TickLimit \in Nat
  <2> DEFINE n == timeout[o]
  <2> HIDE DEF n
  <2>1. n \in Timeouts
    BY <1>1 DEF n
  <2>2. n \in Nat \ {0} /\ 2 * (n + MaxLag) < TickLimit
    BY <2>1, TimeoutsAssumption
  <2> QED BY <2>2, TimeoutsAssumption
<1> QED BY <1>1, <1>2, <1>3 DEF UInt32

\* How far ahead an active object is, and how far behind the work function.
LEMMA Numbers ==
  ASSUME TypeOK, NEW o \in Objects
  PROVE  /\ Left(o) \in Int /\ (active[o] => Left(o) = Gap(currTimeout[o], ticks))
         /\ Behind(o) = swiCount + ticksLeft + (IF Ahead(o) THEN 1 ELSE 0)
         /\ Behind(o) \in Nat
<1>1. ticks \in UInt32 /\ currTimeout[o] \in UInt32 /\ swiCount \in Nat /\ ticksLeft \in Nat
  BY Types
<1>2. Gap(currTimeout[o], ticks) \in Int
  BY <1>1, GapIs
<1>3. Left(o) = IF active[o] THEN Gap(currTimeout[o], ticks) ELSE 0
  BY DEF Left, Gap
<1>4. Left(o) \in Int /\ (active[o] => Left(o) = Gap(currTimeout[o], ticks))
  BY <1>2, <1>3
<1>5. Behind(o) = swiCount + ticksLeft + (IF Ahead(o) THEN 1 ELSE 0)
  BY DEF Behind
<1>6. Behind(o) \in Nat
  BY <1>1, <1>5
<1> QED BY <1>4, <1>5, <1>6

\* The same after a step.
LEMMA NextNumbers ==
  ASSUME TypeOK', NEW o \in Objects
  PROVE  /\ active'[o] => Left(o)' = Gap(currTimeout'[o], ticks')
         /\ Behind(o)' = swiCount' + ticksLeft' + (IF Ahead(o)' THEN 1 ELSE 0)
         /\ Behind(o)' \in Nat
<1>1. active'[o] => Left(o)' = Gap(currTimeout'[o], ticks')
  BY DEF Left, Gap
<1>2. Behind(o)' = swiCount' + ticksLeft' + (IF Ahead(o)' THEN 1 ELSE 0)
  BY DEF Behind
<1>3. swiCount' \in Nat /\ ticksLeft' \in Nat
  BY DEF TypeOK
<1>4. \A a, b \in Nat : a + b + 0 \in Nat /\ a + b + 1 \in Nat
  OBVIOUS
<1> QED BY <1>1, <1>2, <1>3, <1>4

\* A step that leaves an object and its distance alone leaves it in time.
LEMMA StaysInTime ==
  ASSUME NEW o \in Objects, InTime(o), ticks' = ticks,
         active'[o] => active[o] /\ currTimeout'[o] = currTimeout[o],
         active'[o] => Behind(o)' = Behind(o)
  PROVE  InTime(o)'
<1> SUFFICES ASSUME active'[o] PROVE InTime(o)'
  BY DEF InTime
<1>1. Left(o)' = Left(o)
  BY DEF Left
<1> QED BY <1>1 DEF InTime

-----------------------------------------------------------------------------
(* The steps.                                                              *)

LEMMA InitIInv == Init => IInv
<1> SUFFICES ASSUME Init PROVE IInv
  OBVIOUS
<1>1. TypeOK
  <2>1. 0 \in UInt32 /\ 0 \in 0 .. MaxLag
    BY TimeoutsAssumption DEF UInt32
  <2>2. clockQ \in Seq(Objects) /\ elem \in Seq(Objects)
    BY DEF Init
  <2> QED BY <2>1, <2>2 DEF Init, TypeOK
<1>2. WorkOK
  BY TimeoutsAssumption DEF Init, WorkOK, Serving
<1>3. ObjectsOK
  BY DEF Init, ObjectsOK, Created
<1>4. \A o \in Objects : InTime(o)
  BY DEF Init, InTime
<1> QED BY <1>1, <1>2, <1>3, <1>4 DEF IInv

\* A tick brings an active object one tick nearer, and counts it.
LEMMA TickNearer ==
  ASSUME IInv, Clock_doTick, NEW o \in Objects, active[o]
  PROVE  /\ swiCount' = swiCount + 1
         /\ Left(o)' = Left(o) - 1 /\ Behind(o)' = Behind(o) + 1
<1>1. TypeOK /\ ObjectsOK /\ InTime(o)
  BY DEF IInv
<1>2. /\ swiCount + ticksLeft < MaxLag /\ ticks' = Plus(ticks, 1)
      /\ clockQ # <<>> => swiCount' = swiCount + 1
      /\ UNCHANGED <<active, currTimeout, ticksLeft, elem, pc, obj>>
  BY DEF Clock_doTick, objectVars, workVars
<1>3. /\ swiCount \in Nat /\ ticksLeft \in Nat /\ ticks \in UInt32 /\ MaxLag \in Nat /\ TickLimit \in Nat
      /\ currTimeout[o] \in UInt32
  BY <1>1, Types
<1>4. 2 * MaxLag + 2 < TickLimit /\ 1 \in UInt32 /\ swiCount' = swiCount + 1
  <2>1. Created(o)
    BY <1>1 DEF ObjectsOK
  <2> QED BY <2>1, <1>2, Room
<1> DEFINE l == Left(o)
           b == Behind(o)
<1>5. /\ l \in Int /\ b \in Nat /\ l = Gap(currTimeout[o], ticks) /\ l + b >= 1
      /\ b <= swiCount + ticksLeft + 1
  BY <1>1, <1>3, Numbers DEF InTime
<1>6. Behind(o)' = b + 1
  <2>1. Ahead(o)' = Ahead(o)
    BY <1>2 DEF Ahead
  <2> QED BY <1>1, <1>2, <1>3, <1>4, <2>1, Numbers DEF Behind
<1>7. Left(o)' = Gap(currTimeout[o], Plus(ticks, 1))
  BY <1>2 DEF Left, Gap
<1> HIDE DEF l, b
<1>8. 2 * (Gap(currTimeout[o], ticks) - 1) >= -TickLimit
  BY <1>2, <1>3, <1>4, <1>5
<1>9. Left(o)' = l - 1
  BY <1>3, <1>4, <1>5, <1>7, <1>8, GapMoves
<1> QED BY <1>4, <1>6, <1>9 DEF l, b

LEMMA TickKeeps ==
  ASSUME IInv, Clock_doTick
  PROVE  IInv'
<1>1. TypeOK /\ WorkOK /\ ObjectsOK /\ \A o \in Objects : InTime(o)
  BY DEF IInv
<1>2. /\ swiCount + ticksLeft < MaxLag /\ ticks' = Plus(ticks, 1)
      /\ IF clockQ # <<>> THEN swiCount' = swiCount + 1 /\ posted' = TRUE
                          ELSE UNCHANGED <<swiCount, posted>>
      /\ UNCHANGED <<clockQ, objectVars, workVars>>
  BY DEF Clock_doTick
<1>3. swiCount \in Nat /\ ticksLeft \in Nat /\ ticks \in UInt32 /\ MaxLag \in Nat /\ TickLimit \in Nat
  BY <1>1, Types
<1>4. swiCount' \in Nat /\ swiCount' + ticksLeft <= MaxLag
  BY <1>2, <1>3
<1>5. TypeOK'
  <2>1. ticks' \in UInt32
    BY <1>2, <1>3, InRange DEF Plus, UInt32
  <2>2. swiCount' \in 0 .. MaxLag
    <3>1. \A a, b, m \in Nat : a + b <= m => a \in 0 .. m
      OBVIOUS
    <3> QED BY <1>3, <1>4, <3>1
  <2>3. posted' \in BOOLEAN
    BY <1>1, <1>2 DEF TypeOK
  <2> QED BY <1>1, <1>2, <2>1, <2>2, <2>3 DEF TypeOK, objectVars, workVars
<1>6. WorkOK'
  <2>1. ASSUME Serving, clockQ # <<>> PROVE compare' = Minus(ticks', swiCount' + ticksLeft')
    <3>1. PICK o \in Objects : Created(o)
      <4>1. clockQ \in Seq(Objects)
        BY <1>1, Types
      <4>2. Head(clockQ) \in Objects /\ On(clockQ, Head(clockQ))
        BY <4>1, <2>1, WithoutHead
      <4> QED BY <4>2, CreatedOn
    <3> DEFINE s == swiCount + ticksLeft
    <3>2. s \in 0 .. MaxLag /\ swiCount' + ticksLeft' = s + 1
      BY <1>2, <1>3, <2>1 DEF workVars
    <3>3. s + 1 \in UInt32 /\ s \in Nat
      BY <3>1, <3>2, Room
    <3>4. compare' = Minus(ticks, s)
      BY <1>1, <1>2, <2>1 DEF WorkOK, workVars
    <3> HIDE DEF s
    <3> QED BY <1>2, <1>3, <3>2, <3>3, <3>4, StaysBehind
  <2>2. UNCHANGED <<Serving, clockQ, elem, ticksLeft, pc, obj, found, currTimeout, active, compare>>
    BY <1>2 DEF Serving, workVars, objectVars
  <2>3. pc = "expire" => \E o \in Objects : obj = {o} /\ Due(o)' /\ found = currTimeout[o]
    BY <1>1, <2>2 DEF WorkOK, Due
  <2> QED BY <1>1, <1>4, <2>1, <2>2, <2>3 DEF WorkOK
<1>7. ObjectsOK'
  BY <1>1, <1>2 DEF ObjectsOK, Created, objectVars
<1>8. ASSUME NEW o \in Objects, active'[o] PROVE InTime(o)'
  <2>1. active[o]
    BY <1>2, <1>8 DEF objectVars
  <2> DEFINE l == Left(o)
             b == Behind(o)
  <2>2. Left(o)' = l - 1 /\ Behind(o)' = b + 1
    BY <2>1, TickNearer
  <2>3. l \in Int /\ b \in Nat /\ l + b >= 1 /\ 2 * (l + MaxLag) < TickLimit
    BY <1>1, <2>1, Numbers DEF InTime
  <2> HIDE DEF l, b
  <2>4. (l - 1) + (b + 1) >= 1 /\ 2 * ((l - 1) + MaxLag) < TickLimit
    BY <1>3, <2>3
  <2> QED BY <2>2, <2>4 DEF InTime
<1>9. \A o \in Objects : InTime(o)'
  BY <1>8 DEF InTime
<1> QED BY <1>5, <1>6, <1>7, <1>9 DEF IInv

\* An object that is started is as many ticks ahead as its timeout.
LEMMA Started ==
  ASSUME IInv, NEW o \in Objects, Created(o)
  PROVE  LET n == timeout[o]
             c == Plus(ticks, n)
         IN  /\ n \in Timeouts /\ n \in Nat /\ n >= 1 /\ 2 * (n + MaxLag) < TickLimit
             /\ c \in UInt32 /\ Gap(c, ticks) = n
<1> DEFINE n == timeout[o]
<1>1. n \in Timeouts
  BY Room
<1>2. ticks \in UInt32
  BY Types DEF IInv
<1> HIDE DEF n
<1>3. n \in Nat \ {0} /\ 2 * (n + MaxLag) < TickLimit
  BY <1>1, TimeoutsAssumption
<1>4. Plus(ticks, n) \in UInt32 /\ Gap(Plus(ticks, n), ticks) = n
  BY <1>1, <1>2, GapAfter
<1> QED BY <1>1, <1>3, <1>4 DEF n

\* Clock_start and Clock_stop of an object that is not being expired.
LEMMA StartStopKeeps ==
  ASSUME IInv, NEW o \in Objects, StartOrStop(o),
         UNCHANGED <<moduleVars, compare, ticksLeft, elem>>,
         \/ UNCHANGED <<pc, obj, found>> /\ (pc = "expire" => o \notin obj)
         \/ pc = "call" /\ pc' = "walk" /\ obj' = {} /\ found' = 0
  PROVE  IInv'
<1>1. TypeOK /\ WorkOK /\ ObjectsOK /\ \A u \in Objects : InTime(u)
  BY DEF IInv
<1>2. /\ Created(o) /\ timeout[o] \in Timeouts /\ UNCHANGED <<timeout, period>>
      /\ \/ active' = [active EXCEPT ![o] = TRUE]
            /\ currTimeout' = [currTimeout EXCEPT ![o] = Plus(ticks, timeout[o])]
         \/ active' = [active EXCEPT ![o] = FALSE] /\ currTimeout' = currTimeout
  BY Room DEF StartOrStop, Clock_start, Clock_stop
<1>3. UNCHANGED <<ticks, swiCount, posted, clockQ, compare, ticksLeft, elem>>
  BY DEF moduleVars
<1>4. ticks \in UInt32 /\ active \in [Objects -> BOOLEAN] /\ currTimeout \in [Objects -> UInt32]
  BY <1>1, Types
<1> DEFINE n == timeout[o]
           c == Plus(ticks, n)
<1>5. c \in UInt32 /\ Gap(c, ticks) = n /\ n \in Nat /\ n >= 1 /\ 2 * (n + MaxLag) < TickLimit
  BY <1>2, Started
<1>6. TypeOK'
  <2>1. active' \in [Objects -> BOOLEAN] /\ currTimeout' \in [Objects -> UInt32]
    BY <1>2, <1>4, <1>5
  <2>2. /\ pc' \in {"idle", "begin", "walk", "expire", "call"}
        /\ obj' \in SUBSET Objects /\ found' \in UInt32
    BY <1>1, TimeoutsAssumption DEF TypeOK, UInt32
  <2> QED BY <1>1, <1>2, <1>3, <2>1, <2>2 DEF TypeOK
<1>7. WorkOK'
  <2>1. Serving' <=> Serving
    BY DEF Serving
  <2>2. ASSUME pc' = "expire"
        PROVE  \E u \in Objects : obj' = {u} /\ Due(u)' /\ found' = currTimeout'[u]
    <3>1. PICK u \in Objects : obj = {u} /\ Due(u) /\ found = currTimeout[u]
      BY <1>1, <2>2 DEF WorkOK
    <3>2. u # o
      BY <2>2, <3>1
    <3>3. active'[u] = active[u] /\ currTimeout'[u] = currTimeout[u]
      BY <1>2, <1>4, <3>2
    <3> QED BY <1>3, <2>2, <3>1, <3>3 DEF Due
  <2> QED BY <1>1, <1>3, <2>1, <2>2 DEF WorkOK
<1>8. ObjectsOK'
  BY <1>1, <1>2, <1>3, <1>4 DEF ObjectsOK, Created
<1>9. \A u \in Objects : Behind(u)' = Behind(u) \/ (u = o /\ pc # "expire")
  <2>1. ASSUME NEW u \in Objects PROVE Ahead(u)' = Ahead(u)
    BY <1>3 DEF Ahead
  <2> QED BY <1>3, <2>1 DEF Behind
<1>10. ASSUME NEW u \in Objects PROVE InTime(u)'
  <2>1. CASE u # o
    <3>1. active'[u] = active[u] /\ currTimeout'[u] = currTimeout[u]
      BY <1>2, <1>4, <2>1
    <3> QED BY <1>1, <1>3, <1>9, <2>1, <3>1, StaysInTime
  <2>2. CASE u = o
    <3> SUFFICES ASSUME active'[o] PROVE InTime(o)'
      BY <2>2 DEF InTime
    <3>1. currTimeout'[o] = c
      BY <1>2, <1>4
    <3>2. Left(o)' = n /\ Behind(o)' \in Nat
      BY <1>3, <1>5, <1>6, <3>1, NextNumbers
    <3> HIDE DEF n, c
    <3> QED BY <1>5, <3>2 DEF InTime
  <2> QED BY <2>1, <2>2
<1> QED BY <1>6, <1>7, <1>8, <1>10 DEF IInv

LEMMA CreateKeeps ==
  ASSUME IInv, NEW o \in Objects, NEW n \in Timeouts, NEW every \in Periods, Create(o, n, every)
  PROVE  IInv'
<1>1. TypeOK /\ WorkOK /\ ObjectsOK /\ \A u \in Objects : InTime(u)
  BY DEF IInv
<1>2. /\ pc = "idle" /\ ~Created(o) /\ clockQ' = Append(clockQ, o)
      /\ timeout' = [timeout EXCEPT ![o] = n] /\ period' = [period EXCEPT ![o] = every]
      /\ active' = [active EXCEPT ![o] = FALSE]
      /\ UNCHANGED <<ticks, swiCount, posted, currTimeout, pc, compare, ticksLeft, elem, obj, found>>
  BY DEF Create, workVars
<1>3. /\ clockQ' \in Seq(Objects) /\ OnceOnly(clockQ')
      /\ \A u : On(clockQ', u) <=> On(clockQ, u) \/ u = o
  <2>1. clockQ \in Seq(Objects) /\ OnceOnly(clockQ) /\ ~On(clockQ, o)
    BY <1>1, <1>2, Types, CreatedOn DEF ObjectsOK, OnceOnly
  <2> QED BY <1>2, <2>1, WithLast
<1>4. /\ active' \in [Objects -> BOOLEAN] /\ timeout' \in [Objects -> Timeouts \cup {0}]
      /\ period' \in [Objects -> Periods \cup {0}]
  BY <1>1, <1>2, Types
<1>5. TypeOK'
  BY <1>1, <1>2, <1>3, <1>4 DEF TypeOK
<1>6. WorkOK'
  BY <1>1, <1>2 DEF WorkOK, Serving
<1>7. ObjectsOK'
  <2>1. \A u : Created(u)' <=> Created(u) \/ u = o
    BY <1>3 DEF Created, On
  <2>2. \A u \in Objects : /\ active'[u] => active[u]
                           /\ timeout'[u] = IF u = o THEN n ELSE timeout[u]
    BY <1>1, <1>2, Types
  <2> QED BY <1>1, <1>3, <2>1, <2>2 DEF ObjectsOK, OnceOnly
<1>8. ASSUME NEW u \in Objects PROVE InTime(u)'
  <2>1. active'[u] => active[u] /\ currTimeout'[u] = currTimeout[u]
    BY <1>1, <1>2, Types
  <2>2. Behind(u)' = Behind(u)
    BY <1>2 DEF Behind, Ahead
  <2> QED BY <1>1, <1>2, <2>1, <2>2, StaysInTime
<1> QED BY <1>5, <1>6, <1>7, <1>8 DEF IInv

LEMMA DeleteKeeps ==
  ASSUME IInv, NEW o \in Objects, Delete(o)
  PROVE  IInv'
<1>1. TypeOK /\ WorkOK /\ ObjectsOK /\ \A u \in Objects : InTime(u)
  BY DEF IInv
<1>2. /\ pc = "idle" /\ Created(o) /\ clockQ' = RemoveFirst(clockQ, o)
      /\ timeout' = [timeout EXCEPT ![o] = 0] /\ period' = [period EXCEPT ![o] = 0]
      /\ active' = [active EXCEPT ![o] = FALSE] /\ currTimeout' = [currTimeout EXCEPT ![o] = 0]
      /\ UNCHANGED <<ticks, swiCount, posted, pc, compare, ticksLeft, elem, obj, found>>
  BY DEF Delete, workVars
<1>3. /\ clockQ' \in Seq(Objects) /\ OnceOnly(clockQ')
      /\ \A u : On(clockQ', u) <=> On(clockQ, u) /\ u # o
  <2>1. clockQ \in Seq(Objects) /\ OnceOnly(clockQ) /\ On(clockQ, o)
    BY <1>1, <1>2, Types, CreatedOn DEF ObjectsOK, OnceOnly
  <2> QED BY <1>2, <2>1, Unlinked
<1>4. /\ active' \in [Objects -> BOOLEAN] /\ timeout' \in [Objects -> Timeouts \cup {0}]
      /\ period' \in [Objects -> Periods \cup {0}] /\ currTimeout' \in [Objects -> UInt32]
  <2>1. 0 \in UInt32
    BY TimeoutsAssumption DEF UInt32
  <2> QED BY <1>1, <1>2, <2>1, Types
<1>5. TypeOK'
  BY <1>1, <1>2, <1>3, <1>4 DEF TypeOK
<1>6. WorkOK'
  BY <1>1, <1>2 DEF WorkOK, Serving
<1>7. \A u \in Objects : /\ active'[u] => active[u] /\ u # o
                         /\ u # o => timeout'[u] = timeout[u] /\ currTimeout'[u] = currTimeout[u]
  BY <1>1, <1>2, Types
<1>8. ObjectsOK'
  <2>1. \A u : Created(u)' <=> Created(u) /\ u # o
    BY <1>3 DEF Created, On
  <2> QED BY <1>1, <1>3, <1>7, <2>1 DEF ObjectsOK, OnceOnly
<1>9. ASSUME NEW u \in Objects PROVE InTime(u)'
  <2>1. Behind(u)' = Behind(u)
    BY <1>2 DEF Behind, Ahead
  <2> QED BY <1>1, <1>2, <1>7, <2>1, StaysInTime
<1> QED BY <1>5, <1>6, <1>8, <1>9 DEF IInv

\* The work function begins and ends, and the steps that change nothing.
LEMMA QuietKeeps ==
  ASSUME IInv, WorkBegin \/ WorkEnd \/ UNCHANGED vars
  PROVE  IInv'
<1>1. TypeOK /\ WorkOK /\ ObjectsOK /\ \A u \in Objects : InTime(u)
  BY DEF IInv
<1>2. /\ UNCHANGED <<ticks, swiCount, clockQ, active, currTimeout, timeout, period, ticksLeft, elem, obj, found>>
      /\ \/ UNCHANGED <<pc, compare>>
         \/ pc = "idle" /\ pc' = "begin" /\ compare' = compare
         \/ pc = "walk" /\ elem = <<>> /\ ticksLeft = 0 /\ pc' = "idle" /\ compare' = 0
  BY DEF WorkBegin, WorkEnd, vars, moduleVars, objectVars, workVars
<1>3. TypeOK'
  <2>1. posted' \in BOOLEAN
    BY <1>1 DEF TypeOK, WorkBegin, WorkEnd, vars, moduleVars
  <2>2. 0 \in UInt32
    BY TimeoutsAssumption DEF UInt32
  <2> QED BY <1>1, <1>2, <2>1, <2>2 DEF TypeOK
<1>4. WorkOK'
  BY <1>1, <1>2 DEF WorkOK, Serving, Due
<1>5. ObjectsOK'
  BY <1>1, <1>2 DEF ObjectsOK, Created
<1>6. ASSUME NEW u \in Objects PROVE InTime(u)'
  <2>1. Behind(u)' = Behind(u)
    BY <1>2 DEF Behind, Ahead
  <2> QED BY <1>1, <1>2, <2>1, StaysInTime
<1> QED BY <1>3, <1>4, <1>5, <1>6 DEF IInv

LEMMA CountKeeps ==
  ASSUME IInv, WorkCount
  PROVE  IInv'
<1>1. TypeOK /\ WorkOK /\ ObjectsOK /\ \A u \in Objects : InTime(u)
  BY DEF IInv
<1>2. /\ pc = "begin" /\ pc' = "walk" /\ compare' = Minus(ticks, swiCount)
      /\ ticksLeft' = swiCount /\ swiCount' = 0
      /\ UNCHANGED <<ticks, posted, clockQ, active, currTimeout, timeout, period, elem, obj, found>>
  BY DEF WorkCount, objectVars
<1>3. ticksLeft = 0 /\ elem = <<>> /\ swiCount \in Nat /\ ticks \in UInt32
  BY <1>1, <1>2, Types DEF WorkOK, Serving
<1>4. TypeOK'
  <2>1. compare' \in UInt32
    BY <1>2, <1>3, InRange DEF Minus, UInt32
  <2>2. 0 \in 0 .. MaxLag
    BY TimeoutsAssumption
  <2> QED BY <1>1, <1>2, <2>1, <2>2 DEF TypeOK
<1>5. swiCount' + ticksLeft' = swiCount /\ swiCount + ticksLeft = swiCount
  BY <1>2, <1>3
<1>6. WorkOK'
  BY <1>1, <1>2, <1>3, <1>5 DEF WorkOK, Serving
<1>7. ObjectsOK'
  BY <1>1, <1>2 DEF ObjectsOK, Created
<1>8. ASSUME NEW u \in Objects PROVE InTime(u)'
  <2>1. Ahead(u)' = Ahead(u)
    BY <1>2 DEF Ahead
  <2>2. Behind(u)' = Behind(u)
    BY <1>5, <2>1 DEF Behind
  <2> QED BY <1>1, <1>2, <2>2, StaysInTime
<1> QED BY <1>4, <1>6, <1>7, <1>8 DEF IInv

LEMMA WalkKeeps ==
  ASSUME IInv, WorkTick
  PROVE  IInv'
<1>1. TypeOK /\ WorkOK /\ ObjectsOK /\ \A u \in Objects : InTime(u)
  BY DEF IInv
<1>2. /\ pc = "walk" /\ elem = <<>> /\ ticksLeft # 0
      /\ compare' = Plus(compare, 1) /\ ticksLeft' = ticksLeft - 1 /\ elem' = clockQ
      /\ UNCHANGED <<ticks, swiCount, posted, clockQ, active, currTimeout, timeout, period, pc, obj, found>>
  BY DEF WorkTick, moduleVars, objectVars
<1>3. /\ swiCount \in Nat /\ ticksLeft \in Nat /\ ticks \in UInt32 /\ compare \in UInt32
      /\ swiCount + ticksLeft <= MaxLag /\ MaxLag \in Nat
  BY <1>1, Types DEF WorkOK
<1>4. TypeOK'
  <2>1. compare' \in UInt32
    BY <1>2, <1>3, InRange DEF Plus, UInt32
  <2>2. ticksLeft' \in 0 .. MaxLag
    <3>1. \A a, b, m \in Nat : a + b <= m /\ b # 0 => b - 1 \in 0 .. m
      OBVIOUS
    <3> QED BY <1>2, <1>3, <3>1
  <2> QED BY <1>1, <1>2, <2>1, <2>2 DEF TypeOK
<1> DEFINE s == swiCount' + ticksLeft'
<1>5. swiCount + ticksLeft = s + 1 /\ s \in Nat /\ s <= MaxLag /\ s \in 0 .. MaxLag
  BY <1>2, <1>3
<1> HIDE DEF s
<1>6. WorkOK'
  <2>1. ASSUME clockQ # <<>> PROVE compare' = Minus(ticks, s)
    <3>1. PICK o \in Objects : Created(o)
      <4>1. clockQ \in Seq(Objects)
        BY <1>1, Types
      <4>2. Head(clockQ) \in Objects /\ On(clockQ, Head(clockQ))
        BY <4>1, <2>1, WithoutHead
      <4> QED BY <4>2, CreatedOn
    <3>2. s + 1 \in UInt32
      BY <3>1, <1>5, Room
    <3>3. compare = Minus(ticks, s + 1)
      BY <1>1, <1>2, <1>5, <2>1 DEF WorkOK, Serving
    <3> QED BY <1>2, <1>3, <1>5, <3>2, <3>3, StaysBehind
  <2>2. s <= MaxLag /\ (clockQ' # <<>> => compare' = Minus(ticks', s))
    BY <1>2, <1>5, <2>1
  <2> QED BY <1>2, <2>2 DEF WorkOK, Serving, s
<1>7. ObjectsOK'
  BY <1>1, <1>2 DEF ObjectsOK, Created
<1>8. ASSUME NEW u \in Objects PROVE InTime(u)'
  <2> SUFFICES ASSUME active'[u] PROVE InTime(u)'
    BY DEF InTime
  <2>1. ~Ahead(u) /\ Ahead(u)'
    BY <1>1, <1>2 DEF Ahead, ObjectsOK, Created
  <2>2. Behind(u) = s + 1 + 0 /\ Behind(u)' = s + 1
    BY <1>5, <2>1 DEF Behind, s
  <2>3. Behind(u)' = Behind(u)
    BY <1>5, <2>2
  <2> QED BY <1>1, <1>2, <2>3, StaysInTime
<1> QED BY <1>4, <1>6, <1>7, <1>8 DEF IInv

LEMMA VisitKeeps ==
  ASSUME IInv, WorkVisit
  PROVE  IInv'
<1> DEFINE h == Head(elem)
           s == swiCount + ticksLeft
<1>1. TypeOK /\ WorkOK /\ ObjectsOK /\ \A u \in Objects : InTime(u)
  BY DEF IInv
<1>2. /\ pc = "walk" /\ elem # <<>> /\ elem' = Tail(elem)
      /\ IF Due(h) THEN pc' = "expire" /\ obj' = {h} /\ found' = currTimeout[h]
                   ELSE UNCHANGED <<pc, obj, found>>
      /\ UNCHANGED <<ticks, swiCount, posted, clockQ, active, currTimeout, timeout, period,
                     compare, ticksLeft>>
  BY DEF WorkVisit, moduleVars, objectVars
<1>3. /\ elem' \in Seq(Objects) /\ h \in Objects
      /\ \A u : On(elem, u) <=> u = h \/ On(elem', u)
  <2>1. elem \in Seq(Objects)
    BY <1>1, Types
  <2> QED BY <1>2, <2>1, WithoutHead
<1>4. /\ swiCount \in Nat /\ ticksLeft \in Nat /\ ticks \in UInt32 /\ MaxLag \in Nat /\ TickLimit \in Nat
      /\ currTimeout \in [Objects -> UInt32] /\ s \in Nat /\ s <= MaxLag /\ s \in 0 .. MaxLag
  BY <1>1, Types DEF WorkOK
<1> HIDE DEF h, s
<1>5. TypeOK'
  <2>1. pc' \in {"idle", "begin", "walk", "expire", "call"} /\ obj' \in SUBSET Objects /\ found' \in UInt32
    BY <1>1, <1>2, <1>3, <1>4, Types
  <2> QED BY <1>1, <1>2, <1>3, <2>1 DEF TypeOK
<1>6. WorkOK'
  <2>1. pc' \in {"walk", "expire"}
    BY <1>2
  <2>2. pc' = "expire" => \E o \in Objects : obj' = {o} /\ Due(o)' /\ found' = currTimeout'[o]
    BY <1>2, <1>3 DEF Due
  <2> QED BY <1>1, <1>2, <2>1, <2>2 DEF WorkOK, Serving
<1>7. ObjectsOK'
  BY <1>1, <1>2 DEF ObjectsOK, Created
<1>8. ASSUME NEW u \in Objects PROVE InTime(u)'
  <2> SUFFICES ASSUME active'[u] PROVE InTime(u)'
    BY DEF InTime
  <2>1. CASE Ahead(u) <=> Ahead(u)'
    <3>1. Behind(u)' = Behind(u)
      BY <1>2, <2>1 DEF Behind
    <3> QED BY <1>1, <1>2, <3>1, StaysInTime
  <2>2. CASE ~(Ahead(u) <=> Ahead(u)')
    <3>1. u = h /\ ~Due(h) /\ Ahead(u) /\ ~Ahead(u)'
      <4>1. /\ Ahead(u) <=> On(elem, u)
            /\ Ahead(u)' <=> On(elem', u) \/ (pc' = "expire" /\ u \in obj')
        BY <1>2 DEF Ahead, On
      <4> QED BY <1>2, <1>3, <2>2, <4>1
    <3> DEFINE c == currTimeout[u]
               l == Left(u)
    <3>2. active[u] /\ Created(u) /\ c # compare /\ c \in UInt32
      BY <1>1, <1>2, <1>4, <3>1 DEF ObjectsOK, Due
    <3>3. /\ l \in Int /\ l = Gap(c, ticks) /\ l + Behind(u) >= 1 /\ 2 * (l + MaxLag) < TickLimit
          /\ Behind(u) = s + 1 /\ Behind(u)' = s + 0
      <4>1. Behind(u) = s + 1 /\ Behind(u)' = s + 0
        BY <1>2, <3>1 DEF Behind, s
      <4> QED BY <1>1, <3>2, <4>1, Numbers DEF InTime
    <3>4. clockQ # <<>> /\ s \in UInt32 /\ 2 * s < TickLimit
      <4>1. clockQ # <<>> /\ s \in UInt32 /\ 2 * MaxLag + 2 < TickLimit
        BY <1>4, <3>2, Room
      <4> QED BY <1>4, <4>1
    <3>5. compare = Minus(ticks, s)
      BY <1>1, <1>2, <3>4 DEF WorkOK, Serving, s
    <3>6. Left(u)' = l
      BY <1>2 DEF Left
    <3> HIDE DEF c, l
    <3>7. l # -s
      BY <1>4, <3>2, <3>3, <3>4, <3>5, GapBack
    <3>8. l + s >= 1
      BY <1>4, <3>3, <3>7
    <3> QED BY <1>4, <3>3, <3>6, <3>8 DEF InTime
  <2> QED BY <2>1, <2>2
<1> QED BY <1>5, <1>6, <1>7, <1>8 DEF IInv

\* The object that is due was due at the tick that is being served.
LEMMA DueNow ==
  ASSUME IInv, WorkExpire
  PROVE  \E o \in Objects :
           /\ obj = {o} /\ active[o] /\ Created(o)
           /\ Left(o) = -(swiCount + ticksLeft)
           /\ \/ period[o] = 0 /\ active' = [active EXCEPT ![o] = FALSE] /\ currTimeout' = currTimeout
              \/ /\ period[o] \in Periods /\ period[o] # 0
                 /\ currTimeout' = [currTimeout EXCEPT ![o] = Plus(currTimeout[o], period[o])]
                 /\ active' = active
<1>1. TypeOK /\ WorkOK /\ ObjectsOK
  BY DEF IInv
<1>2. pc = "expire"
  BY DEF WorkExpire
<1>3. PICK o \in Objects : obj = {o} /\ Due(o) /\ found = currTimeout[o]
  BY <1>1, <1>2 DEF WorkOK
<1>4. active[o] /\ Created(o) /\ currTimeout[o] = compare
  BY <1>1, <1>3 DEF Due, ObjectsOK
<1>5. IF period[o] = 0
      THEN active' = [active EXCEPT ![o] = FALSE] /\ UNCHANGED currTimeout
      ELSE currTimeout' = [currTimeout EXCEPT ![o] = Plus(currTimeout[o], period[o])] /\ UNCHANGED active
  <2>1. PICK q \in obj, base \in {found} \cup {currTimeout[r] : r \in obj} :
          IF period[q] = 0
          THEN active' = [active EXCEPT ![q] = FALSE] /\ UNCHANGED currTimeout
          ELSE currTimeout' = [currTimeout EXCEPT ![q] = Plus(base, period[q])] /\ UNCHANGED active
    BY DEF WorkExpire
  <2>2. q = o /\ base = currTimeout[o]
    BY <1>3
  <2> QED BY <2>1, <2>2
<1> DEFINE s == swiCount + ticksLeft
           c == currTimeout[o]
<1>6. /\ s \in 0 .. MaxLag /\ MaxLag \in Nat /\ TickLimit \in Nat /\ ticks \in UInt32 /\ c \in UInt32
      /\ Left(o) = Gap(c, ticks)
  BY <1>1, <1>4, Types, Numbers DEF WorkOK
<1>7. clockQ # <<>> /\ s \in UInt32 /\ 2 * s < TickLimit
  <2> HIDE DEF s
  <2>1. clockQ # <<>> /\ s \in UInt32 /\ 2 * MaxLag + 2 < TickLimit
    BY <1>4, <1>6, Room
  <2> QED BY <1>6, <2>1
<1>8. c = Minus(ticks, s)
  BY <1>1, <1>2, <1>4, <1>7 DEF WorkOK, Serving
<1> HIDE DEF s, c
<1>9. Left(o) = -s
  BY <1>6, <1>7, <1>8, GapBack
<1>10. period[o] # 0 => period[o] \in Periods
  BY <1>1, Types
<1> QED BY <1>3, <1>4, <1>5, <1>9, <1>10 DEF s

LEMMA ExpireKeeps ==
  ASSUME IInv, WorkExpire
  PROVE  IInv'
<1>1. TypeOK /\ WorkOK /\ ObjectsOK /\ \A u \in Objects : InTime(u)
  BY DEF IInv
<1>2. /\ pc = "expire" /\ pc' = "call"
      /\ UNCHANGED <<ticks, swiCount, posted, clockQ, timeout, period, compare, ticksLeft, elem, obj, found>>
  BY DEF WorkExpire, moduleVars
<1>3. PICK o \in Objects :
        /\ obj = {o} /\ active[o] /\ Created(o)
        /\ Left(o) = -(swiCount + ticksLeft)
        /\ \/ period[o] = 0 /\ active' = [active EXCEPT ![o] = FALSE] /\ currTimeout' = currTimeout
           \/ /\ period[o] \in Periods /\ period[o] # 0
              /\ currTimeout' = [currTimeout EXCEPT ![o] = Plus(currTimeout[o], period[o])]
              /\ active' = active
  BY DueNow
<1> DEFINE s == swiCount + ticksLeft
           n == period[o]
           c == currTimeout[o]
<1>4. /\ s \in Nat /\ s <= MaxLag /\ s \in 0 .. MaxLag /\ MaxLag \in Nat /\ TickLimit \in Nat
      /\ ticks \in UInt32 /\ c \in UInt32 /\ currTimeout \in [Objects -> UInt32]
      /\ active \in [Objects -> BOOLEAN] /\ Left(o) = Gap(c, ticks) /\ Gap(c, ticks) = -s
  BY <1>1, <1>3, Types, Numbers DEF WorkOK
<1>5. 2 * s < TickLimit
  <2> HIDE DEF s
  <2>1. 2 * MaxLag + 2 < TickLimit
    BY <1>3, Room
  <2> QED BY <1>4, <2>1
<1>6. n \in Periods /\ n # 0 =>
        n \in UInt32 /\ n \in Nat /\ n >= 1 /\ 2 * (n + MaxLag) < TickLimit /\ Plus(c, n) \in UInt32
  <2> SUFFICES ASSUME n \in Periods, n # 0
               PROVE  n \in UInt32 /\ n \in Nat /\ n >= 1 /\ 2 * (n + MaxLag) < TickLimit /\ Plus(c, n) \in UInt32
    OBVIOUS
  <2> HIDE DEF n
  <2>1. n \in Nat /\ 2 * (n + MaxLag) < TickLimit
    BY TimeoutsAssumption
  <2> QED BY <1>4, <2>1, GapAfter
<1>7. active' \in [Objects -> BOOLEAN] /\ currTimeout' \in [Objects -> UInt32]
  BY <1>3, <1>4, <1>6
<1>8. TypeOK'
  BY <1>1, <1>2, <1>7 DEF TypeOK
<1>9. WorkOK'
  BY <1>1, <1>2 DEF WorkOK, Serving
<1>10. ObjectsOK'
  BY <1>1, <1>2, <1>3, <1>4 DEF ObjectsOK, Created
<1>11. ASSUME NEW u \in Objects PROVE InTime(u)'
  <2>1. CASE u # o
    <3>1. active'[u] = active[u] /\ currTimeout'[u] = currTimeout[u]
      BY <1>3, <1>4, <2>1
    <3>2. Behind(u)' = Behind(u)
      BY <1>2, <1>3, <2>1 DEF Behind, Ahead
    <3> QED BY <1>1, <1>2, <3>1, <3>2, StaysInTime
  <2>2. CASE u = o
    <3> SUFFICES ASSUME active'[o] PROVE InTime(o)'
      BY <2>2 DEF InTime
    <3>1. n \in Periods /\ n # 0 /\ currTimeout'[o] = Plus(c, n)
      BY <1>3, <1>4
    <3>2. Left(o)' = Gap(Plus(c, n), ticks)
      BY <1>2, <1>8, <3>1, NextNumbers
    <3>3. Behind(o)' = s + 0 \/ Behind(o)' = s + 1
      BY <1>2 DEF Behind
    <3> HIDE DEF n, c, s
    <3>4. 2 * (Gap(c, ticks) + n) < TickLimit
      BY <1>4, <1>6, <3>1
    <3>5. Left(o)' = -s + n
      BY <1>4, <1>6, <3>1, <3>2, <3>4, GapMoves
    <3>6. (-s + n) + s >= 1 /\ (-s + n) + (s + 1) >= 1 /\ 2 * ((-s + n) + MaxLag) < TickLimit /\ s + 0 = s
      BY <1>4, <1>6, <3>1
    <3> QED BY <3>3, <3>5, <3>6 DEF InTime
  <2> QED BY <2>1, <2>2
<1> QED BY <1>8, <1>9, <1>10, <1>11 DEF IInv

\* A Clock function that leaves the objects alone.
LEMMA CallKeeps ==
  ASSUME IInv, WorkCall, UNCHANGED objectVars
  PROVE  IInv'
<1>1. TypeOK /\ WorkOK /\ ObjectsOK /\ \A u \in Objects : InTime(u)
  BY DEF IInv
<1>2. /\ pc = "call" /\ pc' = "walk" /\ obj' = {} /\ found' = 0
      /\ UNCHANGED <<ticks, swiCount, posted, clockQ, active, currTimeout, timeout, period,
                     compare, ticksLeft, elem>>
  BY DEF WorkCall, moduleVars, objectVars
<1>3. TypeOK'
  <2>1. 0 \in UInt32
    BY TimeoutsAssumption DEF UInt32
  <2> QED BY <1>1, <1>2, <2>1 DEF TypeOK
<1>4. WorkOK'
  BY <1>1, <1>2 DEF WorkOK, Serving
<1>5. ObjectsOK'
  BY <1>1, <1>2 DEF ObjectsOK, Created
<1>6. ASSUME NEW u \in Objects PROVE InTime(u)'
  <2>1. Behind(u)' = Behind(u)
    BY <1>2 DEF Behind, Ahead
  <2> QED BY <1>1, <1>2, <2>1, StaysInTime
<1> QED BY <1>3, <1>4, <1>5, <1>6 DEF IInv

LEMMA NextIInv ==
  ASSUME IInv, [Next]_vars, ~Racing
  PROVE  IInv'
<1>1. CASE Clock_doTick
  BY <1>1, TickKeeps
<1>2. CASE WorkCall
  <2>1. CASE UNCHANGED objectVars
    BY <1>2, <2>1, CallKeeps
  <2>2. ASSUME NEW o \in Objects, StartOrStop(o) PROVE IInv'
    <3>1. /\ UNCHANGED <<moduleVars, compare, ticksLeft, elem>>
          /\ pc = "call" /\ pc' = "walk" /\ obj' = {} /\ found' = 0
      BY <1>2 DEF WorkCall
    <3> QED BY <2>2, <3>1, StartStopKeeps
  <2> QED BY <1>2, <2>1, <2>2 DEF WorkCall
<1>3. CASE Clock_workFunc
  BY <1>2, <1>3, QuietKeeps, CountKeeps, WalkKeeps, VisitKeeps, ExpireKeeps DEF Clock_workFunc
<1>4. ASSUME NEW o \in Objects, TaskStartStop(o) \/ HwiStartStop(o) PROVE IInv'
  <2>1. /\ StartOrStop(o) /\ UNCHANGED <<moduleVars, compare, ticksLeft, elem, pc, obj, found>>
        /\ pc = "expire" => o \notin obj
    BY <1>4 DEF TaskStartStop, HwiStartStop, Untouched, workVars
  <2> QED BY <2>1, StartStopKeeps
<1>5. ASSUME NEW o \in Objects, NEW n \in Timeouts, NEW every \in Periods, Create(o, n, every) PROVE IInv'
  BY <1>5, CreateKeeps
<1>6. ASSUME NEW o \in Objects, Delete(o) PROVE IInv'
  BY <1>6, DeleteKeeps
<1>7. CASE UNCHANGED vars
  BY <1>7, QuietKeeps
<1> QED BY <1>1, <1>3, <1>4, <1>5, <1>6, <1>7 DEF Next

-----------------------------------------------------------------------------
(* The theorems.                                                           *)

\* IInv holds in every reachable state, for any objects, timeouts, periods, lag
\* and width of the tick count.
THEOREM Invariance == ~Racing => (Spec => []IInv)
<1> SUFFICES ASSUME ~Racing PROVE Spec => []IInv
  OBVIOUS
<1>1. IInv /\ [Next]_vars => IInv'
  BY NextIInv
<1> QED BY <1>1, InitIInv, PTL DEF Spec

\* No object is passed over: whenever Clock_workFunc, however far behind, has an
\* active object whose time has come, the tick of that time is one it has yet to
\* walk the queue for; through all wraps of the tick count.
THEOREM NothingIsMissed == ~Racing => (Spec => []NothingMissed)
<1>1. IInv => NothingMissed
  BY DEF IInv, InTime, NothingMissed
<1> QED BY <1>1, Invariance, PTL

-----------------------------------------------------------------------------
(* The refinement of ClockSpec.                                            *)

Lefts == [o \in Objects |-> Left(o)]

LEMMA PromisedVars ==
  /\ UNCHANGED <<active, Lefts, period>> => UNCHANGED Promise!specVars
  /\ \A o \in Objects : Promise!Fire(o) \/ Promise!Stop(o) \/ Promise!Delete(o) => Promise!Next
  /\ \A o \in Objects, n \in Timeouts : Promise!Start(o, n) => Promise!Next
  /\ \A o \in Objects, n \in Periods : Promise!Create(o, n) => Promise!Next
  /\ Promise!Tick => Promise!Next
<1>1. UNCHANGED <<active, Lefts, period>> => UNCHANGED Promise!specVars
  BY DEF Promise!specVars, Lefts
<1> QED BY <1>1, Zenon DEF Promise!Next

\* Every object but o stays as far ahead as it was.
LEMMA LeftsBut ==
  ASSUME NEW o \in Objects, ticks' = ticks,
         \A u \in Objects : u # o => active'[u] = active[u] /\ currTimeout'[u] = currTimeout[u]
  PROVE  Lefts' = [Lefts EXCEPT ![o] = Left(o)']
<1>1. \A u \in Objects : u # o => Left(u)' = Left(u)
  BY DEF Left
<1> QED BY <1>1 DEF Lefts

LEMMA QuietImplements ==
  ASSUME UNCHANGED <<ticks, active, currTimeout, period>>
  PROVE  UNCHANGED Promise!specVars
<1>1. \A u \in Objects : Left(u)' = Left(u)
  BY DEF Left
<1>2. Lefts' = Lefts
  BY <1>1 DEF Lefts
<1> QED BY <1>2, PromisedVars

LEMMA TickImplements ==
  ASSUME IInv, Clock_doTick
  PROVE  Promise!Next
<1>1. UNCHANGED <<active, currTimeout, period>>
  BY DEF Clock_doTick, objectVars
<1>2. ASSUME NEW o \in Objects PROVE Left(o)' = IF active[o] THEN Left(o) - 1 ELSE 0
  <2>1. CASE active[o]
    BY <2>1, TickNearer
  <2>2. CASE ~active[o]
    BY <1>1, <2>2 DEF Left
  <2> QED BY <2>1, <2>2
<1>3. Lefts' = [o \in Objects |-> IF active[o] THEN Lefts[o] - 1 ELSE 0]
  BY <1>2 DEF Lefts
<1>4. Promise!Tick
  BY <1>1, <1>3 DEF Promise!Tick, Lefts
<1> QED BY <1>4, PromisedVars

LEMMA StartStopImplements ==
  ASSUME IInv, NEW o \in Objects, StartOrStop(o), ticks' = ticks
  PROVE  Promise!Next
<1>1. active \in [Objects -> BOOLEAN] /\ currTimeout \in [Objects -> UInt32]
  BY Types DEF IInv
<1>2. Created(o) /\ period' = period
  BY DEF StartOrStop
<1> DEFINE n == timeout[o]
<1>3. n \in Timeouts /\ Gap(Plus(ticks, n), ticks) = n
  BY <1>2, Started
<1>4. CASE Clock_start(o)
  <2>1. active' = [active EXCEPT ![o] = TRUE] /\ currTimeout' = [currTimeout EXCEPT ![o] = Plus(ticks, n)]
    BY <1>4 DEF Clock_start
  <2>2. active'[o] /\ currTimeout'[o] = Plus(ticks, n)
    BY <1>1, <2>1
  <2>3. Left(o)' = Gap(Plus(ticks, n), ticks)
    BY <2>2 DEF Left, Gap
  <2>4. Lefts' = [Lefts EXCEPT ![o] = n]
    <3>1. \A u \in Objects : u # o => active'[u] = active[u] /\ currTimeout'[u] = currTimeout[u]
      BY <1>1, <2>1
    <3> QED BY <1>3, <2>3, <3>1, LeftsBut
  <2>5. Promise!Start(o, n)
    BY <1>2, <2>1, <2>4 DEF Promise!Start, Lefts
  <2> QED BY <1>3, <2>5, PromisedVars
<1>5. CASE Clock_stop(o)
  <2>1. active' = [active EXCEPT ![o] = FALSE] /\ currTimeout' = currTimeout
    BY <1>5 DEF Clock_stop
  <2>2. Left(o)' = 0
    BY <1>1, <2>1 DEF Left
  <2>3. Lefts' = [Lefts EXCEPT ![o] = 0]
    <3>1. \A u \in Objects : u # o => active'[u] = active[u] /\ currTimeout'[u] = currTimeout[u]
      BY <1>1, <2>1
    <3> QED BY <2>2, <3>1, LeftsBut
  <2>4. Promise!Stop(o)
    BY <1>2, <2>1, <2>3 DEF Promise!Stop, Lefts
  <2> QED BY <2>4, PromisedVars
<1> QED BY <1>4, <1>5 DEF StartOrStop

LEMMA CreateImplements ==
  ASSUME IInv, NEW o \in Objects, NEW n \in Timeouts, NEW every \in Periods, Create(o, n, every)
  PROVE  Promise!Next
<1>1. active \in [Objects -> BOOLEAN] /\ ~active[o]
  BY Types DEF IInv, ObjectsOK, Create
<1>2. /\ active' = active /\ ticks' = ticks /\ currTimeout' = currTimeout
      /\ period' = [period EXCEPT ![o] = every]
  BY <1>1 DEF Create
<1>3. \A u \in Objects : Left(u)' = Left(u)
  BY <1>2 DEF Left
<1>4. Lefts' = Lefts
  BY <1>3 DEF Lefts
<1>5. Promise!Create(o, every)
  BY <1>1, <1>2, <1>4 DEF Promise!Create, Lefts
<1> QED BY <1>5, PromisedVars

LEMMA DeleteImplements ==
  ASSUME IInv, NEW o \in Objects, Delete(o)
  PROVE  Promise!Next
<1>1. active \in [Objects -> BOOLEAN] /\ currTimeout \in [Objects -> UInt32]
  BY Types DEF IInv
<1>2. /\ active' = [active EXCEPT ![o] = FALSE] /\ currTimeout' = [currTimeout EXCEPT ![o] = 0]
      /\ period' = [period EXCEPT ![o] = 0] /\ ticks' = ticks
  BY DEF Delete
<1>3. Left(o)' = 0
  BY <1>1, <1>2 DEF Left
<1>4. Lefts' = [Lefts EXCEPT ![o] = 0]
  <2>1. \A u \in Objects : u # o => active'[u] = active[u] /\ currTimeout'[u] = currTimeout[u]
    BY <1>1, <1>2
  <2> QED BY <1>2, <1>3, <2>1, LeftsBut
<1>5. Promise!Delete(o)
  BY <1>2, <1>4 DEF Promise!Delete, Lefts
<1> QED BY <1>5, PromisedVars

\* An object fires when it is due, not before.
LEMMA ExpireImplements ==
  ASSUME IInv, WorkExpire
  PROVE  Promise!Next
<1>1. PICK o \in Objects :
        /\ obj = {o} /\ active[o] /\ Created(o)
        /\ Left(o) = -(swiCount + ticksLeft)
        /\ \/ period[o] = 0 /\ active' = [active EXCEPT ![o] = FALSE] /\ currTimeout' = currTimeout
           \/ /\ period[o] \in Periods /\ period[o] # 0
              /\ currTimeout' = [currTimeout EXCEPT ![o] = Plus(currTimeout[o], period[o])]
              /\ active' = active
  BY DueNow
<1>2. /\ ticks' = ticks /\ period' = period
      /\ active \in [Objects -> BOOLEAN] /\ currTimeout \in [Objects -> UInt32] /\ ticks \in UInt32
      /\ swiCount \in Nat /\ ticksLeft \in Nat /\ Left(o) = Gap(currTimeout[o], ticks)
  BY <1>1, Types, Numbers DEF IInv, WorkExpire, moduleVars
<1>3. Left(o) \in Int /\ Left(o) <= 0
  BY <1>1, <1>2
<1>4. \A u \in Objects : u # o => active'[u] = active[u] /\ currTimeout'[u] = currTimeout[u]
  BY <1>1, <1>2
<1>5. active' = [active EXCEPT ![o] = period[o] # 0]
  BY <1>1, <1>2
<1>6. Left(o)' = IF period[o] = 0 THEN 0 ELSE Left(o) + period[o]
  <2>1. CASE period[o] = 0
    <3>1. ~active'[o]
      BY <1>1, <1>2, <2>1
    <3> QED BY <2>1, <3>1 DEF Left
  <2>2. CASE period[o] # 0
    <3> DEFINE n == period[o]
               c == currTimeout[o]
               l == Left(o)
    <3>1. n \in Periods /\ active'[o] /\ currTimeout'[o] = Plus(c, n) /\ c \in UInt32 /\ l = Gap(c, ticks)
      BY <1>1, <1>2, <2>2
    <3>2. Left(o)' = Gap(Plus(c, n), ticks)
      BY <1>2, <3>1 DEF Left, Gap
    <3>3. l \in Int /\ l <= 0
      BY <1>3
    <3> HIDE DEF n, c, l
    <3>4. n \in UInt32 /\ n \in Nat /\ 2 * (n + MaxLag) < TickLimit /\ MaxLag \in Nat /\ TickLimit \in Nat
      BY <1>2, <3>1, GapAfter, TimeoutsAssumption
    <3>5. 2 * (Gap(c, ticks) + n) < TickLimit
      BY <3>1, <3>3, <3>4
    <3>6. Left(o)' = l + n
      BY <1>2, <3>1, <3>2, <3>4, <3>5, GapMoves
    <3> QED BY <2>2, <3>6 DEF n, l
  <2> QED BY <2>1, <2>2
<1>7. Lefts' = [Lefts EXCEPT ![o] = IF period[o] = 0 THEN 0 ELSE @ + period[o]]
  BY <1>2, <1>4, <1>6, LeftsBut DEF Lefts
<1>8. Promise!Fire(o)
  BY <1>1, <1>2, <1>3, <1>5, <1>7 DEF Promise!Fire, Lefts
<1> QED BY <1>8, PromisedVars

LEMMA NextImplements ==
  ASSUME IInv, [Next]_vars
  PROVE  [Promise!Next]_Promise!specVars
<1>1. CASE Clock_doTick
  BY <1>1, TickImplements
<1>2. CASE WorkExpire
  BY <1>2, ExpireImplements
<1>3. CASE UNCHANGED vars \/ WorkBegin \/ WorkCount \/ WorkTick \/ WorkVisit \/ WorkEnd
  <2>1. UNCHANGED <<ticks, active, currTimeout, period>>
    BY <1>3 DEF vars, moduleVars, objectVars, WorkBegin, WorkCount, WorkTick, WorkVisit, WorkEnd
  <2> QED BY <2>1, QuietImplements
<1>4. CASE WorkCall
  <2>1. ticks' = ticks
    BY <1>4 DEF WorkCall, moduleVars
  <2>2. CASE UNCHANGED objectVars
    BY <2>1, <2>2, QuietImplements DEF objectVars
  <2>3. CASE \E o \in Objects : StartOrStop(o)
    BY <2>1, <2>3, StartStopImplements
  <2> QED BY <1>4, <2>2, <2>3 DEF WorkCall
<1>5. ASSUME NEW o \in Objects, TaskStartStop(o) \/ HwiStartStop(o) PROVE Promise!Next
  BY <1>5, StartStopImplements DEF TaskStartStop, HwiStartStop, moduleVars
<1>6. ASSUME NEW o \in Objects, NEW n \in Timeouts, NEW every \in Periods, Create(o, n, every) PROVE Promise!Next
  BY <1>6, CreateImplements
<1>7. ASSUME NEW o \in Objects, Delete(o) PROVE Promise!Next
  BY <1>7, DeleteImplements
<1> QED BY <1>1, <1>2, <1>3, <1>4, <1>5, <1>6, <1>7, Zenon DEF Next, Clock_workFunc

\* Clock.c keeps the promise of ClockSpec: a started object fires after its
\* timeout and then once per period, never early, whatever else is started,
\* stopped, created or deleted, and however often the tick count wraps.
THEOREM Implements == ~Racing => (Spec => KeepsPromise)
<1> SUFFICES ASSUME ~Racing PROVE Spec => KeepsPromise
  OBVIOUS
<1>1. Init => Promise!Init
  BY DEF Init, Promise!Init, Left
<1>2. IInv /\ [Next]_vars => [Promise!Next]_Promise!specVars
  BY NextImplements
<1> QED BY <1>1, <1>2, Invariance, PTL DEF Spec, KeepsPromise, Promise!Spec

-----------------------------------------------------------------------------
(* The mutexes of POSIX.                                                   *)

\* t has the token of m and has yet to say so.
Coming(t, m) ==
  /\ call[t].at \in {"pend", "taken"} /\ call[t].on = m
  /\ call[t].at = "taken" \/ tOutcome[t] = "granted"

WaitsFor(t, m) == call[t].at \in {"pend", "taken", "timedOut"} /\ call[t].on = m

PendsOK ==
  /\ \A t \in Pthreads : /\ tOutcome[t] \in {"idle", "timed", "forever", "granted", "timedout"}
                         /\ tOutcome[t] # "idle" => call[t].at = "pend"
  /\ \A m \in Mutexes :
       /\ IsInjective(tWaiting[m]) /\ (tWaiting[m] # <<>> => tAvail[m] = 0)
       /\ \A t \in Pthreads : Contains(tWaiting[m], t) <=> tOutcome[t] \in {"timed", "forever"} /\ call[t].on = m

\* The token of a mutex is in the semaphore, or with the owner, or on its way.
TokenOK(m) ==
  /\ owner[m] = {} <=> lockCnt[m] = 0
  /\ \/ tAvail[m] = 1 /\ owner[m] = {} /\ \A t \in Pthreads : ~Coming(t, m)
     \/ tAvail[m] = 0 /\ (\E t \in Pthreads : owner[m] = {t}) /\ \A t \in Pthreads : ~Coming(t, m)
     \/ tAvail[m] = 0 /\ owner[m] = {} /\ \E t \in Pthreads : \A u \in Pthreads : Coming(u, m) <=> u = t

MutexTokens == \A m \in Mutexes : TokenOK(m)

MutexLists ==
  \A m \in Mutexes :
    /\ IsInjective(waitList[m])
    /\ Protocol[m] = "INHERIT" => \A t \in Pthreads : Contains(waitList[m], t) <=> WaitsFor(t, m)
    /\ Protocol[m] # "INHERIT" => waitList[m] = <<>>

\* Who sets a ceiling has the mutex, and only mutexes with inheritance are walked.
Setting == {"ceiling", "getPri", "setPri", "unlock"}

CallOK(c) ==
  /\ c.at \in {"pend", "taken"} /\ c.ceiling # 0 => Protocol[c.on] = "PROTECT"
  /\ c.at = "setPri" => c.ceiling # 0
  /\ c.at = "reset" => Protocol[c.on] = "INHERIT"

CeilingsOK ==
  \A t \in Pthreads :
    /\ call[t].at \in Setting => owner[call[t].on] = {t} /\ Protocol[call[t].on] = "PROTECT"
    /\ CallOK(call[t])

MutexTyped ==
  /\ tAvail \in [Mutexes -> 0 .. 1] /\ tWaiting \in [Mutexes -> Seq(Pthreads)] /\ tOutcome \in [Pthreads -> Mu!Sem!Outcomes]
  /\ owner \in [Mutexes -> SUBSET Pthreads] /\ lockCnt \in [Mutexes -> Nat]
  /\ prioceiling \in [Mutexes -> Mu!Level \cup {0}] /\ waitList \in [Mutexes -> Seq(Pthreads)]
  /\ priority \in [Pthreads -> Mu!Level] /\ runPri \in [Pthreads -> Mu!Level]
  /\ call \in [Pthreads -> Mu!Calls \cup {Mu!User}] /\ app \in MutexApps

MutexIInv ==
  MutexTyped /\ PendsOK /\ MutexTokens /\ MutexLists /\ CeilingsOK /\ Mu!OwnPriority


-----------------------------------------------------------------------------
(* Threads, tokens and lists that a step leaves alone.                     *)

LEMMA MutexTypes ==
  ASSUME MutexTyped
  PROVE  /\ \A m \in Mutexes : (tAvail[m] = 0 \/ tAvail[m] = 1) /\ tWaiting[m] \in Seq(Pthreads) /\ waitList[m] \in Seq(Pthreads)
                               /\ owner[m] \in SUBSET Pthreads /\ lockCnt[m] \in Nat
         /\ \A t \in Pthreads : call[t].at \in Mu!PCs \cup {"user"} /\ (call[t].at = "user" => call[t] = Mu!User)
                                /\ (call[t].at # "user" => call[t] \in Mu!Calls /\ call[t].on \in Mutexes)
<1>1. \A m \in Mutexes : (tAvail[m] = 0 \/ tAvail[m] = 1) /\ tWaiting[m] \in Seq(Pthreads) /\ waitList[m] \in Seq(Pthreads)
                         /\ owner[m] \in SUBSET Pthreads /\ lockCnt[m] \in Nat
  BY DEF MutexTyped
<1>2. ASSUME NEW t \in Pthreads
      PROVE  /\ call[t].at \in Mu!PCs \cup {"user"} /\ (call[t].at = "user" => call[t] = Mu!User)
             /\ (call[t].at # "user" => call[t] \in Mu!Calls /\ call[t].on \in Mutexes)
  <2>1. call[t] = Mu!User \/ call[t] \in Mu!Calls
    BY DEF MutexTyped
  <2>2. CASE call[t] = Mu!User
    BY <2>2 DEF Mu!User
  <2>3. CASE call[t] \in Mu!Calls
    BY <2>3 DEF Mu!PCs, Mu!Calls
  <2> QED BY <2>1, <2>2, <2>3
<1> QED BY <1>1, <1>2

\* A thread goes on in its call.
LEMMA GoesOn ==
  ASSUME MutexTyped, NEW t \in Pthreads, call[t].at # "user", NEW l \in Mu!PCs, Mu!Goto(t, l)
  PROVE  /\ call' \in [Pthreads -> Mu!Calls \cup {Mu!User}] /\ \A u \in Pthreads : u # t => call'[u] = call[u]
         /\ call'[t] \in Mu!Calls /\ call'[t].at = l /\ call'[t].on = call[t].on /\ call'[t].ceiling = call[t].ceiling
<1>1. call[t] \in Mu!Calls
  BY MutexTypes
<1> DEFINE c == [call[t] EXCEPT !.at = l]
<1>2. c \in Mu!Calls /\ c.at = l /\ c.on = call[t].on /\ c.ceiling = call[t].ceiling
  BY <1>1 DEF Mu!Calls
<1>3. call' = [call EXCEPT ![t] = c]
  BY DEF Mu!Goto
<1> HIDE DEF c
<1> QED BY <1>2, <1>3 DEF MutexTyped

\* A thread returns to its own code, or goes on to set the ceiling.
LEMMA MutexReturns ==
  ASSUME MutexTyped, NEW t \in Pthreads, Mu!Return(t)
  PROVE  /\ call' \in [Pthreads -> Mu!Calls \cup {Mu!User}] /\ \A u \in Pthreads : u # t => call'[u] = call[u]
         /\ call'[t] = Mu!User /\ call'[t].at = "user"
<1>1. Mu!User.at = "user"
  BY DEF Mu!User
<1> QED BY <1>1 DEF MutexTyped, Mu!Return

LEMMA Acquires ==
  ASSUME MutexTyped, NEW t \in Pthreads, NEW c \in Mu!Calls, Mu!Acquired(t, c)
  PROVE  /\ call' \in [Pthreads -> Mu!Calls \cup {Mu!User}] /\ \A u \in Pthreads : u # t => call'[u] = call[u]
         /\ call'[t].at \in {"user", "ceiling"}
         /\ call'[t].at = "ceiling" => c.ceiling # 0 /\ call'[t].on = c.on
<1> DEFINE d == [c EXCEPT !.at = "ceiling"]
<1>1. Mu!User.at = "user"
  BY DEF Mu!User
<1>2. d \in Mu!Calls /\ d.at = "ceiling" /\ d.on = c.on
  BY DEF Mu!Calls, Mu!PCs
<1>3. call' = [call EXCEPT ![t] = IF c.ceiling = 0 THEN Mu!User ELSE d]
  BY DEF Mu!Acquired
<1> HIDE DEF d
<1>4. call' \in [Pthreads -> Mu!Calls \cup {Mu!User}] /\ (\A u \in Pthreads : u # t => call'[u] = call[u])
      /\ call'[t] = IF c.ceiling = 0 THEN Mu!User ELSE d
  BY <1>2, <1>3 DEF MutexTyped
<1>5. CASE c.ceiling = 0
  BY <1>1, <1>4, <1>5
<1>6. CASE c.ceiling # 0
  BY <1>2, <1>4, <1>6
<1> QED BY <1>5, <1>6

LEMMA PendsStay ==
  ASSUME PendsOK, UNCHANGED <<tAvail, tWaiting, tOutcome>>,
         \A u \in Pthreads : tOutcome[u] # "idle" => call'[u] = call[u]
  PROVE  PendsOK'
<1>1. ASSUME NEW u \in Pthreads
      PROVE  /\ tOutcome[u] \in {"idle", "timed", "forever", "granted", "timedout"}
             /\ tOutcome[u] # "idle" => call'[u].at = "pend"
  BY DEF PendsOK
<1>2. ASSUME NEW m \in Mutexes
      PROVE  /\ IsInjective(tWaiting[m]) /\ (tWaiting[m] # <<>> => tAvail[m] = 0)
             /\ \A u \in Pthreads : Contains(tWaiting[m], u) <=> tOutcome[u] \in {"timed", "forever"} /\ call'[u].on = m
  BY DEF PendsOK
<1>3. tAvail' = tAvail /\ tWaiting' = tWaiting /\ tOutcome' = tOutcome
  OBVIOUS
<1> QED BY <1>1, <1>2, <1>3 DEF PendsOK

LEMMA TokenStays ==
  ASSUME NEW m \in Mutexes, TokenOK(m), tAvail'[m] = tAvail[m], owner'[m] = owner[m],
         lockCnt'[m] = 0 <=> lockCnt[m] = 0,
         \A u \in Pthreads : Coming(u, m)' <=> Coming(u, m)
  PROVE  TokenOK(m)'
BY DEF TokenOK

LEMMA MutexListsStay ==
  ASSUME MutexLists, UNCHANGED waitList,
         \A m \in Mutexes, u \in Pthreads : Protocol[m] = "INHERIT" => (WaitsFor(u, m)' <=> WaitsFor(u, m))
  PROVE  MutexLists'
<1>1. waitList' = waitList
  OBVIOUS
<1>2. ASSUME NEW m \in Mutexes
      PROVE  /\ IsInjective(waitList'[m])
             /\ Protocol[m] = "INHERIT" => \A u \in Pthreads : Contains(waitList'[m], u) <=> WaitsFor(u, m)'
             /\ Protocol[m] # "INHERIT" => waitList'[m] = <<>>
  BY <1>1 DEF MutexLists
<1> QED BY <1>2 DEF MutexLists

LEMMA PriorityStays ==
  ASSUME Mu!OwnPriority,
         \A u \in Pthreads : Mu!mutexList(u)' = {} => Mu!mutexList(u) = {} /\ runPri'[u] = runPri[u] /\ priority'[u] = priority[u]
  PROVE  Mu!OwnPriority'
BY DEF Mu!OwnPriority

\* The mutexes of a thread.
LEMMA Listing ==
  ASSUME NEW u \in Pthreads
  PROVE  Mu!mutexList(u) = {m \in Mutexes : owner[m] = {u} /\ Protocol[m] # "NONE"}
BY DEF Mu!mutexList, Mu!Owned


-----------------------------------------------------------------------------
(* The priorities.                                                         *)

LEMMA Levels ==
  ASSUME MutexAssumption
  PROVE  /\ PthreadLevels \in Nat /\ Mu!Level \cup {0} \in SUBSET (0 .. PthreadLevels)
         /\ \A S \in SUBSET (Mu!Level \cup {0}) : S # {} => Mu!Max(S) \in S /\ \A x \in S : Mu!Max(S) >= x
         /\ \A x \in Mu!Level \cup {0}, y \in Mu!Level : x >= y => x \in Mu!Level
<1>1. PthreadLevels \in Nat
  BY DEF MutexAssumption
<1>2. Mu!Level \cup {0} \in SUBSET (0 .. PthreadLevels)
  BY <1>1 DEF Mu!Level
<1>3. ASSUME NEW S \in SUBSET (Mu!Level \cup {0}), S # {}
      PROVE  Mu!Max(S) \in S /\ \A x \in S : Mu!Max(S) >= x
  <2>1. S \in SUBSET (0 .. PthreadLevels)
    BY <1>2
  <2>2. Max(S) \in S /\ \A x \in S : Max(S) >= x
    BY <1>1, <1>3, <2>1, Greatest
  <2> QED BY <2>2 DEF Max, Mu!Max
<1>4. \A x \in Mu!Level \cup {0}, y \in Mu!Level : x >= y => x \in Mu!Level
  BY <1>1 DEF Mu!Level
<1> QED BY <1>1, <1>2, <1>3, <1>4

LEMMA CeilingInRange ==
  ASSUME MutexAssumption, NEW w \in Seq(Pthreads), NEW pri \in [Pthreads -> Mu!Level]
  PROVE  Mu!CeilingOf(w, pri) \in Mu!Level \cup {0}
<1> DEFINE S == {0} \cup {pri[t] : t \in Mu!ToSet(w)}
<1>1. \A t \in Mu!ToSet(w) : t \in Pthreads
  BY DEF Mu!ToSet
<1>2. S \in SUBSET (Mu!Level \cup {0}) /\ S # {}
  BY <1>1
<1>3. Mu!CeilingOf(w, pri) = Mu!Max(S)
  BY DEF Mu!CeilingOf
<1> HIDE DEF S
<1> QED BY <1>2, <1>3, Levels

LEMMA AdjustedInRange ==
  ASSUME MutexAssumption, MutexTyped, NEW t \in Pthreads, NEW own \in SUBSET Mutexes,
         NEW ceil \in [Mutexes -> Mu!Level \cup {0}]
  PROVE  Mu!Adjusted(t, own, ceil) \in Mu!Level /\ (own = {} => Mu!Adjusted(t, own, ceil) = priority[t])
<1> DEFINE S == {priority[t]} \cup {ceil[m] : m \in own}
<1>1. priority[t] \in Mu!Level /\ priority[t] \in S
  BY DEF MutexTyped
<1>2. S \in SUBSET (Mu!Level \cup {0}) /\ S # {} /\ (own = {} => S = {priority[t]})
  BY <1>1
<1>3. Mu!Adjusted(t, own, ceil) = Mu!Max(S)
  BY DEF Mu!Adjusted
<1> HIDE DEF S
<1>4. Mu!Max(S) \in S /\ Mu!Max(S) >= priority[t]
  BY <1>1, <1>2, Levels
<1> QED BY <1>1, <1>2, <1>3, <1>4, Levels

LEMMA Higher ==
  ASSUME MutexAssumption, NEW x \in Mu!Level, NEW y \in Mu!Level \cup {0}
  PROVE  Mu!Max({x, y}) \in Mu!Level /\ Mu!Max({x, y}) >= x /\ Mu!Max({x, y}) >= y
<1>1. {x, y} \in SUBSET (Mu!Level \cup {0}) /\ {x, y} # {} /\ x \in {x, y} /\ y \in {x, y}
  OBVIOUS
<1>2. Mu!Max({x, y}) \in {x, y} /\ Mu!Max({x, y}) >= x /\ Mu!Max({x, y}) >= y
  BY <1>1, Levels
<1>3. Mu!Max({x, y}) \in Mu!Level \cup {0}
  BY <1>2
<1> QED BY <1>2, <1>3, Levels

\* The mutexes with priority inheritance; others have no list of waiters.
Inherits == {m \in Mutexes : Protocol[m] = "INHERIT"}

LEMMA BlockedOnInherits ==
  ASSUME MutexLists, NEW o
  PROVE  Mu!blockedMutex(o) \in SUBSET Inherits
<1>1. ~Mu!Contains(<<>>, o)
  BY DEF Mu!Contains
<1>2. \A m \in Mutexes : m \in Inherits \/ waitList[m] = <<>>
  BY DEF MutexLists, Inherits
<1> QED BY <1>1, <1>2 DEF Mu!blockedMutex

\* The mutexes setInheritPriority looks at after those it has raised, and a turn of
\* its loop.
ChainNext(m, done) ==
  IF done = <<>> THEN {m} ELSE UNION {Mu!blockedMutex(o) : o \in owner[Mu!Last(done)]}

ChainLow(m, p, done) ==
  {x \in ChainNext(m, done) : \E o \in owner[x] \ UNION {owner[y] : y \in Mu!ToSet(done)} : runPri[o] < p}

ChainTurn(m, p, n, done) ==
  IF Len(done) = n - 1 /\ ChainLow(m, p, done) # {}
  THEN Append(done, CHOOSE x \in ChainLow(m, p, done) : TRUE)
  ELSE done

\* The loop, turn by turn: it raises the owners of mutexes with inheritance only.
LEMMA RaisedByTurns ==
  ASSUME MutexAssumption, MutexTyped, MutexLists, NEW m \in Inherits, NEW p
  PROVE  \E f : LET N == Cardinality(Mutexes)
                IN  /\ \A n \in 0 .. N : f[n] \in Seq(Inherits)
                    /\ f[0] = <<>> /\ \A n \in 1 .. N : f[n] = ChainTurn(m, p, n, f[n - 1])
                    /\ Mu!Raised(m, p) = Mu!ToSet(f[N])
<1> DEFINE N == Mu!Cardinality(Mutexes)
           S == Seq(Inherits)
           Turn(n, done) == ChainTurn(m, p, n, done)
           Body(f, n) == IF n = 0 THEN <<>> ELSE Turn(n, f[n - 1])
           f == CHOOSE f : f = [n \in 0 .. N |-> Body(f, n)]
           g == [n \in 1 .. N |-> [s \in S |-> Turn(n, s)]]
<1>1. N \in Nat /\ N = Cardinality(Mutexes)
  <2>1. N = Cardinality(Mutexes)
    BY DEF Mu!Cardinality, Cardinality
  <2> QED BY <2>1, FS_CardinalityType DEF MutexAssumption
<1>2. \A done : ChainLow(m, p, done) \in SUBSET Inherits
  <2>1. \A o : Mu!blockedMutex(o) \in SUBSET Inherits
    BY BlockedOnInherits
  <2>2. \A done : ChainNext(m, done) \in SUBSET Inherits
    BY <2>1 DEF ChainNext
  <2> QED BY <2>2 DEF ChainLow
<1>3. ASSUME NEW n \in 1 .. N, NEW s \in S PROVE Turn(n, s) \in S
  <2> DEFINE c == CHOOSE x \in ChainLow(m, p, s) : TRUE
  <2>1. ChainLow(m, p, s) # {} => c \in Inherits
    BY <1>2
  <2>2. Turn(n, s) = s \/ (ChainLow(m, p, s) # {} /\ Turn(n, s) = Append(s, c))
    BY DEF ChainTurn
  <2> HIDE DEF Turn, c
  <2> QED BY <2>1, <2>2
<1> HIDE DEF N, Turn
<1>4. g \in Turns(N, S) /\ <<>> \in S
  BY <1>3 DEF Turns
<1>5. PICK h : Iterates(h, N, S, <<>>, g)
  <2> HIDE DEF S, g
  <2> QED BY <1>1, <1>4, Iterated
<1>6. h \in [0 .. N -> S] /\ h[0] = <<>> /\ \A n \in 1 .. N : h[n] = g[n][h[n - 1]]
  <2> HIDE DEF S, g
  <2> QED BY <1>5 DEF Iterates
<1>7. h = [n \in 0 .. N |-> Body(h, n)]
  <2>1. ASSUME NEW n \in 0 .. N PROVE h[n] = Body(h, n)
    <3>1. CASE n = 0
      BY <3>1, <1>6
    <3>2. CASE n # 0
      <4>1. n \in 1 .. N /\ n - 1 \in 0 .. N
        BY <3>2, <1>1
      <4>2. h[n - 1] \in S
        <5> HIDE DEF S
        <5> QED BY <1>6, <4>1
      <4>3. g[n][h[n - 1]] = Turn(n, h[n - 1])
        <5> HIDE DEF S
        <5> QED BY <4>1, <4>2
      <4> HIDE DEF g, S
      <4> QED BY <3>2, <4>1, <4>3, <1>6
    <3> QED BY <3>1, <3>2
  <2> HIDE DEF Body, S, g
  <2> QED BY <2>1, <1>6
<1>8. f = [n \in 0 .. N |-> Body(f, n)]
  <2> HIDE DEF Body
  <2>1. \E z : z = [n \in 0 .. N |-> Body(z, n)]
    BY <1>7
  <2> QED BY <2>1
<1>9. f[0] = <<>> /\ \A n \in 1 .. N : f[n] = Turn(n, f[n - 1])
  <2>1. \A n \in 0 .. N : f[n] = Body(f, n)
    <3> HIDE DEF f, Body
    <3> QED BY <1>8
  <2> HIDE DEF f
  <2> QED BY <2>1, <1>1
<1>10. \A n \in 0 .. N : f[n] \in S
  <2> HIDE DEF f
  <2>1. \A n \in 1 .. N : f[n - 1] \in S => f[n] \in S
    <3> HIDE DEF S
    <3> QED BY <1>3, <1>9
  <2> HIDE DEF S, Body
  <2> QED BY <1>1, <1>4, <1>9, <2>1, StaysIn
<1>11. Mu!Raised(m, p) = Mu!ToSet(f[N])
  BY DEF Mu!Raised, f, Body, Turn, ChainTurn, ChainLow, ChainNext, N
<1> HIDE DEF f
<1> QED BY <1>1, <1>9, <1>10, <1>11 DEF Turn

LEMMA RaisedInherits ==
  ASSUME MutexAssumption, MutexTyped, MutexLists, NEW m \in Inherits, NEW p
  PROVE  Mu!Raised(m, p) \in SUBSET Inherits
<1>1. PICK f : /\ \A n \in 0 .. Cardinality(Mutexes) : f[n] \in Seq(Inherits)
               /\ Mu!Raised(m, p) = Mu!ToSet(f[Cardinality(Mutexes)])
  BY RaisedByTurns
<1>2. Cardinality(Mutexes) \in Nat
  BY FS_CardinalityType DEF MutexAssumption
<1> QED BY <1>1, <1>2 DEF Mu!ToSet


\* A turn of the loop of resetInheritPriority, at the mutex m.
LEMMA ResetTurn ==
  ASSUME NEW t \in Pthreads, NEW m, m = call[t].on, Mu!resetInheritPriority(t)
  PROVE  LET ceil == [prioceiling EXCEPT ![m] = Mu!CeilingOf(waitList[m], runPri)]
         IN  \/ owner[m] = {} /\ Mu!Return(t) /\ UNCHANGED <<runPri, prioceiling>>
             \/ \E o \in owner[m] :
                  /\ prioceiling' = ceil
                  /\ runPri' = runPri \/ runPri' = [runPri EXCEPT ![o] = Mu!Adjusted(o, Mu!mutexList(o), ceil)]
                  /\ Mu!Return(t) \/ \E n \in Mu!blockedMutex(o) : call' = [call EXCEPT ![t].on = n]
BY DEF Mu!resetInheritPriority

\* It gives priorities to owners of mutexes with inheritance only.
LEMMA ResetInRange ==
  ASSUME MutexAssumption, MutexTyped, NEW t \in Pthreads, NEW m \in Inherits, m = call[t].on, Mu!resetInheritPriority(t),
         MutexTokens
  PROVE  /\ runPri' \in [Pthreads -> Mu!Level] /\ prioceiling' \in [Mutexes -> Mu!Level \cup {0}]
         /\ \A u \in Pthreads : Mu!mutexList(u) = {} => runPri'[u] = runPri[u]
<1> DEFINE ceil == [prioceiling EXCEPT ![m] = Mu!CeilingOf(waitList[m], runPri)]
<1>1. /\ runPri \in [Pthreads -> Mu!Level] /\ prioceiling \in [Mutexes -> Mu!Level \cup {0}]
      /\ m \in Mutexes /\ waitList[m] \in Seq(Pthreads)
  BY DEF MutexTyped, Inherits
<1>2. ceil \in [Mutexes -> Mu!Level \cup {0}]
  BY <1>1, CeilingInRange
<1>3. CASE owner[m] = {} /\ UNCHANGED <<runPri, prioceiling>>
  BY <1>1, <1>3
<1>4. ASSUME NEW o \in owner[m], prioceiling' = ceil,
             runPri' = runPri \/ runPri' = [runPri EXCEPT ![o] = Mu!Adjusted(o, Mu!mutexList(o), ceil)]
      PROVE  /\ runPri' \in [Pthreads -> Mu!Level] /\ prioceiling' \in [Mutexes -> Mu!Level \cup {0}]
             /\ \A u \in Pthreads : Mu!mutexList(u) = {} => runPri'[u] = runPri[u]
  <2>1. o \in Pthreads /\ owner[m] = {o}
    BY <1>1 DEF MutexTokens, TokenOK
  <2>2. m \in Mu!mutexList(o) /\ Mu!mutexList(o) \in SUBSET Mutexes
    BY <2>1 DEF Mu!mutexList, Mu!Owned, Inherits
  <2> DEFINE up == Mu!Adjusted(o, Mu!mutexList(o), ceil)
  <2> HIDE DEF ceil
  <2>3. up \in Mu!Level
    BY <2>1, <2>2, <1>2, AdjustedInRange
  <2> HIDE DEF up
  <2>4. runPri' = runPri \/ runPri' = [runPri EXCEPT ![o] = up]
    BY <1>4 DEF up
  <2>5. \A u \in Pthreads : Mu!mutexList(u) = {} => u # o
    BY <2>2
  <2> QED BY <2>1, <2>3, <2>4, <2>5, <1>1, <1>2, <1>4
<1> QED BY <1>3, <1>4, ResetTurn


-----------------------------------------------------------------------------
(* Locking.                                                                *)

\* A thread that makes a call, or is not blocked in one.
LEMMA MutexUnblocked ==
  ASSUME MutexIInv, NEW t \in Pthreads, NEW l, Mu!At(t, l)
  PROVE  /\ call[t].at = l /\ tOutcome[t] \in {"idle", "granted", "timedout"}
         /\ l # "pend" => tOutcome[t] = "idle"
         /\ l \notin {"pend", "taken", "timedOut"} => \A m \in Mutexes : ~WaitsFor(t, m) /\ ~Coming(t, m)
<1>1. call[t].at = l /\ tOutcome[t] \notin {"timed", "forever"}
  BY DEF Mu!At, Mu!Runs, Mu!Blocked, Mu!Sem!Waits
<1>2. tOutcome[t] \in {"idle", "timed", "forever", "granted", "timedout"} /\ (tOutcome[t] # "idle" => call[t].at = "pend")
  BY DEF MutexIInv, PendsOK
<1> QED BY <1>1, <1>2 DEF WaitsFor, Coming

LEMMA NewCall ==
  ASSUME MutexAssumption, MutexIInv, NEW t \in Pthreads, NEW c \in Mu!NewCalls(t), Mu!MayCall(t, c)
  PROVE  /\ c \in Mu!Calls /\ c.at = "pend" /\ c.on \in Mutexes /\ (c.ceiling # 0 => Protocol[c.on] = "PROTECT")
         /\ call[t].at = "user" /\ tOutcome[t] = "idle" /\ \A m \in Mutexes : ~WaitsFor(t, m) /\ ~Coming(t, m)
         /\ priority' = priority /\ app' = app
<1>1. app \in MutexApps
  BY DEF MutexIInv, MutexTyped
<1>2. app.uses[t] \in SUBSET Mutexes /\ app.ceilings \subseteq Mu!Level
  BY <1>1 DEF MutexAssumption
<1>3. c \in Mu!Calls /\ c.at = "pend" /\ c.on \in Mutexes /\ (c.ceiling # 0 => Protocol[c.on] = "PROTECT")
  BY <1>2 DEF Mu!NewCalls, Mu!Calls, Mu!PCs
<1>4. Mu!At(t, "user") /\ priority' = priority /\ app' = app
  BY DEF Mu!MayCall
<1> QED BY <1>3, <1>4, MutexUnblocked

\* The call of a thread t changes, and it neither had the token nor has it now.
LEMMA OneMoves ==
  ASSUME NEW t \in Pthreads, UNCHANGED tOutcome, \A u \in Pthreads : u # t => call'[u] = call[u]
  PROVE  \A m \in Mutexes :
           /\ (Coming(t, m)' <=> Coming(t, m)) => \A u \in Pthreads : Coming(u, m)' <=> Coming(u, m)
           /\ (WaitsFor(t, m)' <=> WaitsFor(t, m)) => \A u \in Pthreads : WaitsFor(u, m)' <=> WaitsFor(u, m)
<1>1. ASSUME NEW m \in Mutexes, NEW u \in Pthreads, u # t
      PROVE  (Coming(u, m)' <=> Coming(u, m)) /\ (WaitsFor(u, m)' <=> WaitsFor(u, m))
  BY <1>1 DEF Coming, WaitsFor
<1> QED BY <1>1

\* Who sets a ceiling is not disturbed: nobody takes its mutex.
LEMMA CeilingsStay ==
  ASSUME CeilingsOK, MutexTyped, NEW t \in Pthreads, \A u \in Pthreads : u # t => call'[u] = call[u],
         \A m \in Mutexes : owner'[m] = owner[m] \/ owner[m] \in {{}, {t}},
         call'[t].at \in Setting => owner'[call'[t].on] = {t} /\ Protocol[call'[t].on] = "PROTECT",
         CallOK(call'[t])
  PROVE  CeilingsOK'
<1>1. ASSUME NEW u \in Pthreads, u # t
      PROVE  /\ call[u].at \in Setting => owner'[call[u].on] = {u} /\ Protocol[call[u].on] = "PROTECT"
             /\ CallOK(call[u])
  <2>1. {u} # {} /\ {u} # {t}
    BY <1>1
  <2>2. call[u].at \in Setting => call[u].on \in Mutexes
    BY MutexTypes DEF Setting
  <2> QED BY <2>1, <2>2 DEF CeilingsOK
<1> QED BY <1>1 DEF CeilingsOK

\* t becomes the owner of a mutex that has none.
LEMMA OwnStep ==
  ASSUME MutexAssumption, MutexIInv, NEW t \in Pthreads, NEW m \in Mutexes, NEW w \in Seq(Pthreads), Mu!Own(t, m, w),
         owner[m] = {}, UNCHANGED priority
  PROVE  /\ owner' \in [Mutexes -> SUBSET Pthreads] /\ lockCnt' \in [Mutexes -> Nat] /\ waitList' \in [Mutexes -> Seq(Pthreads)]
         /\ prioceiling' \in [Mutexes -> Mu!Level \cup {0}] /\ runPri' \in [Pthreads -> Mu!Level]
         /\ owner'[m] = {t} /\ lockCnt'[m] = 1 /\ waitList'[m] = w
         /\ \A x \in Mutexes : x # m => owner'[x] = owner[x] /\ lockCnt'[x] = lockCnt[x] /\ waitList'[x] = waitList[x]
         /\ Mu!OwnPriority'
<1>0. MutexTyped
  BY DEF MutexIInv
<1> DEFINE ceil == IF Protocol[m] = "INHERIT" THEN Mu!CeilingOf(w, runPri) ELSE prioceiling[m]
           up == Mu!Max({runPri[t], ceil})
<1>1. ceil \in Mu!Level \cup {0}
  BY <1>0, CeilingInRange DEF MutexTyped
<1> HIDE DEF ceil
<1>2. up \in Mu!Level
  BY <1>0, <1>1, Higher DEF MutexTyped
<1> HIDE DEF up
<1>3. /\ owner' = [owner EXCEPT ![m] = {t}] /\ lockCnt' = [lockCnt EXCEPT ![m] = 1] /\ waitList' = [waitList EXCEPT ![m] = w]
      /\ prioceiling' = [prioceiling EXCEPT ![m] = ceil]
      /\ runPri' = [runPri EXCEPT ![t] = IF Protocol[m] = "NONE" THEN @ ELSE up]
  BY DEF Mu!Own, ceil, up
<1>4. /\ owner' \in [Mutexes -> SUBSET Pthreads] /\ lockCnt' \in [Mutexes -> Nat] /\ waitList' \in [Mutexes -> Seq(Pthreads)]
      /\ prioceiling' \in [Mutexes -> Mu!Level \cup {0}] /\ runPri' \in [Pthreads -> Mu!Level]
      /\ owner'[m] = {t} /\ lockCnt'[m] = 1 /\ waitList'[m] = w
      /\ \A x \in Mutexes : x # m => owner'[x] = owner[x] /\ lockCnt'[x] = lockCnt[x] /\ waitList'[x] = waitList[x]
      /\ \A u \in Pthreads : u # t \/ Protocol[m] = "NONE" => runPri'[u] = runPri[u]
  BY <1>0, <1>1, <1>2, <1>3 DEF MutexTyped
<1>5. ASSUME NEW u \in Pthreads, Mu!mutexList(u)' = {}
      PROVE  Mu!mutexList(u) = {} /\ runPri'[u] = runPri[u] /\ priority'[u] = priority[u]
  <2>1. Mu!mutexList(u)' = {x \in Mutexes : owner'[x] = {u} /\ Protocol[x] # "NONE"}
    BY DEF Mu!mutexList, Mu!Owned
  <2>2. \A x \in Mutexes : owner[x] = {u} => owner'[x] = {u}
    BY <1>4
  <2>3. Mu!mutexList(u) = {}
    BY <2>1, <2>2, <1>5, Listing
  <2>4. u # t \/ Protocol[m] = "NONE"
    BY <2>1, <1>4, <1>5
  <2> QED BY <2>3, <2>4, <1>4
<1> QED BY <1>4, <1>5, PriorityStays DEF MutexIInv

LEMMA LockAgainPreserves ==
  ASSUME MutexAssumption, MutexIInv, NEW t \in Pthreads, NEW c \in Mu!NewCalls(t), Mu!LockAgain(t, c)
  PROVE  MutexIInv'
<1>1. MutexTyped /\ PendsOK /\ MutexTokens /\ MutexLists /\ CeilingsOK /\ Mu!OwnPriority
  BY DEF MutexIInv
<1>2. /\ Mu!MayCall(t, c) /\ owner[c.on] = {t} /\ Mu!Acquired(t, c)
      /\ lockCnt' = [lockCnt EXCEPT ![c.on] = @ + 1]
      /\ UNCHANGED <<tAvail, tWaiting, tOutcome, owner, prioceiling, waitList, runPri>>
  BY DEF Mu!LockAgain, Mu!Owned, Mu!semVars
<1>3. /\ c \in Mu!Calls /\ c.on \in Mutexes /\ (c.ceiling # 0 => Protocol[c.on] = "PROTECT")
      /\ call[t].at = "user" /\ tOutcome[t] = "idle" /\ \A m \in Mutexes : ~WaitsFor(t, m) /\ ~Coming(t, m)
      /\ priority' = priority /\ app' = app
  BY <1>2, NewCall
<1>4. /\ call' \in [Pthreads -> Mu!Calls \cup {Mu!User}] /\ \A u \in Pthreads : u # t => call'[u] = call[u]
      /\ call'[t].at \in {"user", "ceiling"}
      /\ call'[t].at = "ceiling" => c.ceiling # 0 /\ call'[t].on = c.on
  BY <1>1, <1>2, <1>3, Acquires
<1>5. lockCnt' \in [Mutexes -> Nat] /\ \A m \in Mutexes : lockCnt'[m] = 0 <=> lockCnt[m] = 0
  <2>1. lockCnt[c.on] # 0
    BY <1>1, <1>2, <1>3 DEF MutexTokens, TokenOK
  <2> QED BY <2>1, <1>1, <1>2, <1>3 DEF MutexTyped
<1>6. MutexTyped'
  BY <1>1, <1>2, <1>3, <1>4, <1>5 DEF MutexTyped
<1>7. PendsOK'
  BY <1>1, <1>2, <1>3, <1>4, PendsStay
<1>8. \A m \in Mutexes : ~Coming(t, m)' /\ ~WaitsFor(t, m)'
  BY <1>4 DEF Coming, WaitsFor
<1>9. MutexTokens'
  BY <1>1, <1>2, <1>3, <1>4, <1>5, <1>8, OneMoves, TokenStays DEF MutexTokens
<1>10. MutexLists'
  BY <1>1, <1>2, <1>3, <1>4, <1>8, OneMoves, MutexListsStay
<1>11. CeilingsOK'
  BY <1>1, <1>2, <1>3, <1>4, CeilingsStay DEF CallOK, Setting
<1>12. Mu!OwnPriority'
  BY <1>1, <1>2, <1>3, PriorityStays DEF Mu!mutexList, Mu!Owned
<1> QED BY <1>6, <1>7, <1>9, <1>10, <1>11, <1>12 DEF MutexIInv

LEMMA LockFreePreserves ==
  ASSUME MutexAssumption, MutexIInv, NEW t \in Pthreads, NEW c \in Mu!NewCalls(t), Mu!LockFree(t, c)
  PROVE  MutexIInv'
<1>1. MutexTyped /\ PendsOK /\ MutexTokens /\ MutexLists /\ CeilingsOK /\ Mu!OwnPriority
  BY DEF MutexIInv
<1> DEFINE m == c.on
<1>2. /\ Mu!MayCall(t, c) /\ tAvail[m] > 0 /\ tAvail' = [tAvail EXCEPT ![m] = @ - 1] /\ UNCHANGED <<tWaiting, tOutcome>>
      /\ Mu!Own(t, m, waitList[m]) /\ Mu!Acquired(t, c)
  BY DEF Mu!LockFree, Mu!Sem!Take
<1>3. /\ c \in Mu!Calls /\ m \in Mutexes /\ (c.ceiling # 0 => Protocol[m] = "PROTECT")
      /\ call[t].at = "user" /\ tOutcome[t] = "idle" /\ \A x \in Mutexes : ~WaitsFor(t, x) /\ ~Coming(t, x)
      /\ priority' = priority /\ app' = app
  BY <1>2, NewCall
<1>4. /\ call' \in [Pthreads -> Mu!Calls \cup {Mu!User}] /\ \A u \in Pthreads : u # t => call'[u] = call[u]
      /\ call'[t].at \in {"user", "ceiling"}
      /\ call'[t].at = "ceiling" => c.ceiling # 0 /\ call'[t].on = m
  BY <1>1, <1>2, <1>3, Acquires
<1> HIDE DEF m
<1>5. /\ tAvail[m] = 1 /\ owner[m] = {} /\ \A u \in Pthreads : ~Coming(u, m)
      /\ tWaiting[m] = <<>> /\ waitList[m] \in Seq(Pthreads)
  <2>1. tAvail[m] = 1
    BY <1>1, <1>2, <1>3, MutexTypes
  <2> QED BY <2>1, <1>1, <1>3, MutexTypes DEF MutexTokens, TokenOK, PendsOK
<1>6. /\ tAvail' \in [Mutexes -> 0 .. 1] /\ tAvail'[m] = 0 /\ \A x \in Mutexes : x # m => tAvail'[x] = tAvail[x]
  BY <1>1, <1>2, <1>3, <1>5 DEF MutexTyped
<1>7. /\ owner' \in [Mutexes -> SUBSET Pthreads] /\ lockCnt' \in [Mutexes -> Nat] /\ waitList' \in [Mutexes -> Seq(Pthreads)]
      /\ prioceiling' \in [Mutexes -> Mu!Level \cup {0}] /\ runPri' \in [Pthreads -> Mu!Level]
      /\ owner'[m] = {t} /\ lockCnt'[m] = 1 /\ waitList'[m] = waitList[m]
      /\ \A x \in Mutexes : x # m => owner'[x] = owner[x] /\ lockCnt'[x] = lockCnt[x] /\ waitList'[x] = waitList[x]
      /\ Mu!OwnPriority'
  BY <1>2, <1>3, <1>5, OwnStep
<1>8. waitList' = waitList
  BY <1>1, <1>7 DEF MutexTyped
<1>9. MutexTyped'
  BY <1>1, <1>2, <1>3, <1>4, <1>6, <1>7 DEF MutexTyped
<1>10. PendsOK'
  <2>1. ASSUME NEW u \in Pthreads
        PROVE  /\ tOutcome[u] \in {"idle", "timed", "forever", "granted", "timedout"}
               /\ tOutcome[u] # "idle" => call'[u].at = "pend"
    BY <1>1, <1>3, <1>4 DEF PendsOK
  <2>2. ASSUME NEW x \in Mutexes
        PROVE  /\ IsInjective(tWaiting[x]) /\ (tWaiting[x] # <<>> => tAvail'[x] = 0)
               /\ \A u \in Pthreads : Contains(tWaiting[x], u) <=> tOutcome[u] \in {"timed", "forever"} /\ call'[u].on = x
    BY <1>1, <1>3, <1>4, <1>6 DEF PendsOK
  <2>3. tWaiting' = tWaiting /\ tOutcome' = tOutcome
    BY <1>2
  <2> QED BY <2>1, <2>2, <2>3 DEF PendsOK
<1>11. \A x \in Mutexes : ~Coming(t, x)' /\ ~WaitsFor(t, x)'
  BY <1>4 DEF Coming, WaitsFor
<1>12. \A x \in Mutexes, u \in Pthreads : (Coming(u, x)' <=> Coming(u, x)) /\ (WaitsFor(u, x)' <=> WaitsFor(u, x))
  BY <1>2, <1>3, <1>4, <1>11, OneMoves
<1>13. ASSUME NEW x \in Mutexes PROVE TokenOK(x)'
  <2>1. CASE x = m
    BY <2>1, <1>5, <1>6, <1>7, <1>12 DEF TokenOK
  <2>2. CASE x # m
    BY <2>2, <1>1, <1>6, <1>7, <1>12, TokenStays DEF MutexTokens
  <2> QED BY <2>1, <2>2
<1>14. MutexLists'
  BY <1>1, <1>8, <1>12, MutexListsStay
<1>15. CeilingsOK'
  BY <1>1, <1>3, <1>4, <1>5, <1>7, CeilingsStay DEF CallOK, Setting
<1> QED BY <1>7, <1>9, <1>10, <1>13, <1>14, <1>15 DEF MutexIInv, MutexTokens


\* setInheritPriority: the priorities stay in range, and nobody without a mutex gets one.
LEMMA InheritInRange ==
  ASSUME MutexAssumption, MutexTyped, MutexLists, NEW m \in Inherits, NEW p \in Mu!Level, Mu!setInheritPriority(m, p)
  PROVE  /\ runPri' \in [Pthreads -> Mu!Level] /\ prioceiling' \in [Mutexes -> Mu!Level \cup {0}]
         /\ \A u \in Pthreads : Mu!mutexList(u) = {} => runPri'[u] = runPri[u]
<1> DEFINE R == Mu!Raised(m, p)
<1>1. R \in SUBSET Inherits
  BY RaisedInherits
<1> HIDE DEF R
<1>2. /\ runPri' = [t \in Pthreads |-> IF \E x \in R : Mu!Owned(t, x) THEN p ELSE runPri[t]]
      /\ prioceiling' = [x \in Mutexes |-> IF x \in R THEN p ELSE prioceiling[x]]
  BY DEF Mu!setInheritPriority, R
<1>3. runPri \in [Pthreads -> Mu!Level] /\ prioceiling \in [Mutexes -> Mu!Level \cup {0}]
  BY DEF MutexTyped
<1>4. ASSUME NEW u \in Pthreads, Mu!mutexList(u) = {} PROVE ~\E x \in R : Mu!Owned(u, x)
  BY <1>1, <1>4 DEF Mu!mutexList, Inherits
<1> QED BY <1>2, <1>3, <1>4

LEMMA LockBlockPreserves ==
  ASSUME MutexAssumption, MutexIInv, NEW t \in Pthreads, NEW c \in Mu!NewCalls(t), Mu!LockBlock(t, c)
  PROVE  MutexIInv'
<1>1. MutexTyped /\ PendsOK /\ MutexTokens /\ MutexLists /\ CeilingsOK /\ Mu!OwnPriority
  BY DEF MutexIInv
<1> DEFINE m == c.on
<1>2. /\ Mu!MayCall(t, c) /\ call' = [call EXCEPT ![t] = c]
      /\ UNCHANGED <<tAvail, tWaiting, tOutcome, owner, lockCnt>>
      /\ IF Protocol[m] = "INHERIT"
         THEN /\ Mu!setInheritPriority(m, runPri[t])
              /\ waitList' = [waitList EXCEPT ![m] = Append(@, t)]
         ELSE UNCHANGED <<runPri, prioceiling, waitList>>
  BY DEF Mu!LockBlock, Mu!semVars
<1>3. /\ c \in Mu!Calls /\ c.at = "pend" /\ m \in Mutexes /\ (c.ceiling # 0 => Protocol[m] = "PROTECT")
      /\ call[t].at = "user" /\ tOutcome[t] = "idle" /\ \A x \in Mutexes : ~WaitsFor(t, x) /\ ~Coming(t, x)
      /\ priority' = priority /\ app' = app
  BY <1>2, NewCall
<1>4. /\ call' \in [Pthreads -> Mu!Calls \cup {Mu!User}] /\ call'[t] = c /\ \A u \in Pthreads : u # t => call'[u] = call[u]
  BY <1>1, <1>2, <1>3 DEF MutexTyped
<1> HIDE DEF m
<1>5. /\ runPri' \in [Pthreads -> Mu!Level] /\ prioceiling' \in [Mutexes -> Mu!Level \cup {0}]
      /\ \A u \in Pthreads : Mu!mutexList(u) = {} => runPri'[u] = runPri[u]
  <2>1. CASE Protocol[m] = "INHERIT"
    <3>1. m \in Inherits /\ runPri[t] \in Mu!Level
      BY <2>1, <1>1, <1>3 DEF Inherits, MutexTyped
    <3> QED BY <3>1, <2>1, <1>1, <1>2, InheritInRange
  <2>2. CASE Protocol[m] # "INHERIT"
    BY <2>2, <1>1, <1>2 DEF MutexTyped
  <2> QED BY <2>1, <2>2
<1>6. waitList' \in [Mutexes -> Seq(Pthreads)]
  <2>1. waitList \in [Mutexes -> Seq(Pthreads)] /\ waitList[m] \in Seq(Pthreads) /\ Append(waitList[m], t) \in Seq(Pthreads)
    BY <1>1, <1>3, MutexTypes DEF MutexTyped
  <2>2. waitList' = waitList \/ waitList' = [waitList EXCEPT ![m] = Append(waitList[m], t)]
    BY <1>2
  <2> QED BY <2>1, <2>2
<1>7. MutexTyped'
  BY <1>1, <1>2, <1>3, <1>4, <1>5, <1>6 DEF MutexTyped
<1>8. PendsOK'
  BY <1>1, <1>2, <1>3, <1>4, PendsStay
<1>9. /\ \A x \in Mutexes : ~Coming(t, x)'
      /\ \A x \in Mutexes : WaitsFor(t, x)' <=> x = m
  <2>1. call'[t].at = "pend" /\ call'[t].on = m /\ tOutcome'[t] = "idle"
    BY <1>2, <1>3, <1>4 DEF m
  <2> QED BY <2>1 DEF Coming, WaitsFor
<1>10. MutexTokens'
  BY <1>1, <1>2, <1>3, <1>4, <1>9, OneMoves, TokenStays DEF MutexTokens
<1>11. MutexLists'
  <2>1. \A u \in Pthreads, x \in Mutexes : u # t => (WaitsFor(u, x)' <=> WaitsFor(u, x))
    BY <1>4 DEF WaitsFor
  <2>2. CASE Protocol[m] = "INHERIT"
    <3>1. /\ waitList'[m] = Append(waitList[m], t) /\ waitList[m] \in Seq(Pthreads)
          /\ \A x \in Mutexes : x # m => waitList'[x] = waitList[x]
      BY <2>2, <1>1, <1>2, <1>3 DEF MutexTyped
    <3>2. IsInjective(waitList[m]) /\ ~Contains(waitList[m], t)
      BY <2>2, <1>1, <1>3 DEF MutexLists
    <3>3. IsInjective(waitList'[m]) /\ \A u : Contains(waitList'[m], u) <=> Contains(waitList[m], u) \/ u = t
      BY <3>1, <3>2, Appended
    <3>4. ASSUME NEW x \in Mutexes
          PROVE  /\ IsInjective(waitList'[x])
                 /\ Protocol[x] = "INHERIT" => \A u \in Pthreads : Contains(waitList'[x], u) <=> WaitsFor(u, x)'
                 /\ Protocol[x] # "INHERIT" => waitList'[x] = <<>>
      <4>1. CASE x = m
        BY <4>1, <3>3, <2>1, <2>2, <1>1, <1>9 DEF MutexLists
      <4>2. CASE x # m
        BY <4>2, <3>1, <2>1, <1>1, <1>3, <1>9 DEF MutexLists
      <4> QED BY <4>1, <4>2
    <3> QED BY <3>4 DEF MutexLists
  <2>3. CASE Protocol[m] # "INHERIT"
    <3>1. waitList' = waitList
      BY <2>3, <1>2
    <3>2. \A x \in Mutexes, u \in Pthreads : Protocol[x] = "INHERIT" => (WaitsFor(u, x)' <=> WaitsFor(u, x))
      BY <2>1, <2>3, <1>3, <1>9
    <3> QED BY <3>1, <3>2, <1>1, MutexListsStay
  <2> QED BY <2>2, <2>3
<1>12. CeilingsOK'
  <2>1. /\ call'[t].at = "pend" /\ (call'[t].ceiling # 0 => Protocol[call'[t].on] = "PROTECT")
    BY <1>3, <1>4 DEF m
  <2> QED BY <2>1, <1>1, <1>2, <1>4, CeilingsStay DEF CallOK, Setting
<1>13. Mu!OwnPriority'
  <2>1. \A u \in Pthreads : Mu!mutexList(u)' = Mu!mutexList(u)
    BY <1>2 DEF Mu!mutexList, Mu!Owned
  <2> QED BY <2>1, <1>1, <1>3, <1>5, PriorityStays
<1> QED BY <1>7, <1>8, <1>10, <1>11, <1>12, <1>13 DEF MutexIInv

LEMMA LockNonePreserves ==
  ASSUME MutexAssumption, MutexIInv, NEW t \in Pthreads, NEW c \in Mu!NewCalls(t), Mu!LockNone(t, c)
  PROVE  MutexIInv'
<1>1. MutexTyped /\ PendsOK /\ MutexTokens /\ MutexLists /\ CeilingsOK /\ Mu!OwnPriority
  BY DEF MutexIInv
<1>2. /\ Mu!MayCall(t, c) /\ call' = [call EXCEPT ![t] = c] /\ Protocol[c.on] = "NONE"
      /\ UNCHANGED <<tAvail, tWaiting, tOutcome, owner, lockCnt, runPri, prioceiling, waitList>>
  BY DEF Mu!LockNone, Mu!semVars, Mu!mutexVars
<1>3. /\ c \in Mu!Calls /\ c.at = "pend" /\ c.on \in Mutexes /\ (c.ceiling # 0 => Protocol[c.on] = "PROTECT")
      /\ call[t].at = "user" /\ tOutcome[t] = "idle" /\ \A x \in Mutexes : ~WaitsFor(t, x) /\ ~Coming(t, x)
      /\ priority' = priority /\ app' = app
  BY <1>2, NewCall
<1>4. /\ call' \in [Pthreads -> Mu!Calls \cup {Mu!User}] /\ call'[t] = c /\ \A u \in Pthreads : u # t => call'[u] = call[u]
  BY <1>1, <1>2, <1>3 DEF MutexTyped
<1>5. MutexTyped'
  BY <1>1, <1>2, <1>3, <1>4 DEF MutexTyped
<1>6. PendsOK'
  BY <1>1, <1>2, <1>3, <1>4, PendsStay
<1>7. /\ \A x \in Mutexes : ~Coming(t, x)'
      /\ \A x \in Mutexes : Protocol[x] = "INHERIT" => ~WaitsFor(t, x)'
  <2>1. call'[t].at = "pend" /\ call'[t].on = c.on /\ tOutcome'[t] = "idle"
    BY <1>2, <1>3, <1>4
  <2> QED BY <2>1, <1>2 DEF Coming, WaitsFor
<1>8. MutexTokens'
  BY <1>1, <1>2, <1>3, <1>4, <1>7, OneMoves, TokenStays DEF MutexTokens
<1>9. MutexLists'
  BY <1>1, <1>2, <1>3, <1>4, <1>7, OneMoves, MutexListsStay
<1>10. CeilingsOK'
  BY <1>1, <1>2, <1>3, <1>4, CeilingsStay DEF CallOK, Setting
<1>11. Mu!OwnPriority'
  BY <1>1, <1>2, <1>3, PriorityStays DEF Mu!mutexList, Mu!Owned
<1> QED BY <1>5, <1>6, <1>8, <1>9, <1>10, <1>11 DEF MutexIInv


-----------------------------------------------------------------------------
(* Waiting, and what a thread does with the token or without.              *)

\* How the pend of a thread ends that has the token, or does without.
LEMMA PendEnds ==
  ASSUME MutexAssumption, MutexIInv, NEW t \in Pthreads, call[t].at = "pend", tOutcome[t] \in {"idle", "granted", "timedout"},
         UNCHANGED <<tWaiting, owner, lockCnt, prioceiling, waitList, priority, runPri, app>>,
         call' \in [Pthreads -> Mu!Calls \cup {Mu!User}], \A u \in Pthreads : u # t => call'[u] = call[u],
         tOutcome' \in [Pthreads -> Mu!Sem!Outcomes], tOutcome'[t] = "idle", \A u \in Pthreads : u # t => tOutcome'[u] = tOutcome[u],
         tAvail' \in [Mutexes -> 0 .. 1], \A x \in Mutexes : tAvail'[x] # tAvail[x] => tAvail'[x] = 0,
         call'[t].at # "pend", call'[t].at \notin Setting \cup {"reset"},
         call'[t].at = "taken" => call'[t].ceiling = call[t].ceiling /\ call'[t].on = call[t].on,
         \A x \in Mutexes : Protocol[x] = "INHERIT" => (WaitsFor(t, x)' <=> WaitsFor(t, x)),
         MutexTokens'
  PROVE  MutexIInv'
<1>1. MutexTyped /\ PendsOK /\ MutexTokens /\ MutexLists /\ CeilingsOK /\ Mu!OwnPriority
  BY DEF MutexIInv
<1>2. MutexTyped'
  BY <1>1 DEF MutexTyped
<1>3. PendsOK'
  <2>1. tWaiting' = tWaiting /\ tOutcome[t] \notin {"timed", "forever"} /\ tOutcome'[t] \notin {"timed", "forever"}
    OBVIOUS
  <2>2. ASSUME NEW u \in Pthreads
        PROVE  /\ tOutcome'[u] \in {"idle", "timed", "forever", "granted", "timedout"}
               /\ tOutcome'[u] # "idle" => call'[u].at = "pend"
    <3>1. CASE u = t
      BY <3>1
    <3>2. CASE u # t
      BY <3>2, <1>1 DEF PendsOK
    <3> QED BY <3>1, <3>2
  <2>3. ASSUME NEW x \in Mutexes
        PROVE  /\ IsInjective(tWaiting[x]) /\ (tWaiting[x] # <<>> => tAvail'[x] = 0)
               /\ \A u \in Pthreads : Contains(tWaiting[x], u) <=> tOutcome'[u] \in {"timed", "forever"} /\ call'[u].on = x
    <3>1. IsInjective(tWaiting[x]) /\ (tWaiting[x] # <<>> => tAvail'[x] = 0)
      BY <1>1 DEF PendsOK
    <3>2. ASSUME NEW u \in Pthreads
          PROVE  Contains(tWaiting[x], u) <=> tOutcome'[u] \in {"timed", "forever"} /\ call'[u].on = x
      <4>1. Contains(tWaiting[x], u) <=> tOutcome[u] \in {"timed", "forever"} /\ call[u].on = x
        BY <1>1 DEF PendsOK
      <4> QED BY <4>1, <2>1
    <3> QED BY <3>1, <3>2
  <2> QED BY <2>1, <2>2, <2>3 DEF PendsOK
<1>4. MutexLists'
  <2>1. \A x \in Mutexes, u \in Pthreads : Protocol[x] = "INHERIT" => (WaitsFor(u, x)' <=> WaitsFor(u, x))
    BY DEF WaitsFor
  <2> QED BY <2>1, <1>1, MutexListsStay
<1>5. CeilingsOK'
  <2>1. CallOK(call'[t])
    BY <1>1 DEF CeilingsOK, CallOK, Setting
  <2> QED BY <2>1, <1>1, CeilingsStay DEF CallOK, Setting
<1>6. Mu!OwnPriority'
  BY <1>1, PriorityStays DEF Mu!mutexList, Mu!Owned
<1> QED BY <1>2, <1>3, <1>4, <1>5, <1>6 DEF MutexIInv

LEMMA MutexPendPreserves ==
  ASSUME MutexAssumption, MutexIInv, NEW t \in Pthreads, Mu!Pend(t)
  PROVE  MutexIInv'
<1>1. MutexTyped /\ PendsOK /\ MutexTokens /\ MutexLists /\ CeilingsOK /\ Mu!OwnPriority
  BY DEF MutexIInv
<1>2. /\ call[t].at = "pend" /\ tOutcome[t] \in {"idle", "granted", "timedout"}
      /\ UNCHANGED <<owner, lockCnt, prioceiling, waitList, priority, runPri, app>>
  BY MutexUnblocked DEF Mu!Pend, Mu!mutexVars
<1>3. PICK m \in Mutexes : m = call[t].on
  BY <1>1, <1>2, MutexTypes
<1>4. call[t] \in Mu!Calls /\ {"taken", "timedOut"} \subseteq Mu!PCs
  BY <1>1, <1>2, MutexTypes DEF Mu!PCs
<1>5. ASSUME NEW u \in Pthreads, NEW x \in Mutexes, u # t \/ x # m,
             \A v \in Pthreads : v # t => call'[v] = call[v] /\ tOutcome'[v] = tOutcome[v],
             call'[t].at \in {"taken", "timedOut"} => call'[t].on = m, call'[t].at \in {"taken", "timedOut", "user"}
      PROVE  (Coming(u, x)' <=> Coming(u, x)) /\ (WaitsFor(u, x)' <=> WaitsFor(u, x))
  BY <1>5, <1>3 DEF Coming, WaitsFor
<1>6. CASE tOutcome[t] = "idle" /\ Mu!Sem!Take(m) /\ Mu!Goto(t, "taken")
  <2>1. /\ tAvail[m] = 1 /\ tAvail' = [tAvail EXCEPT ![m] = @ - 1] /\ UNCHANGED <<tWaiting, tOutcome>>
    BY <1>1, <1>6, MutexTypes DEF Mu!Sem!Take
  <2>2. /\ call' \in [Pthreads -> Mu!Calls \cup {Mu!User}] /\ \A u \in Pthreads : u # t => call'[u] = call[u]
        /\ call'[t].at = "taken" /\ call'[t].on = m /\ call'[t].ceiling = call[t].ceiling
    BY <1>1, <1>2, <1>3, <1>4, <1>6, GoesOn
  <2>3. /\ tAvail' \in [Mutexes -> 0 .. 1] /\ tAvail'[m] = 0 /\ \A x \in Mutexes : x # m => tAvail'[x] = tAvail[x]
    BY <1>1, <2>1 DEF MutexTyped
  <2>4. tOutcome' \in [Pthreads -> Mu!Sem!Outcomes] /\ tOutcome' = tOutcome
    BY <1>1, <2>1 DEF MutexTyped
  <2>5. WaitsFor(t, m) /\ WaitsFor(t, m)' /\ Coming(t, m)'
    BY <1>2, <1>3, <2>2 DEF WaitsFor, Coming
  <2>6. ASSUME NEW x \in Mutexes PROVE TokenOK(x)'
    <3>1. TokenOK(x)
      BY <1>1 DEF MutexTokens
    <3>2. CASE x = m
      <4>1. owner[m] = {} /\ lockCnt[m] = 0 /\ \A u \in Pthreads : ~Coming(u, m)
        BY <3>1, <3>2, <2>1 DEF TokenOK
      <4>2. \A u \in Pthreads : Coming(u, m)' <=> u = t
        BY <4>1, <1>5, <2>2, <2>4, <2>5
      <4> QED BY <3>2, <4>1, <4>2, <2>3, <1>2 DEF TokenOK
    <3>3. CASE x # m
      BY <3>1, <3>3, <1>2, <1>5, <2>2, <2>3, <2>4, TokenStays
    <3> QED BY <3>2, <3>3
  <2>7. \A x \in Mutexes : WaitsFor(t, x)' <=> WaitsFor(t, x)
    BY <2>5, <1>5, <2>2, <2>4
  <2> QED BY <1>2, <1>3, <1>6, <2>1, <2>2, <2>3, <2>4, <2>6, <2>7, PendEnds DEF MutexTokens, Setting
<1>7. ASSUME NEW l \in {"taken", "timedOut"}, Mu!Sem!Return(t), Mu!Goto(t, l),
             tOutcome[t] = IF l = "taken" THEN "granted" ELSE "timedout"
      PROVE  MutexIInv'
  <2>1. /\ tOutcome' = [tOutcome EXCEPT ![t] = "idle"] /\ UNCHANGED <<tAvail, tWaiting>>
    BY <1>7 DEF Mu!Sem!Return
  <2>2. /\ call' \in [Pthreads -> Mu!Calls \cup {Mu!User}] /\ \A u \in Pthreads : u # t => call'[u] = call[u]
        /\ call'[t].at = l /\ call'[t].on = m /\ call'[t].ceiling = call[t].ceiling
    BY <1>1, <1>2, <1>3, <1>4, <1>7, GoesOn
  <2>3. /\ tOutcome' \in [Pthreads -> Mu!Sem!Outcomes] /\ tOutcome'[t] = "idle"
        /\ \A u \in Pthreads : u # t => tOutcome'[u] = tOutcome[u]
    BY <1>1, <2>1 DEF MutexTyped, Mu!Sem!Outcomes
  <2>4. WaitsFor(t, m) /\ WaitsFor(t, m)' /\ (Coming(t, m)' <=> Coming(t, m))
    BY <1>2, <1>3, <1>7, <2>2, <2>3 DEF WaitsFor, Coming
  <2>5. \A x \in Mutexes, u \in Pthreads : (Coming(u, x)' <=> Coming(u, x)) /\ (WaitsFor(u, x)' <=> WaitsFor(u, x))
    BY <2>4, <1>5, <2>2, <2>3
  <2>6. MutexTokens'
    BY <1>1, <1>2, <2>1, <2>5, TokenStays DEF MutexTokens
  <2>7. tAvail' \in [Mutexes -> 0 .. 1] /\ tAvail' = tAvail
    BY <1>1, <2>1 DEF MutexTyped
  <2> QED BY <1>2, <1>3, <1>7, <2>1, <2>2, <2>3, <2>5, <2>6, <2>7, PendEnds DEF Setting
<1>8. CASE Mu!Sem!Wait(t, m, call[t].how) /\ UNCHANGED call
  <2> DEFINE how == call[t].how
  <2>1. /\ tOutcome[t] = "idle" /\ tAvail[m] = 0 /\ UNCHANGED <<tAvail, call>>
        /\ tOutcome' = [tOutcome EXCEPT ![t] = how]
    BY <1>8 DEF Mu!Sem!Wait
  <2>2. how \in {"timed", "forever"}
    BY <1>4 DEF Mu!Calls, Mu!Sem!Waits
  <2>3. tWaiting[m] \in Seq(Pthreads) /\ IsInjective(tWaiting[m]) /\ ~Contains(tWaiting[m], t)
    BY <1>1, <2>1, MutexTypes DEF PendsOK
  <2>4. tWaiting' = [tWaiting EXCEPT ![m] = Append(tWaiting[m], t)]
    <3>1. PICK i \in 1 .. Len(tWaiting[m]) + 1 :
                 /\ i <= Len(tWaiting[m]) => "priority" \in {"binary"}
                 /\ tWaiting' = [tWaiting EXCEPT ![m] = Mu!Sem!InsertAt(@, i, t)]
      BY <1>8, <1>3 DEF Mu!Sem!Wait
    <3>2. i = Len(tWaiting[m]) + 1
      <4>1. "priority" \notin {"binary"} /\ Len(tWaiting[m]) \in Nat
        BY <2>3
      <4> QED BY <3>1, <4>1
    <3>3. Mu!Sem!InsertAt(tWaiting[m], i, t) = InsertAt(tWaiting[m], i, t)
      BY DEF Mu!Sem!InsertAt, InsertAt
    <3>4. InsertAt(tWaiting[m], i, t) = Append(tWaiting[m], t)
      BY <3>2, <2>3, PutLast
    <3> QED BY <3>1, <3>3, <3>4
  <2>5. /\ tWaiting' \in [Mutexes -> Seq(Pthreads)] /\ tWaiting'[m] = Append(tWaiting[m], t)
        /\ \A x \in Mutexes : x # m => tWaiting'[x] = tWaiting[x]
    <3>1. Append(tWaiting[m], t) \in Seq(Pthreads) /\ tWaiting \in [Mutexes -> Seq(Pthreads)]
      BY <2>3, <1>1 DEF MutexTyped
    <3> QED BY <3>1, <2>4
  <2>6. /\ tOutcome' \in [Pthreads -> Mu!Sem!Outcomes] /\ tOutcome'[t] = how
        /\ \A u \in Pthreads : u # t => tOutcome'[u] = tOutcome[u]
    BY <1>1, <2>1, <2>2 DEF MutexTyped, Mu!Sem!Outcomes
  <2> HIDE DEF how
  <2>7. MutexTyped'
    BY <1>1, <1>2, <2>1, <2>5, <2>6 DEF MutexTyped
  <2>8. PendsOK'
    <3>1. IsInjective(tWaiting'[m]) /\ \A u : Contains(tWaiting'[m], u) <=> Contains(tWaiting[m], u) \/ u = t
      BY <2>3, <2>5, Appended
    <3>2. ASSUME NEW u \in Pthreads
          PROVE  /\ tOutcome'[u] \in {"idle", "timed", "forever", "granted", "timedout"}
                 /\ tOutcome'[u] # "idle" => call[u].at = "pend"
      <4>1. CASE u = t
        BY <4>1, <2>2, <2>6, <1>2
      <4>2. CASE u # t
        BY <4>2, <2>6, <1>1 DEF PendsOK
      <4> QED BY <4>1, <4>2
    <3>3. ASSUME NEW x \in Mutexes
          PROVE  /\ IsInjective(tWaiting'[x]) /\ (tWaiting'[x] # <<>> => tAvail[x] = 0)
                 /\ \A u \in Pthreads : Contains(tWaiting'[x], u) <=> tOutcome'[u] \in {"timed", "forever"} /\ call[u].on = x
      <4>1. CASE x = m
        BY <4>1, <3>1, <2>1, <2>2, <2>6, <1>1, <1>3 DEF PendsOK
      <4>2. CASE x # m
        BY <4>2, <2>1, <2>2, <2>5, <2>6, <1>1, <1>3 DEF PendsOK
      <4> QED BY <4>1, <4>2
    <3>4. call' = call /\ tAvail' = tAvail
      BY <2>1
    <3> QED BY <3>2, <3>3, <3>4 DEF PendsOK
  <2>9. \A x \in Mutexes, u \in Pthreads : (Coming(u, x)' <=> Coming(u, x)) /\ (WaitsFor(u, x)' <=> WaitsFor(u, x))
    BY <2>1, <2>2, <2>6 DEF Coming, WaitsFor
  <2>10. MutexTokens' /\ MutexLists'
    BY <1>1, <1>2, <2>1, <2>9, TokenStays, MutexListsStay DEF MutexTokens
  <2>11. CeilingsOK'
    BY <1>1, <1>2, <2>1 DEF CeilingsOK
  <2>12. Mu!OwnPriority'
    BY <1>1, <1>2, PriorityStays DEF Mu!mutexList, Mu!Owned
  <2> QED BY <2>7, <2>8, <2>10, <2>11, <2>12 DEF MutexIInv
<1>9. CASE Protocol[m] = "NONE" /\ tOutcome[t] = "idle" /\ Mu!Return(t) /\ UNCHANGED <<tAvail, tWaiting, tOutcome>>
  <2>1. /\ call' \in [Pthreads -> Mu!Calls \cup {Mu!User}] /\ \A u \in Pthreads : u # t => call'[u] = call[u]
        /\ call'[t].at = "user"
    BY <1>1, <1>9, MutexReturns
  <2>2. ~Coming(t, m) /\ ~Coming(t, m)'
    BY <1>2, <1>9, <2>1 DEF Coming
  <2>3. \A x \in Mutexes, u \in Pthreads : /\ Coming(u, x)' <=> Coming(u, x)
                                           /\ Protocol[x] = "INHERIT" => (WaitsFor(u, x)' <=> WaitsFor(u, x))
    BY <2>1, <2>2, <1>5, <1>9
  <2>4. MutexTokens'
    BY <1>1, <1>2, <1>9, <2>3, TokenStays DEF MutexTokens
  <2>5. tAvail' \in [Mutexes -> 0 .. 1] /\ tAvail' = tAvail /\ tOutcome' \in [Pthreads -> Mu!Sem!Outcomes] /\ tOutcome' = tOutcome
    BY <1>1, <1>9 DEF MutexTyped
  <2> QED BY <1>2, <1>9, <2>1, <2>3, <2>4, <2>5, PendEnds DEF Setting
<1> QED BY <1>3, <1>6, <1>7, <1>8, <1>9 DEF Mu!Pend, Mu!semVars


\* A thread is taken out of a list, by either of the names the models have for that.
LEMMA MutexTakesOut ==
  ASSUME NEW q \in Seq(Pthreads), IsInjective(q), NEW x
  PROVE  /\ Mu!RemoveFirst(q, x) \in Seq(Pthreads) /\ IsInjective(Mu!RemoveFirst(q, x))
         /\ \A y : Contains(Mu!RemoveFirst(q, x), y) <=> Contains(q, y) /\ y # x
         /\ q = <<>> => Mu!RemoveFirst(q, x) = <<>>
         /\ Mu!Sem!RemoveFirst(q, x) = Mu!RemoveFirst(q, x)
<1> DEFINE z == RemoveFirst(q, x)
<1>1. Mu!RemoveFirst(q, x) = z
  BY DEF Mu!RemoveFirst, RemoveFirst, Mu!RemoveAt, RemoveAt, Mu!SelectInSeq, SelectInSeq, Mu!Min, Min
<1>2. Mu!Sem!RemoveFirst(q, x) = z
  BY DEF Mu!Sem!RemoveFirst, RemoveFirst, Mu!Sem!RemoveAt, RemoveAt, Mu!Sem!SelectInSeq, SelectInSeq, Mu!Sem!Min, Min
<1>3. /\ z \in Seq(Pthreads) /\ IsInjective(z) /\ \A y : Contains(z, y) <=> Contains(q, y) /\ y # x
      /\ z # <<>> => q # <<>>
  BY TakenOut
<1> HIDE DEF z
<1> QED BY <1>1, <1>2, <1>3

LEMMA TakenPreserves ==
  ASSUME MutexAssumption, MutexIInv, NEW t \in Pthreads, Mu!Taken(t)
  PROVE  MutexIInv'
<1>1. MutexTyped /\ PendsOK /\ MutexTokens /\ MutexLists /\ CeilingsOK /\ Mu!OwnPriority
  BY DEF MutexIInv
<1>2. call[t].at = "taken" /\ tOutcome[t] = "idle"
  BY MutexUnblocked DEF Mu!Taken
<1>3. PICK m \in Mutexes : m = call[t].on
  BY <1>1, <1>2, MutexTypes
<1> DEFINE w == Mu!RemoveFirst(waitList[m], t)
<1>4. /\ Mu!Own(t, m, w) /\ Mu!Acquired(t, call[t])
      /\ UNCHANGED <<tAvail, tWaiting, tOutcome, priority, app>>
  <2>1. Mu!Without(t, m)[m] = w
    BY <1>1 DEF Mu!Without, MutexTyped
  <2> QED BY <2>1, <1>3 DEF Mu!Taken, Mu!semVars
<1>5. /\ w \in Seq(Pthreads) /\ IsInjective(w) /\ (\A y : Contains(w, y) <=> Contains(waitList[m], y) /\ y # t)
      /\ waitList[m] = <<>> => w = <<>>
  <2>1. waitList[m] \in Seq(Pthreads) /\ IsInjective(waitList[m])
    BY <1>1, MutexTypes DEF MutexLists
  <2> QED BY <2>1, MutexTakesOut
<1> HIDE DEF w
<1>6. Coming(t, m)
  BY <1>2, <1>3 DEF Coming
<1>7. tAvail[m] = 0 /\ owner[m] = {} /\ \A u \in Pthreads : Coming(u, m) <=> u = t
  BY <1>1, <1>6 DEF MutexTokens, TokenOK
<1>8. /\ owner' \in [Mutexes -> SUBSET Pthreads] /\ lockCnt' \in [Mutexes -> Nat] /\ waitList' \in [Mutexes -> Seq(Pthreads)]
      /\ prioceiling' \in [Mutexes -> Mu!Level \cup {0}] /\ runPri' \in [Pthreads -> Mu!Level]
      /\ owner'[m] = {t} /\ lockCnt'[m] = 1 /\ waitList'[m] = w
      /\ \A x \in Mutexes : x # m => owner'[x] = owner[x] /\ lockCnt'[x] = lockCnt[x] /\ waitList'[x] = waitList[x]
      /\ Mu!OwnPriority'
  BY <1>4, <1>5, <1>7, OwnStep
<1>9. call[t] \in Mu!Calls
  BY <1>1, <1>2, MutexTypes
<1>10. /\ call' \in [Pthreads -> Mu!Calls \cup {Mu!User}] /\ \A u \in Pthreads : u # t => call'[u] = call[u]
       /\ call'[t].at \in {"user", "ceiling"}
       /\ call'[t].at = "ceiling" => call[t].ceiling # 0 /\ call'[t].on = m
  BY <1>1, <1>3, <1>4, <1>9, Acquires
<1>11. MutexTyped'
  BY <1>1, <1>4, <1>8, <1>10 DEF MutexTyped
<1>12. PendsOK'
  BY <1>1, <1>2, <1>4, <1>10, PendsStay
<1>13. \A x \in Mutexes : ~Coming(t, x)' /\ ~WaitsFor(t, x)'
  BY <1>10 DEF Coming, WaitsFor
<1>14. \A x \in Mutexes : x # m => ~Coming(t, x) /\ ~WaitsFor(t, x)
  BY <1>3 DEF Coming, WaitsFor
<1>15. \A x \in Mutexes, u \in Pthreads : u # t => (Coming(u, x)' <=> Coming(u, x)) /\ (WaitsFor(u, x)' <=> WaitsFor(u, x))
  BY <1>4, <1>10 DEF Coming, WaitsFor
<1>16. ASSUME NEW x \in Mutexes PROVE TokenOK(x)'
  <2>1. CASE x = m
    <3>1. tAvail'[m] = 0 /\ owner'[m] = {t} /\ {t} # {} /\ lockCnt'[m] = 1
      BY <1>4, <1>7, <1>8
    <3>2. \A u \in Pthreads : ~Coming(u, m)'
      BY <1>7, <1>13, <1>15
    <3> QED BY <2>1, <3>1, <3>2 DEF TokenOK
  <2>2. CASE x # m
    <3>1. \A u \in Pthreads : Coming(u, x)' <=> Coming(u, x)
      BY <2>2, <1>13, <1>14, <1>15
    <3> QED BY <2>2, <3>1, <1>1, <1>4, <1>8, TokenStays DEF MutexTokens
  <2> QED BY <2>1, <2>2
<1>17. MutexLists'
  <2>1. ASSUME NEW x \in Mutexes
        PROVE  /\ IsInjective(waitList'[x])
               /\ Protocol[x] = "INHERIT" => \A u \in Pthreads : Contains(waitList'[x], u) <=> WaitsFor(u, x)'
               /\ Protocol[x] # "INHERIT" => waitList'[x] = <<>>
    <3>1. CASE x = m
      BY <3>1, <1>1, <1>5, <1>8, <1>13, <1>15 DEF MutexLists
    <3>2. CASE x # m
      BY <3>2, <1>1, <1>8, <1>13, <1>14, <1>15 DEF MutexLists
    <3> QED BY <3>1, <3>2
  <2> QED BY <2>1 DEF MutexLists
<1>18. CeilingsOK'
  <2>1. call[t].ceiling # 0 => Protocol[m] = "PROTECT"
    BY <1>1, <1>2, <1>3 DEF CeilingsOK, CallOK
  <2> QED BY <2>1, <1>1, <1>7, <1>8, <1>10, CeilingsStay DEF CallOK, Setting
<1> QED BY <1>8, <1>11, <1>12, <1>16, <1>17, <1>18 DEF MutexIInv, MutexTokens

LEMMA MutexTimedOutPreserves ==
  ASSUME MutexAssumption, MutexIInv, NEW t \in Pthreads, Mu!TimedOut(t)
  PROVE  MutexIInv'
<1>1. MutexTyped /\ PendsOK /\ MutexTokens /\ MutexLists /\ CeilingsOK /\ Mu!OwnPriority
  BY DEF MutexIInv
<1>2. call[t].at = "timedOut" /\ tOutcome[t] = "idle"
  BY MutexUnblocked DEF Mu!TimedOut
<1>3. PICK m \in Mutexes : m = call[t].on
  BY <1>1, <1>2, MutexTypes
<1>4. /\ UNCHANGED <<tAvail, tWaiting, tOutcome, owner, lockCnt, prioceiling, priority, runPri, app>>
      /\ IF Protocol[m] = "INHERIT" THEN waitList' = Mu!Without(t, m) /\ Mu!Goto(t, "reset")
         ELSE Mu!Return(t) /\ UNCHANGED waitList
  BY <1>3 DEF Mu!TimedOut, Mu!semVars
<1>5. /\ call' \in [Pthreads -> Mu!Calls \cup {Mu!User}] /\ \A u \in Pthreads : u # t => call'[u] = call[u]
      /\ call'[t].at = IF Protocol[m] = "INHERIT" THEN "reset" ELSE "user"
      /\ call'[t].at = "reset" => call'[t].on = m
  <2>1. CASE Protocol[m] = "INHERIT"
    <3>1. "reset" \in Mu!PCs /\ call[t].at # "user"
      BY <1>2 DEF Mu!PCs
    <3> QED BY <2>1, <3>1, <1>1, <1>3, <1>4, GoesOn
  <2>2. CASE Protocol[m] # "INHERIT"
    BY <2>2, <1>1, <1>4, MutexReturns
  <2> QED BY <2>1, <2>2
<1>6. /\ Mu!Without(t, m) \in [Mutexes -> Seq(Pthreads)] /\ \A x \in Mutexes : x # m => Mu!Without(t, m)[x] = waitList[x]
      /\ IsInjective(Mu!Without(t, m)[m])
      /\ \A y : Contains(Mu!Without(t, m)[m], y) <=> Contains(waitList[m], y) /\ y # t
  <2> DEFINE w == Mu!RemoveFirst(waitList[m], t)
  <2>1. waitList \in [Mutexes -> Seq(Pthreads)] /\ waitList[m] \in Seq(Pthreads) /\ IsInjective(waitList[m])
    BY <1>1, MutexTypes DEF MutexLists, MutexTyped
  <2>2. w \in Seq(Pthreads) /\ IsInjective(w) /\ \A y : Contains(w, y) <=> Contains(waitList[m], y) /\ y # t
    BY <2>1, MutexTakesOut
  <2>3. Mu!Without(t, m) = [waitList EXCEPT ![m] = w]
    BY DEF Mu!Without
  <2> HIDE DEF w
  <2> QED BY <2>1, <2>2, <2>3
<1>7. MutexTyped'
  <2>1. waitList' \in [Mutexes -> Seq(Pthreads)]
    BY <1>1, <1>4, <1>6 DEF MutexTyped
  <2> QED BY <2>1, <1>1, <1>4, <1>5 DEF MutexTyped
<1>8. PendsOK'
  BY <1>1, <1>2, <1>4, <1>5, PendsStay
<1>9. /\ \A x \in Mutexes : ~Coming(t, x)' /\ ~WaitsFor(t, x)' /\ ~Coming(t, x)
      /\ \A x \in Mutexes : x # m => ~WaitsFor(t, x)
  BY <1>2, <1>3, <1>5 DEF Coming, WaitsFor
<1>10. \A x \in Mutexes, u \in Pthreads : u # t => (Coming(u, x)' <=> Coming(u, x)) /\ (WaitsFor(u, x)' <=> WaitsFor(u, x))
  BY <1>4, <1>5 DEF Coming, WaitsFor
<1>11. MutexTokens'
  BY <1>1, <1>4, <1>9, <1>10, TokenStays DEF MutexTokens
<1>12. MutexLists'
  <2>1. CASE Protocol[m] = "INHERIT"
    <3>1. waitList' = Mu!Without(t, m)
      BY <2>1, <1>4
    <3>2. ASSUME NEW x \in Mutexes
          PROVE  /\ IsInjective(waitList'[x])
                 /\ Protocol[x] = "INHERIT" => \A u \in Pthreads : Contains(waitList'[x], u) <=> WaitsFor(u, x)'
                 /\ Protocol[x] # "INHERIT" => waitList'[x] = <<>>
      <4>1. CASE x = m
        BY <4>1, <2>1, <3>1, <1>1, <1>6, <1>9, <1>10 DEF MutexLists
      <4>2. CASE x # m
        BY <4>2, <3>1, <1>1, <1>6, <1>9, <1>10 DEF MutexLists
      <4> QED BY <4>1, <4>2
    <3> QED BY <3>2 DEF MutexLists
  <2>2. CASE Protocol[m] # "INHERIT"
    BY <2>2, <1>1, <1>4, <1>9, <1>10, MutexListsStay
  <2> QED BY <2>1, <2>2
<1>13. CeilingsOK'
  BY <1>1, <1>4, <1>5, CeilingsStay DEF CallOK, Setting
<1>14. Mu!OwnPriority'
  <2>1. \A u \in Pthreads : Mu!mutexList(u)' = Mu!mutexList(u)
    BY <1>4 DEF Mu!mutexList, Mu!Owned
  <2> QED BY <2>1, <1>1, <1>4, PriorityStays
<1> QED BY <1>7, <1>8, <1>11, <1>12, <1>13, <1>14 DEF MutexIInv


LEMMA ResetPreserves ==
  ASSUME MutexAssumption, MutexIInv, NEW t \in Pthreads, Mu!resetInheritPriority(t)
  PROVE  MutexIInv'
<1>1. MutexTyped /\ PendsOK /\ MutexTokens /\ MutexLists /\ CeilingsOK /\ Mu!OwnPriority
  BY DEF MutexIInv
<1>2. /\ call[t].at = "reset" /\ tOutcome[t] = "idle" /\ \A x \in Mutexes : ~WaitsFor(t, x) /\ ~Coming(t, x)
  BY MutexUnblocked DEF Mu!resetInheritPriority
<1>3. PICK m \in Inherits : m = call[t].on
  BY <1>1, <1>2, MutexTypes DEF CeilingsOK, CallOK, Inherits
<1>4. UNCHANGED <<tAvail, tWaiting, tOutcome, owner, lockCnt, waitList, priority, app>>
  BY DEF Mu!resetInheritPriority, Mu!semVars
<1>5. /\ runPri' \in [Pthreads -> Mu!Level] /\ prioceiling' \in [Mutexes -> Mu!Level \cup {0}]
      /\ \A u \in Pthreads : Mu!mutexList(u) = {} => runPri'[u] = runPri[u]
  BY <1>1, <1>3, ResetInRange
<1>6. /\ call' \in [Pthreads -> Mu!Calls \cup {Mu!User}] /\ \A u \in Pthreads : u # t => call'[u] = call[u]
      /\ call'[t].at \in {"user", "reset"} /\ (call'[t].at = "reset" => call'[t].on \in Inherits)
  <2>1. CASE Mu!Return(t)
    BY <2>1, <1>1, MutexReturns
  <2>2. ASSUME NEW o, NEW n \in Mu!blockedMutex(o), call' = [call EXCEPT ![t].on = n]
        PROVE  /\ call' \in [Pthreads -> Mu!Calls \cup {Mu!User}] /\ \A u \in Pthreads : u # t => call'[u] = call[u]
               /\ call'[t].at = "reset" /\ call'[t].on \in Inherits
    <3> DEFINE c == [call[t] EXCEPT !.on = n]
    <3>1. call[t] \in Mu!Calls /\ n \in Inherits
      BY <1>1, <1>2, BlockedOnInherits, MutexTypes
    <3>2. c \in Mu!Calls /\ c.at = "reset" /\ c.on = n
      BY <3>1, <1>2 DEF Mu!Calls, Inherits
    <3>3. call' = [call EXCEPT ![t] = c]
      BY <2>2
    <3> HIDE DEF c
    <3> QED BY <3>1, <3>2, <3>3, <1>1 DEF MutexTyped
  <2> QED BY <2>1, <2>2, <1>3, ResetTurn
<1>7. MutexTyped'
  BY <1>1, <1>4, <1>5, <1>6 DEF MutexTyped
<1>8. PendsOK'
  BY <1>1, <1>2, <1>4, <1>6, PendsStay
<1>9. \A x \in Mutexes : ~Coming(t, x)' /\ ~WaitsFor(t, x)'
  BY <1>6 DEF Coming, WaitsFor
<1>10. MutexTokens' /\ MutexLists'
  BY <1>1, <1>2, <1>4, <1>6, <1>9, OneMoves, TokenStays, MutexListsStay DEF MutexTokens
<1>11. CeilingsOK'
  BY <1>1, <1>4, <1>6, CeilingsStay DEF CallOK, Setting, Inherits
<1>12. Mu!OwnPriority'
  <2>1. \A u \in Pthreads : Mu!mutexList(u)' = Mu!mutexList(u)
    BY <1>4 DEF Mu!mutexList, Mu!Owned
  <2> QED BY <2>1, <1>1, <1>4, <1>5, PriorityStays
<1> QED BY <1>7, <1>8, <1>10, <1>11, <1>12 DEF MutexIInv

\* A step of pthread_mutex_setprioceiling with the mutex locked: it sets the ceiling
\* of that mutex, and the priority of the thread that has it.
CeilingStep(t, m, l) ==
  /\ call[t].at \in {"ceiling", "getPri", "setPri"} /\ tOutcome[t] = "idle" /\ \A x \in Mutexes : ~WaitsFor(t, x) /\ ~Coming(t, x)
  /\ call[t].on = m /\ owner[m] = {t} /\ Protocol[m] = "PROTECT"
  /\ UNCHANGED <<tAvail, tWaiting, tOutcome, owner, lockCnt, waitList, priority, app>>
  /\ prioceiling' \in [Mutexes -> Mu!Level \cup {0}] /\ \A x \in Mutexes : x # m => prioceiling'[x] = prioceiling[x]
  /\ runPri' \in [Pthreads -> Mu!Level] /\ \A u \in Pthreads : u # t => runPri'[u] = runPri[u]
  /\ call' \in [Pthreads -> Mu!Calls \cup {Mu!User}] /\ \A u \in Pthreads : u # t => call'[u] = call[u]
  /\ call'[t].at = l /\ call'[t].on = m /\ (l = "setPri" => call'[t].ceiling # 0)

LEMMA CeilingSteps ==
  ASSUME MutexAssumption, MutexIInv, NEW t \in Pthreads, Mu!WriteCeiling(t) \/ Mu!GetPri(t) \/ Mu!SetPri(t)
  PROVE  \E m \in Mutexes, l \in {"getPri", "setPri", "unlock"} : CeilingStep(t, m, l)
<1>1. MutexTyped /\ CeilingsOK
  BY DEF MutexIInv
<1>2. /\ call[t].at \in {"ceiling", "getPri", "setPri"} /\ tOutcome[t] = "idle" /\ \A x \in Mutexes : ~WaitsFor(t, x) /\ ~Coming(t, x)
      /\ Mu!WriteCeiling(t) => call[t].at = "ceiling"
      /\ Mu!GetPri(t) => call[t].at = "getPri"
      /\ Mu!SetPri(t) => call[t].at = "setPri"
  <2>1. PICK l \in {"ceiling", "getPri", "setPri"} :
          /\ Mu!At(t, l)
          /\ Mu!WriteCeiling(t) => call[t].at = "ceiling"
          /\ Mu!GetPri(t) => call[t].at = "getPri"
          /\ Mu!SetPri(t) => call[t].at = "setPri"
    BY DEF Mu!WriteCeiling, Mu!GetPri, Mu!SetPri, Mu!At
  <2> QED BY <2>1, MutexUnblocked
<1>3. PICK m \in Mutexes : m = call[t].on
  BY <1>1, <1>2, MutexTypes
<1>4. owner[m] = {t} /\ Protocol[m] = "PROTECT" /\ (call[t].at = "setPri" => call[t].ceiling # 0)
  BY <1>1, <1>2, <1>3 DEF CeilingsOK, CallOK, Setting
<1> DEFINE c == call[t].ceiling
<1>5. call[t] \in Mu!Calls /\ c \in Mu!Level \cup {0} /\ (c # 0 => c \in Mu!Level) /\ {"getPri", "setPri", "unlock"} \subseteq Mu!PCs
  <2>1. call[t] \in Mu!Calls
    BY <1>1, <1>2, MutexTypes
  <2> QED BY <2>1 DEF Mu!Calls, Mu!PCs
<1>6. /\ runPri \in [Pthreads -> Mu!Level] /\ prioceiling \in [Mutexes -> Mu!Level \cup {0}] /\ runPri[t] \in Mu!Level
  BY <1>1 DEF MutexTyped
<1>7. UNCHANGED <<tAvail, tWaiting, tOutcome, owner, lockCnt, waitList, priority, app>>
  BY DEF Mu!WriteCeiling, Mu!GetPri, Mu!SetPri, Mu!semVars, Mu!mutexVars
<1>8. /\ prioceiling' \in [Mutexes -> Mu!Level \cup {0}] /\ \A x \in Mutexes : x # m => prioceiling'[x] = prioceiling[x]
      /\ runPri' \in [Pthreads -> Mu!Level] /\ \A u \in Pthreads : u # t => runPri'[u] = runPri[u]
  <2>1. CASE Mu!WriteCeiling(t)
    <3>1. prioceiling' = [prioceiling EXCEPT ![m] = c] /\ runPri' = runPri
      BY <2>1, <1>3 DEF Mu!WriteCeiling
    <3> HIDE DEF c
    <3> QED BY <3>1, <1>5, <1>6
  <2>2. CASE Mu!GetPri(t)
    BY <2>2, <1>6 DEF Mu!GetPri, Mu!mutexVars
  <2>3. CASE Mu!SetPri(t)
    <3>1. prioceiling' = prioceiling /\ runPri' = [runPri EXCEPT ![t] = c] /\ c \in Mu!Level
      BY <2>3, <1>2, <1>4, <1>5 DEF Mu!SetPri, Mu!mutexVars
    <3> HIDE DEF c
    <3> QED BY <3>1, <1>6
  <2> QED BY <2>1, <2>2, <2>3
<1>9. PICK l \in {"getPri", "setPri", "unlock"} : Mu!Goto(t, l) /\ (l = "setPri" => c # 0)
  <2>1. runPri[t] < c => c # 0
    BY <1>6 DEF Mu!Level, MutexAssumption
  <2> QED BY <2>1 DEF Mu!WriteCeiling, Mu!GetPri, Mu!SetPri
<1>10. /\ call' \in [Pthreads -> Mu!Calls \cup {Mu!User}] /\ \A u \in Pthreads : u # t => call'[u] = call[u]
       /\ call'[t].at = l /\ call'[t].on = m /\ call'[t].ceiling = c
  BY <1>1, <1>2, <1>3, <1>5, <1>9, GoesOn
<1> QED BY <1>2, <1>3, <1>4, <1>7, <1>8, <1>9, <1>10 DEF CeilingStep

LEMMA CeilingStepPreserves ==
  ASSUME MutexAssumption, MutexIInv, NEW t \in Pthreads, Mu!WriteCeiling(t) \/ Mu!GetPri(t) \/ Mu!SetPri(t)
  PROVE  MutexIInv'
<1>1. MutexTyped /\ PendsOK /\ MutexTokens /\ MutexLists /\ CeilingsOK /\ Mu!OwnPriority
  BY DEF MutexIInv
<1>2. PICK m \in Mutexes, l \in {"getPri", "setPri", "unlock"} : CeilingStep(t, m, l)
  BY CeilingSteps
<1>3. /\ UNCHANGED <<tAvail, tWaiting, tOutcome, owner, lockCnt, waitList, priority, app>>
      /\ tOutcome[t] = "idle" /\ \A x \in Mutexes : ~WaitsFor(t, x) /\ ~Coming(t, x)
      /\ \A u \in Pthreads : u # t => call'[u] = call[u]
  BY <1>2 DEF CeilingStep
<1>4. MutexTyped'
  BY <1>1, <1>2 DEF MutexTyped, CeilingStep
<1>5. PendsOK'
  BY <1>1, <1>3, PendsStay
<1>6. \A x \in Mutexes : ~Coming(t, x)' /\ ~WaitsFor(t, x)'
  BY <1>2 DEF Coming, WaitsFor, CeilingStep
<1>7. MutexTokens' /\ MutexLists'
  BY <1>1, <1>3, <1>6, OneMoves, TokenStays, MutexListsStay DEF MutexTokens
<1>8. CeilingsOK'
  <2>1. /\ call'[t].at \in Setting => owner'[call'[t].on] = {t} /\ Protocol[call'[t].on] = "PROTECT"
        /\ CallOK(call'[t])
    BY <1>2 DEF CeilingStep, CallOK
  <2> QED BY <2>1, <1>1, <1>3, CeilingsStay
<1>9. Mu!OwnPriority'
  <2>1. ASSUME NEW u \in Pthreads, Mu!mutexList(u)' = {}
        PROVE  Mu!mutexList(u) = {} /\ runPri'[u] = runPri[u] /\ priority'[u] = priority[u]
    <3>1. Mu!mutexList(u) = {}
      BY <1>3, <2>1 DEF Mu!mutexList, Mu!Owned
    <3>2. u # t
      BY <1>2, <3>1, Listing DEF CeilingStep
    <3> QED BY <3>1, <3>2, <1>2 DEF CeilingStep
  <2> QED BY <2>1, <1>1, PriorityStays
<1> QED BY <1>4, <1>5, <1>7, <1>8, <1>9 DEF MutexIInv

LEMMA MutexTimeOutPreserves ==
  ASSUME MutexAssumption, MutexIInv, NEW t \in Pthreads, Mu!TimeOut(t)
  PROVE  MutexIInv'
<1>1. MutexTyped /\ PendsOK /\ MutexTokens /\ MutexLists /\ CeilingsOK /\ Mu!OwnPriority
  BY DEF MutexIInv
<1>2. /\ tOutcome[t] = "timed" /\ tOutcome' = [tOutcome EXCEPT ![t] = "timedout"]
      /\ UNCHANGED <<tAvail, owner, lockCnt, prioceiling, waitList, priority, runPri, call, app>>
      /\ tWaiting' = [x \in Mutexes |-> Mu!Sem!RemoveFirst(tWaiting[x], t)]
  BY DEF Mu!TimeOut, Mu!Sem!TimeOut, Mu!Sem!Without, Mu!mutexVars
<1>3. ASSUME NEW x \in Mutexes
      PROVE  /\ tWaiting'[x] \in Seq(Pthreads) /\ IsInjective(tWaiting'[x])
             /\ \A y : Contains(tWaiting'[x], y) <=> Contains(tWaiting[x], y) /\ y # t
             /\ tWaiting[x] = <<>> => tWaiting'[x] = <<>>
  <2>1. tWaiting[x] \in Seq(Pthreads) /\ IsInjective(tWaiting[x])
    BY <1>1, MutexTypes DEF PendsOK
  <2>2. tWaiting'[x] = Mu!RemoveFirst(tWaiting[x], t)
    BY <1>2, <2>1, MutexTakesOut
  <2> QED BY <2>1, <2>2, MutexTakesOut
<1>4. tWaiting' \in [Mutexes -> Seq(Pthreads)]
  <2> DEFINE W == [x \in Mutexes |-> Mu!Sem!RemoveFirst(tWaiting[x], t)]
  <2>1. tWaiting' = W /\ \A x \in Mutexes : W[x] \in Seq(Pthreads)
    BY <1>2, <1>3
  <2>2. W = [x \in Mutexes |-> W[x]]
    OBVIOUS
  <2> HIDE DEF W
  <2> QED BY <2>1, <2>2
<1>5. /\ tOutcome' \in [Pthreads -> Mu!Sem!Outcomes] /\ tOutcome'[t] = "timedout"
      /\ \A u \in Pthreads : u # t => tOutcome'[u] = tOutcome[u]
  BY <1>1, <1>2 DEF MutexTyped, Mu!Sem!Outcomes
<1>6. MutexTyped'
  BY <1>1, <1>2, <1>4, <1>5 DEF MutexTyped
<1>7. PendsOK'
  <2>1. call' = call /\ tAvail' = tAvail
    BY <1>2
  <2>2. ASSUME NEW u \in Pthreads
        PROVE  /\ tOutcome'[u] \in {"idle", "timed", "forever", "granted", "timedout"}
               /\ tOutcome'[u] # "idle" => call[u].at = "pend"
    <3>1. CASE u = t
      BY <3>1, <1>1, <1>2, <1>5 DEF PendsOK
    <3>2. CASE u # t
      BY <3>2, <1>1, <1>5 DEF PendsOK
    <3> QED BY <3>1, <3>2
  <2>3. ASSUME NEW x \in Mutexes
        PROVE  /\ IsInjective(tWaiting'[x]) /\ (tWaiting'[x] # <<>> => tAvail[x] = 0)
               /\ \A u \in Pthreads : Contains(tWaiting'[x], u) <=> tOutcome'[u] \in {"timed", "forever"} /\ call[u].on = x
    <3>1. \A u \in Pthreads : Contains(tWaiting[x], u) <=> tOutcome[u] \in {"timed", "forever"} /\ call[u].on = x
      BY <1>1 DEF PendsOK
    <3>2. IsInjective(tWaiting'[x]) /\ (tWaiting'[x] # <<>> => tAvail[x] = 0)
      BY <1>1, <1>3 DEF PendsOK
    <3> QED BY <3>1, <3>2, <1>3, <1>5
  <2> QED BY <2>1, <2>2, <2>3 DEF PendsOK
<1>8. \A x \in Mutexes, u \in Pthreads : (Coming(u, x)' <=> Coming(u, x)) /\ (WaitsFor(u, x)' <=> WaitsFor(u, x))
  BY <1>2, <1>5 DEF Coming, WaitsFor
<1>9. MutexTokens' /\ MutexLists'
  BY <1>1, <1>2, <1>8, TokenStays, MutexListsStay DEF MutexTokens
<1>10. CeilingsOK'
  BY <1>1, <1>2 DEF CeilingsOK
<1>11. Mu!OwnPriority'
  BY <1>1, <1>2, PriorityStays DEF Mu!mutexList, Mu!Owned
<1> QED BY <1>6, <1>7, <1>9, <1>10, <1>11 DEF MutexIInv

LEMMA SetSchedParamPreserves ==
  ASSUME MutexAssumption, MutexIInv, NEW t \in Pthreads, NEW p \in Mu!Level, Mu!SetSchedParam(t, p)
  PROVE  MutexIInv'
<1>1. MutexTyped /\ PendsOK /\ MutexTokens /\ MutexLists /\ CeilingsOK /\ Mu!OwnPriority
  BY DEF MutexIInv
<1> DEFINE floor == Mu!Max({0} \cup {prioceiling[m] : m \in Mu!mutexList(t)})
<1>2. /\ priority' = [priority EXCEPT ![t] = p] /\ runPri' = [runPri EXCEPT ![t] = IF p > floor THEN p ELSE @]
      /\ UNCHANGED <<tAvail, tWaiting, tOutcome, owner, lockCnt, prioceiling, waitList, call, app>>
  BY DEF Mu!SetSchedParam, Mu!semVars, Mu!mutexVars
<1>3. Mu!mutexList(t) = {} => p > floor
  <2>1. {0} \in SUBSET (Mu!Level \cup {0}) /\ {0} # {}
    OBVIOUS
  <2>2. Mu!Max({0}) = 0
    BY <2>1, Levels
  <2>3. p > 0
    BY DEF Mu!Level, MutexAssumption
  <2>4. Mu!mutexList(t) = {} => {0} \cup {prioceiling[m] : m \in Mu!mutexList(t)} = {0}
    OBVIOUS
  <2> QED BY <2>2, <2>3, <2>4
<1> HIDE DEF floor
<1>4. MutexTyped'
  BY <1>1, <1>2 DEF MutexTyped
<1>5. \A x \in Mutexes, u \in Pthreads : (Coming(u, x)' <=> Coming(u, x)) /\ (WaitsFor(u, x)' <=> WaitsFor(u, x))
  BY <1>2 DEF Coming, WaitsFor
<1>6. PendsOK' /\ MutexTokens' /\ MutexLists' /\ CeilingsOK'
  <2>1. PendsOK'
    BY <1>1, <1>2, PendsStay
  <2>2. MutexTokens' /\ MutexLists'
    BY <1>1, <1>2, <1>5, TokenStays, MutexListsStay DEF MutexTokens
  <2>3. CeilingsOK'
    BY <1>1, <1>2 DEF CeilingsOK
  <2> QED BY <2>1, <2>2, <2>3
<1>7. Mu!OwnPriority'
  <2>1. \A u \in Pthreads : Mu!mutexList(u)' = Mu!mutexList(u)
    BY <1>2 DEF Mu!mutexList, Mu!Owned
  <2>2. ASSUME NEW u \in Pthreads, Mu!mutexList(u)' = {} PROVE runPri'[u] = priority'[u]
    <3>1. Mu!mutexList(u) = {} /\ runPri[u] = priority[u]
      BY <2>1, <2>2, <1>1 DEF Mu!OwnPriority
    <3>2. CASE u = t
      BY <3>1, <3>2, <1>1, <1>2, <1>3 DEF MutexTyped
    <3>3. CASE u # t
      BY <3>1, <3>3, <1>1, <1>2 DEF MutexTyped
    <3> QED BY <3>2, <3>3
  <2> QED BY <2>2 DEF Mu!OwnPriority
<1> QED BY <1>4, <1>6, <1>7 DEF MutexIInv


-----------------------------------------------------------------------------
(* Unlocking.                                                              *)

\* The post of an unlock: the token is there again, or on its way to the waiter h.
LEMMA UnlockPosts ==
  ASSUME MutexAssumption, MutexIInv, NEW t \in Pthreads, NEW m \in Mutexes, owner[m] = {t}, tOutcome[t] = "idle",
         Mu!Sem!Post(m), \A u \in Pthreads : u # t => call'[u] = call[u]
  PROVE  /\ tAvail' \in [Mutexes -> 0 .. 1] /\ tWaiting' \in [Mutexes -> Seq(Pthreads)] /\ tOutcome' \in [Pthreads -> Mu!Sem!Outcomes]
         /\ PendsOK' /\ tOutcome'[t] = "idle" /\ \A x \in Mutexes : x # m => tAvail'[x] = tAvail[x]
         /\ \/ tAvail'[m] = 1 /\ tOutcome' = tOutcome
            \/ /\ tAvail'[m] = 0
               /\ \E h \in Pthreads : /\ h # t /\ call[h].at = "pend" /\ call[h].on = m /\ tOutcome[h] \in {"timed", "forever"}
                                      /\ tOutcome'[h] = "granted" /\ \A u \in Pthreads : u # h => tOutcome'[u] = tOutcome[u]
<1>1. MutexTyped /\ PendsOK /\ MutexTokens
  BY DEF MutexIInv
<1>2. tAvail[m] = 0
  <2>1. TokenOK(m) /\ {t} # {}
    BY <1>1 DEF MutexTokens
  <2> QED BY <2>1 DEF TokenOK
<1>3. CASE tWaiting[m] = <<>>
  <2>1. tAvail' = [tAvail EXCEPT ![m] = 1] /\ tWaiting' = tWaiting /\ tOutcome' = tOutcome
    BY <1>3 DEF Mu!Sem!Post
  <2>2. tAvail' \in [Mutexes -> 0 .. 1] /\ tAvail'[m] = 1 /\ \A x \in Mutexes : x # m => tAvail'[x] = tAvail[x]
    BY <2>1, <1>1 DEF MutexTyped
  <2>3. PendsOK'
    <3>1. ASSUME NEW u \in Pthreads
          PROVE  /\ tOutcome[u] \in {"idle", "timed", "forever", "granted", "timedout"}
                 /\ tOutcome[u] # "idle" => call'[u].at = "pend"
      BY <1>1 DEF PendsOK
    <3>2. ASSUME NEW x \in Mutexes
          PROVE  /\ IsInjective(tWaiting[x]) /\ (tWaiting[x] # <<>> => tAvail'[x] = 0)
                 /\ \A u \in Pthreads : Contains(tWaiting[x], u) <=> tOutcome[u] \in {"timed", "forever"} /\ call'[u].on = x
      <4>1. \A u \in Pthreads : Contains(tWaiting[x], u) <=> tOutcome[u] \in {"timed", "forever"} /\ call'[u].on = x
        BY <1>1 DEF PendsOK
      <4>2. IsInjective(tWaiting[x]) /\ (tWaiting[x] # <<>> => tAvail'[x] = 0)
        BY <1>1, <1>3, <2>2 DEF PendsOK
      <4> QED BY <4>1, <4>2
    <3> QED BY <2>1, <3>1, <3>2 DEF PendsOK
  <2> QED BY <1>1, <2>1, <2>2, <2>3 DEF MutexTyped
<1>4. CASE tWaiting[m] # <<>>
  <2> DEFINE h == Head(tWaiting[m])
             w == Tail(tWaiting[m])
  <2>1. tWaiting' = [tWaiting EXCEPT ![m] = w] /\ tOutcome' = [tOutcome EXCEPT ![h] = "granted"] /\ tAvail' = tAvail
    BY <1>4 DEF Mu!Sem!Post
  <2>2. tWaiting[m] \in Seq(Pthreads) /\ IsInjective(tWaiting[m])
    BY <1>1, MutexTypes DEF PendsOK
  <2>3. /\ w \in Seq(Pthreads) /\ h \in Pthreads /\ Contains(tWaiting[m], h) /\ IsInjective(w) /\ ~Contains(w, h)
        /\ \A y : Contains(tWaiting[m], y) <=> Contains(w, y) \/ y = h
    BY <1>4, <2>2, Beheaded
  <2> HIDE DEF h, w
  <2>4. tOutcome[h] \in {"timed", "forever"} /\ call[h].at = "pend" /\ call[h].on = m /\ h # t
    BY <2>3, <1>1 DEF PendsOK
  <2>5. /\ tWaiting' \in [Mutexes -> Seq(Pthreads)] /\ tWaiting'[m] = w /\ \A x \in Mutexes : x # m => tWaiting'[x] = tWaiting[x]
    BY <2>1, <2>3, <1>1 DEF MutexTyped
  <2>6. /\ tOutcome' \in [Pthreads -> Mu!Sem!Outcomes] /\ tOutcome'[h] = "granted"
        /\ \A u \in Pthreads : u # h => tOutcome'[u] = tOutcome[u]
    BY <2>1, <2>3, <1>1 DEF MutexTyped, Mu!Sem!Outcomes
  <2>7. tAvail' \in [Mutexes -> 0 .. 1]
    BY <2>1, <1>1 DEF MutexTyped
  <2>8. PendsOK'
    <3>1. ASSUME NEW u \in Pthreads
          PROVE  /\ tOutcome'[u] \in {"idle", "timed", "forever", "granted", "timedout"}
                 /\ tOutcome'[u] # "idle" => call'[u].at = "pend"
      <4>1. CASE u = h
        BY <4>1, <2>4, <2>6
      <4>2. CASE u # h
        BY <4>2, <2>6, <1>1 DEF PendsOK
      <4> QED BY <4>1, <4>2
    <3>2. ASSUME NEW x \in Mutexes
          PROVE  /\ IsInjective(tWaiting'[x]) /\ (tWaiting'[x] # <<>> => tAvail[x] = 0)
                 /\ \A u \in Pthreads : Contains(tWaiting'[x], u) <=> tOutcome'[u] \in {"timed", "forever"} /\ call'[u].on = x
      <4>1. \A u \in Pthreads : Contains(tWaiting[x], u) <=> tOutcome[u] \in {"timed", "forever"} /\ call'[u].on = x
        BY <1>1 DEF PendsOK
      <4>2. CASE x = m
        <5>1. \A u \in Pthreads : Contains(w, u) <=> tOutcome'[u] \in {"timed", "forever"} /\ call'[u].on = m
          BY <4>1, <4>2, <2>3, <2>6
        <5> QED BY <4>2, <5>1, <2>3, <2>5, <1>2
      <4>3. CASE x # m
        <5>1. \A u \in Pthreads : Contains(tWaiting[x], u) <=> tOutcome'[u] \in {"timed", "forever"} /\ call'[u].on = x
          BY <4>1, <4>3, <2>4, <2>6
        <5> QED BY <4>3, <5>1, <2>5, <1>1 DEF PendsOK
      <4> QED BY <4>2, <4>3
    <3> QED BY <2>1, <3>1, <3>2 DEF PendsOK
  <2> QED BY <1>2, <2>1, <2>3, <2>4, <2>5, <2>6, <2>7, <2>8
<1> QED BY <1>3, <1>4

LEMMA MutexUnlockPreserves ==
  ASSUME MutexAssumption, MutexIInv, NEW t \in Pthreads, NEW m \in Mutexes, Mu!Unlock(t, m)
  PROVE  MutexIInv'
<1>1. MutexTyped /\ PendsOK /\ MutexTokens /\ MutexLists /\ CeilingsOK /\ Mu!OwnPriority
  BY DEF MutexIInv
<1>2. /\ owner[m] = {t} /\ Mu!Return(t) /\ lockCnt' = [lockCnt EXCEPT ![m] = @ - 1]
      /\ UNCHANGED <<waitList, priority, app>>
  BY DEF Mu!Unlock, Mu!Owned
<1>3. call[t].at \in {"user", "unlock"} /\ tOutcome[t] = "idle" /\ \A x \in Mutexes : ~WaitsFor(t, x) /\ ~Coming(t, x)
  BY MutexUnblocked DEF Mu!Unlock
<1>4. /\ call' \in [Pthreads -> Mu!Calls \cup {Mu!User}] /\ \A u \in Pthreads : u # t => call'[u] = call[u]
      /\ call'[t].at = "user"
  BY <1>1, <1>2, MutexReturns
<1>5. tAvail[m] = 0 /\ lockCnt[m] \in Nat /\ lockCnt[m] # 0 /\ \A u \in Pthreads : ~Coming(u, m)
  <2>1. TokenOK(m) /\ {t} # {}
    BY <1>1 DEF MutexTokens
  <2> QED BY <2>1, <1>1, <1>2, MutexTypes DEF TokenOK
<1>6. lockCnt' \in [Mutexes -> Nat] /\ lockCnt'[m] = lockCnt[m] - 1 /\ \A x \in Mutexes : x # m => lockCnt'[x] = lockCnt[x]
  BY <1>1, <1>2, <1>5 DEF MutexTyped
<1>7. \A x \in Mutexes : ~WaitsFor(t, x)' /\ ~Coming(t, x)'
  BY <1>4 DEF WaitsFor, Coming
<1>8. MutexLists'
  <2>1. \A x \in Mutexes, u \in Pthreads : WaitsFor(u, x)' <=> WaitsFor(u, x)
    <3>1. \A x \in Mutexes, u \in Pthreads : u # t => (WaitsFor(u, x)' <=> WaitsFor(u, x))
      BY <1>4 DEF WaitsFor
    <3> QED BY <3>1, <1>3, <1>7
  <2> QED BY <2>1, <1>1, <1>2, MutexListsStay
<1>9. CASE lockCnt[m] > 1
  <2>1. UNCHANGED <<tAvail, tWaiting, tOutcome, owner, prioceiling, runPri>>
    BY <1>9 DEF Mu!Unlock, Mu!semVars
  <2>2. MutexTyped'
    BY <2>1, <1>1, <1>2, <1>4, <1>6 DEF MutexTyped
  <2>3. PendsOK'
    BY <2>1, <1>1, <1>3, <1>4, PendsStay
  <2>4. MutexTokens'
    <3>1. ASSUME NEW x \in Mutexes PROVE lockCnt'[x] = 0 <=> lockCnt[x] = 0
      BY <1>5, <1>6, <1>9
    <3>2. \A x \in Mutexes, u \in Pthreads : Coming(u, x)' <=> Coming(u, x)
      BY <2>1, <1>3, <1>4, <1>7, OneMoves
    <3> QED BY <3>1, <3>2, <2>1, <1>1, TokenStays DEF MutexTokens
  <2>5. CeilingsOK'
    BY <2>1, <1>1, <1>4, CeilingsStay DEF CallOK, Setting
  <2>6. Mu!OwnPriority'
    BY <2>1, <1>1, <1>2, PriorityStays DEF Mu!mutexList, Mu!Owned
  <2> QED BY <2>2, <2>3, <2>4, <2>5, <2>6, <1>8 DEF MutexIInv
<1>10. CASE ~(lockCnt[m] > 1)
  <2> DEFINE up == Mu!Adjusted(t, Mu!mutexList(t) \ {m}, prioceiling)
  <2>1. /\ owner' = [owner EXCEPT ![m] = {}]
        /\ prioceiling' = [prioceiling EXCEPT ![m] = IF Protocol[m] = "INHERIT" THEN 0 ELSE @]
        /\ runPri' = [runPri EXCEPT ![t] = IF Protocol[m] = "NONE" THEN @ ELSE up]
        /\ Mu!Sem!Post(m)
    BY <1>10 DEF Mu!Unlock, Mu!Released
  <2>2. up \in Mu!Level /\ (Mu!mutexList(t) \ {m} = {} => up = priority[t])
    <3>1. Mu!mutexList(t) \ {m} \in SUBSET Mutexes /\ prioceiling \in [Mutexes -> Mu!Level \cup {0}]
      BY <1>1 DEF Mu!mutexList, MutexTyped
    <3> QED BY <3>1, <1>1, AdjustedInRange
  <2> HIDE DEF up
  <2>3. /\ owner' \in [Mutexes -> SUBSET Pthreads] /\ owner'[m] = {} /\ \A x \in Mutexes : x # m => owner'[x] = owner[x]
    BY <2>1, <1>1 DEF MutexTyped
  <2>4. prioceiling' \in [Mutexes -> Mu!Level \cup {0}]
    BY <2>1, <1>1 DEF MutexTyped
  <2>5. /\ runPri' \in [Pthreads -> Mu!Level] /\ \A u \in Pthreads : u # t => runPri'[u] = runPri[u]
        /\ runPri'[t] = IF Protocol[m] = "NONE" THEN runPri[t] ELSE up
    BY <2>1, <2>2, <1>1 DEF MutexTyped
  <2>6. /\ tAvail' \in [Mutexes -> 0 .. 1] /\ tWaiting' \in [Mutexes -> Seq(Pthreads)] /\ tOutcome' \in [Pthreads -> Mu!Sem!Outcomes]
        /\ PendsOK' /\ tOutcome'[t] = "idle" /\ \A x \in Mutexes : x # m => tAvail'[x] = tAvail[x]
        /\ \/ tAvail'[m] = 1 /\ tOutcome' = tOutcome
           \/ /\ tAvail'[m] = 0
              /\ \E h \in Pthreads : /\ h # t /\ call[h].at = "pend" /\ call[h].on = m /\ tOutcome[h] \in {"timed", "forever"}
                                     /\ tOutcome'[h] = "granted" /\ \A u \in Pthreads : u # h => tOutcome'[u] = tOutcome[u]
    BY <2>1, <1>2, <1>3, <1>4, UnlockPosts
  <2>7. MutexTyped'
    BY <2>3, <2>4, <2>5, <2>6, <1>1, <1>2, <1>4, <1>6 DEF MutexTyped
  <2>8. lockCnt'[m] = 0
    BY <1>5, <1>6, <1>10
  <2>9. ASSUME NEW x \in Mutexes PROVE TokenOK(x)'
    <3>1. TokenOK(x)
      BY <1>1 DEF MutexTokens
    <3>2. CASE tAvail'[m] = 1 /\ tOutcome' = tOutcome
      <4>1. \A u \in Pthreads : Coming(u, x)' <=> Coming(u, x)
        BY <3>2, <1>3, <1>4, <1>7, OneMoves
      <4>2. CASE x = m
        BY <4>1, <4>2, <3>2, <2>3, <2>8, <1>5 DEF TokenOK
      <4>3. CASE x # m
        BY <4>1, <4>3, <3>1, <2>3, <2>6, <1>6, TokenStays
      <4> QED BY <4>2, <4>3
    <3>3. ASSUME NEW h \in Pthreads, h # t, call[h].at = "pend", call[h].on = m, tOutcome[h] \in {"timed", "forever"},
                 tOutcome'[h] = "granted", \A u \in Pthreads : u # h => tOutcome'[u] = tOutcome[u], tAvail'[m] = 0
          PROVE  TokenOK(x)'
      <4>1. Coming(h, m)' /\ \A y \in Mutexes : y # m => ~Coming(h, y)' /\ ~Coming(h, y)
        BY <3>3, <1>4 DEF Coming
      <4>2. \A u \in Pthreads, y \in Mutexes : u # h => (Coming(u, y)' <=> Coming(u, y))
        <5>1. \A u \in Pthreads, y \in Mutexes : u # h /\ u # t => (Coming(u, y)' <=> Coming(u, y))
          BY <3>3, <1>4 DEF Coming
        <5> QED BY <5>1, <1>3, <1>7
      <4>3. CASE x = m
        <5>1. \A u \in Pthreads : Coming(u, m)' <=> u = h
          BY <4>1, <4>2, <1>5
        <5> QED BY <4>3, <5>1, <3>3, <2>3, <2>8 DEF TokenOK
      <4>4. CASE x # m
        <5>1. \A u \in Pthreads : Coming(u, x)' <=> Coming(u, x)
          BY <4>1, <4>2, <4>4
        <5> QED BY <4>4, <5>1, <3>1, <2>3, <2>6, <1>6, TokenStays
      <4> QED BY <4>3, <4>4
    <3> QED BY <3>2, <3>3, <2>6
  <2>10. CeilingsOK'
    BY <2>3, <1>1, <1>2, <1>4, CeilingsStay DEF CallOK, Setting
  <2>11. Mu!OwnPriority'
    <3>1. ASSUME NEW u \in Pthreads PROVE Mu!mutexList(u)' = Mu!mutexList(u) \ {m}
      <4>1. Mu!mutexList(u)' = {x \in Mutexes : owner'[x] = {u} /\ Protocol[x] # "NONE"} /\ {u} # {}
        BY DEF Mu!mutexList, Mu!Owned
      <4> QED BY <4>1, <2>3, Listing
    <3>2. ASSUME NEW u \in Pthreads, Mu!mutexList(u)' = {} PROVE runPri'[u] = priority'[u]
      <4>1. CASE u # t
        <5>1. m \notin Mu!mutexList(u)
          <6>1. {u} # {t}
            BY <4>1
          <6> QED BY <6>1, <1>2, Listing
        <5>2. Mu!mutexList(u) = {}
          BY <5>1, <3>1, <3>2
        <5> QED BY <4>1, <5>2, <2>5, <1>1, <1>2 DEF Mu!OwnPriority
      <4>2. CASE u = t /\ Protocol[m] = "NONE"
        <5>1. Mu!mutexList(t) = {}
          BY <4>2, <3>1, <3>2, Listing
        <5> QED BY <4>2, <5>1, <2>5, <1>1, <1>2 DEF Mu!OwnPriority
      <4>3. CASE u = t /\ Protocol[m] # "NONE"
        <5>1. Mu!mutexList(t) \ {m} = {}
          BY <4>3, <3>1, <3>2
        <5> QED BY <4>3, <5>1, <2>2, <2>5, <1>2
      <4> QED BY <4>1, <4>2, <4>3
    <3> QED BY <3>2 DEF Mu!OwnPriority
  <2> QED BY <2>6, <2>7, <2>9, <2>10, <2>11, <1>8 DEF MutexIInv, MutexTokens
<1> QED BY <1>9, <1>10


-----------------------------------------------------------------------------
(* The invariant, and the theorems.                                        *)

LEMMA MutexInit == MutexAssumption /\ Mu!Init => MutexIInv
<1> SUFFICES ASSUME MutexAssumption, Mu!Init PROVE MutexIInv
  OBVIOUS
<1>1. /\ tAvail = [m \in Mutexes |-> 1] /\ tWaiting = [m \in Mutexes |-> <<>>] /\ tOutcome = [t \in Pthreads |-> "idle"]
      /\ owner = [m \in Mutexes |-> {}] /\ lockCnt = [m \in Mutexes |-> 0] /\ waitList = [m \in Mutexes |-> <<>>]
      /\ prioceiling = [m \in Mutexes |-> IF Protocol[m] = "PROTECT" THEN InitCeiling[m] ELSE 0]
      /\ priority = PthreadPri /\ runPri = PthreadPri /\ call = [t \in Pthreads |-> Mu!User] /\ app \in MutexApps
  BY DEF Mu!Init, Mu!Sem!Init
<1>2. <<>> \in Seq(Pthreads) /\ IsInjective(<<>>) /\ \A x : ~Contains(<<>>, x)
  <2>1. <<>> \in Seq(Pthreads) /\ IsInjective(<<>>)
    BY DEF IsInjective
  <2>2. \A x : ~Contains(<<>>, x)
    BY DEF Contains
  <2> QED BY <2>1, <2>2
<1>3. \A t \in Pthreads : call[t].at = "user"
  BY <1>1 DEF Mu!User
<1>4. MutexTyped
  <2>1. tAvail \in [Mutexes -> 0 .. 1] /\ tWaiting \in [Mutexes -> Seq(Pthreads)] /\ tOutcome \in [Pthreads -> Mu!Sem!Outcomes]
    BY <1>1, <1>2 DEF Mu!Sem!Outcomes
  <2>2. owner \in [Mutexes -> SUBSET Pthreads] /\ lockCnt \in [Mutexes -> Nat] /\ waitList \in [Mutexes -> Seq(Pthreads)]
    BY <1>1, <1>2
  <2>3. prioceiling \in [Mutexes -> Mu!Level \cup {0}] /\ priority \in [Pthreads -> Mu!Level] /\ runPri \in [Pthreads -> Mu!Level]
    BY <1>1 DEF MutexAssumption
  <2>4. call \in [Pthreads -> Mu!Calls \cup {Mu!User}]
    BY <1>1
  <2> QED BY <1>1, <2>1, <2>2, <2>3, <2>4 DEF MutexTyped
<1>5. PendsOK
  BY <1>1, <1>2 DEF PendsOK
<1>6. \A t \in Pthreads, m \in Mutexes : ~Coming(t, m) /\ ~WaitsFor(t, m)
  BY <1>3 DEF Coming, WaitsFor
<1>7. MutexTokens
  BY <1>1, <1>6 DEF MutexTokens, TokenOK
<1>8. MutexLists
  BY <1>1, <1>2, <1>6 DEF MutexLists
<1>9. CeilingsOK
  BY <1>3 DEF CeilingsOK, CallOK, Setting
<1>10. Mu!OwnPriority
  BY <1>1 DEF Mu!OwnPriority
<1> QED BY <1>4, <1>5, <1>7, <1>8, <1>9, <1>10 DEF MutexIInv

LEMMA MutexNext == MutexAssumption /\ MutexIInv /\ [Mu!Next]_(Mu!vars) => MutexIInv'
<1> SUFFICES ASSUME MutexAssumption, MutexIInv, [Mu!Next]_(Mu!vars) PROVE MutexIInv'
  OBVIOUS
<1>1. ASSUME NEW t \in Pthreads, NEW c \in Mu!NewCalls(t),
             Mu!LockAgain(t, c) \/ Mu!LockFree(t, c) \/ Mu!LockBlock(t, c) \/ Mu!LockNone(t, c)
      PROVE  MutexIInv'
  BY <1>1, LockAgainPreserves, LockFreePreserves, LockBlockPreserves, LockNonePreserves
<1>2. ASSUME NEW t \in Pthreads,
             \/ Mu!Pend(t) \/ Mu!Taken(t) \/ Mu!TimedOut(t) \/ Mu!resetInheritPriority(t)
             \/ Mu!WriteCeiling(t) \/ Mu!GetPri(t) \/ Mu!SetPri(t) \/ Mu!TimeOut(t)
             \/ \E m \in Mutexes : Mu!Unlock(t, m)
             \/ \E p \in Mu!Level : Mu!SetSchedParam(t, p)
      PROVE  MutexIInv'
  BY <1>2, MutexPendPreserves, TakenPreserves, MutexTimedOutPreserves, ResetPreserves, CeilingStepPreserves,
     MutexTimeOutPreserves, MutexUnlockPreserves, SetSchedParamPreserves
<1>3. CASE UNCHANGED Mu!vars
  <2>1. UNCHANGED <<tAvail, tWaiting, tOutcome, owner, lockCnt, prioceiling, waitList, priority, runPri, call, app>>
    BY <1>3 DEF Mu!vars, Mu!semVars, Mu!mutexVars
  <2>2. MutexTyped'
    BY <2>1 DEF MutexIInv, MutexTyped
  <2>3. \A x \in Mutexes, u \in Pthreads : (Coming(u, x)' <=> Coming(u, x)) /\ (WaitsFor(u, x)' <=> WaitsFor(u, x))
    BY <2>1 DEF Coming, WaitsFor
  <2>4. PendsOK' /\ MutexTokens' /\ MutexLists'
    <3>1. PendsOK'
      BY <2>1, PendsStay DEF MutexIInv
    <3> QED BY <2>1, <2>3, <3>1, TokenStays, MutexListsStay DEF MutexIInv, MutexTokens
  <2>5. CeilingsOK'
    BY <2>1 DEF MutexIInv, CeilingsOK
  <2>6. Mu!OwnPriority'
    BY <2>1, PriorityStays DEF MutexIInv, Mu!mutexList, Mu!Owned
  <2> QED BY <2>2, <2>4, <2>5, <2>6 DEF MutexIInv
<1> QED BY <1>1, <1>2, <1>3 DEF Mu!Next

\* For applications that use mutexes of the kinds there are and set ceilings that
\* are priorities: the token of every mutex is in one place.
THEOREM MutexInvariance == ASSUME MutexAssumption PROVE Mu!Spec => []MutexIInv
<1>1. Mu!Init => MutexIInv
  BY MutexInit
<1>2. MutexIInv /\ [Mu!Next]_(Mu!vars) => MutexIInv'
  BY MutexNext
<1> QED BY <1>1, <1>2, PTL DEF Mu!Spec

LEMMA MutexIInvExcludes == MutexIInv => Mu!MutexExclusion
<1> SUFFICES ASSUME MutexIInv PROVE Mu!MutexExclusion
  OBVIOUS
<1>1. MutexTyped /\ MutexTokens /\ MutexLists
  BY DEF MutexIInv
<1>2. Mu!TypeOK
  <2>1. 0 .. 2 - 1 = 0 .. 1
    OBVIOUS
  <2> QED BY <1>1, <2>1 DEF MutexTyped, Mu!TypeOK, Mu!Sem!SpecTypeOK
<1>3. ASSUME NEW m \in Mutexes
      PROVE  LET coming == {t \in Pthreads : /\ call[t].at \in {"pend", "taken"} /\ call[t].on = m
                                             /\ call[t].at = "taken" \/ tOutcome[t] = "granted"}
             IN  /\ tAvail[m] + Mu!Cardinality(owner[m]) + Mu!Cardinality(coming) = 1
                 /\ owner[m] = {} <=> lockCnt[m] = 0
                 /\ Mu!IsInjective(waitList[m])
                 /\ Protocol[m] = "INHERIT" =>
                      Mu!ToSet(waitList[m]) = {t \in Pthreads : call[t].at \in {"pend", "taken", "timedOut"} /\ call[t].on = m}
  <2> DEFINE coming == {t \in Pthreads : /\ call[t].at \in {"pend", "taken"} /\ call[t].on = m
                                         /\ call[t].at = "taken" \/ tOutcome[t] = "granted"}
             waits == {t \in Pthreads : call[t].at \in {"pend", "taken", "timedOut"} /\ call[t].on = m}
  <2>1. \A t \in Pthreads : t \in coming <=> Coming(t, m)
    BY DEF Coming
  <2>2. \A S : Mu!Cardinality(S) = Cardinality(S)
    BY DEF Mu!Cardinality, Cardinality
  <2>3. Cardinality({}) = 0 /\ \A t : Cardinality({t}) = 1
    BY FS_EmptySet, FS_Singleton
  <2>4. coming \in SUBSET Pthreads
    OBVIOUS
  <2> HIDE DEF coming
  <2>5. TokenOK(m)
    BY <1>1 DEF MutexTokens
  <2>6. tAvail[m] + Cardinality(owner[m]) + Cardinality(coming) = 1
    <3>1. CASE tAvail[m] = 1 /\ owner[m] = {} /\ \A t \in Pthreads : ~Coming(t, m)
      <4>1. coming = {}
        BY <3>1, <2>1, <2>4
      <4> QED BY <3>1, <4>1, <2>3
    <3>2. CASE tAvail[m] = 0 /\ (\E t \in Pthreads : owner[m] = {t}) /\ \A t \in Pthreads : ~Coming(t, m)
      <4>1. coming = {} /\ Cardinality(owner[m]) = 1
        BY <3>2, <2>1, <2>3, <2>4
      <4> QED BY <3>2, <4>1, <2>3
    <3>3. CASE tAvail[m] = 0 /\ owner[m] = {} /\ \E t \in Pthreads : \A u \in Pthreads : Coming(u, m) <=> u = t
      <4>1. PICK t \in Pthreads : \A u \in Pthreads : Coming(u, m) <=> u = t
        BY <3>3
      <4>2. coming = {t}
        BY <4>1, <2>1, <2>4
      <4>3. Cardinality(coming) = 1 /\ Cardinality(owner[m]) = 0
        BY <3>3, <4>2, <2>3
      <4> QED BY <3>3, <4>3
    <3> QED BY <3>1, <3>2, <3>3, <2>5 DEF TokenOK
  <2>7. waitList[m] \in Seq(Pthreads) /\ IsInjective(waitList[m])
    BY <1>1, MutexTypes DEF MutexLists
  <2>8. Mu!IsInjective(waitList[m])
    BY <2>7 DEF IsInjective, Mu!IsInjective
  <2>9. Protocol[m] = "INHERIT" => Mu!ToSet(waitList[m]) = waits
    <3>1. \A t : t \in Mu!ToSet(waitList[m]) <=> Contains(waitList[m], t)
      BY <2>7 DEF Mu!ToSet, Contains
    <3>2. \A t : Contains(waitList[m], t) => t \in Pthreads
      BY <2>7 DEF Contains
    <3>3. \A t \in Pthreads : t \in waits <=> WaitsFor(t, m)
      BY DEF WaitsFor
    <3> QED BY <3>1, <3>2, <3>3, <1>1 DEF MutexLists
  <2>10. owner[m] = {} <=> lockCnt[m] = 0
    BY <2>5 DEF TokenOK
  <2> QED BY <2>2, <2>6, <2>8, <2>9, <2>10 DEF coming
<1> QED BY <1>2, <1>3 DEF Mu!MutexExclusion

\* _pthread.h:73-76: "When the thread releases the mutex, its priority will be set
\* to the max of the priority ceilings of the mutexes it still owns, and its
\* original priority"; a thread that owns none runs at its own, whatever chains
\* have been raised and lowered.
THEOREM RunsAtItsOwn == ASSUME MutexAssumption PROVE Mu!Spec => []Mu!OwnPriority
BY MutexInvariance, PTL DEF MutexIInv

-----------------------------------------------------------------------------
(* The priorities, where a thread holds one mutex at a time.               *)

Flat == app.depth = 1 /\ app.targets = {}

\* Who is at these points may have set a ceiling above its priority.
Adjusting == {"getPri", "setPri", "unlock"}

\* A thread that has a mutex has it once, and no other, and waits for none.
OneEach ==
  \A t \in Pthreads, m \in Mutexes :
    owner[m] = {t} => /\ lockCnt[m] <= 1 /\ call[t].at # "reset"
                      /\ \A x \in Mutexes : ~WaitsFor(t, x) /\ (owner[x] = {t} => x = m)

Above ==
  \A m \in Mutexes : \A o, u \in Pthreads : owner[m] = {o} /\ Contains(waitList[m], u) => runPri[u] <= runPri[o]

Reaches ==
  \A m \in Mutexes, o \in Pthreads :
    owner[m] = {o} /\ Protocol[m] # "NONE" /\ call[o].at \notin Adjusting => runPri[o] >= prioceiling[m]

FlatOK == OneEach /\ Above /\ Reaches

FlatIInv == MutexIInv /\ (Flat => FlatOK)

\* Who has a mutex has at least one lock to release.
LEMMA HoldsOne ==
  ASSUME MutexAssumption, MutexIInv, NEW t \in Pthreads, NEW m \in Mutexes, owner[m] = {t}
  PROVE  Mu!Holds(t) \in Nat /\ Mu!Holds(t) >= 1
<1> DEFINE S == {x \in Mutexes : owner[x] = {t}}
           Locks(x) == {x} \X (1 .. lockCnt[x])
           F == {Locks(x) : x \in S}
<1>1. MutexTyped /\ MutexTokens
  BY DEF MutexIInv
<1>2. IsFiniteSet(F)
  <2>1. IsFiniteSet(S)
    BY FS_Subset DEF MutexAssumption
  <2> DEFINE f == [x \in S |-> Locks(x)]
  <2>2. f \in Surjection(S, F)
    BY DEF Surjection
  <2> HIDE DEF S, Locks, F, f
  <2> QED BY <2>1, <2>2, FS_Surjection
<1>3. \A x \in S : IsFiniteSet(Locks(x))
  <2>1. ASSUME NEW x \in S PROVE IsFiniteSet(Locks(x))
    <3>1. lockCnt[x] \in Int /\ 1 \in Int
      BY <1>1, MutexTypes
    <3>2. IsFiniteSet(1 .. lockCnt[x])
      BY <3>1, FS_Interval
    <3>3. IsFiniteSet({x})
      BY FS_Singleton
    <3> QED BY <3>2, <3>3, FS_Product
  <2> QED BY <2>1
<1>4. <<m, 1>> \in Locks(m) /\ m \in S
  <2>1. {t} # {} /\ lockCnt[m] \in Nat
    BY <1>1, MutexTypes
  <2>2. lockCnt[m] # 0
    BY <2>1, <1>1 DEF MutexTokens, TokenOK
  <2> QED BY <2>1, <2>2
<1>5. Mu!Holds(t) = Cardinality(UNION F)
  BY DEF Mu!Holds, Mu!Owned, Mu!Cardinality, Cardinality
<1> HIDE DEF S, Locks
<1>6. IsFiniteSet(UNION F) /\ <<m, 1>> \in UNION F
  <2>1. \A y \in F : IsFiniteSet(y)
    BY <1>3
  <2>2. <<m, 1>> \in UNION F
    BY <1>4
  <2> HIDE DEF F
  <2> QED BY <1>2, <2>1, <2>2, FS_UNION
<1> HIDE DEF F
<1>7. Cardinality(UNION F) \in Nat /\ Cardinality(UNION F) # 0
  BY <1>6, FS_CardinalityType, FS_EmptySet
<1> QED BY <1>5, <1>7

\* A thread that makes a call has no mutex.
LEMMA FlatCall ==
  ASSUME MutexAssumption, MutexIInv, Flat, NEW t \in Pthreads, NEW c, Mu!MayCall(t, c)
  PROVE  \A m \in Mutexes : owner[m] # {t}
<1>1. SUFFICES ASSUME NEW m \in Mutexes, owner[m] = {t} PROVE FALSE
  OBVIOUS
<1>2. Mu!Holds(t) < 1
  BY DEF Mu!MayCall, Flat
<1> QED BY <1>1, <1>2, HoldsOne

\* Who is on a list is in the call, and has no mutex.
LEMMA ListedWaits ==
  ASSUME MutexIInv, FlatOK, NEW m \in Mutexes, NEW u \in Pthreads, Contains(waitList[m], u)
  PROVE  WaitsFor(u, m) /\ Protocol[m] = "INHERIT" /\ \A x \in Mutexes : owner[x] # {u}
<1>1. MutexLists /\ OneEach
  BY DEF MutexIInv, FlatOK
<1>2. ~Contains(<<>>, u)
  BY DEF Contains
<1>3. Protocol[m] = "INHERIT" /\ WaitsFor(u, m)
  BY <1>1, <1>2 DEF MutexLists
<1> QED BY <1>1, <1>3 DEF OneEach

\* A thread with no mutex goes on, and nothing happens to the mutexes.
LEMMA FlatQuiet ==
  ASSUME FlatOK, NEW t \in Pthreads, \A m \in Mutexes : owner[m] # {t},
         UNCHANGED <<owner, lockCnt, prioceiling, waitList, runPri>>, \A u \in Pthreads : u # t => call'[u] = call[u]
  PROVE  FlatOK'
<1>1. OneEach /\ Above /\ Reaches
  BY DEF FlatOK
<1>2. owner' = owner /\ lockCnt' = lockCnt /\ prioceiling' = prioceiling /\ waitList' = waitList /\ runPri' = runPri
  OBVIOUS
<1>3. OneEach'
  <2>1. ASSUME NEW o \in Pthreads, NEW m \in Mutexes, owner[m] = {o}
        PROVE  lockCnt[m] <= 1 /\ call'[o].at # "reset" /\ \A x \in Mutexes : ~WaitsFor(o, x)' /\ (owner[x] = {o} => x = m)
    <3>1. o # t /\ call'[o] = call[o]
      BY <2>1
    <3>2. \A x \in Mutexes : WaitsFor(o, x)' <=> WaitsFor(o, x)
      BY <3>1 DEF WaitsFor
    <3> QED BY <2>1, <3>2, <1>1 DEF OneEach
  <2> QED BY <2>1, <1>2 DEF OneEach
<1>4. Above'
  BY <1>1, <1>2 DEF Above
<1>5. Reaches'
  <2>1. ASSUME NEW m \in Mutexes, NEW o \in Pthreads, owner[m] = {o}, Protocol[m] # "NONE", call'[o].at \notin Adjusting
        PROVE  runPri[o] >= prioceiling[m]
    <3>1. o # t /\ call'[o] = call[o]
      BY <2>1
    <3> QED BY <2>1, <3>1, <1>1 DEF Reaches
  <2> QED BY <2>1, <1>2 DEF Reaches
<1> QED BY <1>3, <1>4, <1>5 DEF FlatOK

\* The step of a thread t that changes one mutex m, and the priority of one thread z.
Elsewhere(t, z, m) ==
  /\ \A x \in Mutexes : x # m =>
       /\ owner'[x] = owner[x] /\ lockCnt'[x] = lockCnt[x] /\ waitList'[x] = waitList[x] /\ prioceiling'[x] = prioceiling[x]
       /\ owner[x] # {t} /\ owner[x] # {z} /\ ~Contains(waitList[x], z)
  /\ \A u \in Pthreads : /\ u # z => runPri'[u] = runPri[u]
                         /\ u # t => call'[u] = call[u]

\* What the owner o of m is to be after it.
OwnerOK(o, m) ==
  /\ lockCnt'[m] <= 1 /\ call'[o].at # "reset" /\ \A x \in Mutexes : ~WaitsFor(o, x)' /\ (x # m => owner[x] # {o})
  /\ \A u \in Pthreads : Contains(waitList'[m], u) => runPri'[u] <= runPri'[o]
  /\ Protocol[m] # "NONE" /\ call'[o].at \notin Adjusting => runPri'[o] >= prioceiling'[m]

LEMMA FlatStep ==
  ASSUME FlatOK, NEW t \in Pthreads, NEW z \in Pthreads, NEW m \in Mutexes, Elsewhere(t, z, m),
         \A o \in Pthreads : owner'[m] = {o} => OwnerOK(o, m)
  PROVE  FlatOK'
<1>1. OneEach /\ Above /\ Reaches
  BY DEF FlatOK
<1>2. ASSUME NEW x \in Mutexes, NEW o \in Pthreads, x # m, owner'[x] = {o}
      PROVE  owner[x] = {o} /\ o # t /\ o # z /\ runPri'[o] = runPri[o] /\ call'[o] = call[o] /\ owner'[m] # {o}
  BY <1>2 DEF Elsewhere, OwnerOK
<1>3. OneEach'
  <2>1. ASSUME NEW o \in Pthreads, NEW x \in Mutexes, owner'[x] = {o}
        PROVE  lockCnt'[x] <= 1 /\ call'[o].at # "reset" /\ \A y \in Mutexes : ~WaitsFor(o, y)' /\ (owner'[y] = {o} => y = x)
    <3>1. CASE x = m
      BY <2>1, <3>1 DEF OwnerOK, Elsewhere
    <3>2. CASE x # m
      <4>1. owner[x] = {o} /\ call'[o] = call[o] /\ owner'[m] # {o} /\ lockCnt'[x] = lockCnt[x]
        BY <2>1, <3>2, <1>2 DEF Elsewhere
      <4>2. \A y \in Mutexes : WaitsFor(o, y)' <=> WaitsFor(o, y)
        BY <4>1 DEF WaitsFor
      <4>3. \A y \in Mutexes : owner'[y] = {o} => owner[y] = {o}
        BY <4>1 DEF Elsewhere
      <4> QED BY <4>1, <4>2, <4>3, <1>1 DEF OneEach
    <3> QED BY <3>1, <3>2
  <2> QED BY <2>1 DEF OneEach
<1>4. Above'
  <2>1. ASSUME NEW x \in Mutexes, NEW o \in Pthreads, NEW u \in Pthreads, owner'[x] = {o}, Contains(waitList'[x], u)
        PROVE  runPri'[u] <= runPri'[o]
    <3>1. CASE x = m
      BY <2>1, <3>1 DEF OwnerOK, Elsewhere
    <3>2. CASE x # m
      <4>1. owner[x] = {o} /\ runPri'[o] = runPri[o] /\ Contains(waitList[x], u) /\ u # z
        BY <2>1, <3>2, <1>2 DEF Elsewhere
      <4>2. runPri'[u] = runPri[u]
        BY <4>1 DEF Elsewhere
      <4> QED BY <4>1, <4>2, <1>1 DEF Above
    <3> QED BY <3>1, <3>2
  <2> QED BY <2>1 DEF Above
<1>5. Reaches'
  <2>1. ASSUME NEW x \in Mutexes, NEW o \in Pthreads, owner'[x] = {o}, Protocol[x] # "NONE", call'[o].at \notin Adjusting
        PROVE  runPri'[o] >= prioceiling'[x]
    <3>1. CASE x = m
      BY <2>1, <3>1 DEF OwnerOK, Elsewhere
    <3>2. CASE x # m
      <4>1. owner[x] = {o} /\ runPri'[o] = runPri[o] /\ call'[o] = call[o] /\ prioceiling'[x] = prioceiling[x]
        BY <2>1, <3>2, <1>2 DEF Elsewhere
      <4> QED BY <2>1, <4>1, <1>1 DEF Reaches
    <3> QED BY <3>1, <3>2
  <2> QED BY <2>1 DEF Reaches
<1> QED BY <1>3, <1>4, <1>5 DEF FlatOK

\* A ceiling is no lower than a waiter's priority, and no higher than what all of
\* them are below.
LEMMA CeilingBounds ==
  ASSUME MutexAssumption, NEW w \in Seq(Pthreads), NEW pri \in [Pthreads -> Mu!Level]
  PROVE  /\ \A u \in Pthreads : Contains(w, u) => Mu!CeilingOf(w, pri) >= pri[u]
         /\ \A p \in Mu!Level : (\A u \in Pthreads : Contains(w, u) => pri[u] <= p) => p >= Mu!CeilingOf(w, pri)
<1> DEFINE S == {0} \cup {pri[u] : u \in Mu!ToSet(w)}
<1>1. \A u : u \in Mu!ToSet(w) <=> u \in Pthreads /\ Contains(w, u)
  BY DEF Mu!ToSet, Contains
<1>2. S \in SUBSET (Mu!Level \cup {0}) /\ S # {}
  BY <1>1
<1>3. \A u \in Pthreads : Contains(w, u) => pri[u] \in S
  BY <1>1
<1>4. \A x \in S : x = 0 \/ \E u \in Pthreads : Contains(w, u) /\ x = pri[u]
  BY <1>1
<1>5. Mu!CeilingOf(w, pri) = Mu!Max(S)
  BY DEF Mu!CeilingOf
<1> HIDE DEF S
<1>6. Mu!Max(S) \in S /\ \A x \in S : Mu!Max(S) >= x
  BY <1>2, Levels
<1>7. ASSUME NEW p \in Mu!Level, \A u \in Pthreads : Contains(w, u) => pri[u] <= p PROVE p >= Mu!Max(S)
  <2>1. p \in Nat /\ p >= 0
    BY DEF Mu!Level, MutexAssumption
  <2>2. CASE Mu!Max(S) = 0
    BY <2>1, <2>2
  <2>3. CASE Mu!Max(S) # 0
    <3>1. PICK u \in Pthreads : Contains(w, u) /\ Mu!Max(S) = pri[u]
      BY <2>3, <1>4, <1>6
    <3>2. pri[u] \in Nat
      BY DEF Mu!Level, MutexAssumption
    <3> QED BY <2>1, <3>1, <3>2, <1>7
  <2> QED BY <2>2, <2>3
<1> QED BY <1>3, <1>5, <1>6, <1>7

\* A thread with no mutex becomes the owner of one.
LEMMA FlatOwn ==
  ASSUME MutexAssumption, MutexIInv, FlatOK, NEW t \in Pthreads, NEW m \in Mutexes, NEW w \in Seq(Pthreads), Mu!Own(t, m, w),
         \A x \in Mutexes : owner[x] # {t} /\ (x # m => ~WaitsFor(t, x)), ~Contains(w, t),
         \A x \in Mutexes : ~WaitsFor(t, x)', \A u \in Pthreads : u # t => call'[u] = call[u],
         call'[t].at # "reset", Protocol[m] # "INHERIT" => w = <<>>
  PROVE  FlatOK'
<1> DEFINE ceil == IF Protocol[m] = "INHERIT" THEN Mu!CeilingOf(w, runPri) ELSE prioceiling[m]
           up == Mu!Max({runPri[t], ceil})
<1>1. MutexTyped /\ MutexLists
  BY DEF MutexIInv
<1>2. /\ ceil \in Mu!Level \cup {0}
      /\ Protocol[m] = "INHERIT" => \A u \in Pthreads : Contains(w, u) => ceil >= runPri[u]
  BY <1>1, CeilingInRange, CeilingBounds DEF MutexTyped
<1> HIDE DEF ceil
<1>3. up \in Mu!Level /\ up >= ceil
  BY <1>1, <1>2, Higher DEF MutexTyped
<1> HIDE DEF up
<1>4. /\ owner' = [owner EXCEPT ![m] = {t}] /\ lockCnt' = [lockCnt EXCEPT ![m] = 1] /\ waitList' = [waitList EXCEPT ![m] = w]
      /\ prioceiling' = [prioceiling EXCEPT ![m] = ceil]
      /\ runPri' = [runPri EXCEPT ![t] = IF Protocol[m] = "NONE" THEN @ ELSE up]
  BY DEF Mu!Own, ceil, up
<1>5. /\ owner'[m] = {t} /\ lockCnt'[m] = 1 /\ waitList'[m] = w /\ prioceiling'[m] = ceil
      /\ Protocol[m] # "NONE" => runPri'[t] = up
      /\ \A u \in Pthreads : u # t => runPri'[u] = runPri[u]
      /\ \A x \in Mutexes : x # m => /\ owner'[x] = owner[x] /\ lockCnt'[x] = lockCnt[x] /\ waitList'[x] = waitList[x]
                                     /\ prioceiling'[x] = prioceiling[x]
  BY <1>1, <1>4 DEF MutexTyped
<1>6. \A x \in Mutexes : x # m => ~Contains(waitList[x], t)
  BY ListedWaits
<1>7. \A u : ~Contains(<<>>, u)
  BY DEF Contains
<1>8. ASSUME NEW u \in Pthreads, Contains(w, u) PROVE runPri'[u] <= runPri'[t]
  <2>1. Protocol[m] = "INHERIT" /\ u # t
    BY <1>7, <1>8
  <2>2. runPri'[u] = runPri[u] /\ runPri'[t] = up /\ ceil >= runPri[u]
    BY <2>1, <1>2, <1>5, <1>8
  <2>3. runPri[u] \in Int /\ ceil \in Int /\ up \in Int
    BY <1>1, <1>2, <1>3 DEF MutexTyped, Mu!Level, MutexAssumption
  <2> QED BY <2>2, <2>3, <1>3
<1>9. \A o \in Pthreads : owner'[m] = {o} => o = t
  BY <1>5
<1>10. lockCnt'[m] <= 1
  BY <1>5
<1>11. Protocol[m] # "NONE" => runPri'[t] >= prioceiling'[m]
  BY <1>3, <1>5
<1>12. \A x \in Mutexes : x # m => owner[x] # {t}
  OBVIOUS
<1>13. OwnerOK(t, m)
  BY <1>5, <1>8, <1>10, <1>11 DEF OwnerOK
<1>14. Elsewhere(t, t, m)
  BY <1>5, <1>6, <1>12 DEF Elsewhere
<1> QED BY <1>9, <1>13, <1>14, FlatStep


LEMMA FlatLockFree ==
  ASSUME MutexAssumption, MutexIInv, Flat, FlatOK, NEW t \in Pthreads, NEW c \in Mu!NewCalls(t), Mu!LockFree(t, c)
  PROVE  FlatOK'
<1>1. MutexTyped /\ MutexLists
  BY DEF MutexIInv
<1>2. Mu!MayCall(t, c) /\ Mu!Own(t, c.on, waitList[c.on]) /\ Mu!Acquired(t, c)
  BY DEF Mu!LockFree
<1>3. c \in Mu!Calls /\ c.on \in Mutexes /\ \A x \in Mutexes : ~WaitsFor(t, x)
  BY <1>2, NewCall
<1>4. \A x \in Mutexes : owner[x] # {t}
  BY <1>2, FlatCall
<1>5. (\A u \in Pthreads : u # t => call'[u] = call[u]) /\ call'[t].at \in {"user", "ceiling"}
  BY <1>1, <1>2, <1>3, Acquires
<1>6. \A x \in Mutexes : ~WaitsFor(t, x)'
  BY <1>5 DEF WaitsFor
<1>7. waitList[c.on] \in Seq(Pthreads) /\ (Protocol[c.on] # "INHERIT" => waitList[c.on] = <<>>)
  BY <1>1, <1>3, MutexTypes DEF MutexLists
<1>8. ~Contains(waitList[c.on], t)
  BY <1>3, ListedWaits
<1> QED BY <1>2, <1>3, <1>4, <1>5, <1>6, <1>7, <1>8, FlatOwn

LEMMA FlatTaken ==
  ASSUME MutexAssumption, MutexIInv, Flat, FlatOK, NEW t \in Pthreads, Mu!Taken(t)
  PROVE  FlatOK'
<1>1. MutexTyped /\ MutexLists /\ OneEach
  BY DEF MutexIInv, FlatOK
<1>2. call[t].at = "taken"
  BY MutexUnblocked DEF Mu!Taken
<1>3. PICK m \in Mutexes : m = call[t].on
  BY <1>1, <1>2, MutexTypes
<1> DEFINE w == Mu!RemoveFirst(waitList[m], t)
<1>4. Mu!Own(t, m, w) /\ Mu!Acquired(t, call[t])
  <2>1. Mu!Without(t, m)[m] = w
    BY <1>1 DEF Mu!Without, MutexTyped
  <2> QED BY <2>1, <1>3 DEF Mu!Taken
<1>5. w \in Seq(Pthreads) /\ ~Contains(w, t) /\ (Protocol[m] # "INHERIT" => w = <<>>)
  <2>1. waitList[m] \in Seq(Pthreads) /\ IsInjective(waitList[m]) /\ (Protocol[m] # "INHERIT" => waitList[m] = <<>>)
    BY <1>1, MutexTypes DEF MutexLists
  <2> QED BY <2>1, MutexTakesOut
<1> HIDE DEF w
<1>6. WaitsFor(t, m) /\ \A x \in Mutexes : x # m => ~WaitsFor(t, x)
  BY <1>2, <1>3 DEF WaitsFor
<1>7. \A x \in Mutexes : owner[x] # {t}
  BY <1>1, <1>6 DEF OneEach
<1>8. call[t] \in Mu!Calls
  BY <1>1, <1>2, MutexTypes
<1>9. (\A u \in Pthreads : u # t => call'[u] = call[u]) /\ call'[t].at \in {"user", "ceiling"}
  BY <1>1, <1>4, <1>8, Acquires
<1>10. \A x \in Mutexes : ~WaitsFor(t, x)'
  BY <1>9 DEF WaitsFor
<1> QED BY <1>4, <1>5, <1>6, <1>7, <1>9, <1>10, FlatOwn

\* Before and after it waits a thread changes nothing: Pend, the Clock Swi, and the
\* mutexes without inheritance.
LEMMA FlatWaits ==
  ASSUME MutexAssumption, MutexIInv, Flat, FlatOK, NEW t \in Pthreads,
         \/ \E c \in Mu!NewCalls(t) : Mu!LockNone(t, c) \/ (Mu!LockBlock(t, c) /\ Protocol[c.on] # "INHERIT")
         \/ Mu!Pend(t) \/ Mu!TimeOut(t) \/ (Mu!TimedOut(t) /\ Protocol[call[t].on] # "INHERIT")
  PROVE  FlatOK'
<1>1. MutexTyped /\ PendsOK /\ OneEach
  BY DEF MutexIInv, FlatOK
<1>2. UNCHANGED <<owner, lockCnt, prioceiling, waitList, runPri>> /\ \A u \in Pthreads : u # t => call'[u] = call[u]
  <2>1. ASSUME NEW c, Mu!LockNone(t, c) \/ (Mu!LockBlock(t, c) /\ Protocol[c.on] # "INHERIT")
        PROVE  UNCHANGED <<owner, lockCnt, prioceiling, waitList, runPri>> /\ call' = [call EXCEPT ![t] = c]
    BY <2>1 DEF Mu!LockNone, Mu!LockBlock, Mu!mutexVars
  <2>2. CASE Mu!Pend(t)
    <3>1. /\ \/ Mu!Goto(t, "taken") \/ Mu!Goto(t, "timedOut") \/ UNCHANGED call \/ Mu!Return(t)
          /\ UNCHANGED <<owner, lockCnt, prioceiling, waitList, runPri>>
      BY <2>2 DEF Mu!Pend, Mu!mutexVars
    <3> QED BY <3>1, <1>1 DEF Mu!Goto, Mu!Return, MutexTyped
  <2>3. CASE Mu!TimeOut(t)
    BY <2>3 DEF Mu!TimeOut, Mu!mutexVars
  <2>4. CASE Mu!TimedOut(t) /\ Protocol[call[t].on] # "INHERIT"
    BY <2>4, <1>1, MutexReturns DEF Mu!TimedOut
  <2> QED BY <2>1, <2>2, <2>3, <2>4, <1>1 DEF MutexTyped
<1>3. \A x \in Mutexes : owner[x] # {t}
  <2>1. ASSUME NEW c \in Mu!NewCalls(t), Mu!LockNone(t, c) \/ Mu!LockBlock(t, c)
        PROVE  \A x \in Mutexes : owner[x] # {t}
    <3>1. Mu!MayCall(t, c)
      BY <2>1 DEF Mu!LockNone, Mu!LockBlock
    <3> QED BY <3>1, FlatCall
  <2>2. CASE Mu!Pend(t) \/ Mu!TimeOut(t) \/ Mu!TimedOut(t)
    <3>1. call[t].at \in {"pend", "timedOut"}
      <4>1. Mu!TimeOut(t) => tOutcome[t] = "timed"
        BY DEF Mu!TimeOut, Mu!Sem!TimeOut
      <4> QED BY <4>1, <2>2, <1>1 DEF PendsOK, Mu!Pend, Mu!TimedOut, Mu!At
    <3>2. PICK m \in Mutexes : m = call[t].on
      BY <3>1, <1>1, MutexTypes
    <3>3. WaitsFor(t, m)
      BY <3>1, <3>2 DEF WaitsFor
    <3> QED BY <3>3, <1>1 DEF OneEach
  <2> QED BY <2>1, <2>2
<1> QED BY <1>2, <1>3, FlatQuiet

\* pthread_mutex_setprioceiling, with the mutex locked.
LEMMA FlatSets ==
  ASSUME MutexAssumption, MutexIInv, Flat, FlatOK, NEW t \in Pthreads, Mu!WriteCeiling(t) \/ Mu!GetPri(t) \/ Mu!SetPri(t)
  PROVE  FlatOK'
<1>1. MutexLists /\ OneEach
  BY DEF MutexIInv, FlatOK
<1>2. PICK m \in Mutexes, l \in {"getPri", "setPri", "unlock"} : CeilingStep(t, m, l)
  BY CeilingSteps
<1>3. /\ owner[m] = {t} /\ Protocol[m] = "PROTECT" /\ UNCHANGED <<owner, lockCnt, waitList>> /\ call'[t].at = l
      /\ \A x \in Mutexes : x # m => prioceiling'[x] = prioceiling[x]
      /\ \A u \in Pthreads : u # t => runPri'[u] = runPri[u] /\ call'[u] = call[u]
  BY <1>2 DEF CeilingStep
<1>4. lockCnt[m] <= 1 /\ \A x \in Mutexes : x # m => owner[x] # {t} /\ ~Contains(waitList[x], t)
  BY <1>1, <1>3, ListedWaits DEF OneEach
<1>5. Elsewhere(t, t, m)
  BY <1>3, <1>4 DEF Elsewhere
<1>6. OwnerOK(t, m)
  <2>1. \A x \in Mutexes : ~WaitsFor(t, x)'
    BY <1>3 DEF WaitsFor
  <2>2. \A u : ~Contains(waitList'[m], u)
    <3>1. waitList'[m] = <<>>
      BY <1>1, <1>3 DEF MutexLists
    <3> QED BY <3>1 DEF Contains
  <2> QED BY <2>1, <2>2, <1>3, <1>4 DEF OwnerOK, Adjusting
<1>7. \A o \in Pthreads : owner'[m] = {o} => o = t
  BY <1>3
<1> QED BY <1>5, <1>6, <1>7, FlatStep

LEMMA FlatUnlock ==
  ASSUME MutexAssumption, MutexIInv, Flat, FlatOK, NEW t \in Pthreads, NEW m \in Mutexes, Mu!Unlock(t, m)
  PROVE  FlatOK'
<1>1. MutexTyped /\ OneEach
  BY DEF MutexIInv, FlatOK
<1>2. owner[m] = {t} /\ Mu!Return(t) /\ UNCHANGED waitList /\ lockCnt' = [lockCnt EXCEPT ![m] = @ - 1]
  BY DEF Mu!Unlock, Mu!Owned
<1>3. lockCnt[m] <= 1 /\ lockCnt[m] \in Nat /\ \A x \in Mutexes : x # m => owner[x] # {t}
  BY <1>1, <1>2, MutexTypes DEF OneEach
<1>4. /\ owner' = [owner EXCEPT ![m] = {}]
      /\ prioceiling' = [prioceiling EXCEPT ![m] = IF Protocol[m] = "INHERIT" THEN 0 ELSE @]
      /\ runPri' = [runPri EXCEPT ![t] = IF Protocol[m] = "NONE" THEN @ ELSE Mu!Released(t, m)]
  <2>1. ~(lockCnt[m] > 1)
    BY <1>3
  <2> QED BY <2>1 DEF Mu!Unlock
<1>5. \A u \in Pthreads : u # t => call'[u] = call[u]
  BY <1>1, <1>2, MutexReturns
<1>6. \A x \in Mutexes : x # m => ~Contains(waitList[x], t)
  BY <1>2, ListedWaits
<1>7. Elsewhere(t, t, m)
  <2>1. \A x \in Mutexes : x # m => /\ owner'[x] = owner[x] /\ lockCnt'[x] = lockCnt[x] /\ waitList'[x] = waitList[x]
                                    /\ prioceiling'[x] = prioceiling[x]
    BY <1>1, <1>2, <1>4 DEF MutexTyped
  <2>2. \A u \in Pthreads : u # t => runPri'[u] = runPri[u]
    BY <1>1, <1>4 DEF MutexTyped
  <2> QED BY <2>1, <2>2, <1>3, <1>5, <1>6 DEF Elsewhere
<1>8. \A o \in Pthreads : owner'[m] # {o}
  <2>1. owner'[m] = {}
    BY <1>1, <1>4 DEF MutexTyped
  <2> QED BY <2>1
<1> QED BY <1>7, <1>8, FlatStep


\* The loops are over after one turn: an owner waits for nothing.
LEMMA OwnersDoNotWait ==
  ASSUME MutexIInv, FlatOK, NEW o \in Pthreads, NEW m \in Mutexes, owner[m] = {o}
  PROVE  /\ \A x \in Mutexes : ~Contains(waitList[x], o) /\ ~WaitsFor(o, x)
         /\ Mu!blockedMutex(o) = {}
<1>1. \A x \in Mutexes : ~WaitsFor(o, x)
  BY DEF FlatOK, OneEach
<1>2. \A x \in Mutexes : ~Contains(waitList[x], o)
  BY <1>1, ListedWaits
<1> QED BY <1>1, <1>2 DEF Mu!blockedMutex, Mu!Contains, Contains

LEMMA RaisedFlat ==
  ASSUME MutexAssumption, MutexIInv, FlatOK, NEW m \in Inherits, NEW p
  PROVE  Mu!Raised(m, p) = {x \in {m} : \E o \in owner[x] : runPri[o] < p}
<1> DEFINE N == Cardinality(Mutexes)
           low == {x \in {m} : \E o \in owner[x] : runPri[o] < p}
           D == IF low # {} THEN <<m>> ELSE <<>>
<1>1. MutexTyped /\ MutexTokens /\ MutexLists /\ m \in Mutexes
  BY DEF MutexIInv, Inherits
<1>2. PICK f : /\ f[0] = <<>> /\ \A n \in 1 .. N : f[n] = ChainTurn(m, p, n, f[n - 1])
               /\ Mu!Raised(m, p) = Mu!ToSet(f[N])
  BY <1>1, RaisedByTurns
<1>3. N \in Nat /\ N # 0
  BY <1>1, FS_CardinalityType, FS_EmptySet DEF MutexAssumption
<1>4. ChainLow(m, p, <<>>) = low
  <2>1. Mu!ToSet(<<>>) = {}
    BY DEF Mu!ToSet
  <2>2. UNION {owner[y] : y \in Mu!ToSet(<<>>)} = {}
    BY <2>1
  <2>3. ChainNext(m, <<>>) = {m}
    BY DEF ChainNext
  <2> QED BY <2>2, <2>3 DEF ChainLow
<1>5. f[1] = D
  <2>1. f[1] = ChainTurn(m, p, 1, <<>>)
    BY <1>2, <1>3
  <2>2. Len(<<>>) = 1 - 1
    OBVIOUS
  <2>3. low # {} => (CHOOSE x \in low : TRUE) = m
    OBVIOUS
  <2> HIDE DEF low
  <2>4. Append(<<>>, m) = <<m>>
    OBVIOUS
  <2> QED BY <2>1, <2>2, <2>3, <2>4, <1>4 DEF ChainTurn
<1>6. ASSUME NEW n \in 2 .. N PROVE ChainTurn(m, p, n, D) = D
  <2>1. CASE low = {}
    <3>1. D = <<>> /\ Len(<<>>) # n - 1
      BY <2>1
    <3> QED BY <3>1 DEF ChainTurn
  <2>2. CASE low # {}
    <3>1. D = <<m>> /\ Mu!Last(<<m>>) = m /\ <<m>> # <<>>
      BY <2>2 DEF Mu!Last
    <3>2. \A o \in owner[m] : Mu!blockedMutex(o) = {}
      <4>1. owner[m] = {} \/ \E o \in Pthreads : owner[m] = {o}
        BY <1>1 DEF MutexTokens, TokenOK
      <4> QED BY <4>1, <1>1, OwnersDoNotWait
    <3>3. ChainNext(m, <<m>>) = UNION {Mu!blockedMutex(o) : o \in owner[m]}
      BY <3>1 DEF ChainNext
    <3>4. ChainLow(m, p, <<m>>) = {}
      BY <3>2, <3>3 DEF ChainLow
    <3> HIDE DEF D
    <3> QED BY <3>1, <3>4 DEF ChainTurn
  <2> QED BY <2>1, <2>2
<1> HIDE DEF D
<1>7. f[N] = D
  <2> DEFINE h == [n \in 0 .. N - 1 |-> f[n + 1]]
             S == {D}
  <2>1. h[0] \in S /\ N - 1 \in Nat
    BY <1>3, <1>5
  <2>2. ASSUME NEW n \in 1 .. N - 1, h[n - 1] \in S PROVE h[n] \in S
    <3>1. f[n] = D /\ n + 1 \in 2 .. N /\ n + 1 \in 1 .. N /\ (n + 1) - 1 = n
      BY <2>2, <1>3
    <3>2. f[n + 1] = ChainTurn(m, p, n + 1, f[n])
      BY <1>2, <3>1
    <3>3. f[n + 1] = D
      BY <3>1, <3>2, <1>6
    <3> QED BY <3>3, <1>3
  <2>3. \A n \in 0 .. N - 1 : h[n] \in S
    <3> HIDE DEF h, S
    <3> QED BY <2>1, <2>2, StaysIn
  <2>4. h[N - 1] = D /\ (N - 1) + 1 = N
    BY <2>3, <1>3
  <2> QED BY <2>4, <1>3
<1>8. Mu!ToSet(D) = low
  <2>1. Mu!ToSet(<<m>>) = {m} /\ Mu!ToSet(<<>>) = {}
    BY DEF Mu!ToSet
  <2>2. low = {} \/ low = {m}
    OBVIOUS
  <2>3. {m} # {}
    OBVIOUS
  <2> HIDE DEF low
  <2> QED BY <2>1, <2>2, <2>3 DEF D
<1> QED BY <1>2, <1>7, <1>8

LEMMA AdjustedAbove ==
  ASSUME MutexAssumption, MutexTyped, NEW t \in Pthreads, NEW own \in SUBSET Mutexes,
         NEW ceil \in [Mutexes -> Mu!Level \cup {0}], NEW m \in own
  PROVE  Mu!Adjusted(t, own, ceil) >= ceil[m]
<1> DEFINE S == {priority[t]} \cup {ceil[x] : x \in own}
<1>1. priority[t] \in Mu!Level
  BY DEF MutexTyped
<1>2. S \in SUBSET (Mu!Level \cup {0}) /\ S # {} /\ ceil[m] \in S
  BY <1>1
<1>3. Mu!Adjusted(t, own, ceil) = Mu!Max(S)
  BY DEF Mu!Adjusted
<1> HIDE DEF S
<1> QED BY <1>2, <1>3, Levels

\* A turn of resetInheritPriority is the last: the owner of next waits for nothing.
LEMMA FlatReset ==
  ASSUME MutexAssumption, MutexIInv, FlatOK, NEW t \in Pthreads, Mu!resetInheritPriority(t)
  PROVE  FlatOK'
<1>1. MutexTyped /\ MutexTokens /\ CeilingsOK /\ OneEach /\ Above /\ Reaches
  BY DEF MutexIInv, FlatOK
<1>2. call[t].at = "reset" /\ \A x \in Mutexes : ~WaitsFor(t, x) /\ owner[x] # {t}
  BY <1>1, MutexUnblocked DEF Mu!resetInheritPriority, OneEach
<1>3. PICK m \in Inherits : m = call[t].on
  BY <1>1, <1>2, MutexTypes DEF CeilingsOK, CallOK, Inherits
<1>4. UNCHANGED <<owner, lockCnt, waitList>> /\ m \in Mutexes /\ \A x \in Mutexes : ~Contains(waitList[x], t)
  BY <1>2, ListedWaits DEF Mu!resetInheritPriority, Inherits
<1> DEFINE C == Mu!CeilingOf(waitList[m], runPri)
           ceil == [prioceiling EXCEPT ![m] = C]
<1>5. CASE owner[m] = {} /\ Mu!Return(t) /\ UNCHANGED <<runPri, prioceiling>>
  <2>1. \A u \in Pthreads : u # t => call'[u] = call[u]
    BY <1>1, <1>5, MutexReturns
  <2> QED BY <2>1, <1>2, <1>4, <1>5, FlatQuiet
<1>6. ASSUME NEW o \in owner[m], prioceiling' = ceil,
             runPri' = runPri \/ runPri' = [runPri EXCEPT ![o] = Mu!Adjusted(o, Mu!mutexList(o), ceil)],
             Mu!Return(t) \/ \E n \in Mu!blockedMutex(o) : call' = [call EXCEPT ![t].on = n]
      PROVE  FlatOK'
  <2>1. o \in Pthreads /\ owner[m] = {o}
    BY <1>1, <1>4 DEF MutexTokens, TokenOK
  <2>2. /\ o # t /\ \A x \in Mutexes : ~WaitsFor(o, x) /\ ~Contains(waitList[x], o) /\ (x # m => owner[x] # {o})
        /\ Mu!blockedMutex(o) = {} /\ lockCnt[m] <= 1 /\ call[o].at # "reset"
    BY <2>1, <1>1, <1>2, <1>4, OwnersDoNotWait DEF OneEach
  <2>3. \A u \in Pthreads : u # t => call'[u] = call[u]
    BY <2>2, <1>1, <1>6, MutexReturns
  <2>4. runPri \in [Pthreads -> Mu!Level] /\ prioceiling \in [Mutexes -> Mu!Level \cup {0}] /\ waitList[m] \in Seq(Pthreads)
    BY <1>1, <1>4 DEF MutexTyped
  <2>5. C \in Mu!Level \cup {0} /\ \A u \in Pthreads : Contains(waitList[m], u) => C >= runPri[u] /\ runPri[u] <= runPri[o] /\ u # o
    BY <2>1, <2>2, <2>4, <1>1, <1>4, CeilingInRange, CeilingBounds DEF Above
  <2>6. runPri[o] >= C
    BY <2>1, <2>4, <2>5, CeilingBounds
  <2> HIDE DEF C
  <2>7. ceil \in [Mutexes -> Mu!Level \cup {0}] /\ ceil[m] = C /\ \A x \in Mutexes : x # m => ceil[x] = prioceiling[x]
    BY <2>4, <2>5, <1>4
  <2> HIDE DEF ceil
  <2> DEFINE up == Mu!Adjusted(o, Mu!mutexList(o), ceil)
  <2>8. up \in Mu!Level /\ up >= C
    <3>1. m \in Mu!mutexList(o) /\ Mu!mutexList(o) \in SUBSET Mutexes
      BY <2>1, <1>4 DEF Mu!mutexList, Mu!Owned, Inherits
    <3> QED BY <3>1, <2>1, <2>7, <1>1, AdjustedInRange, AdjustedAbove
  <2> HIDE DEF up
  <2>9. (\A u \in Pthreads : u # o => runPri'[u] = runPri[u]) /\ runPri'[o] \in {runPri[o], up}
    BY <2>1, <2>4, <1>6 DEF up
  <2>10. runPri'[o] >= prioceiling'[m] /\ \A u \in Pthreads : Contains(waitList[m], u) => runPri'[u] <= runPri'[o]
    <3>1. runPri'[o] >= C
      BY <2>6, <2>8, <2>9
    <3>2. ASSUME NEW u \in Pthreads, Contains(waitList[m], u) PROVE runPri'[u] <= runPri'[o]
      <4>1. runPri'[u] = runPri[u] /\ C >= runPri[u]
        BY <3>2, <2>5, <2>9
      <4>2. runPri[u] \in Int /\ C \in Int /\ runPri'[o] \in Int
        BY <2>1, <2>4, <2>5, <2>8, <2>9 DEF Mu!Level, MutexAssumption
      <4> QED BY <3>1, <4>1, <4>2
    <3> QED BY <3>1, <3>2, <2>7, <1>6
  <2>11. Elsewhere(t, o, m)
    <3>1. \A x \in Mutexes : x # m => prioceiling'[x] = prioceiling[x]
      BY <2>7, <1>6
    <3> QED BY <3>1, <2>2, <2>3, <2>9, <1>2, <1>4 DEF Elsewhere
  <2>12. OwnerOK(o, m)
    <3>1. call'[o] = call[o] /\ \A x \in Mutexes : ~WaitsFor(o, x)'
      BY <2>1, <2>2, <2>3 DEF WaitsFor
    <3> QED BY <3>1, <2>2, <2>10, <1>4 DEF OwnerOK
  <2>13. \A v \in Pthreads : owner'[m] = {v} => v = o
    BY <2>1, <1>4
  <2> QED BY <2>1, <2>11, <2>12, <2>13, <1>4, FlatStep
<1> QED BY <1>3, <1>5, <1>6, ResetTurn

LEMMA FlatLockBlock ==
  ASSUME MutexAssumption, MutexIInv, Flat, FlatOK, NEW t \in Pthreads, NEW c \in Mu!NewCalls(t), Mu!LockBlock(t, c),
         Protocol[c.on] = "INHERIT"
  PROVE  FlatOK'
<1>1. MutexTyped /\ MutexTokens /\ MutexLists /\ OneEach /\ Above /\ Reaches
  BY DEF MutexIInv, FlatOK
<1>2. PICK m \in Mutexes : m = c.on
  BY NewCall DEF Mu!LockBlock
<1>3. /\ Mu!MayCall(t, c) /\ call' = [call EXCEPT ![t] = c] /\ UNCHANGED <<owner, lockCnt>>
      /\ Mu!setInheritPriority(m, runPri[t]) /\ waitList' = [waitList EXCEPT ![m] = Append(@, t)]
  BY <1>2 DEF Mu!LockBlock
<1>4. (\A x \in Mutexes : ~WaitsFor(t, x) /\ owner[x] # {t} /\ ~Contains(waitList[x], t)) /\ m \in Inherits
  <2>1. \A x \in Mutexes : ~WaitsFor(t, x) /\ owner[x] # {t}
    BY <1>3, NewCall, FlatCall
  <2> QED BY <2>1, <1>2, ListedWaits DEF Inherits
<1>5. /\ \A u \in Pthreads : u # t => call'[u] = call[u]
      /\ \A x \in Mutexes : x # m => waitList'[x] = waitList[x]
      /\ \A u \in Pthreads : Contains(waitList'[m], u) => Contains(waitList[m], u) \/ u = t
  <2>1. waitList[m] \in Seq(Pthreads) /\ IsInjective(waitList[m])
    BY <1>1, MutexTypes DEF MutexLists
  <2>2. waitList'[m] = Append(waitList[m], t) /\ \A x \in Mutexes : x # m => waitList'[x] = waitList[x]
    BY <1>1, <1>3 DEF MutexTyped
  <2>3. \A u : Contains(Append(waitList[m], t), u) => Contains(waitList[m], u) \/ u = t
    BY <2>1, <1>4, Appended
  <2> QED BY <2>2, <2>3, <1>1, <1>3 DEF MutexTyped
<1> DEFINE R == {x \in {m} : \E o \in owner[x] : runPri[o] < runPri[t]}
<1>6. /\ runPri' = [u \in Pthreads |-> IF \E x \in R : owner[x] = {u} THEN runPri[t] ELSE runPri[u]]
      /\ prioceiling' = [x \in Mutexes |-> IF x \in R THEN runPri[t] ELSE prioceiling[x]]
  <2>1. Mu!Raised(m, runPri[t]) = R
    BY <1>4, RaisedFlat
  <2> HIDE DEF R
  <2> QED BY <2>1, <1>3 DEF Mu!setInheritPriority, Mu!Owned
<1>7. /\ \A x \in Mutexes : x # m => prioceiling'[x] = prioceiling[x]
      /\ \A u \in Pthreads : owner[m] # {u} => runPri'[u] = runPri[u]
  BY <1>6
<1>8. \A u \in Pthreads : runPri[u] \in Int
  BY <1>1 DEF MutexTyped, Mu!Level, MutexAssumption
<1>9. CASE owner[m] = {}
  <2>1. \A u \in Pthreads : owner[m] # {u}
    BY <1>9
  <2>2. Elsewhere(t, t, m)
    BY <2>1, <1>3, <1>4, <1>5, <1>7 DEF Elsewhere
  <2> QED BY <2>1, <2>2, <1>3, FlatStep
<1>10. ASSUME NEW o \in Pthreads, owner[m] = {o} PROVE FlatOK'
  <2>1. /\ o # t /\ call'[o] = call[o] /\ call[o].at # "reset"
        /\ \A x \in Mutexes : ~WaitsFor(o, x) /\ (x # m => owner[x] # {o} /\ ~Contains(waitList[x], o))
    BY <1>1, <1>4, <1>5, <1>10, OwnersDoNotWait DEF OneEach
  <2>2. Elsewhere(t, o, m)
    <3>1. \A u \in Pthreads : u # o => runPri'[u] = runPri[u]
      BY <1>7, <1>10
    <3> QED BY <2>1, <3>1, <1>3, <1>4, <1>5, <1>7 DEF Elsewhere
  <2>3. runPri'[o] = (IF runPri[o] < runPri[t] THEN runPri[t] ELSE runPri[o])
        /\ prioceiling'[m] = (IF runPri[o] < runPri[t] THEN runPri[t] ELSE prioceiling[m])
    <3>1. m \in R <=> runPri[o] < runPri[t]
      BY <1>10
    <3>2. (\E x \in R : owner[x] = {o}) <=> m \in R
      BY <1>10
    <3> HIDE DEF R
    <3> QED BY <3>1, <3>2, <1>6
  <2>4. OwnerOK(o, m)
    <3>1. lockCnt'[m] <= 1
      BY <1>1, <1>3, <1>10 DEF OneEach
    <3>2. \A x \in Mutexes : ~WaitsFor(o, x)'
      BY <2>1 DEF WaitsFor
    <3>3. ASSUME NEW u \in Pthreads, Contains(waitList'[m], u) PROVE runPri'[u] <= runPri'[o]
      <4>1. u = t \/ runPri[u] <= runPri[o]
        BY <3>3, <1>1, <1>5, <1>10 DEF Above
      <4>2. u # o
        BY <3>3, <1>5, <1>10, <2>1, OwnersDoNotWait
      <4>3. runPri'[u] = runPri[u]
        BY <4>2, <1>7, <1>10
      <4> QED BY <4>1, <4>3, <2>3, <1>8
    <3>4. Protocol[m] # "NONE" /\ call'[o].at \notin Adjusting => runPri'[o] >= prioceiling'[m]
      <4>1. Protocol[m] # "NONE" /\ call[o].at \notin Adjusting => runPri[o] >= prioceiling[m]
        BY <1>1, <1>10 DEF Reaches
      <4> QED BY <4>1, <2>1, <2>3, <1>8
    <3> QED BY <2>1, <3>1, <3>2, <3>3, <3>4 DEF OwnerOK
  <2>5. \A v \in Pthreads : owner'[m] = {v} => v = o
    BY <1>3, <1>10
  <2> QED BY <2>2, <2>4, <2>5, FlatStep
<1> QED BY <1>1, <1>9, <1>10 DEF MutexTokens, TokenOK

\* The waiter leaves the list, and its turns begin.
LEMMA FlatTimedOut ==
  ASSUME MutexAssumption, MutexIInv, Flat, FlatOK, NEW t \in Pthreads, Mu!TimedOut(t), Protocol[call[t].on] = "INHERIT"
  PROVE  FlatOK'
<1>1. MutexTyped /\ MutexLists /\ OneEach /\ Above /\ Reaches
  BY DEF MutexIInv, FlatOK
<1>2. call[t].at = "timedOut" /\ Mu!Goto(t, "reset")
  BY MutexUnblocked DEF Mu!TimedOut
<1>3. PICK m \in Mutexes : m = call[t].on
  BY <1>1, <1>2, MutexTypes
<1> DEFINE v == Mu!RemoveFirst(waitList[m], t)
<1>4. waitList' = [waitList EXCEPT ![m] = v] /\ UNCHANGED <<owner, lockCnt, prioceiling, runPri>>
  BY <1>3 DEF Mu!TimedOut, Mu!Without
<1>5. \A x \in Mutexes, y \in Pthreads : Contains(waitList'[x], y) => Contains(waitList[x], y)
  <2>1. waitList[m] \in Seq(Pthreads) /\ IsInjective(waitList[m])
    BY <1>1, MutexTypes DEF MutexLists
  <2>2. \A y : Contains(v, y) => Contains(waitList[m], y)
    BY <2>1, MutexTakesOut
  <2> HIDE DEF v
  <2> QED BY <2>2, <1>1, <1>4 DEF MutexTyped
<1>6. \A x \in Mutexes : owner[x] # {t}
  <2>1. WaitsFor(t, m)
    BY <1>2, <1>3 DEF WaitsFor
  <2> QED BY <2>1, <1>1 DEF OneEach
<1>7. \A u \in Pthreads : u # t => call'[u] = call[u] /\ \A x \in Mutexes : WaitsFor(u, x)' <=> WaitsFor(u, x)
  BY <1>1, <1>2 DEF WaitsFor, Mu!Goto, MutexTyped
<1>8. OneEach' /\ Above' /\ Reaches'
  <2>1. OneEach'
    BY <1>1, <1>4, <1>6, <1>7 DEF OneEach
  <2>2. Above'
    BY <1>1, <1>4, <1>5 DEF Above
  <2>3. Reaches'
    BY <1>1, <1>4, <1>6, <1>7 DEF Reaches
  <2> QED BY <2>1, <2>2, <2>3
<1> QED BY <1>8 DEF FlatOK

LEMMA FlatInit == MutexAssumption /\ Mu!Init => FlatIInv
<1> SUFFICES ASSUME MutexAssumption, Mu!Init PROVE FlatIInv
  OBVIOUS
<1>1. MutexIInv
  BY MutexInit
<1>2. owner = [m \in Mutexes |-> {}]
  BY DEF Mu!Init
<1>3. \A m \in Mutexes, t \in Pthreads : owner[m] # {t}
  BY <1>2
<1>4. OneEach
  BY <1>3 DEF OneEach
<1>5. Above /\ Reaches
  BY <1>3 DEF Above, Reaches
<1> QED BY <1>1, <1>4, <1>5 DEF FlatIInv, FlatOK

LEMMA FlatNext == MutexAssumption /\ FlatIInv /\ [Mu!Next]_(Mu!vars) => FlatIInv'
<1> SUFFICES ASSUME MutexAssumption, FlatIInv, [Mu!Next]_(Mu!vars) PROVE FlatIInv'
  OBVIOUS
<1>1. MutexIInv /\ MutexIInv'
  BY MutexNext DEF FlatIInv
<1>2. app' = app
  <2>1. ASSUME NEW t \in Pthreads, NEW c,
               Mu!LockAgain(t, c) \/ Mu!LockFree(t, c) \/ Mu!LockBlock(t, c) \/ Mu!LockNone(t, c)
        PROVE  app' = app
    <3>1. Mu!MayCall(t, c)
      BY <2>1 DEF Mu!LockAgain, Mu!LockFree, Mu!LockBlock, Mu!LockNone
    <3> QED BY <3>1 DEF Mu!MayCall
  <2>2. ASSUME NEW t \in Pthreads, Mu!Pend(t) \/ Mu!Taken(t) \/ Mu!TimedOut(t) \/ Mu!resetInheritPriority(t)
        PROVE  app' = app
    BY <2>2 DEF Mu!Pend, Mu!Taken, Mu!TimedOut, Mu!resetInheritPriority
  <2>3. ASSUME NEW t \in Pthreads, Mu!WriteCeiling(t) \/ Mu!GetPri(t) \/ Mu!SetPri(t) \/ Mu!TimeOut(t)
        PROVE  app' = app
    BY <2>3 DEF Mu!WriteCeiling, Mu!GetPri, Mu!SetPri, Mu!TimeOut
  <2>4. ASSUME NEW t \in Pthreads, (\E m \in Mutexes : Mu!Unlock(t, m)) \/ \E p \in Mu!Level : Mu!SetSchedParam(t, p)
        PROVE  app' = app
    BY <2>4 DEF Mu!Unlock, Mu!SetSchedParam
  <2>5. CASE UNCHANGED Mu!vars
    BY <2>5 DEF Mu!vars
  <2> QED BY <2>1, <2>2, <2>3, <2>4, <2>5 DEF Mu!Next
<1>3. SUFFICES ASSUME Flat PROVE FlatOK'
  BY <1>1, <1>2 DEF FlatIInv, Flat
<1>4. FlatOK
  BY <1>3 DEF FlatIInv
<1>5. ASSUME NEW t \in Pthreads, NEW c \in Mu!NewCalls(t),
             Mu!LockAgain(t, c) \/ Mu!LockFree(t, c) \/ Mu!LockBlock(t, c) \/ Mu!LockNone(t, c)
      PROVE  FlatOK'
  <2>1. CASE Mu!LockAgain(t, c)
    <3>1. Mu!MayCall(t, c) /\ owner[c.on] = {t}
      BY <2>1 DEF Mu!LockAgain, Mu!Owned
    <3>2. c.on \in Mutexes
      BY <3>1, <1>1, NewCall
    <3> QED BY <3>1, <3>2, <1>1, <1>3, FlatCall
  <2>2. CASE Mu!LockFree(t, c)
    BY <2>2, <1>1, <1>3, <1>4, FlatLockFree
  <2>3. CASE Mu!LockBlock(t, c) /\ Protocol[c.on] = "INHERIT"
    BY <2>3, <1>1, <1>3, <1>4, FlatLockBlock
  <2>4. CASE Mu!LockNone(t, c) \/ (Mu!LockBlock(t, c) /\ Protocol[c.on] # "INHERIT")
    BY <2>4, <1>1, <1>3, <1>4, FlatWaits
  <2> QED BY <1>5, <2>1, <2>2, <2>3, <2>4
<1>6. ASSUME NEW t \in Pthreads,
             \/ Mu!Pend(t) \/ Mu!Taken(t) \/ Mu!TimedOut(t) \/ Mu!resetInheritPriority(t)
             \/ Mu!WriteCeiling(t) \/ Mu!GetPri(t) \/ Mu!SetPri(t) \/ Mu!TimeOut(t)
             \/ \E m \in Mutexes : Mu!Unlock(t, m)
             \/ \E p \in Mu!Level : Mu!SetSchedParam(t, p)
      PROVE  FlatOK'
  <2>1. CASE Mu!Pend(t) \/ Mu!TimeOut(t) \/ (Mu!TimedOut(t) /\ Protocol[call[t].on] # "INHERIT")
    BY <2>1, <1>1, <1>3, <1>4, FlatWaits
  <2>2. CASE Mu!TimedOut(t) /\ Protocol[call[t].on] = "INHERIT"
    BY <2>2, <1>1, <1>3, <1>4, FlatTimedOut
  <2>3. CASE \/ Mu!Taken(t) \/ Mu!WriteCeiling(t) \/ Mu!GetPri(t) \/ Mu!SetPri(t)
             \/ Mu!resetInheritPriority(t) \/ \E m \in Mutexes : Mu!Unlock(t, m)
    BY <2>3, <1>1, <1>3, <1>4, FlatTaken, FlatSets, FlatReset, FlatUnlock
  <2>4. CASE \E p \in Mu!Level : Mu!SetSchedParam(t, p)
    BY <2>4, <1>3 DEF Mu!SetSchedParam, Flat
  <2> QED BY <1>6, <2>1, <2>2, <2>3, <2>4
<1>7. CASE UNCHANGED Mu!vars
  <2>1. UNCHANGED <<owner, lockCnt, prioceiling, waitList, runPri, call>>
    BY <1>7 DEF Mu!vars, Mu!mutexVars
  <2> QED BY <2>1, <1>4 DEF FlatOK, OneEach, Above, Reaches, WaitsFor
<1> QED BY <1>5, <1>6, <1>7 DEF Mu!Next

LEMMA FlatIInvPriority == FlatIInv /\ app.depth = 1 => Mu!MutexPriority
<1> SUFFICES ASSUME FlatIInv, app.depth = 1 PROVE Mu!MutexPriority
  OBVIOUS
<1>1. Mu!OwnPriority /\ MutexTyped /\ MutexTokens
  BY DEF FlatIInv, MutexIInv
<1>2. SUFFICES ASSUME app \in Mu!RaisedForOne PROVE Mu!RunsAtCeiling /\ Mu!Inheritance
  BY <1>1 DEF Mu!MutexPriority
<1>3. OneEach /\ Above /\ Reaches
  <2>1. Flat
    BY <1>2 DEF Mu!RaisedForOne, Flat
  <2> QED BY <2>1 DEF FlatIInv, FlatOK
<1>4. Mu!RunsAtCeiling
  <2>1. ASSUME NEW t \in Pthreads, NEW m \in Mutexes, owner[m] = {t}, call[t].at \in Adjusting PROVE Mu!Adjusts(t, m)
    <3>1. call[t].on \in Mutexes /\ owner[call[t].on] = {t}
      BY <2>1, <1>1, MutexTypes DEF FlatIInv, MutexIInv, CeilingsOK, Adjusting, Setting
    <3>2. call[t].on = m /\ lockCnt[m] <= 1
      BY <2>1, <3>1, <1>3 DEF OneEach
    <3>3. lockCnt[m] \in Nat /\ lockCnt[m] # 0
      <4>1. TokenOK(m) /\ {t} # {}
        BY <1>1 DEF MutexTokens
      <4> QED BY <4>1, <2>1, <1>1, MutexTypes DEF TokenOK
    <3>4. lockCnt[m] = 1
      BY <3>2, <3>3
    <3> QED BY <2>1, <3>2, <3>4 DEF Mu!Adjusts, Adjusting
  <2> QED BY <2>1, <1>3 DEF Reaches, Mu!RunsAtCeiling, Mu!mutexList, Mu!Owned
<1>5. Mu!Inheritance
  <2>1. ASSUME NEW m \in Mutexes, NEW o \in owner[m], NEW u \in Mu!ToSet(waitList[m])
        PROVE  runPri[u] <= runPri[o]
    <3>1. waitList[m] \in Seq(Pthreads)
      BY <1>1, MutexTypes
    <3>2. u \in Pthreads /\ Contains(waitList[m], u)
      BY <3>1 DEF Mu!ToSet, Contains
    <3>3. owner[m] = {o} /\ o \in Pthreads
      <4>1. owner[m] # {} /\ TokenOK(m)
        BY <1>1 DEF MutexTokens
      <4> QED BY <4>1 DEF TokenOK
    <3> QED BY <3>2, <3>3, <1>3 DEF Above
  <2> QED BY <2>1 DEF Mu!Inheritance
<1> QED BY <1>4, <1>5

(* The life of a thread.                                                   *)

ExitPCs   == {"exit", "exitPost", "exitList", "stop"}
JoinPCs   == {"join", "joined"}
CancelPCs == {"cancel", "cancelPost", "cancelDelete"}

Joins(a, t)   == call[a].at \in JoinPCs /\ call[a].on = t
Cancels(a, t) == call[a].at \in CancelPCs /\ call[a].on = t

\* t has given its token or gone to terminatedList, or who cancels it has.
Over(t) ==
  \/ life[t] = "live" /\ call[t].at = "stop"
  \/ life[t] = "stopped" /\ \A a \in Pthreads : Cancels(a, t) => call[a].at = "cancelDelete"

\* t is to be deleted by the Idle task.
Listed(t) == t \in idle \/ Contains(terminatedList, t)

CallersOK ==
  \A a \in Pthreads :
    /\ call[a].at \notin {"user", "stop"} => life[a] = "live"
    /\ life[a] \in {"none", "stopped"} => call[a].at = "user"
    /\ call[a].at \in ExitPCs => call[a].on = a /\ a \in cancelDisabled
    /\ call[a].at = "exitPost" => a \notin detached
    /\ call[a].at = "exitList" => a \in detached
    /\ life[a] = "stopped" => a \in cancelDisabled \cup cancelPending

\* The call of a on t is one that the application makes, and keeps t there.
JoinersOK ==
  \A a, t \in Pthreads :
    Joins(a, t) => /\ a # t /\ joinThread[t] = {a} /\ t \notin detached
                   /\ life[t] \in {"live", "stopped"} /\ <<a, "join", t>> \in app.calls

CancellersOK ==
  \A a, t \in Pthreads :
    Cancels(a, t) => /\ a # t /\ life[t] = "stopped" /\ <<a, "cancel", t>> \in app.calls
                     /\ call[a].at = "cancelPost" => t \notin detached
                     /\ call[a].at = "cancelDelete" => t \in detached
                     /\ \A b \in Pthreads : Cancels(b, t) => b = a

JoinWaitsOK ==
  /\ \A a \in Pthreads :
       /\ tOutcome[a] \in {"idle", "forever", "granted"}
       /\ tOutcome[a] # "idle" => call[a].at = "join"
       /\ tOutcome[a] = "forever" => tWaiting[call[a].on] = <<a>> /\ tAvail[call[a].on] = 0
  /\ \A t \in Pthreads :
       tWaiting[t] = <<>> \/ \E a \in Pthreads : tWaiting[t] = <<a>> /\ call[a].on = t /\ tOutcome[a] = "forever"

\* Who has, or may take, the token of t.
TokenThere(t) == tAvail[t] = 1 \/ \E a \in Pthreads : Joins(a, t) /\ (call[a].at = "joined" \/ tOutcome[a] = "granted")

ThreadOK(t) ==
  /\ Over(t) /\ t \notin detached => TokenThere(t) /\ ~Listed(t)
  /\ Over(t) /\ t \in detached =>
       tAvail[t] = 0 /\ (Listed(t) <=> ~\E a \in Pthreads : Cancels(a, t))
  /\ ~Over(t) => ~Listed(t) /\ (life[t] = "freed" \/ ~TokenThere(t))
  /\ life[t] = "none" => t \notin detached /\ joinThread[t] = {}
  /\ joinThread[t] = {} \/ life[t] = "freed" \/ \E a \in Pthreads : joinThread[t] = {a} /\ Joins(a, t)

ThreadsOver == \A t \in Pthreads : ThreadOK(t)

IdleOK == idle = {} \/ \E t \in Pthreads : idle = {t} /\ ~Contains(terminatedList, t)

LifeTyped ==
  /\ tAvail \in [Pthreads -> 0 .. 1] /\ tWaiting \in [Pthreads -> Seq(Pthreads)] /\ tOutcome \in [Pthreads -> Th!Sem!Outcomes]
  /\ life \in [Pthreads -> {"none", "live", "stopped", "freed"}]
  /\ detached \in SUBSET Pthreads /\ joinThread \in [Pthreads -> SUBSET Pthreads]
  /\ cancelDisabled \in SUBSET Pthreads /\ cancelPending \in SUBSET Pthreads
  /\ terminatedList \in Seq(Pthreads) /\ IsInjective(terminatedList)
  /\ call \in [Pthreads -> {Th!User} \cup [at : Th!PCs, on : Pthreads]]
  /\ app \in LifeApps

LifeIInv == LifeTyped /\ CallersOK /\ JoinersOK /\ CancellersOK /\ JoinWaitsOK /\ ThreadsOver /\ IdleOK

-----------------------------------------------------------------------------
(* Where threads are.                                                      *)

LEMMA LifeTypes ==
  ASSUME LifeTyped
  PROVE  /\ \A t \in Pthreads : (tAvail[t] = 0 \/ tAvail[t] = 1) /\ tWaiting[t] \in Seq(Pthreads)
         /\ \A t \in Pthreads : life[t] \in {"none", "live", "stopped", "freed"} /\ joinThread[t] \in SUBSET Pthreads
         /\ \A t \in Pthreads : call[t].at \in Th!PCs \cup {"user"} /\ (call[t].at = "user" => call[t] = Th!User)
                                /\ (call[t].at # "user" => call[t].on \in Pthreads /\ call[t] = Th!On(call[t].at, call[t].on))
         /\ app \in LifeApps
<1>1. /\ \A t \in Pthreads : (tAvail[t] = 0 \/ tAvail[t] = 1) /\ tWaiting[t] \in Seq(Pthreads)
      /\ \A t \in Pthreads : life[t] \in {"none", "live", "stopped", "freed"} /\ joinThread[t] \in SUBSET Pthreads
      /\ app \in LifeApps
  BY DEF LifeTyped
<1>2. ASSUME NEW t \in Pthreads
      PROVE  /\ call[t].at \in Th!PCs \cup {"user"} /\ (call[t].at = "user" => call[t] = Th!User)
             /\ (call[t].at # "user" => call[t].on \in Pthreads /\ call[t] = Th!On(call[t].at, call[t].on))
  <2>1. call[t] = Th!User \/ call[t] \in [at : Th!PCs, on : Pthreads]
    BY DEF LifeTyped
  <2>2. CASE call[t] = Th!User
    BY <2>2 DEF Th!User
  <2>3. CASE call[t] \in [at : Th!PCs, on : Pthreads]
    BY <2>3 DEF Th!PCs, Th!On
  <2> QED BY <2>1, <2>2, <2>3
<1> QED BY <1>1, <1>2

\* A thread goes on to another step of a call.
LEMMA Steps ==
  ASSUME LifeTyped, NEW a \in Pthreads, NEW l \in Th!PCs, NEW t \in Pthreads, Th!Goto(a, Th!On(l, t))
  PROVE  /\ call' \in [Pthreads -> {Th!User} \cup [at : Th!PCs, on : Pthreads]]
         /\ call'[a].at = l /\ call'[a].on = t /\ \A b \in Pthreads : b # a => call'[b] = call[b]
<1>1. Th!On(l, t) \in [at : Th!PCs, on : Pthreads] /\ Th!On(l, t).at = l /\ Th!On(l, t).on = t
  BY DEF Th!On
<1> QED BY <1>1 DEF LifeTyped, Th!Goto

\* A thread is back in its own code.
LEMMA Leaves ==
  ASSUME LifeTyped, NEW a \in Pthreads, Th!Goto(a, Th!User)
  PROVE  /\ call' \in [Pthreads -> {Th!User} \cup [at : Th!PCs, on : Pthreads]]
         /\ call'[a].at = "user" /\ \A b \in Pthreads : b # a => call'[b] = call[b]
<1>1. Th!User.at = "user"
  BY DEF Th!User
<1> QED BY <1>1 DEF LifeTyped, Th!Goto

\* A step that is not about t.
LEMMA ThreadStays ==
  ASSUME NEW t \in Pthreads, ThreadOK(t),
         Over(t)' <=> Over(t), t \in detached' <=> t \in detached, Listed(t)' <=> Listed(t),
         tAvail'[t] = tAvail[t], life'[t] = life[t], joinThread'[t] = joinThread[t],
         \A a \in Pthreads : (Cancels(a, t)' <=> Cancels(a, t)) /\ (Joins(a, t)' <=> Joins(a, t)),
         TokenThere(t)' <=> TokenThere(t)
  PROVE  ThreadOK(t)'
BY DEF ThreadOK

\* Who waits is not disturbed.
LEMMA WaitsKept ==
  ASSUME JoinWaitsOK, UNCHANGED <<tWaiting, tOutcome>>,
         \A b \in Pthreads : /\ tOutcome[b] # "idle" => call'[b] = call[b]
                             /\ tOutcome[b] = "forever" => tAvail'[call[b].on] = tAvail[call[b].on]
  PROVE  JoinWaitsOK'
<1>1. ASSUME NEW t \in Pthreads
      PROVE  tWaiting[t] = <<>> \/ \E b \in Pthreads : tWaiting[t] = <<b>> /\ call'[b].on = t /\ tOutcome[b] = "forever"
  BY DEF JoinWaitsOK
<1>2. ASSUME NEW b \in Pthreads
      PROVE  /\ tOutcome[b] \in {"idle", "forever", "granted"}
             /\ tOutcome[b] # "idle" => call'[b].at = "join"
             /\ tOutcome[b] = "forever" => tWaiting[call'[b].on] = <<b>> /\ tAvail'[call'[b].on] = 0
  <2>1. /\ tOutcome[b] \in {"idle", "forever", "granted"}
        /\ tOutcome[b] # "idle" => call[b].at = "join"
        /\ tOutcome[b] = "forever" => tWaiting[call[b].on] = <<b>> /\ tAvail[call[b].on] = 0
    BY DEF JoinWaitsOK
  <2>2. CASE tOutcome[b] = "idle"
    BY <2>1, <2>2
  <2>3. CASE tOutcome[b] # "idle"
    BY <2>1, <2>3
  <2> QED BY <2>2, <2>3
<1>3. tWaiting' = tWaiting /\ tOutcome' = tOutcome
  OBVIOUS
<1> QED BY <1>1, <1>2, <1>3 DEF JoinWaitsOK

LEMMA WaitsStay ==
  ASSUME JoinWaitsOK, UNCHANGED <<tAvail, tWaiting, tOutcome>>, NEW a \in Pthreads, call[a].at # "join",
         \A b \in Pthreads : b # a => call'[b] = call[b]
  PROVE  JoinWaitsOK'
<1>1. \A b \in Pthreads : tOutcome[b] # "idle" => call'[b] = call[b]
  BY DEF JoinWaitsOK
<1> QED BY <1>1, WaitsKept

-----------------------------------------------------------------------------
(* Exits, creation and detaching.                                          *)

\* Steps that leave the semaphores, the lists and the calls on other threads alone.
LEMMA CallStep ==
  ASSUME LifeIInv, NEW a \in Pthreads,
         UNCHANGED <<tAvail, tWaiting, tOutcome, joinThread, terminatedList, idle, app>>,
         \A b \in Pthreads : b # a => call'[b] = call[b],
         call[a].at \notin JoinPCs \cup CancelPCs, call'[a].at \notin JoinPCs \cup CancelPCs,
         \A t \in Pthreads : Over(t)' <=> Over(t),
         \A t \in Pthreads : (t \in detached' <=> t \in detached) \/ (life[t] # "stopped" /\ ~Over(t) /\ joinThread[t] = {}),
         \A t \in Pthreads : life'[t] = life[t] \/ (life[t] = "none" /\ life'[t] = "live") \/ (life[t] = "live" /\ life'[t] = "stopped"),
         \A t \in Pthreads : life'[t] = "none" => t \notin detached'
  PROVE  JoinersOK' /\ CancellersOK' /\ JoinWaitsOK' /\ ThreadsOver' /\ IdleOK'
<1>1. JoinersOK /\ CancellersOK /\ JoinWaitsOK /\ ThreadsOver /\ IdleOK
  BY DEF LifeIInv
<1>2. \A t, b \in Pthreads : /\ (Cancels(b, t)' <=> Cancels(b, t)) /\ (Joins(b, t)' <=> Joins(b, t))
                             /\ Cancels(b, t) \/ Joins(b, t) => call'[b] = call[b] /\ b # a
  BY DEF Cancels, Joins
<1>3. JoinersOK'
  BY <1>1, <1>2 DEF JoinersOK
<1>4. CancellersOK'
  BY <1>1, <1>2 DEF CancellersOK
<1>5. \A b \in Pthreads : call[b].at = "join" => call'[b] = call[b]
  BY DEF JoinPCs
<1>6. JoinWaitsOK'
  <2>1. \A b \in Pthreads : tOutcome[b] # "idle" => call'[b] = call[b]
    BY <1>1, <1>5 DEF JoinWaitsOK
  <2> QED BY <1>1, <2>1, WaitsKept
<1>7. ASSUME NEW t \in Pthreads PROVE ThreadOK(t)'
  <2>1. ThreadOK(t)
    BY <1>1 DEF ThreadsOver
  <2>2. (Listed(t)' <=> Listed(t)) /\ (TokenThere(t)' <=> TokenThere(t))
    BY <1>2 DEF Listed, TokenThere
  <2> QED BY <2>1, <2>2, <1>2 DEF ThreadOK
<1> QED BY <1>1, <1>3, <1>4, <1>6, <1>7 DEF ThreadsOver, IdleOK

\* Nobody cancels a thread that has not stopped.
LEMMA OverOf ==
  ASSUME LifeIInv, NEW t \in Pthreads
  PROVE  /\ life[t] \in {"none", "freed"} => ~Over(t)
         /\ life[t] = "live" => (Over(t) <=> call[t].at = "stop") /\ \A a \in Pthreads : ~Cancels(a, t)
         /\ life[t] = "freed" => \A a \in Pthreads : ~Cancels(a, t) /\ ~Joins(a, t)
         /\ life[t] = "none" => \A a \in Pthreads : ~Cancels(a, t) /\ ~Joins(a, t)
BY DEF LifeIInv, CancellersOK, JoinersOK, Over

LEMMA CreatePreserves ==
  ASSUME LifeIInv, NEW a \in Pthreads, NEW t \in Pthreads, NEW d \in BOOLEAN, Th!pthread_create(a, t, d)
  PROVE  LifeIInv'
<1>1. LifeTyped /\ CallersOK /\ ThreadsOver
  BY DEF LifeIInv
<1>2. /\ call[a].at = "user" /\ life[t] = "none" /\ life' = [life EXCEPT ![t] = "live"]
      /\ detached' \in {detached, detached \cup {t}}
      /\ UNCHANGED <<tAvail, tWaiting, tOutcome, joinThread, cancelDisabled, cancelPending, terminatedList, idle, call, app>>
  BY DEF Th!pthread_create, Th!At, Th!semVars, Th!listVars
<1>3. life'[t] = "live" /\ \A u \in Pthreads : u # t => life'[u] = life[u] /\ (u \in detached' <=> u \in detached)
  BY <1>1, <1>2 DEF LifeTyped
<1>4. LifeTyped'
  BY <1>1, <1>2 DEF LifeTyped
<1>5. CallersOK'
  BY <1>1, <1>2, <1>3 DEF CallersOK, ExitPCs
<1>6. ASSUME NEW u \in Pthreads PROVE Over(u)' <=> Over(u)
  <2>1. CASE u = t
    BY <2>1, <1>1, <1>2, <1>3 DEF Over, CallersOK
  <2>2. CASE u # t
    BY <2>2, <1>2, <1>3 DEF Over, Cancels
  <2> QED BY <2>1, <2>2
<1>7. joinThread[t] = {} /\ ~Over(t)
  BY <1>1, <1>2, OverOf DEF ThreadsOver, ThreadOK
<1>8. \A u \in Pthreads : life'[u] = "none" => u \notin detached'
  BY <1>1, <1>3 DEF ThreadsOver, ThreadOK
<1>9. JoinersOK' /\ CancellersOK' /\ JoinWaitsOK' /\ ThreadsOver' /\ IdleOK'
  BY <1>2, <1>3, <1>6, <1>7, <1>8, CallStep DEF JoinPCs, CancelPCs
<1> QED BY <1>4, <1>5, <1>9 DEF LifeIInv

\* A thread begins to exit, or reads detached.
LEMMA ExitPreserves ==
  ASSUME LifeIInv, NEW a \in Pthreads, Th!ExitCall(a) \/ Th!Exit(a)
  PROVE  LifeIInv'
<1>1. LifeTyped /\ CallersOK /\ ThreadsOver
  BY DEF LifeIInv
<1>2. PICK l \in {"exit", "exitPost", "exitList"} :
        /\ life[a] = "live" /\ call[a].at = (IF l = "exit" THEN "user" ELSE "exit")
        /\ Th!Goto(a, Th!On(l, a))
        /\ cancelDisabled' = cancelDisabled \cup {a}
        /\ l = "exitPost" => a \notin detached
        /\ l = "exitList" => a \in detached
        /\ UNCHANGED <<tAvail, tWaiting, tOutcome, life, detached, joinThread, cancelPending, terminatedList, idle, app>>
  <2>1. CASE Th!ExitCall(a)
    BY <2>1 DEF Th!ExitCall, Th!At, Th!semVars, Th!listVars
  <2>2. CASE Th!Exit(a)
    <3>1. call[a].at = "exit" /\ a \in cancelDisabled
      BY <2>2, <1>1 DEF Th!Exit, Th!At, CallersOK, ExitPCs
    <3>2. cancelDisabled' = cancelDisabled \cup {a}
      BY <2>2, <3>1 DEF Th!Exit, Th!objVars
    <3> QED BY <2>2, <3>1, <3>2 DEF Th!Exit, Th!At, Th!semVars, Th!objVars, Th!listVars
  <2> QED BY <2>1, <2>2
<1>3. /\ call' \in [Pthreads -> {Th!User} \cup [at : Th!PCs, on : Pthreads]]
      /\ call'[a].at = l /\ call'[a].on = a /\ \A b \in Pthreads : b # a => call'[b] = call[b]
  <2>1. l \in Th!PCs
    BY DEF Th!PCs
  <2> QED BY <2>1, <1>1, <1>2, Steps
<1>4. LifeTyped'
  BY <1>1, <1>2, <1>3 DEF LifeTyped
<1>5. CallersOK'
  BY <1>1, <1>2, <1>3 DEF CallersOK, ExitPCs
<1>6. call[a].at \notin JoinPCs \cup CancelPCs /\ call'[a].at \notin JoinPCs \cup CancelPCs
  BY <1>2, <1>3 DEF JoinPCs, CancelPCs
<1>7. ASSUME NEW u \in Pthreads PROVE Over(u)' <=> Over(u)
  BY <1>2, <1>3, <1>6 DEF Over, Cancels
<1>8. \A u \in Pthreads : life'[u] = "none" => u \notin detached'
  BY <1>1, <1>2 DEF ThreadsOver, ThreadOK
<1>9. JoinersOK' /\ CancellersOK' /\ JoinWaitsOK' /\ ThreadsOver' /\ IdleOK'
  BY <1>2, <1>3, <1>6, <1>7, <1>8, CallStep
<1> QED BY <1>4, <1>5, <1>9 DEF LifeIInv

LEMMA StopPreserves ==
  ASSUME LifeIInv, NEW a \in Pthreads, Th!Stop(a)
  PROVE  LifeIInv'
<1>1. LifeTyped /\ CallersOK /\ ThreadsOver
  BY DEF LifeIInv
<1>2. /\ life[a] = "live" /\ call[a].at = "stop" /\ Th!Goto(a, Th!User)
      /\ life' = [life EXCEPT ![a] = "stopped"]
      /\ UNCHANGED <<tAvail, tWaiting, tOutcome, detached, joinThread, cancelDisabled, cancelPending, terminatedList, idle, app>>
  BY DEF Th!Stop, Th!At, Th!semVars, Th!objVars, Th!listVars
<1>3. /\ call' \in [Pthreads -> {Th!User} \cup [at : Th!PCs, on : Pthreads]]
      /\ call'[a].at = "user" /\ \A b \in Pthreads : b # a => call'[b] = call[b]
  BY <1>1, <1>2, Leaves
<1>4. life'[a] = "stopped" /\ \A u \in Pthreads : u # a => life'[u] = life[u]
  BY <1>1, <1>2 DEF LifeTyped
<1>5. LifeTyped'
  BY <1>1, <1>2, <1>3 DEF LifeTyped
<1>6. CallersOK'
  BY <1>1, <1>2, <1>3, <1>4 DEF CallersOK, ExitPCs
<1>7. call[a].at \notin JoinPCs \cup CancelPCs /\ call'[a].at \notin JoinPCs \cup CancelPCs
  BY <1>2, <1>3 DEF JoinPCs, CancelPCs
<1>8. ASSUME NEW u \in Pthreads PROVE Over(u)' <=> Over(u)
  <2>1. \A b \in Pthreads : Cancels(b, u)' <=> Cancels(b, u)
    BY <1>3, <1>7 DEF Cancels
  <2>2. CASE u = a
    BY <2>1, <2>2, <1>2, <1>4, OverOf DEF Over
  <2>3. CASE u # a
    BY <2>3, <1>3, <1>4, <1>7 DEF Over, Cancels
  <2> QED BY <2>2, <2>3
<1>9. \A u \in Pthreads : life'[u] = "none" => u \notin detached'
  BY <1>1, <1>2, <1>4 DEF ThreadsOver, ThreadOK
<1>10. JoinersOK' /\ CancellersOK' /\ JoinWaitsOK' /\ ThreadsOver' /\ IdleOK'
  BY <1>2, <1>3, <1>4, <1>7, <1>8, <1>9, CallStep
<1> QED BY <1>5, <1>6, <1>10 DEF LifeIInv

\* Cancellation is switched on or off; where it has come already, the thread exits.
LEMMA SetCancelStatePreserves ==
  ASSUME LifeIInv, NEW a \in Pthreads, NEW enable \in BOOLEAN, Th!SetCancelState(a, enable)
  PROVE  LifeIInv'
<1>1. LifeTyped /\ CallersOK /\ ThreadsOver
  BY DEF LifeIInv
<1>2. /\ life[a] = "live" /\ call[a].at = "user"
      /\ cancelDisabled' \in {cancelDisabled \cup {a}, cancelDisabled \ {a}}
      /\ \/ Th!Goto(a, Th!On("exit", a)) /\ a \in cancelDisabled'
         \/ UNCHANGED call
      /\ UNCHANGED <<tAvail, tWaiting, tOutcome, life, detached, joinThread, cancelPending, terminatedList, idle, app>>
  BY DEF Th!SetCancelState, Th!At, Th!semVars, Th!listVars
<1>3. /\ call' \in [Pthreads -> {Th!User} \cup [at : Th!PCs, on : Pthreads]]
      /\ \/ call'[a].at = "exit" /\ call'[a].on = a /\ a \in cancelDisabled'
         \/ call'[a] = call[a]
      /\ \A b \in Pthreads : b # a => call'[b] = call[b]
  <2>1. CASE UNCHANGED call
    BY <2>1, <1>1 DEF LifeTyped
  <2>2. CASE Th!Goto(a, Th!On("exit", a)) /\ a \in cancelDisabled'
    <3>1. "exit" \in Th!PCs
      BY DEF Th!PCs
    <3> QED BY <3>1, <2>2, <1>1, Steps
  <2> QED BY <2>1, <2>2, <1>2
<1>4. LifeTyped'
  BY <1>1, <1>2, <1>3 DEF LifeTyped
<1>5. CallersOK'
  BY <1>1, <1>2, <1>3 DEF CallersOK, ExitPCs
<1>6. call[a].at \notin JoinPCs \cup CancelPCs /\ call'[a].at \notin JoinPCs \cup CancelPCs
  BY <1>2, <1>3 DEF JoinPCs, CancelPCs
<1>7. ASSUME NEW u \in Pthreads PROVE Over(u)' <=> Over(u)
  BY <1>2, <1>3, <1>6 DEF Over, Cancels
<1>8. \A u \in Pthreads : life'[u] = "none" => u \notin detached'
  BY <1>1, <1>2 DEF ThreadsOver, ThreadOK
<1>9. JoinersOK' /\ CancellersOK' /\ JoinWaitsOK' /\ ThreadsOver' /\ IdleOK'
  BY <1>2, <1>3, <1>6, <1>7, <1>8, CallStep
<1> QED BY <1>4, <1>5, <1>9 DEF LifeIInv

LEMMA DetachPreserves ==
  ASSUME LifeAssumption, LifeIInv, NEW a \in Pthreads, NEW t \in Pthreads, Th!Detach(a, t)
  PROVE  LifeIInv'
<1>1. LifeTyped /\ CallersOK /\ ThreadsOver
  BY DEF LifeIInv
<1>2. /\ a = t /\ life[a] = "live" /\ call[a].at = "user"
      /\ joinThread[a] = {} /\ a \notin detached /\ detached' = detached \cup {a}
      /\ UNCHANGED <<tAvail, tWaiting, tOutcome, life, joinThread, cancelDisabled, cancelPending, terminatedList, idle, call, app>>
  BY <1>1, LifeTypes DEF Th!Detach, Th!Calls, Th!MayJoin, Th!At, Th!semVars, Th!listVars, LifeAssumption
<1>3. LifeTyped'
  BY <1>1, <1>2 DEF LifeTyped
<1>4. CallersOK'
  BY <1>1, <1>2 DEF CallersOK, ExitPCs
<1>5. call[a].at \notin JoinPCs \cup CancelPCs /\ call' = call
  BY <1>2 DEF JoinPCs, CancelPCs
<1>6. ASSUME NEW u \in Pthreads PROVE Over(u)' <=> Over(u)
  BY <1>2 DEF Over, Cancels
<1>7. ~Over(a)
  BY <1>2, OverOf
<1>8. \A u \in Pthreads : life'[u] = "none" => u \notin detached'
  BY <1>1, <1>2 DEF ThreadsOver, ThreadOK
<1>9. JoinersOK' /\ CancellersOK' /\ JoinWaitsOK' /\ ThreadsOver' /\ IdleOK'
  <2>1. \A u \in Pthreads : (u \in detached' <=> u \in detached) \/ (life[u] # "stopped" /\ ~Over(u) /\ joinThread[u] = {})
    BY <1>2, <1>7
  <2> QED BY <2>1, <1>2, <1>5, <1>6, <1>8, CallStep
<1> QED BY <1>3, <1>4, <1>9 DEF LifeIInv

-----------------------------------------------------------------------------
(* The token of joinSem.                                                   *)

\* Semaphore_post to joinSem, whose token is not there yet, by a thread that
\* does not join.
LEMMA PostStep ==
  ASSUME LifeIInv, NEW a \in Pthreads, NEW t \in Pthreads, Th!Sem!Post(t), ~TokenThere(t),
         \A b \in Pthreads : b # a => call'[b] = call[b],
         call[a].at \notin JoinPCs, call'[a].at \notin JoinPCs
  PROVE  /\ tAvail' \in [Pthreads -> 0 .. 1] /\ tWaiting' \in [Pthreads -> Seq(Pthreads)] /\ tOutcome' \in [Pthreads -> Th!Sem!Outcomes]
         /\ JoinWaitsOK' /\ TokenThere(t)'
         /\ \A u \in Pthreads : u # t => tAvail'[u] = tAvail[u] /\ (TokenThere(u)' <=> TokenThere(u))
<1>1. LifeTyped /\ JoinersOK /\ JoinWaitsOK
  BY DEF LifeIInv
<1>2. \A b \in Pthreads : call[b].at = "join" \/ call'[b].at = "join" \/ tOutcome[b] # "idle" => b # a /\ call'[b] = call[b] 
  BY <1>1 DEF JoinPCs, JoinWaitsOK
<1>3. \A b, u \in Pthreads : /\ Joins(b, u)' <=> Joins(b, u)
                             /\ Joins(b, u) => call'[b] = call[b]
  BY DEF Joins
<1>4. CASE tWaiting[t] = <<>>
  <2>1. tAvail' = [tAvail EXCEPT ![t] = 1] /\ UNCHANGED <<tWaiting, tOutcome>>
    BY <1>1, <1>4 DEF Th!Sem!Post
  <2>2. tAvail' \in [Pthreads -> 0 .. 1] /\ tAvail'[t] = 1 /\ \A u \in Pthreads : u # t => tAvail'[u] = tAvail[u]
    BY <2>1, <1>1 DEF LifeTyped
  <2>3. JoinWaitsOK'
    <3>1. ASSUME NEW u \in Pthreads
          PROVE  tWaiting[u] = <<>> \/ \E b \in Pthreads : tWaiting[u] = <<b>> /\ call'[b].on = u /\ tOutcome[b] = "forever"
      BY <1>1, <1>2 DEF JoinWaitsOK
    <3>2. ASSUME NEW b \in Pthreads
          PROVE  /\ tOutcome[b] \in {"idle", "forever", "granted"}
                 /\ tOutcome[b] # "idle" => call'[b].at = "join"
                 /\ tOutcome[b] = "forever" => tWaiting[call'[b].on] = <<b>> /\ tAvail'[call'[b].on] = 0
      <4>1. /\ tOutcome[b] \in {"idle", "forever", "granted"}
            /\ tOutcome[b] # "idle" => call[b].at = "join" /\ call'[b] = call[b]
            /\ tOutcome[b] = "forever" => tWaiting[call[b].on] = <<b>> /\ tAvail[call[b].on] = 0 /\ call[b].on \in Pthreads
        BY <1>1, <1>2, LifeTypes DEF JoinWaitsOK
      <4>2. <<b>> # <<>>
        OBVIOUS
      <4> QED BY <4>1, <4>2, <1>4, <2>2
    <3>3. tWaiting' = tWaiting /\ tOutcome' = tOutcome
      BY <2>1
    <3> QED BY <3>1, <3>2, <3>3 DEF JoinWaitsOK
  <2>4. TokenThere(t)' /\ \A u \in Pthreads : u # t => (TokenThere(u)' <=> TokenThere(u))
    BY <2>1, <2>2, <1>3 DEF TokenThere
  <2> QED BY <2>1, <2>2, <2>3, <2>4, <1>1 DEF LifeTyped
<1>5. CASE tWaiting[t] # <<>>
  <2>1. PICK j \in Pthreads : tWaiting[t] = <<j>> /\ call[j].on = t /\ tOutcome[j] = "forever"
    BY <1>1, <1>5 DEF JoinWaitsOK
  <2>2. Tail(<<j>>) = <<>> /\ Head(<<j>>) = j /\ <<>> \in Seq(Pthreads)
    OBVIOUS
  <2>3. tWaiting' = [tWaiting EXCEPT ![t] = <<>>] /\ tOutcome' = [tOutcome EXCEPT ![j] = "granted"] /\ UNCHANGED tAvail
    BY <2>1, <2>2, <1>5 DEF Th!Sem!Post
  <2>4. /\ tWaiting' \in [Pthreads -> Seq(Pthreads)] /\ tWaiting'[t] = <<>> /\ \A u \in Pthreads : u # t => tWaiting'[u] = tWaiting[u]
        /\ tOutcome' \in [Pthreads -> Th!Sem!Outcomes] /\ tOutcome'[j] = "granted" /\ \A b \in Pthreads : b # j => tOutcome'[b] = tOutcome[b]
    BY <2>2, <2>3, <1>1 DEF LifeTyped, Th!Sem!Outcomes
  <2>5. call[j].at = "join" /\ Joins(j, t) /\ call'[j] = call[j]
    BY <2>1, <1>1, <1>2 DEF JoinWaitsOK, Joins, JoinPCs
  <2>6. ASSUME NEW b \in Pthreads, tOutcome[b] = "forever", call[b].on = t PROVE b = j
    <3>1. tWaiting[t] = <<b>>
      BY <2>6, <1>1 DEF JoinWaitsOK
    <3> QED BY <3>1, <2>1
  <2>7. JoinWaitsOK'
    <3>1. ASSUME NEW u \in Pthreads
          PROVE  tWaiting'[u] = <<>> \/ \E b \in Pthreads : tWaiting'[u] = <<b>> /\ call'[b].on = u /\ tOutcome'[b] = "forever"
      <4>1. CASE u = t
        BY <4>1, <2>4
      <4>2. CASE u # t /\ tWaiting[u] # <<>>
        <5>1. PICK b \in Pthreads : tWaiting[u] = <<b>> /\ call[b].on = u /\ tOutcome[b] = "forever"
          BY <4>2, <1>1 DEF JoinWaitsOK
        <5>2. b # j /\ call'[b] = call[b]
          BY <5>1, <4>2, <2>1, <1>2
        <5> QED BY <5>1, <5>2, <4>2, <2>4
      <4> QED BY <4>1, <4>2, <2>4
    <3>2. ASSUME NEW b \in Pthreads
          PROVE  /\ tOutcome'[b] \in {"idle", "forever", "granted"}
                 /\ tOutcome'[b] # "idle" => call'[b].at = "join"
                 /\ tOutcome'[b] = "forever" => tWaiting'[call'[b].on] = <<b>> /\ tAvail'[call'[b].on] = 0
      <4>1. CASE b = j
        BY <4>1, <2>4, <2>5
      <4>2. CASE b # j
        <5>1. /\ tOutcome[b] \in {"idle", "forever", "granted"}
              /\ tOutcome[b] # "idle" => call[b].at = "join" /\ call'[b] = call[b]
              /\ tOutcome[b] = "forever" => tWaiting[call[b].on] = <<b>> /\ tAvail[call[b].on] = 0 /\ call[b].on \in Pthreads
          BY <1>1, <1>2, LifeTypes DEF JoinWaitsOK
        <5> QED BY <5>1, <4>2, <2>3, <2>4, <2>6
      <4> QED BY <4>1, <4>2
    <3> QED BY <3>1, <3>2 DEF JoinWaitsOK
  <2>8. TokenThere(t)' /\ \A u \in Pthreads : u # t => (TokenThere(u)' <=> TokenThere(u))
    <3>1. TokenThere(t)'
      BY <2>4, <2>5, <1>3 DEF TokenThere
    <3>2. \A b, u \in Pthreads : u # t /\ Joins(b, u) => b # j
      BY <2>5 DEF Joins
    <3>3. ASSUME NEW u \in Pthreads, u # t PROVE TokenThere(u)' <=> TokenThere(u)
      BY <3>2, <3>3, <2>3, <2>4, <1>3 DEF TokenThere
    <3> QED BY <3>1, <3>3
  <2> QED BY <2>3, <2>4, <2>7, <2>8, <1>1 DEF LifeTyped
<1> QED BY <1>4, <1>5

LEMMA ExitPostPreserves ==
  ASSUME LifeIInv, NEW a \in Pthreads, Th!ExitPost(a)
  PROVE  LifeIInv'
<1>1. LifeTyped /\ CallersOK /\ ThreadsOver /\ JoinersOK /\ CancellersOK /\ IdleOK
  BY DEF LifeIInv
<1>2. /\ life[a] = "live" /\ call[a].at = "exitPost" /\ Th!Goto(a, Th!On("stop", a)) /\ Th!Sem!Post(a)
      /\ UNCHANGED <<life, detached, joinThread, cancelDisabled, cancelPending, terminatedList, idle, app>>
  BY DEF Th!ExitPost, Th!At, Th!objVars, Th!listVars
<1>3. /\ call' \in [Pthreads -> {Th!User} \cup [at : Th!PCs, on : Pthreads]]
      /\ call'[a].at = "stop" /\ call'[a].on = a /\ \A b \in Pthreads : b # a => call'[b] = call[b]
  <2>1. "stop" \in Th!PCs
    BY DEF Th!PCs
  <2> QED BY <2>1, <1>1, <1>2, Steps
<1>4. call[a].at \notin JoinPCs \cup CancelPCs /\ call'[a].at \notin JoinPCs \cup CancelPCs
  BY <1>2, <1>3 DEF JoinPCs, CancelPCs
<1>5. a \notin detached /\ ~Over(a) /\ ~TokenThere(a) /\ ~Listed(a)
  BY <1>1, <1>2, OverOf DEF CallersOK, ThreadsOver, ThreadOK
<1>6. /\ tAvail' \in [Pthreads -> 0 .. 1] /\ tWaiting' \in [Pthreads -> Seq(Pthreads)] /\ tOutcome' \in [Pthreads -> Th!Sem!Outcomes]
      /\ JoinWaitsOK' /\ TokenThere(a)'
      /\ \A u \in Pthreads : u # a => tAvail'[u] = tAvail[u] /\ (TokenThere(u)' <=> TokenThere(u))
  BY <1>2, <1>3, <1>4, <1>5, PostStep
<1>7. LifeTyped'
  BY <1>1, <1>2, <1>3, <1>6 DEF LifeTyped
<1>8. CallersOK'
  BY <1>1, <1>2, <1>3 DEF CallersOK, ExitPCs
<1>9. \A t, b \in Pthreads : /\ (Cancels(b, t)' <=> Cancels(b, t)) /\ (Joins(b, t)' <=> Joins(b, t))
                             /\ Cancels(b, t) \/ Joins(b, t) => call'[b] = call[b]
  BY <1>3, <1>4 DEF Cancels, Joins
<1>10. JoinersOK' /\ CancellersOK'
  BY <1>1, <1>2, <1>9 DEF JoinersOK, CancellersOK
<1>11. ASSUME NEW u \in Pthreads PROVE ThreadOK(u)'
  <2>1. ThreadOK(u) /\ (Listed(u)' <=> Listed(u))
    BY <1>1, <1>2 DEF ThreadsOver, Listed
  <2>2. CASE u = a
    <3>1. Over(a)'
      BY <1>2, <1>3 DEF Over
    <3> QED BY <2>1, <2>2, <3>1, <1>2, <1>5, <1>6, <1>9 DEF ThreadOK
  <2>3. CASE u # a
    <3>1. Over(u)' <=> Over(u)
      BY <2>3, <1>2, <1>3, <1>9 DEF Over
    <3> QED BY <2>1, <2>3, <3>1, <1>2, <1>6, <1>9, ThreadStays
  <2> QED BY <2>2, <2>3
<1> QED BY <1>1, <1>2, <1>6, <1>7, <1>8, <1>10, <1>11 DEF LifeIInv, ThreadsOver, IdleOK

\* Whoever cancels posts in the place of the thread, or finds that it is detached.
LEMMA CancelPostPreserves ==
  ASSUME LifeIInv, NEW a \in Pthreads, Th!CancelPost(a)
  PROVE  LifeIInv'
<1>1. LifeTyped /\ CallersOK /\ ThreadsOver /\ JoinersOK /\ CancellersOK /\ IdleOK
  BY DEF LifeIInv
<1>0. PICK t \in Pthreads : t = call[a].on
  <2>1. call[a].at = "cancelPost"
    BY DEF Th!CancelPost, Th!At
  <2> QED BY <2>1, <1>1, LifeTypes
<1>2. /\ life[a] = "live" /\ call[a].at = "cancelPost" /\ Th!Goto(a, Th!User) /\ Th!Sem!Post(t)
      /\ UNCHANGED <<life, detached, joinThread, cancelDisabled, cancelPending, terminatedList, idle, app>>
  BY <1>0 DEF Th!CancelPost, Th!At, Th!objVars, Th!listVars, Th!Target
<1>3. /\ call' \in [Pthreads -> {Th!User} \cup [at : Th!PCs, on : Pthreads]]
      /\ call'[a].at = "user" /\ \A b \in Pthreads : b # a => call'[b] = call[b]
  BY <1>1, <1>2, Leaves
<1>4. call[a].at \notin JoinPCs /\ call'[a].at \notin JoinPCs \cup CancelPCs /\ Cancels(a, t)
  BY <1>0, <1>2, <1>3 DEF JoinPCs, CancelPCs, Cancels
<1>5. a # t /\ t \notin detached /\ life[t] = "stopped" /\ \A b \in Pthreads : Cancels(b, t) => b = a
  BY <1>1, <1>2, <1>4 DEF CancellersOK
<1>6. ~Over(t) /\ ~TokenThere(t) /\ ~Listed(t)
  BY <1>1, <1>2, <1>4, <1>5 DEF Over, ThreadsOver, ThreadOK
<1>7. /\ tAvail' \in [Pthreads -> 0 .. 1] /\ tWaiting' \in [Pthreads -> Seq(Pthreads)] /\ tOutcome' \in [Pthreads -> Th!Sem!Outcomes]
      /\ JoinWaitsOK' /\ TokenThere(t)'
      /\ \A u \in Pthreads : u # t => tAvail'[u] = tAvail[u] /\ (TokenThere(u)' <=> TokenThere(u))
  BY <1>2, <1>3, <1>4, <1>6, PostStep
<1>8. LifeTyped'
  BY <1>1, <1>2, <1>3, <1>7 DEF LifeTyped
<1>9. CallersOK'
  BY <1>1, <1>2, <1>3 DEF CallersOK, ExitPCs
<1>10. \A u, b \in Pthreads : /\ Cancels(b, u)' <=> Cancels(b, u) /\ b # a
                              /\ Joins(b, u)' <=> Joins(b, u)
                              /\ Cancels(b, u)' \/ Joins(b, u) => call'[b] = call[b]
  BY <1>3, <1>4 DEF Cancels, Joins
<1>11. JoinersOK' /\ CancellersOK'
  BY <1>1, <1>2, <1>10 DEF JoinersOK, CancellersOK
<1>12. ASSUME NEW u \in Pthreads PROVE ThreadOK(u)'
  <2>1. ThreadOK(u) /\ (Listed(u)' <=> Listed(u))
    BY <1>1, <1>2 DEF ThreadsOver, Listed
  <2>2. CASE u = t
    <3>1. Over(t)'
      BY <1>2, <1>5, <1>10 DEF Over
    <3> QED BY <2>1, <2>2, <3>1, <1>2, <1>5, <1>6, <1>7, <1>10 DEF ThreadOK
  <2>3. CASE u # t
    <3>1. \A b \in Pthreads : (Cancels(b, u)' <=> Cancels(b, u)) /\ (Cancels(b, u) => call'[b] = call[b])
      BY <2>3, <1>0, <1>3, <1>10 DEF Cancels
    <3>2. Over(u)' <=> Over(u)
      BY <3>1, <1>2, <1>3 DEF Over
    <3> QED BY <2>1, <2>3, <3>1, <3>2, <1>2, <1>7, <1>10, ThreadStays
  <2> QED BY <2>2, <2>3
<1> QED BY <1>1, <1>2, <1>7, <1>8, <1>9, <1>11, <1>12 DEF LifeIInv, ThreadsOver, IdleOK

LEMMA CancelPreserves ==
  ASSUME LifeIInv, NEW a \in Pthreads, Th!Cancel(a)
  PROVE  LifeIInv'
<1>1. LifeTyped /\ CallersOK /\ ThreadsOver /\ JoinersOK /\ CancellersOK /\ IdleOK /\ JoinWaitsOK
  BY DEF LifeIInv
<1>0. PICK t \in Pthreads : t = call[a].on
  <2>1. call[a].at = "cancel"
    BY DEF Th!Cancel, Th!At
  <2> QED BY <2>1, <1>1, LifeTypes
<1> DEFINE l == IF t \in detached THEN "cancelDelete" ELSE "cancelPost"
<1>2. /\ life[a] = "live" /\ call[a].at = "cancel" /\ Th!Goto(a, Th!On(l, t))
      /\ UNCHANGED <<tAvail, tWaiting, tOutcome, life, detached, joinThread, cancelDisabled, cancelPending, terminatedList, idle, app>>
  BY <1>0 DEF Th!Cancel, Th!At, Th!semVars, Th!objVars, Th!listVars, Th!Target
<1>3. Cancels(a, t)
  BY <1>0, <1>2 DEF Cancels, CancelPCs
<1>4. /\ call' \in [Pthreads -> {Th!User} \cup [at : Th!PCs, on : Pthreads]]
      /\ call'[a].at = l /\ call'[a].on = t /\ \A b \in Pthreads : b # a => call'[b] = call[b]
  <2>1. l \in Th!PCs
    BY DEF Th!PCs
  <2> HIDE DEF l
  <2> QED BY <2>1, <1>1, <1>2, <1>3, Steps
<1>5. l \in {"cancelDelete", "cancelPost"} /\ (l = "cancelDelete" <=> t \in detached)
  OBVIOUS
<1> HIDE DEF l
<1>6. life[t] = "stopped" /\ \A b \in Pthreads : Cancels(b, t) => b = a
  BY <1>1, <1>3 DEF CancellersOK
<1>7. ~Over(t) /\ ~TokenThere(t) /\ ~Listed(t) /\ tAvail[t] = 0
  <2>1. ~Over(t)
    BY <1>2, <1>3, <1>6 DEF Over
  <2>2. ~TokenThere(t) /\ ~Listed(t)
    BY <2>1, <1>1, <1>3, <1>6 DEF ThreadsOver, ThreadOK
  <2> QED BY <2>1, <2>2, <1>1, <1>3, LifeTypes DEF TokenThere
<1>8. LifeTyped'
  BY <1>1, <1>2, <1>4 DEF LifeTyped
<1>9. CallersOK'
  BY <1>1, <1>2, <1>4, <1>5 DEF CallersOK, ExitPCs
<1>10. \A u, b \in Pthreads : /\ Cancels(b, u)' <=> Cancels(b, u)
                              /\ Joins(b, u)' <=> Joins(b, u)
                              /\ Joins(b, u) => call'[b] = call[b]
  BY <1>0, <1>2, <1>4, <1>5 DEF Cancels, Joins, CancelPCs, JoinPCs
<1>11. JoinersOK' /\ CancellersOK'
  <2>1. JoinersOK'
    BY <1>1, <1>2, <1>10 DEF JoinersOK
  <2>2. CancellersOK'
    <3> SUFFICES ASSUME NEW b \in Pthreads, NEW u \in Pthreads, Cancels(b, u)'
                 PROVE  /\ b # u /\ life'[u] = "stopped" /\ <<b, "cancel", u>> \in app'.calls
                        /\ call'[b].at = "cancelPost" => u \notin detached'
                        /\ call'[b].at = "cancelDelete" => u \in detached'
                        /\ \A c \in Pthreads : Cancels(c, u)' => c = b
      BY DEF CancellersOK
    <3>1. Cancels(b, u)
      BY <1>10
    <3>2. CASE b = a
      <4>1. u = t
        BY <3>1, <3>2, <1>0 DEF Cancels
      <4> QED BY <3>1, <3>2, <4>1, <1>1, <1>2, <1>4, <1>5, <1>10 DEF CancellersOK
    <3>3. CASE b # a
      BY <3>1, <3>3, <1>1, <1>2, <1>4, <1>10 DEF CancellersOK
    <3> QED BY <3>2, <3>3
  <2> QED BY <2>1, <2>2
<1>12. JoinWaitsOK'
  <2>1. \A b \in Pthreads : tOutcome[b] # "idle" => call'[b] = call[b]
    BY <1>1, <1>2, <1>4 DEF JoinWaitsOK
  <2>2. ASSUME NEW u \in Pthreads
        PROVE  tWaiting[u] = <<>> \/ \E b \in Pthreads : tWaiting[u] = <<b>> /\ call'[b].on = u /\ tOutcome[b] = "forever"
    BY <1>1, <2>1 DEF JoinWaitsOK
  <2>3. ASSUME NEW b \in Pthreads
        PROVE  /\ tOutcome[b] \in {"idle", "forever", "granted"}
               /\ tOutcome[b] # "idle" => call'[b].at = "join"
               /\ tOutcome[b] = "forever" => tWaiting[call'[b].on] = <<b>> /\ tAvail[call'[b].on] = 0
    BY <1>1, <2>1 DEF JoinWaitsOK
  <2> QED BY <2>2, <2>3, <1>2 DEF JoinWaitsOK
<1>13. ASSUME NEW u \in Pthreads PROVE ThreadOK(u)'
  <2>1. ThreadOK(u) /\ (Listed(u)' <=> Listed(u)) /\ (TokenThere(u)' <=> TokenThere(u))
    BY <1>1, <1>2, <1>10 DEF ThreadsOver, Listed, TokenThere
  <2>2. CASE u = t
    <3>1. Cancels(a, t)'
      BY <1>3, <1>10
    <3>2. t \notin detached => ~Over(t)'
      BY <3>1, <1>2, <1>3, <1>4, <1>5, <1>6 DEF Over
    <3> QED BY <2>1, <2>2, <3>1, <3>2, <1>2, <1>3, <1>6, <1>7, <1>10 DEF ThreadOK
  <2>3. CASE u # t
    <3>1. \A b \in Pthreads : Cancels(b, u) => call'[b] = call[b]
      BY <2>3, <1>0, <1>4 DEF Cancels
    <3>2. Over(u)' <=> Over(u)
      <4>1. life[u] = "live" => (call'[u].at = "stop" <=> call[u].at = "stop")
        BY <1>2, <1>4, <1>5
      <4> QED BY <3>1, <4>1, <1>2, <1>10 DEF Over
    <3> QED BY <2>1, <2>3, <3>2, <1>2, <1>10, ThreadStays
  <2> QED BY <2>2, <2>3
<1> QED BY <1>1, <1>2, <1>8, <1>9, <1>11, <1>12, <1>13 DEF LifeIInv, ThreadsOver, IdleOK

-----------------------------------------------------------------------------
(* The list, and joining.                                                  *)

\* A thread that is detached goes to terminatedList.
LEMMA ExitListPreserves ==
  ASSUME LifeIInv, NEW a \in Pthreads, Th!ExitList(a)
  PROVE  LifeIInv'
<1>1. LifeTyped /\ CallersOK /\ ThreadsOver /\ JoinersOK /\ CancellersOK /\ IdleOK /\ JoinWaitsOK
  BY DEF LifeIInv
<1>2. /\ life[a] = "live" /\ call[a].at = "exitList" /\ Th!Goto(a, Th!On("stop", a))
      /\ terminatedList' = <<a>> \o terminatedList
      /\ UNCHANGED <<tAvail, tWaiting, tOutcome, life, detached, joinThread, cancelDisabled, cancelPending, idle, app>>
  BY DEF Th!ExitList, Th!At, Th!semVars, Th!objVars
<1>3. /\ call' \in [Pthreads -> {Th!User} \cup [at : Th!PCs, on : Pthreads]]
      /\ call'[a].at = "stop" /\ call'[a].on = a /\ \A b \in Pthreads : b # a => call'[b] = call[b]
  <2>1. "stop" \in Th!PCs
    BY DEF Th!PCs
  <2> QED BY <2>1, <1>1, <1>2, Steps
<1>4. call[a].at \notin JoinPCs \cup CancelPCs /\ call'[a].at \notin JoinPCs \cup CancelPCs
  BY <1>2, <1>3 DEF JoinPCs, CancelPCs
<1>5. /\ a \in detached /\ ~Over(a) /\ ~TokenThere(a) /\ ~Listed(a) /\ tAvail[a] = 0
      /\ \A b \in Pthreads : ~Cancels(b, a)
  <2>1. a \in detached /\ ~Over(a) /\ ~TokenThere(a) /\ ~Listed(a) /\ \A b \in Pthreads : ~Cancels(b, a)
    BY <1>1, <1>2, OverOf DEF CallersOK, ThreadsOver, ThreadOK
  <2> QED BY <2>1, <1>1, LifeTypes DEF TokenThere
<1>6. /\ terminatedList' \in Seq(Pthreads) /\ IsInjective(terminatedList')
      /\ \A u : Contains(terminatedList', u) <=> Contains(terminatedList, u) \/ u = a
  BY <1>1, <1>2, <1>5, Prepended DEF LifeTyped, Listed
<1>7. LifeTyped'
  BY <1>1, <1>2, <1>3, <1>6 DEF LifeTyped
<1>8. CallersOK'
  BY <1>1, <1>2, <1>3 DEF CallersOK, ExitPCs
<1>9. \A t, b \in Pthreads : /\ (Cancels(b, t)' <=> Cancels(b, t)) /\ (Joins(b, t)' <=> Joins(b, t))
                             /\ Cancels(b, t) \/ Joins(b, t) => call'[b] = call[b]
  BY <1>3, <1>4 DEF Cancels, Joins
<1>10. JoinersOK' /\ CancellersOK'
  <2>1. JoinersOK'
    BY <1>1, <1>2, <1>9 DEF JoinersOK
  <2>2. CancellersOK'
    BY <1>1, <1>2, <1>9 DEF CancellersOK
  <2> QED BY <2>1, <2>2
<1>11. JoinWaitsOK'
  BY <1>1, <1>2, <1>3, WaitsStay
<1>12. IdleOK'
  BY <1>1, <1>2, <1>5, <1>6 DEF IdleOK, Listed
<1>13. ASSUME NEW u \in Pthreads PROVE ThreadOK(u)'
  <2>1. ThreadOK(u) /\ (TokenThere(u)' <=> TokenThere(u))
    BY <1>1, <1>2, <1>9 DEF ThreadsOver, TokenThere
  <2>2. CASE u = a
    <3>1. Over(a)' /\ Listed(a)'
      BY <1>2, <1>3, <1>6 DEF Over, Listed
    <3> QED BY <2>1, <2>2, <3>1, <1>2, <1>5, <1>9 DEF ThreadOK
  <2>3. CASE u # a
    <3>1. (Over(u)' <=> Over(u)) /\ (Listed(u)' <=> Listed(u))
      BY <2>3, <1>2, <1>3, <1>6, <1>9 DEF Over, Listed
    <3> QED BY <2>1, <2>3, <3>1, <1>2, <1>9, ThreadStays
  <2> QED BY <2>2, <2>3
<1> QED BY <1>7, <1>8, <1>10, <1>11, <1>12, <1>13 DEF LifeIInv, ThreadsOver

LEMMA JoinCallPreserves ==
  ASSUME LifeIInv, NEW a \in Pthreads, NEW t \in Pthreads, Th!JoinCall(a, t)
  PROVE  LifeIInv'
<1>1. LifeTyped /\ CallersOK /\ ThreadsOver /\ JoinersOK /\ CancellersOK /\ IdleOK /\ JoinWaitsOK
  BY DEF LifeIInv
<1>2. /\ life[a] = "live" /\ call[a].at = "user" /\ a # t
      /\ <<a, "join", t>> \in app.calls /\ life[t] \in {"live", "stopped"}
      /\ joinThread[t] = {} /\ t \notin detached
      /\ joinThread' = [joinThread EXCEPT ![t] = {a}] /\ Th!Goto(a, Th!On("join", t))
      /\ UNCHANGED <<tAvail, tWaiting, tOutcome, life, detached, cancelDisabled, cancelPending, terminatedList, idle, app>>
  BY DEF Th!JoinCall, Th!Calls, Th!MayJoin, Th!At, Th!semVars, Th!listVars
<1>3. /\ call' \in [Pthreads -> {Th!User} \cup [at : Th!PCs, on : Pthreads]]
      /\ call'[a].at = "join" /\ call'[a].on = t /\ \A b \in Pthreads : b # a => call'[b] = call[b]
  <2>1. "join" \in Th!PCs
    BY DEF Th!PCs
  <2> QED BY <2>1, <1>1, <1>2, Steps
<1>4. call[a].at \notin JoinPCs \cup CancelPCs /\ call'[a].at \in JoinPCs /\ call'[a].at \notin CancelPCs
  BY <1>2, <1>3 DEF JoinPCs, CancelPCs
<1>5. /\ joinThread' \in [Pthreads -> SUBSET Pthreads] /\ joinThread'[t] = {a}
      /\ \A u \in Pthreads : u # t => joinThread'[u] = joinThread[u]
  BY <1>1, <1>2 DEF LifeTyped
<1>6. LifeTyped'
  BY <1>1, <1>2, <1>3, <1>5 DEF LifeTyped
<1>7. CallersOK'
  BY <1>1, <1>2, <1>3 DEF CallersOK, ExitPCs
<1>8. /\ \A u, b \in Pthreads : Cancels(b, u)' <=> Cancels(b, u)
      /\ \A u, b \in Pthreads : Joins(b, u)' <=> Joins(b, u) \/ (b = a /\ u = t)
      /\ \A u, b \in Pthreads : Cancels(b, u) \/ Joins(b, u) => b # a /\ call'[b] = call[b]
      /\ \A b \in Pthreads : ~Joins(b, t)
  <2>1. \A b \in Pthreads : {b} # {}
    OBVIOUS
  <2>2. ASSUME NEW b \in Pthreads, Joins(b, t) PROVE FALSE
    <3>1. joinThread[t] = {b}
      BY <2>2, <1>1 DEF JoinersOK
    <3>2. joinThread[t] = {}
      BY <1>2
    <3> QED BY <3>1, <3>2, <2>1
  <2> QED BY <2>2, <1>3, <1>4 DEF Cancels, Joins
<1>9. JoinersOK'
  <2> SUFFICES ASSUME NEW b \in Pthreads, NEW u \in Pthreads, Joins(b, u)'
               PROVE  /\ b # u /\ joinThread'[u] = {b} /\ u \notin detached'
                      /\ life'[u] \in {"live", "stopped"} /\ <<b, "join", u>> \in app'.calls
    BY DEF JoinersOK
  <2>1. CASE b = a /\ u = t
    BY <2>1, <1>2, <1>5
  <2>2. CASE ~(b = a /\ u = t)
    <3>1. Joins(b, u) /\ u # t
      BY <2>2, <1>8
    <3> QED BY <3>1, <1>1, <1>2, <1>5 DEF JoinersOK
  <2> QED BY <2>1, <2>2
<1>10. CancellersOK'
  BY <1>1, <1>2, <1>8 DEF CancellersOK
<1>11. tOutcome[a] = "idle"
  BY <1>1, <1>2 DEF JoinWaitsOK
<1>12. JoinWaitsOK'
  BY <1>1, <1>2, <1>3, WaitsStay
<1>13. ASSUME NEW u \in Pthreads PROVE ThreadOK(u)'
  <2>1. ThreadOK(u) /\ (Listed(u)' <=> Listed(u)) /\ (Over(u)' <=> Over(u))
    BY <1>1, <1>2, <1>3, <1>8 DEF ThreadsOver, Listed, Over
  <2>2. TokenThere(u)' <=> TokenThere(u)
    BY <1>2, <1>3, <1>8, <1>11 DEF TokenThere
  <2>3. joinThread'[u] = {} \/ life[u] = "freed" \/ \E b \in Pthreads : joinThread'[u] = {b} /\ Joins(b, u)'
    BY <2>1, <1>5, <1>8 DEF ThreadOK
  <2>4. life[u] = "none" => u # t
    BY <1>2
  <2> QED BY <2>1, <2>2, <2>3, <2>4, <1>2, <1>5, <1>8 DEF ThreadOK
<1> QED BY <1>1, <1>2, <1>6, <1>7, <1>9, <1>10, <1>12, <1>13 DEF LifeIInv, ThreadsOver, IdleOK

\* The joiner takes the token, returns with it, or waits for it.
LEMMA JoinPendPreserves ==
  ASSUME LifeIInv, NEW a \in Pthreads, Th!JoinPend(a)
  PROVE  LifeIInv'
<1>1. LifeTyped /\ CallersOK /\ ThreadsOver /\ JoinersOK /\ CancellersOK /\ IdleOK /\ JoinWaitsOK
  BY DEF LifeIInv
<1>0. PICK t \in Pthreads : t = call[a].on
  <2>1. call[a].at = "join"
    BY DEF Th!JoinPend, Th!At
  <2> QED BY <2>1, <1>1, LifeTypes
<1>2. /\ life[a] = "live" /\ call[a].at = "join" /\ Joins(a, t)
      /\ UNCHANGED <<life, detached, joinThread, cancelDisabled, cancelPending, terminatedList, idle, app>>
  BY <1>0 DEF Th!JoinPend, Th!At, Th!objVars, Th!listVars, Joins, JoinPCs
<1>3. t \notin detached /\ a # t /\ \A b \in Pthreads : Joins(b, t) => b = a
  <2>1. \A b \in Pthreads : {b} = {a} => b = a
    OBVIOUS
  <2>2. t \notin detached /\ a # t /\ joinThread[t] = {a} /\ \A b \in Pthreads : Joins(b, t) => joinThread[t] = {b}
    BY <1>1, <1>2 DEF JoinersOK
  <2> QED BY <2>1, <2>2
<1>4. ASSUME NEW b \in Pthreads, tOutcome[b] = "forever", call[b].on = t PROVE b = a
  <2>1. Joins(b, t)
    BY <1>1, <1>4 DEF JoinWaitsOK, Joins, JoinPCs
  <2> QED BY <2>1, <1>3
<1>5. ASSUME tAvail' \in [Pthreads -> 0 .. 1], \A u \in Pthreads : u # t => tAvail'[u] = tAvail[u],
             tAvail'[t] # 0 => tAvail'[t] = tAvail[t],
             tWaiting' \in [Pthreads -> Seq(Pthreads)], tOutcome' \in [Pthreads -> Th!Sem!Outcomes],
             call' \in [Pthreads -> {Th!User} \cup [at : Th!PCs, on : Pthreads]],
             call'[a].at \in JoinPCs, call'[a].on = t, \A b \in Pthreads : b # a => call'[b] = call[b] /\ tOutcome'[b] = tOutcome[b],
             JoinWaitsOK', TokenThere(t)' <=> TokenThere(t)
      PROVE  LifeIInv'
  <2>1. LifeTyped'
    BY <1>5, <1>1, <1>2 DEF LifeTyped
  <2>2. CallersOK'
    <3> SUFFICES ASSUME NEW b \in Pthreads
                 PROVE  /\ call'[b].at \notin {"user", "stop"} => life[b] = "live"
                        /\ life[b] \in {"none", "stopped"} => call'[b].at = "user"
                        /\ call'[b].at \in ExitPCs => call'[b].on = b /\ b \in cancelDisabled
                        /\ call'[b].at = "exitPost" => b \notin detached
                        /\ call'[b].at = "exitList" => b \in detached
                        /\ life[b] = "stopped" => b \in cancelDisabled \cup cancelPending
      BY <1>2 DEF CallersOK
    <3>1. CASE b = a
      <4>1. call'[a].at \notin {"user", "stop", "exitPost", "exitList"} \cup ExitPCs
        BY <1>5 DEF ExitPCs, JoinPCs
      <4> QED BY <4>1, <3>1, <1>2
    <3>2. CASE b # a
      BY <3>2, <1>1, <1>5 DEF CallersOK
    <3> QED BY <3>1, <3>2
  <2>3. \A u, b \in Pthreads : /\ Cancels(b, u)' <=> Cancels(b, u)
                               /\ Joins(b, u)' <=> Joins(b, u)
                               /\ Cancels(b, u) \/ (u # t /\ Joins(b, u)) => b # a /\ call'[b] = call[b] /\ tOutcome'[b] = tOutcome[b]
    BY <1>5, <1>0, <1>2 DEF Cancels, Joins, CancelPCs, JoinPCs
  <2>4. JoinersOK' /\ CancellersOK'
    BY <2>3, <1>1, <1>2 DEF JoinersOK, CancellersOK
  <2>5. ASSUME NEW u \in Pthreads PROVE ThreadOK(u)'
    <3>1. ThreadOK(u) /\ (Listed(u)' <=> Listed(u))
      BY <1>1, <1>2 DEF ThreadsOver, Listed
    <3>2. Over(u)' <=> Over(u)
      <4>1. call'[u].at = "stop" <=> call[u].at = "stop"
        BY <1>5, <1>2 DEF JoinPCs
      <4> QED BY <4>1, <2>3, <1>2 DEF Over
    <3>3. CASE u = t
      BY <3>1, <3>2, <3>3, <1>2, <1>3, <1>5, <2>3 DEF ThreadOK
    <3>4. CASE u # t
      <4>1. TokenThere(u)' <=> TokenThere(u)
        BY <3>4, <2>3, <1>5 DEF TokenThere
      <4> QED BY <4>1, <3>1, <3>2, <3>4, <2>3, <1>2, <1>5, ThreadStays
    <3> QED BY <3>3, <3>4
  <2> QED BY <1>1, <1>2, <1>5, <2>1, <2>2, <2>4, <2>5 DEF LifeIInv, ThreadsOver, IdleOK
<1>6. "joined" \in Th!PCs /\ "join" \in JoinPCs /\ "joined" \in JoinPCs
  BY DEF Th!PCs, JoinPCs
<1>7. CASE tOutcome[a] = "idle" /\ Th!Sem!Take(t) /\ Th!Goto(a, Th!On("joined", t))
  <2>1. tAvail[t] = 1 /\ tAvail' = [tAvail EXCEPT ![t] = @ - 1] /\ UNCHANGED <<tWaiting, tOutcome>>
    BY <1>1, <1>7, LifeTypes DEF Th!Sem!Take
  <2>2. tAvail' \in [Pthreads -> 0 .. 1] /\ tAvail'[t] = 0 /\ \A u \in Pthreads : u # t => tAvail'[u] = tAvail[u]
    BY <2>1, <1>1 DEF LifeTyped
  <2>3. /\ call' \in [Pthreads -> {Th!User} \cup [at : Th!PCs, on : Pthreads]]
        /\ call'[a].at = "joined" /\ call'[a].on = t /\ \A b \in Pthreads : b # a => call'[b] = call[b]
    BY <1>1, <1>6, <1>7, Steps
  <2>4. \A b \in Pthreads : tOutcome[b] # "idle" => call'[b] = call[b]
    BY <2>3, <1>7
  <2>5. ASSUME NEW b \in Pthreads, tOutcome[b] = "forever" PROVE tAvail'[call[b].on] = tAvail[call[b].on]
    <3>1. call[b].on # t /\ call[b].on \in Pthreads
      BY <2>5, <1>1, <1>4, <1>7, LifeTypes DEF JoinWaitsOK
    <3> QED BY <3>1, <2>2
  <2>6. JoinWaitsOK'
    BY <2>1, <2>4, <2>5, <1>1, WaitsKept
  <2>7. TokenThere(t) /\ TokenThere(t)'
    BY <2>1, <2>3, <1>6 DEF TokenThere, Joins
  <2> QED BY <2>1, <2>2, <2>3, <2>6, <2>7, <1>1, <1>5, <1>6 DEF LifeTyped
<1>8. CASE tOutcome[a] = "granted" /\ Th!Sem!Return(a) /\ Th!Goto(a, Th!On("joined", t))
  <2>1. tOutcome' = [tOutcome EXCEPT ![a] = "idle"] /\ UNCHANGED <<tAvail, tWaiting>>
    BY <1>8 DEF Th!Sem!Return
  <2>2. /\ tOutcome' \in [Pthreads -> Th!Sem!Outcomes] /\ tOutcome'[a] = "idle"
        /\ \A b \in Pthreads : b # a => tOutcome'[b] = tOutcome[b]
    BY <2>1, <1>1 DEF LifeTyped, Th!Sem!Outcomes
  <2>3. /\ call' \in [Pthreads -> {Th!User} \cup [at : Th!PCs, on : Pthreads]]
        /\ call'[a].at = "joined" /\ call'[a].on = t /\ \A b \in Pthreads : b # a => call'[b] = call[b]
    BY <1>1, <1>6, <1>8, Steps
  <2>4. JoinWaitsOK'
    <3>1. ASSUME NEW u \in Pthreads
          PROVE  tWaiting[u] = <<>> \/ \E b \in Pthreads : tWaiting[u] = <<b>> /\ call'[b].on = u /\ tOutcome'[b] = "forever"
      <4>1. CASE tWaiting[u] # <<>>
        <5>1. PICK b \in Pthreads : tWaiting[u] = <<b>> /\ call[b].on = u /\ tOutcome[b] = "forever"
          BY <4>1, <1>1 DEF JoinWaitsOK
        <5>2. b # a
          BY <5>1, <1>8
        <5> QED BY <5>1, <5>2, <2>2, <2>3
      <4> QED BY <4>1
    <3>2. ASSUME NEW b \in Pthreads
          PROVE  /\ tOutcome'[b] \in {"idle", "forever", "granted"}
                 /\ tOutcome'[b] # "idle" => call'[b].at = "join"
                 /\ tOutcome'[b] = "forever" => tWaiting[call'[b].on] = <<b>> /\ tAvail[call'[b].on] = 0
      BY <2>2, <2>3, <1>1 DEF JoinWaitsOK
    <3>3. tWaiting' = tWaiting /\ tAvail' = tAvail
      BY <2>1
    <3> QED BY <3>1, <3>2, <3>3 DEF JoinWaitsOK
  <2>5. TokenThere(t) /\ TokenThere(t)'
    BY <2>3, <1>2, <1>6, <1>8 DEF TokenThere, Joins
  <2> QED BY <2>1, <2>2, <2>3, <2>4, <2>5, <1>1, <1>5, <1>6 DEF LifeTyped
<1>9. CASE Th!Sem!Wait(a, t, "forever") /\ UNCHANGED call
  <2>1. /\ tOutcome[a] = "idle" /\ tAvail[t] = 0 /\ UNCHANGED tAvail
        /\ tOutcome' = [tOutcome EXCEPT ![a] = "forever"]
    BY <1>9 DEF Th!Sem!Wait
  <2>2. tWaiting[t] = <<>>
    <3>1. ASSUME NEW b \in Pthreads, tWaiting[t] = <<b>>, call[b].on = t, tOutcome[b] = "forever" PROVE FALSE
      BY <3>1, <1>4, <2>1
    <3> QED BY <3>1, <1>1 DEF JoinWaitsOK
  <2>3. tWaiting' = [tWaiting EXCEPT ![t] = <<a>>]
    <3>1. PICK i \in 1 .. Len(tWaiting[t]) + 1 : tWaiting' = [tWaiting EXCEPT ![t] = InsertAt(@, i, a)]
      BY <1>9 DEF Th!Sem!Wait, Th!Sem!InsertAt, InsertAt
    <3>2. i = Len(<<>>) + 1 /\ <<>> \in Seq(Pthreads) /\ Append(<<>>, a) = <<a>>
      BY <3>1, <2>2
    <3>3. InsertAt(<<>>, Len(<<>>) + 1, a) = <<a>>
      BY <3>2, PutLast
    <3> QED BY <3>1, <3>2, <3>3, <2>2
  <2>4. /\ tWaiting' \in [Pthreads -> Seq(Pthreads)] /\ tWaiting'[t] = <<a>> /\ \A u \in Pthreads : u # t => tWaiting'[u] = tWaiting[u]
        /\ tOutcome' \in [Pthreads -> Th!Sem!Outcomes] /\ tOutcome'[a] = "forever"
        /\ \A b \in Pthreads : b # a => tOutcome'[b] = tOutcome[b]
    BY <2>1, <2>3, <1>1 DEF LifeTyped, Th!Sem!Outcomes
  <2>5. JoinWaitsOK'
    <3>1. ASSUME NEW u \in Pthreads
          PROVE  tWaiting'[u] = <<>> \/ \E b \in Pthreads : tWaiting'[u] = <<b>> /\ call[b].on = u /\ tOutcome'[b] = "forever"
      <4>1. CASE u = t
        BY <4>1, <2>4, <1>0
      <4>2. CASE u # t /\ tWaiting[u] # <<>>
        <5>1. PICK b \in Pthreads : tWaiting[u] = <<b>> /\ call[b].on = u /\ tOutcome[b] = "forever"
          BY <4>2, <1>1 DEF JoinWaitsOK
        <5>2. b # a
          BY <5>1, <2>1
        <5> QED BY <5>1, <5>2, <4>2, <2>4
      <4> QED BY <4>1, <4>2, <2>4
    <3>2. ASSUME NEW b \in Pthreads
          PROVE  /\ tOutcome'[b] \in {"idle", "forever", "granted"}
                 /\ tOutcome'[b] # "idle" => call[b].at = "join"
                 /\ tOutcome'[b] = "forever" => tWaiting'[call[b].on] = <<b>> /\ tAvail[call[b].on] = 0
      <4>1. CASE b = a
        BY <4>1, <2>1, <2>4, <1>0, <1>2
      <4>2. CASE b # a
        <5>1. tOutcome[b] = "forever" => call[b].on # t /\ call[b].on \in Pthreads
          BY <4>2, <1>1, <1>4, LifeTypes DEF JoinWaitsOK
        <5>2. /\ tOutcome[b] \in {"idle", "forever", "granted"}
              /\ tOutcome[b] # "idle" => call[b].at = "join"
              /\ tOutcome[b] = "forever" => tWaiting[call[b].on] = <<b>> /\ tAvail[call[b].on] = 0
          BY <1>1 DEF JoinWaitsOK
        <5> QED BY <5>1, <5>2, <4>2, <2>4
      <4> QED BY <4>1, <4>2
    <3>3. call' = call /\ tAvail' = tAvail
      BY <1>9, <2>1
    <3> QED BY <3>1, <3>2, <3>3 DEF JoinWaitsOK
  <2>6. TokenThere(t)' <=> TokenThere(t)
    <3>1. ~TokenThere(t)
      BY <2>1, <1>2, <1>3 DEF TokenThere
    <3>2. ~TokenThere(t)'
      <4>1. \A b \in Pthreads : Joins(b, t)' <=> Joins(b, t)
        BY <1>9 DEF Joins
      <4> QED BY <4>1, <2>1, <2>4, <1>2, <1>3, <1>9 DEF TokenThere
    <3> QED BY <3>1, <3>2
  <2> QED BY <2>1, <2>4, <2>5, <2>6, <1>0, <1>1, <1>2, <1>5, <1>6, <1>9 DEF LifeTyped
<1> QED BY <1>0, <1>2, <1>7, <1>8, <1>9 DEF Th!JoinPend, Th!Target

-----------------------------------------------------------------------------
(* Cancelling, and deletion.                                               *)

\* A thread is cancelled and stops where it is, which is in its own code; or
\* it finds out later.
LEMMA CancelCallPreserves ==
  ASSUME LifeAssumption, LifeIInv, NEW a \in Pthreads, NEW t \in Pthreads, Th!CancelCall(a, t)
  PROVE  LifeIInv'
<1>1. LifeTyped /\ CallersOK /\ ThreadsOver /\ JoinersOK /\ CancellersOK /\ IdleOK /\ JoinWaitsOK
  BY DEF LifeIInv
<1>2. /\ life[a] = "live" /\ call[a].at = "user" /\ life[t] \in {"live", "stopped"} /\ <<a, "cancel", t>> \in app.calls
      /\ cancelPending' = cancelPending \cup {t}
      /\ UNCHANGED <<tAvail, tWaiting, tOutcome, detached, joinThread, cancelDisabled, terminatedList, idle, app>>
  BY DEF Th!CancelCall, Th!Calls, Th!At, Th!semVars, Th!listVars
<1>3. a # t /\ t \notin cancelPending /\ \A u \in Pthreads : <<t, "join", u>> \notin app.calls /\ <<t, "cancel", u>> \notin app.calls
  BY <1>1, <1>2, LifeTypes DEF Th!CancelCall, LifeAssumption
<1>4. call[a].at \notin JoinPCs \cup CancelPCs
  BY <1>2 DEF JoinPCs, CancelPCs
<1>5. CASE t \in cancelDisabled
  <2>1. UNCHANGED <<life, call>>
    BY <1>5 DEF Th!CancelCall
  <2>2. LifeTyped'
    BY <2>1, <1>1, <1>2 DEF LifeTyped
  <2>3. CallersOK'
    BY <2>1, <1>1, <1>2 DEF CallersOK
  <2>4. \A u \in Pthreads : Over(u)' <=> Over(u)
    BY <2>1 DEF Over, Cancels
  <2>5. \A u \in Pthreads : life'[u] = "none" => u \notin detached'
    BY <2>1, <1>1, <1>2 DEF ThreadsOver, ThreadOK
  <2>6. JoinersOK' /\ CancellersOK' /\ JoinWaitsOK' /\ ThreadsOver' /\ IdleOK'
    BY <2>1, <2>4, <2>5, <1>2, <1>4, CallStep
  <2> QED BY <2>2, <2>3, <2>6 DEF LifeIInv
<1>6. CASE t \notin cancelDisabled
  <2>1. life' = [life EXCEPT ![t] = "stopped"] /\ Th!Goto(a, Th!On("cancel", t))
    BY <1>6 DEF Th!CancelCall
  <2>2. /\ call' \in [Pthreads -> {Th!User} \cup [at : Th!PCs, on : Pthreads]]
        /\ call'[a].at = "cancel" /\ call'[a].on = t /\ \A b \in Pthreads : b # a => call'[b] = call[b]
    <3>1. "cancel" \in Th!PCs
      BY DEF Th!PCs
    <3> QED BY <3>1, <2>1, <1>1, Steps
  <2>3. life'[t] = "stopped" /\ \A u \in Pthreads : u # t => life'[u] = life[u]
    BY <2>1, <1>1 DEF LifeTyped
  <2>4. life[t] = "live" /\ call[t].at = "user" /\ call'[t] = call[t]
    <3>1. life[t] = "live"
      BY <1>1, <1>2, <1>3, <1>6 DEF CallersOK
    <3>2. call[t].at \notin ExitPCs
      BY <1>1, <1>6 DEF CallersOK
    <3>3. call[t].at \notin JoinPCs
      <4>1. CASE call[t].at \in JoinPCs
        <5>1. call[t].on \in Pthreads
          BY <4>1, <1>1, LifeTypes DEF JoinPCs
        <5>2. Joins(t, call[t].on)
          BY <4>1 DEF Joins
        <5> QED BY <5>1, <5>2, <1>1, <1>3 DEF JoinersOK
      <4> QED BY <4>1
    <3>4. call[t].at \notin CancelPCs
      <4>1. CASE call[t].at \in CancelPCs
        <5>1. call[t].on \in Pthreads
          BY <4>1, <1>1, LifeTypes DEF CancelPCs
        <5>2. Cancels(t, call[t].on)
          BY <4>1 DEF Cancels
        <5> QED BY <5>1, <5>2, <1>1, <1>3 DEF CancellersOK
      <4> QED BY <4>1
    <3>5. call[t].at \in Th!PCs \cup {"user"}
      BY <1>1, LifeTypes
    <3>6. call[t].at = "user"
      BY <3>2, <3>3, <3>4, <3>5 DEF Th!PCs, ExitPCs, JoinPCs, CancelPCs
    <3> QED BY <3>1, <3>6, <2>2, <1>3
  <2>5. LifeTyped'
    BY <2>1, <2>2, <1>1, <1>2 DEF LifeTyped
  <2>6. CallersOK'
    <3> SUFFICES ASSUME NEW b \in Pthreads
                 PROVE  /\ call'[b].at \notin {"user", "stop"} => life'[b] = "live"
                        /\ life'[b] \in {"none", "stopped"} => call'[b].at = "user"
                        /\ call'[b].at \in ExitPCs => call'[b].on = b /\ b \in cancelDisabled
                        /\ call'[b].at = "exitPost" => b \notin detached
                        /\ call'[b].at = "exitList" => b \in detached
                        /\ life'[b] = "stopped" => b \in cancelDisabled \cup cancelPending'
      BY <1>2 DEF CallersOK
    <3>1. CASE b = a
      BY <3>1, <1>2, <1>3, <2>2, <2>3 DEF ExitPCs
    <3>2. CASE b = t
      BY <3>2, <2>3, <2>4, <1>2 DEF ExitPCs
    <3>3. CASE b # a /\ b # t
      BY <3>3, <2>2, <2>3, <1>1, <1>2 DEF CallersOK
    <3> QED BY <3>1, <3>2, <3>3
  <2>7. /\ \A u, b \in Pthreads : Joins(b, u)' <=> Joins(b, u)
        /\ \A u, b \in Pthreads : Cancels(b, u)' <=> Cancels(b, u) \/ (b = a /\ u = t)
        /\ \A u, b \in Pthreads : Cancels(b, u) \/ Joins(b, u) => b # a /\ call'[b] = call[b]
    BY <2>2, <1>4 DEF Cancels, Joins, JoinPCs, CancelPCs
  <2>8. \A b \in Pthreads : ~Cancels(b, t)
    BY <2>4, OverOf
  <2>9. JoinersOK'
    BY <2>3, <2>7, <1>1, <1>2 DEF JoinersOK
  <2>10. CancellersOK'
    <3> SUFFICES ASSUME NEW b \in Pthreads, NEW u \in Pthreads, Cancels(b, u)'
                 PROVE  /\ b # u /\ life'[u] = "stopped" /\ <<b, "cancel", u>> \in app'.calls
                        /\ call'[b].at = "cancelPost" => u \notin detached'
                        /\ call'[b].at = "cancelDelete" => u \in detached'
                        /\ \A c \in Pthreads : Cancels(c, u)' => c = b
      BY DEF CancellersOK
    <3>1. CASE b = a /\ u = t
      BY <3>1, <2>2, <2>3, <2>7, <2>8, <1>2, <1>3
    <3>2. CASE ~(b = a /\ u = t)
      <4>1. Cancels(b, u) /\ u # t
        BY <3>2, <2>7, <2>8
      <4> QED BY <4>1, <2>3, <2>7, <1>1, <1>2 DEF CancellersOK
    <3> QED BY <3>1, <3>2
  <2>11. JoinWaitsOK'
    BY <2>2, <1>1, <1>2, WaitsStay
  <2>12. ASSUME NEW u \in Pthreads PROVE ThreadOK(u)'
    <3>1. ThreadOK(u) /\ (Listed(u)' <=> Listed(u)) /\ (TokenThere(u)' <=> TokenThere(u))
      BY <2>7, <1>1, <1>2 DEF ThreadsOver, Listed, TokenThere
    <3>2. CASE u = t
      <4>1. ~Over(t)
        BY <2>4 DEF Over
      <4>2. ~Over(t)'
        BY <2>2, <2>3, <2>7 DEF Over
      <4> QED BY <4>1, <4>2, <3>1, <3>2, <2>3, <2>4, <2>7, <1>2 DEF ThreadOK
    <3>3. CASE u # t
      <4>1. Over(u)' <=> Over(u)
        BY <3>3, <2>2, <2>3, <2>7, <1>2 DEF Over
      <4> QED BY <4>1, <3>1, <3>3, <2>3, <2>7, <1>2, ThreadStays
    <3> QED BY <3>2, <3>3
  <2> QED BY <2>5, <2>6, <2>9, <2>10, <2>11, <2>12, <1>1, <1>2 DEF LifeIInv, ThreadsOver, IdleOK
<1> QED BY <1>5, <1>6

\* A thread that is over and that nobody else is about to delete is freed, by
\* its joiner, by who cancelled it, or by the Idle task.
LEMMA FreeStep ==
  ASSUME LifeIInv, NEW t \in Pthreads, Over(t), Th!_pthread_delete(t),
         UNCHANGED <<detached, joinThread, cancelDisabled, cancelPending, app>>,
         \A b \in Pthreads : \/ call'[b] = call[b]
                             \/ call[b].at \in {"joined", "cancelDelete"} /\ call[b].on = t /\ call'[b].at = "user" /\ life[b] = "live",
         \A b \in Pthreads : ~Joins(b, t)' /\ ~Cancels(b, t)',
         ~Listed(t)', \A u \in Pthreads : u # t => (Listed(u)' <=> Listed(u))
  PROVE  /\ UNCHANGED <<tAvail, tWaiting, tOutcome>> /\ life' \in [Pthreads -> {"none", "live", "stopped", "freed"}]
         /\ CallersOK' /\ JoinersOK' /\ CancellersOK' /\ JoinWaitsOK' /\ ThreadsOver'
<1>1. LifeTyped /\ CallersOK /\ ThreadsOver /\ JoinersOK /\ CancellersOK /\ JoinWaitsOK
  BY DEF LifeIInv
<1>2. call[t].at \in {"user", "stop"} /\ life[t] \in {"live", "stopped"}
  BY <1>1 DEF Over, CallersOK
<1>3. UNCHANGED <<tAvail, tWaiting, tOutcome>> /\ life' = [life EXCEPT ![t] = "freed"]
  BY <1>1, <1>2 DEF JoinWaitsOK, Th!_pthread_delete, Th!semVars
<1>4. /\ life' \in [Pthreads -> {"none", "live", "stopped", "freed"}]
      /\ life'[t] = "freed" /\ \A u \in Pthreads : u # t => life'[u] = life[u]
  BY <1>1, <1>3 DEF LifeTyped
<1>5. /\ call'[t] = call[t]
      /\ \A b \in Pthreads : call'[b] # call[b] => life[b] = "live" /\ call'[b].at = "user" /\ b # t
      /\ \A b \in Pthreads : call[b].at = "join" => call'[b] = call[b]
  BY <1>2
<1>6. /\ \A b, u \in Pthreads : u # t => (Joins(b, u)' <=> Joins(b, u)) /\ (Cancels(b, u)' <=> Cancels(b, u))
      /\ \A b, u \in Pthreads : Joins(b, u)' \/ Cancels(b, u)' => u # t /\ call'[b] = call[b]
  BY DEF Joins, Cancels, JoinPCs, CancelPCs
<1>7. CallersOK'
  <2> SUFFICES ASSUME NEW b \in Pthreads
               PROVE  /\ call'[b].at \notin {"user", "stop"} => life'[b] = "live"
                      /\ life'[b] \in {"none", "stopped"} => call'[b].at = "user"
                      /\ call'[b].at \in ExitPCs => call'[b].on = b /\ b \in cancelDisabled
                      /\ call'[b].at = "exitPost" => b \notin detached
                      /\ call'[b].at = "exitList" => b \in detached
                      /\ life'[b] = "stopped" => b \in cancelDisabled \cup cancelPending
    BY DEF CallersOK
  <2>1. CASE b = t
    BY <2>1, <1>1, <1>2, <1>4, <1>5 DEF CallersOK
  <2>2. CASE b # t /\ call'[b] = call[b]
    BY <2>2, <1>1, <1>4 DEF CallersOK
  <2>3. CASE b # t /\ call'[b] # call[b]
    BY <2>3, <1>4, <1>5 DEF ExitPCs
  <2> QED BY <2>1, <2>2, <2>3
<1>8. JoinersOK'
  BY <1>1, <1>4, <1>6 DEF JoinersOK
<1>9. CancellersOK'
  BY <1>1, <1>4, <1>6 DEF CancellersOK
<1>10. JoinWaitsOK'
  <2>1. \A b \in Pthreads : tOutcome[b] # "idle" => call'[b] = call[b]
    BY <1>1, <1>5 DEF JoinWaitsOK
  <2> QED BY <2>1, <1>1, <1>3, WaitsKept
<1>11. ASSUME NEW u \in Pthreads PROVE ThreadOK(u)'
  <2>1. CASE u = t
    <3>1. ~Over(t)' /\ ~Listed(t)' /\ life'[t] = "freed"
      BY <1>4 DEF Over
    <3> QED BY <2>1, <3>1 DEF ThreadOK
  <2>2. CASE u # t
    <3>1. ThreadOK(u)
      BY <1>1 DEF ThreadsOver
    <3>2. TokenThere(u)' <=> TokenThere(u)
      BY <2>2, <1>3, <1>6 DEF TokenThere
    <3>3. Over(u)' <=> Over(u)
      <4>1. life[u] = "live" => (call'[u].at = "stop" <=> call[u].at = "stop")
        <5>1. CASE call'[u] = call[u]
          BY <5>1
        <5>2. CASE call'[u] # call[u]
          BY <5>2
        <5> QED BY <5>1, <5>2
      <4>2. \A b \in Pthreads : Cancels(b, u)' => call'[b] = call[b]
        BY <1>6
      <4> QED BY <4>1, <4>2, <2>2, <1>4, <1>6 DEF Over
    <3> QED BY <2>2, <3>1, <3>2, <3>3, <1>3, <1>4, <1>6, ThreadStays
  <2> QED BY <2>1, <2>2
<1> QED BY <1>3, <1>4, <1>7, <1>8, <1>9, <1>10, <1>11 DEF ThreadsOver

LEMMA DeletePreserves ==
  ASSUME LifeIInv, NEW a \in Pthreads, Th!JoinDelete(a) \/ Th!CancelDelete(a)
  PROVE  LifeIInv'
<1>1. LifeTyped /\ CallersOK /\ ThreadsOver /\ JoinersOK /\ CancellersOK /\ IdleOK /\ JoinWaitsOK
  BY DEF LifeIInv
<1>0. PICK t \in Pthreads : t = call[a].on
  <2>1. call[a].at # "user"
    BY DEF Th!JoinDelete, Th!CancelDelete, Th!At
  <2> QED BY <2>1, <1>1, LifeTypes
<1>2. /\ life[a] = "live" /\ call[a].at \in {"joined", "cancelDelete"} /\ Th!Goto(a, Th!User)
      /\ Th!_pthread_delete(t)
      /\ UNCHANGED <<detached, joinThread, cancelDisabled, cancelPending, terminatedList, idle, app>>
  BY <1>0 DEF Th!JoinDelete, Th!CancelDelete, Th!Target, Th!At, Th!objVars, Th!listVars
<1>3. /\ call' \in [Pthreads -> {Th!User} \cup [at : Th!PCs, on : Pthreads]]
      /\ call'[a].at = "user" /\ \A b \in Pthreads : b # a => call'[b] = call[b]
  BY <1>1, <1>2, Leaves
<1>4. ThreadOK(t)
  BY <1>1 DEF ThreadsOver
<1>5. Over(t) /\ ~Listed(t) /\ \A b \in Pthreads : b # a => ~Joins(b, t) /\ ~Cancels(b, t)
  <2>1. CASE call[a].at = "joined"
    <3>1. Joins(a, t) /\ TokenThere(t)
      BY <2>1, <1>0 DEF Joins, JoinPCs, TokenThere
    <3>2. t \notin detached /\ life[t] # "freed" /\ joinThread[t] = {a}
      BY <3>1, <1>1 DEF JoinersOK
    <3>3. Over(t) /\ ~Listed(t)
      BY <3>1, <3>2, <1>4 DEF ThreadOK
    <3>4. ASSUME NEW b \in Pthreads, b # a, Joins(b, t) PROVE FALSE
      <4>1. joinThread[t] = {b}
        BY <3>4, <1>1 DEF JoinersOK
      <4> QED BY <3>2, <3>4, <4>1
    <3>5. ASSUME NEW b \in Pthreads, Cancels(b, t) PROVE FALSE
      <4>1. life[t] = "stopped" /\ call[b].at # "cancelDelete"
        BY <3>2, <3>5, <1>1 DEF CancellersOK
      <4> QED BY <3>3, <3>5, <4>1 DEF Over
    <3> QED BY <3>3, <3>4, <3>5
  <2>2. CASE call[a].at = "cancelDelete"
    <3>1. Cancels(a, t)
      BY <2>2, <1>0 DEF Cancels, CancelPCs
    <3>2. t \in detached /\ life[t] = "stopped" /\ \A b \in Pthreads : Cancels(b, t) => b = a
      BY <3>1, <2>2, <1>1 DEF CancellersOK
    <3>3. Over(t)
      BY <3>2, <2>2 DEF Over
    <3>4. ~Listed(t)
      BY <3>1, <3>2, <3>3, <1>4 DEF ThreadOK
    <3>5. \A b \in Pthreads : ~Joins(b, t)
      BY <3>2, <1>1 DEF JoinersOK
    <3> QED BY <3>2, <3>3, <3>4, <3>5
  <2> QED BY <2>1, <2>2, <1>2
<1>6. \A b \in Pthreads : ~Joins(b, t)' /\ ~Cancels(b, t)'
  BY <1>3, <1>5 DEF Joins, Cancels, JoinPCs, CancelPCs
<1>7. \A b \in Pthreads : \/ call'[b] = call[b]
                          \/ call[b].at \in {"joined", "cancelDelete"} /\ call[b].on = t /\ call'[b].at = "user" /\ life[b] = "live"
  BY <1>0, <1>2, <1>3
<1>8. ~Listed(t)' /\ \A u \in Pthreads : Listed(u)' <=> Listed(u)
  BY <1>2, <1>5 DEF Listed
<1>9. /\ UNCHANGED <<tAvail, tWaiting, tOutcome>> /\ life' \in [Pthreads -> {"none", "live", "stopped", "freed"}]
      /\ CallersOK' /\ JoinersOK' /\ CancellersOK' /\ JoinWaitsOK' /\ ThreadsOver'
  BY <1>2, <1>5, <1>6, <1>7, <1>8, FreeStep
<1>10. LifeTyped'
  BY <1>1, <1>2, <1>3, <1>9 DEF LifeTyped
<1> QED BY <1>1, <1>2, <1>9, <1>10 DEF LifeIInv, IdleOK

LEMMA IdlePreserves ==
  ASSUME LifeIInv, Th!IdleTake \/ Th!IdleDelete
  PROVE  LifeIInv'
<1>1. LifeTyped /\ CallersOK /\ ThreadsOver /\ JoinersOK /\ CancellersOK /\ IdleOK /\ JoinWaitsOK
  BY DEF LifeIInv
<1>2. CASE Th!IdleTake
  <2> DEFINE h == Head(terminatedList)
  <2>1. /\ idle = {} /\ terminatedList # <<>> /\ idle' = {h} /\ terminatedList' = Tail(terminatedList)
        /\ UNCHANGED <<tAvail, tWaiting, tOutcome, life, detached, joinThread, cancelDisabled, cancelPending, call, app>>
    BY <1>2 DEF Th!IdleTake, Th!semVars, Th!objVars
  <2>2. /\ terminatedList' \in Seq(Pthreads) /\ IsInjective(terminatedList') /\ h \in Pthreads /\ ~Contains(terminatedList', h)
        /\ \A u : Contains(terminatedList, u) <=> Contains(terminatedList', u) \/ u = h
    BY <2>1, <1>1, Beheaded DEF LifeTyped
  <2>3. LifeTyped'
    BY <2>1, <2>2, <1>1 DEF LifeTyped
  <2>4. \A u \in Pthreads : Listed(u)' <=> Listed(u)
    <3>1. \A u : u \in idle' <=> u = h
      BY <2>1
    <3>2. \A u : u \notin idle
      BY <2>1
    <3> HIDE DEF h
    <3> QED BY <3>1, <3>2, <2>2 DEF Listed
  <2>5. IdleOK'
    <3>1. PICK k \in Pthreads : k = h
      BY <2>2
    <3>2. idle' = {k} /\ ~Contains(terminatedList', k)
      BY <3>1, <2>1, <2>2
    <3> QED BY <3>2 DEF IdleOK
  <2>6. CallersOK' /\ JoinersOK' /\ CancellersOK' /\ JoinWaitsOK'
    <3>1. CallersOK'
      BY <2>1, <1>1 DEF CallersOK
    <3>2. JoinersOK'
      BY <2>1, <1>1 DEF JoinersOK, Joins
    <3>3. CancellersOK'
      BY <2>1, <1>1 DEF CancellersOK, Cancels
    <3>4. JoinWaitsOK'
      BY <2>1, <1>1, WaitsKept
    <3> QED BY <3>1, <3>2, <3>3, <3>4
  <2>7. ASSUME NEW u \in Pthreads PROVE ThreadOK(u)'
    <3>1. ThreadOK(u)
      BY <1>1 DEF ThreadsOver
    <3>2. \A b \in Pthreads : (Cancels(b, u)' <=> Cancels(b, u)) /\ (Joins(b, u)' <=> Joins(b, u))
      BY <2>1 DEF Cancels, Joins
    <3>3. (Over(u)' <=> Over(u)) /\ (TokenThere(u)' <=> TokenThere(u))
      BY <2>1, <3>2 DEF Over, TokenThere
    <3> QED BY <2>1, <2>4, <3>1, <3>2, <3>3, ThreadStays
  <2> QED BY <2>3, <2>5, <2>6, <2>7 DEF LifeIInv, ThreadsOver
<1>3. CASE Th!IdleDelete
  <2>1. PICK t \in Pthreads : idle = {t} /\ ~Contains(terminatedList, t)
    BY <1>1, <1>3 DEF Th!IdleDelete, IdleOK
  <2>2. /\ Th!_pthread_delete(t) /\ idle' = {}
        /\ UNCHANGED <<detached, joinThread, cancelDisabled, cancelPending, terminatedList, call, app>>
    BY <2>1, <1>3 DEF Th!IdleDelete, Th!objVars
  <2>3. ThreadOK(t) /\ Listed(t)
    BY <2>1, <1>1 DEF ThreadsOver, Listed
  <2>4. Over(t) /\ t \in detached /\ \A b \in Pthreads : ~Cancels(b, t)
    BY <2>3 DEF ThreadOK
  <2>5. \A b \in Pthreads : ~Joins(b, t)
    BY <2>4, <1>1 DEF JoinersOK
  <2>6. \A b \in Pthreads : ~Joins(b, t)' /\ ~Cancels(b, t)'
    BY <2>2, <2>4, <2>5 DEF Joins, Cancels
  <2>7. ~Listed(t)' /\ \A u \in Pthreads : u # t => (Listed(u)' <=> Listed(u))
    BY <2>1, <2>2 DEF Listed
  <2>8. /\ UNCHANGED <<tAvail, tWaiting, tOutcome>> /\ life' \in [Pthreads -> {"none", "live", "stopped", "freed"}]
        /\ CallersOK' /\ JoinersOK' /\ CancellersOK' /\ JoinWaitsOK' /\ ThreadsOver'
    BY <2>2, <2>4, <2>6, <2>7, FreeStep
  <2>9. LifeTyped'
    BY <2>2, <2>8, <1>1 DEF LifeTyped
  <2>10. IdleOK'
    BY <2>2 DEF IdleOK
  <2> QED BY <2>8, <2>9, <2>10 DEF LifeIInv
<1> QED BY <1>2, <1>3

-----------------------------------------------------------------------------
(* The invariant, and the theorem.                                         *)

LEMMA LifeInit == Th!Init => LifeIInv
<1> SUFFICES ASSUME Th!Init PROVE LifeIInv
  OBVIOUS
<1>1. /\ tAvail = [t \in Pthreads |-> 0] /\ tWaiting = [t \in Pthreads |-> <<>>] /\ tOutcome = [t \in Pthreads |-> "idle"]
      /\ app \in LifeApps /\ life = [t \in Pthreads |-> IF t \in app.first THEN "live" ELSE "none"]
      /\ detached = {} /\ joinThread = [t \in Pthreads |-> {}] /\ cancelDisabled = {} /\ cancelPending = {}
      /\ terminatedList = <<>> /\ idle = {} /\ call = [t \in Pthreads |-> Th!User]
  BY DEF Th!Init, Th!Sem!Init
<1>2. \A t \in Pthreads : call[t].at = "user" /\ life[t] \in {"live", "none"}
  BY <1>1 DEF Th!User
<1>3. <<>> \in Seq(Pthreads) /\ IsInjective(<<>>) /\ \A u : ~Contains(<<>>, u)
  BY DEF IsInjective, Contains
<1>4. LifeTyped
  BY <1>1, <1>3 DEF LifeTyped, Th!Sem!Outcomes
<1>5. \A a, t \in Pthreads : ~Joins(a, t) /\ ~Cancels(a, t)
  BY <1>2 DEF Joins, Cancels, JoinPCs, CancelPCs
<1>6. CallersOK
  BY <1>1, <1>2 DEF CallersOK, ExitPCs
<1>7. JoinersOK /\ CancellersOK
  BY <1>5 DEF JoinersOK, CancellersOK
<1>8. JoinWaitsOK
  BY <1>1 DEF JoinWaitsOK
<1>9. \A t \in Pthreads : ~Over(t) /\ ~Listed(t) /\ ~TokenThere(t)
  BY <1>1, <1>2, <1>3, <1>5 DEF Over, Listed, TokenThere
<1>10. ThreadsOver
  BY <1>1, <1>9 DEF ThreadsOver, ThreadOK
<1> QED BY <1>1, <1>4, <1>6, <1>7, <1>8, <1>10 DEF LifeIInv, IdleOK

LEMMA LifeNext == LifeAssumption /\ LifeIInv /\ [Th!Next]_(Th!vars) => LifeIInv'
<1> SUFFICES ASSUME LifeAssumption, LifeIInv, [Th!Next]_(Th!vars) PROVE LifeIInv'
  OBVIOUS
<1>1. ASSUME NEW a \in Pthreads, NEW t \in Pthreads,
             (\E d \in BOOLEAN : Th!pthread_create(a, t, d)) \/ Th!JoinCall(a, t) \/ Th!Detach(a, t) \/ Th!CancelCall(a, t)
      PROVE  LifeIInv'
  BY <1>1, CreatePreserves, JoinCallPreserves, DetachPreserves, CancelCallPreserves
<1>2. ASSUME NEW a \in Pthreads,
             \/ Th!ExitCall(a) \/ Th!Exit(a) \/ Th!ExitPost(a) \/ Th!ExitList(a) \/ Th!Stop(a)
             \/ Th!JoinPend(a) \/ Th!JoinDelete(a)
             \/ Th!Cancel(a) \/ Th!CancelPost(a) \/ Th!CancelDelete(a)
             \/ \E enable \in BOOLEAN : Th!SetCancelState(a, enable)
      PROVE  LifeIInv'
  BY <1>2, ExitPreserves, ExitPostPreserves, ExitListPreserves, StopPreserves, JoinPendPreserves, DeletePreserves,
     CancelPreserves, CancelPostPreserves, SetCancelStatePreserves
<1>3. CASE UNCHANGED Th!vars
  <2>1. UNCHANGED <<tAvail, tWaiting, tOutcome, life, detached, joinThread, cancelDisabled, cancelPending, terminatedList, idle, call, app>>
    BY <1>3 DEF Th!vars, Th!semVars, Th!objVars, Th!listVars
  <2>2. LifeTyped' /\ CallersOK' /\ IdleOK'
    BY <2>1 DEF LifeIInv, LifeTyped, CallersOK, IdleOK
  <2>3. JoinersOK' /\ CancellersOK'
    BY <2>1 DEF LifeIInv, JoinersOK, CancellersOK, Joins, Cancels
  <2>4. JoinWaitsOK'
    BY <2>1, WaitsKept DEF LifeIInv
  <2>5. ASSUME NEW u \in Pthreads PROVE ThreadOK(u)'
    <3>1. ThreadOK(u)
      BY DEF LifeIInv, ThreadsOver
    <3>2. \A b \in Pthreads : (Cancels(b, u)' <=> Cancels(b, u)) /\ (Joins(b, u)' <=> Joins(b, u))
      BY <2>1 DEF Cancels, Joins
    <3>3. (Over(u)' <=> Over(u)) /\ (TokenThere(u)' <=> TokenThere(u)) /\ (Listed(u)' <=> Listed(u))
      BY <2>1, <3>2 DEF Over, TokenThere, Listed
    <3> QED BY <2>1, <3>1, <3>2, <3>3, ThreadStays
  <2> QED BY <2>2, <2>3, <2>4, <2>5 DEF LifeIInv, ThreadsOver
<1> QED BY <1>1, <1>2, <1>3, IdlePreserves DEF Th!Next

-----------------------------------------------------------------------------
(* What the invariant says of the properties.                              *)

LEMMA LifeOperators ==
  ASSUME LifeTyped
  PROVE  /\ \A t : t \in Th!ToSet(terminatedList) <=> Contains(terminatedList, t)
         /\ Th!IsInjective(terminatedList)
         /\ \A a, t \in Pthreads : a \in Th!Deleters(t) <=>
              \/ Joins(a, t) /\ life[a] = "live" /\ call[a].at = "joined"
              \/ Cancels(a, t) /\ life[a] = "live" /\ call[a].at = "cancelDelete"
         /\ \A a, t \in Pthreads : call[a] \in {Th!On("cancel", t), Th!On("cancelPost", t)} <=>
              Cancels(a, t) /\ call[a].at # "cancelDelete"
<1>1. \A t : t \in Th!ToSet(terminatedList) <=> Contains(terminatedList, t)
  <2>1. DOMAIN terminatedList = 1 .. Len(terminatedList)
    BY DEF LifeTyped
  <2> QED BY <2>1 DEF Th!ToSet, Contains
<1>2. Th!IsInjective(terminatedList)
  BY DEF LifeTyped, IsInjective, Th!IsInjective
<1>3. ASSUME NEW a \in Pthreads, NEW t \in Pthreads, NEW l \in Th!PCs
      PROVE  call[a] = Th!On(l, t) <=> call[a].at = l /\ call[a].on = t
  <2>1. Th!On(l, t).at = l /\ Th!On(l, t).on = t /\ l # "user"
    BY DEF Th!On, Th!PCs
  <2> QED BY <2>1, LifeTypes
<1>4. {"joined", "cancelDelete", "cancel", "cancelPost"} \subseteq Th!PCs
  BY DEF Th!PCs
<1>5. ASSUME NEW a \in Pthreads, NEW t \in Pthreads
      PROVE  a \in Th!Deleters(t) <=>
              \/ Joins(a, t) /\ life[a] = "live" /\ call[a].at = "joined"
              \/ Cancels(a, t) /\ life[a] = "live" /\ call[a].at = "cancelDelete"
  <2>1. a \in Th!Deleters(t) <=> life[a] = "live" /\ (call[a] = Th!On("joined", t) \/ call[a] = Th!On("cancelDelete", t))
    BY DEF Th!Deleters
  <2> QED BY <2>1, <1>3, <1>4 DEF Joins, Cancels, JoinPCs, CancelPCs
<1>6. ASSUME NEW a \in Pthreads, NEW t \in Pthreads
      PROVE  call[a] \in {Th!On("cancel", t), Th!On("cancelPost", t)} <=>
              Cancels(a, t) /\ call[a].at # "cancelDelete"
  BY <1>3, <1>4 DEF Cancels, CancelPCs
<1> QED BY <1>1, <1>2, <1>5, <1>6

LEMMA LifeTypeOK == LifeIInv => Th!TypeOK
<1> SUFFICES ASSUME LifeIInv PROVE Th!TypeOK
  OBVIOUS
<1>1. LifeTyped
  BY DEF LifeIInv
<1>2. 0 .. 2 - 1 = 0 .. 1
  OBVIOUS
<1>3. idle \in SUBSET Pthreads
  BY DEF LifeIInv, IdleOK
<1> QED BY <1>1, <1>2, <1>3, LifeOperators DEF LifeTyped, Th!TypeOK, Th!Sem!SpecTypeOK

\* A thread that somebody is about to delete is not on the list, and nobody else
\* is about to.
LEMMA OneDeletes ==
  ASSUME LifeIInv, NEW t \in Pthreads
  PROVE  /\ \A a, b \in Pthreads : a \in Th!Deleters(t) /\ b \in Th!Deleters(t) => a = b
         /\ Listed(t) => life[t] # "freed" /\ Th!Deleters(t) = {}
<1>1. LifeTyped
  BY DEF LifeIInv
<1>2. ThreadOK(t)
  BY DEF LifeIInv, ThreadsOver
<1>3. \A a \in Pthreads : Joins(a, t) => joinThread[t] = {a} /\ t \notin detached
  BY DEF LifeIInv, JoinersOK
<1>4. \A a \in Pthreads : Cancels(a, t) =>
        (call[a].at = "cancelDelete" => t \in detached) /\ \A b \in Pthreads : Cancels(b, t) => b = a
  BY DEF LifeIInv, CancellersOK
<1>5. ASSUME NEW a \in Pthreads, NEW b \in Pthreads, a \in Th!Deleters(t), b \in Th!Deleters(t) PROVE a = b
  <2>1. \A u, v : {u} = {v} => u = v
    OBVIOUS
  <2>2. CASE Joins(a, t) /\ Joins(b, t)
    BY <1>3, <2>1, <2>2
  <2> QED BY <1>1, <1>3, <1>4, <1>5, <2>2, LifeOperators
<1>6. ASSUME Listed(t) PROVE life[t] # "freed" /\ Th!Deleters(t) = {}
  <2>1. Over(t) /\ t \in detached /\ ~\E a \in Pthreads : Cancels(a, t)
    BY <1>2, <1>6 DEF ThreadOK
  <2>2. life[t] # "freed"
    BY <2>1 DEF Over
  <2>3. \A a \in Pthreads : a \notin Th!Deleters(t)
    BY <1>1, <1>3, <2>1, LifeOperators
  <2>4. Th!Deleters(t) \subseteq Pthreads
    BY DEF Th!Deleters
  <2> QED BY <2>2, <2>3, <2>4
<1> QED BY <1>5, <1>6

LEMMA LifeFreedOnce == LifeIInv => Th!FreedOnce
<1> SUFFICES ASSUME LifeIInv, NEW t \in Pthreads
             PROVE  LET onList == IF t \in idle \cup Th!ToSet(terminatedList) THEN 1 ELSE 0
                    IN  /\ life[t] = "freed" => ~Th!InUse(t) /\ onList = 0
                        /\ Th!Cardinality(Th!Deleters(t)) + onList <= 1
  BY DEF Th!FreedOnce
<1> DEFINE onList == IF t \in idle \cup Th!ToSet(terminatedList) THEN 1 ELSE 0
<1>1. LifeTyped /\ CallersOK /\ JoinersOK /\ CancellersOK
  BY DEF LifeIInv
<1>2. t \in idle \cup Th!ToSet(terminatedList) <=> Listed(t)
  BY <1>1, LifeOperators DEF Listed
<1>3. onList = IF Listed(t) THEN 1 ELSE 0
  BY <1>2
<1>4. ASSUME life[t] = "freed" PROVE ~Th!InUse(t)
  <2> SUFFICES ASSUME NEW a \in Pthreads, life[a] = "live", call[a] # Th!User, call[a].on = t, a # t
               PROVE  FALSE
    BY DEF Th!InUse, Th!Target
  <2>1. call[a].at \in Th!PCs
    BY <1>1, LifeTypes
  <2>2. call[a].at \notin ExitPCs
    BY <1>1 DEF CallersOK
  <2>3. Joins(a, t) \/ Cancels(a, t)
    BY <2>1, <2>2 DEF Th!PCs, ExitPCs, Joins, Cancels, JoinPCs, CancelPCs
  <2> QED BY <2>3, <1>1, <1>4 DEF JoinersOK, CancellersOK
<1>5. Th!Cardinality(Th!Deleters(t)) \in {0, 1} /\ (Th!Deleters(t) = {} => Th!Cardinality(Th!Deleters(t)) = 0)
  <2>1. Th!Deleters(t) \subseteq Pthreads
    BY DEF Th!Deleters
  <2>2. Th!Deleters(t) = {} \/ \E a \in Pthreads : Th!Deleters(t) = {a}
    <3>1. CASE Th!Deleters(t) # {}
      <4>1. PICK a \in Pthreads : a \in Th!Deleters(t)
        BY <2>1, <3>1
      <4>2. \A b \in Th!Deleters(t) : b = a
        BY <2>1, <4>1, OneDeletes
      <4> QED BY <4>1, <4>2
    <3> QED BY <3>1
  <2>3. Th!Cardinality(Th!Deleters(t)) = Cardinality(Th!Deleters(t))
    BY DEF Th!Cardinality, Cardinality
  <2> QED BY <2>2, <2>3, FS_EmptySet, FS_Singleton
<1>6. Listed(t) => life[t] # "freed" /\ Th!Deleters(t) = {}
  BY OneDeletes
<1> HIDE DEF onList
<1>7. life[t] = "freed" => ~Th!InUse(t) /\ onList = 0
  BY <1>3, <1>4, <1>6
<1>8. Th!Cardinality(Th!Deleters(t)) + onList <= 1
  BY <1>3, <1>5, <1>6
<1> QED BY <1>7, <1>8 DEF onList

LEMMA LifeReclaimed == LifeIInv => Th!Reclaimed
<1> SUFFICES ASSUME LifeIInv, NEW t \in Pthreads, life[t] = "stopped"
             PROVE  \/ t \in idle \cup Th!ToSet(terminatedList) \/ Th!Deleters(t) # {}
                    \/ \E a \in Pthreads : life[a] = "live" /\ call[a] \in {Th!On("cancel", t), Th!On("cancelPost", t)}
                    \/ /\ t \notin detached /\ \A a \in joinThread[t] : life[a] = "live"
                       /\ tAvail[t] = 1 \/ \E a \in joinThread[t] : tOutcome[a] = "granted"
  BY DEF Th!Reclaimed
<1>1. LifeTyped /\ ThreadOK(t)
  BY DEF LifeIInv, ThreadsOver
<1>2. \A a \in Pthreads : Joins(a, t) \/ Cancels(a, t) => life[a] = "live"
  BY DEF LifeIInv, CallersOK, Joins, Cancels, JoinPCs, CancelPCs
<1>3. CASE \E a \in Pthreads : Cancels(a, t) /\ call[a].at # "cancelDelete"
  BY <1>1, <1>2, <1>3, LifeOperators
<1>4. CASE \E a \in Pthreads : Cancels(a, t) /\ call[a].at = "cancelDelete"
  BY <1>1, <1>2, <1>4, LifeOperators
<1>5. CASE ~\E a \in Pthreads : Cancels(a, t)
  <2>1. Over(t)
    BY <1>5 DEF Over
  <2>2. CASE t \in detached
    <3>1. Listed(t)
      BY <1>1, <1>5, <2>1, <2>2 DEF ThreadOK
    <3> QED BY <3>1, <1>1, LifeOperators DEF Listed
  <2>3. CASE t \notin detached
    <3>1. TokenThere(t)
      BY <1>1, <2>1, <2>3 DEF ThreadOK
    <3>2. \A a \in joinThread[t] : life[a] = "live"
      BY <1>1, <1>2 DEF ThreadOK
    <3>3. CASE tAvail[t] = 1
      BY <2>3, <3>2, <3>3
    <3>4. CASE tAvail[t] # 1
      <4>1. PICK a \in Pthreads : Joins(a, t) /\ (call[a].at = "joined" \/ tOutcome[a] = "granted")
        BY <3>1, <3>4 DEF TokenThere
      <4>2. joinThread[t] = {a} /\ life[a] = "live"
        <5>1. JoinersOK
          BY DEF LifeIInv
        <5> QED BY <5>1, <4>1, <1>2 DEF JoinersOK
      <4> QED BY <1>1, <2>3, <3>2, <4>1, <4>2, LifeOperators
    <3> QED BY <3>3, <3>4
  <2> QED BY <2>2, <2>3
<1> QED BY <1>3, <1>4, <1>5

-----------------------------------------------------------------------------
(* Whatever is looked at.                                                  *)

\* If a is the aspect that is looked at, inv holds of it.
Of(a, inv) == aspect = a => inv

LEMMA MutexesOf == ASSUME MutexAssumption PROVE ThreadsSpec => []Of("mutexes", FlatIInv)
<1>1. ThreadsInit => Of("mutexes", FlatIInv)
  BY FlatInit DEF ThreadsInit, Of
<1>2. Of("mutexes", FlatIInv) /\ [ThreadsNext]_threadVars => Of("mutexes", FlatIInv)'
  <2> SUFFICES ASSUME Of("mutexes", FlatIInv), [ThreadsNext]_threadVars, aspect' = "mutexes"
               PROVE  FlatIInv'
    BY DEF Of
  <2>1. aspect = "mutexes" /\ FlatIInv
    BY DEF Of, ThreadsNext, threadVars
  <2>2. [Mu!Next]_(Mu!vars)
    BY <2>1 DEF ThreadsNext, threadVars, mutexVars, Mu!vars, Mu!semVars, Mu!mutexVars
  <2> QED BY <2>1, <2>2, FlatNext
<1> QED BY <1>1, <1>2, PTL DEF ThreadsSpec

LEMMA LivesOf == ASSUME LifeAssumption PROVE ThreadsSpec => []Of("lives", LifeIInv)
<1>1. ThreadsInit => Of("lives", LifeIInv)
  BY LifeInit DEF ThreadsInit, Of
<1>2. Of("lives", LifeIInv) /\ [ThreadsNext]_threadVars => Of("lives", LifeIInv)'
  <2> SUFFICES ASSUME Of("lives", LifeIInv), [ThreadsNext]_threadVars, aspect' = "lives"
               PROVE  LifeIInv'
    BY DEF Of
  <2>1. aspect = "lives" /\ LifeIInv
    BY DEF Of, ThreadsNext, threadVars
  <2>2. [Th!Next]_(Th!vars)
    BY <2>1 DEF ThreadsNext, threadVars, lifeVars, Th!vars, Th!semVars, Th!objVars, Th!listVars
  <2> QED BY <2>1, <2>2, LifeNext
<1> QED BY <1>1, <1>2, PTL DEF ThreadsSpec

\* pthread_mutex.c:647-648 and 776-777: a mutex is free, or owned by one thread, or
\* on its way to one, and then it has no owner and no count; the list the ceiling is
\* computed from is that of the threads in the call.
THEOREM MutexesExclude == ASSUME MutexAssumption PROVE ThreadsSpec => []MutexExclusion
<1>1. Of("mutexes", FlatIInv) => MutexExclusion
  BY MutexIInvExcludes DEF Of, MutexExclusion, FlatIInv
<1> QED BY <1>1, MutexesOf, PTL

\* pthread_mutex.c:85-91: the prioceiling is that of the highest priority thread
\* waiting on the mutex, and who holds a mutex with a protocol runs at its
\* prioceiling or above, and so no lower than who waits for it.  For applications
\* in which a thread locks one mutex at a time and priorities are not set; if they
\* are, the theorem still says that a thread with no mutex runs at its own.
THEOREM FlatPriorities ==
  ASSUME MutexAssumption, \A p \in MutexApps : p.depth = 1
  PROVE  ThreadsSpec => []MutexPriority
<1>1. Of("mutexes", FlatIInv) => MutexPriority
  <2> SUFFICES ASSUME aspect = "mutexes", FlatIInv PROVE Mu!MutexPriority
    BY DEF Of, MutexPriority
  <2>1. app \in MutexApps
    BY DEF FlatIInv, MutexIInv, MutexTyped
  <2> QED BY <2>1, FlatIInvPriority
<1> QED BY <1>1, MutexesOf, PTL

\* pthread.c:378-381: what a thread held is freed when it is over, if it is
\* detached; nobody uses it then, and nobody frees it twice; one that is joined
\* has left its joiner the token.  For applications without the two findings
\* about pthread_cancel and the detached flag (README, section 3).
THEOREM ThreadsAreFreed == ASSUME LifeAssumption PROVE ThreadsSpec => []ThreadsFreed
<1>1. Of("lives", LifeIInv) => ThreadsFreed
  BY LifeTypeOK, LifeFreedOnce, LifeReclaimed DEF Of, ThreadsFreed, Th!ThreadsFreed
<1> QED BY <1>1, LivesOf, PTL
=============================================================================
