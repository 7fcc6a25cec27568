---------------------------- MODULE KernelProofs ----------------------------
(***************************************************************************)
(* What the operations of Queue.c do to the elements on a list that holds  *)
(* each element at most once, and what each primitive of the task          *)
(* scheduler preserves: the facts every module built on TaskKernel needs.  *)
(***************************************************************************)
EXTENDS TaskKernel, WellFoundedInduction, TLAPS

-----------------------------------------------------------------------------
(* Lists.                                                                  *)

\* The elements of a concatenation.
LEMMA ConcatElements ==
  ASSUME NEW p \in Seq(Tasks), NEW q \in Seq(Tasks)
  PROVE  /\ p \o q \in Seq(Tasks)
         /\ Len(p \o q) = Len(p) + Len(q)
         /\ \A j \in 1 .. Len(p) + Len(q) :
              (p \o q)[j] = IF j <= Len(p) THEN p[j] ELSE q[j - Len(p)]
  OBVIOUS

\* An element found at an index is linked.
LEMMA LinkedAt ==
  ASSUME NEW q \in Seq(Tasks), NEW i \in 1 .. Len(q)
  PROVE  Linked(q[i], q)
  BY DEF Linked

\* Queue_remove closes the gap the element leaves (Queue.c:230-242).
LEMMA RemoveIndices ==
  ASSUME NEW q \in Seq(Tasks), NEW t \in Tasks, Linked(t, q)
  PROVE  LET i == Position(q, t)
             r == Queue_remove(q, t)
         IN  /\ i \in 1 .. Len(q) /\ q[i] = t
             /\ r \in Seq(Tasks)
             /\ Len(r) = Len(q) - 1
             /\ \A j \in 1 .. Len(r) : r[j] = IF j < i THEN q[j] ELSE q[j + 1]
<1> DEFINE i == Position(q, t)
           r == Queue_remove(q, t)
<1>1. i \in 1 .. Len(q) /\ q[i] = t
  BY DEF Linked, Position
<1> DEFINE before == SubSeq(q, 1, i - 1)
           after  == SubSeq(q, i + 1, Len(q))
<1>2. /\ before \in Seq(Tasks) /\ Len(before) = i - 1
      /\ \A j \in 1 .. i - 1 : before[j] = q[j]
  BY <1>1
<1>3. /\ after \in Seq(Tasks) /\ Len(after) = Len(q) - i
      /\ \A j \in 1 .. Len(q) - i : after[j] = q[i + j]
  BY <1>1
<1>4. r = before \o after
  BY DEF Queue_remove, RemoveAt
<1> HIDE DEF before, after, r, i
<1>5. /\ r \in Seq(Tasks) /\ Len(r) = (i - 1) + (Len(q) - i)
      /\ \A j \in 1 .. Len(r) : r[j] = IF j <= Len(before) THEN before[j] ELSE after[j - Len(before)]
  <2>1. /\ before \o after \in Seq(Tasks)
        /\ Len(before \o after) = Len(before) + Len(after)
        /\ \A j \in 1 .. Len(before) + Len(after) :
             (before \o after)[j] = IF j <= Len(before) THEN before[j]
                                    ELSE after[j - Len(before)]
    BY <1>2, <1>3, ConcatElements
  <2>2. QED BY <2>1, <1>2, <1>3, <1>4
<1>6. ASSUME NEW j \in 1 .. Len(r) PROVE r[j] = IF j < i THEN q[j] ELSE q[j + 1]
  <2>1. CASE j < i
    BY <2>1, <1>2, <1>5, <1>1
  <2>2. CASE ~(j < i)
    <3>1. j - Len(before) \in 1 .. Len(q) - i /\ r[j] = after[j - Len(before)]
      BY <2>2, <1>2, <1>5, <1>1
    <3>2. r[j] = q[i + (j - (i - 1))]
      BY <3>1, <1>3, <1>2
    <3>3. i + (j - (i - 1)) = j + 1
      BY <1>1
    <3>4. QED BY <3>2, <3>3, <2>2
  <2>3. QED BY <2>1, <2>2
<1>7. QED BY <1>5, <1>6, <1>1 DEF i, r

\* Queue_remove takes off exactly the element it is given.
LEMMA RemoveElement ==
  ASSUME NEW q \in Seq(Tasks), NoDuplicates(q), NEW t \in Tasks, Linked(t, q)
  PROVE  LET r == Queue_remove(q, t) IN
         /\ r \in Seq(Tasks)
         /\ NoDuplicates(r)
         /\ \A u \in Tasks : Linked(u, r) <=> Linked(u, q) /\ u # t
         /\ \A u \in Tasks : q # <<>> /\ Head(q) = u /\ u # t => r # <<>> /\ Head(r) = u
<1> DEFINE i == Position(q, t)
           r == Queue_remove(q, t)
<1>1. i \in 1 .. Len(q) /\ q[i] = t
  BY RemoveIndices
<1>2. /\ r \in Seq(Tasks)
      /\ Len(r) = Len(q) - 1
      /\ \A j \in 1 .. Len(r) : r[j] = IF j < i THEN q[j] ELSE q[j + 1]
  BY RemoveIndices
<1>3. NoDuplicates(r)
  BY <1>1, <1>2 DEF NoDuplicates
<1>4. \A u \in Tasks : Linked(u, r) => Linked(u, q) /\ u # t
  BY <1>1, <1>2 DEF NoDuplicates, Linked
<1>5. ASSUME NEW u \in Tasks, Linked(u, q), u # t PROVE Linked(u, r)
  <2>1. PICK k \in 1 .. Len(q) : q[k] = u
    BY <1>5 DEF Linked
  <2>2. k # i
    BY <2>1, <1>1, <1>5
  <2>3. CASE k < i
    BY <2>1, <2>3, <1>1, <1>2 DEF Linked
  <2>4. CASE k > i
    <3>1. k - 1 \in 1 .. Len(r) /\ r[k - 1] = q[k]
      BY <2>1, <2>4, <1>1, <1>2
    <3>2. QED BY <3>1, <2>1, <1>2 DEF Linked
  <2>5. QED BY <2>2, <2>3, <2>4, <2>1, <1>1
<1>6. ASSUME NEW u \in Tasks, q # <<>>, Head(q) = u, u # t PROVE r # <<>> /\ Head(r) = u
  <2>1. q[1] = u /\ i # 1 /\ Len(q) > 1
    BY <1>6, <1>1
  <2>2. QED BY <2>1, <1>1, <1>2
<1>7. QED BY <1>2, <1>3, <1>4, <1>5, <1>6

\* Appending an element that is not on the list (Queue_put, Queue_enqueue).
LEMMA AppendElement ==
  ASSUME NEW q \in Seq(Tasks), NoDuplicates(q), NEW t \in Tasks, ~Linked(t, q)
  PROVE  LET r == Append(q, t) IN
         /\ r \in Seq(Tasks) /\ r # <<>>
         /\ NoDuplicates(r)
         /\ \A u \in Tasks : Linked(u, r) <=> Linked(u, q) \/ u = t
         /\ q # <<>> => Head(r) = Head(q)
<1> DEFINE r == Append(q, t)
<1>1. /\ r \in Seq(Tasks) /\ Len(r) = Len(q) + 1 /\ r[Len(q) + 1] = t
      /\ \A j \in 1 .. Len(q) : r[j] = q[j]
  OBVIOUS
<1>2. NoDuplicates(r)
  BY <1>1 DEF NoDuplicates, Linked
<1>3. \A u \in Tasks : Linked(u, r) <=> Linked(u, q) \/ u = t
  BY <1>1 DEF Linked
<1>4. r # <<>> /\ (q # <<>> => Head(r) = Head(q))
  BY <1>1
<1>5. QED BY <1>1, <1>2, <1>3, <1>4

\* Putting an element that is not on the list in front of it (Queue_insert
\* before the head, Queue_putHead).
LEMMA PushElement ==
  ASSUME NEW q \in Seq(Tasks), NoDuplicates(q), NEW t \in Tasks, ~Linked(t, q)
  PROVE  LET r == <<t>> \o q IN
         /\ r \in Seq(Tasks) /\ r # <<>> /\ Head(r) = t
         /\ NoDuplicates(r)
         /\ \A u \in Tasks : Linked(u, r) <=> Linked(u, q) \/ u = t
<1> DEFINE r == <<t>> \o q
<1>1. /\ r \in Seq(Tasks) /\ Len(r) = Len(q) + 1 /\ r[1] = t
      /\ \A j \in 2 .. Len(r) : r[j] = q[j - 1]
  OBVIOUS
<1>2. NoDuplicates(r)
  BY <1>1 DEF NoDuplicates, Linked
<1>3. ASSUME NEW u \in Tasks PROVE Linked(u, r) <=> Linked(u, q) \/ u = t
  <2>1. Linked(u, r) => Linked(u, q) \/ u = t
    BY <1>1 DEF Linked
  <2>2. u = t => Linked(u, r)
    BY <1>1 DEF Linked
  <2>3. ASSUME Linked(u, q) PROVE Linked(u, r)
    <3>1. PICK k \in 1 .. Len(q) : q[k] = u
      BY <2>3 DEF Linked
    <3>2. k + 1 \in 1 .. Len(r) /\ r[k + 1] = u
      BY <1>1, <3>1
    <3>3. Linked(r[k + 1], r)
      BY <3>2, <1>1, LinkedAt
    <3>4. QED BY <3>2, <3>3
  <2>4. QED BY <2>1, <2>2, <2>3
<1>4. QED BY <1>1, <1>2, <1>3

\* Task_yield's Queue_enqueue(curQ, Queue_dequeue(curQ)) (Task.c:688-689).
LEMMA RotateElement ==
  ASSUME NEW q \in Seq(Tasks), NoDuplicates(q), q # <<>>
  PROVE  LET r == Append(Tail(q), Head(q)) IN
         /\ r \in Seq(Tasks) /\ r # <<>>
         /\ NoDuplicates(r)
         /\ \A u \in Tasks : Linked(u, r) <=> Linked(u, q)
<1> DEFINE r == Append(Tail(q), Head(q))
<1>1. /\ r \in Seq(Tasks) /\ Len(r) = Len(q) /\ Len(q) \in Nat \ {0}
      /\ r[Len(q)] = q[1]
      /\ \A j \in 1 .. Len(q) - 1 : r[j] = q[j + 1]
  OBVIOUS
<1> HIDE DEF r
<1>2. NoDuplicates(r)
  <2>1. ASSUME NEW j \in 1 .. Len(q), NEW k \in 1 .. Len(q), r[j] = r[k] PROVE j = k
    <3> DEFINE at(n) == IF n = Len(q) THEN 1 ELSE n + 1
    <3>1. /\ at(j) \in 1 .. Len(q) /\ r[j] = q[at(j)]
          /\ at(k) \in 1 .. Len(q) /\ r[k] = q[at(k)]
      BY <1>1
    <3>2. \A m, n \in 1 .. Len(q) : q[m] = q[n] => m = n
      BY DEF NoDuplicates
    <3>3. at(j) = at(k)
      <4> HIDE DEF at
      <4>1. QED BY <3>1, <3>2, <2>1
    <3>4. QED BY <3>3, <1>1
  <2>2. QED BY <2>1, <1>1 DEF NoDuplicates
<1>3. ASSUME NEW u \in Tasks PROVE Linked(u, r) <=> Linked(u, q)
  <2>1. Linked(u, r) => Linked(u, q)
    BY <1>1 DEF Linked
  <2>2. ASSUME Linked(u, q) PROVE Linked(u, r)
    <3>1. PICK k \in 1 .. Len(q) : q[k] = u
      BY <2>2 DEF Linked
    <3>2. CASE k = 1
      BY <1>1, <3>1, <3>2 DEF Linked
    <3>3. CASE k > 1
      <4>1. k - 1 \in 1 .. Len(q) - 1 /\ r[k - 1] = u
        BY <1>1, <3>1, <3>3
      <4>2. Linked(r[k - 1], r)
        BY <4>1, <1>1, LinkedAt
      <4>3. QED BY <4>1, <4>2
    <3>4. QED BY <3>1, <3>2, <3>3
  <2>3. QED BY <2>1, <2>2
<1>4. QED BY <1>1, <1>2, <1>3 DEF r

\* Queue_get takes the head off (Queue.c:100-115).
LEMMA TailElements ==
  ASSUME NEW q \in Seq(Tasks), NoDuplicates(q), q # <<>>
  PROVE  /\ Head(q) \in Tasks /\ Linked(Head(q), q)
         /\ Tail(q) \in Seq(Tasks)
         /\ NoDuplicates(Tail(q))
         /\ \A u \in Tasks : Linked(u, Tail(q)) => Linked(u, q) /\ u # Head(q)
<1> DEFINE r == Tail(q)
<1>1. /\ r \in Seq(Tasks) /\ Len(r) = Len(q) - 1 /\ Len(q) \in Nat \ {0}
      /\ \A j \in 1 .. Len(q) - 1 : r[j] = q[j + 1]
      /\ Head(q) = q[1]
  OBVIOUS
<1> HIDE DEF r
<1>2. \A m, n \in 1 .. Len(q) : q[m] = q[n] => m = n
  BY DEF NoDuplicates
<1>3. NoDuplicates(r)
  <2>1. ASSUME NEW m \in 1 .. Len(r), NEW n \in 1 .. Len(r), r[m] = r[n] PROVE m = n
    <3>1. q[m + 1] = q[n + 1] /\ m + 1 \in 1 .. Len(q) /\ n + 1 \in 1 .. Len(q)
      BY <1>1, <2>1
    <3>2. m + 1 = n + 1
      BY <1>2, <3>1
    <3>3. QED BY <3>2
  <2>2. QED BY <1>1, <2>1 DEF NoDuplicates
<1>4. ASSUME NEW u \in Tasks, Linked(u, r) PROVE Linked(u, q) /\ u # q[1]
  <2>1. PICK k \in 1 .. Len(r) : r[k] = u
    BY <1>1, <1>4 DEF Linked
  <2>2. k + 1 \in 1 .. Len(q) /\ q[k + 1] = u
    BY <1>1, <2>1
  <2>3. u # q[1]
    BY <1>1, <1>2, <2>2
  <2>4. QED BY <2>2, <2>3, LinkedAt
<1>5. Linked(q[1], q) /\ q[1] \in Tasks
  BY <1>1, LinkedAt
<1>6. QED BY <1>1, <1>3, <1>4, <1>5 DEF r

\* Queue_get takes the head off, and nobody else.
LEMMA TailIsRest ==
  ASSUME NEW q \in Seq(Tasks), NoDuplicates(q), q # <<>>
  PROVE  \A u \in Tasks : Linked(u, Tail(q)) <=> Linked(u, q) /\ u # Head(q)
<1> DEFINE r == Tail(q)
<1>1. /\ r \in Seq(Tasks) /\ Len(r) = Len(q) - 1 /\ Len(q) \in Nat \ {0}
      /\ \A j \in 1 .. Len(r) : r[j] = q[j + 1]
      /\ Head(q) = q[1]
  OBVIOUS
<1> HIDE DEF r
<1>2. ASSUME NEW u \in Tasks, Linked(u, q), u # Head(q) PROVE Linked(u, r)
  <2>1. PICK k \in 1 .. Len(q) : q[k] = u
    BY <1>2 DEF Linked
  <2>2. k - 1 \in 1 .. Len(r) /\ r[k - 1] = u
    BY <1>1, <1>2, <2>1
  <2> QED BY <1>1, <2>2, LinkedAt
<1>3. \A u \in Tasks : Linked(u, r) => Linked(u, q) /\ u # Head(q)
  BY TailElements DEF r
<1> QED BY <1>2, <1>3 DEF r

\* The ready lists at startup are sequences of tasks.
LEMMA BoundedSequences ==
  ASSUME NEW n
  PROVE  SeqOf(Tasks, n) \subseteq Seq(Tasks)
BY DEF SeqOf

-----------------------------------------------------------------------------
(* The highest bit, the first lower priority.                              *)

\* Every non-empty set of naturals has a least element.
LEMMA HasMin ==
  ASSUME NEW T \in SUBSET Nat, T # {}
  PROVE  \E x \in T : \A y \in T : x <= y
<1> DEFINE R == {ss \in Nat \X Nat : ss[1] < ss[2]}
<1>1. IsWellFoundedOn(R, Nat)
  BY NatLessThanWellFounded DEF OpToRel
<1>2. \A m, n \in Nat : m < n => <<m, n>> \in R
  OBVIOUS
<1> HIDE DEF R
<1>3. PICK x \in T : \A y \in T : <<y, x>> \notin R
  BY <1>1, WFMin
<1>4. ASSUME NEW y \in T PROVE x <= y
  <2>1. x \in Nat /\ y \in Nat
    OBVIOUS
  <2>2. ~ (y < x)
    BY <1>2, <1>3, <2>1
  <2>3. QED BY <2>1, <2>2
<1>5. QED BY <1>4

\* Every non-empty set of naturals up to n has a greatest element.
LEMMA HasMax ==
  ASSUME NEW n \in Nat, NEW S \in SUBSET (0 .. n), S # {}
  PROVE  \E x \in S : \A y \in S : y <= x
<1> DEFINE T == {n - x : x \in S}
<1>1. T \in SUBSET Nat
  <2>1. \A x \in 0 .. n : n - x \in Nat
    OBVIOUS
  <2>2. QED BY <2>1
<1>2. T # {}
  OBVIOUS
<1> HIDE DEF T
<1>3. PICK m \in T : \A k \in T : m <= k
  BY <1>1, <1>2, HasMin
<1>4. PICK x \in S : m = n - x
  BY DEF T
<1>5. ASSUME NEW y \in S PROVE y <= x
  <2>1. n - y \in T
    BY DEF T
  <2>2. n - x <= n - y
    BY <1>3, <1>4, <2>1
  <2>3. x \in 0 .. n /\ y \in 0 .. n
    OBVIOUS
  <2>4. QED BY <2>2, <2>3
<1>6. QED BY <1>5

\* An element inserted anywhere in a list: those after it move up.
LEMMA InsertIndices ==
  ASSUME NEW q \in Seq(Tasks), NEW t \in Tasks, NEW i \in 1 .. Len(q) + 1
  PROVE  LET r == InsertAt(q, i, t) IN
         /\ r \in Seq(Tasks) /\ Len(r) = Len(q) + 1
         /\ \A j \in 1 .. Len(r) : r[j] = IF j < i THEN q[j] ELSE IF j = i THEN t ELSE q[j - 1]
<1> DEFINE before == SubSeq(q, 1, i - 1)
           after  == SubSeq(q, i, Len(q))
           r      == InsertAt(q, i, t)
<1>1. /\ before \in Seq(Tasks) /\ Len(before) = i - 1
      /\ \A j \in 1 .. i - 1 : before[j] = q[j]
  OBVIOUS
<1>2. /\ after \in Seq(Tasks) /\ Len(after) = Len(q) - i + 1
      /\ \A j \in 1 .. Len(q) - i + 1 : after[j] = q[i + j - 1]
  OBVIOUS
<1>3. r = (before \o <<t>>) \o after
  BY DEF InsertAt
<1> HIDE DEF before, after, r
<1>4. before \o <<t>> = Append(before, t)
  BY <1>1
<1>5. /\ Append(before, t) \in Seq(Tasks) /\ Len(Append(before, t)) = i
      /\ Append(before, t)[i] = t
      /\ \A j \in 1 .. i - 1 : Append(before, t)[j] = q[j]
  BY <1>1
<1>6. /\ r \in Seq(Tasks) /\ Len(r) = Len(q) + 1
      /\ \A j \in 1 .. Len(r) : r[j] = IF j <= i THEN Append(before, t)[j] ELSE after[j - i]
  <2>1. Append(before, t) \o after \in Seq(Tasks)
        /\ Len(Append(before, t) \o after) = i + Len(after)
        /\ \A j \in 1 .. i + Len(after) :
             (Append(before, t) \o after)[j]
               = IF j <= i THEN Append(before, t)[j] ELSE after[j - i]
    BY <1>2, <1>5, ConcatElements
  <2> QED BY <2>1, <1>2, <1>3, <1>4
<1>7. \A j \in 1 .. Len(r) : r[j] = IF j < i THEN q[j] ELSE IF j = i THEN t ELSE q[j - 1]
  <2> TAKE j \in 1 .. Len(r)
  <2>1. CASE j <= i
    BY <2>1, <1>5, <1>6
  <2>2. CASE j > i
    <3>1. j - i \in 1 .. Len(q) - i + 1 /\ r[j] = after[j - i]
      BY <2>2, <1>6
    <3>2. after[j - i] = q[i + (j - i) - 1] /\ i + (j - i) - 1 = j - 1
      BY <3>1, <1>2
    <3> QED BY <2>2, <3>1, <3>2
  <2> QED BY <2>1, <2>2
<1> QED BY <1>6, <1>7 DEF r

\* An element inserted anywhere in a list that does not have it.
LEMMA InsertElement ==
  ASSUME NEW q \in Seq(Tasks), NoDuplicates(q), NEW t \in Tasks, ~Linked(t, q),
         NEW i \in 1 .. Len(q) + 1
  PROVE  LET r == InsertAt(q, i, t) IN
         /\ r \in Seq(Tasks) /\ Len(r) = Len(q) + 1
         /\ NoDuplicates(r)
         /\ \A u \in Tasks : Linked(u, r) <=> Linked(u, q) \/ u = t
         /\ \A j \in 1 .. Len(r) : r[j] = IF j < i THEN q[j] ELSE IF j = i THEN t ELSE q[j - 1]
<1> DEFINE r == InsertAt(q, i, t)
<1>1. r \in Seq(Tasks) /\ Len(r) = Len(q) + 1
  BY InsertIndices
<1>2. \A j \in 1 .. Len(r) : r[j] = IF j < i THEN q[j] ELSE IF j = i THEN t ELSE q[j - 1]
  BY InsertIndices
<1> HIDE DEF r
<1>3. NoDuplicates(r)
  <2>1. \A m, n \in 1 .. Len(q) : q[m] = q[n] => m = n
    BY DEF NoDuplicates
  <2>2. \A m \in 1 .. Len(q) : q[m] # t
    BY LinkedAt
  <2>3. ASSUME NEW m \in 1 .. Len(r), NEW n \in 1 .. Len(r), r[m] = r[n], m < n PROVE FALSE
    <3>1. /\ m < i => m \in 1 .. Len(q) /\ r[m] = q[m]
          /\ m = i => r[m] = t
          /\ m > i => m - 1 \in 1 .. Len(q) /\ r[m] = q[m - 1]
      BY <1>1, <1>2
    <3>2. /\ n < i => n \in 1 .. Len(q) /\ r[n] = q[n]
          /\ n = i => r[n] = t
          /\ n > i => n - 1 \in 1 .. Len(q) /\ r[n] = q[n - 1]
      BY <1>1, <1>2
    <3>3. CASE m < i /\ n < i
      BY <3>1, <3>2, <3>3, <2>1, <2>3
    <3>4. CASE m < i /\ n > i
      <4>1. m = n - 1
        BY <3>1, <3>2, <3>4, <2>1, <2>3
      <4> QED BY <4>1, <3>4, <1>1
    <3>5. CASE m > i /\ n > i
      <4>1. m - 1 = n - 1
        BY <3>1, <3>2, <3>5, <2>1, <2>3
      <4> QED BY <4>1, <2>3, <1>1
    <3>6. CASE m = i \/ n = i
      BY <3>1, <3>2, <3>6, <2>2, <2>3
    <3> QED BY <3>3, <3>4, <3>5, <3>6, <2>3
  <2>4. \A m, n \in 1 .. Len(r) : r[m] = r[n] => m = n
    BY <2>3, <1>1
  <2> QED BY <2>4, <1>1 DEF NoDuplicates
<1>4. ASSUME NEW u \in Tasks PROVE Linked(u, r) <=> Linked(u, q) \/ u = t
  <2>1. ASSUME Linked(u, r) PROVE Linked(u, q) \/ u = t
    <3>1. PICK j \in 1 .. Len(r) : r[j] = u
      BY <2>1, <1>1 DEF Linked
    <3>2. j < i => j \in 1 .. Len(q)
      BY <3>1, <1>1
    <3>3. j > i => j - 1 \in 1 .. Len(q)
      BY <3>1, <1>1
    <3> QED BY <3>1, <3>2, <3>3, <1>2, LinkedAt
  <2>2. ASSUME Linked(u, q) PROVE Linked(u, r)
    <3>1. PICK j \in 1 .. Len(q) : q[j] = u
      BY <2>2 DEF Linked
    <3>2. CASE j < i
      <4>1. j \in 1 .. Len(r) /\ r[j] = u
        BY <3>1, <3>2, <1>1, <1>2
      <4> QED BY <4>1, <1>1, LinkedAt
    <3>3. CASE j >= i
      <4>1. j + 1 \in 1 .. Len(r) /\ r[j + 1] = u
        BY <3>1, <3>3, <1>1, <1>2
      <4> QED BY <4>1, <1>1, LinkedAt
    <3> QED BY <3>2, <3>3
  <2>3. i \in 1 .. Len(r) /\ r[i] = t
    BY <1>1, <1>2
  <2>4. Linked(t, r)
    BY <2>3, <1>1, LinkedAt
  <2> QED BY <2>1, <2>2, <2>4
<1> QED BY <1>1, <1>2, <1>3, <1>4 DEF r

\* Where Semaphore_pend and GateMutexPri_enter insert: before the first task
\* of a lower priority.
LEMMA InsertPriPlace ==
  ASSUME pri \in [Tasks -> Level], NEW q \in Seq(Tasks), NEW t, NEW p \in Level
  PROVE  \E i \in 1 .. Len(q) + 1 :
           /\ InsertPri(q, t, p) = InsertAt(q, i, t)
           /\ \A k \in 1 .. i - 1 : pri[q[k]] >= p
           /\ i <= Len(q) => pri[q[i]] < p
<1> DEFINE lower == {i \in DOMAIN q : pri[q[i]] < p}
<1>1. InsertPri(q, t, p) = InsertAt(q, IF lower = {} THEN Len(q) + 1 ELSE Min(lower), t)
  BY DEF InsertPri
<1>2. /\ lower \in SUBSET (1 .. Len(q)) /\ Len(q) \in Nat
      /\ \A k \in 1 .. Len(q) : k \notin lower => pri[q[k]] >= p
      /\ \A k \in lower : pri[q[k]] < p
  BY DEF Level, Priority, Inactive
<1> HIDE DEF lower
<1>3. CASE lower = {}
  <2> DEFINE i == Len(q) + 1
  <2>1. i \in 1 .. Len(q) + 1 /\ InsertPri(q, t, p) = InsertAt(q, i, t)
    BY <1>1, <1>2, <1>3
  <2>2. (\A k \in 1 .. i - 1 : pri[q[k]] >= p) /\ ~(i <= Len(q))
    BY <1>2, <1>3
  <2> QED BY <2>1, <2>2, Zenon
<1>4. CASE lower # {}
  <2>1. \E x \in lower : \A y \in lower : x =< y
    BY <1>2, <1>4, HasMin
  <2>2. PICK i \in lower : i = Min(lower) /\ \A y \in lower : i =< y
    BY <2>1 DEF Min
  <2>3. i \in 1 .. Len(q) + 1 /\ pri[q[i]] < p
    BY <1>2, <2>2
  <2>4. \A k \in 1 .. i - 1 : pri[q[k]] >= p
    BY <1>2, <2>2
  <2>5. InsertPri(q, t, p) = InsertAt(q, i, t)
    BY <1>1, <1>4, <2>2, Zenon
  <2> QED BY <2>3, <2>4, <2>5, Zenon
<1> QED BY <1>3, <1>4

\* Queue_enqueue inserts at the end (Semaphore_pend, FIFO order).
LEMMA AppendIsInsert ==
  ASSUME NEW q \in Seq(Tasks), NEW t \in Tasks
  PROVE  Append(q, t) = InsertAt(q, Len(q) + 1, t)
<1> DEFINE n == Len(q) + 1
<1>1. SubSeq(q, 1, n - 1) = q
  OBVIOUS
<1>2. SubSeq(q, n, Len(q)) = <<>>
  OBVIOUS
<1>3. InsertAt(q, n, t) = SubSeq(q, 1, n - 1) \o <<t>> \o SubSeq(q, n, Len(q))
  BY DEF InsertAt
<1>4. q \o <<t>> = Append(q, t) /\ Append(q, t) \o <<>> = Append(q, t)
  OBVIOUS
<1> QED BY <1>1, <1>2, <1>3, <1>4

-----------------------------------------------------------------------------
(* The ready lists.                                                        *)

\* Intrinsics_maxbit finds the highest bit of a mask that is not zero
\* (Intrinsics.c:45-48).
LEMMA MaxbitIsMax ==
  ASSUME NEW S \in SUBSET Priority, S # {}
  PROVE  /\ Intrinsics_maxbit(S) \in S
         /\ \A p \in S : p <= Intrinsics_maxbit(S)
<1>1. NumPri - 1 \in Nat
  BY NumPriAssumption
<1>2. \E x \in S : \A y \in S : y <= x
  BY <1>1, HasMax DEF Priority
<1>3. QED BY <1>2 DEF Intrinsics_maxbit

-----------------------------------------------------------------------------
\* Taking a READY task off its ready list leaves the other lists alone and
\* keeps the head of its own, unless it was the head.
LEMMA UnlinkedLists ==
  ASSUME QueueTypeOK, ReadyListsOK, NEW t \in Tasks, mode[t] = "READY"
  PROVE  /\ Unlinked(t) \in [Level -> Seq(Tasks)]
         /\ \A l \in Level :
              /\ NoDuplicates(Unlinked(t)[l])
              /\ \A u \in Tasks : Linked(u, Unlinked(t)[l])
                                    <=> mode[u] = "READY" /\ pri[u] = l /\ u # t
              /\ l # pri[t] => Unlinked(t)[l] = readyQ[l]
              /\ readyQ[l] # <<>> /\ Head(readyQ[l]) # t =>
                   Unlinked(t)[l] # <<>> /\ Head(Unlinked(t)[l]) = Head(readyQ[l])
<1> DEFINE q == readyQ[pri[t]]
           r == Queue_remove(q, t)
<1>1. pri[t] \in Level /\ q \in Seq(Tasks) /\ NoDuplicates(q) /\ Linked(t, q)
  BY DEF QueueTypeOK, ReadyListsOK
<1>2. /\ r \in Seq(Tasks)
      /\ NoDuplicates(r)
      /\ \A u \in Tasks : Linked(u, r) <=> Linked(u, q) /\ u # t
      /\ \A u \in Tasks : q # <<>> /\ Head(q) = u /\ u # t => r # <<>> /\ Head(r) = u
  BY <1>1, RemoveElement
<1>3. Unlinked(t) = [readyQ EXCEPT ![pri[t]] = r]
  BY DEF Unlinked
<1> HIDE DEF r
<1>4. Unlinked(t) \in [Level -> Seq(Tasks)]
  BY <1>1, <1>2, <1>3 DEF QueueTypeOK
<1>5. ASSUME NEW l \in Level
      PROVE  /\ NoDuplicates(Unlinked(t)[l])
             /\ \A u \in Tasks : Linked(u, Unlinked(t)[l])
                                    <=> mode[u] = "READY" /\ pri[u] = l /\ u # t
             /\ l # pri[t] => Unlinked(t)[l] = readyQ[l]
             /\ readyQ[l] # <<>> /\ Head(readyQ[l]) # t =>
                  Unlinked(t)[l] # <<>> /\ Head(Unlinked(t)[l]) = Head(readyQ[l])
  <2>1. CASE l = pri[t]
    <3>1. Unlinked(t)[l] = r /\ readyQ[l] = q
      BY <1>3, <2>1 DEF QueueTypeOK
    <3>2. q # <<>> => Head(q) \in Tasks
      BY <1>1
    <3>3. \A u \in Tasks : Linked(u, q) <=> mode[u] = "READY" /\ pri[u] = l
      BY <2>1 DEF ReadyListsOK
    <3>4. QED BY <1>2, <2>1, <3>1, <3>2, <3>3
  <2>2. CASE l # pri[t]
    <3>1. Unlinked(t)[l] = readyQ[l]
      BY <1>3, <2>2 DEF QueueTypeOK
    <3>2. QED BY <2>2, <3>1 DEF ReadyListsOK
  <2>3. QED BY <2>1, <2>2
<1>6. QED BY <1>4, <1>5

\* Its bit goes exactly when its list becomes empty.
LEMMA ClearedBits ==
  ASSUME QueueTypeOK, ReadyListsOK, CurSetOK, NEW t \in Tasks, mode[t] = "READY"
  PROVE  /\ ClearBit(Unlinked(t), t) \in SUBSET Priority
         /\ \A p \in Priority : p \in ClearBit(Unlinked(t), t) <=> Unlinked(t)[p] # <<>>
<1>1. pri[t] \in Level
  BY DEF QueueTypeOK
<1>2. \A p \in Priority : p # pri[t] => Unlinked(t)[p] = readyQ[p]
  BY UnlinkedLists DEF Level
<1>3. ASSUME pri[t] \in Priority, Unlinked(t)[pri[t]] # <<>> PROVE readyQ[pri[t]] # <<>>
  BY DEF ReadyListsOK, QueueTypeOK, Linked
<1>4. \A p \in Priority : p \in Mask(pri[t]) <=> p = pri[t]
  BY <1>1 DEF Mask, Priority, Inactive
<1>5. curSet \in SUBSET Priority /\ \A p \in Priority : p \in curSet <=> readyQ[p] # <<>>
  BY DEF QueueTypeOK, CurSetOK
<1>6. QED BY <1>2, <1>3, <1>4, <1>5 DEF ClearBit

\* Task_blockI, and the unlinking of Task_exit, which differs in the mode it
\* leaves the task in: called for a READY task.
LEMMA LeaveReadyList ==
  ASSUME QueueTypeOK, QueuesOK, NEW t \in Tasks, mode[t] = "READY",
         NEW m \in Modes, m # "READY",
         readyQ' = Unlinked(t), curSet' = ClearBit(readyQ', t),
         curQ' = IF curTask = t THEN NoQ ELSE curQ,
         mode' = [mode EXCEPT ![t] = m],
         workFlag' = TRUE, UNCHANGED <<pri, curTask>>
  PROVE  QueueTypeOK' /\ QueuesOK' /\ workFlag'
<1>1. QueueTypeOK'
  BY UnlinkedLists, ClearedBits DEF QueueTypeOK, QueuesOK
<1>2. ReadyListsOK'
  <2>1. \A u \in Tasks : mode'[u] = "READY" <=> mode[u] = "READY" /\ u # t
    BY DEF QueueTypeOK
  <2>2. \A l \in Level :
          /\ NoDuplicates(readyQ'[l])
          /\ \A u \in Tasks : Linked(u, readyQ'[l])
                                <=> mode[u] = "READY" /\ pri[u] = l /\ u # t
    BY UnlinkedLists DEF QueuesOK
  <2>3. QED BY <2>1, <2>2 DEF ReadyListsOK
<1>3. CurSetOK'
  BY ClearedBits DEF CurSetOK, QueuesOK
<1>4. CurQOK'
  <2>1. CASE curTask = t
    BY <2>1 DEF CurQOK
  <2>2. CASE curTask # t
    <3>1. curQ' # NoQ => curQ \in Level /\ readyQ[curQ] # <<>> /\ Head(readyQ[curQ]) = curTask
      BY <2>2 DEF QueuesOK, CurQOK, QueueTypeOK, Level
    <3>2. QED BY <2>2, <3>1, UnlinkedLists DEF CurQOK, QueuesOK
  <2>3. QED BY <2>1, <2>2
<1>5. QED BY <1>1, <1>2, <1>3, <1>4 DEF QueuesOK

\* Queueing a task that is on no list at level p makes it ready there; the
\* head of a list that was not empty stays.
LEMMA ReadiedLists ==
  ASSUME QueueTypeOK, ReadyListsOK, CurSetOK, NEW t \in Tasks, NEW p \in Level,
         mode[t] # "READY", Readied(t, p), pri' = [pri EXCEPT ![t] = p]
  PROVE  /\ readyQ' \in [Level -> Seq(Tasks)] /\ curSet' \in SUBSET Priority
         /\ mode' \in [Tasks -> Modes] /\ pri' \in [Tasks -> Level]
         /\ ReadyListsOK' /\ CurSetOK'
         /\ \A l \in Level : readyQ[l] # <<>> =>
              readyQ'[l] # <<>> /\ Head(readyQ'[l]) = Head(readyQ[l])
<1> DEFINE q == readyQ[p]
           r == Append(q, t)
<1>1. q \in Seq(Tasks) /\ NoDuplicates(q) /\ ~Linked(t, q)
  BY DEF QueueTypeOK, ReadyListsOK
<1>2. /\ r \in Seq(Tasks) /\ r # <<>>
      /\ NoDuplicates(r)
      /\ \A u \in Tasks : Linked(u, r) <=> Linked(u, q) \/ u = t
      /\ q # <<>> => Head(r) = Head(q)
  BY <1>1, AppendElement
<1>3. readyQ' = [readyQ EXCEPT ![p] = r]
  BY DEF Readied
<1> HIDE DEF r
<1>4. \A l \in Level : readyQ'[l] = IF l = p THEN r ELSE readyQ[l]
  BY <1>3 DEF QueueTypeOK
<1>5. /\ readyQ' \in [Level -> Seq(Tasks)]
      /\ mode' \in [Tasks -> Modes] /\ pri' \in [Tasks -> Level]
  BY <1>2, <1>3 DEF QueueTypeOK, Readied, Modes
<1>6. /\ curSet' \in SUBSET Priority
      /\ \A k \in Priority : k \in curSet' <=> k \in curSet \/ k = p
  BY DEF Readied, Mask, QueueTypeOK, Level, Priority, Inactive
<1>7. CurSetOK'
  BY <1>2, <1>4, <1>6 DEF CurSetOK, Level
<1>8. ReadyListsOK'
  <2>1. /\ \A u \in Tasks : mode'[u] = "READY" <=> mode[u] = "READY" \/ u = t
        /\ \A u \in Tasks : pri'[u] = IF u = t THEN p ELSE pri[u]
    BY DEF Readied, QueueTypeOK
  <2>2. ASSUME NEW l \in Level
        PROVE  /\ NoDuplicates(readyQ'[l])
               /\ \A u \in Tasks : Linked(u, readyQ'[l]) <=> Linked(u, readyQ[l]) \/ (l = p /\ u = t)
    <3>1. CASE l = p
      BY <3>1, <1>2, <1>4
    <3>2. CASE l # p
      BY <3>2, <1>4 DEF ReadyListsOK
    <3>3. QED BY <3>1, <3>2
  <2>3. QED BY <2>1, <2>2 DEF ReadyListsOK
<1>9. QED BY <1>2, <1>4, <1>5, <1>6, <1>7, <1>8

\* curQ still names a list headed by the current task when no nonempty ready
\* list gets another head.
LEMMA CurQKept ==
  ASSUME QueueTypeOK, CurQOK, UNCHANGED <<curTask, curQ>>,
         \A l \in Level : readyQ[l] # <<>> =>
              readyQ'[l] # <<>> /\ Head(readyQ'[l]) = Head(readyQ[l])
  PROVE  CurQOK'
BY DEF CurQOK, QueueTypeOK, Level

\* Task_unblockI, called for a task that is on no ready list.
LEMMA Task_unblockIPreserves ==
  ASSUME QueueTypeOK, QueuesOK, NEW t \in Tasks, mode[t] # "READY",
         Task_unblockI(t), UNCHANGED curTask
  PROVE  QueueTypeOK' /\ QueuesOK' /\ workFlag'
<1>1. Readied(t, pri[t]) /\ pri' = [pri EXCEPT ![t] = pri[t]] /\ pri[t] \in Level
  BY DEF Task_unblockI, QueueTypeOK
<1>2. UNCHANGED curQ /\ workFlag' = TRUE
  BY DEF Task_unblockI
<1>3. QED BY <1>1, <1>2, ReadiedLists, CurQKept DEF QueuesOK, QueueTypeOK

\* Task_setPri of a READY task: it leaves one list and joins another, in front
\* when it is the current task.
LEMMA RequeuedLists ==
  ASSUME QueueTypeOK, ReadyListsOK, CurSetOK, NEW t \in Tasks, NEW p \in Level,
         mode[t] = "READY", p # pri[t],
         readyQ' = Requeued(t, p), pri' = [pri EXCEPT ![t] = p],
         curSet' = ClearBit(Unlinked(t), t) \cup Mask(p), UNCHANGED <<mode, curTask>>
  PROVE  /\ readyQ' \in [Level -> Seq(Tasks)] /\ curSet' \in SUBSET Priority
         /\ ReadyListsOK' /\ CurSetOK'
         /\ readyQ'[p] # <<>> /\ (curTask = t => Head(readyQ'[p]) = t)
         /\ curTask # t => \A l \in Level :
              readyQ[l] # <<>> /\ Head(readyQ[l]) = curTask =>
                readyQ'[l] # <<>> /\ Head(readyQ'[l]) = curTask
<1> DEFINE U == Unlinked(t)
           q == U[p]
           r == IF curTask = t THEN <<t>> \o q ELSE Append(q, t)
<1>1. q \in Seq(Tasks) /\ NoDuplicates(q) /\ ~Linked(t, q)
  BY UnlinkedLists
<1>2. /\ r \in Seq(Tasks) /\ r # <<>>
      /\ NoDuplicates(r)
      /\ \A u \in Tasks : Linked(u, r) <=> Linked(u, q) \/ u = t
      /\ curTask = t => Head(r) = t
      /\ curTask # t /\ q # <<>> => Head(r) = Head(q)
  BY <1>1, AppendElement, PushElement
<1>3. readyQ' = [U EXCEPT ![p] = r]
  BY DEF Requeued
<1> HIDE DEF r, U
<1>4. U \in [Level -> Seq(Tasks)]
  BY UnlinkedLists DEF U
<1>5. \A l \in Level : readyQ'[l] = IF l = p THEN r ELSE U[l]
  BY <1>3, <1>4
<1>6. readyQ' \in [Level -> Seq(Tasks)]
  BY <1>2, <1>3, <1>4
<1>7. /\ ClearBit(U, t) \in SUBSET Priority
      /\ \A k \in Priority : k \in ClearBit(U, t) <=> U[k] # <<>>
  BY ClearedBits DEF U
<1>8. curSet' = ClearBit(U, t) \cup Mask(p) /\ Mask(p) \in SUBSET Priority
      /\ \A k \in Priority : k \in Mask(p) <=> k = p
  BY DEF U, Mask, Level, Priority, Inactive
<1>9. curSet' \in SUBSET Priority /\ CurSetOK'
  BY <1>2, <1>5, <1>7, <1>8 DEF CurSetOK, Level
<1>10. ReadyListsOK'
  <2>1. \A u \in Tasks : pri'[u] = IF u = t THEN p ELSE pri[u]
    BY DEF QueueTypeOK
  <2>2. \A l \in Level :
          /\ NoDuplicates(U[l])
          /\ \A u \in Tasks : Linked(u, U[l]) <=> mode[u] = "READY" /\ pri[u] = l /\ u # t
    BY UnlinkedLists DEF U
  <2>3. ASSUME NEW l \in Level
        PROVE  /\ NoDuplicates(readyQ'[l])
               /\ \A u \in Tasks : Linked(u, readyQ'[l]) <=> mode[u] = "READY" /\ pri'[u] = l
    <3>1. CASE l = p
      BY <3>1, <1>2, <1>5, <2>1, <2>2
    <3>2. CASE l # p
      BY <3>2, <1>5, <2>1, <2>2
    <3>3. QED BY <3>1, <3>2
  <2>4. QED BY <2>3 DEF ReadyListsOK
<1>11. readyQ'[p] # <<>> /\ (curTask = t => Head(readyQ'[p]) = t)
  BY <1>2, <1>5
<1>12. ASSUME curTask # t, NEW l \in Level, readyQ[l] # <<>>, Head(readyQ[l]) = curTask
       PROVE  readyQ'[l] # <<>> /\ Head(readyQ'[l]) = curTask
  <2>1. U[l] # <<>> /\ Head(U[l]) = curTask
    BY <1>12, UnlinkedLists DEF U
  <2>2. QED BY <1>12, <2>1, <1>2, <1>5
<1>13. QED BY <1>6, <1>9, <1>10, <1>11, <1>12

\* Task_setPri keeps the ready lists, curSet and curQ consistent; when it
\* changes anything it asks for the scheduler.
LEMMA Task_setPriPreserves ==
  ASSUME QueueTypeOK, QueuesOK, NEW t \in Tasks, NEW p \in Level,
         Task_setPri(t, p), UNCHANGED curTask
  PROVE  QueueTypeOK' /\ QueuesOK' /\ (workFlag' \/ UNCHANGED queueVars) /\ UNCHANGED mode
<1>1. CASE p = pri[t]
  <2>1. UNCHANGED queueVars
    BY <1>1 DEF Task_setPri
  <2>2. QED BY <2>1
    DEF queueVars, QueueTypeOK, QueuesOK, ReadyListsOK, CurSetOK, CurQOK
<1>2. CASE p # pri[t]
  <2>1. /\ pri' = [pri EXCEPT ![t] = p] /\ workFlag' = TRUE /\ UNCHANGED mode
        /\ curQ' = IF p = Inactive THEN NoQ
                   ELSE IF mode[t] = "READY" /\ curTask = t THEN p ELSE curQ
    BY <1>2 DEF Task_setPri
  <2>2. pri' \in [Tasks -> Level] /\ curQ' \in Priority \cup {NoQ}
    BY <2>1 DEF QueueTypeOK, Level, Priority, Inactive, NoQ
  <2>3. CASE mode[t] = "READY"
    <3>1. readyQ' = Requeued(t, p) /\ curSet' = ClearBit(Unlinked(t), t) \cup Mask(p)
      BY <1>2, <2>3 DEF Task_setPri
    <3>2. /\ readyQ' \in [Level -> Seq(Tasks)] /\ curSet' \in SUBSET Priority
          /\ ReadyListsOK' /\ CurSetOK'
          /\ readyQ'[p] # <<>> /\ (curTask = t => Head(readyQ'[p]) = t)
          /\ curTask # t => \A l \in Level :
              readyQ[l] # <<>> /\ Head(readyQ[l]) = curTask =>
                readyQ'[l] # <<>> /\ Head(readyQ'[l]) = curTask
      BY <1>2, <2>1, <2>3, <3>1, RequeuedLists DEF QueuesOK
    <3>3. CurQOK'
      <4>1. CASE curTask = t
        BY <2>1, <2>3, <3>2, <4>1 DEF CurQOK
      <4>2. CASE curTask # t
        <5>1. curQ # NoQ => curQ \in Level /\ readyQ[curQ] # <<>> /\ Head(readyQ[curQ]) = curTask
          BY DEF QueuesOK, CurQOK, QueueTypeOK, Level
        <5>2. QED BY <2>1, <3>2, <4>2, <5>1 DEF CurQOK
      <4>3. QED BY <4>1, <4>2
    <3>4. QED BY <2>1, <2>2, <3>2, <3>3 DEF QueuesOK, QueueTypeOK
  <2>4. CASE mode[t] # "READY"
    <3>1. UNCHANGED <<readyQ, curSet>>
      BY <1>2, <2>4 DEF Task_setPri
    <3>2. ReadyListsOK'
      <4>1. \A u \in Tasks : u # t => pri'[u] = pri[u]
        BY <2>1 DEF QueueTypeOK
      <4>2. QED BY <2>1, <2>4, <3>1, <4>1 DEF ReadyListsOK, QueuesOK
    <3>3. CurSetOK' /\ CurQOK'
      BY <2>1, <2>4, <3>1 DEF CurSetOK, CurQOK, QueuesOK
    <3>4. QED BY <2>1, <2>2, <3>1, <3>2, <3>3 DEF QueuesOK, QueueTypeOK
  <2>5. QED BY <2>3, <2>4
<1>3. QED BY <1>1, <1>2

\* Task_yield rotates one ready list and asks for the scheduler.
LEMMA Task_yieldPreserves ==
  ASSUME QueueTypeOK, QueuesOK, Task_yield, UNCHANGED curTask
  PROVE  QueueTypeOK' /\ QueuesOK' /\ workFlag' /\ UNCHANGED mode
<1>1. /\ curQ' = NoQ /\ workFlag' = TRUE /\ UNCHANGED <<mode, pri, curSet>>
  BY DEF Task_yield
<1>2. CASE curQ = NoQ
  <2>1. UNCHANGED readyQ
    BY <1>2 DEF Task_yield
  <2>2. QED BY <1>1, <2>1
    DEF QueueTypeOK, QueuesOK, ReadyListsOK, CurSetOK, CurQOK
<1>3. CASE curQ # NoQ
  <2> DEFINE q == readyQ[curQ]
             r == Append(Tail(q), Head(q))
  <2>1. curQ \in Level /\ q \in Seq(Tasks) /\ NoDuplicates(q) /\ q # <<>>
    BY <1>3 DEF QueueTypeOK, QueuesOK, ReadyListsOK, CurQOK, Level
  <2>2. r \in Seq(Tasks) /\ r # <<>> /\ NoDuplicates(r)
        /\ \A u \in Tasks : Linked(u, r) <=> Linked(u, q)
    BY <2>1, RotateElement
  <2>3. readyQ' = [readyQ EXCEPT ![curQ] = r]
    BY <1>3 DEF Task_yield
  <2> HIDE DEF r
  <2>4. readyQ' \in [Level -> Seq(Tasks)]
        /\ \A l \in Level : readyQ'[l] = IF l = curQ THEN r ELSE readyQ[l]
    BY <2>1, <2>2, <2>3 DEF QueueTypeOK
  <2>5. ReadyListsOK'
    BY <1>1, <2>2, <2>4 DEF ReadyListsOK, QueuesOK
  <2>6. CurSetOK'
    BY <1>1, <2>1, <2>2, <2>4 DEF CurSetOK, QueuesOK, Level
  <2>7. QED BY <1>1, <2>4, <2>5, <2>6 DEF QueueTypeOK, QueuesOK, CurQOK
<1>4. QED BY <1>2, <1>3

\* Task_Instance_finalize never unlinks the task that is running.
LEMMA Task_unlinkPreserves ==
  ASSUME QueueTypeOK, QueuesOK, NEW t \in Tasks, t # curTask,
         Task_unlink(t), UNCHANGED curTask
  PROVE  QueueTypeOK' /\ QueuesOK' /\ UNCHANGED workFlag /\ curSet' \subseteq curSet
<1>1. mode' = [mode EXCEPT ![t] = "NONE"] /\ UNCHANGED <<pri, curQ, workFlag>>
  BY DEF Task_unlink
<1>2. CASE mode[t] = "READY"
  <2>1. readyQ' = Unlinked(t) /\ curSet' = ClearBit(readyQ', t)
    BY <1>2 DEF Task_unlink
  <2>2. QueueTypeOK'
    BY <1>1, <1>2, <2>1, UnlinkedLists, ClearedBits DEF QueueTypeOK, QueuesOK, Modes
  <2>3. ReadyListsOK'
    <3>1. \A u \in Tasks : mode'[u] = "READY" <=> mode[u] = "READY" /\ u # t
      BY <1>1 DEF QueueTypeOK
    <3>2. \A l \in Level :
          /\ NoDuplicates(readyQ'[l])
          /\ \A u \in Tasks : Linked(u, readyQ'[l])
                                <=> mode[u] = "READY" /\ pri[u] = l /\ u # t
      BY <1>2, <2>1, UnlinkedLists DEF QueuesOK
    <3>3. QED BY <1>1, <3>1, <3>2 DEF ReadyListsOK
  <2>4. CurSetOK' /\ curSet' \subseteq curSet
    BY <1>2, <2>1, ClearedBits DEF CurSetOK, QueuesOK, ClearBit
  <2>5. CurQOK'
    <3>1. curQ # NoQ => curQ \in Level /\ readyQ[curQ] # <<>> /\ Head(readyQ[curQ]) = curTask
      BY DEF QueuesOK, CurQOK, QueueTypeOK, Level
    <3>2. QED BY <1>1, <1>2, <2>1, <3>1, UnlinkedLists DEF CurQOK, QueuesOK
  <2>6. QED BY <1>1, <2>2, <2>3, <2>4, <2>5 DEF QueuesOK
<1>3. CASE mode[t] # "READY"
  <2>1. UNCHANGED <<readyQ, curSet>>
    BY <1>3 DEF Task_unlink
  <2>2. \A u \in Tasks : mode'[u] = "READY" <=> mode[u] = "READY"
    BY <1>1, <1>3 DEF QueueTypeOK
  <2>3. ReadyListsOK' /\ CurSetOK' /\ CurQOK'
    BY <1>1, <2>1, <2>2 DEF ReadyListsOK, CurSetOK, CurQOK, QueuesOK
  <2>4. QED BY <1>1, <2>1, <2>3 DEF QueueTypeOK, QueuesOK, Modes
<1>4. QED BY <1>2, <1>3

-----------------------------------------------------------------------------
(* Task_schedule and the interrupt dispatcher.                             *)

\* The body of the do loop: either it settles on a task that heads the
\* highest ready list, or the current task does already and it loops or ends.
LEMMA SelectsHighest ==
  ASSUME KernelTypeOK, QueuesOK, curSet # {}, NEW work \in BOOLEAN,
         Task_schedule_select(work), UNCHANGED <<mode, pri, readyQ, curSet>>
  PROVE  /\ QueuesOK' /\ curTask' \in Tasks /\ curQ' \in Priority
         /\ mode'[curTask'] = "READY" /\ \A p \in curSet' : p <= curQ'
         /\ \/ phase' = "switch" /\ UNCHANGED locked
            \/ LoopTest(work) /\ UNCHANGED curTask
<1> DEFINE maxQ == Intrinsics_maxbit(curSet)
<1>1. maxQ \in curSet /\ maxQ \in Priority /\ \A p \in curSet : p <= maxQ
  BY MaxbitIsMax DEF KernelTypeOK, QueueTypeOK
<1>2. ReadyListsOK' /\ CurSetOK'
  BY DEF QueuesOK, ReadyListsOK, CurSetOK
<1>3. \A p \in Priority : readyQ[p] # <<>> => Head(readyQ[p]) \in Tasks /\ mode[Head(readyQ[p])] = "READY"
  <2>1. ASSUME NEW p \in Priority, readyQ[p] # <<>>
        PROVE  Head(readyQ[p]) \in Tasks /\ Linked(Head(readyQ[p]), readyQ[p])
    BY <2>1, LinkedAt DEF KernelTypeOK, QueueTypeOK, Level
  <2>2. QED BY <2>1 DEF QueuesOK, ReadyListsOK, Level
<1>4. readyQ[maxQ] # <<>>
  BY <1>1 DEF QueuesOK, CurSetOK
<1>5. CASE maxQ > curQ
  <2>1. curQ' = maxQ /\ curTask' = Head(readyQ[maxQ]) /\ phase' = "switch" /\ UNCHANGED locked
    BY <1>5 DEF Task_schedule_select
  <2>2. CurQOK'
    BY <2>1, <1>4 DEF CurQOK
  <2>3. QED BY <1>1, <1>2, <1>3, <1>4, <2>1, <2>2 DEF QueuesOK
<1>6. CASE ~(maxQ > curQ)
  <2>1. LoopTest(work) /\ UNCHANGED <<curQ, curTask>>
    BY <1>6 DEF Task_schedule_select
  <2>2. curQ \in Priority /\ \A p \in curSet : p <= curQ
    BY <1>1, <1>6 DEF KernelTypeOK, QueueTypeOK, Priority, NoQ
  <2>3. readyQ[curQ] # <<>> /\ Head(readyQ[curQ]) = curTask
    BY <2>2 DEF QueuesOK, CurQOK, Priority, NoQ
  <2>4. CurQOK'
    BY <2>1 DEF QueuesOK, CurQOK
  <2>5. QED BY <1>2, <1>3, <2>1, <2>2, <2>3, <2>4 DEF QueuesOK, KernelTypeOK, ControlTypeOK
<1>7. QED BY <1>5, <1>6

\* One round of Task_schedule; when it leaves the scheduler, the task that
\* runs is ready.
LEMMA Task_schedulePreserves ==
  ASSUME KernelTypeOK, KernelOK, Task_schedule
  PROVE  KernelTypeOK' /\ KernelOK' /\ (phase' = "user" => mode'[running'] = "READY")
<1>1. /\ phase = "pick" /\ workFlag' = FALSE /\ ~isr /\ locked /\ ~swiLocked
      /\ running = curTask /\ ~isrKey
      /\ UNCHANGED <<mode, pri, readyQ, curSet, swiLocked, running, isr, isrKey>>
  BY DEF Task_schedule, hwiVars, KernelOK, ControlOK, KernelTypeOK, ControlTypeOK
<1>2. CASE curSet = {}
  <2>1. phase' = "stall" /\ UNCHANGED <<curQ, curTask, locked>>
    BY <1>2 DEF Task_schedule
  <2>2. KernelTypeOK'
    BY <1>1, <2>1 DEF KernelTypeOK, QueueTypeOK, ControlTypeOK, Phases
  <2>3. QueuesOK'
    BY <1>1, <2>1 DEF KernelOK, QueuesOK, ReadyListsOK, CurSetOK, CurQOK
  <2>4. NoLostReschedule' /\ ControlOK'
    BY <1>1, <1>2, <2>1 DEF NoLostReschedule, ControlOK
  <2>5. QED BY <2>1, <2>2, <2>3, <2>4 DEF KernelOK
<1>3. CASE curSet # {}
  <2>1. Task_schedule_select(FALSE)
    BY <1>3 DEF Task_schedule
  <2>2. /\ QueuesOK' /\ curTask' \in Tasks /\ curQ' \in Priority
        /\ mode'[curTask'] = "READY" /\ \A p \in curSet' : p <= curQ'
        /\ \/ phase' = "switch" /\ UNCHANGED locked
           \/ LoopTest(FALSE) /\ UNCHANGED curTask
    BY <1>1, <1>3, <2>1, SelectsHighest DEF KernelOK
  <2>3. \/ phase' = "switch" /\ UNCHANGED locked
        \/ phase' = "user" /\ locked' = FALSE /\ UNCHANGED curTask
    BY <2>2 DEF LoopTest
  <2>4. KernelTypeOK'
    BY <1>1, <2>2, <2>3 DEF KernelTypeOK, QueueTypeOK, ControlTypeOK, Phases
  <2>5. NoLostReschedule' /\ ControlOK'
    <3>1. curQ' # NoQ
      BY <2>2 DEF Priority, NoQ
    <3>2. NoLostReschedule'
      BY <2>2, <2>3, <3>1 DEF NoLostReschedule
    <3>3. ControlOK'
      BY <1>1, <2>2, <2>3 DEF ControlOK
    <3>4. QED BY <3>2, <3>3
  <2>6. QED BY <1>1, <2>2, <2>3, <2>4, <2>5 DEF KernelOK
<1>4. QED BY <1>2, <1>3

\* The end of a stall: a task has become ready, and it is switched to.
LEMMA Task_allBlockedFunctionPreserves ==
  ASSUME KernelTypeOK, KernelOK, Task_allBlockedFunction
  PROVE  KernelTypeOK' /\ KernelOK' /\ phase' # "user"
<1>1. /\ phase = "stall" /\ ~isr /\ locked /\ ~swiLocked /\ curSet # {}
      /\ running = curTask /\ ~isrKey
      /\ Task_schedule_select(workFlag)
      /\ UNCHANGED <<mode, pri, readyQ, curSet, workFlag, swiLocked, running, isr, isrKey>>
  BY DEF Task_allBlockedFunction, hwiVars, KernelOK, ControlOK, KernelTypeOK, ControlTypeOK
<1>2. workFlag = TRUE
  BY <1>1 DEF KernelOK, NoLostReschedule, KernelTypeOK, QueueTypeOK
<1>3. /\ QueuesOK' /\ curTask' \in Tasks /\ curQ' \in Priority
      /\ mode'[curTask'] = "READY" /\ \A p \in curSet' : p <= curQ'
      /\ \/ phase' = "switch" /\ UNCHANGED locked
         \/ LoopTest(workFlag) /\ UNCHANGED curTask
  BY <1>1, <1>2, SelectsHighest DEF KernelOK
<1>4. \/ phase' = "switch" /\ UNCHANGED locked
      \/ phase' = "pick" /\ UNCHANGED <<locked, curTask>>
  BY <1>2, <1>3 DEF LoopTest
<1>5. KernelTypeOK'
  BY <1>1, <1>3, <1>4 DEF KernelTypeOK, QueueTypeOK, ControlTypeOK, Phases
<1>6. NoLostReschedule' /\ ControlOK'
  BY <1>1, <1>2, <1>3, <1>4 DEF NoLostReschedule, ControlOK
<1>7. QED BY <1>3, <1>4, <1>5, <1>6 DEF KernelOK

\* The swap of the contexts: the task swapped in is ready.
LEMMA Task_swapPreserves ==
  ASSUME KernelTypeOK, KernelOK, Task_swap
  PROVE  KernelTypeOK' /\ KernelOK' /\ mode'[running'] = "READY"
<1>1. /\ phase = "switch" /\ ~isr /\ locked /\ ~swiLocked /\ ~isrKey
      /\ mode[curTask] = "READY"
      /\ running' = curTask
      /\ UNCHANGED <<mode, pri, readyQ, curSet, curQ, workFlag, curTask, swiLocked, isr, isrKey>>
      /\ \/ workFlag /\ phase' = "pick" /\ UNCHANGED locked
         \/ ~workFlag /\ phase' = "user" /\ locked' = FALSE
  BY DEF Task_swap, LoopTest, queueVars, hwiVars, KernelOK, ControlOK, KernelTypeOK,
         ControlTypeOK
<1>2. KernelTypeOK'
  BY <1>1 DEF KernelTypeOK, QueueTypeOK, ControlTypeOK, Phases
<1>3. QueuesOK'
  BY <1>1 DEF KernelOK, QueuesOK, ReadyListsOK, CurSetOK, CurQOK
<1>4. NoLostReschedule' /\ ControlOK'
  BY <1>1 DEF KernelOK, NoLostReschedule, ControlOK
<1>5. QED BY <1>1, <1>2, <1>3, <1>4 DEF KernelOK

\* The dispatcher locks the scheduler and keeps the key.
LEMMA HwiEnterPreserves ==
  ASSUME KernelTypeOK, KernelOK, HwiEnter
  PROVE  KernelTypeOK' /\ KernelOK'
<1>1. /\ ~isr /\ phase # "pick" /\ isr' = TRUE /\ isrKey' = locked /\ locked' = TRUE
      /\ UNCHANGED <<mode, pri, readyQ, curSet, curQ, workFlag, curTask, swiLocked, running, phase>>
  BY DEF HwiEnter, queueVars
<1>2. KernelTypeOK'
  BY <1>1 DEF KernelTypeOK, QueueTypeOK, ControlTypeOK, Phases
<1>3. QueuesOK'
  BY <1>1 DEF KernelOK, QueuesOK, ReadyListsOK, CurSetOK, CurQOK
<1>4. NoLostReschedule' /\ ControlOK'
  BY <1>1 DEF KernelOK, NoLostReschedule, ControlOK
<1>5. QED BY <1>2, <1>3, <1>4 DEF KernelOK

\* Task_restore with the key of a caller that took the lock itself.
LEMMA HwiExitPreserves ==
  ASSUME KernelTypeOK, KernelOK, HwiExit
  PROVE  KernelTypeOK' /\ KernelOK'
<1>1. /\ isr /\ locked /\ isr' = FALSE /\ isrKey' = FALSE
      /\ (phase # "user" => isrKey)
      /\ UNCHANGED <<mode, pri, readyQ, curSet, curQ, workFlag, curTask, swiLocked, running>>
      /\ \/ isrKey /\ UNCHANGED <<phase, locked>>
         \/ ~isrKey /\ workFlag /\ ~swiLocked /\ phase' = "pick" /\ UNCHANGED locked
         \/ ~isrKey /\ UNCHANGED phase /\ locked' = FALSE
  BY DEF HwiExit, Task_restore, Swi_enabled, queueVars, KernelOK, ControlOK,
         KernelTypeOK, ControlTypeOK
<1>2. KernelTypeOK'
  BY <1>1 DEF KernelTypeOK, QueueTypeOK, ControlTypeOK, Phases
<1>3. QueuesOK'
  BY <1>1 DEF KernelOK, QueuesOK, ReadyListsOK, CurSetOK, CurQOK
<1>4. NoLostReschedule'
  BY <1>1 DEF KernelOK, NoLostReschedule, ControlOK
<1>5. ControlOK'
  <2>1. phase # "switch" => running = curTask
    BY DEF KernelOK, ControlOK
  <2>2. QED BY <1>1, <2>1 DEF KernelOK, ControlOK
<1>6. QED BY <1>2, <1>3, <1>4, <1>5 DEF KernelOK

-----------------------------------------------------------------------------
\* With no reschedule pending and no scheduler lock held, the running task is
\* ready and heads the highest ready list.
LEMMA RunningHeadsHighest ==
  ASSUME KernelTypeOK, KernelOK, ~locked, ~workFlag
  PROVE  /\ mode[running] = "READY"
         /\ \A t \in Tasks : mode[t] = "READY" => pri[t] <= pri[running]
         /\ Head(readyQ[pri[running]]) = running
<1>1. phase = "user" /\ running = curTask
  BY DEF KernelOK, ControlOK
<1>2. curQ \in Priority /\ curQ # NoQ /\ \A p \in curSet : p <= curQ
  BY <1>1 DEF KernelOK, NoLostReschedule, KernelTypeOK, QueueTypeOK
<1>3. readyQ[curQ] # <<>> /\ Head(readyQ[curQ]) = running
  BY <1>1, <1>2 DEF KernelOK, QueuesOK, CurQOK
<1>4. Linked(running, readyQ[curQ])
  BY <1>2, <1>3, LinkedAt DEF KernelTypeOK, QueueTypeOK, Level
<1>5. mode[running] = "READY" /\ pri[running] = curQ
  BY <1>2, <1>4 DEF KernelOK, QueuesOK, ReadyListsOK, KernelTypeOK, ControlTypeOK, Level
<1>6. ASSUME NEW t \in Tasks, mode[t] = "READY" PROVE pri[t] <= curQ
  <2>1. pri[t] \in Level
    BY DEF KernelTypeOK, QueueTypeOK
  <2>2. CASE pri[t] = Inactive
    BY <2>2, <1>2 DEF Inactive, Priority
  <2>3. CASE pri[t] \in Priority
    <3>1. readyQ[pri[t]] # <<>>
      BY <1>6, <2>1 DEF KernelOK, QueuesOK, ReadyListsOK, Linked
    <3>2. pri[t] \in curSet
      BY <2>3, <3>1 DEF KernelOK, QueuesOK, CurSetOK
    <3>3. QED BY <3>2, <1>2
  <2>4. QED BY <2>1, <2>2, <2>3 DEF Level
<1>7. QED BY <1>3, <1>5, <1>6

-----------------------------------------------------------------------------
(* Steps of the modules built on the kernel: regions of the running task,   *)
(* the release of the lock, and operations of an interrupt.                 *)

\* The state Task_startCore leaves.
LEMMA KernelStarts ==
  ASSUME NEW ip \in [Tasks -> Level], \E t \in Tasks : ip[t] # Inactive, KernelInit(ip)
  PROVE  KernelTypeOK /\ KernelOK /\ mode[running] = "READY"
<1> USE DEF KernelInit
<1>1. readyQ \in [Level -> Seq(Tasks)] /\ \A l \in Level : NoDuplicates(readyQ[l])
  BY BoundedSequences
<1>2. \A p \in Priority : p \in curSet <=> readyQ[p] # <<>>
  OBVIOUS
<1>3. curSet \in SUBSET Priority /\ curSet # {}
  <2>1. PICK t \in Tasks : ip[t] # Inactive
    OBVIOUS
  <2>2. ip[t] \in Priority /\ ip[t] \in Level
    BY <2>1 DEF Level
  <2>3. Linked(t, readyQ[ip[t]])
    BY <2>1, <2>2
  <2>4. readyQ[ip[t]] # <<>>
    BY <2>3 DEF Linked
  <2> QED BY <2>2, <2>4
<1>4. curQ \in curSet /\ curQ \in Priority /\ \A p \in curSet : p <= curQ
  BY <1>3, MaxbitIsMax
<1>5. curTask \in Tasks /\ Linked(curTask, readyQ[curQ]) /\ readyQ[curQ] # <<>>
  <2>1. readyQ[curQ] \in Seq(Tasks) /\ readyQ[curQ] # <<>> /\ curTask = Head(readyQ[curQ])
    BY <1>1, <1>2, <1>4 DEF Level
  <2>2. \A q \in Seq(Tasks) : q # <<>> => Head(q) \in Tasks /\ Linked(Head(q), q)
    BY DEF Linked
  <2> QED BY <2>1, <2>2
<1>6. KernelTypeOK
  BY <1>1, <1>3, <1>4, <1>5 DEF KernelTypeOK, QueueTypeOK, ControlTypeOK, Modes, Phases
<1>7. QueuesOK
  BY <1>1, <1>2, <1>4, <1>5 DEF QueuesOK, ReadyListsOK, CurSetOK, CurQOK
<1>8. NoLostReschedule /\ ControlOK
  <2>1. curQ # NoQ
    BY <1>4, NumPriAssumption DEF Priority, NoQ
  <2>2. mode[curTask] = "READY" /\ running = curTask
    BY <1>5
  <2> QED BY <1>4, <2>1, <2>2 DEF NoLostReschedule, ControlOK
<1> QED BY <1>5, <1>6, <1>7, <1>8 DEF KernelOK

\* A step that leaves the queues and the current task alone.
LEMMA QueuesUnchanged ==
  ASSUME QueueTypeOK, QueuesOK, UNCHANGED <<queueVars, curTask>>
  PROVE  QueueTypeOK' /\ QueuesOK'
BY DEF queueVars, QueueTypeOK, QueuesOK, ReadyListsOK, CurSetOK, CurQOK

\* A region of the running task that keeps the queues consistent and, when it
\* does not ask for the scheduler, readies nobody.
LEMMA RegionPreserves ==
  ASSUME KernelTypeOK, KernelOK, phase = "user", ~isr,
         UNCHANGED <<curTask, running, phase, isr, isrKey>>,
         locked' \in BOOLEAN, swiLocked' \in BOOLEAN,
         QueueTypeOK', QueuesOK',
         workFlag' \/ (UNCHANGED <<curQ, workFlag>> /\ curSet' \subseteq curSet)
  PROVE  KernelTypeOK' /\ KernelOK'
<1>1. KernelTypeOK'
  BY DEF KernelTypeOK, ControlTypeOK, Phases
<1>2. NoLostReschedule'
  BY DEF KernelOK, NoLostReschedule
<1>3. ControlOK'
  BY DEF KernelOK, ControlOK
<1>4. QED BY <1>1, <1>2, <1>3 DEF KernelOK

\* Task_restore at the end of a call: it schedules when there is work.
LEMMA RestorePreserves ==
  ASSUME KernelTypeOK, KernelOK, phase = "user", ~isr, NEW k \in BOOLEAN, locked,
         Task_restore(k), UNCHANGED <<queueVars, curTask, running, swiLocked, isr, isrKey>>
  PROVE  KernelTypeOK' /\ KernelOK'
<1>1. \/ UNCHANGED <<phase, locked>>
      \/ workFlag /\ ~swiLocked /\ phase' = "pick" /\ UNCHANGED locked
      \/ UNCHANGED phase /\ locked' = FALSE
  BY DEF Task_restore, Swi_enabled
<1>2. QueueTypeOK' /\ QueuesOK'
  BY QueuesUnchanged DEF KernelTypeOK, KernelOK
<1>3. KernelTypeOK'
  BY <1>1, <1>2 DEF KernelTypeOK, ControlTypeOK, Phases
<1>4. NoLostReschedule'
  BY <1>1 DEF queueVars, KernelOK, NoLostReschedule
<1>5. ControlOK'
  BY <1>1 DEF KernelOK, ControlOK
<1>6. QED BY <1>2, <1>3, <1>4, <1>5 DEF KernelOK

\* An operation of an interrupt: it may ready or move tasks when it asks for
\* the scheduler, and it never blocks the current task.
LEMMA HwiPreserves ==
  ASSUME KernelTypeOK, KernelOK, InHwi, QueueTypeOK', QueuesOK',
         workFlag' \/ UNCHANGED queueVars,
         mode[curTask] = "READY" => mode'[curTask] = "READY"
  PROVE  KernelTypeOK' /\ KernelOK'
<1>1. isr /\ UNCHANGED <<curTask, locked, swiLocked, running, phase, isr, isrKey>>
  BY DEF InHwi, hwiVars
<1>2. KernelTypeOK'
  BY <1>1 DEF KernelTypeOK, ControlTypeOK, Phases
<1>3. NoLostReschedule'
  BY <1>1 DEF KernelOK, NoLostReschedule, queueVars
<1>4. ControlOK'
  BY <1>1 DEF KernelOK, ControlOK
<1>5. QED BY <1>2, <1>3, <1>4 DEF KernelOK
=============================================================================
