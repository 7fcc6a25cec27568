----------------------------- MODULE QueueProofs -----------------------------
(***************************************************************************)
(* The pointers of Queue.c implement sequences: every operation takes the  *)
(* lists it is about from one sequence to another, and leaves the lists    *)
(* that share no node with them alone.  The modules that treat a list as a *)
(* sequence (TaskKernel, Semaphore, Event, Clock, Mailbox) rest on this.   *)
(***************************************************************************)
EXTENDS Queue, SequencesExt, FiniteSetTheorems, WellFoundedInduction, TLAPS

\* The list with the head q holds s: N are the nodes, each is in it once.
List(N, l, q, s) ==
  /\ l \in [next : [N -> N], prev : [N -> N]]
  /\ q \in N /\ s \in Seq(N)
  /\ \A i \in 1 .. Len(s) : s[i] # q
  /\ \A i, j \in 1 .. Len(s) : s[i] = s[j] => i = j
  /\ IsQueue(l, q, s)

Absent(e, q, s) == e # q /\ \A i \in 1 .. Len(s) : s[i] # e

\* The i-th node, from the head around to the head.
Node(q, s, i) == IF i \in 2 .. Len(s) + 1 THEN s[i - 1] ELSE q

\* The elements of a concatenation.
LEMMA Concatenated ==
  ASSUME NEW N, NEW p \in Seq(N), NEW t \in Seq(N)
  PROVE  /\ p \o t \in Seq(N)
         /\ Len(p \o t) = Len(p) + Len(t)
         /\ \A i \in 1 .. Len(p) + Len(t) :
              (p \o t)[i] = IF i <= Len(p) THEN p[i] ELSE t[i - Len(p)]
  OBVIOUS

LEMMA RingNode ==
  ASSUME NEW N, NEW q \in N, NEW s \in Seq(N)
  PROVE  \A i \in 1 .. Len(s) + 2 : Ring(q, s)[i] = Node(q, s, i)
<1> DEFINE h == <<q>>
           t == h \o s
<1>1. h \in Seq(N) /\ Len(h) = 1 /\ h[1] = q
  OBVIOUS
<1> HIDE DEF h
<1>2. /\ t \in Seq(N) /\ Len(t) = Len(s) + 1
      /\ \A i \in 1 .. Len(s) + 1 : t[i] = IF i <= 1 THEN h[i] ELSE s[i - 1]
  BY <1>1, Concatenated
<1> HIDE DEF t
<1>3. \A i \in 1 .. Len(t) + Len(h) : (t \o h)[i] = IF i <= Len(t) THEN t[i] ELSE h[i - Len(t)]
  BY <1>1, <1>2, Concatenated
<1>4. Ring(q, s) = t \o h
  BY DEF Ring, t, h
<1> QED
  <2> SUFFICES ASSUME NEW i \in 1 .. Len(s) + 2 PROVE (t \o h)[i] = Node(q, s, i)
    BY <1>4
  <2> DEFINE n == Len(s)
  <2>1. n \in Nat /\ Len(t) = n + 1 /\ Len(h) = 1
    BY <1>1, <1>2
  <2>2. i \in 1 .. n + 2
    OBVIOUS
  <2> HIDE DEF n
  <2>3. CASE i <= n + 1
    <3>1. (t \o h)[i] = t[i] /\ t[i] = IF i <= 1 THEN h[i] ELSE s[i - 1]
      BY <2>1, <2>2, <2>3, <1>2, <1>3 DEF n
    <3> QED BY <3>1, <2>1, <2>2, <2>3, <1>1 DEF Node, n
  <2>4. CASE i = n + 2
    <3>1. i \in 1 .. Len(t) + Len(h) /\ ~(i <= Len(t)) /\ i - Len(t) = 1
      BY <2>1, <2>4
    <3>2. (t \o h)[i] = h[i - Len(t)]
      BY <3>1, <1>3
    <3> QED BY <3>1, <3>2, <2>1, <2>4, <1>1 DEF Node, n
  <2> QED BY <2>1, <2>2, <2>3, <2>4

\* Forwards and backwards, node by node.
LEMMA ListNodes ==
  ASSUME NEW N, NEW l, NEW q \in N, NEW s \in Seq(N)
  PROVE  IsQueue(l, q, s) <=>
           \A i \in 1 .. Len(s) + 1 :
             /\ l.next[Node(q, s, i)] = Node(q, s, i + 1)
             /\ l.prev[Node(q, s, i + 1)] = Node(q, s, i)
  BY RingNode DEF IsQueue

LEMMA NodeInjective ==
  ASSUME NEW N, NEW l, NEW q, NEW s, List(N, l, q, s)
  PROVE  /\ \A i \in 1 .. Len(s) + 2 : Node(q, s, i) \in N
         /\ \A i, j \in 1 .. Len(s) + 1 : Node(q, s, i) = Node(q, s, j) => i = j
         /\ \A i, j \in 2 .. Len(s) + 2 : Node(q, s, i) = Node(q, s, j) => i = j
  BY DEF List, Node

LEMMA InsertedSequence ==
  ASSUME NEW N, NEW s \in Seq(N), NEW e \in N, NEW k \in 1 .. Len(s) + 1
  PROVE  /\ InsertAt(s, k, e) \in Seq(N)
         /\ Len(InsertAt(s, k, e)) = Len(s) + 1
         /\ \A i \in 1 .. Len(s) + 1 : InsertAt(s, k, e)[i] =
              IF i < k THEN s[i] ELSE IF i = k THEN e ELSE s[i - 1]
<1> DEFINE before == SubSeq(s, 1, k - 1)
           after  == SubSeq(s, k, Len(s))
           one    == <<e>>
           front  == before \o one
<1>1. before \in Seq(N) /\ Len(before) = k - 1 /\ \A i \in 1 .. k - 1 : before[i] = s[i]
  OBVIOUS
<1>2. /\ after \in Seq(N) /\ Len(after) = Len(s) + 1 - k
      /\ \A i \in 1 .. Len(s) + 1 - k : after[i] = s[k - 1 + i]
  OBVIOUS
<1>3. one \in Seq(N) /\ Len(one) = 1 /\ one[1] = e
  OBVIOUS
<1> HIDE DEF before, after, one
<1>4. /\ front \in Seq(N) /\ Len(front) = k
      /\ \A i \in 1 .. k : front[i] = IF i <= k - 1 THEN before[i] ELSE one[i - (k - 1)]
  <2>1. /\ front \in Seq(N) /\ Len(front) = Len(before) + Len(one)
        /\ \A i \in 1 .. Len(before) + Len(one) :
             front[i] = IF i <= Len(before) THEN before[i] ELSE one[i - Len(before)]
    BY <1>1, <1>3, Concatenated
  <2> QED BY <2>1, <1>1, <1>3
<1>5. \A i \in 1 .. k : front[i] = IF i < k THEN s[i] ELSE e
  BY <1>1, <1>3, <1>4
<1> HIDE DEF front
<1>6. /\ front \o after \in Seq(N) /\ Len(front \o after) = Len(s) + 1
      /\ \A i \in 1 .. Len(s) + 1 :
           (front \o after)[i] = IF i <= k THEN front[i] ELSE after[i - k]
  <2>1. /\ front \o after \in Seq(N) /\ Len(front \o after) = Len(front) + Len(after)
        /\ \A i \in 1 .. Len(front) + Len(after) :
             (front \o after)[i] = IF i <= Len(front) THEN front[i] ELSE after[i - Len(front)]
    BY <1>2, <1>4, Concatenated
  <2> QED BY <2>1, <1>2, <1>4
<1>7. InsertAt(s, k, e) = front \o after
  BY DEF InsertAt, before, after, one, front
<1> HIDE DEF InsertAt
<1>8. ASSUME NEW i \in 1 .. Len(s) + 1
      PROVE  (front \o after)[i] = IF i < k THEN s[i] ELSE IF i = k THEN e ELSE s[i - 1]
  BY <1>2, <1>5, <1>6
<1> QED
  BY <1>6, <1>7, <1>8

LEMMA RemovedSequence ==
  ASSUME NEW N, NEW s \in Seq(N), NEW k \in 1 .. Len(s)
  PROVE  /\ RemoveAt(s, k) \in Seq(N)
         /\ Len(RemoveAt(s, k)) = Len(s) - 1
         /\ \A i \in 1 .. Len(s) - 1 : RemoveAt(s, k)[i] = IF i < k THEN s[i] ELSE s[i + 1]
<1> DEFINE before == SubSeq(s, 1, k - 1)
           after  == SubSeq(s, k + 1, Len(s))
<1>1. before \in Seq(N) /\ Len(before) = k - 1 /\ \A i \in 1 .. k - 1 : before[i] = s[i]
  OBVIOUS
<1>2. /\ after \in Seq(N) /\ Len(after) = Len(s) - k
      /\ \A i \in 1 .. Len(s) - k : after[i] = s[k + i]
  OBVIOUS
<1> HIDE DEF before, after
<1>3. /\ before \o after \in Seq(N) /\ Len(before \o after) = Len(s) - 1
      /\ \A i \in 1 .. Len(s) - 1 :
           (before \o after)[i] = IF i <= k - 1 THEN before[i] ELSE after[i - (k - 1)]
  <2>1. /\ before \o after \in Seq(N) /\ Len(before \o after) = Len(before) + Len(after)
        /\ \A i \in 1 .. Len(before) + Len(after) :
             (before \o after)[i] = IF i <= Len(before) THEN before[i] ELSE after[i - Len(before)]
    BY <1>1, <1>2, Concatenated
  <2> QED BY <2>1, <1>1, <1>2
<1>4. RemoveAt(s, k) = before \o after
  BY DEF RemoveAt, before, after
<1>5. ASSUME NEW i \in 1 .. Len(s) - 1
      PROVE  (before \o after)[i] = IF i < k THEN s[i] ELSE s[i + 1]
  BY <1>1, <1>2, <1>3
<1> QED
  BY <1>3, <1>4, <1>5

-----------------------------------------------------------------------------
(* One operation, one change of the sequence.                              *)

\* Queue_insert puts e in front of the node at index k of the list, and
\* Queue_put (and enqueue) puts it at the end: Queue.c's insert and put link
\* it both ways, whatever pointers e had before.
THEOREM InsertKeepsList ==
  ASSUME NEW N, NEW l, NEW q, NEW s, List(N, l, q, s),
         NEW e \in N, Absent(e, q, s), NEW k \in 1 .. Len(s) + 1
  PROVE  List(N, Queue_insert(l, Node(q, s, k + 1), e), q, InsertAt(s, k, e))
<1> DEFINE n  == Len(s)
           at == Node(q, s, k + 1)
           m  == Queue_insert(l, at, e)
           z  == InsertAt(s, k, e)
           R(i) == Node(q, s, i)
<1>1. /\ q \in N /\ s \in Seq(N) /\ n \in Nat /\ k \in 1 .. n + 1
      /\ l \in [next : [N -> N], prev : [N -> N]]
  BY DEF List
<1>2. /\ \A i \in 1 .. n + 2 : R(i) \in N /\ R(i) # e
      /\ \A i, j \in 1 .. n + 1 : R(i) = R(j) => i = j
      /\ \A i, j \in 2 .. n + 2 : R(i) = R(j) => i = j
  BY <1>1, NodeInjective DEF Node, Absent
<1>3. \A i \in 1 .. n + 1 : l.next[R(i)] = R(i + 1) /\ l.prev[R(i + 1)] = R(i)
  BY <1>1, ListNodes DEF List
<1>4. z \in Seq(N) /\ Len(z) = n + 1
      /\ \A i \in 1 .. n + 1 : z[i] = IF i < k THEN s[i] ELSE IF i = k THEN e ELSE s[i - 1]
  BY <1>1, InsertedSequence
<1> HIDE DEF z
<1>5. /\ \A i \in 1 .. Len(z) : z[i] # q
      /\ \A i, j \in 1 .. Len(z) : z[i] = z[j] => i = j
  <2>1. /\ \A i \in 1 .. n : s[i] # q /\ s[i] # e
        /\ \A i, j \in 1 .. n : s[i] = s[j] => i = j
        /\ e # q
    BY DEF List, Absent
  <2> HIDE DEF n
  <2>2. ASSUME NEW i \in 1 .. n + 1 PROVE z[i] # q
    <3>1. CASE i < k
      BY <3>1, <2>1, <1>1, <1>4
    <3>2. CASE i = k
      BY <3>2, <2>1, <1>4
    <3>3. CASE i > k
      <4>1. i - 1 \in 1 .. n
        BY <3>3, <1>1
      <4>2. z[i] = s[i - 1]
        BY <3>3, <1>1, <1>4
      <4> QED BY <4>1, <4>2, <2>1
    <3> QED BY <3>1, <3>2, <3>3, <1>1
  <2>3. ASSUME NEW i \in 1 .. n + 1, NEW j \in 1 .. n + 1, z[i] = z[j] PROVE i = j
    <3> DEFINE old(x) == IF x < k THEN x ELSE x - 1
    <3>1. \A x \in 1 .. n + 1 : x # k => old(x) \in 1 .. n /\ z[x] = s[old(x)]
      BY <1>1, <1>4, n = Len(s) DEF n
    <3>2. z[k] = e
      BY <1>4, n = Len(s) DEF n
    <3>3. CASE i = k \/ j = k
      BY <3>1, <3>2, <3>3, <2>1, <2>3
    <3>4. CASE i # k /\ j # k
      <4>1. old(i) = old(j)
        BY <3>1, <3>4, <2>1, <2>3
      <4> QED BY <4>1, <3>4, <1>1
    <3> QED BY <3>3, <3>4
  <2> QED BY <2>2, <2>3, <1>4
<1>6. \A i \in 1 .. n + 3 : Node(q, z, i) =
        IF i <= k THEN R(i) ELSE IF i = k + 1 THEN e ELSE R(i - 1)
  BY <1>1, <1>4 DEF Node
<1>7. at = R(k + 1) /\ l.prev[at] = R(k) /\ k \in 1 .. n + 1
  BY <1>3
<1> HIDE DEF R, at
<1>8. /\ m \in [next : [N -> N], prev : [N -> N]]
      /\ \A x \in N : m.next[x] = IF x = R(k) THEN e ELSE IF x = e THEN R(k + 1) ELSE l.next[x]
      /\ \A x \in N : m.prev[x] = IF x = R(k + 1) THEN e ELSE IF x = e THEN R(k) ELSE l.prev[x]
  BY <1>1, <1>2, <1>7 DEF Queue_insert
<1> HIDE DEF m
<1>9. ASSUME NEW i \in 1 .. n + 2
      PROVE  m.next[Node(q, z, i)] = Node(q, z, i + 1) /\ m.prev[Node(q, z, i + 1)] = Node(q, z, i)
  <2>1. CASE i < k
    BY <2>1, <1>1, <1>2, <1>3, <1>6, <1>7, <1>8
  <2>2. CASE i = k
    BY <2>2, <1>1, <1>2, <1>3, <1>6, <1>7, <1>8
  <2>3. CASE i = k + 1
    BY <2>3, <1>1, <1>2, <1>3, <1>6, <1>7, <1>8
  <2>4. CASE i > k + 1
    <3>1. i - 1 \in 2 .. n + 1 /\ i - 1 # k /\ i # k + 1
      BY <2>4, <1>1, <1>7
    <3>2. Node(q, z, i) = R(i - 1) /\ Node(q, z, i + 1) = R(i)
      BY <2>4, <1>1, <1>6, <1>7
    <3>3. l.next[R(i - 1)] = R(i) /\ l.prev[R(i)] = R(i - 1)
      BY <3>1, <1>3
    <3> QED BY <3>1, <3>2, <3>3, <1>1, <1>2, <1>7, <1>8
  <2> QED BY <2>1, <2>2, <2>3, <2>4, <1>1
<1>10. IsQueue(m, q, z)
  <2>1. IsQueue(m, q, z) <=>
          \A i \in 1 .. Len(z) + 1 :
            m.next[Node(q, z, i)] = Node(q, z, i + 1) /\ m.prev[Node(q, z, i + 1)] = Node(q, z, i)
    BY <1>1, <1>4, ListNodes
  <2>2. Len(z) + 1 = n + 2
    BY <1>1, <1>4
  <2> QED BY <2>1, <2>2, <1>9
<1>11. List(N, m, q, z)
  BY <1>1, <1>4, <1>5, <1>8, <1>10 DEF List
<1> QED
  BY <1>11 DEF m, z, at
\* Queue_remove takes out the element at index k, wherever it is.
THEOREM RemoveKeepsList ==
  ASSUME NEW N, NEW l, NEW q, NEW s, List(N, l, q, s), NEW k \in 1 .. Len(s)
  PROVE  List(N, Queue_remove(l, s[k]), q, RemoveAt(s, k))
<1> DEFINE n  == Len(s)
           m  == Queue_remove(l, s[k])
           z  == RemoveAt(s, k)
           R(i) == Node(q, s, i)
<1>1. /\ q \in N /\ s \in Seq(N) /\ n \in Nat /\ k \in 1 .. n
      /\ l \in [next : [N -> N], prev : [N -> N]]
  BY DEF List
<1>2. /\ \A i \in 1 .. n + 2 : R(i) \in N
      /\ \A i, j \in 1 .. n + 1 : R(i) = R(j) => i = j
      /\ \A i, j \in 2 .. n + 2 : R(i) = R(j) => i = j
  BY <1>1, NodeInjective
<1>3. \A i \in 1 .. n + 1 : l.next[R(i)] = R(i + 1) /\ l.prev[R(i + 1)] = R(i)
  BY <1>1, ListNodes DEF List
<1>4. z \in Seq(N) /\ Len(z) = n - 1
      /\ \A i \in 1 .. n - 1 : z[i] = IF i < k THEN s[i] ELSE s[i + 1]
  BY <1>1, RemovedSequence
<1> HIDE DEF z
<1>5. /\ \A i \in 1 .. Len(z) : z[i] # q
      /\ \A i, j \in 1 .. Len(z) : z[i] = z[j] => i = j
  <2>1. /\ \A i \in 1 .. n : s[i] # q
        /\ \A i, j \in 1 .. n : s[i] = s[j] => i = j
    BY DEF List
  <2> HIDE DEF n
  <2> DEFINE old(x) == IF x < k THEN x ELSE x + 1
  <2>2. \A x \in 1 .. n - 1 : old(x) \in 1 .. n /\ z[x] = s[old(x)]
    BY <1>1, <1>4
  <2>3. \A x, y \in 1 .. n - 1 : old(x) = old(y) => x = y
    BY <1>1
  <2> HIDE DEF old
  <2>4. ASSUME NEW i \in 1 .. n - 1 PROVE z[i] # q
    <3>1. old(i) \in 1 .. n /\ z[i] = s[old(i)]
      BY <2>2
    <3> QED BY <3>1, <2>1
  <2>5. ASSUME NEW i \in 1 .. n - 1, NEW j \in 1 .. n - 1, z[i] = z[j] PROVE i = j
    <3>1. old(i) \in 1 .. n /\ z[i] = s[old(i)] /\ old(j) \in 1 .. n /\ z[j] = s[old(j)]
      BY <2>2
    <3>2. old(i) = old(j)
      BY <3>1, <2>5, <2>1
    <3> QED BY <3>2, <2>3
  <2>6. Len(z) = n - 1
    BY <1>4
  <2> QED BY <2>4, <2>5, <2>6
<1>6. \A i \in 1 .. n + 1 : Node(q, z, i) = IF i <= k THEN R(i) ELSE R(i + 1)
  BY <1>1, <1>4 DEF Node
<1>7. s[k] = R(k + 1) /\ l.prev[s[k]] = R(k) /\ l.next[s[k]] = R(k + 2)
  <2>1. s[k] = R(k + 1)
    BY <1>1 DEF Node
  <2> QED BY <2>1, <1>1, <1>3
<1> HIDE DEF R
<1>8. /\ m \in [next : [N -> N], prev : [N -> N]]
      /\ \A x \in N : m.next[x] = IF x = R(k) THEN R(k + 2) ELSE l.next[x]
      /\ \A x \in N : m.prev[x] = IF x = R(k + 2) THEN R(k) ELSE l.prev[x]
  BY <1>1, <1>2, <1>7 DEF Queue_remove
<1> HIDE DEF m
<1>9. ASSUME NEW i \in 1 .. n
      PROVE  m.next[Node(q, z, i)] = Node(q, z, i + 1) /\ m.prev[Node(q, z, i + 1)] = Node(q, z, i)
  <2>1. CASE i < k
    <3>1. i \in 1 .. n /\ i # k /\ i + 1 # k + 2
      BY <2>1, <1>1
    <3>2. Node(q, z, i) = R(i) /\ Node(q, z, i + 1) = R(i + 1)
      BY <2>1, <1>1, <1>6
    <3>3. l.next[R(i)] = R(i + 1) /\ l.prev[R(i + 1)] = R(i)
      BY <3>1, <1>1, <1>3
    <3>4. R(i) # R(k) /\ R(i + 1) # R(k + 2)
      <4>1. i \in 1 .. n + 1 /\ k \in 1 .. n + 1 /\ i + 1 \in 2 .. n + 2 /\ k + 2 \in 2 .. n + 2
        BY <1>1
      <4> QED BY <4>1, <3>1, <1>2
    <3> QED BY <3>1, <3>2, <3>3, <3>4, <1>1, <1>2, <1>8
  <2>2. CASE i = k
    BY <2>2, <1>1, <1>2, <1>6, <1>8
  <2>3. CASE i > k
    <3>1. i + 1 \in 2 .. n + 1 /\ i + 1 # k /\ i + 2 \in 2 .. n + 2 /\ i + 2 # k + 2
      BY <2>3, <1>1
    <3>2. Node(q, z, i) = R(i + 1) /\ Node(q, z, i + 1) = R(i + 2)
      BY <2>3, <1>1, <1>6
    <3>3. l.next[R(i + 1)] = R(i + 2) /\ l.prev[R(i + 2)] = R(i + 1)
      BY <3>1, <1>3
    <3> QED BY <3>1, <3>2, <3>3, <1>1, <1>2, <1>8
  <2> QED BY <2>1, <2>2, <2>3, <1>1
<1>10. IsQueue(m, q, z)
  <2>1. IsQueue(m, q, z) <=>
          \A i \in 1 .. Len(z) + 1 :
            m.next[Node(q, z, i)] = Node(q, z, i + 1) /\ m.prev[Node(q, z, i + 1)] = Node(q, z, i)
    <3>1. q \in N /\ z \in Seq(N)
      BY <1>1, <1>4
    <3> QED BY <3>1, ListNodes
  <2>2. Len(z) + 1 = n
    BY <1>1, <1>4
  <2> QED BY <2>1, <2>2, <1>9
<1>11. List(N, m, q, z)
  BY <1>1, <1>4, <1>5, <1>8, <1>10 DEF List
<1> QED
  BY <1>11 DEF m, z

\* The other operations are these two at the ends of the list; what they
\* return is the first or the last element, and the head if there is none.
THEOREM EndsOfList ==
  ASSUME NEW N, NEW l, NEW q, NEW s, List(N, l, q, s)
  PROVE  /\ Queue_head(l, q) = Node(q, s, 2)
         /\ Queue_tail(l, q) = Node(q, s, Len(s) + 1)
         /\ Queue_empty(l, q) <=> s = <<>>
         /\ \A e \in N : Absent(e, q, s) =>
              /\ Queue_put(l, q, e) = Queue_insert(l, Node(q, s, Len(s) + 2), e)
              /\ Queue_putHead(l, q, e) = Queue_insert(l, Node(q, s, 2), e)
         /\ s # <<>> => /\ Queue_dequeue(l, q) = Queue_remove(l, s[1])
                       /\ Queue_getTail(l, q) = Queue_remove(l, s[Len(s)])
<1> DEFINE n == Len(s)
           R(i) == Node(q, s, i)
<1>1. /\ q \in N /\ s \in Seq(N) /\ n \in Nat
      /\ l \in [next : [N -> N], prev : [N -> N]]
  BY DEF List
<1>2. \A i \in 1 .. n + 1 : l.next[R(i)] = R(i + 1) /\ l.prev[R(i + 1)] = R(i)
  BY <1>1, ListNodes DEF List
<1>3. R(1) = q /\ R(n + 2) = q
  BY <1>1 DEF Node
<1>4. l.next[q] = R(2) /\ l.prev[R(2)] = q /\ l.prev[q] = R(n + 1) /\ l.next[R(n + 1)] = q
  BY <1>1, <1>2, <1>3
<1>5. Queue_empty(l, q) <=> s = <<>>
  BY <1>1, <1>4 DEF Queue_empty, Node, List
<1>6. ASSUME NEW e \in N, Absent(e, q, s)
      PROVE  /\ Queue_put(l, q, e) = Queue_insert(l, R(n + 2), e)
             /\ Queue_putHead(l, q, e) = Queue_insert(l, R(2), e)
  <2> HIDE DEF R, n
  <2>1. Queue_put(l, q, e) = Queue_insert(l, R(n + 2), e)
    BY <1>3 DEF Queue_put
  <2>2. [l.next EXCEPT ![e] = R(2), ![q] = e] = [l.next EXCEPT ![e] = l.next[q], ![l.prev[R(2)]] = e]
    BY <1>4
  <2>3. [l.prev EXCEPT ![e] = q, ![l.next[q]] = e] = [l.prev EXCEPT ![e] = l.prev[R(2)], ![R(2)] = e]
    BY <1>4
  <2>4. Queue_putHead(l, q, e) = Queue_insert(l, R(2), e)
    BY <1>4, <2>2, <2>3 DEF Queue_putHead, Queue_insert
  <2> QED BY <2>1, <2>4
<1>7. ASSUME s # <<>>
      PROVE  /\ Queue_dequeue(l, q) = Queue_remove(l, s[1])
             /\ Queue_getTail(l, q) = Queue_remove(l, s[n])
  <2>1. s[1] = R(2) /\ s[n] = R(n + 1)
    BY <1>1, <1>7 DEF Node
  <2> HIDE DEF R, n
  <2> QED BY <2>1, <1>4 DEF Queue_dequeue, Queue_getTail, Queue_remove
<1> QED
  BY <1>4, <1>5, <1>6, <1>7 DEF Queue_head, Queue_tail

\* A list that shares no node with the one that is changed stays as it is.
THEOREM OtherListsKept ==
  ASSUME NEW N, NEW l, NEW q, NEW s, List(N, l, q, s), NEW p, NEW t, List(N, l, p, t),
         \A i \in 1 .. Len(s) + 2, j \in 1 .. Len(t) + 2 : Node(q, s, i) # Node(p, t, j)
  PROVE  /\ \A k \in 1 .. Len(s) : List(N, Queue_remove(l, s[k]), p, t)
         /\ \A k \in 1 .. Len(s) + 1 : \A e \in N : Absent(e, p, t) =>
              List(N, Queue_insert(l, Node(q, s, k + 1), e), p, t)
<1>1. /\ q \in N /\ s \in Seq(N) /\ Len(s) \in Nat /\ p \in N /\ t \in Seq(N) /\ Len(t) \in Nat
      /\ l \in [next : [N -> N], prev : [N -> N]]
  BY DEF List
<1>2. \A i \in 1 .. Len(s) + 1 : l.next[Node(q, s, i)] = Node(q, s, i + 1)
                             /\ l.prev[Node(q, s, i + 1)] = Node(q, s, i)
  BY <1>1, ListNodes DEF List
<1>3. \A j \in 1 .. Len(t) + 2 : Node(p, t, j) \in N
  BY NodeInjective
<1>4. ASSUME NEW m \in [next : [N -> N], prev : [N -> N]],
             \A j \in 1 .. Len(t) + 2 : /\ m.next[Node(p, t, j)] = l.next[Node(p, t, j)]
                                       /\ m.prev[Node(p, t, j)] = l.prev[Node(p, t, j)]
      PROVE  List(N, m, p, t)
  <2>1. IsQueue(m, p, t)
    BY <1>1, <1>4, ListNodes DEF List
  <2> QED BY <2>1 DEF List
<1>5. ASSUME NEW k \in 1 .. Len(s) PROVE List(N, Queue_remove(l, s[k]), p, t)
  <2>1. s[k] = Node(q, s, k + 1)
    BY <1>1 DEF Node
  <2>2. l.next[s[k]] = Node(q, s, k + 2) /\ l.prev[s[k]] = Node(q, s, k)
    BY <2>1, <1>1, <1>2
  <2>3. \A j \in 1 .. Len(t) + 2 : Node(p, t, j) # l.next[s[k]] /\ Node(p, t, j) # l.prev[s[k]]
    BY <2>2, <1>1
  <2>4. Queue_remove(l, s[k]) \in [next : [N -> N], prev : [N -> N]]
    BY <2>1, <1>1, NodeInjective DEF Queue_remove
  <2> QED BY <2>3, <2>4, <1>3, <1>4 DEF Queue_remove
<1>6. ASSUME NEW k \in 1 .. Len(s) + 1, NEW e \in N, Absent(e, p, t)
      PROVE  List(N, Queue_insert(l, Node(q, s, k + 1), e), p, t)
  <2> DEFINE at == Node(q, s, k + 1)
  <2>1. at \in N /\ l.prev[at] = Node(q, s, k)
    BY <1>1, <1>2, NodeInjective
  <2>2. \A j \in 1 .. Len(t) + 2 : Node(p, t, j) # at /\ Node(p, t, j) # l.prev[at] /\ Node(p, t, j) # e
    <3>1. \A j \in 1 .. Len(t) + 2 : Node(p, t, j) # e
      BY <1>1, <1>6 DEF Absent, Node
    <3>2. k \in 1 .. Len(s) + 2 /\ k + 1 \in 1 .. Len(s) + 2
      BY <1>1
    <3> QED BY <3>1, <3>2, <2>1
  <2> HIDE DEF at
  <2>3. Queue_insert(l, at, e) \in [next : [N -> N], prev : [N -> N]]
    BY <2>1, <1>1 DEF Queue_insert
  <2>4. List(N, Queue_insert(l, at, e), p, t)
    BY <2>2, <2>3, <1>3, <1>4 DEF Queue_insert
  <2> QED BY <2>4 DEF at
<1> QED
  BY <1>5, <1>6

-----------------------------------------------------------------------------
(* What Walk, a recursive function, computes.                              *)

\* The induction: of the numbers of which something does not hold, take the least.
LEMMA LeastNumber ==
  ASSUME NEW S \in SUBSET Nat, S # {}
  PROVE  \E n \in S : \A m \in S : n <= m
<1> DEFINE Below(n) == 0 .. n
           T == {Below(n) : n \in S}
<1>1. T \subseteq FiniteSubsetsOf(Nat)
  <2>1. \A n \in S : IsFiniteSet(Below(n)) /\ Below(n) \subseteq Nat
    BY FS_Interval
  <2> QED BY <2>1 DEF FiniteSubsetsOf
<1>2. PICK B \in T : \A C \in T : <<C, B>> \notin StrictSubsetOrdering(Nat)
  <2>1. T # {}
    OBVIOUS
  <2> HIDE DEF T
  <2> QED BY <1>1, <2>1, WFMin, FS_StrictSubsetOrderingWellFounded
<1>3. PICK n \in S : B = Below(n)
  OBVIOUS
<1>4. ASSUME NEW m \in S, m < n PROVE FALSE
  <2>1. Below(m) \in T /\ Below(m) \subseteq Below(n) /\ n \in Below(n) /\ n \notin Below(m)
    BY <1>4
  <2>2. Below(m) \subseteq Nat /\ Below(n) \subseteq Nat
    OBVIOUS
  <2> HIDE DEF Below, T
  <2>3. <<Below(m), B>> \in StrictSubsetOrdering(Nat)
    BY <2>1, <2>2, <1>3 DEF StrictSubsetOrdering
  <2> QED BY <1>2, <2>1, <2>3
<1> QED BY <1>4


\* Walk finds the sequence that a list holds.
LEMMA Walked ==
  ASSUME NEW N, NEW l, NEW q, NEW s, List(N, l, q, s), NEW n \in Nat, Len(s) <= n
  PROVE  Walk(l, q, n) = s
<1> DEFINE g == [i \in 0 .. n |-> IF i <= Len(s) THEN SubSeq(s, 1, i) ELSE s]
           Body(f, i) == IF i = 0 THEN <<>>
        ELSE LET before == f[i - 1]
                 next   == l.next[IF before = <<>> THEN q ELSE before[Len(before)]]
             IN  IF Len(before) < i - 1 \/ next = q THEN before ELSE Append(before, next)
           f == CHOOSE f : f = [i \in 0 .. n |-> Body(f, i)]
<1>0. Len(s) \in Nat /\ s \in Seq(N) /\ q \in N /\ \A i \in 1 .. Len(s) : s[i] # q
  BY DEF List
<1>9. /\ \A i \in 1 .. Len(s) : l.next[IF i = 1 THEN q ELSE s[i - 1]] = s[i]
      /\ l.next[IF s = <<>> THEN q ELSE s[Len(s)]] = q
  <2>1. \A i \in 1 .. Len(s) + 1 : l.next[Node(q, s, i)] = Node(q, s, i + 1)
    BY <1>0, ListNodes DEF List
  <2>2. \A i \in 1 .. Len(s) + 1 : Node(q, s, i) = IF i = 1 THEN q ELSE s[i - 1]
    BY <1>0 DEF Node
  <2>3. Node(q, s, Len(s) + 2) = q
    BY <1>0 DEF Node
  <2>4. s = <<>> <=> Len(s) = 0
    BY <1>0
  <2> QED BY <1>0, <2>1, <2>2, <2>3, <2>4
<1>1. g = [i \in 0 .. n |-> Body(g, i)]
  <2> SUFFICES ASSUME NEW i \in 0 .. n PROVE g[i] = Body(g, i)
    OBVIOUS
  <2>1. CASE i = 0
    <3>1. SubSeq(s, 1, 0) = <<>>
      BY <1>0
    <3> QED BY <2>1, <3>1, <1>0
  <2>2. CASE i \in 1 .. Len(s)
    <3> DEFINE b == SubSeq(s, 1, i - 1)
    <3>1. g[i - 1] = b /\ g[i] = SubSeq(s, 1, i)
      BY <2>2, <1>0
    <3>2. b \in Seq(N) /\ Len(b) = i - 1 /\ \A j \in 1 .. i - 1 : b[j] = s[j]
      BY <2>2, <1>0
    <3>5. (b = <<>> <=> i = 1) /\ (i > 1 => b[Len(b)] = s[i - 1])
      <4> HIDE DEF b
      <4> QED BY <2>2, <3>2
    <3>6. SubSeq(s, 1, i) = Append(b, s[i])
      BY <2>2, <1>0
    <3>3. l.next[IF b = <<>> THEN q ELSE b[Len(b)]] = s[i] /\ s[i] # q
      BY <2>2, <3>5, <1>0, <1>9
    <3> HIDE DEF b, g
    <3>4. ~(Len(b) < i - 1)
      BY <3>2
    <3>7. i # 0
      BY <2>2, <1>0
    <3> QED BY <3>1, <3>3, <3>4, <3>6, <3>7
  <2>3. CASE i > Len(s) /\ i # 0
    <3>1. g[i] = s
      BY <2>3, <1>0
    <3>2. g[i - 1] = s
      BY <2>3, <1>0
    <3> HIDE DEF g
    <3>3. Body(g, i) = s
      BY <3>2, <2>3, <1>9
    <3> QED BY <3>1, <3>3
  <2> HIDE DEF f, g, Body
  <2> QED BY <2>1, <2>2, <2>3, <1>0
<1>2. f = [i \in 0 .. n |-> Body(f, i)]
  <2> HIDE DEF Body, g
  <2>1. \E h : h = [i \in 0 .. n |-> Body(h, i)]
    BY <1>1
  <2> QED BY <2>1
<1>3. \A i \in 0 .. n : f[i] = g[i]
  <2> DEFINE bad == {i \in 0 .. n : f[i] # g[i]}
  <2>1. SUFFICES ASSUME bad # {} PROVE FALSE
    OBVIOUS
  <2>2. bad \in SUBSET Nat
    OBVIOUS
  <2>3. PICK i \in bad : \A j \in bad : i <= j
    <3> HIDE DEF bad
    <3> QED BY <2>1, <2>2, LeastNumber
  <2>4. f[i] = Body(f, i) /\ g[i] = Body(g, i)
    <3> HIDE DEF f, g, Body
    <3> QED BY <1>1, <1>2
  <2>5. i # 0 => f[i - 1] = g[i - 1]
    <3> HIDE DEF f, g, Body
    <3> QED BY <2>3
  <2>6. Body(f, i) = Body(g, i)
    <3> HIDE DEF f, g
    <3> QED BY <2>5
  <2> QED BY <2>4, <2>6
<1>4. Walk(l, q, n) = f[n]
  BY DEF Walk
<1>5. g[n] = s
  <2>1. Len(s) \in Nat /\ n \in 0 .. n
    OBVIOUS
  <2>2. SubSeq(s, 1, Len(s)) = s
    BY <1>0
  <2>3. g[n] = IF n <= Len(s) THEN SubSeq(s, 1, n) ELSE s
    <3> HIDE DEF f, Body
    <3> QED BY <2>1
  <2>4. n <= Len(s) => n = Len(s)
    BY <2>1
  <2> HIDE DEF f, g, Body
  <2> QED BY <2>2, <2>3, <2>4
<1> HIDE DEF f, g
<1> QED BY <1>3, <1>4, <1>5

-----------------------------------------------------------------------------
(* Sequences that hold each element once, as waiting lists do: the other  *)
(* modules of proofs use these.                                            *)

\* An element that is not in a sequence is put in front.
LEMMA Prepended ==
  ASSUME NEW T, NEW q \in Seq(T), NEW x \in T
  PROVE  LET z == <<x>> \o q
         IN  /\ z \in Seq(T) /\ \A y : Contains(z, y) <=> Contains(q, y) \/ y = x
             /\ IsInjective(q) /\ ~Contains(q, x) => IsInjective(z)
<1> DEFINE z == <<x>> \o q
           m == Len(q)
<1>1. /\ m \in Nat /\ z \in Seq(T) /\ Len(z) = m + 1 /\ z[1] = x
      /\ \A i \in 1 .. m : z[i + 1] = q[i]
      /\ DOMAIN q = 1 .. m /\ DOMAIN z = 1 .. m + 1
  OBVIOUS
<1>2. /\ \A y : Contains(q, y) <=> \E i \in 1 .. m : q[i] = y
      /\ \A y : Contains(z, y) <=> \E i \in 1 .. m + 1 : z[i] = y
  BY <1>1 DEF Contains
<1> HIDE DEF z, m
<1>3. /\ \A i \in 1 .. m + 1 : i = 1 \/ (i - 1 \in 1 .. m /\ z[i] = q[i - 1] /\ (i - 1) + 1 = i)
      /\ \A i \in 1 .. m : i + 1 \in 1 .. m + 1 /\ z[i + 1] = q[i]
      /\ 1 \in 1 .. m + 1
  <2>1. \A i \in 1 .. m + 1 : i = 1 \/ (i - 1 \in 1 .. m /\ (i - 1) + 1 = i)
    BY <1>1
  <2> QED BY <2>1, <1>1
<1>4. \A y : Contains(z, y) <=> Contains(q, y) \/ y = x
  <2>1. ASSUME NEW i \in 1 .. m + 1 PROVE Contains(q, z[i]) \/ z[i] = x
    BY <1>1, <1>2, <1>3
  <2>2. ASSUME NEW i \in 1 .. m PROVE Contains(z, q[i])
    BY <1>1, <1>2, <1>3
  <2> QED BY <2>1, <2>2, <1>1, <1>2, <1>3
<1>5. ASSUME IsInjective(q), ~Contains(q, x) PROVE IsInjective(z)
  <2>1. \A i, j \in 1 .. m : q[i] = q[j] => i = j
    BY <1>1, <1>5 DEF IsInjective
  <2>2. ASSUME NEW i \in 1 .. m + 1, NEW j \in 1 .. m + 1, z[i] = z[j] PROVE i = j
    <3>1. \A k \in 1 .. m : q[k] # x
      BY <1>2, <1>5
    <3>2. CASE i = 1 \/ j = 1
      BY <3>1, <3>2, <2>2, <1>1, <1>3
    <3>3. CASE i # 1 /\ j # 1
      <4>1. i - 1 = j - 1
        BY <3>3, <2>1, <2>2, <1>3
      <4> QED BY <4>1, <1>1
    <3> QED BY <3>2, <3>3
  <2> QED BY <2>2, <1>1 DEF IsInjective
<1> QED BY <1>1, <1>4, <1>5 DEF z, m

\* An element that is not in a sequence is put at its end.
LEMMA Appended ==
  ASSUME NEW T, NEW q \in Seq(T), NEW x \in T
  PROVE  LET z == Append(q, x)
         IN  /\ z \in Seq(T) /\ Len(z) = Len(q) + 1 /\ z # <<>>
             /\ \A y : Contains(z, y) <=> Contains(q, y) \/ y = x
             /\ IsInjective(q) /\ ~Contains(q, x) => IsInjective(z)
<1> DEFINE z == Append(q, x)
           m == Len(q)
<1>1. /\ m \in Nat /\ z \in Seq(T) /\ Len(z) = m + 1 /\ z # <<>> /\ z[m + 1] = x
      /\ \A i \in 1 .. m : z[i] = q[i]
      /\ DOMAIN q = 1 .. m /\ DOMAIN z = 1 .. m + 1
  OBVIOUS
<1>2. /\ \A y : Contains(q, y) <=> \E i \in 1 .. m : q[i] = y
      /\ \A y : Contains(z, y) <=> \E i \in 1 .. m + 1 : z[i] = y
  BY <1>1 DEF Contains
<1> HIDE DEF z, m
<1>3. \A i \in 1 .. m + 1 : i \in 1 .. m \/ i = m + 1
  BY <1>1
<1>4. (\A i \in 1 .. m : i \in 1 .. m + 1) /\ m + 1 \in 1 .. m + 1
  BY <1>1
<1>5. \A y : Contains(z, y) <=> Contains(q, y) \/ y = x
  BY <1>1, <1>2, <1>3, <1>4
<1>6. IsInjective(q) /\ ~Contains(q, x) => IsInjective(z)
  BY <1>1, <1>2, <1>3 DEF IsInjective
<1> QED BY <1>1, <1>5, <1>6 DEF z, m

\* The first element is taken.
LEMMA Beheaded ==
  ASSUME NEW T, NEW q \in Seq(T), q # <<>>
  PROVE  /\ Tail(q) \in Seq(T) /\ Len(Tail(q)) = Len(q) - 1
         /\ Head(q) \in T /\ Contains(q, Head(q))
         /\ \A y : Contains(q, y) <=> Contains(Tail(q), y) \/ y = Head(q)
         /\ IsInjective(q) => IsInjective(Tail(q)) /\ ~Contains(Tail(q), Head(q))
<1> DEFINE z == Tail(q)
           m == Len(q)
           x == Head(q)
<1>1. /\ m \in Nat /\ m # 0 /\ z \in Seq(T) /\ Len(z) = m - 1 /\ x \in T /\ x = q[1]
      /\ \A i \in 1 .. m - 1 : z[i] = q[i + 1]
      /\ DOMAIN q = 1 .. m /\ DOMAIN z = 1 .. m - 1
  OBVIOUS
<1>2. /\ \A y : Contains(q, y) <=> \E i \in 1 .. m : q[i] = y
      /\ \A y : Contains(z, y) <=> \E i \in 1 .. m - 1 : z[i] = y
  BY <1>1 DEF Contains
<1> HIDE DEF z, m, x
<1>3. /\ 1 \in 1 .. m
      /\ \A i \in 1 .. m : i = 1 \/ (i - 1 \in 1 .. m - 1 /\ (i - 1) + 1 = i)
      /\ \A i \in 1 .. m - 1 : i + 1 \in 1 .. m /\ i + 1 # 1
  BY <1>1
<1>4. \A y : Contains(q, y) <=> Contains(z, y) \/ y = x
  <2>1. ASSUME NEW i \in 1 .. m PROVE Contains(z, q[i]) \/ q[i] = x
    <3>1. CASE i = 1
      BY <3>1, <1>1
    <3>2. CASE i # 1
      <4>1. i - 1 \in 1 .. m - 1 /\ (i - 1) + 1 = i
        BY <3>2, <1>3
      <4>2. z[i - 1] = q[i]
        BY <4>1, <1>1
      <4> QED BY <4>1, <4>2, <1>2
    <3> QED BY <3>1, <3>2
  <2>2. ASSUME NEW i \in 1 .. m - 1 PROVE Contains(q, z[i])
    BY <1>1, <1>2, <1>3
  <2> QED BY <2>1, <2>2, <1>1, <1>2, <1>3
<1>5. ASSUME IsInjective(q) PROVE IsInjective(z) /\ ~Contains(z, x)
  <2>1. \A i, j \in 1 .. m : q[i] = q[j] => i = j
    BY <1>1, <1>5 DEF IsInjective
  <2>2. ASSUME NEW i \in 1 .. m - 1, NEW j \in 1 .. m - 1, z[i] = z[j] PROVE i = j
    BY <2>1, <2>2, <1>1, <1>3
  <2>3. ASSUME NEW i \in 1 .. m - 1 PROVE z[i] # x
    BY <2>1, <1>1, <1>3
  <2> QED BY <2>2, <2>3, <1>1, <1>2 DEF IsInjective
<1> QED BY <1>1, <1>2, <1>3, <1>4, <1>5 DEF z, m, x

\* The first occurrence is taken out, of a sequence that holds x once at most.
LEMMA TakenOut ==
  ASSUME NEW T, NEW q \in Seq(T), IsInjective(q), NEW x
  PROVE  LET z == RemoveFirst(q, x)
         IN  /\ z \in Seq(T) /\ IsInjective(z)
             /\ \A y : Contains(z, y) <=> Contains(q, y) /\ y # x
             /\ z # <<>> => q # <<>>
<1> DEFINE z == RemoveFirst(q, x)
           m == Len(q)
<1>1. /\ m \in Nat /\ DOMAIN q = 1 .. m
      /\ \A i \in 1 .. m : q[i] \in T
      /\ \A i, j \in 1 .. m : q[i] = q[j] => i = j
      /\ \A y : Contains(q, y) <=> \E i \in 1 .. m : q[i] = y
  BY DEF IsInjective, Contains
<1>2. CASE ~Contains(q, x)
  <2>1. z = q
    BY <1>1, <1>2 DEF RemoveFirst
  <2> QED BY <2>1, <1>2
<1>3. CASE Contains(q, x)
  <2>1. PICK k \in 1 .. m : q[k] = x
    BY <1>1, <1>3
  <2> DEFINE found == {i \in 1 .. m : q[i] = x}
  <2>2. found = {k}
    BY <2>1, <1>1
  <2>3. Min(found) = k
    <3>1. \E y \in {k} : \A w \in {k} : y =< w
      BY <2>1
    <3>2. Min({k}) \in {k}
      BY <3>1 DEF Min
    <3> QED BY <3>2, <2>2
  <2>4. z = SubSeq(q, 1, k - 1) \o SubSeq(q, k + 1, m)
    <3>1. \E i \in 1 .. Len(q) : q[i] = x
      BY <2>1
    <3>2. found # {}
      BY <2>2
    <3> QED BY <3>1, <3>2, <2>3 DEF RemoveFirst, SelectInSeq, RemoveAt
  <2> HIDE DEF z, m, found
  <2>5. /\ z \in Seq(T) /\ Len(z) = m - 1
        /\ \A i \in 1 .. m - 1 : z[i] = IF i < k THEN q[i] ELSE q[i + 1]
        /\ DOMAIN z = 1 .. m - 1
    <3> DEFINE a == SubSeq(q, 1, k - 1)
               c == SubSeq(q, k + 1, m)
    <3>1. a \in Seq(T) /\ Len(a) = k - 1 /\ \A i \in 1 .. k - 1 : a[i] = q[i]
      BY <2>1 DEF m
    <3>2. c \in Seq(T) /\ Len(c) = m - k /\ \A i \in 1 .. m - k : c[i] = q[k + i]
      BY <2>1 DEF m
    <3>3. z = a \o c
      BY <2>4
    <3> HIDE DEF a, c
    <3>4. z \in Seq(T) /\ Len(z) = m - 1
      <4>1. a \o c \in Seq(T) /\ Len(a \o c) = Len(a) + Len(c)
        BY <3>1, <3>2
      <4>2. (k - 1) + (m - k) = m - 1
        BY <2>1, <1>1
      <4> QED BY <4>1, <4>2, <3>1, <3>2, <3>3
    <3>5. ASSUME NEW i \in 1 .. m - 1 PROVE z[i] = IF i < k THEN q[i] ELSE q[i + 1]
      <4>1. CASE i < k
        BY <4>1, <3>1, <3>2, <3>3, <2>1, <1>1
      <4>2. CASE ~(i < k)
        <5>1. i - (k - 1) \in 1 .. m - k /\ k + (i - (k - 1)) = i + 1
          BY <4>2, <2>1, <1>1
        <5>2. z[i] = c[i - (k - 1)]
          BY <4>2, <3>1, <3>2, <3>3, <2>1, <1>1
        <5> QED BY <5>1, <5>2, <4>2, <3>2
      <4> QED BY <4>1, <4>2
    <3> QED BY <3>4, <3>5
  <2>6. \A y : Contains(z, y) <=> \E i \in 1 .. m - 1 : z[i] = y
    BY <2>5 DEF Contains
  <2> DEFINE old(i) == IF i < k THEN i ELSE i + 1
  <2>7. \A i \in 1 .. m - 1 : old(i) \in 1 .. m /\ old(i) # k /\ z[i] = q[old(i)]
    BY <2>1, <2>5, <1>1
  <2>8. \A i, j \in 1 .. m - 1 : old(i) = old(j) => i = j
    BY <1>1, <2>1
  <2>9. \A j \in 1 .. m : j # k => \E i \in 1 .. m - 1 : old(i) = j
    <3> SUFFICES ASSUME NEW j \in 1 .. m, j # k PROVE \E i \in 1 .. m - 1 : old(i) = j
      OBVIOUS
    <3>1. j < k => j \in 1 .. m - 1 /\ old(j) = j
      BY <1>1, <2>1
    <3>2. ~(j < k) => j - 1 \in 1 .. m - 1 /\ old(j - 1) = j
      BY <1>1, <2>1
    <3> QED BY <3>1, <3>2
  <2> HIDE DEF old
  <2>10. IsInjective(z)
    BY <2>5, <2>7, <2>8, <1>1 DEF IsInjective
  <2>11. ASSUME NEW y PROVE Contains(z, y) <=> Contains(q, y) /\ y # x
    <3>1. ASSUME NEW i \in 1 .. m - 1 PROVE Contains(q, z[i]) /\ z[i] # x
      BY <2>1, <2>7, <1>1
    <3>2. ASSUME NEW j \in 1 .. m, q[j] # x PROVE Contains(z, q[j])
      <4>1. PICK i \in 1 .. m - 1 : old(i) = j
        BY <3>2, <2>1, <2>9
      <4> QED BY <4>1, <2>6, <2>7
    <3> QED BY <3>1, <3>2, <2>6, <1>1
  <2>12. q # <<>>
    BY <2>1 DEF m
  <2> QED BY <2>5, <2>10, <2>11, <2>12 DEF z
<1> QED BY <1>2, <1>3


LEMMA MinOfTwo ==
  ASSUME NEW a \in Nat, NEW b \in Nat
  PROVE  /\ Min({a, b}) \in Nat
         /\ Min({a, b}) <= a /\ Min({a, b}) <= b
         /\ Min({a, b}) = a \/ Min({a, b}) = b
<1>1. \E x \in {a, b} : \A y \in {a, b} : x =< y
  OBVIOUS
<1>2. Min({a, b}) \in {a, b} /\ \A y \in {a, b} : Min({a, b}) =< y
  BY <1>1 DEF Min
<1> QED BY <1>2

\* The first n elements are n, and each element is among them or among the rest.
LEMMA Parted ==
  ASSUME NEW T, NEW w \in Seq(T), IsInjective(w), NEW n \in 0 .. Len(w)
  PROVE  LET h == SubSeq(w, 1, n)
             r == SubSeq(w, n + 1, Len(w))
         IN  /\ Len(h) = n
             /\ r \in Seq(T) /\ Len(r) = Len(w) - n /\ IsInjective(r)
             /\ \A t : Contains(w, t) <=> Contains(h, t) \/ Contains(r, t)
             /\ \A t : ~(Contains(h, t) /\ Contains(r, t))
             /\ IsFiniteSet({t \in T : Contains(h, t)})
             /\ Cardinality({t \in T : Contains(h, t)}) = n
<1> DEFINE h == SubSeq(w, 1, n)
           r == SubSeq(w, n + 1, Len(w))
           m == Len(w)
<1>1. /\ m \in Nat /\ n \in 0 .. m /\ DOMAIN w = 1 .. m
      /\ \A i \in 1 .. m : w[i] \in T
      /\ \A i, j \in 1 .. m : w[i] = w[j] => i = j
  BY DEF IsInjective
<1>2. h \in Seq(T) /\ Len(h) = n /\ \A i \in 1 .. n : h[i] = w[i]
  OBVIOUS
<1>3. r \in Seq(T) /\ Len(r) = m - n /\ \A i \in 1 .. m - n : r[i] = w[n + i]
  OBVIOUS
<1> HIDE DEF h, r, m
<1>4. IsInjective(r)
  <2>1. DOMAIN r = 1 .. m - n
    BY <1>3
  <2> SUFFICES ASSUME NEW i \in 1 .. m - n, NEW j \in 1 .. m - n, r[i] = r[j] PROVE i = j
    BY <2>1 DEF IsInjective
  <2>2. w[n + i] = w[n + j] /\ n + i \in 1 .. m /\ n + j \in 1 .. m
    BY <1>1, <1>3
  <2> QED BY <1>1, <2>2
<1>5. ASSUME NEW t PROVE Contains(w, t) <=> Contains(h, t) \/ Contains(r, t)
  <2>1. ASSUME NEW i \in 1 .. m, w[i] = t PROVE Contains(h, t) \/ Contains(r, t)
    <3>1. CASE i <= n
      <4>1. i \in 1 .. n /\ h[i] = t
        BY <1>1, <1>2, <2>1, <3>1
      <4> QED BY <1>2, <4>1 DEF Contains
    <3>2. CASE ~(i <= n)
      <4>1. i - n \in 1 .. m - n /\ n + (i - n) = i
        BY <1>1, <3>2
      <4>2. r[i - n] = t
        BY <1>3, <2>1, <4>1
      <4> QED BY <1>3, <4>1, <4>2 DEF Contains
    <3> QED BY <3>1, <3>2
  <2>2. ASSUME NEW i \in 1 .. n, h[i] = t PROVE Contains(w, t)
    <3>1. i \in 1 .. m /\ w[i] = t
      BY <1>1, <1>2, <2>2
    <3> QED BY <3>1 DEF Contains, m
  <2>3. ASSUME NEW i \in 1 .. m - n, r[i] = t PROVE Contains(w, t)
    <3>1. n + i \in 1 .. m /\ w[n + i] = t
      BY <1>1, <1>3, <2>3
    <3> QED BY <3>1 DEF Contains, m
  <2> QED BY <2>1, <2>2, <2>3, <1>2, <1>3 DEF Contains, m
<1>6. ASSUME NEW t, Contains(h, t), Contains(r, t) PROVE FALSE
  <2>1. PICK i \in 1 .. n : h[i] = t
    BY <1>6, <1>2 DEF Contains
  <2>2. PICK j \in 1 .. m - n : r[j] = t
    BY <1>6, <1>3 DEF Contains
  <2>3. i \in 1 .. m /\ n + j \in 1 .. m /\ w[i] = w[n + j]
    BY <1>1, <1>2, <1>3, <2>1, <2>2
  <2>4. i = n + j
    BY <1>1, <2>3
  <2> QED BY <1>1, <2>1, <2>2, <2>4
<1>7. IsFiniteSet({t \in T : Contains(h, t)}) /\ Cardinality({t \in T : Contains(h, t)}) = n
  <2> DEFINE S == {t \in T : Contains(h, t)}
             f == [i \in 1 .. n |-> w[i]]
  <2>1. f \in [1 .. n -> S]
    <3> SUFFICES ASSUME NEW i \in 1 .. n PROVE w[i] \in S
      OBVIOUS
    <3>1. w[i] \in T /\ h[i] = w[i]
      BY <1>1, <1>2
    <3> QED BY <1>2, <3>1 DEF Contains
  <2>2. \A i, j \in 1 .. n : f[i] = f[j] => i = j
    BY <1>1
  <2>3. \A t \in S : \E i \in 1 .. n : f[i] = t
    BY <1>2 DEF Contains
  <2> HIDE DEF f, S
  <2>4. f \in Bijection(1 .. n, S)
    BY <2>1, <2>2, <2>3 DEF Bijection, Injection, Surjection, IsInjective
  <2>5. ExistsBijection(1 .. n, S)
    BY <2>4 DEF ExistsBijection
  <2>6. IsFiniteSet(1 .. n) /\ Cardinality(1 .. n) = n
    BY <1>1, FS_Interval
  <2> QED BY <2>5, <2>6, FS_Bijection DEF S
<1> QED BY <1>2, <1>3, <1>4, <1>5, <1>6, <1>7 DEF h, r, m

\* An insertion after the last element.
LEMMA PutLast ==
  ASSUME NEW T, NEW w \in Seq(T), NEW t \in T
  PROVE  InsertAt(w, Len(w) + 1, t) = Append(w, t)
<1>1. ASSUME NEW i \in Nat
      PROVE  InsertAt(w, i, t) = (SubSeq(w, 1, i - 1) \o <<t>>) \o SubSeq(w, i, Len(w))
  BY DEF InsertAt
<1>2. /\ Len(w) + 1 \in Nat
      /\ SubSeq(w, 1, (Len(w) + 1) - 1) = w
      /\ SubSeq(w, Len(w) + 1, Len(w)) = <<>>
  OBVIOUS
<1>3. InsertAt(w, Len(w) + 1, t) = (w \o <<t>>) \o <<>>
  BY <1>1, <1>2
<1>4. (w \o <<t>>) \o <<>> = Append(w, t)
  OBVIOUS
<1> QED BY <1>3, <1>4

-----------------------------------------------------------------------------
(* Elements that are on no list, and lists that are emptied.                *)

LEMMA ClearedOffList ==
  ASSUME NEW N, NEW l, NEW q, NEW s, List(N, l, q, s), NEW e \in N, Absent(e, q, s)
  PROVE  List(N, Queue_elemClear(l, e), q, s)
<1> DEFINE m == Queue_elemClear(l, e)
<1>1. /\ q \in N /\ s \in Seq(N) /\ Len(s) \in Nat
      /\ l \in [next : [N -> N], prev : [N -> N]]
  BY DEF List
<1>2. m \in [next : [N -> N], prev : [N -> N]]
  BY <1>1 DEF Queue_elemClear
<1>3. \A x \in N : x # e => m.next[x] = l.next[x] /\ m.prev[x] = l.prev[x]
  BY <1>1 DEF Queue_elemClear
<1>4. \A i \in 1 .. Len(s) + 2 : Node(q, s, i) \in N /\ Node(q, s, i) # e
  BY <1>1, NodeInjective DEF Node, Absent
<1> HIDE DEF m
<1>5. \A i \in 1 .. Len(s) + 1 : l.next[Node(q, s, i)] = Node(q, s, i + 1) /\ l.prev[Node(q, s, i + 1)] = Node(q, s, i)
  BY <1>1, ListNodes DEF List
<1>6. \A i \in 1 .. Len(s) + 1 : m.next[Node(q, s, i)] = Node(q, s, i + 1) /\ m.prev[Node(q, s, i + 1)] = Node(q, s, i)
  BY <1>1, <1>3, <1>4, <1>5
<1>7. IsQueue(m, q, s)
  BY <1>1, <1>6, ListNodes
<1> QED BY <1>2, <1>7 DEF List, m

\* Queue_remove of an element of the list and Queue_put leave the pointers of
\* all others alone.
LEMMA OffListKept ==
  ASSUME NEW N, NEW l, NEW q, NEW s, List(N, l, q, s), NEW x \in N, Absent(x, q, s)
  PROVE  /\ \A k \in 1 .. Len(s) : LET m == Queue_remove(l, s[k])
                                   IN  m.next[x] = l.next[x] /\ m.prev[x] = l.prev[x]
         /\ \A e \in N : x # e => LET m == Queue_put(l, q, e)
                                  IN  m.next[x] = l.next[x] /\ m.prev[x] = l.prev[x]
<1>1. /\ q \in N /\ s \in Seq(N) /\ Len(s) \in Nat
      /\ l \in [next : [N -> N], prev : [N -> N]]
  BY DEF List
<1>2. \A i \in 1 .. Len(s) + 2 : Node(q, s, i) \in N /\ Node(q, s, i) # x
  BY <1>1, NodeInjective DEF Node, Absent
<1>3. \A i \in 1 .. Len(s) + 1 : l.next[Node(q, s, i)] = Node(q, s, i + 1) /\ l.prev[Node(q, s, i + 1)] = Node(q, s, i)
  BY <1>1, ListNodes DEF List
<1>4. ASSUME NEW k \in 1 .. Len(s)
      PROVE  LET m == Queue_remove(l, s[k]) IN  m.next[x] = l.next[x] /\ m.prev[x] = l.prev[x]
  <2>1. s[k] = Node(q, s, k + 1)
    BY <1>1 DEF Node
  <2>2. l.next[s[k]] = Node(q, s, k + 2) /\ l.prev[s[k]] = Node(q, s, k)
    <3>1. k \in 1 .. Len(s) + 1 /\ k + 1 \in 1 .. Len(s) + 1 /\ (k + 1) + 1 = k + 2
      BY <1>1
    <3> QED BY <3>1, <2>1, <1>3
  <2>3. l.next[s[k]] # x /\ l.prev[s[k]] # x
    BY <2>2, <1>1, <1>2
  <2> QED BY <2>3, <1>1 DEF Queue_remove
<1>5. l.prev[q] # x /\ q # x
  <2>1. Node(q, s, Len(s) + 2) = q
    BY <1>1 DEF Node
  <2>2. l.prev[q] = Node(q, s, Len(s) + 1)
    BY <2>1, <1>1, <1>3
  <2> QED BY <2>1, <2>2, <1>1, <1>2
<1>6. ASSUME NEW e \in N, x # e
      PROVE  LET m == Queue_put(l, q, e) IN  m.next[x] = l.next[x] /\ m.prev[x] = l.prev[x]
  BY <1>1, <1>5, <1>6 DEF Queue_put, Queue_insert
<1> QED BY <1>4, <1>6

\* An element that Queue_elemClear has cleared is not removed from anywhere.
LEMMA ClearedRemoved ==
  ASSUME NEW N, NEW l \in [next : [N -> N], prev : [N -> N]], NEW e \in N, l.next[e] = e, l.prev[e] = e
  PROVE  Queue_remove(l, e) = l
  BY DEF Queue_remove

\* The elements of a list, one of them removed.
LEMMA RemovedElement ==
  ASSUME NEW N, NEW s \in Seq(N), \A i, j \in 1 .. Len(s) : s[i] = s[j] => i = j, NEW k \in 1 .. Len(s)
  PROVE  \A e : Contains(RemoveAt(s, k), e) <=> Contains(s, e) /\ e # s[k]
<1> DEFINE n == Len(s)
           z == RemoveAt(s, k)
<1>1. n \in Nat /\ k \in 1 .. n
  OBVIOUS
<1>2. Len(z) = n - 1 /\ \A i \in 1 .. n - 1 : z[i] = IF i < k THEN s[i] ELSE s[i + 1]
  BY RemovedSequence
<1> HIDE DEF z, n
<1>3. ASSUME NEW i \in 1 .. n - 1 PROVE \E j \in 1 .. n : z[i] = s[j] /\ j # k
  <2>1. CASE i < k
    BY <2>1, <1>1, <1>2
  <2>2. CASE ~(i < k)
    <3>1. i + 1 \in 1 .. n /\ i + 1 # k /\ z[i] = s[i + 1]
      BY <2>2, <1>1, <1>2
    <3> QED BY <3>1
  <2> QED BY <2>1, <2>2
<1>4. ASSUME NEW j \in 1 .. n, j # k PROVE \E i \in 1 .. n - 1 : z[i] = s[j]
  <2>1. CASE j < k
    <3>1. j \in 1 .. n - 1 /\ z[j] = s[j]
      BY <2>1, <1>1, <1>2
    <3> QED BY <3>1
  <2>2. CASE j > k
    <3>1. j - 1 \in 1 .. n - 1 /\ ~(j - 1 < k) /\ (j - 1) + 1 = j
      BY <2>2, <1>1
    <3> QED BY <3>1, <1>2
  <2> QED BY <2>1, <2>2, <1>1, <1>4
<1>5. \A e : Contains(z, e) <=> \E j \in 1 .. n : s[j] = e /\ j # k
  BY <1>2, <1>3, <1>4 DEF Contains
<1>6. \A j \in 1 .. n : j # k <=> s[j] # s[k]
  BY <1>1 DEF n
<1>7. \A e : Contains(s, e) <=> \E j \in 1 .. n : s[j] = e
  BY DEF Contains, n
<1> QED BY <1>5, <1>6, <1>7 DEF z

\* Dequeuing as many elements as there are leaves the list empty
\* (pthread_cond_broadcast's loop).
LEMMA AllDequeued ==
  ASSUME NEW N, NEW l, NEW q, NEW s, List(N, l, q, s)
  PROVE  LET f[n \in 0 .. Len(s)] == IF n = 0 THEN l ELSE Queue_dequeue(f[n - 1], q)
         IN  List(N, f[Len(s)], q, <<>>)
<1> DEFINE m == Len(s)
           R(i) == Node(q, s, i)
           g == [n \in 0 .. m |->
                   [next |-> [x \in N |-> IF x = q THEN R(n + 2) ELSE l.next[x]],
                    prev |-> [x \in N |-> IF \E j \in 1 .. n : x = R(j + 2) THEN q ELSE l.prev[x]]]]
           Body(h, n) == IF n = 0 THEN l ELSE Queue_dequeue(h[n - 1], q)
           f == CHOOSE h : h = [n \in 0 .. m |-> Body(h, n)]
           rest(n) == SubSeq(s, n + 1, m)
<1>1. /\ q \in N /\ s \in Seq(N) /\ m \in Nat
      /\ l \in [next : [N -> N], prev : [N -> N]]
      /\ \A i \in 1 .. m : s[i] # q
      /\ \A i, j \in 1 .. m : s[i] = s[j] => i = j
  BY DEF List
<1>2. /\ \A i \in 1 .. m + 2 : R(i) \in N
      /\ \A i \in 1 .. m + 1 : l.next[R(i)] = R(i + 1) /\ l.prev[R(i + 1)] = R(i)
      /\ R(1) = q /\ R(m + 2) = q /\ \A i \in 2 .. m + 1 : R(i) # q
  <2>1. /\ \A i \in 1 .. m + 2 : R(i) \in N
        /\ R(1) = q /\ R(m + 2) = q /\ \A i \in 2 .. m + 1 : R(i) # q
    BY <1>1 DEF Node
  <2>2. IsQueue(l, q, s)
    BY DEF List
  <2>3. \A i \in 1 .. m + 1 : l.next[R(i)] = R(i + 1) /\ l.prev[R(i + 1)] = R(i)
    BY <2>2, <1>1, ListNodes
  <2> QED BY <2>1, <2>3
<1> HIDE DEF m, R
<1>3. \A n \in 0 .. m : g[n] = Body(g, n)
  <2>1. g[0] = l
    <3>1. l.next[q] = R(2)
      BY <1>1, <1>2
    <3>2. [x \in N |-> IF x = q THEN R(0 + 2) ELSE l.next[x]] = l.next
      BY <3>1, <1>1
    <3>3. [x \in N |-> IF \E j \in 1 .. 0 : x = R(j + 2) THEN q ELSE l.prev[x]] = l.prev
      BY <1>1
    <3>4. l = [next |-> l.next, prev |-> l.prev]
      BY <1>1
    <3> QED BY <3>2, <3>3, <3>4, <1>1
  <2>2. ASSUME NEW n \in 1 .. m PROVE g[n] = Queue_dequeue(g[n - 1], q)
    <3> DEFINE b == g[n - 1]
               r == b.next[b.next[q]]
    <3>1. /\ b.next = [x \in N |-> IF x = q THEN R(n + 1) ELSE l.next[x]]
          /\ b.prev = [x \in N |-> IF \E j \in 1 .. n - 1 : x = R(j + 2) THEN q ELSE l.prev[x]]
      <4>1. n - 1 \in 0 .. m /\ (n - 1) + 2 = n + 1
        BY <1>1
      <4> QED BY <4>1
    <3>2. b.next[q] = R(n + 1) /\ r = R(n + 2)
      <4>1. n + 1 \in 2 .. m + 1 /\ n + 1 \in 1 .. m + 2 /\ (n + 1) + 1 = n + 2
        BY <1>1
      <4> HIDE DEF b
      <4> QED BY <3>1, <4>1, <1>1, <1>2
    <3>3. Queue_dequeue(b, q) = [next |-> [b.next EXCEPT ![q] = R(n + 2)],
                                 prev |-> [b.prev EXCEPT ![R(n + 2)] = q]]
      BY <3>2, Zenon DEF Queue_dequeue
    <3>4. [b.next EXCEPT ![q] = R(n + 2)] = [x \in N |-> IF x = q THEN R(n + 2) ELSE l.next[x]]
      <4> HIDE DEF b
      <4> QED BY <3>1, <1>1
    <3>5. [b.prev EXCEPT ![R(n + 2)] = q]
            = [x \in N |-> IF \E j \in 1 .. n : x = R(j + 2) THEN q ELSE l.prev[x]]
      <4>1. R(n + 2) \in N
        BY <1>1, <1>2
      <4>2. ASSUME NEW x PROVE (\E j \in 1 .. n : x = R(j + 2)) <=> x = R(n + 2) \/ \E j \in 1 .. n - 1 : x = R(j + 2)
        <5>1. \A j \in 1 .. n : j = n \/ j \in 1 .. n - 1
          BY <1>1
        <5>2. n \in 1 .. n /\ \A j \in 1 .. n - 1 : j \in 1 .. n
          BY <1>1
        <5> QED BY <5>1, <5>2
      <4> HIDE DEF b
      <4> QED BY <4>1, <4>2, <3>1
    <3>6. g[n] = [next |-> [x \in N |-> IF x = q THEN R(n + 2) ELSE l.next[x]],
                  prev |-> [x \in N |-> IF \E j \in 1 .. n : x = R(j + 2) THEN q ELSE l.prev[x]]]
      <4>1. n \in 0 .. m
        BY <1>1
      <4> QED BY <4>1
    <3> HIDE DEF g
    <3> QED BY <3>3, <3>4, <3>5, <3>6
  <2> HIDE DEF g
  <2> QED BY <2>1, <2>2, <1>1
<1>4. g = [n \in 0 .. m |-> Body(g, n)]
  <2>1. g = [n \in 0 .. m |-> g[n]]
    OBVIOUS
  <2> HIDE DEF g, Body
  <2> QED BY <2>1, <1>3
<1>5. f = [n \in 0 .. m |-> Body(f, n)]
  <2> HIDE DEF Body, g
  <2> QED BY <1>4
<1> HIDE DEF f, g
<1>6. \A n \in 0 .. m : List(N, f[n], q, rest(n))
  <2> DEFINE bad == {n \in 0 .. m : ~List(N, f[n], q, rest(n))}
  <2>1. SUFFICES ASSUME bad # {} PROVE FALSE
    OBVIOUS
  <2>2. bad \in SUBSET Nat
    OBVIOUS
  <2>3. PICK n \in bad : \A k \in bad : n <= k
    <3> HIDE DEF bad
    <3> QED BY <2>1, <2>2, LeastNumber
  <2>4. n \in 0 .. m /\ ~List(N, f[n], q, rest(n))
    OBVIOUS
  <2>5. n # 0
    <3>1. rest(0) = s
      BY <1>1 DEF m
    <3>2. f[0] = l
      BY <1>5, <1>1
    <3> QED BY <3>1, <3>2, <2>4
  <2>6. List(N, f[n - 1], q, rest(n - 1))
    <3>1. n - 1 \in 0 .. m /\ ~(n <= n - 1)
      BY <2>4, <2>5, <1>1
    <3> HIDE DEF rest
    <3> QED BY <3>1, <2>3
  <2>7. f[n] = Queue_dequeue(f[n - 1], q)
    BY <1>5, <2>4, <2>5
  <2>8. /\ rest(n - 1) # <<>> /\ rest(n - 1) \in Seq(N) /\ Len(rest(n - 1)) = (m - n) + 1
        /\ RemoveAt(rest(n - 1), 1) = rest(n)
    <3>1. (n - 1) + 1 = n /\ n \in 1 .. m
      BY <2>4, <2>5, <1>1
    <3>2. rest(n - 1) = SubSeq(s, n, m)
      BY <3>1
    <3> DEFINE w == SubSeq(s, n, m)
    <3>3. w \in Seq(N) /\ Len(w) = (m - n) + 1 /\ w # <<>>
      <4>1. w \in Seq(N) /\ Len(w) = (m - n) + 1
        BY <3>1, <1>1 DEF m
      <4> HIDE DEF w
      <4> QED BY <4>1, <3>1, <1>1
    <3>4. \A i \in 1 .. (m - n) + 1 : w[i] = s[(n - 1) + i]
      BY <3>1, <1>1 DEF m
    <3>5. /\ rest(n) \in Seq(N) /\ Len(rest(n)) = m - n
          /\ \A i \in 1 .. m - n : rest(n)[i] = s[n + i]
      BY <3>1, <1>1 DEF m
    <3> HIDE DEF w, rest
    <3>6. /\ RemoveAt(w, 1) \in Seq(N) /\ Len(RemoveAt(w, 1)) = m - n
          /\ \A i \in 1 .. m - n : RemoveAt(w, 1)[i] = w[i + 1]
      <4>1. 1 \in 1 .. Len(w) /\ Len(w) - 1 = m - n
        BY <3>1, <3>3, <1>1
      <4>2. /\ RemoveAt(w, 1) \in Seq(N) /\ Len(RemoveAt(w, 1)) = Len(w) - 1
            /\ \A i \in 1 .. Len(w) - 1 : RemoveAt(w, 1)[i] = IF i < 1 THEN w[i] ELSE w[i + 1]
        BY <3>3, <4>1, RemovedSequence
      <4>3. \A i \in 1 .. m - n : i \in 1 .. Len(w) - 1 /\ ~(i < 1)
        BY <4>1, <3>1, <1>1
      <4>4. \A i \in 1 .. m - n : RemoveAt(w, 1)[i] = w[i + 1]
        BY <4>2, <4>3
      <4> QED BY <4>1, <4>2, <4>4
    <3>7. \A i \in 1 .. m - n : RemoveAt(w, 1)[i] = rest(n)[i]
      <4> SUFFICES ASSUME NEW i \in 1 .. m - n PROVE RemoveAt(w, 1)[i] = rest(n)[i]
        OBVIOUS
      <4>1. i + 1 \in 1 .. (m - n) + 1 /\ (n - 1) + (i + 1) = n + i
        BY <3>1, <1>1
      <4> QED BY <4>1, <3>4, <3>5, <3>6
    <3>8. RemoveAt(w, 1) = rest(n)
      BY <3>5, <3>6, <3>7
    <3> QED BY <3>2, <3>3, <3>8 DEF w
  <2> HIDE DEF rest, bad
  <2>9. Queue_dequeue(f[n - 1], q) = Queue_remove(f[n - 1], rest(n - 1)[1])
    BY <2>6, <2>8, EndsOfList
  <2>10. List(N, Queue_remove(f[n - 1], rest(n - 1)[1]), q, RemoveAt(rest(n - 1), 1))
    <3>1. 1 \in 1 .. Len(rest(n - 1))
      BY <2>4, <2>8, <1>1
    <3> QED BY <3>1, <2>6, RemoveKeepsList
  <2> QED BY <2>4, <2>7, <2>8, <2>9, <2>10
<1>7. rest(m) = <<>>
  BY <1>1 DEF m
<1>8. List(N, f[m], q, <<>>)
  <2> HIDE DEF rest
  <2> QED BY <1>6, <1>7, <1>1
<1> QED BY <1>8 DEF f, m

\* Numbers that are bounded have a greatest one.
LEMMA Greatest ==
  ASSUME NEW K \in Nat, NEW S \in SUBSET (0 .. K), S # {}
  PROVE  Max(S) \in S /\ \A y \in S : Max(S) >= y
<1> DEFINE T == {K - y : y \in S}
<1>0. \A y \in S : y \in 0 .. K /\ K - y \in Nat
  BY \A y \in 0 .. K : K - y \in Nat
<1>1. T \in SUBSET Nat /\ T # {}
  BY <1>0
<1>2. PICK n \in T : \A m \in T : n <= m
  <2> HIDE DEF T
  <2> QED BY <1>1, LeastNumber
<1>3. PICK x \in S : n = K - x
  OBVIOUS
<1>4. ASSUME NEW y \in S PROVE x >= y
  <2>1. K - x <= K - y
    BY <1>2, <1>3
  <2> HIDE DEF T
  <2> QED BY <2>1, <1>0
<1>5. \E z \in S : \A y \in S : z >= y
  BY <1>4
<1> QED BY <1>5 DEF Max

\* A function that is computed from number to number, and whose values stay in a set.
LEMMA StaysIn ==
  ASSUME NEW N \in Nat, NEW S, NEW f, f[0] \in S,
         \A n \in 1 .. N : f[n - 1] \in S => f[n] \in S
  PROVE  \A n \in 0 .. N : f[n] \in S
<1> DEFINE bad == {n \in 0 .. N : f[n] \notin S}
<1>1. SUFFICES ASSUME bad # {} PROVE FALSE
  OBVIOUS
<1>2. bad \in SUBSET Nat
  OBVIOUS
<1>3. PICK n \in bad : \A m \in bad : n <= m
  <2> HIDE DEF bad
  <2> QED BY <1>1, <1>2, LeastNumber
<1>4. n # 0 /\ n \in 1 .. N
  OBVIOUS
<1>5. f[n - 1] \in S
  BY <1>3, <1>4
<1> QED BY <1>4, <1>5

\* The function h starts with b and goes on by g.
Turns(N, S) == [1 .. N -> [S -> S]]

Iterates(h, N, S, b, g) == h \in [0 .. N -> S] /\ h[0] = b /\ \A n \in 1 .. N : h[n] = g[n][h[n - 1]]

\* There is such a function.
LEMMA Iterated ==
  ASSUME NEW N \in Nat, NEW S, NEW b \in S, NEW g \in Turns(N, S)
  PROVE  \E h : Iterates(h, N, S, b, g)
<1> DEFINE Good(k, h) == h \in [0 .. k -> S] /\ h[0] = b /\ \A n \in 1 .. k : h[n] = g[n][h[n - 1]]
           bad == {k \in 0 .. N : ~\E h : Good(k, h)}
<1>1. ASSUME bad # {} PROVE FALSE
  <2>1. bad \in SUBSET Nat
    OBVIOUS
  <2>2. PICK k \in bad : \A m \in bad : k <= m
    <3> HIDE DEF bad
    <3> QED BY <1>1, <2>1, LeastNumber
  <2>3. k \in 0 .. N /\ ~\E h : Good(k, h)
    OBVIOUS
  <2>4. CASE k = 0
    <3> DEFINE h == [n \in 0 .. 0 |-> b]
    <3>1. h \in [0 .. 0 -> S] /\ h[0] = b
      OBVIOUS
    <3>2. Good(0, h)
      <4> HIDE DEF h
      <4> QED BY <3>1
    <3> HIDE DEF h, Good
    <3> QED BY <2>3, <2>4, <3>2
  <2>5. CASE k # 0
    <3>1. k - 1 \in 0 .. N /\ k \in 1 .. N /\ k - 1 \notin bad
      <4> HIDE DEF bad
      <4> QED BY <2>2, <2>3, <2>5
    <3>2. PICK h : Good(k - 1, h)
      <4> HIDE DEF Good
      <4> QED BY <3>1
    <3> DEFINE z == [n \in 0 .. k |-> IF n = k THEN g[k][h[k - 1]] ELSE h[n]]
    <3>3. h \in [0 .. k - 1 -> S] /\ h[0] = b /\ \A n \in 1 .. k - 1 : h[n] = g[n][h[n - 1]]
      BY <3>2
    <3>4. h[k - 1] \in S /\ g[k][h[k - 1]] \in S
      <4>1. k - 1 \in 0 .. k - 1
        BY <3>1
      <4>2. g[k] \in [S -> S]
        BY <3>1 DEF Turns
      <4> HIDE DEF Good, bad
      <4> QED BY <3>3, <4>1, <4>2
    <3>5. \A n \in 0 .. k : n = k \/ n \in 0 .. k - 1
      BY <3>1
    <3>6. z \in [0 .. k -> S]
      <4> HIDE DEF Good, bad
      <4> QED BY <3>3, <3>4, <3>5
    <3>7. z[0] = b /\ z[k] = g[k][h[k - 1]] /\ \A n \in 0 .. k - 1 : z[n] = h[n]
      <4> HIDE DEF Good, bad
      <4> QED BY <3>1, <3>3
    <3>8. ASSUME NEW n \in 1 .. k PROVE z[n] = g[n][z[n - 1]]
      <4> HIDE DEF Good, bad, z
      <4>1. n - 1 \in 0 .. k - 1
        BY <3>1
      <4>2. CASE n = k
        BY <4>1, <4>2, <3>7
      <4>3. CASE n # k
        <5>1. n \in 1 .. k - 1 /\ n \in 0 .. k - 1
          BY <4>3, <3>1
        <5> QED BY <5>1, <4>1, <3>3, <3>7
      <4> QED BY <4>2, <4>3
    <3>9. Good(k, z)
      <4> HIDE DEF bad, z
      <4> QED BY <3>6, <3>7, <3>8
    <3> HIDE DEF Good, z
    <3> QED BY <3>9, <2>3
  <2> QED BY <2>4, <2>5
<1>2. N \notin bad
  <2> HIDE DEF bad
  <2> QED BY <1>1
<1>3. \E h : Good(N, h)
  <2> HIDE DEF Good
  <2> QED BY <1>2
<1> QED BY <1>3 DEF Iterates

=============================================================================
