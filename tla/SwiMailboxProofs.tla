-------------------------- MODULE SwiMailboxProofs --------------------------
(***************************************************************************)
(* Two parts that do not depend on each other.                             *)
(*                                                                         *)
(* Swi.c keeps its ready lists, its lock and its gates, for any Swis, any  *)
(* priorities and any nesting of interrupts, and implements SwiSpec.       *)
(*                                                                         *)
(* Blocks and tokens of a mailbox, for any tasks, blocks and messages, and *)
(* the bounded buffer it implements.                                       *)
(***************************************************************************)
EXTENDS Swi, Mailbox, QueueProofs

-----------------------------------------------------------------------------
(* The inductive invariant.                                                *)

\* The parts of ReadyListsOK.
ListsOK ==
  \A p \in Pri :
    /\ Elements(p) \in Seq(Swis)
    /\ IsQueue(link, p, Elements(p))
    /\ \A i, j \in DOMAIN Elements(p) : Elements(p)[i] = Elements(p)[j] => i = j
    /\ \A s \in Swis : (\E i \in DOMAIN Elements(p) : Elements(p)[i] = s) <=> posted[s] /\ pri[s] = p
    /\ p \in curSet <=> Elements(p) # <<>>

\* The state of the Swis.
SwisTyped ==
  /\ link \in [next : [Nodes -> Nodes], prev : [Nodes -> Nodes]]
  /\ curSet \subseteq Pri
  /\ pri \in [Swis -> Pri] /\ posted \in [Swis -> BOOLEAN]
  /\ trigger \in [Swis -> Triggers] /\ initTrigger \in [Swis -> Triggers]

\* The gates in h, and among them the first GateAll, whose key is FALSE; and
\* whether GateSwi was entered before that one.
Outer       == [gate |-> "all", key |-> FALSE]
SwiIn(h)    == \E i \in DOMAIN h : h[i].gate \in {"swi", "all"}
OuterIn(h)  == \E i \in DOMAIN h : h[i] = Outer
OuterKey(h) == \E i \in DOMAIN h : h[i] = Outer /\ SwiIn(SubSeq(h, 1, i - 1))
Entered(f)  == \E i \in DOMAIN Gates(f) : f.held[i] = Outer

\* The keys say what was entered before; level is pri.
EntryOK(h, e, thread, level) ==
  /\ e.gate = "swi" => thread # Hwi /\ (e.key <=> SwiIn(h))
  /\ e.gate = "all" => (e.key <=> OuterIn(h))
  /\ e.gate = "hwi" /\ OuterIn(h) => ~e.key
  /\ e.gate = "pri" => thread \in Swis /\ e.key = level[thread]

HeldOK(h, thread, level) == \A i \in DOMAIN h : EntryOK(SubSeq(h, 1, i - 1), h[i], thread, level)

\* A thread at each place of its calls.
FrameOK(f, level) ==
  /\ HeldOK(f.held, f.thread, level)
  /\ f.thread = Hwi => f.pc \in {"run", "post", "loop", "window", "leaving"}
  /\ f.pc = "window" => f.thread = Hwi
  /\ f.thread = Hwi /\ f.pc \in {"loop", "window"} => ~f.key /\ f.held = <<>>
  /\ f.pc \in {"disable", "lowering"} => (f.key <=> SwiIn(f.held))
  /\ f.pc = "lowering" => Holds(f, "pri")
  /\ f.pc = "lowered" => Holds(f, "swi")
  /\ f.pc = "leaving" => f.held # <<>> /\ Last(f.held) = Outer
  /\ f.pc \in {"schedule", "loop"} => ~HoldsSwi(f)
  /\ f.pc = "post" => f.on \in Swis

\* A thread started on top of another.
OnTop(f, g) ==
  /\ f.pc = "loop" <=> g.thread \in Swis
  /\ ~Entered(f)
  /\ g.thread = Hwi => (g.key <=> Locks(f))

ThreadsOK(threads, level) ==
  /\ \A i \in DOMAIN threads : FrameOK(threads[i], level) /\ (threads[i].thread = Task <=> i = 1)
  /\ \A i \in 1 .. Len(threads) - 1 : OnTop(threads[i], threads[i + 1])
  /\ \A i, j \in DOMAIN threads : i < j /\ HoldsSwi(threads[i]) => threads[j].thread \notin Swis

\* The thread that runs.
TopOK ==
  /\ stack # <<>> /\ Top.pc # "loop"
  /\ locked <=> Locks(Top)
  /\ all.entered <=> Entered(Top)
  /\ all.entered => ~Top.intr /\ (all.swiKey <=> Top.thread = Hwi \/ OuterKey(Top.held))

\* curSwi and curQ, now and as they were saved, are those of the last Swi that
\* started, whose level may have been raised.
IsCurrent(frames, swi, q, level) ==
  frames # <<>> => swi = Last(frames).thread /\ level[Last(frames).thread] <= q

SavedOK(frames, level) ==
  \A i \in 1 .. Len(frames) - 1 : /\ frames[i + 1].saved.curSwi = frames[i].thread
                                  /\ level[frames[i].thread] <= frames[i + 1].saved.curQ

CurOK == IsCurrent(StartedSwis(stack), curSwi, curQ, pri) /\ SavedOK(StartedSwis(stack), pri)

IInv == TypeOK /\ ListsOK /\ ThreadsOK(stack, pri) /\ TopOK /\ CurOK /\ NoneAbove

-----------------------------------------------------------------------------
(* The ready lists.                                                        *)

LEMMA NodesAre == Pri \subseteq Nodes /\ Swis \subseteq Nodes /\ Pri \cap Swis = {}
  BY SwiAssumption DEF Nodes

\* A list of Swis that holds each once is no longer than Walk looks.
LEMMA ShortLists ==
  ASSUME NEW z \in Seq(Swis), \A i, j \in DOMAIN z : z[i] = z[j] => i = j
  PROVE  Len(z) <= Cardinality(Swis) /\ Cardinality(Swis) \in Nat
<1>1. z \in Injection(1 .. Len(z), Swis) /\ Len(z) \in Nat
  BY DEF Injection, IsInjective
<1>2. Cardinality(1 .. Len(z)) = Len(z)
  <2>1. 1 \in Int /\ Len(z) \in Int
    BY <1>1
  <2>2. Cardinality(1 .. Len(z)) = IF 1 > Len(z) THEN 0 ELSE (Len(z) - 1) + 1
    BY <2>1, FS_Interval
  <2> QED BY <2>2, <1>1
<1> QED BY <1>1, <1>2, SwiAssumption, FS_Injection, FS_CardinalityType

\* ListsOK is about lists in the sense of QueueProofs.
LEMMA AreLists ==
  ASSUME SwisTyped, ListsOK, NEW p \in Pri
  PROVE  List(Nodes, link, p, Elements(p))
<1>1. Elements(p) \in Seq(Swis) /\ Elements(p) \in Seq(Nodes) /\ p \in Nodes
  BY NodesAre DEF ListsOK
<1>2. \A i \in 1 .. Len(Elements(p)) : Elements(p)[i] # p
  BY <1>1, NodesAre
<1> QED BY <1>1, <1>2 DEF List, ListsOK, SwisTyped

\* What the lists are, Walk finds.
LEMMA ListsFound ==
  ASSUME NEW l, NEW p \in Pri, NEW z \in Seq(Swis), List(Nodes, l, p, z)
  PROVE  Walk(l, p, Cardinality(Swis)) = z
<1>1. \A i, j \in DOMAIN z : z[i] = z[j] => i = j
  BY DEF List
<1> QED BY <1>1, ShortLists, Walked

\* The lists of two priorities have no node in common.
LEMMA ListsApart ==
  ASSUME SwisTyped, ListsOK, NEW p \in Pri, NEW r \in Pri, p # r
  PROVE  \A i \in 1 .. Len(Elements(p)) + 2, j \in 1 .. Len(Elements(r)) + 2 :
           Node(p, Elements(p), i) # Node(r, Elements(r), j)
<1> DEFINE P == Elements(p)
           R == Elements(r)
<1>1. P \in Seq(Swis) /\ R \in Seq(Swis)
  BY DEF ListsOK
<1>2. \A i \in DOMAIN P, j \in DOMAIN R : P[i] # R[j]
  <2> SUFFICES ASSUME NEW i \in DOMAIN P, NEW j \in DOMAIN R, P[i] = R[j] PROVE FALSE
    OBVIOUS
  <2>1. P[i] \in Swis
    BY <1>1
  <2>2. pri[P[i]] = p
    BY <2>1 DEF ListsOK
  <2>3. pri[P[i]] = r
    BY <2>1 DEF ListsOK
  <2> QED BY <2>2, <2>3
<1>3. \A i \in 1 .. Len(P) + 2 : Node(p, P, i) = p \/ \E k \in DOMAIN P : Node(p, P, i) = P[k]
  BY <1>1 DEF Node
<1>4. \A j \in 1 .. Len(R) + 2 : Node(r, R, j) = r \/ \E k \in DOMAIN R : Node(r, R, j) = R[k]
  BY <1>1 DEF Node
<1>5. (\A i \in DOMAIN P : P[i] \in Swis) /\ \A j \in DOMAIN R : R[j] \in Swis
  BY <1>1
<1>6. p \notin Swis /\ r \notin Swis
  BY NodesAre
<1> HIDE DEF P, R
<1>7. \A i \in 1 .. Len(P) + 2, j \in 1 .. Len(R) + 2 : Node(p, P, i) # Node(r, R, j)
  BY <1>2, <1>3, <1>4, <1>5, <1>6
<1> QED BY <1>7 DEF P, R

\* What is on no list is apart from all.
LEMMA NotPosted ==
  ASSUME SwisTyped, ListsOK, NEW s \in Swis, ~posted[s], NEW p \in Pri
  PROVE  Absent(s, p, Elements(p))
<1>1. \A i \in DOMAIN Elements(p) : Elements(p)[i] # s
  BY DEF ListsOK
<1>2. s # p /\ DOMAIN Elements(p) = 1 .. Len(Elements(p))
  BY NodesAre DEF ListsOK
<1> QED BY <1>1, <1>2 DEF Absent

\* New lists, one of which has changed.
LEMMA ListsChange ==
  ASSUME SwisTyped, ListsOK, link' \in [next : [Nodes -> Nodes], prev : [Nodes -> Nodes]],
         NEW p \in Pri, NEW z \in Seq(Swis),
         List(Nodes, link', p, z),
         \A r \in Pri \ {p} : List(Nodes, link', r, Elements(r))
  PROVE  \A r \in Pri : /\ Elements(r)' = IF r = p THEN z ELSE Elements(r)
                        /\ List(Nodes, link', r, Elements(r)')
<1> SUFFICES ASSUME NEW r \in Pri
             PROVE  /\ Elements(r)' = IF r = p THEN z ELSE Elements(r)
                    /\ List(Nodes, link', r, Elements(r)')
  OBVIOUS
<1>1. Elements(r)' = Walk(link', r, Cardinality(Swis))
  BY DEF Elements
<1>2. CASE r = p
  BY <1>1, <1>2, ListsFound
<1>3. CASE r # p
  <2>1. Elements(r) \in Seq(Swis) /\ List(Nodes, link', r, Elements(r))
    BY <1>3 DEF ListsOK
  <2> QED BY <2>1, <1>1, <1>3, ListsFound
<1> QED BY <1>2, <1>3

\* Swi_post puts s at the end of its list.
LEMMA ListPut ==
  ASSUME SwisTyped, ListsOK, NEW s \in Swis, ~posted[s],
         posted' = [posted EXCEPT ![s] = TRUE],
         link' = Queue_put(link, pri[s], s),
         curSet' = curSet \cup {pri[s]}, UNCHANGED <<pri, trigger, initTrigger>>
  PROVE  /\ SwisTyped' /\ ListsOK'
         /\ \A r \in Pri : Elements(r)' = IF r = pri[s] THEN Append(Elements(r), s) ELSE Elements(r)
<1> DEFINE p == pri[s]
           w == Elements(p)
           z == Append(w, s)
<1>1. p \in Pri /\ w \in Seq(Swis) /\ s \in Nodes /\ w \in Seq(Nodes) /\ Len(w) \in Nat
  BY NodesAre DEF SwisTyped, ListsOK
<1>2. List(Nodes, link, p, w)
  BY <1>1, AreLists
<1>3. \A r \in Pri : Absent(s, r, Elements(r))
  BY NotPosted
<1>4. link' = Queue_insert(link, Node(p, w, Len(w) + 2), s)
  BY <1>1, <1>2, <1>3, EndsOfList
<1>5. List(Nodes, link', p, z)
  <2>1. Len(w) + 1 \in 1 .. Len(w) + 1 /\ (Len(w) + 1) + 1 = Len(w) + 2
    BY <1>1
  <2>2. List(Nodes, Queue_insert(link, Node(p, w, (Len(w) + 1) + 1), s), p, InsertAt(w, Len(w) + 1, s))
    BY <1>1, <1>2, <1>3, <2>1, InsertKeepsList
  <2>3. InsertAt(w, Len(w) + 1, s) = z
    BY <1>1, PutLast
  <2> HIDE DEF w, z
  <2> QED BY <2>1, <2>2, <2>3, <1>4
<1>6. \A r \in Pri \ {p} : List(Nodes, link', r, Elements(r))
  <2> SUFFICES ASSUME NEW r \in Pri, r # p PROVE List(Nodes, link', r, Elements(r))
    OBVIOUS
  <2>1. Len(w) + 1 \in 1 .. Len(w) + 1 /\ (Len(w) + 1) + 1 = Len(w) + 2
    BY <1>1
  <2>2. List(Nodes, link, r, Elements(r))
    BY AreLists
  <2>3. \A i \in 1 .. Len(w) + 2, j \in 1 .. Len(Elements(r)) + 2 : Node(p, w, i) # Node(r, Elements(r), j)
    BY <1>1, <2>2, ListsApart
  <2> HIDE DEF w
  <2>4. List(Nodes, Queue_insert(link, Node(p, w, (Len(w) + 1) + 1), s), r, Elements(r))
    BY <1>1, <1>2, <1>3, <2>1, <2>2, <2>3, OtherListsKept
  <2> QED BY <2>1, <2>4, <1>4
<1>7. z \in Seq(Swis) /\ \A i \in 1 .. Len(w) : z[i] = w[i]
  BY <1>1
<1>8. SwisTyped'
  BY <1>1, <1>5 DEF SwisTyped, List
<1>9. \A r \in Pri : /\ Elements(r)' = IF r = p THEN z ELSE Elements(r)
                     /\ List(Nodes, link', r, Elements(r)')
  <2>1. link' \in [next : [Nodes -> Nodes], prev : [Nodes -> Nodes]]
    BY <1>8 DEF SwisTyped
  <2> HIDE DEF w, z
  <2> QED BY <2>1, <1>1, <1>5, <1>6, <1>7, ListsChange
<1>10. ASSUME NEW r \in Pri
       PROVE  /\ Elements(r)' \in Seq(Swis)
              /\ \A t \in Swis : (\E i \in DOMAIN Elements(r)' : Elements(r)'[i] = t) <=> posted'[t] /\ pri'[t] = r
              /\ r \in curSet' <=> Elements(r)' # <<>>
  <2>1. CASE r = p
    <3>1. Elements(r)' = z
      BY <1>9, <2>1
    <3>2. DOMAIN z = 1 .. Len(w) + 1 /\ DOMAIN w = 1 .. Len(w) /\ z[Len(w) + 1] = s /\ z # <<>>
      BY <1>1
    <3>3. \A t \in Swis : (\E i \in DOMAIN w : w[i] = t) <=> posted[t] /\ pri[t] = p
      BY <1>1 DEF ListsOK
    <3>4. \A t \in Swis : (\E i \in DOMAIN z : z[i] = t) <=> (t = s \/ \E i \in DOMAIN w : w[i] = t)
      <4> HIDE DEF w, z
      <4> QED BY <3>2, <1>7, <1>1
    <3>5. \A t \in Swis : posted'[t] <=> t = s \/ posted[t]
      BY DEF SwisTyped
    <3>6. r \in curSet'
      BY <2>1
    <3> HIDE DEF w, z
    <3>7. \A t \in Swis : (\E i \in DOMAIN z : z[i] = t) <=> posted'[t] /\ pri'[t] = r
      BY <3>3, <3>4, <3>5, <2>1 DEF p
    <3> QED BY <3>1, <3>2, <3>6, <3>7, <1>7
  <2>2. CASE r # p
    <3>1. Elements(r)' = Elements(r)
      BY <1>9, <2>2
    <3>2. \A t \in Swis : pri'[t] = r => (posted'[t] <=> posted[t])
      BY <2>2 DEF SwisTyped
    <3>3. r \in curSet' <=> r \in curSet
      BY <2>2
    <3> QED BY <3>1, <3>2, <3>3 DEF ListsOK
  <2> QED BY <2>1, <2>2
<1>11. ListsOK'
  BY <1>9, <1>10 DEF ListsOK, List
<1> QED BY <1>8, <1>9, <1>11 DEF z

\* Swi_runLoop takes the first Swi off the highest list.
LEMMA ListTaken ==
  ASSUME SwisTyped, ListsOK, NEW q \in Pri, Queue_head(link, q) \in Swis,
         posted' = [posted EXCEPT ![Queue_head(link, q)] = FALSE],
         link' = Queue_dequeue(link, q),
         curSet' = IF Queue_empty(link', q) THEN curSet \ {pri[Queue_head(link, q)]} ELSE curSet,
         UNCHANGED <<pri, initTrigger>>, trigger' \in [Swis -> Triggers]
  PROVE  LET s == Queue_head(link, q)
         IN  /\ SwisTyped' /\ ListsOK'
             /\ Elements(q) # <<>> /\ s = Head(Elements(q)) /\ pri[s] = q /\ posted[s]
             /\ \A r \in Pri : Elements(r)' = IF r = q THEN Tail(Elements(r)) ELSE Elements(r)
<1> DEFINE s == Queue_head(link, q)
           w == Elements(q)
           z == Tail(w)
<1>1. /\ w \in Seq(Swis) /\ Len(w) \in Nat /\ List(Nodes, link, q, w) /\ s \in Swis
  BY AreLists DEF ListsOK
<1>2. s = Node(q, w, 2)
  BY <1>1, EndsOfList
<1>3. w # <<>> /\ s = w[1] /\ s = Head(w) /\ Len(w) > 0 /\ DOMAIN w = 1 .. Len(w)
  <2>1. Len(w) # 0
    BY <1>1, <1>2, NodesAre DEF Node
  <2> QED BY <2>1, <1>1, <1>2 DEF Node
<1>4. pri[s] = q /\ posted[s]
  BY <1>1, <1>3 DEF ListsOK
<1>5. link' = Queue_remove(link, w[1])
  BY <1>1, <1>3, EndsOfList
<1>6. z \in Seq(Swis) /\ DOMAIN z = 1 .. Len(w) - 1 /\ \A i \in 1 .. Len(w) - 1 : z[i] = w[i + 1]
  BY <1>1, <1>3
<1>7. List(Nodes, link', q, z)
  <2>1. List(Nodes, Queue_remove(link, w[1]), q, RemoveAt(w, 1))
    BY <1>1, <1>3, RemoveKeepsList
  <2>2. RemoveAt(w, 1) = z
    <3>1. RemoveAt(w, 1) = SubSeq(w, 1, 1 - 1) \o SubSeq(w, 1 + 1, Len(w))
      BY DEF RemoveAt
    <3>2. SubSeq(w, 1, 1 - 1) = <<>> /\ SubSeq(w, 1 + 1, Len(w)) = z
      BY <1>1, <1>3
    <3>3. <<>> \o z = z
      <4> HIDE DEF z
      <4> QED BY <1>6
    <3> HIDE DEF w, z
    <3> QED BY <3>1, <3>2, <3>3
  <2> HIDE DEF w, z
  <2> QED BY <2>1, <2>2, <1>5
<1>8. \A r \in Pri \ {q} : List(Nodes, link', r, Elements(r))
  <2> SUFFICES ASSUME NEW r \in Pri, r # q PROVE List(Nodes, link', r, Elements(r))
    OBVIOUS
  <2>1. List(Nodes, link, r, Elements(r))
    BY AreLists
  <2>2. \A i \in 1 .. Len(w) + 2, j \in 1 .. Len(Elements(r)) + 2 : Node(q, w, i) # Node(r, Elements(r), j)
    BY ListsApart
  <2>3. 1 \in 1 .. Len(w)
    BY <1>1, <1>3
  <2> HIDE DEF w
  <2> QED BY <2>1, <2>2, <2>3, <1>1, <1>5, OtherListsKept
<1>9. SwisTyped'
  BY <1>1, <1>7 DEF SwisTyped, List
<1>10. \A r \in Pri : /\ Elements(r)' = IF r = q THEN z ELSE Elements(r)
                      /\ List(Nodes, link', r, Elements(r)')
  <2>1. link' \in [next : [Nodes -> Nodes], prev : [Nodes -> Nodes]]
    BY <1>9 DEF SwisTyped
  <2> HIDE DEF w, z
  <2> QED BY <2>1, <1>6, <1>7, <1>8, ListsChange
<1>11. Queue_empty(link', q) <=> z = <<>>
  <2> HIDE DEF z
  <2> QED BY <1>7, EndsOfList
<1>12. ASSUME NEW r \in Pri
       PROVE  /\ Elements(r)' \in Seq(Swis)
              /\ \A t \in Swis : (\E i \in DOMAIN Elements(r)' : Elements(r)'[i] = t) <=> posted'[t] /\ pri'[t] = r
              /\ r \in curSet' <=> Elements(r)' # <<>>
  <2>1. CASE r = q
    <3>1. Elements(r)' = z
      BY <1>10, <2>1
    <3>3. \A t \in Swis : (\E i \in DOMAIN w : w[i] = t) <=> posted[t] /\ pri[t] = q
      BY DEF ListsOK
    <3>4. \A i, j \in DOMAIN w : w[i] = w[j] => i = j
      BY DEF ListsOK
    <3>5. \A t \in Swis : (\E i \in DOMAIN z : z[i] = t) <=> (t # s /\ \E i \in DOMAIN w : w[i] = t)
      <4> SUFFICES ASSUME NEW t \in Swis
                   PROVE (\E i \in DOMAIN z : z[i] = t) <=> (t # s /\ \E i \in DOMAIN w : w[i] = t)
        OBVIOUS
      <4> HIDE DEF w, z, s
      <4>1. ASSUME NEW i \in DOMAIN z, z[i] = t PROVE t # s /\ \E j \in DOMAIN w : w[j] = t
        <5>1. i + 1 \in DOMAIN w /\ w[i + 1] = t /\ 1 \in DOMAIN w /\ i + 1 # 1
          BY <4>1, <1>1, <1>3, <1>6
        <5> QED BY <5>1, <1>3, <3>4
      <4>2. ASSUME NEW i \in DOMAIN w, w[i] = t, t # s PROVE \E j \in DOMAIN z : z[j] = t
        <5>1. i # 1
          BY <4>2, <1>3
        <5>2. i - 1 \in DOMAIN z /\ z[i - 1] = t
          BY <5>1, <4>2, <1>1, <1>3, <1>6
        <5> QED BY <5>2
      <4> QED BY <4>1, <4>2
    <3>6. \A t \in Swis : posted'[t] <=> t # s /\ posted[t]
      BY <1>1 DEF SwisTyped
    <3>7. r \in curSet' <=> z # <<>>
      <4>1. q \in curSet
        BY <1>3 DEF ListsOK
      <4> HIDE DEF z, w
      <4> QED BY <4>1, <1>4, <1>11, <2>1
    <3> HIDE DEF w, z, s
    <3>8. \A t \in Swis : (\E i \in DOMAIN z : z[i] = t) <=> posted'[t] /\ pri'[t] = r
      BY <3>3, <3>5, <3>6, <2>1
    <3> QED BY <3>1, <3>7, <3>8, <1>6
  <2>2. CASE r # q
    <3>1. Elements(r)' = Elements(r)
      BY <1>10, <2>2
    <3>2. \A t \in Swis : pri'[t] = r => (posted'[t] <=> posted[t])
      BY <2>2, <1>4 DEF SwisTyped
    <3>3. r \in curSet' <=> r \in curSet
      BY <2>2, <1>4
    <3> QED BY <3>1, <3>2, <3>3 DEF ListsOK
  <2> QED BY <2>1, <2>2
<1>13. ListsOK'
  BY <1>10, <1>12 DEF ListsOK, List
<1> QED BY <1>3, <1>4, <1>9, <1>10, <1>13 DEF z

\* The attributes of a Swi that is on no list.
LEMMA ListsKept ==
  ASSUME SwisTyped, ListsOK, UNCHANGED <<link, curSet, posted>>, pri' \in [Swis -> Pri],
         trigger' \in [Swis -> Triggers], initTrigger' \in [Swis -> Triggers],
         \A s \in Swis : posted[s] => pri'[s] = pri[s]
  PROVE  SwisTyped' /\ ListsOK' /\ \A p \in Pri : Elements(p)' = Elements(p)
<1>1. \A p \in Pri : Elements(p)' = Elements(p)
  BY DEF Elements
<1>2. \A s \in Swis, p \in Pri : posted'[s] /\ pri'[s] = p <=> posted[s] /\ pri[s] = p
  OBVIOUS
<1> QED BY <1>1, <1>2 DEF SwisTyped, ListsOK

\* The highest bit of curSet.
LEMMA Highest ==
  ASSUME SwisTyped, curSet # {}
  PROVE  /\ Intrinsics_maxbit(curSet) \in curSet /\ Intrinsics_maxbit(curSet) \in Pri
         /\ \A p \in curSet : p <= Intrinsics_maxbit(curSet)
<1> DEFINE above == {NumPri - p : p \in curSet}
<1>1. curSet \subseteq Pri /\ NumPri \in Nat /\ Pri = 0 .. NumPri - 1
  BY SwiAssumption DEF SwisTyped, Pri
<1>0. \A p \in curSet : p \in Int /\ p <= NumPri - 1 /\ NumPri - p \in Nat
  BY <1>1
<1>2. above \in SUBSET Nat /\ above # {}
  BY <1>0
<1>3. PICK n \in above : \A m \in above : n <= m
  <2> HIDE DEF above
  <2> QED BY <1>2, LeastNumber
<1>4. PICK p \in curSet : n = NumPri - p
  OBVIOUS
<1>5. \A r \in curSet : r <= p
  <2> SUFFICES ASSUME NEW r \in curSet PROVE r <= p
    OBVIOUS
  <2>1. NumPri - r \in above
    OBVIOUS
  <2>2. n <= NumPri - r
    <3> HIDE DEF above
    <3> QED BY <1>3, <2>1
  <2> HIDE DEF above
  <2> QED BY <1>0, <1>1, <1>4, <2>2
<1>6. \E r \in curSet : \A t \in curSet : t <= r
  BY <1>5
<1> HIDE DEF above
<1> QED BY <1>1, <1>6 DEF Intrinsics_maxbit

-----------------------------------------------------------------------------
(* The gates a thread holds.                                               *)

LEMMA Entries ==
  ASSUME NEW e \in Held
  PROVE  /\ e.gate \in {"hwi", "swi", "all", "pri"}
         /\ e.gate # "pri" => e.key \in BOOLEAN
         /\ e.gate = "pri" => e.key \in Pri
         /\ e = Outer <=> e.gate = "all" /\ ~e.key
  BY DEF Held, Outer

\* One more gate is entered.
LEMMA OneMore ==
  ASSUME NEW h \in Seq(Held), NEW e \in Held
  PROVE  LET z == Append(h, e)
         IN  /\ z \in Seq(Held) /\ z # <<>> /\ Last(z) = e /\ Front(z) = h
             /\ SwiIn(z) <=> SwiIn(h) \/ e.gate \in {"swi", "all"}
             /\ OuterIn(z) <=> OuterIn(h) \/ e = Outer
             /\ OuterKey(z) <=> OuterKey(h) \/ (e = Outer /\ SwiIn(h))
             /\ \A t, level : HeldOK(z, t, level) <=> HeldOK(h, t, level) /\ EntryOK(h, e, t, level)
<1> DEFINE z == Append(h, e)
           n == Len(h)
<1>1. /\ n \in Nat /\ z \in Seq(Held) /\ Len(z) = n + 1 /\ z # <<>> /\ z[n + 1] = e
      /\ DOMAIN h = 1 .. n /\ DOMAIN z = 1 .. n + 1
      /\ \A i \in 1 .. n : z[i] = h[i]
  OBVIOUS
<1>2. Last(z) = e /\ Front(z) = h
  <2>1. Front(z) = SubSeq(z, 1, Len(z) - 1) /\ Last(z) = z[Len(z)]
    BY DEF Front, Last
  <2>2. SubSeq(z, 1, n) = h
    BY <1>1
  <2> HIDE DEF z
  <2>3. Len(z) - 1 = n
    BY <1>1
  <2> QED BY <2>1, <2>2, <2>3, <1>1
<1>3. \A i \in 1 .. n : SubSeq(z, 1, i - 1) = SubSeq(h, 1, i - 1)
  <2> SUFFICES ASSUME NEW i \in 1 .. n PROVE SubSeq(z, 1, i - 1) = SubSeq(h, 1, i - 1)
    OBVIOUS
  <2> DEFINE a == SubSeq(z, 1, i - 1)
             b == SubSeq(h, 1, i - 1)
  <2>1. a \in Seq(Held) /\ Len(a) = i - 1 /\ \A j \in 1 .. i - 1 : a[j] = h[j]
    BY <1>1
  <2>2. b \in Seq(Held) /\ Len(b) = i - 1 /\ \A j \in 1 .. i - 1 : b[j] = h[j]
    BY <1>1
  <2> HIDE DEF a, b
  <2>3. a = b
    BY <2>1, <2>2
  <2> QED BY <2>3 DEF a, b
<1>4. SubSeq(z, 1, (n + 1) - 1) = h
  BY <1>1
<1> HIDE DEF z
<1>5. \A i \in 1 .. n + 1 : i \in 1 .. n \/ i = n + 1
  BY <1>1
<1>6. 1 .. n \subseteq 1 .. n + 1 /\ n + 1 \in 1 .. n + 1
  BY <1>1
<1>7. SwiIn(z) <=> SwiIn(h) \/ e.gate \in {"swi", "all"}
  BY <1>1, <1>5, <1>6 DEF SwiIn
<1>8. OuterIn(z) <=> OuterIn(h) \/ e = Outer
  BY <1>1, <1>5, <1>6 DEF OuterIn
<1>9. OuterKey(z) <=> OuterKey(h) \/ (e = Outer /\ SwiIn(h))
  BY <1>1, <1>3, <1>4, <1>5, <1>6 DEF OuterKey
<1>10. ASSUME NEW t, NEW level
       PROVE  HeldOK(z, t, level) <=> HeldOK(h, t, level) /\ EntryOK(h, e, t, level)
  BY <1>1, <1>3, <1>4, <1>5, <1>6 DEF HeldOK
<1> QED BY <1>1, <1>2, <1>7, <1>8, <1>9, <1>10 DEF z

LEMMA NoneHeld ==
  /\ ~SwiIn(<<>>) /\ ~OuterIn(<<>>) /\ ~OuterKey(<<>>)
  /\ \A t, level : HeldOK(<<>>, t, level)
  BY DEF SwiIn, OuterIn, OuterKey, HeldOK

\* The last gate and those before it.
LEMMA LastHeld ==
  ASSUME NEW h \in Seq(Held), h # <<>>
  PROVE  Front(h) \in Seq(Held) /\ Last(h) \in Held /\ h = Append(Front(h), Last(h))
<1>1. Len(h) \in Nat /\ Len(h) > 0
  OBVIOUS
<1>2. Front(h) = SubSeq(h, 1, Len(h) - 1) /\ Last(h) = h[Len(h)]
  BY DEF Front, Last
<1> QED BY <1>1, <1>2

\* Outside GateAll there is no key of one.
LEMMA OutsideAll ==
  ASSUME NEW h \in Seq(Held), NEW t, NEW level, HeldOK(h, t, level), ~OuterIn(h)
  PROVE  /\ \A i \in DOMAIN h : h[i].gate # "all"
         /\ ~OuterKey(h)
<1>1. ASSUME NEW i \in DOMAIN h, h[i].gate = "all" PROVE FALSE
  <2>1. h[i] \in Held /\ h[i].key
    BY <1>1, Entries DEF OuterIn
  <2>2. OuterIn(SubSeq(h, 1, i - 1))
    BY <2>1, <1>1 DEF HeldOK, EntryOK
  <2>3. /\ DOMAIN SubSeq(h, 1, i - 1) = 1 .. i - 1
        /\ \A j \in 1 .. i - 1 : SubSeq(h, 1, i - 1)[j] = h[j] /\ j \in DOMAIN h
    OBVIOUS
  <2> QED BY <2>2, <2>3 DEF OuterIn
<1> QED BY <1>1 DEF OuterKey, OuterIn

-----------------------------------------------------------------------------
(* The frames.                                                             *)

LEMMA FrameTypes ==
  ASSUME NEW f \in Frames
  PROVE  /\ f.thread \in Swis \cup {Task, Hwi} /\ f.pc \in PCs /\ f.key \in BOOLEAN
         /\ f.on \in Swis \cup {NoSwi} /\ f.saved \in Saved /\ f.held \in Seq(Held) /\ f.intr \in BOOLEAN
  BY DEF Frames

\* The gates of a thread that is not about to leave the last one.
LEMMA GatesOf ==
  ASSUME NEW f \in Frames, NEW level, HeldOK(f.held, f.thread, level)
  PROVE  /\ ~LeavingAll(f) => /\ HoldsSwi(f) <=> SwiIn(f.held)
                              /\ Entered(f) <=> OuterIn(f.held)
         /\ LeavingAll(f) => /\ f.held # <<>>
                             /\ HoldsSwi(f) <=> SwiIn(Front(f.held))
                             /\ ~Entered(f) /\ ~OuterIn(Front(f.held))
         /\ Entered(f) => HoldsSwi(f)
<1>1. f.held \in Seq(Held)
  BY FrameTypes
<1>2. CASE ~LeavingAll(f)
  <2>1. Gates(f) = f.held
    BY <1>2 DEF Gates
  <2>2. (HoldsSwi(f) <=> SwiIn(f.held)) /\ (Entered(f) <=> OuterIn(f.held))
    BY <2>1 DEF HoldsSwi, SwiIn, Entered, OuterIn
  <2>3. OuterIn(f.held) => SwiIn(f.held)
    BY DEF OuterIn, SwiIn, Outer
  <2> QED BY <1>2, <2>2, <2>3
<1>3. CASE LeavingAll(f)
  <2> DEFINE b == Front(f.held)
  <2>1. f.held # <<>> /\ Last(f.held) = Outer
    BY <1>3 DEF LeavingAll, Outer
  <2>2. b \in Seq(Held) /\ Outer \in Held /\ f.held = Append(b, Outer)
    BY <1>1, <2>1, LastHeld
  <2>3. Gates(f) = b
    BY <1>3 DEF Gates
  <2>4. DOMAIN b = 1 .. Len(b) /\ \A i \in 1 .. Len(b) : b[i] = f.held[i]
    <3> HIDE DEF b
    <3> QED BY <2>2
  <2>5. EntryOK(b, Outer, f.thread, level)
    <3> HIDE DEF b
    <3> QED BY <2>2, OneMore
  <2>6. ~OuterIn(b)
    BY <2>5 DEF EntryOK, Outer
  <2> HIDE DEF b
  <2>7. (HoldsSwi(f) <=> SwiIn(b)) /\ (Entered(f) <=> OuterIn(b))
    BY <2>3, <2>4 DEF HoldsSwi, SwiIn, Entered, OuterIn
  <2> QED BY <1>3, <2>1, <2>6, <2>7 DEF b
<1> QED BY <1>2, <1>3

-----------------------------------------------------------------------------
(* The stack of threads, and the Swis among them.                          *)

\* The recursive function of StartedSwis, up to n.
StartedFrom(b, f, n) ==
  IF n = 0 THEN <<>>
  ELSE IF b[n].thread \in Swis THEN Append(f[n - 1], b[n]) ELSE f[n - 1]

Collects(b, n, f) == f = [i \in 0 .. n |-> StartedFrom(b, f, i)]

\* It depends on what it has passed only.
LEMMA CollectsSame ==
  ASSUME NEW b, NEW c, NEW n \in Nat, NEW m \in Nat, n <= m, \A i \in 1 .. n : b[i] = c[i],
         NEW f, Collects(b, n, f), NEW g, Collects(c, m, g)
  PROVE  f[n] = g[n]
<1> DEFINE bad == {i \in 0 .. n : f[i] # g[i]}
<1>1. \A i \in 0 .. n : f[i] = StartedFrom(b, f, i) /\ g[i] = StartedFrom(c, g, i)
  <2> SUFFICES ASSUME NEW i \in 0 .. n PROVE f[i] = StartedFrom(b, f, i) /\ g[i] = StartedFrom(c, g, i)
    OBVIOUS
  <2>1. i \in 0 .. m
    OBVIOUS
  <2>2. [j \in 0 .. n |-> StartedFrom(b, f, j)][i] = StartedFrom(b, f, i)
    OBVIOUS
  <2>3. [j \in 0 .. m |-> StartedFrom(c, g, j)][i] = StartedFrom(c, g, i)
    BY <2>1
  <2> QED BY <2>2, <2>3 DEF Collects
<1>2. SUFFICES ASSUME bad # {} PROVE FALSE
  OBVIOUS
<1>3. PICK i \in bad : \A j \in bad : i <= j
  <2>1. bad \in SUBSET Nat
    OBVIOUS
  <2> HIDE DEF bad
  <2> QED BY <1>2, <2>1, LeastNumber
<1>4. i \in 0 .. n /\ f[i] # g[i]
  OBVIOUS
<1>5. i # 0 => f[i - 1] = g[i - 1] /\ b[i] = c[i]
  <2>1. ASSUME i # 0, f[i - 1] # g[i - 1] PROVE FALSE
    <3>1. i - 1 \in bad
      BY <1>4, <2>1
    <3> HIDE DEF bad
    <3> QED BY <1>3, <1>4, <3>1
  <2>2. i # 0 => i \in 1 .. n
    BY <1>4
  <2> QED BY <2>1, <2>2
<1>6. StartedFrom(b, f, i) = StartedFrom(c, g, i)
  BY <1>5 DEF StartedFrom
<1> QED BY <1>1, <1>4, <1>6

LEMMA CollectsExists ==
  ASSUME NEW b, NEW n \in Nat
  PROVE  \E f : Collects(b, n, f)
<1> DEFINE bad == {m \in 0 .. n : ~ \E f : Collects(b, m, f)}
<1>1. SUFFICES ASSUME bad # {} PROVE FALSE
  OBVIOUS
<1>2. PICK m \in bad : \A j \in bad : m <= j
  <2>1. bad \in SUBSET Nat
    OBVIOUS
  <2> HIDE DEF bad
  <2> QED BY <1>1, <2>1, LeastNumber
<1>3. m \in 0 .. n /\ ~ \E f : Collects(b, m, f)
  OBVIOUS
<1>4. CASE m = 0
  <2> DEFINE f == [i \in 0 .. 0 |-> <<>>]
  <2>1. f = [i \in 0 .. 0 |-> StartedFrom(b, f, i)]
    BY DEF StartedFrom
  <2> QED BY <2>1, <1>3, <1>4 DEF Collects
<1>5. CASE m # 0
  <2>1. m - 1 \in 0 .. n /\ ~(m <= m - 1)
    BY <1>3, <1>5
  <2>2. m - 1 \notin bad
    <3> HIDE DEF bad
    <3> QED BY <1>2, <2>1
  <2>3. PICK f : Collects(b, m - 1, f)
    BY <2>1, <2>2
  <2> DEFINE g == [i \in 0 .. m |-> IF i = m THEN StartedFrom(b, f, m) ELSE f[i]]
  <2>4. ASSUME NEW i \in 0 .. m PROVE g[i] = StartedFrom(b, g, i)
    <3>1. CASE i = m
      <4>1. g[m] = StartedFrom(b, f, m) /\ g[m - 1] = f[m - 1]
        BY <1>3, <1>5
      <4> HIDE DEF g
      <4> QED BY <3>1, <4>1, <1>5 DEF StartedFrom
    <3>2. CASE i # m
      <4>1. i \in 0 .. m - 1 /\ g[i] = f[i]
        BY <3>2, <1>3
      <4>2. i # 0 => g[i - 1] = f[i - 1]
        BY <3>2, <1>3
      <4>3. f[i] = StartedFrom(b, f, i)
        <5>1. [j \in 0 .. m - 1 |-> StartedFrom(b, f, j)][i] = StartedFrom(b, f, i)
          BY <4>1
        <5> QED BY <5>1, <2>3 DEF Collects
      <4> HIDE DEF g
      <4> QED BY <4>1, <4>2, <4>3 DEF StartedFrom
    <3> QED BY <3>1, <3>2
  <2>5. Collects(b, m, g)
    <3>1. g = [i \in 0 .. m |-> StartedFrom(b, g, i)]
      BY <2>4
    <3> HIDE DEF g
    <3> QED BY <3>1 DEF Collects
  <2> QED BY <2>5, <1>3
<1> QED BY <1>4, <1>5

LEMMA CollectsStarted ==
  ASSUME NEW b, Len(b) \in Nat
  PROVE  \E f : Collects(b, Len(b), f) /\ StartedSwis(b) = f[Len(b)]
<1> DEFINE Body(f, n) ==
             IF n = 0 THEN <<>>
             ELSE IF b[n].thread \in Swis THEN Append(f[n - 1], b[n]) ELSE f[n - 1]
           f == CHOOSE f : f = [n \in 0 .. Len(b) |-> Body(f, n)]
<1>1. StartedSwis(b) = f[Len(b)]
  BY DEF StartedSwis
<1>2. \E h : h = [n \in 0 .. Len(b) |-> Body(h, n)]
  <2>1. PICK h : Collects(b, Len(b), h)
    BY CollectsExists
  <2>2. h = [n \in 0 .. Len(b) |-> Body(h, n)]
    BY <2>1 DEF Collects, StartedFrom
  <2> HIDE DEF Body
  <2> QED BY <2>2
<1>3. f = [n \in 0 .. Len(b) |-> Body(f, n)]
  <2> HIDE DEF Body
  <2> QED BY <1>2
<1> HIDE DEF f
<1>4. Collects(b, Len(b), f)
  BY <1>3 DEF Collects, StartedFrom
<1> QED BY <1>1, <1>4

\* One more thread starts.
LEMMA StartedMore ==
  ASSUME NEW b \in Seq(Frames), NEW g \in Frames
  PROVE  StartedSwis(Append(b, g)) = IF g.thread \in Swis THEN Append(StartedSwis(b), g) ELSE StartedSwis(b)
<1> DEFINE z == Append(b, g)
           n == Len(b)
<1>1. n \in Nat /\ Len(z) = n + 1 /\ z[n + 1] = g /\ \A i \in 1 .. n : b[i] = z[i]
  OBVIOUS
<1> HIDE DEF z, n
<1>2. PICK f : Collects(b, n, f) /\ StartedSwis(b) = f[n]
  BY <1>1, CollectsStarted DEF n
<1>3. PICK h : Collects(z, n + 1, h) /\ StartedSwis(z) = h[n + 1]
  BY <1>1, CollectsStarted
<1>4. f[n] = h[n]
  BY <1>1, <1>2, <1>3, CollectsSame
<1>5. h[n + 1] = StartedFrom(z, h, n + 1)
  <2>1. [j \in 0 .. n + 1 |-> StartedFrom(z, h, j)][n + 1] = StartedFrom(z, h, n + 1)
    BY <1>1
  <2> QED BY <2>1, <1>3 DEF Collects
<1>6. (n + 1) - 1 = n /\ n + 1 # 0
  BY <1>1
<1> QED BY <1>1, <1>2, <1>3, <1>4, <1>5, <1>6 DEF StartedFrom, z

LEMMA StartedNone == StartedSwis(<<>>) = <<>>
<1>1. PICK f : Collects(<<>>, 0, f) /\ StartedSwis(<<>>) = f[0]
  BY CollectsStarted
<1>2. [j \in 0 .. 0 |-> StartedFrom(<<>>, f, j)][0] = StartedFrom(<<>>, f, 0)
  OBVIOUS
<1> QED BY <1>1, <1>2 DEF Collects, StartedFrom

\* A stack is the thread on top and the others.
LEMMA LastThread ==
  ASSUME NEW b \in Seq(Frames), b # <<>>
  PROVE  Front(b) \in Seq(Frames) /\ Last(b) \in Frames /\ b = Append(Front(b), Last(b)) /\ Len(Front(b)) = Len(b) - 1
<1>1. Len(b) \in Nat /\ Len(b) > 0
  OBVIOUS
<1>2. Front(b) = SubSeq(b, 1, Len(b) - 1) /\ Last(b) = b[Len(b)]
  BY DEF Front, Last
<1>3. Len(SubSeq(b, 1, Len(b) - 1)) = Len(b) - 1 /\ SubSeq(b, 1, Len(b) - 1) \in Seq(Frames)
  <2>1. PICK n \in Nat : n = Len(b) - 1
    BY <1>1
  <2>2. n <= Len(b)
    BY <2>1, <1>1
  <2>3. Len(SubSeq(b, 1, n)) = n
    BY <2>2
  <2>4. SubSeq(b, 1, n) \in Seq(Frames)
    BY <2>2
  <2> QED BY <2>1, <2>3, <2>4
<1>4. b = Append(SubSeq(b, 1, Len(b) - 1), b[Len(b)])
  BY <1>1
<1>5. b[Len(b)] \in Frames
  BY <1>1
<1> QED BY <1>2, <1>3, <1>4, <1>5

\* The Swis that have started are the Swis on the stack.
LEMMA StartedAre ==
  ASSUME NEW b \in Seq(Frames)
  PROVE  /\ StartedSwis(b) \in Seq(Frames)
         /\ \A i \in DOMAIN StartedSwis(b) : StartedSwis(b)[i].thread \in Swis
         /\ \A s \in Swis : (\E i \in DOMAIN StartedSwis(b) : StartedSwis(b)[i].thread = s)
                              <=> \E i \in DOMAIN b : b[i].thread = s
<1> DEFINE Fits(c) ==
             /\ StartedSwis(c) \in Seq(Frames)
             /\ \A i \in DOMAIN StartedSwis(c) : StartedSwis(c)[i].thread \in Swis
             /\ \A s \in Swis : (\E i \in DOMAIN StartedSwis(c) : StartedSwis(c)[i].thread = s)
                                  <=> \E i \in DOMAIN c : c[i].thread = s
           bad == {n \in Nat : \E c \in Seq(Frames) : Len(c) = n /\ ~Fits(c)}
<1>1. SUFFICES ASSUME bad # {} PROVE FALSE
  <2>1. Len(b) \in Nat
    OBVIOUS
  <2>2. ~Fits(b) => Len(b) \in bad
    <3> HIDE DEF Fits
    <3> QED BY <2>1
  <2> QED BY <2>2
<1> HIDE DEF Fits
<1>2. PICK n \in bad : \A j \in bad : n <= j
  <2>1. bad \in SUBSET Nat
    OBVIOUS
  <2> HIDE DEF bad
  <2> QED BY <1>1, <2>1, LeastNumber
<1>3. PICK c \in Seq(Frames) : Len(c) = n /\ ~Fits(c)
  OBVIOUS
<1>4. c # <<>>
  <2>1. Fits(<<>>)
    <3>1. <<>> \in Seq(Frames) /\ DOMAIN <<>> = {}
      OBVIOUS
    <3> QED BY <3>1, StartedNone DEF Fits
  <2> QED BY <2>1, <1>3
<1> DEFINE d == Front(c)
           g == Last(c)
<1>5. d \in Seq(Frames) /\ g \in Frames /\ c = Append(d, g) /\ Len(d) = n - 1 /\ n \in Nat
  BY <1>3, <1>4, LastThread
<1> HIDE DEF d, g
<1>6. Fits(d)
  <2>1. Len(d) \in Nat /\ ~(n <= Len(d))
    BY <1>5
  <2>2. Len(d) \notin bad
    <3> HIDE DEF bad
    <3> QED BY <2>1, <1>2
  <2> QED BY <2>1, <2>2, <1>5
<1>7. /\ DOMAIN d = 1 .. Len(d) /\ DOMAIN c = 1 .. Len(d) + 1 /\ c[Len(d) + 1] = g /\ Len(d) \in Nat
      /\ \A i \in 1 .. Len(d) : c[i] = d[i]
  BY <1>5
<1> DEFINE S == StartedSwis(d)
           T == StartedSwis(c)
<1>8. T = IF g.thread \in Swis THEN Append(S, g) ELSE S
  BY <1>5, StartedMore
<1>9. S \in Seq(Frames) /\ \A i \in DOMAIN S : S[i].thread \in Swis
  BY <1>6 DEF Fits
<1>10. \A s \in Swis : (\E i \in DOMAIN S : S[i].thread = s) <=> \E i \in DOMAIN d : d[i].thread = s
  BY <1>6 DEF Fits
<1> HIDE DEF S, T
<1>11. ASSUME NEW s \in Swis
       PROVE  (\E i \in DOMAIN c : c[i].thread = s) <=> g.thread = s \/ \E i \in DOMAIN d : d[i].thread = s
  <2>1. \A i \in 1 .. Len(d) + 1 : i \in 1 .. Len(d) \/ i = Len(d) + 1
    BY <1>7
  <2>2. 1 .. Len(d) \subseteq 1 .. Len(d) + 1 /\ Len(d) + 1 \in 1 .. Len(d) + 1
    BY <1>7
  <2> QED BY <2>1, <2>2, <1>7
<1>12. CASE g.thread \in Swis
  <2>1. T = Append(S, g)
    BY <1>8, <1>12
  <2>2. /\ T \in Seq(Frames) /\ DOMAIN T = 1 .. Len(S) + 1 /\ DOMAIN S = 1 .. Len(S) /\ T[Len(S) + 1] = g
        /\ Len(S) \in Nat /\ \A i \in 1 .. Len(S) : T[i] = S[i]
    BY <2>1, <1>5, <1>9
  <2>3. \A i \in 1 .. Len(S) + 1 : i \in 1 .. Len(S) \/ i = Len(S) + 1
    BY <2>2
  <2>4. 1 .. Len(S) \subseteq 1 .. Len(S) + 1 /\ Len(S) + 1 \in 1 .. Len(S) + 1
    BY <2>2
  <2>5. \A i \in DOMAIN T : T[i].thread \in Swis
    BY <2>2, <2>3, <1>9, <1>12
  <2>6. \A s \in Swis : (\E i \in DOMAIN T : T[i].thread = s) <=> g.thread = s \/ \E i \in DOMAIN S : S[i].thread = s
    BY <2>2, <2>3, <2>4
  <2>7. Fits(c)
    BY <2>2, <2>5, <2>6, <1>10, <1>11 DEF Fits, T
  <2> QED BY <2>7, <1>3
<1>13. CASE g.thread \notin Swis
  <2>1. Fits(c)
    BY <1>8, <1>9, <1>10, <1>11, <1>13 DEF Fits, T
  <2> QED BY <2>1, <1>3
<1> QED BY <1>12, <1>13

\* One more thread on the stack.
LEMMA OneMoreThread ==
  ASSUME NEW b \in Seq(Frames), NEW g \in Frames, NEW level
  PROVE  LET z == Append(b, g)
         IN  /\ z \in Seq(Frames) /\ z # <<>> /\ Last(z) = g /\ Front(z) = b
             /\ ThreadsOK(z, level) <=>
                  /\ ThreadsOK(b, level) /\ FrameOK(g, level) /\ (g.thread = Task <=> b = <<>>)
                  /\ b # <<>> => OnTop(Last(b), g)
                  /\ g.thread \in Swis => \A i \in DOMAIN b : ~HoldsSwi(b[i])
<1> DEFINE z == Append(b, g)
           n == Len(b)
<1>1. /\ n \in Nat /\ z \in Seq(Frames) /\ Len(z) = n + 1 /\ z # <<>> /\ z[n + 1] = g
      /\ DOMAIN b = 1 .. n /\ DOMAIN z = 1 .. n + 1 /\ (b = <<>> <=> n = 0)
      /\ \A i \in 1 .. n : z[i] = b[i]
  OBVIOUS
<1>2. Last(z) = g /\ Front(z) = b
  <2>1. Front(z) = SubSeq(z, 1, Len(z) - 1) /\ Last(z) = z[Len(z)]
    BY DEF Front, Last
  <2>2. SubSeq(z, 1, n) = b
    BY <1>1
  <2> HIDE DEF z
  <2>3. Len(z) - 1 = n
    BY <1>1
  <2> QED BY <2>1, <2>2, <2>3, <1>1
<1>3. Last(b) = b[n]
  BY DEF Last
<1> HIDE DEF z, n
<1>4. \A i \in 1 .. n + 1 : i \in 1 .. n \/ i = n + 1
  BY <1>1
<1>5. 1 .. n \subseteq 1 .. n + 1 /\ n + 1 \in 1 .. n + 1 /\ (n + 1 = 1 <=> n = 0) /\ n + 1 \notin 1 .. n
  BY <1>1
<1>6. (\A i \in DOMAIN z : FrameOK(z[i], level) /\ (z[i].thread = Task <=> i = 1))
        <=> /\ \A i \in DOMAIN b : FrameOK(b[i], level) /\ (b[i].thread = Task <=> i = 1)
            /\ FrameOK(g, level) /\ (g.thread = Task <=> b = <<>>)
  BY <1>1, <1>4, <1>5
<1>7. (\A i \in 1 .. (n + 1) - 1 : OnTop(z[i], z[i + 1]))
        <=> /\ \A i \in 1 .. n - 1 : OnTop(b[i], b[i + 1])
            /\ n # 0 => OnTop(b[n], g)
  <2>1. (n + 1) - 1 = n
    BY <1>1
  <2>2. \A i \in 1 .. n - 1 : i \in 1 .. n /\ i + 1 \in 1 .. n /\ z[i] = b[i] /\ z[i + 1] = b[i + 1]
    BY <1>1
  <2>3. n # 0 => n \in 1 .. n /\ z[n] = b[n]
    BY <1>1
  <2>4. \A i \in 1 .. n : i \in 1 .. n - 1 \/ i = n
    BY <1>1
  <2>5. \A i \in 1 .. n : n # 0
    BY <1>1
  <2> QED BY <2>1, <2>2, <2>3, <2>4, <2>5, <1>1
<1>8. (\A i, j \in DOMAIN z : i < j /\ HoldsSwi(z[i]) => z[j].thread \notin Swis)
        <=> /\ \A i, j \in DOMAIN b : i < j /\ HoldsSwi(b[i]) => b[j].thread \notin Swis
            /\ g.thread \in Swis => \A i \in DOMAIN b : ~HoldsSwi(b[i])
  <2>1. \A i \in 1 .. n : i < n + 1 /\ ~(n + 1 < i)
    BY <1>1
  <2>2. ~(n + 1 < n + 1)
    BY <1>1
  <2> QED BY <2>1, <2>2, <1>1, <1>4, <1>5
<1>9. ThreadsOK(z, level) <=>
        /\ ThreadsOK(b, level) /\ FrameOK(g, level) /\ (g.thread = Task <=> b = <<>>)
        /\ b # <<>> => OnTop(Last(b), g)
        /\ g.thread \in Swis => \A i \in DOMAIN b : ~HoldsSwi(b[i])
  BY <1>1, <1>3, <1>6, <1>7, <1>8 DEF ThreadsOK, n
<1> QED BY <1>1, <1>2, <1>9 DEF z

LEMMA SavedMore ==
  ASSUME NEW fr \in Seq(Frames), NEW g \in Frames, NEW level
  PROVE  /\ SavedOK(Append(fr, g), level) <=>
              SavedOK(fr, level) /\ IsCurrent(fr, g.saved.curSwi, g.saved.curQ, level)
         /\ \A swi, q : IsCurrent(Append(fr, g), swi, q, level) <=> swi = g.thread /\ level[g.thread] <= q
<1> DEFINE z == Append(fr, g)
           n == Len(fr)
<1>1. /\ n \in Nat /\ Len(z) = n + 1 /\ z # <<>> /\ z[n + 1] = g /\ (fr = <<>> <=> n = 0)
      /\ \A i \in 1 .. n : z[i] = fr[i]
  OBVIOUS
<1>2. Last(z) = g /\ Last(fr) = fr[n]
  <2>1. Last(z) = z[Len(z)]
    BY DEF Last
  <2> QED BY <2>1, <1>1 DEF Last
<1> HIDE DEF z, n
<1>3. \A i \in 1 .. n - 1 : i \in 1 .. n /\ i + 1 \in 1 .. n
  BY <1>1
<1>4. n # 0 => n \in 1 .. n
  BY <1>1
<1>5. \A i \in 1 .. n : i \in 1 .. n - 1 \/ (i = n /\ n # 0)
  BY <1>1
<1>6. (n + 1) - 1 = n /\ \A i \in 1 .. n - 1 : i \in 1 .. n
  BY <1>1
<1>7. SavedOK(z, level) <=>
        /\ SavedOK(fr, level)
        /\ n # 0 => g.saved.curSwi = fr[n].thread /\ level[fr[n].thread] <= g.saved.curQ
  <2> DEFINE ok(i) == z[i + 1].saved.curSwi = z[i].thread /\ level[z[i].thread] <= z[i + 1].saved.curQ
  <2>1. SavedOK(z, level) <=> \A i \in 1 .. n : ok(i)
    BY <1>1, <1>6 DEF SavedOK
  <2>2. SavedOK(fr, level) <=> \A i \in 1 .. n - 1 : ok(i)
    <3>1. \A i \in 1 .. n - 1 : z[i] = fr[i] /\ z[i + 1] = fr[i + 1]
      BY <1>1, <1>3
    <3> QED BY <3>1 DEF SavedOK, n
  <2>3. n # 0 => (ok(n) <=> g.saved.curSwi = fr[n].thread /\ level[fr[n].thread] <= g.saved.curQ)
    BY <1>1, <1>4
  <2> HIDE DEF ok
  <2> QED BY <2>1, <2>2, <2>3, <1>3, <1>4, <1>5, <1>6
<1> QED BY <1>1, <1>2, <1>7 DEF IsCurrent, z

\* Of a thread that is on top, thread and saved are looked at.
LEMMA SameSaved ==
  ASSUME NEW b \in Seq(Frames), NEW f \in Frames, NEW g \in Frames, g.thread = f.thread, g.saved = f.saved,
         NEW level, SavedOK(StartedSwis(Append(b, f)), level)
  PROVE  /\ SavedOK(StartedSwis(Append(b, g)), level)
         /\ \A swi, q : IsCurrent(StartedSwis(Append(b, f)), swi, q, level) =>
                          IsCurrent(StartedSwis(Append(b, g)), swi, q, level)
<1>1. StartedSwis(b) \in Seq(Frames)
  BY StartedAre
<1>2. /\ StartedSwis(Append(b, f)) = IF f.thread \in Swis THEN Append(StartedSwis(b), f) ELSE StartedSwis(b)
      /\ StartedSwis(Append(b, g)) = IF f.thread \in Swis THEN Append(StartedSwis(b), g) ELSE StartedSwis(b)
  BY StartedMore
<1>3. CASE f.thread \in Swis
  BY <1>1, <1>2, <1>3, SavedMore
<1>4. CASE f.thread \notin Swis
  BY <1>2, <1>4
<1> QED BY <1>3, <1>4

-----------------------------------------------------------------------------
(* What a step does to the stack.                                          *)

LEMMA Typed ==
  TypeOK <=> /\ SwisTyped
             /\ curQ \in Pri \cup {NoQ} /\ curSwi \in Swis \cup {NoSwi} /\ curTrigger \in Triggers
             /\ locked \in BOOLEAN /\ stack \in Seq(Frames)
             /\ all \in [entered : BOOLEAN, hwiKey : BOOLEAN, swiKey : BOOLEAN]
  BY DEF TypeOK, SwisTyped

LEMMA TypedNext ==
  TypeOK' <=> /\ SwisTyped'
              /\ curQ' \in Pri \cup {NoQ} /\ curSwi' \in Swis \cup {NoSwi} /\ curTrigger' \in Triggers
              /\ locked' \in BOOLEAN /\ stack' \in Seq(Frames)
              /\ all' \in [entered : BOOLEAN, hwiKey : BOOLEAN, swiKey : BOOLEAN]
  BY DEF TypeOK, SwisTyped

\* The thread on top and those below.
LEMMA TopAndBelow ==
  ASSUME IInv
  PROVE  /\ Below \in Seq(Frames) /\ Top \in Frames /\ stack = Append(Below, Top)
         /\ ThreadsOK(Below, pri) /\ FrameOK(Top, pri) /\ (Top.thread = Task <=> Below = <<>>)
         /\ Below # <<>> => OnTop(Last(Below), Top)
         /\ Top.thread \in Swis => \A i \in DOMAIN Below : ~HoldsSwi(Below[i])
         /\ StartedSwis(Below) \in Seq(Frames)
         /\ StartedSwis(stack) = IF Top.thread \in Swis THEN Append(StartedSwis(Below), Top) ELSE StartedSwis(Below)
<1>1. stack \in Seq(Frames) /\ stack # <<>>
  BY Typed DEF IInv, TopOK
<1>2. Below \in Seq(Frames) /\ Top \in Frames /\ stack = Append(Below, Top)
  BY <1>1, LastThread DEF Below, Top
<1>3. ThreadsOK(Append(Below, Top), pri)
  BY <1>2 DEF IInv
<1>4. StartedSwis(Append(Below, Top)) = IF Top.thread \in Swis THEN Append(StartedSwis(Below), Top) ELSE StartedSwis(Below)
  BY <1>2, StartedMore
<1> QED BY <1>2, <1>3, <1>4, OneMoreThread, StartedAre

\* The thread that runs goes on at another place.
LEMMA TopStep ==
  ASSUME IInv, NEW g \in Frames, stack' = Append(Below, g),
         g.thread = Top.thread, g.saved = Top.saved, g.thread = Hwi => g.key = Top.key,
         FrameOK(g, pri), g.pc # "loop",
         SwisTyped', ListsOK', UNCHANGED <<pri, curSwi>>,
         curTrigger' \in Triggers, curQ' \in Pri \cup {NoQ},
         curQ' = curQ \/ (Top.thread \in Swis /\ pri[Top.thread] <= curQ'),
         locked' \in BOOLEAN, locked' <=> Locks(g),
         all' \in [entered : BOOLEAN, hwiKey : BOOLEAN, swiKey : BOOLEAN],
         all'.entered <=> Entered(g),
         all'.entered => ~g.intr /\ (all'.swiKey <=> g.thread = Hwi \/ OuterKey(g.held)),
         NoneAbove'
  PROVE  IInv'
<1>1. /\ stack' \in Seq(Frames) /\ stack' # <<>> /\ Top' = g /\ Below' = Below
  <2>1. Below \in Seq(Frames)
    BY TopAndBelow
  <2>2. Top' = Last(stack') /\ Below' = Front(stack')
    BY DEF Top, Below
  <2> QED BY <2>1, <2>2, OneMoreThread
<1>2. TypeOK'
  BY <1>1, Typed, TypedNext DEF IInv
<1>3. ThreadsOK(stack', pri')
  <2>1. Below # <<>> => OnTop(Last(Below), g)
    BY TopAndBelow DEF OnTop
  <2> QED BY <2>1, TopAndBelow, OneMoreThread
<1>4. TopOK'
  BY <1>1 DEF TopOK
<1>5. CurOK'
  <2>1. /\ SavedOK(StartedSwis(Append(Below, Top)), pri)
        /\ IsCurrent(StartedSwis(Append(Below, Top)), curSwi, curQ, pri)
    BY TopAndBelow DEF IInv, CurOK
  <2>2. SavedOK(StartedSwis(stack'), pri')
    BY <2>1, TopAndBelow, SameSaved
  <2>3. IsCurrent(StartedSwis(stack'), curSwi', curQ, pri')
    BY <2>1, TopAndBelow, SameSaved
  <2>4. IsCurrent(StartedSwis(stack'), curSwi', curQ', pri')
    <3>1. CASE curQ' = curQ
      BY <2>3, <3>1
    <3>2. CASE Top.thread \in Swis /\ pri[Top.thread] <= curQ'
      <4>1. StartedSwis(stack') = Append(StartedSwis(Below), g)
        BY <3>2, TopAndBelow, StartedMore
      <4> QED BY <4>1, <3>2, <2>3, TopAndBelow, SavedMore
    <3> QED BY <3>1, <3>2
  <2> QED BY <2>2, <2>4 DEF CurOK
<1> QED BY <1>2, <1>3, <1>4, <1>5 DEF IInv

\* A thread in its own code, or in a call that is not about to leave GateAll.
LEMMA Plain ==
  ASSUME NEW f \in Frames, NEW level, HeldOK(f.held, f.thread, level),
         f.pc \notin {"schedule", "loop", "leaving"}
  PROVE  /\ Locks(f) <=> f.thread = Hwi \/ SwiIn(f.held)
         /\ Entered(f) <=> OuterIn(f.held)
         /\ HoldsSwi(f) <=> SwiIn(f.held)
         /\ f.pc = "run" => FrameOK(f, level)
<1>1. ~LeavingAll(f)
  BY DEF LeavingAll
<1> QED BY <1>1, GatesOf DEF Locks, FrameOK


\* The state of a thread there is what the module's says.
LEMMA TopPlain ==
  ASSUME IInv, Top.pc \notin {"schedule", "loop", "leaving"}
  PROVE  /\ Top \in Frames /\ Top.held \in Seq(Held) /\ Top.intr \in BOOLEAN /\ Top.key \in BOOLEAN
         /\ HeldOK(Top.held, Top.thread, pri) /\ FrameOK(Top, pri)
         /\ locked <=> Top.thread = Hwi \/ SwiIn(Top.held)
         /\ all.entered <=> OuterIn(Top.held)
         /\ all.entered => ~Top.intr /\ (all.swiKey <=> Top.thread = Hwi \/ OuterKey(Top.held))
         /\ locked \in BOOLEAN /\ all \in [entered : BOOLEAN, hwiKey : BOOLEAN, swiKey : BOOLEAN]
<1>1. Top \in Frames /\ FrameOK(Top, pri)
  BY TopAndBelow
<1>2. HeldOK(Top.held, Top.thread, pri)
  BY <1>1 DEF FrameOK
<1> QED BY <1>1, <1>2, Plain, FrameTypes, Typed DEF IInv, TopOK

\* Nothing but the gates changes.
LEMMA QuietStep ==
  ASSUME IInv, UNCHANGED <<swiVars, curSwi, curTrigger>>,
         NEW g \in Frames, stack' = Append(Below, g),
         g.thread = Top.thread, g.saved = Top.saved, g.thread = Hwi => g.key = Top.key,
         FrameOK(g, pri), g.pc # "loop",
         curQ' \in Pri \cup {NoQ}, curQ' = curQ \/ (Top.thread \in Swis /\ pri[Top.thread] <= curQ'),
         locked' \in BOOLEAN, locked' <=> Locks(g),
         all' \in [entered : BOOLEAN, hwiKey : BOOLEAN, swiKey : BOOLEAN],
         all'.entered <=> Entered(g),
         all'.entered => ~g.intr /\ (all'.swiKey <=> g.thread = Hwi \/ OuterKey(g.held)),
         ~locked' => curSet = {} \/ (~locked /\ curQ <= curQ')
  PROVE  IInv'
<1>1. UNCHANGED <<link, curSet, posted, trigger, pri, initTrigger>>
  BY DEF swiVars, attrVars
<1>2. SwisTyped /\ ListsOK /\ curTrigger' \in Triggers /\ NoneAbove /\ curQ \in Pri \cup {NoQ}
  BY Typed DEF IInv
<1>3. SwisTyped' /\ ListsOK'
  <2>1. pri' \in [Swis -> Pri] /\ trigger' \in [Swis -> Triggers] /\ initTrigger' \in [Swis -> Triggers]
    BY <1>1, <1>2 DEF SwisTyped
  <2> QED BY <2>1, <1>1, <1>2, ListsKept
<1>4. NoneAbove'
  BY <1>1, <1>2 DEF NoneAbove, SwisTyped, Pri, NoQ
<1> QED BY <1>1, <1>2, <1>3, <1>4, TopStep

\* A thread goes on in its own code.
LEMMA RunStep ==
  ASSUME IInv, UNCHANGED <<swiVars, curSwi, curTrigger>>,
         NEW g \in Frames, stack' = Append(Below, g),
         g.thread = Top.thread, g.saved = Top.saved, g.thread = Hwi => g.key = Top.key,
         g.pc = "run", HeldOK(g.held, g.thread, pri),
         curQ' \in Pri \cup {NoQ}, curQ' = curQ \/ (Top.thread \in Swis /\ pri[Top.thread] <= curQ'),
         locked' \in BOOLEAN, locked' <=> g.thread = Hwi \/ SwiIn(g.held),
         all' \in [entered : BOOLEAN, hwiKey : BOOLEAN, swiKey : BOOLEAN],
         all'.entered <=> OuterIn(g.held),
         all'.entered => ~g.intr /\ (all'.swiKey <=> g.thread = Hwi \/ OuterKey(g.held)),
         ~locked' => curSet = {} \/ (~locked /\ curQ <= curQ')
  PROVE  IInv'
<1>1. FrameOK(g, pri) /\ (Locks(g) <=> g.thread = Hwi \/ SwiIn(g.held)) /\ (Entered(g) <=> OuterIn(g.held))
  BY Plain
<1> QED BY <1>1, QuietStep

-----------------------------------------------------------------------------
(* The gates.                                                              *)

LEMMA OuterIsIn == \A h : OuterIn(h) => SwiIn(h)
  BY DEF OuterIn, SwiIn, Outer

LEMMA GateHwiEnterIInv == ASSUME IInv, GateHwi_enter, UNCHANGED all PROVE IInv'
<1> DEFINE e == [gate |-> "hwi", key |-> Top.intr]
           g == [Top EXCEPT !.held = Append(@, e), !.intr = FALSE]
<1>1. Top.pc = "run" /\ stack' = Append(Below, g) /\ UNCHANGED <<swiVars, curQ, curSwi, curTrigger, locked>>
  BY DEF GateHwi_enter, At, Becomes, curVars
<1>2. e \in Held /\ e # Outer /\ e.gate \notin {"swi", "all"}
  BY <1>1, TopPlain DEF Held, Outer
<1>3. EntryOK(Top.held, e, Top.thread, pri)
  BY <1>1, TopPlain DEF EntryOK
<1> HIDE DEF e
<1>4. /\ Append(Top.held, e) \in Seq(Held) /\ HeldOK(Append(Top.held, e), Top.thread, pri)
      /\ SwiIn(Append(Top.held, e)) <=> SwiIn(Top.held)
      /\ OuterIn(Append(Top.held, e)) <=> OuterIn(Top.held)
      /\ OuterKey(Append(Top.held, e)) <=> OuterKey(Top.held)
  BY <1>1, <1>2, <1>3, TopPlain, OneMore
<1>5. /\ g \in Frames /\ g.thread = Top.thread /\ g.saved = Top.saved /\ g.key = Top.key /\ g.pc = "run"
      /\ g.held = Append(Top.held, e) /\ g.intr = FALSE
  BY <1>1, <1>4, TopPlain DEF Frames
<1> HIDE DEF g
<1>6. curQ \in Pri \cup {NoQ} /\ curQ <= curQ
  BY Typed DEF IInv, Pri, NoQ
<1> QED BY <1>1, <1>4, <1>5, <1>6, TopPlain, RunStep

\* A gate is left: what the thread held before.
LEMMA LastLeft ==
  ASSUME IInv, Top.pc \notin {"schedule", "loop", "leaving"}, Top.held # <<>>
  PROVE  LET h == Front(Top.held)
             e == Last(Top.held)
         IN  /\ h \in Seq(Held) /\ e \in Held /\ Top.held = Append(h, e)
             /\ HeldOK(h, Top.thread, pri) /\ EntryOK(h, e, Top.thread, pri)
             /\ SwiIn(Top.held) <=> SwiIn(h) \/ e.gate \in {"swi", "all"}
             /\ OuterIn(Top.held) <=> OuterIn(h) \/ e = Outer
             /\ OuterKey(Top.held) <=> OuterKey(h) \/ (e = Outer /\ SwiIn(h))
<1> DEFINE h == Front(Top.held)
           e == Last(Top.held)
<1>1. h \in Seq(Held) /\ e \in Held /\ Top.held = Append(h, e) /\ HeldOK(Top.held, Top.thread, pri)
  BY TopPlain, LastHeld
<1> HIDE DEF h, e
<1>2. /\ HeldOK(Append(h, e), Top.thread, pri) <=> HeldOK(h, Top.thread, pri) /\ EntryOK(h, e, Top.thread, pri)
      /\ SwiIn(Append(h, e)) <=> SwiIn(h) \/ e.gate \in {"swi", "all"}
      /\ OuterIn(Append(h, e)) <=> OuterIn(h) \/ e = Outer
      /\ OuterKey(Append(h, e)) <=> OuterKey(h) \/ (e = Outer /\ SwiIn(h))
  BY <1>1, OneMore
<1> QED BY <1>1, <1>2 DEF h, e

LEMMA CurQTyped == ASSUME IInv PROVE curQ \in Pri \cup {NoQ} /\ curQ \in Int /\ curQ <= curQ /\ curSwi \in Swis \cup {NoSwi}
  BY Typed DEF IInv, Pri, NoQ

LEMMA GateHwiLeaveIInv == ASSUME IInv, GateHwi_leave, UNCHANGED all PROVE IInv'
<1> DEFINE h == Front(Top.held)
           e == Last(Top.held)
           g == [Top EXCEPT !.held = Front(@), !.intr = e.key]
<1>1. /\ Top.pc = "run" /\ stack' = Append(Below, g) /\ UNCHANGED <<swiVars, curQ, curSwi, curTrigger, locked>>
      /\ Top.held # <<>> /\ e.gate = "hwi"
  BY DEF GateHwi_leave, At, Becomes, curVars, Holds
<1>2. /\ h \in Seq(Held) /\ e \in Held /\ HeldOK(h, Top.thread, pri) /\ EntryOK(h, e, Top.thread, pri)
      /\ SwiIn(Top.held) <=> SwiIn(h)
      /\ OuterIn(Top.held) <=> OuterIn(h)
      /\ OuterKey(Top.held) <=> OuterKey(h)
  BY <1>1, LastLeft DEF Outer
<1>3. e.key \in BOOLEAN /\ (OuterIn(h) => ~e.key)
  BY <1>1, <1>2, Entries DEF EntryOK
<1>4. /\ g \in Frames /\ g.thread = Top.thread /\ g.saved = Top.saved /\ g.key = Top.key /\ g.pc = "run"
      /\ g.held = h /\ g.intr = e.key
  <2> HIDE DEF e
  <2> QED BY <1>1, <1>2, <1>3, TopPlain DEF Frames
<1> HIDE DEF g, h, e
<1> QED BY <1>1, <1>2, <1>3, <1>4, CurQTyped, TopPlain, RunStep

LEMMA DisableReadIInv == ASSUME IInv, DisableRead, UNCHANGED all PROVE IInv'
<1> DEFINE g == [Top EXCEPT !.pc = "disable", !.key = locked]
<1>1. /\ Top.pc = "run" /\ Top.thread # Hwi /\ stack' = Append(Below, g)
      /\ UNCHANGED <<swiVars, curQ, curSwi, curTrigger, locked>>
  BY DEF DisableRead, At, Becomes, curVars
<1>2. /\ g \in Frames /\ g.thread = Top.thread /\ g.saved = Top.saved /\ g.pc = "disable"
      /\ g.held = Top.held /\ g.intr = Top.intr /\ g.key = locked
  BY <1>1, TopPlain DEF Frames, PCs
<1> HIDE DEF g
<1>3. HeldOK(g.held, g.thread, pri) /\ (g.key <=> SwiIn(g.held))
  BY <1>1, <1>2, TopPlain
<1>4. FrameOK(g, pri)
  BY <1>1, <1>2, <1>3 DEF FrameOK
<1>5. (Locks(g) <=> g.thread = Hwi \/ SwiIn(g.held)) /\ (Entered(g) <=> OuterIn(g.held))
  BY <1>2, <1>3, Plain
<1> QED BY <1>1, <1>2, <1>4, <1>5, CurQTyped, TopPlain, QuietStep

LEMMA DisableWriteIInv == ASSUME IInv, DisableWrite, UNCHANGED all PROVE IInv'
<1> DEFINE e == [gate |-> "swi", key |-> Top.key]
           g == [Top EXCEPT !.pc = "run", !.key = FALSE, !.held = Append(@, e)]
<1>1. /\ Top.pc = "disable" /\ stack' = Append(Below, g) /\ UNCHANGED <<swiVars, curQ, curSwi, curTrigger>>
      /\ locked' = TRUE
  BY DEF DisableWrite, At, Becomes, curVars
<1>2. e \in Held /\ e # Outer /\ e.gate = "swi"
  BY <1>1, TopPlain DEF Held, Outer
<1>3. EntryOK(Top.held, e, Top.thread, pri) /\ Top.thread # Hwi
  BY <1>1, TopPlain DEF EntryOK, FrameOK
<1> HIDE DEF e
<1>4. /\ Append(Top.held, e) \in Seq(Held) /\ HeldOK(Append(Top.held, e), Top.thread, pri)
      /\ SwiIn(Append(Top.held, e))
      /\ OuterIn(Append(Top.held, e)) <=> OuterIn(Top.held)
      /\ OuterKey(Append(Top.held, e)) <=> OuterKey(Top.held)
  BY <1>1, <1>2, <1>3, TopPlain, OneMore
<1>5. /\ g \in Frames /\ g.thread = Top.thread /\ g.saved = Top.saved /\ g.pc = "run"
      /\ g.held = Append(Top.held, e) /\ g.intr = Top.intr
  BY <1>1, <1>4, TopPlain DEF Frames, PCs
<1> HIDE DEF g
<1> QED BY <1>1, <1>3, <1>4, <1>5, CurQTyped, TopPlain, RunStep

\* TaskRestore leaves the thread where it is.
LEMMA Restored ==
  ASSUME NEW f \in Frames, NEW g \in TaskRestore(f)
  PROVE  /\ g \in Frames /\ g.thread = f.thread /\ g.pc = f.pc /\ g.key = f.key /\ g.on = f.on
         /\ g.saved = f.saved /\ g.held = f.held
<1>1. CASE g = f
  BY <1>1
<1>2. CASE g = [f EXCEPT !.intr = TRUE]
  BY <1>2 DEF Frames
<1> QED BY <1>1, <1>2 DEF TaskRestore

LEMMA SwiRestoreIInv == ASSUME IInv, Swi_restore, UNCHANGED all PROVE IInv'
<1> DEFINE h == Front(Top.held)
           e == Last(Top.held)
           f == [Top EXCEPT !.held = Front(@), !.pc = "run"]
           w == [f EXCEPT !.pc = "schedule"]
<1>1. /\ Top.pc \in {"run", "lowered"} /\ UNCHANGED <<swiVars, curQ, curSwi, curTrigger>>
      /\ Top.held # <<>> /\ e.gate = "swi"
      /\ \/ e.key /\ stack' = Append(Below, f) /\ locked' = locked
         \/ ~e.key /\ curSet # {} /\ stack' = Append(Below, w) /\ locked' = locked
         \/ ~e.key /\ curSet = {} /\ locked' = FALSE /\ \E g \in TaskRestore(f) : stack' = Append(Below, g)
  BY DEF Swi_restore, At, Becomes, curVars, Holds
<1>2. /\ h \in Seq(Held) /\ e \in Held /\ HeldOK(h, Top.thread, pri) /\ EntryOK(h, e, Top.thread, pri)
      /\ SwiIn(Top.held)
      /\ OuterIn(Top.held) <=> OuterIn(h)
      /\ OuterKey(Top.held) <=> OuterKey(h)
      /\ OuterIn(h) => SwiIn(h)
  BY <1>1, LastLeft, OuterIsIn DEF Outer
<1>3. e.key \in BOOLEAN /\ (SwiIn(h) <=> e.key) /\ Top.thread # Hwi
  BY <1>1, <1>2, Entries DEF EntryOK
<1>4. /\ f \in Frames /\ f.thread = Top.thread /\ f.saved = Top.saved /\ f.key = Top.key /\ f.pc = "run"
      /\ f.held = h /\ f.intr = Top.intr
      /\ w \in Frames /\ w.thread = Top.thread /\ w.saved = Top.saved /\ w.key = Top.key /\ w.pc = "schedule"
      /\ w.held = h /\ w.intr = Top.intr
  BY <1>1, <1>2, TopPlain DEF Frames, PCs
<1> HIDE DEF f, w, h, e
<1>5. CASE e.key /\ stack' = Append(Below, f) /\ locked' = locked
  BY <1>1, <1>2, <1>3, <1>4, <1>5, CurQTyped, TopPlain, RunStep
<1>6. CASE ~e.key /\ curSet # {} /\ stack' = Append(Below, w) /\ locked' = locked
  <2>1. ~LeavingAll(w)
    <3>1. SUFFICES ASSUME LeavingAll(w) PROVE FALSE
      OBVIOUS
    <3>2. h # <<>> /\ Last(h) = Outer
      BY <3>1, <1>4 DEF LeavingAll, Outer
    <3>3. h = Append(Front(h), Outer) /\ Front(h) \in Seq(Held) /\ Outer \in Held
      BY <3>2, <1>2, LastHeld DEF Held, Outer
    <3>4. SwiIn(h)
      BY <3>3, OneMore DEF Outer
    <3> QED BY <3>4, <1>3, <1>6
  <2>2. ~HoldsSwi(w) /\ ~Entered(w)
    BY <2>1, <1>2, <1>3, <1>4, <1>6, GatesOf
  <2>3. FrameOK(w, pri) /\ Locks(w)
    BY <2>2, <1>2, <1>3, <1>4 DEF FrameOK, Locks
  <2> QED BY <1>1, <1>2, <1>3, <1>4, <1>6, <2>2, <2>3, CurQTyped, TopPlain, QuietStep
<1>7. CASE ~e.key /\ curSet = {} /\ locked' = FALSE /\ \E g \in TaskRestore(f) : stack' = Append(Below, g)
  <2>1. PICK g \in TaskRestore(f) : stack' = Append(Below, g)
    BY <1>7
  <2>2. /\ g \in Frames /\ g.thread = Top.thread /\ g.saved = Top.saved /\ g.key = Top.key /\ g.pc = "run"
        /\ g.held = h
    BY <1>4, Restored
  <2> QED BY <1>1, <1>2, <1>3, <1>7, <2>1, <2>2, CurQTyped, TopPlain, RunStep
<1> QED BY <1>1, <1>5, <1>6, <1>7

LEMMA GateAllEnterIInv == ASSUME IInv, GateAll_enter PROVE IInv'
<1> DEFINE again == [gate |-> "all", key |-> TRUE]
           f == [Top EXCEPT !.held = Append(@, again)]
           g == [Top EXCEPT !.held = Append(@, [gate |-> "all", key |-> FALSE]), !.intr = FALSE]
<1>1. /\ Top.pc = "run" /\ UNCHANGED <<swiVars, curQ, curSwi, curTrigger>>
      /\ \/ all.entered /\ stack' = Append(Below, f) /\ locked' = locked /\ all' = all
         \/ /\ ~all.entered /\ stack' = Append(Below, g) /\ locked' = TRUE
            /\ all' = [entered |-> TRUE, hwiKey |-> Top.intr, swiKey |-> locked]
  BY DEF GateAll_enter, At, Becomes, curVars
<1>2. again \in Held /\ again # Outer /\ again.gate = "all" /\ again.key = TRUE /\ Outer \in Held /\ Outer.gate = "all"
  BY DEF Held, Outer
<1>3. CASE all.entered /\ stack' = Append(Below, f) /\ locked' = locked /\ all' = all
  <2>1. OuterIn(Top.held) /\ SwiIn(Top.held) /\ locked
    BY <1>1, <1>3, TopPlain, OuterIsIn
  <2>2. EntryOK(Top.held, again, Top.thread, pri)
    BY <1>2, <2>1 DEF EntryOK
  <2> HIDE DEF again
  <2>3. /\ Append(Top.held, again) \in Seq(Held) /\ HeldOK(Append(Top.held, again), Top.thread, pri)
        /\ SwiIn(Append(Top.held, again))
        /\ OuterIn(Append(Top.held, again))
        /\ OuterKey(Append(Top.held, again)) <=> OuterKey(Top.held)
    BY <1>1, <1>2, <2>1, <2>2, TopPlain, OneMore
  <2>4. /\ f \in Frames /\ f.thread = Top.thread /\ f.saved = Top.saved /\ f.key = Top.key /\ f.pc = "run"
        /\ f.held = Append(Top.held, again) /\ f.intr = Top.intr
    BY <1>1, <2>3, TopPlain DEF Frames
  <2> HIDE DEF f
  <2> QED BY <1>1, <1>3, <2>1, <2>3, <2>4, CurQTyped, TopPlain, RunStep
<1>4. CASE /\ ~all.entered /\ stack' = Append(Below, g) /\ locked' = TRUE
           /\ all' = [entered |-> TRUE, hwiKey |-> Top.intr, swiKey |-> locked]
  <2>1. ~OuterIn(Top.held) /\ ~OuterKey(Top.held)
    BY <1>1, <1>4, TopPlain, OutsideAll
  <2>2. EntryOK(Top.held, Outer, Top.thread, pri)
    BY <2>1 DEF EntryOK, Outer
  <2>3. /\ Append(Top.held, Outer) \in Seq(Held) /\ HeldOK(Append(Top.held, Outer), Top.thread, pri)
        /\ SwiIn(Append(Top.held, Outer))
        /\ OuterIn(Append(Top.held, Outer))
        /\ OuterKey(Append(Top.held, Outer)) <=> SwiIn(Top.held)
    BY <1>1, <1>2, <2>1, <2>2, TopPlain, OneMore
  <2>4. /\ g \in Frames /\ g.thread = Top.thread /\ g.saved = Top.saved /\ g.key = Top.key /\ g.pc = "run"
        /\ g.held = Append(Top.held, Outer) /\ g.intr = FALSE
    BY <1>1, <2>3, TopPlain DEF Frames, Outer
  <2> HIDE DEF g
  <2>5. /\ all' \in [entered : BOOLEAN, hwiKey : BOOLEAN, swiKey : BOOLEAN]
        /\ all'.entered /\ (all'.swiKey <=> Top.thread = Hwi \/ SwiIn(Top.held))
    BY <1>1, <1>4, TopPlain
  <2> QED BY <1>1, <1>4, <2>3, <2>4, <2>5, CurQTyped, TopPlain, RunStep
<1> QED BY <1>1, <1>3, <1>4

LEMMA GateAllLeaveIInv == ASSUME IInv, GateAll_leave PROVE IInv'
<1> DEFINE h == Front(Top.held)
           e == Last(Top.held)
           f == [Top EXCEPT !.held = Front(@)]
           w == [Top EXCEPT !.pc = "schedule"]
           v == [Top EXCEPT !.pc = "leaving"]
<1>1. /\ Top.pc = "run" /\ UNCHANGED <<swiVars, curQ, curSwi, curTrigger>>
      /\ Top.held # <<>> /\ e.gate = "all"
      /\ \/ e.key /\ stack' = Append(Below, f) /\ locked' = locked /\ all' = all
         \/ /\ ~e.key /\ all' = [all EXCEPT !.entered = FALSE]
            /\ \/ all.swiKey /\ stack' = Append(Below, v) /\ locked' = locked
               \/ ~all.swiKey /\ curSet # {} /\ stack' = Append(Below, w) /\ locked' = locked
               \/ ~all.swiKey /\ curSet = {} /\ locked' = FALSE /\ \E g \in TaskRestore(v) : stack' = Append(Below, g)
  BY DEF GateAll_leave, At, Becomes, curVars, Holds, Goto
<1>2. /\ h \in Seq(Held) /\ e \in Held /\ HeldOK(h, Top.thread, pri) /\ EntryOK(h, e, Top.thread, pri)
      /\ SwiIn(Top.held)
      /\ OuterIn(Top.held) <=> OuterIn(h) \/ e = Outer
      /\ OuterKey(Top.held) <=> OuterKey(h) \/ (e = Outer /\ SwiIn(h))
  BY <1>1, LastLeft
<1>3. e.key \in BOOLEAN /\ (OuterIn(h) <=> e.key) /\ (e = Outer <=> ~e.key)
  BY <1>1, <1>2, Entries DEF EntryOK
<1>4. locked
  BY <1>1, <1>2, TopPlain
<1>5. CASE e.key /\ stack' = Append(Below, f) /\ locked' = locked /\ all' = all
  <2>1. /\ f \in Frames /\ f.thread = Top.thread /\ f.saved = Top.saved /\ f.key = Top.key /\ f.pc = "run"
        /\ f.held = h /\ f.intr = Top.intr
    BY <1>1, <1>2, TopPlain DEF Frames
  <2> HIDE DEF f, h, e
  <2>2. SwiIn(h)
    BY <1>3, <1>5, OuterIsIn
  <2> QED BY <1>1, <1>2, <1>3, <1>4, <1>5, <2>1, <2>2, CurQTyped, TopPlain, RunStep
<1>6. CASE ~e.key /\ all' = [all EXCEPT !.entered = FALSE]
  <2>1. /\ v \in Frames /\ v.thread = Top.thread /\ v.saved = Top.saved /\ v.key = Top.key /\ v.pc = "leaving"
        /\ v.held = Top.held /\ v.intr = Top.intr
        /\ w \in Frames /\ w.thread = Top.thread /\ w.saved = Top.saved /\ w.key = Top.key /\ w.pc = "schedule"
        /\ w.held = Top.held /\ w.intr = Top.intr
    BY <1>1, TopPlain DEF Frames, PCs
  <2>2. e = Outer /\ OuterIn(Top.held) /\ all.entered /\ ~OuterIn(h) /\ HeldOK(Top.held, Top.thread, pri)
    BY <1>1, <1>2, <1>3, <1>6, TopPlain
  <2>3. ~OuterKey(h)
    BY <1>2, <2>2, OutsideAll
  <2>4. all.swiKey <=> Top.thread = Hwi \/ SwiIn(h)
    BY <1>1, <1>2, <2>2, <2>3, TopPlain
  <2>5. all' \in [entered : BOOLEAN, hwiKey : BOOLEAN, swiKey : BOOLEAN] /\ ~all'.entered
    BY <1>1, <1>6, TopPlain
  <2>6. \A g \in {v, w} \cup TaskRestore(v) :
          g \in Frames /\ g.thread = Top.thread /\ g.saved = Top.saved /\ g.key = Top.key
          /\ g.held = Top.held /\ g.pc \in {"leaving", "schedule"}
    BY <2>1, Restored
  <2>7. \A g \in {v, w} \cup TaskRestore(v) : LeavingAll(g) /\ (HoldsSwi(g) <=> SwiIn(h)) /\ ~Entered(g)
    <3>1. TAKE g \in {v, w} \cup TaskRestore(v)
    <3>2. LeavingAll(g)
      BY <1>1, <2>2, <2>6 DEF LeavingAll, Outer
    <3> QED BY <3>2, <2>2, <2>6, GatesOf
  <2> HIDE DEF v, w, h, e
  <2>8. CASE all.swiKey /\ stack' = Append(Below, v) /\ locked' = locked
    <3>1. FrameOK(v, pri) /\ Locks(v)
      BY <1>1, <2>1, <2>2, <2>4, <2>7, <2>8 DEF FrameOK, Locks, e
    <3> QED BY <1>1, <1>4, <2>1, <2>5, <2>7, <2>8, <3>1, CurQTyped, TopPlain, QuietStep
  <2>9. CASE ~all.swiKey /\ curSet # {} /\ stack' = Append(Below, w) /\ locked' = locked
    <3>1. FrameOK(w, pri) /\ Locks(w)
      BY <1>1, <2>1, <2>2, <2>4, <2>7, <2>9 DEF FrameOK, Locks
    <3> QED BY <1>1, <1>4, <2>1, <2>5, <2>7, <2>9, <3>1, CurQTyped, TopPlain, QuietStep
  <2>10. CASE ~all.swiKey /\ curSet = {} /\ locked' = FALSE /\ \E g \in TaskRestore(v) : stack' = Append(Below, g)
    <3>1. PICK g \in TaskRestore(v) : stack' = Append(Below, g)
      BY <2>10
    <3>2. g.pc = "leaving"
      BY <2>1, Restored
    <3>3. FrameOK(g, pri) /\ ~Locks(g)
      BY <1>1, <2>2, <2>4, <2>6, <2>7, <2>10, <3>2 DEF FrameOK, Locks, e
    <3> QED BY <1>1, <2>5, <2>6, <2>7, <2>10, <3>1, <3>2, <3>3, CurQTyped, TopPlain, QuietStep
  <2> QED BY <1>1, <1>6, <2>8, <2>9, <2>10 DEF e, v, w
<1> QED BY <1>1, <1>5, <1>6

LEMMA GateAllLeftIInv == ASSUME IInv, GateAll_left PROVE IInv'
<1> DEFINE h == Front(Top.held)
           g == [Top EXCEPT !.pc = "run", !.held = Front(@), !.intr = all.hwiKey]
<1>1. /\ Top.pc = "leaving" /\ UNCHANGED <<swiVars, curQ, curSwi, curTrigger, locked, all>>
      /\ stack' = Append(Below, g)
  BY DEF GateAll_left, At, Becomes, curVars
<1>2. Top \in Frames /\ FrameOK(Top, pri) /\ Top.held # <<>> /\ Last(Top.held) = Outer /\ Top.held \in Seq(Held)
  BY <1>1, TopAndBelow, FrameTypes DEF FrameOK
<1>3. LeavingAll(Top) /\ HeldOK(Top.held, Top.thread, pri)
  BY <1>1, <1>2 DEF LeavingAll, Outer, FrameOK
<1>4. (HoldsSwi(Top) <=> SwiIn(h)) /\ ~Entered(Top) /\ ~OuterIn(h)
  BY <1>2, <1>3, GatesOf
<1>5. ~all.entered /\ (locked <=> Top.thread = Hwi \/ SwiIn(h))
  BY <1>1, <1>4 DEF IInv, TopOK, Locks
<1>6. h \in Seq(Held) /\ HeldOK(h, Top.thread, pri)
  <2>1. h \in Seq(Held) /\ Last(Top.held) \in Held /\ Top.held = Append(h, Last(Top.held))
    BY <1>2, LastHeld
  <2> HIDE DEF h
  <2> QED BY <2>1, <1>3, OneMore
<1>7. locked \in BOOLEAN /\ all \in [entered : BOOLEAN, hwiKey : BOOLEAN, swiKey : BOOLEAN]
  BY Typed DEF IInv
<1>8. /\ g \in Frames /\ g.thread = Top.thread /\ g.saved = Top.saved /\ g.key = Top.key /\ g.pc = "run"
      /\ g.held = h
  BY <1>2, <1>6, <1>7 DEF Frames, PCs
<1> HIDE DEF g, h
<1> QED BY <1>1, <1>4, <1>5, <1>6, <1>7, <1>8, CurQTyped, RunStep

LEMMA SwiRaisePriIInv == ASSUME IInv, NEW p \in Pri, Swi_raisePri(p), UNCHANGED all PROVE IInv'
<1> DEFINE e == [gate |-> "pri", key |-> pri[curSwi]]
           g == [Top EXCEPT !.held = Append(@, e)]
<1>1. /\ Top.pc = "run" /\ Top.thread \in Swis /\ stack' = Append(Below, g) /\ UNCHANGED <<swiVars, curSwi, curTrigger, locked>>
      /\ curQ' = IF p > curQ THEN p ELSE curQ
  BY DEF Swi_raisePri, At, Becomes
<1>2. curSwi = Top.thread /\ pri[Top.thread] <= curQ
  <2>1. StartedSwis(stack) = Append(StartedSwis(Below), Top) /\ StartedSwis(Below) \in Seq(Frames) /\ Top \in Frames
    BY <1>1, TopAndBelow
  <2>2. IsCurrent(StartedSwis(stack), curSwi, curQ, pri)
    BY DEF IInv, CurOK
  <2> QED BY <2>1, <2>2, SavedMore
<1>3. pri[Top.thread] \in Pri
  BY <1>1, Typed DEF IInv, SwisTyped
<1>4. e \in Held /\ e # Outer /\ e.gate = "pri" /\ e.key = pri[Top.thread]
  BY <1>2, <1>3 DEF Held, Outer
<1> HIDE DEF e
<1>5. EntryOK(Top.held, e, Top.thread, pri)
  BY <1>1, <1>4 DEF EntryOK
<1>6. /\ Append(Top.held, e) \in Seq(Held) /\ HeldOK(Append(Top.held, e), Top.thread, pri)
      /\ SwiIn(Append(Top.held, e)) <=> SwiIn(Top.held)
      /\ OuterIn(Append(Top.held, e)) <=> OuterIn(Top.held)
      /\ OuterKey(Append(Top.held, e)) <=> OuterKey(Top.held)
  BY <1>1, <1>4, <1>5, TopPlain, OneMore
<1>7. /\ g \in Frames /\ g.thread = Top.thread /\ g.saved = Top.saved /\ g.key = Top.key /\ g.pc = "run"
      /\ g.held = Append(Top.held, e) /\ g.intr = Top.intr
  BY <1>1, <1>6, TopPlain DEF Frames
<1> HIDE DEF g
<1>8. curQ' \in Pri \cup {NoQ} /\ curQ <= curQ' /\ pri[Top.thread] <= curQ'
  BY <1>1, <1>2, <1>3, CurQTyped DEF Pri, NoQ
<1> QED BY <1>1, <1>6, <1>7, <1>8, CurQTyped, TopPlain, RunStep

LEMMA LowerReadIInv == ASSUME IInv, LowerRead, UNCHANGED all PROVE IInv'
<1> DEFINE g == [Top EXCEPT !.pc = "lowering", !.key = locked]
<1>1. /\ Top.pc = "run" /\ Holds(Top, "pri") /\ stack' = Append(Below, g)
      /\ UNCHANGED <<swiVars, curQ, curSwi, curTrigger, locked>>
  BY DEF LowerRead, At, Becomes, curVars
<1>2. /\ g \in Frames /\ g.thread = Top.thread /\ g.saved = Top.saved /\ g.pc = "lowering"
      /\ g.held = Top.held /\ g.intr = Top.intr /\ g.key = locked
  BY <1>1, TopPlain DEF Frames, PCs
<1> HIDE DEF g
<1>3. Top.thread \in Swis /\ Top.thread # Hwi
  BY <1>1, LastLeft, SwiAssumption DEF EntryOK, Holds
<1>4. HeldOK(g.held, g.thread, pri) /\ (g.key <=> SwiIn(g.held)) /\ Holds(g, "pri")
  BY <1>1, <1>2, <1>3, TopPlain DEF Holds
<1>5. FrameOK(g, pri)
  BY <1>2, <1>3, <1>4 DEF FrameOK
<1>6. (Locks(g) <=> g.thread = Hwi \/ SwiIn(g.held)) /\ (Entered(g) <=> OuterIn(g.held))
  BY <1>2, <1>4, Plain
<1> QED BY <1>1, <1>2, <1>3, <1>5, <1>6, CurQTyped, TopPlain, QuietStep

LEMMA LowerWriteIInv == ASSUME IInv, LowerWrite, UNCHANGED all PROVE IInv'
<1> DEFINE h == Front(Top.held)
           e == [gate |-> "swi", key |-> Top.key]
           z == Append(h, e)
           g == [Top EXCEPT !.pc = "lowered", !.key = FALSE, !.held = Append(Front(@), e)]
<1>1. /\ Top.pc = "lowering" /\ stack' = Append(Below, g) /\ UNCHANGED <<swiVars, curSwi, curTrigger>>
      /\ locked' = TRUE /\ curQ' = Last(Top.held).key
  BY DEF LowerWrite, At, Becomes
<1>2. Top.held # <<>> /\ Last(Top.held).gate = "pri" /\ (Top.key <=> SwiIn(Top.held))
  BY <1>1, TopPlain DEF FrameOK, Holds
<1>3. /\ h \in Seq(Held) /\ HeldOK(h, Top.thread, pri)
      /\ Top.thread \in Swis /\ Last(Top.held).key = pri[Top.thread]
      /\ SwiIn(Top.held) <=> SwiIn(h)
      /\ OuterIn(Top.held) <=> OuterIn(h)
      /\ OuterKey(Top.held) <=> OuterKey(h)
  BY <1>1, <1>2, LastLeft DEF EntryOK, Outer
<1>4. e \in Held /\ e # Outer /\ e.gate = "swi" /\ e.key = Top.key /\ Top.thread # Hwi
  BY <1>1, <1>3, TopPlain, SwiAssumption DEF Held, Outer
<1> HIDE DEF h, e
<1>5. EntryOK(h, e, Top.thread, pri)
  BY <1>2, <1>3, <1>4 DEF EntryOK
<1>6. /\ z \in Seq(Held) /\ HeldOK(z, Top.thread, pri) /\ z # <<>> /\ Last(z) = e
      /\ SwiIn(z)
      /\ OuterIn(z) <=> OuterIn(Top.held)
      /\ OuterKey(z) <=> OuterKey(Top.held)
  BY <1>3, <1>4, <1>5, OneMore
<1>7. /\ g \in Frames /\ g.thread = Top.thread /\ g.saved = Top.saved /\ g.pc = "lowered"
      /\ g.held = z /\ g.intr = Top.intr
  BY <1>1, <1>6, TopPlain DEF Frames, PCs, h
<1> HIDE DEF g, z
<1>8. FrameOK(g, pri)
  BY <1>4, <1>6, <1>7 DEF FrameOK, Holds
<1>9. (Locks(g) <=> g.thread = Hwi \/ SwiIn(g.held)) /\ (Entered(g) <=> OuterIn(g.held))
  BY <1>6, <1>7, Plain
<1>10. curQ' = pri[Top.thread] /\ curQ' \in Pri \cup {NoQ} /\ curQ' <= curQ'
  <2>1. pri[Top.thread] \in Pri
    BY <1>3, Typed DEF IInv, SwisTyped
  <2> QED BY <2>1, <1>1, <1>3 DEF Pri
<1> QED BY <1>1, <1>3, <1>4, <1>6, <1>7, <1>8, <1>9, <1>10, TopPlain, QuietStep

-----------------------------------------------------------------------------
(* Swi_post and the triggers.                                              *)

\* A factor that is at least another.
LEMMA Products == ASSUME NEW m \in Nat, NEW a \in Int, NEW b \in Int, a <= b PROVE m * a <= m * b
<1>1. m * (b - a) >= 0
  <2>1. b - a \in Nat
    OBVIOUS
  <2>2. \A x, y \in Nat : x * y >= 0
    OBVIOUS
  <2> QED BY <2>1, <2>2
<1>2. m * (b - a) = m * b - m * a
  OBVIOUS
<1>3. m * a \in Int /\ m * b \in Int
  OBVIOUS
<1> QED BY <1>1, <1>2, <1>3

LEMMA Divided ==
  ASSUME NEW x \in Nat, NEW k \in Nat, k > 0
  PROVE  x \div k \in Nat /\ x = k * (x \div k) + (x % k) /\ x % k \in 0 .. k - 1
  OBVIOUS

\* Swi_or and Swi_andn set and clear one bit of a UInt.
LEMMA BitsKept ==
  ASSUME NEW m \in Masks, NEW n \in Triggers
  PROVE  /\ n + m * (1 - Bit(n, m)) \in Triggers
         /\ n - m * Bit(n, m) \in Triggers
<1> DEFINE L == TriggerLimit
           d == n \div m
           r == n % m
           c == L \div (2 * m)
<1>1. L \in Nat /\ L > 0 /\ m \in Nat /\ m > 0 /\ 2 * m \in Nat /\ 2 * m > 0 /\ n \in Nat /\ n < L /\ L % (2 * m) = 0
  BY SwiAssumption, MasksAssumption DEF Masks, Triggers
<1>2. d \in Nat /\ n = m * d + r /\ r \in 0 .. m - 1
  BY <1>1
<1>3. c \in Nat /\ L = (2 * m) * c
  <2>1. c \in Nat /\ L = (2 * m) * c + (L % (2 * m))
    <3> HIDE DEF L
    <3> QED BY <1>1, Divided DEF c
  <2> QED BY <2>1, <1>1
<1>4. L = m * (2 * c)
  BY <1>1, <1>3
<1> HIDE DEF L, d, r, c
<1>5. m * d \in Nat /\ m * (2 * c) \in Nat
  BY <1>1, <1>2, <1>3
<1>6. d < 2 * c
  <2>1. SUFFICES ASSUME ~(d < 2 * c) PROVE FALSE
    OBVIOUS
  <2>2. m * (2 * c) <= m * d
    BY <2>1, <1>1, <1>2, <1>3, Products
  <2> QED BY <2>2, <1>1, <1>2, <1>4, <1>5
<1>7. Bit(n, m) = d % 2 /\ d % 2 \in {0, 1}
  BY <1>1, <1>2 DEF Bit, d
<1>8. CASE d % 2 = 0
  <2>1. d + 2 <= 2 * c
    BY <1>2, <1>3, <1>6, <1>8
  <2>2. m * (d + 2) <= m * (2 * c)
    BY <2>1, <1>1, <1>2, <1>3, Products
  <2>3. m * (d + 2) = m * d + 2 * m
    BY <1>1, <1>2
  <2>4. n + m < L
    BY <2>2, <2>3, <1>1, <1>2, <1>4, <1>5
  <2>5. m * (1 - Bit(n, m)) = m /\ m * Bit(n, m) = 0
    BY <1>1, <1>7, <1>8
  <2> QED BY <2>4, <2>5, <1>1 DEF Triggers, L
<1>9. CASE d % 2 = 1
  <2>1. d >= 1
    BY <1>2, <1>9
  <2>2. m * 1 <= m * d
    BY <2>1, <1>1, <1>2, Products
  <2>3. n - m \in Nat
    BY <2>2, <1>1, <1>2, <1>5
  <2>4. m * (1 - Bit(n, m)) = 0 /\ m * Bit(n, m) = m
    BY <1>1, <1>7, <1>9
  <2> QED BY <2>3, <2>4, <1>1 DEF Triggers, L
<1> QED BY <1>7, <1>8, <1>9

LEMMA SwiPostIInv == ASSUME IInv, NEW s \in Swis, Swi_post(s), UNCHANGED all PROVE IInv'
<1> DEFINE f == [Top EXCEPT !.pc = "run", !.on = NoSwi]
           w == [Top EXCEPT !.pc = "schedule", !.on = NoSwi]
<1>1. /\ Top.pc \in {"run", "post"} /\ UNCHANGED <<curQ, curSwi, curTrigger, trigger, pri, initTrigger>>
      /\ \/ posted[s] /\ stack' = Append(Below, f) /\ UNCHANGED <<link, curSet, locked, posted>>
         \/ /\ ~posted[s] /\ locked' = TRUE
            /\ posted' = [posted EXCEPT ![s] = TRUE]
            /\ link' = Queue_put(link, pri[s], s) /\ curSet' = curSet \cup {pri[s]}
            /\ IF locked THEN stack' = Append(Below, f) ELSE stack' = Append(Below, w)
  BY DEF Swi_post, At, Becomes, curVars, attrVars
<1>2. /\ f \in Frames /\ f.thread = Top.thread /\ f.saved = Top.saved /\ f.key = Top.key /\ f.pc = "run"
      /\ f.held = Top.held /\ f.intr = Top.intr
      /\ w \in Frames /\ w.thread = Top.thread /\ w.saved = Top.saved /\ w.key = Top.key /\ w.pc = "schedule"
      /\ w.held = Top.held /\ w.intr = Top.intr
  BY <1>1, TopPlain DEF Frames, PCs
<1> HIDE DEF f, w
<1>3. CASE posted[s] /\ stack' = Append(Below, f) /\ UNCHANGED <<link, curSet, locked, posted>>
  BY <1>1, <1>2, <1>3, CurQTyped, TopPlain, RunStep DEF swiVars, attrVars
<1>4. CASE ~posted[s] /\ locked' = TRUE /\ posted' = [posted EXCEPT ![s] = TRUE]
           /\ link' = Queue_put(link, pri[s], s) /\ curSet' = curSet \cup {pri[s]}
           /\ IF locked THEN stack' = Append(Below, f) ELSE stack' = Append(Below, w)
  <2>1. SwisTyped' /\ ListsOK'
    BY <1>1, <1>4, Typed, ListPut DEF IInv
  <2>2. NoneAbove' /\ curTrigger' \in Triggers /\ curQ' \in Pri \cup {NoQ}
    BY <1>1, <1>4, Typed DEF IInv, NoneAbove
  <2>3. CASE locked
    <3>1. FrameOK(f, pri) /\ (Locks(f) <=> f.thread = Hwi \/ SwiIn(f.held)) /\ (Entered(f) <=> OuterIn(f.held))
      BY <1>1, <1>2, TopPlain, Plain
    <3> QED BY <1>1, <1>2, <1>4, <2>1, <2>2, <2>3, <3>1, TopPlain, TopStep
  <2>4. CASE ~locked
    <3>1. Top.thread # Hwi /\ ~SwiIn(Top.held) /\ ~OuterIn(Top.held) /\ HeldOK(Top.held, Top.thread, pri)
      BY <1>1, <2>4, TopPlain, OuterIsIn
    <3>2. ~LeavingAll(w)
      <4>1. SUFFICES ASSUME LeavingAll(w) PROVE FALSE
        OBVIOUS
      <4>2. Top.held # <<>> /\ Last(Top.held) = Outer
        BY <4>1, <1>2 DEF LeavingAll, Outer
      <4> QED BY <4>2, <3>1, <1>1, LastLeft
    <3>3. ~HoldsSwi(w) /\ ~Entered(w)
      BY <3>1, <3>2, <1>2, GatesOf
    <3>4. FrameOK(w, pri) /\ Locks(w)
      BY <1>2, <3>1, <3>3 DEF FrameOK, Locks
    <3> QED BY <1>1, <1>2, <1>4, <2>1, <2>2, <2>4, <3>1, <3>3, <3>4, TopPlain, TopStep
  <2> QED BY <2>3, <2>4
<1> QED BY <1>1, <1>3, <1>4

LEMMA SetTriggerIInv ==
  ASSUME IInv, Top.pc = "run", NEW s \in Swis, NEW n \in Triggers, NEW post \in BOOLEAN,
         SetTrigger(s, n, post), UNCHANGED all
  PROVE  IInv'
<1> DEFINE g == [Top EXCEPT !.pc = "post", !.on = s]
<1>1. /\ UNCHANGED <<link, curSet, curQ, curSwi, curTrigger, locked, posted, pri, initTrigger>>
      /\ trigger' = [trigger EXCEPT ![s] = n]
      /\ stack' = Append(Below, g) \/ stack' = stack
  BY DEF SetTrigger, Becomes, curVars, attrVars
<1>2. SwisTyped' /\ ListsOK'
  <2>1. SwisTyped /\ ListsOK
    BY Typed DEF IInv
  <2>2. pri' \in [Swis -> Pri] /\ trigger' \in [Swis -> Triggers] /\ initTrigger' \in [Swis -> Triggers]
    BY <1>1, <2>1 DEF SwisTyped
  <2> QED BY <2>1, <2>2, <1>1, ListsKept
<1>3. NoneAbove' /\ curTrigger' \in Triggers /\ curQ' \in Pri \cup {NoQ}
  BY <1>1, Typed DEF IInv, NoneAbove
<1>4. CASE stack' = Append(Below, g)
  <2>1. /\ g \in Frames /\ g.thread = Top.thread /\ g.saved = Top.saved /\ g.key = Top.key /\ g.pc = "post"
        /\ g.held = Top.held /\ g.intr = Top.intr /\ g.on = s
    BY TopPlain DEF Frames, PCs
  <2> HIDE DEF g
  <2>2. (Locks(g) <=> g.thread = Hwi \/ SwiIn(g.held)) /\ (Entered(g) <=> OuterIn(g.held))
    BY <2>1, TopPlain, Plain
  <2>3. FrameOK(g, pri)
    BY <2>1, TopPlain DEF FrameOK
  <2> QED BY <1>1, <1>2, <1>3, <1>4, <2>1, <2>2, <2>3, TopPlain, TopStep
<1>5. CASE stack' = stack
  <2>1. stack' = Append(Below, Top) /\ Top \in Frames /\ FrameOK(Top, pri)
    BY <1>5, TopAndBelow
  <2>2. (Locks(Top) <=> Top.thread = Hwi \/ SwiIn(Top.held)) /\ (Entered(Top) <=> OuterIn(Top.held))
    BY <2>1, TopPlain, Plain
  <2> QED BY <1>1, <1>2, <1>3, <2>1, <2>2, TopPlain, TopStep
<1> QED BY <1>1, <1>4, <1>5

LEMMA TriggersIInv ==
  ASSUME IInv, NEW s \in Swis, UNCHANGED all,
         \/ Swi_inc(s) \/ Swi_dec(s)
         \/ \E m \in Masks : Swi_or(s, m) \/ Swi_andn(s, m)
  PROVE  IInv'
<1> DEFINE n == trigger[s]
<1>1. n \in Triggers
  BY Typed DEF IInv, SwisTyped
<1>2. (n + 1) % TriggerLimit \in Triggers /\ (n # 0 => n - 1 \in Triggers)
  <2>1. TriggerLimit \in Nat /\ TriggerLimit > 0 /\ n \in Nat /\ n < TriggerLimit
    BY <1>1, SwiAssumption DEF Triggers
  <2> QED BY <2>1 DEF Triggers
<1>3. CASE Swi_inc(s)
  BY <1>1, <1>2, <1>3, SetTriggerIInv DEF Swi_inc, At
<1>4. CASE Swi_dec(s)
  BY <1>1, <1>2, <1>4, SetTriggerIInv DEF Swi_dec, At
<1>5. ASSUME NEW m \in Masks, Swi_or(s, m) PROVE IInv'
  BY <1>1, <1>5, BitsKept, SetTriggerIInv DEF Swi_or, At
<1>6. ASSUME NEW m \in Masks, Swi_andn(s, m) PROVE IInv'
  BY <1>1, <1>6, BitsKept, SetTriggerIInv DEF Swi_andn, At
<1> QED BY <1>3, <1>4, <1>5, <1>6

-----------------------------------------------------------------------------
(* The attributes.                                                         *)

\* A Swi that does not run is at no place where its priority matters.
LEMMA PriOfIdle ==
  ASSUME IInv, NEW s \in Swis, ~Running(s), NEW level, \A t \in Swis \ {s} : level[t] = pri[t]
  PROVE  /\ ThreadsOK(stack, level)
         /\ IsCurrent(StartedSwis(stack), curSwi, curQ, level) /\ SavedOK(StartedSwis(stack), level)
<1>1. stack \in Seq(Frames) /\ ThreadsOK(stack, pri)
  BY Typed DEF IInv
<1>2. ThreadsOK(stack, level)
  <2>1. ASSUME NEW i \in DOMAIN stack PROVE FrameOK(stack[i], level)
    <3>1. FrameOK(stack[i], pri) /\ stack[i].thread # s
      BY <1>1, <2>1 DEF ThreadsOK, Running
    <3>2. HeldOK(stack[i].held, stack[i].thread, level)
      BY <3>1 DEF FrameOK, HeldOK, EntryOK
    <3> QED BY <3>1, <3>2 DEF FrameOK
  <2> QED BY <1>1, <2>1 DEF ThreadsOK
<1> DEFINE fr == StartedSwis(stack)
<1>3. /\ fr \in Seq(Frames)
      /\ \A i \in DOMAIN fr : fr[i].thread \in Swis \ {s}
  <2>1. fr \in Seq(Frames) /\ \A i \in DOMAIN fr : fr[i].thread \in Swis
    BY <1>1, StartedAre
  <2>2. ~\E i \in DOMAIN fr : fr[i].thread = s
    BY <1>1, StartedAre DEF Running
  <2> QED BY <2>1, <2>2
<1>4. IsCurrent(fr, curSwi, curQ, pri) /\ SavedOK(fr, pri)
  BY DEF IInv, CurOK
<1> HIDE DEF fr
<1>5. \A i \in DOMAIN fr : level[fr[i].thread] = pri[fr[i].thread]
  BY <1>3
<1>6. fr # <<>> => Last(fr) = fr[Len(fr)] /\ Len(fr) \in DOMAIN fr
  BY <1>3 DEF Last
<1>7. IsCurrent(fr, curSwi, curQ, level)
  BY <1>4, <1>5, <1>6 DEF IsCurrent
<1>8. SavedOK(fr, level)
  <2>1. \A i \in 1 .. Len(fr) - 1 : i \in DOMAIN fr
    BY <1>3
  <2> QED BY <2>1, <1>4, <1>5 DEF SavedOK
<1> QED BY <1>2, <1>7, <1>8 DEF fr

LEMMA AttrsIInv ==
  ASSUME IInv, NEW s \in Swis, AtRest(s), UNCHANGED <<link, curSet, curQ, curSwi, curTrigger, locked, stack, all, posted>>,
         NEW p \in Pri, pri' = [pri EXCEPT ![s] = p],
         trigger' \in [Swis -> Triggers], initTrigger' \in [Swis -> Triggers]
  PROVE  IInv'
<1>1. SwisTyped /\ ListsOK /\ ~posted[s] /\ ~Running(s) /\ NoneAbove
  BY Typed DEF IInv, AtRest
<1>2. pri' \in [Swis -> Pri] /\ \A t \in Swis \ {s} : pri'[t] = pri[t]
  BY <1>1 DEF SwisTyped
<1>3. SwisTyped' /\ ListsOK'
  <2>1. \A t \in Swis : posted[t] => pri'[t] = pri[t]
    BY <1>1, <1>2
  <2> QED BY <2>1, <1>1, <1>2, ListsKept
<1>4. TypeOK'
  BY <1>3, Typed, TypedNext DEF IInv
<1>5. ThreadsOK(stack', pri') /\ CurOK'
  BY <1>1, <1>2, PriOfIdle DEF CurOK
<1>6. TopOK' /\ NoneAbove'
  BY <1>1 DEF IInv, TopOK, NoneAbove, Top
<1> QED BY <1>3, <1>4, <1>5, <1>6 DEF IInv

LEMMA SwiSetPriIInv == ASSUME IInv, NEW s \in Swis, NEW p \in Levels[s], Swi_setPri(s, p), UNCHANGED all PROVE IInv'
<1>1. p \in Pri
  BY SwiAssumption
<1> QED BY <1>1, Typed, AttrsIInv DEF Swi_setPri, curVars, IInv, SwisTyped

\* An element that is on no list points to itself.
LEMMA SetAttrsKeepsLink ==
  ASSUME TypeOK, ~LateSetAttrs, NEW s \in Swis, NEW p, NEW n, Swi_setAttrs(s, p, n)
  PROVE  link' = link
<1>1. SwisTyped /\ s \in Nodes
  BY Typed, NodesAre
<1>2. link.next[s] = s /\ link.prev[s] = s /\ link' = Queue_remove(link, s)
  BY DEF Swi_setAttrs, Queue_isQueued
<1>3. [link.next EXCEPT ![s] = s] = link.next /\ [link.prev EXCEPT ![s] = s] = link.prev
  BY <1>1, <1>2 DEF SwisTyped
<1>4. link' = [next |-> link.next, prev |-> link.prev]
  BY <1>2, <1>3 DEF Queue_remove
<1> QED BY <1>1, <1>4 DEF SwisTyped

LEMMA SwiSetAttrsIInv ==
  ASSUME IInv, ~LateSetAttrs, NEW s \in Swis, NEW p \in Levels[s], NEW n \in Starts, Swi_setAttrs(s, p, n), UNCHANGED all
  PROVE  IInv'
<1>1. p \in Pri /\ n \in Triggers
  BY SwiAssumption
<1>2. SwisTyped
  BY Typed DEF IInv
<1>3. link' = link
  BY SetAttrsKeepsLink DEF IInv
<1>4. posted' = posted
  BY <1>2 DEF Swi_setAttrs, AtRest, SwisTyped
<1>5. trigger' \in [Swis -> Triggers] /\ initTrigger' \in [Swis -> Triggers]
  BY <1>1, <1>2 DEF Swi_setAttrs, SwisTyped
<1>6. AtRest(s) /\ pri' = [pri EXCEPT ![s] = p] /\ UNCHANGED <<curSet, curQ, curSwi, curTrigger, locked, stack>>
  BY DEF Swi_setAttrs, curVars
<1> QED BY <1>1, <1>3, <1>4, <1>5, <1>6, AttrsIInv

-----------------------------------------------------------------------------
(* The interrupts.                                                         *)

LEMMA HwiEnterIInv == ASSUME IInv, HwiEnter, UNCHANGED all PROVE IInv'
<1> DEFINE g == Started(Hwi, locked)
<1>1. /\ Top.intr /\ stack' = Append(stack, g) /\ locked' = TRUE
      /\ UNCHANGED <<link, curSet, posted, trigger, pri, initTrigger, curQ, curSwi, curTrigger>>
  BY DEF HwiEnter, curVars, swiVars, attrVars
<1>2. TypeOK /\ stack \in Seq(Frames) /\ SwisTyped /\ ListsOK /\ ThreadsOK(stack, pri) /\ TopOK /\ CurOK
  BY Typed DEF IInv
<1>3. /\ g \in Frames /\ g.thread = Hwi /\ g.pc = "run" /\ g.key = locked /\ g.held = <<>>
  <2>1. NoSaved \in Saved
    BY SwiAssumption DEF NoSaved, Saved, Triggers
  <2> QED BY <2>1, <1>2 DEF Started, Frames, PCs, TypeOK
<1> HIDE DEF g
<1>4. HeldOK(g.held, g.thread, pri) /\ ~OuterIn(g.held)
  BY <1>3, NoneHeld
<1>5. FrameOK(g, pri) /\ Locks(g) /\ ~Entered(g)
  BY <1>3, <1>4, Plain
<1>6. Hwi \notin Swis /\ Hwi # Task /\ stack # <<>>
  BY <1>2, SwiAssumption DEF TopOK
<1>7. ~all.entered /\ ~Entered(Top)
  BY <1>1, <1>2 DEF TopOK
<1>8. OnTop(Top, g)
  BY <1>2, <1>3, <1>6, <1>7 DEF OnTop, TopOK
<1>9. ThreadsOK(stack', pri') /\ stack' \in Seq(Frames) /\ stack' # <<>> /\ Top' = g
  BY <1>1, <1>2, <1>3, <1>5, <1>6, <1>8, OneMoreThread DEF Top
<1>10. StartedSwis(stack') = StartedSwis(stack)
  BY <1>1, <1>2, <1>3, <1>6, StartedMore
<1>11. SwisTyped' /\ ListsOK'
  BY <1>1, <1>2, ListsKept DEF SwisTyped
<1>12. TypeOK'
  BY <1>1, <1>2, <1>9, <1>11, Typed, TypedNext
<1>13. TopOK'
  BY <1>1, <1>3, <1>5, <1>7, <1>9 DEF TopOK
<1>14. CurOK' /\ NoneAbove'
  BY <1>1, <1>2, <1>10 DEF CurOK, NoneAbove
<1> QED BY <1>9, <1>11, <1>12, <1>13, <1>14 DEF IInv

LEMMA HwiReturnIInv == ASSUME IInv, HwiReturn, UNCHANGED all PROVE IInv'
<1> DEFINE w == [Top EXCEPT !.pc = "window"]
<1>1. /\ Top.thread = Hwi /\ Top.pc = "run" /\ Top.held = <<>>
      /\ UNCHANGED <<link, curSet, posted, trigger, pri, initTrigger, curQ, curSwi, curTrigger>>
      /\ \/ Top.key /\ stack' = Below /\ locked' = locked
         \/ ~Top.key /\ curSet # {} /\ stack' = Append(Below, w) /\ locked' = locked
         \/ ~Top.key /\ curSet = {} /\ stack' = Below /\ locked' = FALSE
  <2>1. Top.key \in BOOLEAN
    BY TopAndBelow, FrameTypes
  <2> QED BY <2>1 DEF HwiReturn, At, Goto, Becomes, curVars, swiVars, attrVars
<1>2. /\ SwisTyped /\ ListsOK /\ CurOK /\ NoneAbove /\ TopOK
      /\ Hwi # Task /\ Hwi \notin Swis /\ Top \in Frames /\ FrameOK(Top, pri)
  BY Typed, TopAndBelow, SwiAssumption DEF IInv
<1>3. locked /\ ~OuterIn(Top.held) /\ ~SwiIn(Top.held) /\ ~OuterKey(Top.held) /\ ~all.entered
  BY <1>1, TopPlain, NoneHeld
<1>4. CASE ~Top.key /\ curSet # {} /\ stack' = Append(Below, w) /\ locked' = locked
  <2>1. /\ w \in Frames /\ w.thread = Top.thread /\ w.saved = Top.saved /\ w.key = Top.key /\ w.pc = "window"
        /\ w.held = Top.held /\ w.intr = Top.intr
    BY <1>2 DEF Frames, PCs
  <2> HIDE DEF w
  <2>2. (Locks(w) <=> w.thread = Hwi \/ SwiIn(w.held)) /\ (Entered(w) <=> OuterIn(w.held))
    BY <1>1, <2>1, TopPlain, Plain
  <2>3. FrameOK(w, pri)
    BY <1>1, <1>2, <1>4, <2>1 DEF FrameOK
  <2>4. UNCHANGED <<swiVars, curSwi, curTrigger>>
    BY <1>1 DEF swiVars, attrVars
  <2> QED BY <1>1, <1>3, <1>4, <2>1, <2>2, <2>3, <2>4, CurQTyped, TopPlain, QuietStep
<1>5. CASE stack' = Below /\ (Top.key => locked') /\ (~Top.key => ~locked') /\ (locked' = locked \/ (locked' = FALSE /\ curSet = {}))
  <2>1. Below \in Seq(Frames) /\ Below # <<>> /\ ThreadsOK(Below, pri) /\ OnTop(Last(Below), Top)
    BY <1>1, <1>2, TopAndBelow
  <2>2. Top' = Last(Below) /\ stack' \in Seq(Frames) /\ stack' # <<>> /\ ThreadsOK(stack', pri')
    BY <1>1, <1>5, <2>1 DEF Top
  <2>3. Last(Below).pc # "loop" /\ ~Entered(Last(Below)) /\ (Top.key <=> Locks(Last(Below)))
    BY <1>1, <1>2, <2>1 DEF OnTop
  <2>4. TopOK'
    BY <1>3, <1>5, <2>2, <2>3 DEF TopOK
  <2>5. StartedSwis(stack') = StartedSwis(stack)
    BY <1>1, <1>2, <1>5, TopAndBelow
  <2>6. CurOK' /\ NoneAbove'
    BY <1>1, <1>2, <1>3, <1>5, <2>5 DEF CurOK, NoneAbove
  <2>7. SwisTyped' /\ ListsOK'
    BY <1>1, <1>2, ListsKept DEF SwisTyped
  <2>8. TypeOK'
    BY <1>1, <1>5, <2>2, <2>7, Typed, TypedNext DEF IInv
  <2> QED BY <2>2, <2>4, <2>6, <2>7, <2>8 DEF IInv
<1> QED BY <1>1, <1>3, <1>4, <1>5

-----------------------------------------------------------------------------
(* Swi_schedule and the loops.                                             *)

\* Above a thread that holds GateSwi only interrupts start.
LEMMA NoneHolds ==
  ASSUME NEW b \in Seq(Frames), b # <<>>, ThreadsOK(b, pri), Last(b).thread # Hwi, ~HoldsSwi(Last(b))
  PROVE  \A i \in DOMAIN b : ~HoldsSwi(b[i])
<1>1. Last(b) = b[Len(b)] /\ Len(b) \in Nat /\ Len(b) # 0
  BY DEF Last
<1>2. SUFFICES ASSUME NEW i \in DOMAIN b, HoldsSwi(b[i]) PROVE FALSE
  OBVIOUS
<1>3. i \in 1 .. Len(b) /\ i # Len(b) /\ i < Len(b) /\ Len(b) \in DOMAIN b
  BY <1>1, <1>2
<1>4. b[Len(b)].thread \notin Swis /\ b[Len(b)].thread # Task
  BY <1>2, <1>3 DEF ThreadsOK
<1>5. b[Len(b)] \in Frames
  BY <1>3
<1>6. b[Len(b)].thread \in Swis \cup {Task, Hwi}
  BY <1>5, FrameTypes
<1> QED BY <1>1, <1>4, <1>6

\* A thread that calls Swi_schedule, or goes on in the loop.
Scheduling(threads, was) ==
  /\ threads \in Seq(Frames) /\ threads # <<>> /\ ThreadsOK(threads, pri)
  /\ Last(threads).pc \in {"schedule", "loop", "window"}
  /\ \A i \in DOMAIN threads : ~HoldsSwi(threads[i])
  /\ ~all.entered
  /\ was \in Saved
  /\ SavedOK(StartedSwis(threads), pri)
  /\ IsCurrent(StartedSwis(threads), was.curSwi, was.curQ, pri)

\* What is known of that thread.
LEMMA SchedulingThread ==
  ASSUME NEW threads, NEW was, Scheduling(threads, was)
  PROVE  LET f == Last(threads)
             b == Front(threads)
         IN  /\ b \in Seq(Frames) /\ f \in Frames /\ threads = Append(b, f)
             /\ ThreadsOK(b, pri) /\ FrameOK(f, pri) /\ (f.thread = Task <=> b = <<>>)
             /\ b # <<>> => OnTop(Last(b), f)
             /\ \A i \in DOMAIN b : ~HoldsSwi(b[i])
             /\ ~HoldsSwi(f) /\ ~Entered(f) /\ HeldOK(f.held, f.thread, pri)
             /\ f.thread = Hwi => f.pc # "schedule" /\ ~f.key /\ f.held = <<>> /\ ~LeavingAll(f)
             /\ f.pc = "window" => f.held = <<>> /\ ~LeavingAll(f)
<1> DEFINE f == Last(threads)
           b == Front(threads)
<1>1. b \in Seq(Frames) /\ f \in Frames /\ threads = Append(b, f)
  BY LastThread DEF Scheduling
<1> HIDE DEF f, b
<1>2. ThreadsOK(Append(b, f), pri) /\ f.pc \in {"schedule", "loop", "window"}
  BY <1>1 DEF Scheduling, f
<1>3. /\ ThreadsOK(b, pri) /\ FrameOK(f, pri) /\ (f.thread = Task <=> b = <<>>)
      /\ b # <<>> => OnTop(Last(b), f)
  BY <1>1, <1>2, OneMoreThread
<1>4. (\A i \in DOMAIN b : ~HoldsSwi(b[i])) /\ ~HoldsSwi(f)
  <2>1. /\ \A i \in DOMAIN b : i \in DOMAIN Append(b, f) /\ Append(b, f)[i] = b[i]
        /\ Len(b) + 1 \in DOMAIN Append(b, f) /\ Append(b, f)[Len(b) + 1] = f
    BY <1>1
  <2>2. \A i \in DOMAIN Append(b, f) : ~HoldsSwi(Append(b, f)[i])
    BY <1>1 DEF Scheduling
  <2> QED BY <2>1, <2>2
<1>5. HeldOK(f.held, f.thread, pri)
  BY <1>3 DEF FrameOK
<1>6. ~Entered(f)
  BY <1>1, <1>4, <1>5, GatesOf
<1>7. /\ f.thread = Hwi => f.pc # "schedule" /\ ~f.key /\ f.held = <<>>
      /\ f.pc = "window" => f.held = <<>>
  BY <1>2, <1>3 DEF FrameOK
<1> QED BY <1>1, <1>3, <1>4, <1>5, <1>6, <1>7 DEF f, b, LeavingAll

LEMMA Begins ==
  ASSUME NEW s \in Swis, NEW was \in Saved
  PROVE  LET g == [Started(s, FALSE) EXCEPT !.saved = was]
         IN  g \in Frames /\ g.thread = s /\ g.pc = "run" /\ g.held = <<>> /\ g.saved = was
<1>1. NoSaved \in Saved
  BY SwiAssumption DEF NoSaved, Saved, Triggers
<1>2. Started(s, FALSE) \in Frames
  BY <1>1 DEF Started, Frames, PCs
<1> QED BY <1>2 DEF Started, Frames

\* Swi_run starts the first Swi of the highest list.
LEMMA RunFirstIInv ==
  ASSUME IInv, UNCHANGED all, NEW threads, NEW was, Scheduling(threads, was),
         curSet # {}, Intrinsics_maxbit(curSet) > was.curQ,
         RunFirst(Intrinsics_maxbit(curSet), Append(Front(threads), [Last(threads) EXCEPT !.pc = "loop"]), was)
  PROVE  IInv'
<1> DEFINE q == Intrinsics_maxbit(curSet)
           s == Queue_head(link, q)
           f == Last(threads)
           b == Front(threads)
           w == [f EXCEPT !.pc = "loop"]
           c == Append(b, w)
           g == [Started(s, FALSE) EXCEPT !.saved = was]
<1>1. /\ s \in Swis /\ link' = Queue_dequeue(link, q)
      /\ curSet' = IF Queue_empty(link', q) THEN curSet \ {pri[s]} ELSE curSet
      /\ curQ' = pri[s] /\ curSwi' = s /\ curTrigger' = trigger[s]
      /\ trigger' = [trigger EXCEPT ![s] = initTrigger[s]]
      /\ posted' = [posted EXCEPT ![s] = FALSE]
      /\ locked' = FALSE
      /\ stack' = Append(c, g)
      /\ UNCHANGED <<pri, initTrigger>>
  BY DEF RunFirst, SwiRun, attrVars
<1>2. SwisTyped /\ ListsOK
  BY Typed DEF IInv
<1>3. q \in Pri /\ \A p \in curSet : p <= q
  BY <1>2, Highest
<1>4. trigger' \in [Swis -> Triggers] /\ trigger[s] \in Triggers
  BY <1>1, <1>2 DEF SwisTyped
<1>5. SwisTyped' /\ ListsOK' /\ pri[s] = q
  BY <1>1, <1>2, <1>3, <1>4, ListTaken
<1>6. /\ b \in Seq(Frames) /\ f \in Frames
      /\ ThreadsOK(b, pri) /\ FrameOK(f, pri) /\ (f.thread = Task <=> b = <<>>)
      /\ b # <<>> => OnTop(Last(b), f)
      /\ \A i \in DOMAIN b : ~HoldsSwi(b[i])
      /\ ~HoldsSwi(f) /\ ~Entered(f) /\ HeldOK(f.held, f.thread, pri)
      /\ f.thread = Hwi => f.pc # "schedule" /\ ~f.key /\ f.held = <<>>
      /\ f.pc = "window" => f.held = <<>>
      /\ f.pc \in {"schedule", "loop", "window"} /\ threads = Append(b, f)
  BY SchedulingThread DEF Scheduling
<1>7. /\ w \in Frames /\ w.thread = f.thread /\ w.pc = "loop" /\ w.key = f.key /\ w.held = f.held /\ w.saved = f.saved
  BY <1>6 DEF Frames, PCs
<1>8. /\ g \in Frames /\ g.thread = s /\ g.pc = "run" /\ g.held = <<>> /\ g.saved = was
  <2> HIDE DEF s
  <2> QED BY <1>1, Begins DEF Scheduling
<1> HIDE DEF q, s, f, b, w, g
<1>9. ~HoldsSwi(w) /\ ~Entered(w)
  <2>1. CASE f.held = <<>>
    <3>1. ~LeavingAll(w) /\ ~SwiIn(w.held)
      BY <2>1, <1>7, NoneHeld DEF LeavingAll
    <3> QED BY <3>1, <1>6, <1>7, GatesOf
  <2>2. CASE f.pc \in {"schedule", "loop"}
    <3>1. Gates(w) = Gates(f)
      BY <2>2, <1>7 DEF Gates, LeavingAll
    <3> QED BY <3>1, <1>6, <1>7 DEF HoldsSwi, Entered
  <2> QED BY <2>1, <2>2, <1>6
<1>10. FrameOK(w, pri)
  <2>1. f.thread = Hwi => ~w.key /\ w.held = <<>>
    BY <1>6, <1>7
  <2> QED BY <2>1, <1>6, <1>7, <1>9 DEF FrameOK
<1>11. c \in Seq(Frames) /\ c # <<>> /\ Last(c) = w /\ ThreadsOK(c, pri)
  <2>1. b # <<>> => OnTop(Last(b), w)
    <3>1. Locks(f) <=> Locks(f)
      OBVIOUS
    <3> QED BY <1>6, <1>7 DEF OnTop
  <2> QED BY <2>1, <1>6, <1>7, <1>10, OneMoreThread
<1>12. \A i \in DOMAIN c : ~HoldsSwi(c[i])
  <2>1. \A i \in DOMAIN c : c[i] = w \/ (i \in DOMAIN b /\ c[i] = b[i])
    BY <1>6
  <2> QED BY <2>1, <1>6, <1>9
<1> HIDE DEF c
<1>13. HeldOK(g.held, g.thread, pri) /\ ~SwiIn(g.held) /\ ~OuterIn(g.held) /\ s # Hwi /\ s # Task
  BY <1>1, <1>8, NoneHeld, SwiAssumption
<1>14. FrameOK(g, pri) /\ ~Locks(g) /\ ~Entered(g)
  BY <1>8, <1>13, Plain
<1>15. OnTop(w, g)
  BY <1>1, <1>7, <1>8, <1>9, <1>13 DEF OnTop
<1>16. stack' \in Seq(Frames) /\ stack' # <<>> /\ Top' = g /\ ThreadsOK(stack', pri')
  <2>1. Top' = Last(stack')
    BY DEF Top
  <2> QED BY <2>1, <1>1, <1>8, <1>11, <1>12, <1>13, <1>14, <1>15, OneMoreThread
<1>17. TopOK'
  <2>1. all' = all /\ ~all.entered
    BY DEF Scheduling
  <2> QED BY <2>1, <1>1, <1>8, <1>14, <1>16 DEF TopOK
<1>18. CurOK'
  <2>1. /\ SavedOK(StartedSwis(c), pri) /\ IsCurrent(StartedSwis(c), was.curSwi, was.curQ, pri)
        /\ StartedSwis(c) \in Seq(Frames)
    <3>1. SavedOK(StartedSwis(Append(b, f)), pri) /\ IsCurrent(StartedSwis(Append(b, f)), was.curSwi, was.curQ, pri)
      BY <1>6 DEF Scheduling
    <3> QED BY <3>1, <1>6, <1>7, <1>11, SameSaved, StartedAre DEF c
  <2>2. StartedSwis(stack') = Append(StartedSwis(c), g)
    BY <1>1, <1>8, <1>11, StartedMore
  <2>3. SavedOK(StartedSwis(stack'), pri')
    BY <2>1, <2>2, <1>1, <1>8, SavedMore
  <2>4. pri[s] <= pri[s]
    BY <1>3, <1>5 DEF Pri
  <2>5. IsCurrent(StartedSwis(stack'), curSwi', curQ', pri')
    BY <2>1, <2>2, <2>4, <1>1, <1>8, SavedMore
  <2> QED BY <2>3, <2>5 DEF CurOK
<1>19. NoneAbove'
  <2>1. curSet' \subseteq curSet
    BY <1>1
  <2> QED BY <2>1, <1>1, <1>3, <1>5 DEF NoneAbove
<1>20. TypeOK'
  <2>1. all' = all /\ all \in [entered : BOOLEAN, hwiKey : BOOLEAN, swiKey : BOOLEAN]
    BY Typed DEF IInv
  <2> QED BY <2>1, <1>1, <1>3, <1>4, <1>5, <1>16, TypedNext
<1> QED BY <1>5, <1>16, <1>17, <1>18, <1>19, <1>20 DEF IInv

\* Nothing more is to be run: the thread that called goes on, or the interrupt
\* returns.
LEMMA EndOfLoopIInv ==
  ASSUME IInv, UNCHANGED all, NEW threads, NEW was, Scheduling(threads, was),
         curSet = {} \/ \A p \in curSet : p <= was.curQ,
         locked' = FALSE, curQ' = was.curQ, curSwi' = was.curSwi, curTrigger' = was.curTrigger,
         CallerGoesOn(threads), UNCHANGED <<link, curSet, posted, trigger, attrVars>>
  PROVE  IInv'
<1> DEFINE f == Last(threads)
           b == Front(threads)
           w == [f EXCEPT !.pc = IF LeavingAll(f) THEN "leaving" ELSE "run"]
<1>1. /\ UNCHANGED <<link, curSet, posted, trigger, pri, initTrigger>>
      /\ IF w.thread = Hwi THEN stack' = b ELSE \E g \in TaskRestore(w) : stack' = Append(b, g)
  BY DEF CallerGoesOn, attrVars
<1>2. SwisTyped /\ ListsOK /\ all \in [entered : BOOLEAN, hwiKey : BOOLEAN, swiKey : BOOLEAN]
  BY Typed DEF IInv
<1>3. SwisTyped' /\ ListsOK'
  BY <1>1, <1>2, ListsKept DEF SwisTyped
<1>4. /\ b \in Seq(Frames) /\ f \in Frames /\ threads = Append(b, f)
      /\ ThreadsOK(b, pri) /\ FrameOK(f, pri) /\ (f.thread = Task <=> b = <<>>)
      /\ b # <<>> => OnTop(Last(b), f)
      /\ \A i \in DOMAIN b : ~HoldsSwi(b[i])
      /\ ~HoldsSwi(f) /\ HeldOK(f.held, f.thread, pri)
      /\ f.thread = Hwi => ~f.key
  BY SchedulingThread
<1>5. /\ was \in Saved /\ all' = all /\ ~all.entered
      /\ SavedOK(StartedSwis(Append(b, f)), pri) /\ IsCurrent(StartedSwis(Append(b, f)), was.curSwi, was.curQ, pri)
  BY <1>4 DEF Scheduling
<1>6. /\ w \in Frames /\ w.thread = f.thread /\ w.key = f.key /\ w.held = f.held /\ w.saved = f.saved
      /\ w.pc = IF LeavingAll(f) THEN "leaving" ELSE "run"
  BY <1>4 DEF Frames, PCs
<1> HIDE DEF f, b, w
<1>7. NoneAbove'
  BY <1>1, <1>2 DEF NoneAbove
<1>8. curQ' \in Pri \cup {NoQ} /\ curSwi' \in Swis \cup {NoSwi} /\ curTrigger' \in Triggers
  BY <1>5 DEF Saved
<1>9. SUFFICES /\ stack' \in Seq(Frames) /\ stack' # <<>> /\ ThreadsOK(stack', pri')
               /\ Top'.pc # "loop" /\ ~Locks(Top') /\ ~Entered(Top')
               /\ SavedOK(StartedSwis(stack'), pri)
               /\ IsCurrent(StartedSwis(stack'), was.curSwi, was.curQ, pri)
  <2>1. TypeOK'
    BY <1>2, <1>3, <1>5, <1>8, <1>9, TypedNext
  <2>2. TopOK'
    BY <1>5, <1>9 DEF TopOK
  <2>3. CurOK'
    BY <1>1, <1>9 DEF CurOK
  <2> QED BY <2>1, <2>2, <2>3, <1>3, <1>7, <1>9 DEF IInv
<1>10. CASE f.thread = Hwi
  <2>1. stack' = b /\ Hwi # Task /\ Hwi \notin Swis
    BY <1>1, <1>6, <1>10, SwiAssumption
  <2>2. b # <<>> /\ OnTop(Last(b), f) /\ Top' = Last(b)
    BY <2>1, <1>4, <1>10 DEF Top
  <2>3. Last(b).pc # "loop" /\ ~Entered(Last(b)) /\ ~Locks(Last(b))
    BY <2>1, <2>2, <1>4, <1>10 DEF OnTop
  <2>4. StartedSwis(Append(b, f)) = StartedSwis(b)
    BY <2>1, <1>4, <1>10, StartedMore
  <2> QED BY <2>1, <2>2, <2>3, <2>4, <1>1, <1>4, <1>5
<1>11. CASE f.thread # Hwi
  <2>1. PICK g \in TaskRestore(w) : stack' = Append(b, g)
    BY <1>1, <1>6, <1>11
  <2>2. /\ g \in Frames /\ g.thread = f.thread /\ g.key = f.key /\ g.held = f.held /\ g.saved = f.saved
        /\ g.pc = IF LeavingAll(f) THEN "leaving" ELSE "run"
    BY <1>6, Restored
  <2>3. FrameOK(g, pri) /\ ~HoldsSwi(g) /\ ~Entered(g)
    <3>1. CASE LeavingAll(f)
      <4>1. LeavingAll(g) /\ g.held # <<>> /\ Last(g.held) = Outer
        BY <2>2, <3>1 DEF LeavingAll, Outer
      <4>2. (HoldsSwi(g) <=> SwiIn(Front(f.held))) /\ ~Entered(g) /\ (HoldsSwi(f) <=> SwiIn(Front(f.held)))
        BY <4>1, <3>1, <2>2, <1>4, GatesOf
      <4> QED BY <4>1, <4>2, <3>1, <2>2, <1>4, <1>11 DEF FrameOK
    <3>2. CASE ~LeavingAll(f)
      <4>1. ~LeavingAll(g)
        BY <2>2, <3>2 DEF LeavingAll
      <4>2. ~SwiIn(f.held) /\ ~HoldsSwi(g) /\ (Entered(g) => HoldsSwi(g))
        BY <4>1, <3>2, <2>2, <1>4, GatesOf
      <4> QED BY <4>2, <3>2, <2>2, <1>4, Plain
    <3> QED BY <3>1, <3>2
  <2>4. ~Locks(g) /\ g.pc # "loop"
    BY <2>2, <2>3, <1>11 DEF Locks
  <2>5. ThreadsOK(stack', pri') /\ stack' \in Seq(Frames) /\ stack' # <<>> /\ Top' = g
    <3>1. b # <<>> => OnTop(Last(b), g)
      BY <2>2, <1>4 DEF OnTop
    <3>2. Top' = Last(stack')
      BY DEF Top
    <3> QED BY <3>1, <3>2, <2>1, <2>2, <2>3, <1>1, <1>4, OneMoreThread
  <2>6. SavedOK(StartedSwis(stack'), pri) /\ IsCurrent(StartedSwis(stack'), was.curSwi, was.curQ, pri)
    BY <2>1, <2>2, <1>4, <1>5, SameSaved
  <2> QED BY <2>3, <2>4, <2>5, <2>6
<1> QED BY <1>10, <1>11

LEMMA ScheduleIInv ==
  ASSUME IInv, UNCHANGED all, NEW threads, NEW was, Scheduling(threads, was), Schedule(threads, was)
  PROVE  IInv'
<1>1. CASE curSet # {} /\ Intrinsics_maxbit(curSet) > was.curQ
  BY <1>1, RunFirstIInv DEF Schedule
<1>2. CASE ~(curSet # {} /\ Intrinsics_maxbit(curSet) > was.curQ)
  <2>1. curSet = {} \/ \A p \in curSet : p <= was.curQ
    <3>1. SwisTyped /\ was.curQ \in Pri \cup {NoQ}
      BY Typed DEF IInv, Scheduling, Saved
    <3>2. CASE curSet # {}
      <4>1. Intrinsics_maxbit(curSet) \in Pri /\ \A p \in curSet : p <= Intrinsics_maxbit(curSet)
        BY <3>1, <3>2, Highest
      <4>2. curSet \subseteq Pri /\ ~(Intrinsics_maxbit(curSet) > was.curQ)
        BY <3>1, <3>2, <1>2 DEF SwisTyped
      <4> HIDE DEF Intrinsics_maxbit
      <4> QED BY <4>1, <4>2, <3>1 DEF Pri, NoQ
    <3> QED BY <3>2
  <2> QED BY <1>2, <2>1, EndOfLoopIInv DEF Schedule
<1> QED BY <1>1, <1>2

\* The thread that runs calls Swi_schedule, or is the interrupt in its loop.
LEMMA ScheduleFromTop ==
  ASSUME IInv, Top.pc = "schedule" \/ Top.pc = "window"
  PROVE  Scheduling(stack, Current)
<1>1. Top.pc \in {"schedule", "window"} /\ (Top.pc = "schedule" \/ Top.pc = "window")
  OBVIOUS
<1>2. /\ stack \in Seq(Frames) /\ stack # <<>> /\ ThreadsOK(stack, pri) /\ Top = Last(stack) /\ FrameOK(Top, pri)
      /\ Top \in Frames /\ Below \in Seq(Frames) /\ stack = Append(Below, Top)
      /\ (Top.thread = Task <=> Below = <<>>) /\ (Below # <<>> => OnTop(Last(Below), Top)) /\ ThreadsOK(Below, pri)
  BY Typed, TopAndBelow DEF IInv, TopOK, Top
<1>3. ~HoldsSwi(Top)
  <2>1. CASE Top.pc = "schedule"
    BY <2>1, <1>2 DEF FrameOK
  <2>2. CASE Top.pc = "window"
    <3>1. Top.held = <<>>
      BY <2>2, <1>2 DEF FrameOK
    <3>2. HeldOK(Top.held, Top.thread, pri) /\ ~SwiIn(Top.held)
      BY <3>1, NoneHeld
    <3> QED BY <2>2, <3>2, <1>2, Plain
  <2> QED BY <2>1, <2>2, <1>1
<1>4. \A i \in DOMAIN stack : ~HoldsSwi(stack[i])
  <2>1. CASE Top.pc = "schedule"
    <3>1. Top.thread # Hwi
      BY <2>1, <1>2 DEF FrameOK
    <3> QED BY <3>1, <1>2, <1>3, NoneHolds
  <2>2. CASE Top.pc = "window"
    <3>1. Top.thread = Hwi /\ ~Top.key /\ Hwi # Task
      BY <2>2, <1>2, SwiAssumption DEF FrameOK
    <3>2. Below # <<>> /\ ~Locks(Last(Below))
      BY <3>1, <1>2 DEF OnTop
    <3>3. \A i \in DOMAIN Below : ~HoldsSwi(Below[i])
      BY <3>2, <1>2, NoneHolds DEF Locks
    <3>4. \A i \in DOMAIN stack : stack[i] = Top \/ (i \in DOMAIN Below /\ stack[i] = Below[i])
      BY <1>2
    <3> QED BY <3>3, <3>4, <1>3
  <2> QED BY <2>1, <2>2, <1>1
<1>5. ~all.entered
  <2>1. HeldOK(Top.held, Top.thread, pri)
    BY <1>2 DEF FrameOK
  <2>2. ~Entered(Top)
    BY <2>1, <1>2, <1>3, GatesOf
  <2> QED BY <2>2 DEF IInv, TopOK
<1>6. Current \in Saved /\ Current.curSwi = curSwi /\ Current.curQ = curQ
  BY Typed DEF IInv, Current, Saved
<1> QED BY <1>1, <1>2, <1>4, <1>5, <1>6 DEF Scheduling, IInv, CurOK

LEMMA SwiScheduleIInv == ASSUME IInv, SwiSchedule \/ Swi_restoreHwi, UNCHANGED all PROVE IInv'
  BY ScheduleFromTop, ScheduleIInv DEF SwiSchedule, Swi_restoreHwi, At

\* The function of the Swi that runs returns.
LEMMA ScheduleFromBelow == ASSUME IInv, SwiReturn PROVE Scheduling(Below, Top.saved)
<1>1. Top.thread \in Swis /\ Top.pc = "run" /\ Top.held = <<>>
  BY DEF SwiReturn, At
<1>2. /\ Top \in Frames /\ Below \in Seq(Frames) /\ Below # <<>> /\ OnTop(Last(Below), Top) /\ ThreadsOK(Below, pri)
      /\ \A i \in DOMAIN Below : ~HoldsSwi(Below[i])
      /\ StartedSwis(stack) = Append(StartedSwis(Below), Top) /\ StartedSwis(Below) \in Seq(Frames)
  BY <1>1, TopAndBelow, SwiAssumption
<1>3. ~all.entered
  BY <1>1, TopPlain, NoneHeld
<1>4. Top.saved \in Saved
  BY <1>2, FrameTypes
<1>5. SavedOK(StartedSwis(Below), pri) /\ IsCurrent(StartedSwis(Below), Top.saved.curSwi, Top.saved.curQ, pri)
  BY <1>2, SavedMore DEF IInv, CurOK
<1>6. Last(Below).pc = "loop"
  BY <1>1, <1>2 DEF OnTop
<1> QED BY <1>2, <1>3, <1>4, <1>5, <1>6 DEF Scheduling

LEMMA SwiReturnIInv == ASSUME IInv, SwiReturn, UNCHANGED all PROVE IInv'
  BY ScheduleFromBelow, ScheduleIInv DEF SwiReturn

-----------------------------------------------------------------------------
(* The theorems.                                                           *)

\* No list holds anything, and only the task level has started.
LEMMA InitIInv == Init => IInv
<1> SUFFICES ASSUME Init PROVE IInv
  OBVIOUS
<1> DEFINE g == Started(Task, FALSE)
<1>1. SwisTyped
  <2>1. link \in [next : [Nodes -> Nodes], prev : [Nodes -> Nodes]]
    BY DEF Init, Cleared
  <2> QED BY <2>1, SwiAssumption DEF Init, SwisTyped
<1>2. g \in Frames /\ g.thread = Task /\ g.pc = "run" /\ g.held = <<>>
  <2>1. NoSaved \in Saved
    BY SwiAssumption DEF NoSaved, Saved, Triggers
  <2> QED BY <2>1 DEF Started, Frames, PCs
<1>3. stack = <<g>> /\ curSet = {} /\ posted = [s \in Swis |-> FALSE] /\ locked = FALSE
  BY DEF Init
<1> HIDE DEF g
<1>4. stack = Append(<<>>, g) /\ <<>> \in Seq(Frames) /\ stack \in Seq(Frames) /\ stack # <<>> /\ Top = g
  <2>1. <<g>> = Append(<<>>, g) /\ <<g>> \in Seq(Frames) /\ <<>> \in Seq(Frames) /\ <<g>> # <<>> /\ <<g>>[1] = g /\ Len(<<g>>) = 1
    BY <1>2
  <2>2. Top = <<g>>[Len(<<g>>)]
    BY <1>3 DEF Top, Last
  <2> QED BY <2>1, <2>2, <1>3
<1>5. TypeOK
  <2>1. curQ \in Pri \cup {NoQ} /\ curSwi \in Swis \cup {NoSwi} /\ curTrigger \in Triggers
    BY SwiAssumption DEF Init, Triggers
  <2>2. locked \in BOOLEAN /\ all \in [entered : BOOLEAN, hwiKey : BOOLEAN, swiKey : BOOLEAN]
    BY DEF Init
  <2> QED BY <2>1, <2>2, <1>1, <1>4, Typed
<1>6. ListsOK
  <2>1. ASSUME NEW p \in Pri PROVE Elements(p) = <<>> /\ IsQueue(link, p, Elements(p))
    <3>1. p \in Nodes /\ link.next[p] = p /\ link.prev[p] = p
      BY NodesAre DEF Init, Cleared
    <3>2. IsQueue(link, p, <<>>)
      BY <3>1 DEF IsQueue, Ring
    <3>3. List(Nodes, link, p, <<>>) /\ <<>> \in Seq(Swis)
      BY <3>1, <3>2, <1>1 DEF List, SwisTyped
    <3>4. Walk(link, p, Cardinality(Swis)) = <<>>
      BY <3>3, ListsFound
    <3> QED BY <3>2, <3>4 DEF Elements
  <2>2. <<>> \in Seq(Swis) /\ DOMAIN <<>> = {}
    OBVIOUS
  <2>3. \A s \in Swis : ~posted[s]
    BY <1>3
  <2> HIDE DEF Elements
  <2> QED BY <2>1, <2>2, <2>3, <1>3 DEF ListsOK
<1>7. FrameOK(g, pri) /\ ~Locks(g) /\ ~Entered(g)
  BY <1>2, NoneHeld, Plain, SwiAssumption
<1>8. ThreadsOK(stack, pri)
  <2>1. ThreadsOK(<<>>, pri) /\ Task \notin Swis
    BY SwiAssumption DEF ThreadsOK
  <2>2. <<>> \in Seq(Frames) /\ DOMAIN <<>> = {}
    OBVIOUS
  <2>3. ThreadsOK(Append(<<>>, g), pri)
    BY <2>1, <2>2, <1>2, <1>7, OneMoreThread
  <2> QED BY <2>3, <1>4
<1>9. TopOK
  BY <1>2, <1>3, <1>4, <1>7 DEF TopOK, Init
<1>10. CurOK
  <2>1. StartedSwis(stack) = <<>>
    BY <1>2, <1>4, StartedMore, StartedNone, SwiAssumption
  <2> QED BY <2>1 DEF CurOK, IsCurrent, SavedOK
<1>11. NoneAbove
  BY DEF Init, NoneAbove
<1> QED BY <1>5, <1>6, <1>8, <1>9, <1>10, <1>11 DEF IInv

\* Every step keeps the invariant, if no Swi that has run is given new
\* attributes while it is on a list.
LEMMA NextIInv == ASSUME IInv, ~LateSetAttrs, [Next]_vars PROVE IInv'
<1>1. CASE GateAll
  BY <1>1, GateAllEnterIInv, GateAllLeaveIInv, GateAllLeftIInv DEF GateAll
<1>2. CASE Step /\ UNCHANGED all
  <2>1. ASSUME NEW s \in Swis, Swi_post(s) PROVE IInv'
    BY <1>2, <2>1, SwiPostIInv
  <2>2. ASSUME NEW s \in Swis, Swi_inc(s) \/ Swi_dec(s) \/ \E m \in Masks : Swi_or(s, m) \/ Swi_andn(s, m)
        PROVE  IInv'
    BY <1>2, <2>2, TriggersIInv
  <2>3. ASSUME NEW s \in Swis, NEW p \in Levels[s], Swi_setPri(s, p) PROVE IInv'
    BY <1>2, <2>3, SwiSetPriIInv
  <2>4. ASSUME NEW s \in Swis, NEW p \in Levels[s], NEW n \in Starts, Swi_setAttrs(s, p, n) PROVE IInv'
    BY <1>2, <2>4, SwiSetAttrsIInv
  <2>5. ASSUME NEW p \in Pri, Swi_raisePri(p) PROVE IInv'
    BY <1>2, <2>5, SwiRaisePriIInv
  <2>6. CASE GateHwi_enter \/ DisableRead
    BY <1>2, <2>6, GateHwiEnterIInv, DisableReadIInv
  <2>7. CASE Leave
    BY <1>2, <2>7, GateHwiLeaveIInv, SwiRestoreIInv, LowerReadIInv DEF Leave
  <2>8. CASE DisableWrite \/ LowerWrite
    BY <1>2, <2>8, DisableWriteIInv, LowerWriteIInv
  <2>9. CASE SwiSchedule \/ Swi_restoreHwi
    BY <1>2, <2>9, SwiScheduleIInv
  <2>10. CASE SwiReturn
    BY <1>2, <2>10, SwiReturnIInv
  <2>11. CASE HwiEnter \/ HwiReturn
    BY <1>2, <2>11, HwiEnterIInv, HwiReturnIInv
  <2> QED BY <1>2, <2>1, <2>2, <2>3, <2>4, <2>5, <2>6, <2>7, <2>8, <2>9, <2>10, <2>11 DEF Step, Call
<1>3. CASE UNCHANGED vars
  <2>1. UNCHANGED <<link, curSet, posted, trigger, pri, initTrigger, curQ, curSwi, curTrigger, locked, stack, all>>
    BY <1>3 DEF vars, swiVars, attrVars, curVars
  <2>2. SwisTyped' /\ ListsOK'
    BY <2>1, Typed, ListsKept DEF IInv, SwisTyped
  <2>3. TypeOK'
    BY <2>1, <2>2, Typed, TypedNext DEF IInv
  <2>4. ThreadsOK(stack', pri') /\ TopOK' /\ CurOK' /\ NoneAbove'
    BY <2>1 DEF IInv, TopOK, CurOK, NoneAbove, Top
  <2> QED BY <2>2, <2>3, <2>4 DEF IInv
<1> QED BY <1>1, <1>2, <1>3 DEF Next

\* The inductive invariant holds in every behaviour.
THEOREM Invariance == ASSUME ~LateSetAttrs PROVE Spec => []IInv
<1>1. Init => IInv
  BY InitIInv
<1>2. IInv /\ [Next]_vars => IInv'
  BY NextIInv
<1> QED BY <1>1, <1>2, PTL DEF Spec

\* A posted Swi is on the ready list of its priority, once, nothing else is,
\* and curSet has the bits of the lists that are not empty (Swi_post,
\* Swi_runLoop, Swi_setPri).
THEOREM ListsAreReady == ASSUME ~LateSetAttrs PROVE Spec => []ReadyListsOK
<1>1. IInv => ReadyListsOK
  <2> SUFFICES ASSUME IInv PROVE ReadyListsOK
    OBVIOUS
  <2>1. TypeOK /\ ListsOK
    BY DEF IInv
  <2>2. ASSUME NEW p \in Pri
        PROVE  {Elements(p)[i] : i \in DOMAIN Elements(p)} = {s \in Swis : posted[s] /\ pri[s] = p}
    <3>1. Elements(p) \in Seq(Swis) /\ \A s \in Swis : (\E i \in DOMAIN Elements(p) : Elements(p)[i] = s) <=> posted[s] /\ pri[s] = p
      BY <2>1 DEF ListsOK
    <3> HIDE DEF Elements
    <3>2. \A i \in DOMAIN Elements(p) : Elements(p)[i] \in Swis
      BY <3>1
    <3> QED BY <3>1, <3>2
  <2> HIDE DEF Elements
  <2> QED BY <2>1, <2>2 DEF ReadyListsOK, ListsOK
<1> QED BY <1>1, Invariance, PTL

\* No posted Swi is above the thread that runs with the scheduler unlocked
\* (Swi_restore, Swi_restoreHwi and the loops serve what came meanwhile).
THEOREM NoSwiIsLeft == ASSUME ~LateSetAttrs PROVE Spec => []NoneAbove
<1>1. IInv => NoneAbove
  BY DEF IInv
<1> QED BY <1>1, Invariance, PTL

\* locked says whether the thread that runs holds GateSwi, is an interrupt or
\* is in the scheduler, and every key says what was there when it was taken
\* (Swi_disable and Swi_restore, which read and write locked in two steps).
THEOREM LockIsBalanced == ASSUME ~LateSetAttrs PROVE Spec => []LockBalance
<1>1. IInv => LockBalance
  <2> SUFFICES ASSUME IInv PROVE LockBalance
    OBVIOUS
  <2>1. stack \in Seq(Frames) /\ ThreadsOK(stack, pri) /\ TopOK /\ Hwi # Task
    BY Typed, SwiAssumption DEF IInv
  <2>2. ASSUME NEW i \in DOMAIN stack
        PROVE  LET f == stack[i] IN
               /\ f.pc \in {"disable", "lowering"} => (f.key <=> Locks(f))
               /\ f.thread = Hwi => (f.key <=> Locks(stack[i - 1]))
               /\ \A j \in DOMAIN f.held : f.held[j].gate = "swi" =>
                    (f.held[j].key <=> \E k \in 1 .. j - 1 : f.held[k].gate \in {"swi", "all"})
    <3> DEFINE f == stack[i]
    <3>1. f \in Frames /\ FrameOK(f, pri) /\ HeldOK(f.held, f.thread, pri) /\ f.held \in Seq(Held)
      BY <2>1, FrameTypes DEF ThreadsOK, FrameOK
    <3>2. f.thread = Hwi => (f.key <=> Locks(stack[i - 1]))
      <4>1. SUFFICES ASSUME f.thread = Hwi PROVE f.key <=> Locks(stack[i - 1])
        OBVIOUS
      <4>2. i # 1
        BY <4>1, <2>1 DEF ThreadsOK
      <4>3. i - 1 \in 1 .. Len(stack) - 1 /\ (i - 1) + 1 = i
        BY <4>2, <2>1
      <4>4. OnTop(stack[i - 1], stack[(i - 1) + 1])
        BY <4>3, <2>1 DEF ThreadsOK
      <4> QED BY <4>1, <4>3, <4>4 DEF OnTop
    <3> HIDE DEF f
    <3>3. f.pc \in {"disable", "lowering"} => (f.key <=> Locks(f))
      <4>1. SUFFICES ASSUME f.pc \in {"disable", "lowering"} PROVE f.key <=> Locks(f)
        OBVIOUS
      <4>2. (f.key <=> SwiIn(f.held)) /\ f.thread # Hwi
        BY <4>1, <3>1 DEF FrameOK
      <4> QED BY <4>1, <4>2, <3>1, Plain
    <3>4. ASSUME NEW j \in DOMAIN f.held, f.held[j].gate = "swi"
          PROVE  f.held[j].key <=> \E k \in 1 .. j - 1 : f.held[k].gate \in {"swi", "all"}
      <4> DEFINE h == SubSeq(f.held, 1, j - 1)
      <4>1. f.held[j].key <=> SwiIn(h)
        BY <3>1, <3>4 DEF HeldOK, EntryOK
      <4>2. DOMAIN h = 1 .. j - 1 /\ \A k \in 1 .. j - 1 : h[k] = f.held[k]
        BY <3>1
      <4> HIDE DEF h
      <4> QED BY <4>1, <4>2 DEF SwiIn
    <3> QED BY <3>2, <3>3, <3>4 DEF f
  <2> QED BY <2>1, <2>2 DEF LockBalance, TopOK
<1> QED BY <1>1, Invariance, PTL

\* No Swi starts above a thread that holds GateSwi, and above one that has
\* entered a GateAll nothing does.
THEOREM GatesExclude == ASSUME ~LateSetAttrs PROVE Spec => []GatesExclusive
<1>1. IInv => GatesExclusive
  <2> SUFFICES ASSUME IInv PROVE GatesExclusive
    OBVIOUS
  <2>1. stack \in Seq(Frames) /\ ThreadsOK(stack, pri) /\ TopOK
    BY Typed DEF IInv
  <2>2. ASSUME NEW i \in DOMAIN stack, HoldsSwi(stack[i]), NEW j \in i + 1 .. Len(stack)
        PROVE  stack[j].thread \notin Swis
    <3>1. j \in DOMAIN stack /\ i < j
      BY <2>1, <2>2
    <3> QED BY <3>1, <2>1, <2>2 DEF ThreadsOK
  <2>3. all.entered => locked /\ ~Top.intr
    <3>1. Top \in Frames /\ HeldOK(Top.held, Top.thread, pri)
      BY TopAndBelow DEF FrameOK
    <3>2. Entered(Top) => Locks(Top)
      BY <3>1, GatesOf DEF Locks
    <3> QED BY <3>2, <2>1 DEF TopOK
  <2> QED BY <2>2, <2>3 DEF GatesExclusive
<1> QED BY <1>1, Invariance, PTL

-----------------------------------------------------------------------------
(* The promise.                                                            *)

\* The Swis that have started, and the triggers that they see.
ActiveOf(frames, last) ==
  [i \in DOMAIN frames |->
     [swi |-> frames[i].thread, trigger |-> IF i = Len(frames) THEN last ELSE frames[i + 1].saved.curTrigger]]

Active == [swi : Swis \cup {Task, Hwi}, trigger : Triggers]

LEMMA ActiveSwisAre == ActiveSwis = ActiveOf(StartedSwis(stack), curTrigger)
  BY DEF ActiveSwis, ActiveOf

LEMMA ActiveSwisNext == ActiveSwis' = ActiveOf(StartedSwis(stack'), curTrigger')
  BY DEF ActiveSwis, ActiveOf

LEMMA NextPlace == \A n \in Nat : \A i \in 1 .. n : i # n => i + 1 \in 1 .. n
  OBVIOUS

LEMMA ActiveTyped ==
  ASSUME NEW fr \in Seq(Frames), NEW last \in Triggers
  PROVE  /\ ActiveOf(fr, last) \in Seq(Active) /\ Len(ActiveOf(fr, last)) = Len(fr)
         /\ \A i \in 1 .. Len(fr) : ActiveOf(fr, last)[i].swi = fr[i].thread
<1> DEFINE n == Len(fr)
           e(i) == [swi |-> fr[i].thread, trigger |-> IF i = n THEN last ELSE fr[i + 1].saved.curTrigger]
<1>1. n \in Nat /\ DOMAIN fr = 1 .. n
  OBVIOUS
<1>2. \A i \in 1 .. n : i # n => i + 1 \in 1 .. n
  BY NextPlace
<1>3. ASSUME NEW i \in 1 .. n PROVE e(i) \in Active /\ e(i).swi = fr[i].thread
  <2>1. fr[i] \in Frames /\ fr[i].thread \in Swis \cup {Task, Hwi}
    BY FrameTypes
  <2>2. CASE i = n
    BY <2>1, <2>2 DEF Active
  <2>3. CASE i # n
    <3>1. i + 1 \in 1 .. n
      BY <1>2, <1>3, <2>3
    <3>2. fr[i + 1] \in Frames
      BY <3>1
    <3>3. fr[i + 1].saved.curTrigger \in Triggers
      BY <3>2, FrameTypes DEF Saved
    <3> QED BY <2>1, <2>3, <3>3 DEF Active
  <2> QED BY <2>2, <2>3
<1>4. ActiveOf(fr, last) = [i \in 1 .. n |-> e(i)]
  BY <1>1 DEF ActiveOf
<1> HIDE DEF n, e
<1>5. [i \in 1 .. n |-> e(i)] \in Seq(Active) /\ Len([i \in 1 .. n |-> e(i)]) = n
  BY <1>1, <1>3
<1>6. \A i \in 1 .. n : [j \in 1 .. n |-> e(j)][i].swi = fr[i].thread
  BY <1>3
<1> QED BY <1>4, <1>5, <1>6 DEF n

\* One more Swi starts.
LEMMA ActiveMore ==
  ASSUME NEW fr \in Seq(Frames), NEW g \in Frames, NEW last \in Triggers
  PROVE  ActiveOf(Append(fr, g), last) = Append(ActiveOf(fr, g.saved.curTrigger), [swi |-> g.thread, trigger |-> last])
<1> DEFINE n == Len(fr)
           z == Append(fr, g)
           a == [swi |-> g.thread, trigger |-> last]
           x == ActiveOf(z, last)
           y == ActiveOf(fr, g.saved.curTrigger)
<1>1. /\ n \in Nat /\ z \in Seq(Frames) /\ Len(z) = n + 1 /\ z[n + 1] = g /\ \A i \in 1 .. n : z[i] = fr[i]
      /\ DOMAIN z = 1 .. n + 1 /\ DOMAIN fr = 1 .. n
  OBVIOUS
<1>2. g.saved.curTrigger \in Triggers /\ g.thread \in Swis \cup {Task, Hwi}
  BY FrameTypes DEF Saved
<1> HIDE DEF z
<1>3. x \in Seq(Active) /\ Len(x) = n + 1 /\ y \in Seq(Active) /\ Len(y) = n /\ a \in Active
  BY <1>1, <1>2, ActiveTyped DEF Active
<1>4. x[n + 1] = a
  BY <1>1 DEF ActiveOf
<1>5. ASSUME NEW i \in 1 .. n PROVE x[i] = y[i]
  <2>1. i \in DOMAIN z /\ i \in DOMAIN fr /\ i # n + 1 /\ z[i] = fr[i]
    BY <1>1, <1>5
  <2>2. z[i + 1] = IF i = n THEN g ELSE fr[i + 1]
    <3>1. i # n => i + 1 \in 1 .. n
      BY <1>1, NextPlace
    <3> QED BY <3>1, <1>1
  <2>3. x[i] = [swi |-> fr[i].thread, trigger |-> z[i + 1].saved.curTrigger]
    BY <2>1, <1>1 DEF ActiveOf
  <2>4. y[i] = [swi |-> fr[i].thread, trigger |-> IF i = n THEN g.saved.curTrigger ELSE fr[i + 1].saved.curTrigger]
    BY <2>1 DEF ActiveOf
  <2> QED BY <2>2, <2>3, <2>4
<1> HIDE DEF x, y, a, n
<1>6. \A i \in 1 .. n + 1 : i = n + 1 \/ i \in 1 .. n
  BY <1>1
<1>7. \A i \in 1 .. n + 1 : x[i] = Append(y, a)[i]
  BY <1>3, <1>4, <1>5, <1>6, <1>1
<1>8. x = Append(y, a)
  BY <1>1, <1>3, <1>7
<1> QED BY <1>8 DEF x, y, a, z

\* Of a thread that is on top, thread and saved are looked at.
LEMMA SameActive ==
  ASSUME NEW b \in Seq(Frames), NEW f \in Frames, NEW g \in Frames, g.thread = f.thread, g.saved = f.saved,
         NEW last \in Triggers
  PROVE  ActiveOf(StartedSwis(Append(b, g)), last) = ActiveOf(StartedSwis(Append(b, f)), last)
<1>1. /\ StartedSwis(b) \in Seq(Frames)
      /\ StartedSwis(Append(b, f)) = IF f.thread \in Swis THEN Append(StartedSwis(b), f) ELSE StartedSwis(b)
      /\ StartedSwis(Append(b, g)) = IF f.thread \in Swis THEN Append(StartedSwis(b), g) ELSE StartedSwis(b)
  BY StartedAre, StartedMore
<1>2. CASE f.thread \in Swis
  BY <1>1, <1>2, ActiveMore
<1>3. CASE f.thread \notin Swis
  BY <1>1, <1>3
<1> QED BY <1>2, <1>3

\* The thread on top goes on.
LEMMA TopActive ==
  ASSUME IInv, IInv', NEW g, stack' = Append(Below, g), g.thread = Top.thread, g.saved = Top.saved,
         curTrigger' = curTrigger
  PROVE  ActiveSwis' = ActiveSwis
<1>1. Below \in Seq(Frames) /\ Top \in Frames /\ stack = Append(Below, Top) /\ curTrigger \in Triggers
  BY TopAndBelow, Typed DEF IInv
<1>2. g \in Frames
  <2>1. stack' \in Seq(Frames)
    BY TypedNext DEF IInv
  <2>2. Len(stack') = Len(Below) + 1 /\ stack'[Len(Below) + 1] = g /\ Len(Below) \in Nat
    BY <1>1
  <2> QED BY <2>1, <2>2
<1> QED BY <1>1, <1>2, SameActive, ActiveSwisAre, ActiveSwisNext

\* The steps that only the thread on top takes: it stays there.
LEMMA TopStays ==
  ASSUME IInv, \/ \E s \in Swis : Swi_post(s)
               \/ \E s \in Swis : Swi_inc(s) \/ Swi_dec(s) \/ \E m \in Masks : Swi_or(s, m) \/ Swi_andn(s, m)
               \/ GateHwi_enter \/ GateHwi_leave \/ DisableRead \/ DisableWrite \/ Swi_restore
               \/ GateAll_enter \/ GateAll_leave \/ GateAll_left
               \/ \E p \in Pri : Swi_raisePri(p)
               \/ LowerRead \/ LowerWrite
  PROVE  /\ \E g : stack' = Append(Below, g) /\ g.thread = Top.thread /\ g.saved = Top.saved
         /\ curTrigger' = curTrigger
<1>1. Top \in Frames /\ stack = Append(Below, Top)
  BY TopAndBelow
<1> DEFINE Stays == /\ \E g : stack' = Append(Below, g) /\ g.thread = Top.thread /\ g.saved = Top.saved
                    /\ curTrigger' = curTrigger
<1>2. ASSUME NEW s \in Swis, Swi_post(s) PROVE Stays
  <2> DEFINE f == [Top EXCEPT !.pc = "run", !.on = NoSwi]
             g == [Top EXCEPT !.pc = "schedule", !.on = NoSwi]
  <2>1. /\ \/ stack' = Append(Below, f)
           \/ stack' = Append(Below, g)
        /\ curTrigger' = curTrigger
    BY <1>2 DEF Swi_post, Becomes, curVars
  <2>2. /\ f.thread = Top.thread /\ f.saved = Top.saved
        /\ g.thread = Top.thread /\ g.saved = Top.saved
    BY <1>1 DEF Frames
  <2> HIDE DEF f, g
  <2> QED BY <1>1, <2>1, <2>2
<1>3. ASSUME NEW s \in Swis, NEW n, NEW post, SetTrigger(s, n, post) PROVE Stays
  <2> DEFINE f == [Top EXCEPT !.pc = "post", !.on = s]
  <2>1. /\ \/ stack' = Append(Below, f)
           \/ stack' = stack
        /\ curTrigger' = curTrigger
    BY <1>3 DEF SetTrigger, Becomes, curVars
  <2>2. /\ f.thread = Top.thread /\ f.saved = Top.saved
    BY <1>1 DEF Frames
  <2> HIDE DEF f
  <2> QED BY <1>1, <2>1, <2>2
<1>4. CASE GateHwi_enter
  <2> DEFINE f == [Top EXCEPT !.held = Append(@, [gate |-> "hwi", key |-> Top.intr]), !.intr = FALSE]
  <2>1. stack' = Append(Below, f) /\ curTrigger' = curTrigger
    BY <1>4 DEF GateHwi_enter, Becomes, curVars
  <2>2. /\ f.thread = Top.thread /\ f.saved = Top.saved
    BY <1>1 DEF Frames
  <2> HIDE DEF f
  <2> QED BY <1>1, <2>1, <2>2
<1>5. CASE GateHwi_leave
  <2> DEFINE f == [Top EXCEPT !.held = Front(@), !.intr = Last(Top.held).key]
  <2>1. stack' = Append(Below, f) /\ curTrigger' = curTrigger
    BY <1>5 DEF GateHwi_leave, Becomes, curVars
  <2>2. /\ f.thread = Top.thread /\ f.saved = Top.saved
    BY <1>1 DEF Frames
  <2> HIDE DEF f
  <2> QED BY <1>1, <2>1, <2>2
<1>6. CASE DisableRead
  <2> DEFINE f == [Top EXCEPT !.pc = "disable", !.key = locked]
  <2>1. stack' = Append(Below, f) /\ curTrigger' = curTrigger
    BY <1>6 DEF DisableRead, Becomes, curVars
  <2>2. /\ f.thread = Top.thread /\ f.saved = Top.saved
    BY <1>1 DEF Frames
  <2> HIDE DEF f
  <2> QED BY <1>1, <2>1, <2>2
<1>7. CASE DisableWrite
  <2> DEFINE f == [Top EXCEPT !.pc = "run", !.key = FALSE, !.held = Append(@, [gate |-> "swi", key |-> Top.key])]
  <2>1. stack' = Append(Below, f) /\ curTrigger' = curTrigger
    BY <1>7 DEF DisableWrite, Becomes, curVars
  <2>2. /\ f.thread = Top.thread /\ f.saved = Top.saved
    BY <1>1 DEF Frames
  <2> HIDE DEF f
  <2> QED BY <1>1, <2>1, <2>2
<1>8. CASE Swi_restore
  <2> DEFINE f == [Top EXCEPT !.held = Front(@), !.pc = "run"]
             g == [f EXCEPT !.pc = "schedule"]
             h == [f EXCEPT !.intr = TRUE]
  <2>1. /\ \/ stack' = Append(Below, f)
           \/ stack' = Append(Below, g)
           \/ stack' = Append(Below, h)
        /\ curTrigger' = curTrigger
    BY <1>8 DEF Swi_restore, TaskRestore, Becomes, curVars
  <2>2. /\ f.thread = Top.thread /\ f.saved = Top.saved
        /\ g.thread = Top.thread /\ g.saved = Top.saved
        /\ h.thread = Top.thread /\ h.saved = Top.saved
    BY <1>1 DEF Frames
  <2> HIDE DEF f, g, h
  <2> QED BY <1>1, <2>1, <2>2
<1>9. CASE GateAll_enter
  <2> DEFINE f == [Top EXCEPT !.held = Append(@, [gate |-> "all", key |-> TRUE])]
             g == [Top EXCEPT !.held = Append(@, [gate |-> "all", key |-> FALSE]), !.intr = FALSE]
  <2>1. /\ \/ stack' = Append(Below, f)
           \/ stack' = Append(Below, g)
        /\ curTrigger' = curTrigger
    BY <1>9 DEF GateAll_enter, Becomes, curVars
  <2>2. /\ f.thread = Top.thread /\ f.saved = Top.saved
        /\ g.thread = Top.thread /\ g.saved = Top.saved
    BY <1>1 DEF Frames
  <2> HIDE DEF f, g
  <2> QED BY <1>1, <2>1, <2>2
<1>10. CASE GateAll_leave
  <2> DEFINE f == [Top EXCEPT !.held = Front(@)]
             g == [Top EXCEPT !.pc = "schedule"]
             h == [Top EXCEPT !.pc = "leaving"]
             k == [h EXCEPT !.intr = TRUE]
  <2>1. /\ \/ stack' = Append(Below, f)
           \/ stack' = Append(Below, g)
           \/ stack' = Append(Below, h)
           \/ stack' = Append(Below, k)
        /\ curTrigger' = curTrigger
    BY <1>10 DEF GateAll_leave, Goto, TaskRestore, Becomes, curVars
  <2>2. /\ f.thread = Top.thread /\ f.saved = Top.saved
        /\ g.thread = Top.thread /\ g.saved = Top.saved
        /\ h.thread = Top.thread /\ h.saved = Top.saved
        /\ k.thread = Top.thread /\ k.saved = Top.saved
    BY <1>1 DEF Frames
  <2> HIDE DEF f, g, h, k
  <2> QED BY <1>1, <2>1, <2>2
<1>11. CASE GateAll_left
  <2> DEFINE f == [Top EXCEPT !.pc = "run", !.held = Front(@), !.intr = all.hwiKey]
  <2>1. stack' = Append(Below, f) /\ curTrigger' = curTrigger
    BY <1>11 DEF GateAll_left, Becomes, curVars
  <2>2. /\ f.thread = Top.thread /\ f.saved = Top.saved
    BY <1>1 DEF Frames
  <2> HIDE DEF f
  <2> QED BY <1>1, <2>1, <2>2
<1>12. ASSUME NEW p \in Pri, Swi_raisePri(p) PROVE Stays
  <2> DEFINE f == [Top EXCEPT !.held = Append(@, [gate |-> "pri", key |-> pri[curSwi]])]
  <2>1. stack' = Append(Below, f) /\ curTrigger' = curTrigger
    BY <1>12 DEF Swi_raisePri, Becomes, curVars
  <2>2. /\ f.thread = Top.thread /\ f.saved = Top.saved
    BY <1>1 DEF Frames
  <2> HIDE DEF f
  <2> QED BY <1>1, <2>1, <2>2
<1>13. CASE LowerRead
  <2> DEFINE f == [Top EXCEPT !.pc = "lowering", !.key = locked]
  <2>1. stack' = Append(Below, f) /\ curTrigger' = curTrigger
    BY <1>13 DEF LowerRead, Becomes, curVars
  <2>2. /\ f.thread = Top.thread /\ f.saved = Top.saved
    BY <1>1 DEF Frames
  <2> HIDE DEF f
  <2> QED BY <1>1, <2>1, <2>2
<1>14. CASE LowerWrite
  <2> DEFINE f == [Top EXCEPT !.pc = "lowered", !.key = FALSE, !.held = Append(Front(@), [gate |-> "swi", key |-> Top.key])]
  <2>1. stack' = Append(Below, f) /\ curTrigger' = curTrigger
    BY <1>14 DEF LowerWrite, Becomes, curVars
  <2>2. /\ f.thread = Top.thread /\ f.saved = Top.saved
    BY <1>1 DEF Frames
  <2> HIDE DEF f
  <2> QED BY <1>1, <2>1, <2>2
<1>15. ASSUME NEW s \in Swis, Swi_inc(s) \/ Swi_dec(s) \/ \E m \in Masks : Swi_or(s, m) \/ Swi_andn(s, m)
       PROVE  Stays
  BY <1>3, <1>15 DEF Swi_inc, Swi_dec, Swi_or, Swi_andn
<1> QED BY <1>2, <1>4, <1>5, <1>6, <1>7, <1>8, <1>9, <1>10, <1>11, <1>12, <1>13, <1>14, <1>15

ready == [p \in Pri |-> Elements(p)]

\* What the abstract steps look like here.
LEMMA PromisedPost ==
  ASSUME NEW s \in Swis, UNCHANGED <<ActiveSwis, trigger, initTrigger, pri>>,
         ~\E p \in Pri : \E i \in DOMAIN ready[p] : ready[p][i] = s,
         ready' = [ready EXCEPT ![pri[s]] = Append(@, s)]
  PROVE  Promise!Next
<1> USE DEF ready
<1> QED BY Zenon DEF Promise!Post, Promise!Posted, Promise!Next

LEMMA PromisedTrigger ==
  ASSUME NEW s \in Swis, UNCHANGED <<ActiveSwis, pri, initTrigger, ready>>,
         NEW n \in Triggers, trigger' = [trigger EXCEPT ![s] = n]
  PROVE  Promise!Next
<1> USE DEF ready
<1> QED BY Zenon DEF Promise!Trigger, Promise!Next

LEMMA PromisedConfigure ==
  ASSUME NEW s \in Swis, UNCHANGED <<ActiveSwis, ready>>,
         \/ UNCHANGED <<trigger, initTrigger>>
         \/ \E n \in Triggers : /\ trigger' = [trigger EXCEPT ![s] = n]
                                /\ initTrigger' = [initTrigger EXCEPT ![s] = n],
         NEW p \in Pri, pri' = [pri EXCEPT ![s] = p],
         ~\E r \in Pri : \E i \in DOMAIN ready[r] : ready[r][i] = s,
         ~\E i \in DOMAIN ActiveSwis : ActiveSwis[i].swi = s
  PROVE  Promise!Next
<1> USE DEF ready
<1> QED BY Zenon DEF Promise!Configure, Promise!Posted, Promise!Started, Promise!Next

LEMMA PromisedStart ==
  ASSUME NEW s \in Swis, NEW base,
         base = ActiveSwis \/ (ActiveSwis # <<>> /\ base = SubSeq(ActiveSwis, 1, Len(ActiveSwis) - 1)),
         ActiveSwis' = Append(base, [swi |-> s, trigger |-> trigger[s]]),
         trigger' = [trigger EXCEPT ![s] = initTrigger[s]], UNCHANGED <<pri, initTrigger>>,
         NEW q \in Pri, ready[q] # <<>>, s = Head(ready[q]), \A r \in Pri : ready[r] # <<>> => r <= q,
         q > (IF base = <<>> THEN -1 ELSE pri[base[Len(base)].swi]),
         ready' = [ready EXCEPT ![q] = Tail(@)]
  PROVE  Promise!Next
<1>1. Promise!StartOn(base, s)
  <2> USE DEF ready
  <2>1. Promise!First(q, s) /\ q > Promise!CurLevel(base)
    BY Zenon DEF Promise!First, Promise!CurLevel
  <2> QED BY <2>1, Zenon DEF Promise!StartOn
<1> QED BY <1>1, Zenon DEF Promise!Start, Promise!Return, Promise!Returned, Promise!Next

LEMMA PromisedReturn ==
  ASSUME ActiveSwis # <<>>, ActiveSwis' = SubSeq(ActiveSwis, 1, Len(ActiveSwis) - 1), UNCHANGED <<trigger, initTrigger, pri, ready>>
  PROVE  Promise!Next
<1> USE DEF ready
<1> QED BY Zenon DEF Promise!Return, Promise!Returned, Promise!Next

Implemented == Promise!Next \/ UNCHANGED Promise!specVars

LEMMA PromisedStutter == ASSUME UNCHANGED <<ActiveSwis, trigger, initTrigger, pri, ready>> PROVE Implemented
<1> USE DEF ready
<1> QED BY Zenon DEF Promise!specVars, Implemented

LEMMA ReadyKept == ASSUME UNCHANGED link PROVE ready' = ready
  BY DEF ready, Elements

LEMMA ReadyChange ==
  ASSUME NEW p \in Pri, NEW z, \A r \in Pri : Elements(r)' = IF r = p THEN z ELSE Elements(r)
  PROVE  ready' = [ready EXCEPT ![p] = z]
<1>1. ready' = [r \in Pri |-> Elements(r)']
  BY DEF ready
<1>2. [ready EXCEPT ![p] = z] = [r \in Pri |-> IF r = p THEN z ELSE Elements(r)]
  BY DEF ready
<1> HIDE DEF Elements
<1> QED BY <1>1, <1>2

\* Posted is being on a list.
LEMMA OnNoList ==
  ASSUME ListsOK, NEW s \in Swis, ~posted[s]
  PROVE  ~\E p \in Pri : \E i \in DOMAIN ready[p] : ready[p][i] = s
<1>1. \A p \in Pri : ready[p] = Elements(p)
  BY DEF ready
<1> HIDE DEF Elements
<1> QED BY <1>1 DEF ListsOK

-----------------------------------------------------------------------------
(* Each step is one of the promise, or none of it.                         *)

LEMMA TopImplements ==
  ASSUME IInv, IInv', UNCHANGED <<link, trigger, initTrigger, pri>>,
         \E g : stack' = Append(Below, g) /\ g.thread = Top.thread /\ g.saved = Top.saved,
         curTrigger' = curTrigger
  PROVE  Implemented
  BY TopActive, ReadyKept, PromisedStutter

LEMMA PostImplements == ASSUME IInv, IInv', NEW s \in Swis, Swi_post(s) PROVE Implemented
<1>1. /\ \E g : stack' = Append(Below, g) /\ g.thread = Top.thread /\ g.saved = Top.saved
      /\ curTrigger' = curTrigger
  BY TopStays
<1>2. ActiveSwis' = ActiveSwis
  BY <1>1, TopActive
<1>3. UNCHANGED <<trigger, pri, initTrigger>>
  BY DEF Swi_post, attrVars
<1>4. CASE posted[s]
  BY <1>1, <1>3, <1>4, TopImplements DEF Swi_post
<1>5. CASE ~posted[s]
  <2>1. SwisTyped /\ ListsOK
    BY Typed DEF IInv
  <2>2. /\ posted' = [posted EXCEPT ![s] = TRUE] /\ link' = Queue_put(link, pri[s], s)
        /\ curSet' = curSet \cup {pri[s]}
    BY <1>5 DEF Swi_post
  <2>3. /\ \A r \in Pri : Elements(r)' = IF r = pri[s] THEN Append(Elements(r), s) ELSE Elements(r)
        /\ pri[s] \in Pri
    BY <2>1, <2>2, <1>3, <1>5, ListPut DEF SwisTyped
  <2> DEFINE z == Append(Elements(pri[s]), s)
  <2>4. ready' = [ready EXCEPT ![pri[s]] = z]
    <3>1. \A r \in Pri : Elements(r)' = IF r = pri[s] THEN z ELSE Elements(r)
      BY <2>3
    <3> HIDE DEF z
    <3> QED BY <3>1, <2>3, ReadyChange
  <2>5. ready[pri[s]] = Elements(pri[s])
    BY <2>3 DEF ready
  <2>6. ready' = [ready EXCEPT ![pri[s]] = Append(@, s)]
    BY <2>4, <2>5
  <2> QED BY <2>1, <2>6, <1>2, <1>3, <1>5, OnNoList, PromisedPost DEF Implemented
<1> QED BY <1>4, <1>5

LEMMA TriggersImplement ==
  ASSUME IInv, IInv', NEW s \in Swis, Swi_inc(s) \/ Swi_dec(s) \/ \E m \in Masks : Swi_or(s, m) \/ Swi_andn(s, m)
  PROVE  Implemented
<1>1. /\ \E g : stack' = Append(Below, g) /\ g.thread = Top.thread /\ g.saved = Top.saved
      /\ curTrigger' = curTrigger
  BY TopStays
<1>2. UNCHANGED <<link, pri, initTrigger>> /\ \E n : trigger' = [trigger EXCEPT ![s] = n]
  BY DEF Swi_inc, Swi_dec, Swi_or, Swi_andn, SetTrigger, attrVars
<1>3. PICK n : trigger' = [trigger EXCEPT ![s] = n]
  BY <1>2
<1>4. n \in Triggers
  <2>1. trigger \in [Swis -> Triggers] /\ trigger' \in [Swis -> Triggers]
    BY Typed, TypedNext DEF IInv, SwisTyped
  <2>2. trigger'[s] = n /\ trigger'[s] \in Triggers
    BY <2>1, <1>3
  <2> QED BY <2>2
<1> QED BY <1>1, <1>2, <1>3, <1>4, TopActive, ReadyKept, PromisedTrigger DEF Implemented

LEMMA AttrsImplement ==
  ASSUME IInv, IInv', NEW s \in Swis, AtRest(s), UNCHANGED <<link, stack, curTrigger>>,
         \/ UNCHANGED <<trigger, initTrigger>>
         \/ \E n \in Triggers : /\ trigger' = [trigger EXCEPT ![s] = n]
                                /\ initTrigger' = [initTrigger EXCEPT ![s] = n],
         NEW p \in Pri, pri' = [pri EXCEPT ![s] = p]
  PROVE  Implemented
<1>1. ListsOK /\ ~posted[s] /\ stack \in Seq(Frames) /\ curTrigger \in Triggers /\ ~Running(s)
  BY Typed DEF IInv, AtRest
<1>2. ActiveSwis' = ActiveSwis
  BY ActiveSwisAre, ActiveSwisNext
<1>3. ~\E i \in DOMAIN ActiveSwis : ActiveSwis[i].swi = s
  <2> DEFINE fr == StartedSwis(stack)
  <2>1. fr \in Seq(Frames) /\ DOMAIN fr = 1 .. Len(fr) /\ \A i \in DOMAIN fr : fr[i].thread # s
    BY <1>1, StartedAre DEF Running
  <2> HIDE DEF fr
  <2>2. DOMAIN ActiveOf(fr, curTrigger) = DOMAIN fr
    BY DEF ActiveOf
  <2>3. \A i \in DOMAIN fr : ActiveOf(fr, curTrigger)[i].swi = fr[i].thread
    BY <2>1, <1>1, ActiveTyped
  <2> QED BY <2>1, <2>2, <2>3, ActiveSwisAre DEF fr
<1> QED BY <1>1, <1>2, <1>3, ReadyKept, OnNoList, PromisedConfigure DEF Implemented

LEMMA SetPriImplements == ASSUME IInv, IInv', NEW s \in Swis, NEW p \in Levels[s], Swi_setPri(s, p) PROVE Implemented
<1>1. p \in Pri
  BY SwiAssumption
<1>2. UNCHANGED <<trigger, initTrigger>>
  BY DEF Swi_setPri
<1>3. AtRest(s) /\ pri' = [pri EXCEPT ![s] = p] /\ UNCHANGED <<link, stack, curTrigger>>
  BY DEF Swi_setPri, curVars
<1> QED BY <1>1, <1>2, <1>3, AttrsImplement

LEMMA SetAttrsImplements ==
  ASSUME IInv, IInv', ~LateSetAttrs, NEW s \in Swis, NEW p \in Levels[s], NEW n \in Starts, Swi_setAttrs(s, p, n)
  PROVE  Implemented
<1>1. p \in Pri /\ n \in Triggers
  BY SwiAssumption
<1>2. /\ AtRest(s) /\ pri' = [pri EXCEPT ![s] = p] /\ UNCHANGED <<stack, curTrigger>>
      /\ trigger' = [trigger EXCEPT ![s] = n] /\ initTrigger' = [initTrigger EXCEPT ![s] = n]
  BY DEF Swi_setAttrs, curVars
<1>3. link' = link
  BY SetAttrsKeepsLink DEF IInv
<1> QED BY <1>1, <1>2, <1>3, AttrsImplement

\* An interrupt is none of the Swis.
LEMMA InterruptsImplement == ASSUME IInv, IInv', HwiEnter \/ HwiReturn PROVE Implemented
<1>1. UNCHANGED <<link, trigger, initTrigger, pri, curTrigger>> /\ Hwi \notin Swis
  BY SwiAssumption DEF HwiEnter, HwiReturn, swiVars, attrVars, curVars
<1>2. /\ Below \in Seq(Frames) /\ Top \in Frames
      /\ StartedSwis(stack) = IF Top.thread \in Swis THEN Append(StartedSwis(Below), Top) ELSE StartedSwis(Below)
  BY TopAndBelow
<1>3. CASE HwiEnter
  <2>1. stack' = Append(stack, Started(Hwi, locked)) /\ stack \in Seq(Frames)
    BY <1>3, Typed DEF HwiEnter, IInv
  <2>2. Started(Hwi, locked) \in Frames /\ Started(Hwi, locked).thread = Hwi
    <3>1. NoSaved \in Saved /\ locked \in BOOLEAN
      BY SwiAssumption, Typed DEF NoSaved, Saved, Triggers, IInv
    <3> QED BY <3>1 DEF Started, Frames, PCs
  <2>3. StartedSwis(stack') = StartedSwis(stack)
    BY <2>1, <2>2, <1>1, StartedMore
  <2> QED BY <2>3, <1>1, ActiveSwisAre, ActiveSwisNext, ReadyKept, PromisedStutter
<1>4. CASE HwiReturn /\ At("run") /\ stack' = Below
  <2>1. StartedSwis(stack') = StartedSwis(stack)
    BY <1>1, <1>2, <1>4 DEF HwiReturn
  <2> QED BY <2>1, <1>1, ActiveSwisAre, ActiveSwisNext, ReadyKept, PromisedStutter
<1>5. CASE HwiReturn /\ Goto("window")
  <2> DEFINE g == [Top EXCEPT !.pc = "window"]
  <2>1. stack' = Append(Below, g)
    BY <1>5 DEF Goto, Becomes
  <2>2. g.thread = Top.thread /\ g.saved = Top.saved
    BY <1>2 DEF Frames
  <2> HIDE DEF g
  <2> QED BY <2>1, <2>2, <1>1, TopImplements
<1> QED BY <1>3, <1>4, <1>5 DEF HwiReturn

\* The sequence of those that have started, without the last.
LEMMA WithoutLast ==
  ASSUME NEW S, NEW z \in Seq(S), NEW e \in S
  PROVE  Append(z, e) # <<>> /\ SubSeq(Append(z, e), 1, Len(Append(z, e)) - 1) = z
  OBVIOUS

\* The level below which Swi_schedule lets no Swi start is that of the last
\* Swi on the stack, or lower.
LEMMA LevelsAgree ==
  ASSUME TypeOK, NEW fr \in Seq(Frames), NEW last \in Triggers, NEW swi, NEW q \in Pri \cup {NoQ},
         IsCurrent(fr, swi, q, pri), NEW p \in Pri, p > q,
         \A i \in DOMAIN fr : fr[i].thread \in Swis
  PROVE  LET base == ActiveOf(fr, last)
         IN  p > IF base = <<>> THEN -1 ELSE pri[base[Len(base)].swi]
<1> DEFINE base == ActiveOf(fr, last)
<1>1. base \in Seq(Active) /\ Len(base) = Len(fr) /\ \A i \in 1 .. Len(fr) : base[i].swi = fr[i].thread
  BY ActiveTyped
<1> HIDE DEF base
<1>2. CASE fr = <<>>
  <2>1. base = <<>>
    BY <1>1, <1>2
  <2> QED BY <2>1 DEF Pri, base
<1>3. CASE fr # <<>>
  <2>1. Len(fr) \in 1 .. Len(fr) /\ Last(fr) = fr[Len(fr)] /\ base # <<>>
    BY <1>1, <1>3 DEF Last
  <2>2. base[Len(base)].swi = Last(fr).thread
    BY <1>1, <2>1
  <2>3. pri[Last(fr).thread] <= q /\ pri[Last(fr).thread] \in Pri
    BY <1>3, <2>1 DEF IsCurrent, TypeOK
  <2>4. p > pri[Last(fr).thread]
    BY <2>3 DEF Pri, NoQ
  <2> QED BY <2>1, <2>2, <2>4 DEF base
<1> QED BY <1>2, <1>3

\* Swi_run starts a Swi above what goes on with was.
LEMMA RunImplements ==
  ASSUME IInv, NEW threads, NEW was, Scheduling(threads, was),
         curSet # {}, Intrinsics_maxbit(curSet) > was.curQ,
         RunFirst(Intrinsics_maxbit(curSet), Append(Front(threads), [Last(threads) EXCEPT !.pc = "loop"]), was),
         LET base == ActiveOf(StartedSwis(threads), was.curTrigger)
         IN  base = ActiveSwis \/ (ActiveSwis # <<>> /\ base = SubSeq(ActiveSwis, 1, Len(ActiveSwis) - 1))
  PROVE  Promise!Next
<1> DEFINE q == Intrinsics_maxbit(curSet)
           s == Queue_head(link, q)
           f == Last(threads)
           b == Front(threads)
           w == [f EXCEPT !.pc = "loop"]
           c == Append(b, w)
           g == [Started(s, FALSE) EXCEPT !.saved = was]
           base == ActiveOf(StartedSwis(threads), was.curTrigger)
<1>1. /\ s \in Swis /\ link' = Queue_dequeue(link, q)
      /\ curSet' = IF Queue_empty(link', q) THEN curSet \ {pri[s]} ELSE curSet
      /\ curTrigger' = trigger[s]
      /\ trigger' = [trigger EXCEPT ![s] = initTrigger[s]]
      /\ posted' = [posted EXCEPT ![s] = FALSE]
      /\ stack' = Append(c, g)
      /\ UNCHANGED <<pri, initTrigger>>
  BY DEF RunFirst, SwiRun, attrVars
<1>2. TypeOK /\ SwisTyped /\ ListsOK
  BY Typed DEF IInv
<1>3. q \in Pri /\ \A p \in curSet : p <= q
  BY <1>2, Highest
<1>4. trigger' \in [Swis -> Triggers] /\ trigger[s] \in Triggers /\ initTrigger[s] \in Triggers
  BY <1>1, <1>2 DEF SwisTyped
<1>5. /\ Elements(q) # <<>> /\ s = Head(Elements(q))
      /\ \A r \in Pri : Elements(r)' = IF r = q THEN Tail(Elements(r)) ELSE Elements(r)
  BY <1>1, <1>2, <1>3, <1>4, ListTaken
<1>6. b \in Seq(Frames) /\ f \in Frames /\ threads = Append(b, f)
  BY SchedulingThread
<1>7. w \in Frames /\ w.thread = f.thread /\ w.saved = f.saved
  BY <1>6 DEF Frames, PCs
<1>8. was \in Saved /\ was.curTrigger \in Triggers /\ was.curQ \in Pri \cup {NoQ}
  BY DEF Scheduling, Saved
<1>9. g \in Frames /\ g.thread = s /\ g.saved = was
  <2> HIDE DEF s
  <2> QED BY <1>1, <1>8, Begins
<1>10. q > was.curQ /\ (base = ActiveSwis \/ (ActiveSwis # <<>> /\ base = SubSeq(ActiveSwis, 1, Len(ActiveSwis) - 1)))
  OBVIOUS
<1> HIDE DEF q, s, f, b, w, g, base
<1>11. c \in Seq(Frames) /\ StartedSwis(c) \in Seq(Frames)
  <2>1. c \in Seq(Frames)
    BY <1>6, <1>7
  <2> HIDE DEF c
  <2> QED BY <2>1, StartedAre
<1>12. ActiveOf(StartedSwis(c), was.curTrigger) = base
  BY <1>6, <1>7, <1>8, SameActive DEF base
<1> HIDE DEF c
<1>13. ActiveSwis' = Append(base, [swi |-> s, trigger |-> trigger[s]])
  <2>1. StartedSwis(stack') = Append(StartedSwis(c), g)
    BY <1>1, <1>9, <1>11, StartedMore
  <2> QED BY <2>1, <1>1, <1>4, <1>9, <1>11, <1>12, ActiveMore, ActiveSwisNext
<1>14. q > (IF base = <<>> THEN -1 ELSE pri[base[Len(base)].swi])
  <2>1. /\ StartedSwis(threads) \in Seq(Frames)
        /\ \A i \in DOMAIN StartedSwis(threads) : StartedSwis(threads)[i].thread \in Swis
        /\ IsCurrent(StartedSwis(threads), was.curSwi, was.curQ, pri)
    BY StartedAre DEF Scheduling
  <2> QED BY <2>1, <1>2, <1>3, <1>8, <1>10, LevelsAgree DEF base
<1>15. \A r \in Pri : ready[r] = Elements(r)
  BY DEF ready
<1>16. /\ ready[q] # <<>> /\ s = Head(ready[q]) /\ \A r \in Pri : ready[r] # <<>> => r <= q
  BY <1>2, <1>3, <1>5, <1>15 DEF ListsOK
<1>17. ready' = [ready EXCEPT ![q] = Tail(@)]
  <2> DEFINE z == Tail(Elements(q))
  <2>1. \A r \in Pri : Elements(r)' = IF r = q THEN z ELSE Elements(r)
    BY <1>5
  <2> HIDE DEF z
  <2>2. ready' = [ready EXCEPT ![q] = z]
    BY <2>1, <1>3, ReadyChange
  <2> QED BY <2>2, <1>3, <1>15 DEF z
<1> QED BY <1>1, <1>3, <1>4, <1>10, <1>13, <1>14, <1>16, <1>17, PromisedStart

\* The thread that called goes on, with the Swis that were below.
LEMMA EndOfLoopActive ==
  ASSUME IInv, NEW threads, NEW was, Scheduling(threads, was), CallerGoesOn(threads), curTrigger' = was.curTrigger
  PROVE  ActiveSwis' = ActiveOf(StartedSwis(threads), was.curTrigger)
<1> DEFINE f == Last(threads)
           b == Front(threads)
           w == [f EXCEPT !.pc = IF LeavingAll(f) THEN "leaving" ELSE "run"]
<1>1. IF w.thread = Hwi THEN stack' = b ELSE \E g \in TaskRestore(w) : stack' = Append(b, g)
  BY DEF CallerGoesOn
<1>2. b \in Seq(Frames) /\ f \in Frames /\ threads = Append(b, f) /\ was.curTrigger \in Triggers
  BY SchedulingThread DEF Scheduling, Saved
<1>3. w \in Frames /\ w.thread = f.thread /\ w.saved = f.saved
  BY <1>2 DEF Frames, PCs
<1> HIDE DEF f, b, w
<1>4. CASE f.thread = Hwi
  <2>1. StartedSwis(threads) = StartedSwis(stack')
    BY <1>1, <1>2, <1>3, <1>4, StartedMore, SwiAssumption
  <2> QED BY <2>1, ActiveSwisNext
<1>5. CASE f.thread # Hwi
  <2>1. PICK g \in TaskRestore(w) : stack' = Append(b, g)
    BY <1>1, <1>3, <1>5
  <2>2. g \in Frames /\ g.thread = f.thread /\ g.saved = f.saved
    BY <1>3, Restored
  <2> QED BY <2>1, <2>2, <1>2, SameActive, ActiveSwisNext
<1> QED BY <1>4, <1>5

LEMMA ScheduleImplements ==
  ASSUME IInv, NEW threads, NEW was, Scheduling(threads, was), Schedule(threads, was),
         LET base == ActiveOf(StartedSwis(threads), was.curTrigger)
         IN  base = ActiveSwis \/ (ActiveSwis # <<>> /\ base = SubSeq(ActiveSwis, 1, Len(ActiveSwis) - 1))
  PROVE  Implemented
<1>1. CASE curSet # {} /\ Intrinsics_maxbit(curSet) > was.curQ
  BY <1>1, RunImplements DEF Schedule, Implemented
<1>2. CASE ~(curSet # {} /\ Intrinsics_maxbit(curSet) > was.curQ)
  <2>1. /\ CallerGoesOn(threads) /\ curTrigger' = was.curTrigger /\ UNCHANGED <<link, trigger, initTrigger, pri>>
    BY <1>2 DEF Schedule, attrVars
  <2> QED BY <2>1, EndOfLoopActive, ReadyKept, PromisedStutter, PromisedReturn DEF Implemented
<1> QED BY <1>1, <1>2

LEMMA LoopsImplement == ASSUME IInv, SwiSchedule \/ Swi_restoreHwi PROVE Implemented
<1>1. Scheduling(stack, Current) /\ Schedule(stack, Current)
  BY ScheduleFromTop DEF SwiSchedule, Swi_restoreHwi, At
<1>2. ActiveOf(StartedSwis(stack), Current.curTrigger) = ActiveSwis
  BY ActiveSwisAre DEF Current
<1> QED BY <1>1, <1>2, ScheduleImplements

LEMMA ReturnImplements == ASSUME IInv, SwiReturn PROVE Implemented
<1>1. Scheduling(Below, Top.saved) /\ Schedule(Below, Top.saved) /\ Top.thread \in Swis
  BY ScheduleFromBelow DEF SwiReturn
<1> DEFINE S == StartedSwis(Below)
           base == ActiveOf(S, Top.saved.curTrigger)
           e == [swi |-> Top.thread, trigger |-> curTrigger]
<1>2. S \in Seq(Frames) /\ StartedSwis(stack) = Append(S, Top) /\ Top \in Frames
  BY <1>1, TopAndBelow
<1>3. curTrigger \in Triggers /\ Top.saved.curTrigger \in Triggers
  BY <1>2, Typed, FrameTypes DEF IInv, Saved
<1>4. ActiveSwis = Append(base, e)
  BY <1>2, <1>3, ActiveMore, ActiveSwisAre
<1>5. base \in Seq(Active) /\ e \in Active
  BY <1>1, <1>2, <1>3, ActiveTyped DEF Active
<1> HIDE DEF base, e
<1>6. ActiveSwis # <<>> /\ base = SubSeq(ActiveSwis, 1, Len(ActiveSwis) - 1)
  BY <1>4, <1>5, WithoutLast
<1> QED BY <1>1, <1>6, ScheduleImplements DEF base, S

LEMMA NextImplements == ASSUME IInv, IInv', ~LateSetAttrs, [Next]_vars PROVE Implemented
<1>1. CASE GateAll
  <2>1. UNCHANGED <<link, trigger, initTrigger, pri>>
    BY <1>1 DEF GateAll, GateAll_enter, GateAll_leave, GateAll_left, swiVars, attrVars
  <2> QED BY <1>1, <2>1, TopStays, TopImplements DEF GateAll
<1>2. CASE Step
  <2>1. ASSUME NEW s \in Swis, Swi_post(s) PROVE Implemented
    BY <2>1, PostImplements
  <2>2. ASSUME NEW s \in Swis, Swi_inc(s) \/ Swi_dec(s) \/ \E m \in Masks : Swi_or(s, m) \/ Swi_andn(s, m)
        PROVE  Implemented
    BY <2>2, TriggersImplement
  <2>3. ASSUME NEW s \in Swis, NEW p \in Levels[s], Swi_setPri(s, p) PROVE Implemented
    BY <2>3, SetPriImplements
  <2>4. ASSUME NEW s \in Swis, NEW p \in Levels[s], NEW n \in Starts, Swi_setAttrs(s, p, n) PROVE Implemented
    BY <2>4, SetAttrsImplements
  <2>5. ASSUME NEW p \in Pri, Swi_raisePri(p) PROVE Implemented
    <3>1. UNCHANGED <<link, trigger, initTrigger, pri>>
      BY <2>5 DEF Swi_raisePri, swiVars, attrVars
    <3> QED BY <2>5, <3>1, TopStays, TopImplements
  <2>6. CASE GateHwi_enter \/ DisableRead \/ Leave \/ DisableWrite \/ LowerWrite
    <3>1. UNCHANGED <<link, trigger, initTrigger, pri>>
      BY <2>6 DEF GateHwi_enter, DisableRead, Leave, GateHwi_leave, Swi_restore, LowerRead, DisableWrite, LowerWrite,
                  swiVars, attrVars
    <3> QED BY <2>6, <3>1, TopStays, TopImplements DEF Leave
  <2>7. CASE SwiSchedule \/ Swi_restoreHwi
    BY <2>7, LoopsImplement
  <2>8. CASE SwiReturn
    BY <2>8, ReturnImplements
  <2>9. CASE HwiEnter \/ HwiReturn
    BY <2>9, InterruptsImplement
  <2> QED BY <1>2, <2>1, <2>2, <2>3, <2>4, <2>5, <2>6, <2>7, <2>8, <2>9 DEF Step, Call
<1>3. CASE UNCHANGED vars
  <2>1. UNCHANGED <<link, stack, curTrigger, trigger, initTrigger, pri>>
    BY <1>3 DEF vars, swiVars, attrVars, curVars
  <2> QED BY <2>1, ActiveSwisAre, ActiveSwisNext, ReadyKept, PromisedStutter
<1> QED BY <1>1, <1>2, <1>3 DEF Next

LEMMA InitImplements == Init => Promise!Init
<1> SUFFICES ASSUME Init PROVE Promise!Init
  OBVIOUS
<1>1. IInv
  BY InitIInv
<1>2. ready = [p \in Pri |-> <<>>]
  <2>1. \A p \in Pri : Elements(p) = <<>>
    BY <1>1 DEF IInv, ListsOK, Init
  <2> QED BY <2>1 DEF ready
<1>3. ActiveSwis = <<>>
  <2> DEFINE g == Started(Task, FALSE)
  <2>1. stack = <<g>> /\ g.thread = Task /\ stack \in Seq(Frames)
    BY <1>1, Typed DEF Init, Started, IInv
  <2> HIDE DEF g
  <2>2. g \in Frames
    <3>1. <<g>>[1] = g /\ 1 \in DOMAIN <<g>>
      OBVIOUS
    <3> QED BY <2>1, <3>1
  <2>3. <<g>> = Append(<<>>, g) /\ <<>> \in Seq(Frames)
    OBVIOUS
  <2>4. StartedSwis(stack) = <<>>
    BY <2>1, <2>2, <2>3, StartedMore, StartedNone, SwiAssumption
  <2>5. ActiveSwis = [i \in {} |-> [swi |-> <<>>[i].thread, trigger |-> IF i = 0 THEN curTrigger ELSE <<>>[i + 1].saved.curTrigger]]
    BY <2>4 DEF ActiveSwis
  <2> QED BY <2>5
<1>4. trigger = initTrigger /\ initTrigger \in [Swis -> Triggers] /\ pri \in [Swis -> Pri]
  BY <1>1, Typed DEF IInv, SwisTyped, Init
<1> QED BY <1>2, <1>3, <1>4, Zenon DEF Promise!Init, ready

\* Swi.c runs the Swis as SwiSpec says: once for each time they are posted while
\* they are not ready, the first of the highest list first, and none below or at
\* the level of the Swi that runs; it sees the trigger as it was when it started,
\* and the trigger is the configured one again from then on.
THEOREM Implements == ASSUME ~LateSetAttrs PROVE Spec => KeepsPromise
<1>1. Init => Promise!Init
  BY InitImplements
<1>2. IInv /\ IInv' /\ [Next]_vars => [Promise!Next]_(Promise!specVars)
  BY NextImplements DEF Implemented
<1> QED BY <1>1, <1>2, Invariance, PTL DEF Spec, KeepsPromise, Promise!Spec
-----------------------------------------------------------------------------
(* The mailbox.  The inductive invariant.                                  *)

Sems == {"data", "free"}

\* Where a thread pends on a semaphore, and where it goes with its token.
Caller(s) == IF s = "data" THEN "pendPend" ELSE "postPend"
Onward(s) == IF s = "data" THEN "get" ELSE "dequeue"

HandPCs == {"copyIn", "enqueue", "copyOut", "giveBack"}

On(l)        == {t \in Threads : boxPc[t] = l}
GrantedOf(s) == {t \in Clients : boxPc[t] = Caller(s) /\ outcome[t] = "granted"}
BoxHeld         == {t \in Threads : elem[t] # NoBlock}

\* A task is on a waiting list, once, while the wait of its pend is open, and
\* nobody waits for a token that is there.
WaitersOK ==
  /\ \A s \in Sems : IsInjective(waiting[s]) /\ (waiting[s] # <<>> => avail[s] = 0)
  /\ \A s \in Sems, t \in Clients :
       Contains(waiting[s], t) <=> outcome[t] \in Sem!Waits /\ boxPc[t] = Caller(s)
  /\ \A t \in Clients : outcome[t] # "idle" => boxPc[t] \in {Caller("data"), Caller("free")}

\* What a thread has in hand, at each place of its call.
BoxThreadsOK ==
  \A t \in Threads :
    /\ elem[t] # NoBlock <=> boxPc[t] \in HandPCs
    /\ boxPc[t] \in PostPCs => msg[t] \in Messages
    /\ boxPc[t] = "enqueue" => content[elem[t]] = msg[t]

\* No block is in two places, and none is nowhere: two queues, and what the
\* threads have in hand.
Apart(q, r, hand) ==
  /\ IsInjective(q) /\ IsInjective(r)
  /\ \A b \in Blocks : ~(Contains(q, b) /\ Contains(r, b))
  /\ \A t \in Threads : hand[t] # NoBlock => ~Contains(q, hand[t]) /\ ~Contains(r, hand[t])
  /\ \A t, u \in Threads : hand[t] = hand[u] /\ hand[t] # NoBlock => t = u
  /\ \A b \in Blocks : Contains(q, b) \/ Contains(r, b) \/ \E t \in Threads : hand[t] = b

PlacesOK == Apart(dataQue, freeQue, elem)

\* Every token stands for a block, and every block is counted.
CountsOK ==
  /\ \A s \in Sems : IsFiniteSet(GrantedOf(s)) /\ IsFiniteSet(On(Onward(s)))
  /\ IsFiniteSet(On("postFree")) /\ IsFiniteSet(BoxHeld)
  /\ Len(dataQue) = avail["data"] + Cardinality(GrantedOf("data")) + Cardinality(On("get"))
  /\ Len(freeQue) = avail["free"] + Cardinality(GrantedOf("free")) + Cardinality(On("dequeue"))
                      + Cardinality(On("postFree"))
  /\ Len(dataQue) + Len(freeQue) + Cardinality(BoxHeld) = NumMsgs
  /\ numFreeMsgs = Len(freeQue)

BoxIInv == BoxTypeOK /\ WaitersOK /\ BoxThreadsOK /\ PlacesOK /\ CountsOK

-----------------------------------------------------------------------------
(* Types and counts.                                                       *)

LEMMA NumMsgsType == NumMsgs \in Nat /\ NumMsgs # 0 /\ (NumMsgs + 1) - 1 = NumMsgs
BY BlocksAssumption, FS_CardinalityType, FS_EmptySet DEF NumMsgs

LEMMA SemTypes ==
  Sem!SpecTypeOK <=> /\ avail \in [Sems -> 0 .. NumMsgs]
                     /\ waiting \in [Sems -> Seq(Clients)]
                     /\ outcome \in [Clients -> Sem!Outcomes]
BY NumMsgsType DEF Sem!SpecTypeOK, Sems

LEMMA SemTypesNext ==
  Sem!SpecTypeOK' <=> /\ avail' \in [Sems -> 0 .. NumMsgs]
                      /\ waiting' \in [Sems -> Seq(Clients)]
                      /\ outcome' \in [Clients -> Sem!Outcomes]
BY NumMsgsType DEF Sem!SpecTypeOK, Sems

LEMMA Types ==
  ASSUME BoxTypeOK
  PROVE  /\ avail \in [Sems -> 0 .. NumMsgs] /\ waiting \in [Sems -> Seq(Clients)]
         /\ outcome \in [Clients -> Sem!Outcomes]
         /\ \A s \in Sems : avail[s] \in Nat /\ avail[s] <= NumMsgs /\ waiting[s] \in Seq(Clients)
         /\ dataQue \in Seq(Blocks) /\ Len(dataQue) \in Nat
         /\ freeQue \in Seq(Blocks) /\ Len(freeQue) \in Nat
         /\ content \in [Blocks \cup {Header} -> Messages \cup {NoMessage}]
         /\ elem \in [Threads -> Blocks \cup {NoBlock}]
         /\ msg \in [Threads -> Messages \cup {NoMessage}]
         /\ \A t \in Clients : t \in Threads /\ t # Isr
<1>1. \A t \in Clients : t \in Threads /\ t # Isr
  BY IsrAssumption DEF Threads
<1> QED BY <1>1, SemTypes, NumMsgsType DEF BoxTypeOK

LEMMA PcTypes ==
  ASSUME BoxTypeOK
  PROVE  /\ boxPc \in [Threads -> {"user"} \cup PostPCs \cup PendPCs]
         /\ DOMAIN boxPc = Threads
BY DEF BoxTypeOK

LEMMA SemNames == "data" \in Sems /\ "free" \in Sems /\ \A s \in Sems : s = "data" \/ s = "free"
BY DEF Sems

\* A thread that goes from one place to another is counted at the other.
LEMMA OnMoves ==
  ASSUME BoxTypeOK, NEW t \in Threads, NEW k, boxPc[t] # k, boxPc' = [boxPc EXCEPT ![t] = k],
         NEW l, IsFiniteSet(On(l))
  PROVE  /\ IsFiniteSet(On(l)') /\ Cardinality(On(l)) \in Nat
         /\ Cardinality(On(l)') = IF l = k THEN Cardinality(On(l)) + 1
                                  ELSE IF l = boxPc[t] THEN Cardinality(On(l)) - 1 ELSE Cardinality(On(l))
<1>1. boxPc'[t] = k /\ \A u \in Threads \ {t} : boxPc'[u] = boxPc[u]
  BY PcTypes
<1>2. CASE l = k
  <2>1. On(l)' = On(l) \cup {t} /\ t \notin On(l)
    BY <1>1, <1>2 DEF On
  <2> QED BY <2>1, <1>2, FS_AddElement, FS_CardinalityType
<1>3. CASE l # k /\ l = boxPc[t]
  <2>1. On(l)' = On(l) \ {t} /\ t \in On(l)
    BY <1>1, <1>3 DEF On
  <2> QED BY <2>1, <1>3, FS_RemoveElement, FS_CardinalityType
<1>4. CASE l # k /\ l # boxPc[t]
  <2>1. On(l)' = On(l)
    BY <1>1, <1>4 DEF On
  <2> QED BY <2>1, <1>4, FS_CardinalityType
<1> QED BY <1>2, <1>3, <1>4

\* A thread takes a block in hand, or lets go of the one it has.
LEMMA HeldMoves ==
  ASSUME BoxTypeOK, NEW t \in Threads, NEW b, elem' = [elem EXCEPT ![t] = b],
         (elem[t] = NoBlock) <=> (b # NoBlock), IsFiniteSet(BoxHeld)
  PROVE  /\ IsFiniteSet(BoxHeld') /\ Cardinality(BoxHeld) \in Nat
         /\ Cardinality(BoxHeld') = IF b # NoBlock THEN Cardinality(BoxHeld) + 1 ELSE Cardinality(BoxHeld) - 1
         /\ BoxHeld' = IF b # NoBlock THEN BoxHeld \cup {t} ELSE BoxHeld \ {t}
         /\ b = NoBlock => Cardinality(BoxHeld) # 0
<1>1. elem'[t] = b /\ \A u \in Threads \ {t} : elem'[u] = elem[u]
  BY Types
<1>2. CASE b # NoBlock
  <2>1. BoxHeld' = BoxHeld \cup {t} /\ t \notin BoxHeld
    BY <1>1, <1>2 DEF BoxHeld
  <2> QED BY <2>1, <1>2, FS_AddElement, FS_CardinalityType
<1>3. CASE b = NoBlock
  <2>1. BoxHeld' = BoxHeld \ {t} /\ t \in BoxHeld
    BY <1>1, <1>3 DEF BoxHeld
  <2> QED BY <2>1, <1>3, FS_RemoveElement, FS_CardinalityType, FS_EmptySet
<1> QED BY <1>2, <1>3

\* The counts of a state of the invariant.
LEMMA Counts ==
  ASSUME BoxIInv
  PROVE  /\ \A s \in Sems : /\ IsFiniteSet(GrantedOf(s)) /\ Cardinality(GrantedOf(s)) \in Nat
                            /\ IsFiniteSet(On(Onward(s))) /\ Cardinality(On(Onward(s))) \in Nat
         /\ IsFiniteSet(On("postFree")) /\ Cardinality(On("postFree")) \in Nat
         /\ IsFiniteSet(BoxHeld) /\ Cardinality(BoxHeld) \in Nat
         /\ Len(dataQue) \in Nat /\ Len(freeQue) \in Nat /\ NumMsgs \in Nat
BY Types, NumMsgsType, FS_CardinalityType DEF BoxIInv, CountsOK

\* The equations, with nothing quantified.
LEMMA Balance ==
  ASSUME BoxIInv
  PROVE  /\ Len(dataQue) = avail["data"] + Cardinality(GrantedOf("data")) + Cardinality(On("get"))
         /\ Len(freeQue) = avail["free"] + Cardinality(GrantedOf("free")) + Cardinality(On("dequeue"))
                             + Cardinality(On("postFree"))
         /\ Len(dataQue) + Len(freeQue) + Cardinality(BoxHeld) = NumMsgs
         /\ numFreeMsgs = Len(freeQue)
         /\ avail["data"] \in Nat /\ avail["free"] \in Nat /\ NumMsgs \in Nat
         /\ Cardinality(GrantedOf("data")) \in Nat /\ Cardinality(GrantedOf("free")) \in Nat
         /\ Cardinality(On("get")) \in Nat /\ Cardinality(On("dequeue")) \in Nat
         /\ Cardinality(On("postFree")) \in Nat /\ Cardinality(BoxHeld) \in Nat
         /\ Len(dataQue) \in Nat /\ Len(freeQue) \in Nat
<1>1. CountsOK /\ BoxTypeOK
  BY DEF BoxIInv
<1>2. avail["data"] \in Nat /\ avail["free"] \in Nat
  BY <1>1, Types, SemNames
<1>3. /\ Cardinality(GrantedOf("data")) \in Nat /\ Cardinality(GrantedOf("free")) \in Nat
      /\ Cardinality(On("get")) \in Nat /\ Cardinality(On("dequeue")) \in Nat
      /\ Cardinality(On("postFree")) \in Nat
  BY Counts, SemNames DEF Onward
<1> QED BY <1>1, <1>2, <1>3, Counts DEF CountsOK

\* A set with an element is counted.
LEMMA NotNone ==
  ASSUME NEW S, IsFiniteSet(S), NEW x \in S
  PROVE  Cardinality(S) \in Nat /\ Cardinality(S) >= 1
<1>1. Cardinality(S) \in Nat /\ Cardinality(S) # 0
  BY FS_CardinalityType, FS_EmptySet
<1> QED BY <1>1

-----------------------------------------------------------------------------
(* What a step does with the semaphores.                                   *)

SemOK == Sem!SpecTypeOK /\ WaitersOK

\* The tasks whose wait is over have left their pend.
LEMMA IdleElsewhere ==
  ASSUME BoxIInv, NEW t \in Clients, \A s \in Sems : boxPc[t] # Caller(s)
  PROVE  outcome[t] = "idle"
BY SemNames DEF BoxIInv, WaitersOK

\* A thread that is not in a wait goes elsewhere.
LEMMA Goes ==
  ASSUME BoxIInv, NEW t \in Threads, NEW k, boxPc' = [boxPc EXCEPT ![t] = k],
         t \in Clients => outcome[t] = "idle", UNCHANGED tokenVars
  PROVE  SemOK' /\ \A s \in Sems : GrantedOf(s)' = GrantedOf(s)
<1>1. BoxTypeOK /\ WaitersOK
  BY DEF BoxIInv
<1>2. \A u \in Clients : u # t => boxPc'[u] = boxPc[u]
  BY <1>1, PcTypes, Types
<1>3. UNCHANGED <<avail, waiting, outcome>>
  BY DEF tokenVars
<1>4. \A s \in Sems : GrantedOf(s)' = GrantedOf(s)
  BY <1>2, <1>3 DEF GrantedOf
<1>5. Sem!SpecTypeOK'
  BY <1>1, <1>3, Types, SemTypesNext
<1>6. WaitersOK'
  <2>1. \A u \in Clients : u = t => outcome[u] = "idle" /\ outcome[u] \notin Sem!Waits
    BY DEF Sem!Waits
  <2> QED BY <2>1, <1>1, <1>2, <1>3 DEF WaitersOK
<1> QED BY <1>4, <1>5, <1>6 DEF SemOK

\* A token is there and is taken.
LEMMA Takes ==
  ASSUME BoxIInv, NEW t \in Threads, NEW s \in Sems, NEW k, boxPc' = [boxPc EXCEPT ![t] = k], SemTake(t, s)
  PROVE  /\ SemOK' /\ \A r \in Sems : GrantedOf(r)' = GrantedOf(r)
         /\ avail'[s] = avail[s] - 1 /\ \A r \in Sems \ {s} : avail'[r] = avail[r]
<1>1. BoxTypeOK /\ WaitersOK
  BY DEF BoxIInv
<1>2. \A u \in Clients : u # t => boxPc'[u] = boxPc[u]
  BY <1>1, PcTypes, Types
<1>3. /\ UNCHANGED <<waiting, outcome>> /\ avail[s] > 0
      /\ avail' = [avail EXCEPT ![s] = @ - 1]
  BY DEF SemTake, Sem!Take
<1>4. t \in Clients => outcome[t] = "idle"
  BY <1>1, Types DEF SemTake, NotWaiting
<1>5. avail'[s] = avail[s] - 1 /\ (\A r \in Sems \ {s} : avail'[r] = avail[r]) /\ avail' \in [Sems -> 0 .. NumMsgs]
  BY <1>1, <1>3, Types, NumMsgsType
<1>6. \A r \in Sems : GrantedOf(r)' = GrantedOf(r)
  BY <1>2, <1>3, <1>4 DEF GrantedOf
<1>7. Sem!SpecTypeOK'
  BY <1>1, <1>3, <1>5, Types, SemTypesNext
<1>8. WaitersOK'
  <2>1. \A u \in Clients : u = t => outcome[u] = "idle" /\ outcome[u] \notin Sem!Waits
    BY <1>4 DEF Sem!Waits
  <2>2. \A r \in Sems : IsInjective(waiting'[r]) /\ (waiting'[r] # <<>> => avail'[r] = 0)
    BY <1>1, <1>3, <1>5, Types DEF WaitersOK
  <2> QED BY <2>1, <2>2, <1>1, <1>2, <1>3 DEF WaitersOK
<1> QED BY <1>5, <1>6, <1>7, <1>8 DEF SemOK

\* A wait is over, with or without a token.
LEMMA Returns ==
  ASSUME BoxIInv, NEW t \in Clients, NEW s \in Sems, boxPc[t] = Caller(s), NEW k, boxPc' = [boxPc EXCEPT ![t] = k],
         Sem!Return(t)
  PROVE  /\ SemOK' /\ avail' = avail
         /\ \A r \in Sems : GrantedOf(r)' = GrantedOf(r) \ {t}
         /\ outcome[t] = "granted" => t \in GrantedOf(s)
         /\ \A r \in Sems : t \in GrantedOf(r) => r = s /\ outcome[t] = "granted"
<1>1. BoxTypeOK /\ WaitersOK
  BY DEF BoxIInv
<1>2. t \in Threads /\ \A u \in Clients : u # t => boxPc'[u] = boxPc[u]
  BY <1>1, PcTypes, Types
<1>3. /\ UNCHANGED <<waiting, avail>> /\ outcome[t] \in {"granted", "timedout"}
      /\ outcome' = [outcome EXCEPT ![t] = "idle"]
  BY DEF Sem!Return
<1>4. outcome'[t] = "idle" /\ (\A u \in Clients : u # t => outcome'[u] = outcome[u])
      /\ outcome' \in [Clients -> Sem!Outcomes]
  BY <1>1, <1>3, Types DEF Sem!Outcomes
<1>5. \A r \in Sems : GrantedOf(r)' = GrantedOf(r) \ {t}
  BY <1>2, <1>4 DEF GrantedOf
<1>6. Sem!SpecTypeOK'
  BY <1>1, <1>3, <1>4, Types, SemTypesNext
<1>7. WaitersOK'
  <2>1. outcome[t] \notin Sem!Waits /\ outcome'[t] \notin Sem!Waits
    BY <1>3, <1>4 DEF Sem!Waits
  <2> QED BY <2>1, <1>1, <1>2, <1>3, <1>4 DEF WaitersOK
<1>8. \A r \in Sems : t \in GrantedOf(r) => r = s /\ outcome[t] = "granted"
  BY SemNames DEF GrantedOf, Caller
<1> QED BY <1>3, <1>5, <1>6, <1>7, <1>8 DEF SemOK, GrantedOf

\* A task goes to the end of a waiting list.
LEMMA Waits ==
  ASSUME BoxIInv, NEW t \in Clients, NEW s \in Sems, boxPc[t] = Caller(s), boxPc' = boxPc, SemWait(t, s)
  PROVE  SemOK' /\ avail' = avail /\ \A r \in Sems : GrantedOf(r)' = GrantedOf(r)
<1>1. BoxTypeOK /\ WaitersOK
  BY DEF BoxIInv
<1>2. PICK how \in Sem!Waits : Sem!Wait(t, s, how)
  BY DEF SemWait
<1>3. /\ avail' = avail /\ avail[s] = 0 /\ outcome[t] = "idle"
      /\ outcome' = [outcome EXCEPT ![t] = how]
  BY <1>2 DEF Sem!Wait
<1> DEFINE w == waiting[s]
<1>4. w \in Seq(Clients) /\ IsInjective(w) /\ ~Contains(w, t)
  <2>1. outcome[t] \notin Sem!Waits
    BY <1>3 DEF Sem!Waits
  <2> QED BY <2>1, <1>1, Types DEF WaitersOK
<1>5. waiting' = [waiting EXCEPT ![s] = Append(w, t)]
  <2>1. PICK i \in 1 .. Len(w) + 1 :
          /\ i <= Len(w) => "priority" \in [r \in {"data", "free"} |-> {}][s]
          /\ waiting' = [waiting EXCEPT ![s] = Sem!InsertAt(@, i, t)]
    BY <1>2 DEF Sem!Wait
  <2>2. "priority" \notin [r \in {"data", "free"} |-> {}][s]
    BY DEF Sems
  <2>3. i = Len(w) + 1
    BY <1>4, <2>1, <2>2
  <2>4. Sem!InsertAt(w, Len(w) + 1, t) = InsertAt(w, Len(w) + 1, t)
    BY DEF Sem!InsertAt, InsertAt
  <2>5. InsertAt(w, Len(w) + 1, t) = Append(w, t)
    <3> HIDE DEF w
    <3> QED BY <1>4, PutLast
  <2> QED BY <2>1, <2>3, <2>4, <2>5
<1> DEFINE z == Append(w, t)
<1>6. z \in Seq(Clients) /\ IsInjective(z) /\ \A u : Contains(z, u) <=> Contains(w, u) \/ u = t
  BY <1>4, Appended
<1> HIDE DEF z
<1>7. /\ waiting'[s] = z /\ (\A r \in Sems \ {s} : waiting'[r] = waiting[r])
      /\ waiting' \in [Sems -> Seq(Clients)]
  BY <1>1, <1>5, <1>6, Types DEF z
<1>8. outcome'[t] = how /\ (\A u \in Clients : u # t => outcome'[u] = outcome[u])
      /\ outcome' \in [Clients -> Sem!Outcomes]
  BY <1>1, <1>3, Types DEF Sem!Outcomes, Sem!Waits
<1>9. \A r \in Sems : GrantedOf(r)' = GrantedOf(r)
  <2>1. outcome[t] # "granted" /\ outcome'[t] # "granted"
    BY <1>3, <1>8 DEF Sem!Waits
  <2> QED BY <2>1, <1>8 DEF GrantedOf
<1>10. Sem!SpecTypeOK'
  BY <1>1, <1>3, <1>7, <1>8, Types, SemTypesNext
<1>11. WaitersOK'
  <2>1. \A r \in Sems : IsInjective(waiting'[r]) /\ (waiting'[r] # <<>> => avail'[r] = 0)
    BY <1>1, <1>3, <1>6, <1>7 DEF WaitersOK
  <2>2. ASSUME NEW r \in Sems, NEW u \in Clients
        PROVE  Contains(waiting'[r], u) <=> outcome'[u] \in Sem!Waits /\ boxPc'[u] = Caller(r)
    <3>1. CASE u = t /\ r = s
      BY <3>1, <1>6, <1>7, <1>8
    <3>2. CASE u = t /\ r # s
      <4>1. Caller(r) # Caller(s)
        BY <3>2, SemNames DEF Caller
      <4>2. ~Contains(waiting[r], u)
        BY <4>1, <3>2, <1>1 DEF WaitersOK
      <4> QED BY <4>1, <4>2, <3>2, <1>7
    <3>3. CASE u # t
      BY <3>3, <1>1, <1>6, <1>7, <1>8 DEF WaitersOK
    <3> QED BY <3>1, <3>2, <3>3
  <2>3. \A u \in Clients : outcome'[u] # "idle" => boxPc'[u] \in {Caller("data"), Caller("free")}
    BY <1>1, <1>8, SemNames DEF WaitersOK
  <2> QED BY <2>1, <2>2, <2>3 DEF WaitersOK
<1> QED BY <1>3, <1>9, <1>10, <1>11 DEF SemOK

\* The Clock object takes a task off the list it is on.
LEMMA TimesOut ==
  ASSUME BoxIInv, NEW t \in Clients, boxPc' = boxPc, Sem!TimeOut(t)
  PROVE  SemOK' /\ avail' = avail /\ \A r \in Sems : GrantedOf(r)' = GrantedOf(r)
<1>1. BoxTypeOK /\ WaitersOK
  BY DEF BoxIInv
<1>2. /\ avail' = avail /\ outcome[t] = "timed"
      /\ outcome' = [outcome EXCEPT ![t] = "timedout"]
      /\ waiting' = [r \in Sems |-> Sem!RemoveFirst(waiting[r], t)]
  BY DEF Sem!TimeOut, Sem!Without, Sems
<1>3. outcome'[t] = "timedout" /\ (\A u \in Clients : u # t => outcome'[u] = outcome[u])
      /\ outcome' \in [Clients -> Sem!Outcomes]
  BY <1>1, <1>2, Types DEF Sem!Outcomes
<1>4. ASSUME NEW r \in Sems
      PROVE  /\ waiting'[r] \in Seq(Clients) /\ IsInjective(waiting'[r])
             /\ \A u : Contains(waiting'[r], u) <=> Contains(waiting[r], u) /\ u # t
             /\ waiting'[r] # <<>> => waiting[r] # <<>>
  <2>1. waiting[r] \in Seq(Clients) /\ IsInjective(waiting[r])
    BY <1>1, Types DEF WaitersOK
  <2>2. waiting'[r] = Sem!RemoveFirst(waiting[r], t)
    BY <1>2
  <2> DEFINE w == waiting[r]
  <2> HIDE DEF w
  <2>3. w \in Seq(Clients) /\ IsInjective(w)
    BY <2>1 DEF w
  <2>4. /\ Sem!RemoveFirst(w, t) \in Seq(Clients) /\ IsInjective(Sem!RemoveFirst(w, t))
        /\ \A u : Contains(Sem!RemoveFirst(w, t), u) <=> Contains(w, u) /\ u # t
        /\ Sem!RemoveFirst(w, t) # <<>> => w # <<>>
    <3>1. Sem!RemoveFirst(w, t) = RemoveFirst(w, t)
      BY DEF Sem!RemoveFirst, Sem!SelectInSeq, Sem!RemoveAt, Sem!Min, RemoveFirst, SelectInSeq, RemoveAt, Min
    <3> QED BY <3>1, <2>3, TakenOut
  <2> QED BY <2>2, <2>4 DEF w
<1>5. waiting' \in [Sems -> Seq(Clients)]
  BY <1>2, <1>4
<1>6. \A r \in Sems : GrantedOf(r)' = GrantedOf(r)
  <2>1. outcome[t] # "granted" /\ outcome'[t] # "granted"
    BY <1>2, <1>3
  <2> QED BY <2>1, <1>3 DEF GrantedOf
<1>7. Sem!SpecTypeOK'
  BY <1>1, <1>2, <1>3, <1>5, Types, SemTypesNext
<1>8. WaitersOK'
  <2>1. \A r \in Sems : IsInjective(waiting'[r]) /\ (waiting'[r] # <<>> => avail'[r] = 0)
    BY <1>1, <1>2, <1>4 DEF WaitersOK
  <2>2. outcome'[t] \notin Sem!Waits /\ outcome[t] # "idle"
    BY <1>2, <1>3 DEF Sem!Waits
  <2>3. \A r \in Sems, u \in Clients : Contains(waiting'[r], u) <=> outcome'[u] \in Sem!Waits /\ boxPc'[u] = Caller(r)
    BY <2>2, <1>1, <1>3, <1>4 DEF WaitersOK
  <2>4. \A u \in Clients : outcome'[u] # "idle" => boxPc'[u] \in {Caller("data"), Caller("free")}
    BY <2>2, <1>1, <1>3 DEF WaitersOK
  <2> QED BY <2>1, <2>3, <2>4 DEF WaitersOK
<1> QED BY <1>2, <1>6, <1>7, <1>8 DEF SemOK

\* A token is counted, or handed to the first waiter.
LEMMA Posts ==
  ASSUME BoxIInv, NEW t \in Threads, boxPc[t] \in {"enqueue", "postFree"}, boxPc' = [boxPc EXCEPT ![t] = "user"],
         NEW s \in Sems, avail[s] < NumMsgs, Sem!Post(s)
  PROVE  /\ SemOK'
         /\ \A r \in Sems : IsFiniteSet(GrantedOf(r)')
         /\ avail'[s] + Cardinality(GrantedOf(s)') = avail[s] + Cardinality(GrantedOf(s)) + 1
         /\ avail'[s] \in Nat /\ Cardinality(GrantedOf(s)') \in Nat
         /\ \A r \in Sems \ {s} : avail'[r] = avail[r] /\ GrantedOf(r)' = GrantedOf(r)
<1>1. BoxTypeOK /\ WaitersOK
  BY DEF BoxIInv
<1>2. /\ \A u \in Clients : u # t => boxPc'[u] = boxPc[u]
      /\ \A r \in Sems : boxPc[t] # Caller(r)
      /\ boxPc'[t] = "user" /\ "user" # Caller("data") /\ "user" # Caller("free")
  BY <1>1, PcTypes, Types DEF Caller
<1>3. t \in Clients => outcome[t] = "idle" /\ outcome[t] \notin Sem!Waits
  BY <1>2, IdleElsewhere DEF Sem!Waits
<1>4. avail[s] \in Nat /\ (\A r \in Sems : IsFiniteSet(GrantedOf(r)) /\ Cardinality(GrantedOf(r)) \in Nat)
  BY <1>1, Types, Counts
<1>5. CASE waiting[s] = <<>>
  <2>1. UNCHANGED <<waiting, outcome>> /\ avail' = [avail EXCEPT ![s] = avail[s] + 1]
    <3>1. "binary" \notin [r \in {"data", "free"} |-> {}][s]
      BY DEF Sems
    <3>2. (avail[s] + 1) % (NumMsgs + 1) = avail[s] + 1
      BY <1>4, NumMsgsType
    <3> QED BY <3>1, <3>2, <1>5 DEF Sem!Post
  <2>2. avail' \in [Sems -> 0 .. NumMsgs] /\ avail'[s] = avail[s] + 1 /\ \A r \in Sems \ {s} : avail'[r] = avail[r]
    BY <2>1, <1>1, <1>4, Types, NumMsgsType
  <2>3. \A r \in Sems : GrantedOf(r)' = GrantedOf(r)
    BY <2>1, <1>2, <1>3 DEF GrantedOf
  <2>4. Sem!SpecTypeOK'
    BY <2>1, <2>2, <1>1, Types, SemTypesNext
  <2>5. WaitersOK'
    <3>1. \A r \in Sems : IsInjective(waiting'[r]) /\ (waiting'[r] # <<>> => avail'[r] = 0)
      BY <2>1, <2>2, <1>1, <1>5 DEF WaitersOK
    <3> QED BY <3>1, <2>1, <1>1, <1>2, <1>3 DEF WaitersOK
  <2> QED BY <2>2, <2>3, <2>4, <2>5, <1>4 DEF SemOK
<1>6. CASE waiting[s] # <<>>
  <2> DEFINE w == waiting[s]
  <2>1. w \in Seq(Clients) /\ IsInjective(w) /\ w # <<>>
    BY <1>1, <1>6, Types DEF WaitersOK
  <2>2. PICK u \in Clients, z \in Seq(Clients) :
          /\ u = Head(w) /\ z = Tail(w) /\ IsInjective(z) /\ ~Contains(z, u) /\ Contains(w, u)
          /\ \A y : Contains(w, y) <=> Contains(z, y) \/ y = u
          /\ z # <<>> => w # <<>>
    BY <2>1, Beheaded
  <2>3. /\ avail' = avail /\ waiting' = [waiting EXCEPT ![s] = z]
        /\ outcome' = [outcome EXCEPT ![u] = "granted"]
    BY <2>2, <1>6 DEF Sem!Post
  <2>4. outcome[u] \in Sem!Waits /\ boxPc[u] = Caller(s) /\ u # t
    BY <2>2, <1>1, <1>2, <1>3 DEF WaitersOK
  <2>5. outcome'[u] = "granted" /\ (\A v \in Clients : v # u => outcome'[v] = outcome[v])
        /\ outcome' \in [Clients -> Sem!Outcomes]
    BY <2>3, <1>1, Types DEF Sem!Outcomes
  <2>6. /\ waiting' \in [Sems -> Seq(Clients)] /\ waiting'[s] = z
        /\ \A r \in Sems : r # s => waiting'[r] = waiting[r]
    BY <2>3, <1>1, Types
  <2>7. Sem!SpecTypeOK'
    BY <2>3, <2>5, <2>6, <1>1, Types, SemTypesNext
  <2>8. u \notin GrantedOf(s) /\ GrantedOf(s)' = GrantedOf(s) \cup {u}
        /\ \A r \in Sems : r # s => GrantedOf(r)' = GrantedOf(r)
    <3>1. outcome[u] # "granted" /\ boxPc'[u] = Caller(s)
      BY <2>4, <1>2 DEF Sem!Waits
    <3>2. \A r \in Sems : r # s => boxPc[u] # Caller(r)
      BY <2>4, SemNames DEF Caller
    <3>3. \A v \in Clients : v # t /\ v # u => boxPc'[v] = boxPc[v] /\ outcome'[v] = outcome[v]
      BY <2>5, <1>2
    <3>4. t \in Clients => outcome[t] # "granted" /\ outcome'[t] # "granted"
      BY <2>4, <2>5, <1>3
    <3>5. ASSUME NEW r \in Sems, NEW v \in Clients
          PROVE  boxPc'[v] = Caller(r) /\ outcome'[v] = "granted"
                   <=> (boxPc[v] = Caller(r) /\ outcome[v] = "granted") \/ (r = s /\ v = u)
      <4>1. CASE v = u
        BY <4>1, <3>1, <3>2, <2>4, <2>5
      <4>2. CASE v = t /\ v # u
        BY <4>2, <3>4
      <4>3. CASE v # t /\ v # u
        BY <4>3, <3>3
      <4> QED BY <4>1, <4>2, <4>3
    <3>6. GrantedOf(s)' = GrantedOf(s) \cup {u}
      BY <3>5 DEF GrantedOf
    <3>7. \A r \in Sems : r # s => GrantedOf(r)' = GrantedOf(r)
      BY <3>5 DEF GrantedOf
    <3> QED BY <3>1, <3>6, <3>7 DEF GrantedOf
  <2>9. IsFiniteSet(GrantedOf(s)') /\ Cardinality(GrantedOf(s)') = Cardinality(GrantedOf(s)) + 1
    BY <2>8, <1>4, FS_AddElement
  <2>10. WaitersOK'
    <3>1. \A r \in Sems : IsInjective(waiting'[r]) /\ (waiting'[r] # <<>> => avail'[r] = 0)
      BY <2>2, <2>3, <2>6, <1>1, <1>6 DEF WaitersOK
    <3>2. ASSUME NEW r \in Sems, NEW v \in Clients
          PROVE  Contains(waiting'[r], v) <=> outcome'[v] \in Sem!Waits /\ boxPc'[v] = Caller(r)
      <4>1. CASE v = u
        <5>1. outcome'[v] \notin Sem!Waits
          BY <4>1, <2>5 DEF Sem!Waits
        <5>2. ~Contains(waiting'[r], v)
          <6>1. r = s => ~Contains(waiting'[r], v)
            BY <4>1, <2>2, <2>6
          <6>2. r # s => Caller(r) # Caller(s)
            BY SemNames DEF Caller
          <6>3. r # s => ~Contains(waiting[r], v)
            BY <6>2, <4>1, <2>4, <1>1 DEF WaitersOK
          <6> QED BY <6>1, <6>3, <2>6
        <5> QED BY <5>1, <5>2
      <4>2. CASE v # u
        <5>1. Contains(waiting'[r], v) <=> Contains(waiting[r], v)
          BY <4>2, <2>2, <2>6
        <5>2. outcome'[v] = outcome[v] /\ (v # t => boxPc'[v] = boxPc[v])
          BY <4>2, <2>5, <1>2
        <5> QED BY <5>1, <5>2, <1>1, <1>3 DEF WaitersOK
      <4> QED BY <4>1, <4>2
    <3>3. ASSUME NEW v \in Clients, outcome'[v] # "idle" PROVE boxPc'[v] \in {Caller("data"), Caller("free")}
      <4>1. v # t
        BY <3>3, <2>4, <2>5, <1>3
      <4>2. outcome[v] # "idle"
        BY <3>3, <2>4, <2>5 DEF Sem!Waits
      <4> QED BY <4>1, <4>2, <1>1, <1>2 DEF WaitersOK
    <3> QED BY <3>1, <3>2, <3>3 DEF WaitersOK
  <2>11. \A r \in Sems : IsFiniteSet(GrantedOf(r)')
    BY <2>8, <2>9, <1>4
  <2> QED BY <2>3, <2>7, <2>8, <2>9, <2>10, <2>11, <1>4 DEF SemOK
<1> QED BY <1>5, <1>6

-----------------------------------------------------------------------------
(* Steps that move no block.                                               *)

BoxPCs == {"user"} \cup PostPCs \cup PendPCs

LEMMA OneGoes ==
  ASSUME BoxTypeOK, NEW t \in Threads, NEW k \in BoxPCs, boxPc' = [boxPc EXCEPT ![t] = k]
  PROVE  /\ boxPc'[t] = k /\ \A u \in Threads : u # t => boxPc'[u] = boxPc[u]
         /\ boxPc' \in [Threads -> BoxPCs]
BY PcTypes DEF BoxPCs

\* The counted places.
LEMMA OnCounts ==
  ASSUME BoxIInv, NEW t \in Threads, NEW k, boxPc[t] # k, boxPc' = [boxPc EXCEPT ![t] = k]
  PROVE  \A l \in {"get", "dequeue", "postFree"} :
           /\ IsFiniteSet(On(l)') /\ Cardinality(On(l)) \in Nat
           /\ Cardinality(On(l)') = IF l = k THEN Cardinality(On(l)) + 1
                                    ELSE IF l = boxPc[t] THEN Cardinality(On(l)) - 1 ELSE Cardinality(On(l))
<1>1. BoxTypeOK /\ \A l \in {"get", "dequeue", "postFree"} : IsFiniteSet(On(l))
  BY SemNames DEF BoxIInv, CountsOK, Onward
<1> QED BY <1>1, OnMoves

LEMMA OnEach ==
  ASSUME BoxIInv, NEW t \in Threads, NEW k, boxPc[t] # k, boxPc' = [boxPc EXCEPT ![t] = k]
  PROVE  /\ IsFiniteSet(On("get")') /\ Cardinality(On("get")) \in Nat
         /\ k = "get" => Cardinality(On("get")') = Cardinality(On("get")) + 1
         /\ boxPc[t] = "get" => Cardinality(On("get")') = Cardinality(On("get")) - 1
         /\ k # "get" /\ boxPc[t] # "get" => Cardinality(On("get")') = Cardinality(On("get"))
         /\ IsFiniteSet(On("dequeue")') /\ Cardinality(On("dequeue")) \in Nat
         /\ k = "dequeue" => Cardinality(On("dequeue")') = Cardinality(On("dequeue")) + 1
         /\ boxPc[t] = "dequeue" => Cardinality(On("dequeue")') = Cardinality(On("dequeue")) - 1
         /\ k # "dequeue" /\ boxPc[t] # "dequeue" => Cardinality(On("dequeue")') = Cardinality(On("dequeue"))
         /\ IsFiniteSet(On("postFree")') /\ Cardinality(On("postFree")) \in Nat
         /\ k = "postFree" => Cardinality(On("postFree")') = Cardinality(On("postFree")) + 1
         /\ boxPc[t] = "postFree" => Cardinality(On("postFree")') = Cardinality(On("postFree")) - 1
         /\ k # "postFree" /\ boxPc[t] # "postFree" => Cardinality(On("postFree")') = Cardinality(On("postFree"))
<1>1. /\ IsFiniteSet(On("get")') /\ Cardinality(On("get")) \in Nat
      /\ k = "get" => Cardinality(On("get")') = Cardinality(On("get")) + 1
      /\ boxPc[t] = "get" => Cardinality(On("get")') = Cardinality(On("get")) - 1
      /\ k # "get" /\ boxPc[t] # "get" => Cardinality(On("get")') = Cardinality(On("get"))
  <2>1. IsFiniteSet(On("get")')
    BY OnCounts, Zenon
  <2> DEFINE l == "get"
  <2>2. l \in {"get", "dequeue", "postFree"}
    OBVIOUS
  <2> HIDE DEF l
  <2>3. /\ Cardinality(On(l)) \in Nat
        /\ Cardinality(On(l)') = IF l = k THEN Cardinality(On(l)) + 1
                                 ELSE IF l = boxPc[t] THEN Cardinality(On(l)) - 1 ELSE Cardinality(On(l))
    BY <2>2, OnCounts
  <2>4. /\ Cardinality(On(l)) \in Nat
        /\ k = l => Cardinality(On(l)') = Cardinality(On(l)) + 1
        /\ boxPc[t] = l => Cardinality(On(l)') = Cardinality(On(l)) - 1
        /\ k # l /\ boxPc[t] # l => Cardinality(On(l)') = Cardinality(On(l))
    BY <2>3
  <2> QED BY <2>1, <2>4 DEF l
<1>2. /\ IsFiniteSet(On("dequeue")') /\ Cardinality(On("dequeue")) \in Nat
      /\ k = "dequeue" => Cardinality(On("dequeue")') = Cardinality(On("dequeue")) + 1
      /\ boxPc[t] = "dequeue" => Cardinality(On("dequeue")') = Cardinality(On("dequeue")) - 1
      /\ k # "dequeue" /\ boxPc[t] # "dequeue" => Cardinality(On("dequeue")') = Cardinality(On("dequeue"))
  <2>1. IsFiniteSet(On("dequeue")')
    BY OnCounts, Zenon
  <2> DEFINE l == "dequeue"
  <2>2. l \in {"get", "dequeue", "postFree"}
    OBVIOUS
  <2> HIDE DEF l
  <2>3. /\ Cardinality(On(l)) \in Nat
        /\ Cardinality(On(l)') = IF l = k THEN Cardinality(On(l)) + 1
                                 ELSE IF l = boxPc[t] THEN Cardinality(On(l)) - 1 ELSE Cardinality(On(l))
    BY <2>2, OnCounts
  <2>4. /\ Cardinality(On(l)) \in Nat
        /\ k = l => Cardinality(On(l)') = Cardinality(On(l)) + 1
        /\ boxPc[t] = l => Cardinality(On(l)') = Cardinality(On(l)) - 1
        /\ k # l /\ boxPc[t] # l => Cardinality(On(l)') = Cardinality(On(l))
    BY <2>3
  <2> QED BY <2>1, <2>4 DEF l
<1>3. /\ IsFiniteSet(On("postFree")') /\ Cardinality(On("postFree")) \in Nat
      /\ k = "postFree" => Cardinality(On("postFree")') = Cardinality(On("postFree")) + 1
      /\ boxPc[t] = "postFree" => Cardinality(On("postFree")') = Cardinality(On("postFree")) - 1
      /\ k # "postFree" /\ boxPc[t] # "postFree" => Cardinality(On("postFree")') = Cardinality(On("postFree"))
  <2>1. IsFiniteSet(On("postFree")')
    BY OnCounts, Zenon
  <2> DEFINE l == "postFree"
  <2>2. l \in {"get", "dequeue", "postFree"}
    OBVIOUS
  <2> HIDE DEF l
  <2>3. /\ Cardinality(On(l)) \in Nat
        /\ Cardinality(On(l)') = IF l = k THEN Cardinality(On(l)) + 1
                                 ELSE IF l = boxPc[t] THEN Cardinality(On(l)) - 1 ELSE Cardinality(On(l))
    BY <2>2, OnCounts
  <2>4. /\ Cardinality(On(l)) \in Nat
        /\ k = l => Cardinality(On(l)') = Cardinality(On(l)) + 1
        /\ boxPc[t] = l => Cardinality(On(l)') = Cardinality(On(l)) - 1
        /\ k # l /\ boxPc[t] # l => Cardinality(On(l)') = Cardinality(On(l))
    BY <2>3
  <2> QED BY <2>1, <2>4 DEF l
<1> QED BY <1>1, <1>2, <1>3

\* What does not depend on the counts.
LEMMA BoxQuietStep ==
  ASSUME BoxIInv, NEW t \in Threads, NEW k \in BoxPCs, boxPc' = [boxPc EXCEPT ![t] = k],
         boxPc[t] \in HandPCs <=> k \in HandPCs, k # "enqueue",
         UNCHANGED <<boxVars, content, elem>>, SemOK',
         msg' \in [Threads -> Messages \cup {NoMessage}],
         \A u \in Threads : u # t => msg'[u] = msg[u],
         k \in PostPCs => msg'[t] \in Messages
  PROVE  BoxTypeOK' /\ WaitersOK' /\ BoxThreadsOK' /\ PlacesOK'
<1>1. BoxTypeOK /\ BoxThreadsOK /\ PlacesOK
  BY DEF BoxIInv
<1>2. UNCHANGED <<dataQue, freeQue, numFreeMsgs, content, elem>>
  BY DEF boxVars
<1>3. boxPc'[t] = k /\ (\A u \in Threads : u # t => boxPc'[u] = boxPc[u]) /\ boxPc' \in [Threads -> BoxPCs]
  BY <1>1, OneGoes
<1>4. BoxTypeOK'
  BY <1>1, <1>2, <1>3 DEF BoxTypeOK, SemOK, BoxPCs
<1>5. BoxThreadsOK'
  BY <1>1, <1>2, <1>3 DEF BoxThreadsOK
<1>6. PlacesOK'
  BY <1>1, <1>2 DEF PlacesOK, BoxHeld
<1> QED BY <1>4, <1>5, <1>6 DEF SemOK

\* Mailbox_post and Mailbox_pend are called.
LEMMA CallPreserves ==
  ASSUME BoxIInv, NEW t \in Threads, PendCall(t) \/ \E m \in Messages : BoxPostCall(t, m)
  PROVE  BoxIInv'
<1>1. PICK k \in {"postPend", "pendPend"} :
        /\ boxPc[t] = "user" /\ boxPc' = [boxPc EXCEPT ![t] = k]
        /\ UNCHANGED <<tokenVars, boxVars, content, elem>>
        /\ \/ k = "pendPend" /\ msg' = msg
           \/ \E m \in Messages : msg' = [msg EXCEPT ![t] = m]
  BY DEF PendCall, BoxPostCall, BoxAt, BoxGoto
<1>2. k \in BoxPCs /\ (boxPc[t] \in HandPCs <=> k \in HandPCs) /\ k # "enqueue" /\ boxPc[t] # k
  BY <1>1 DEF BoxPCs, PostPCs, PendPCs, HandPCs
<1>3. /\ msg' \in [Threads -> Messages \cup {NoMessage}]
      /\ \A u \in Threads : u # t => msg'[u] = msg[u]
      /\ k \in PostPCs => msg'[t] \in Messages
  BY <1>1, Types DEF BoxIInv, PostPCs
<1>4. SemOK' /\ \A s \in Sems : GrantedOf(s)' = GrantedOf(s)
  <2>1. t \in Clients => outcome[t] = "idle"
    BY <1>1, IdleElsewhere DEF Caller
  <2>2. UNCHANGED tokenVars
    BY <1>1
  <2> QED BY <2>1, <2>2, <1>1, Goes
<1>5. BoxTypeOK' /\ WaitersOK' /\ BoxThreadsOK' /\ PlacesOK'
  <2>1. UNCHANGED <<boxVars, content, elem>>
    BY <1>1
  <2> QED BY <2>1, <1>1, <1>2, <1>3, <1>4, BoxQuietStep
<1>6. CountsOK'
  <2>1. UNCHANGED <<avail, dataQue, freeQue, numFreeMsgs, elem>>
    BY <1>1 DEF boxVars, tokenVars
  <2>2. BoxHeld' = BoxHeld
    BY <2>1 DEF BoxHeld
  <2>3. \A l \in {"get", "dequeue", "postFree"} : IsFiniteSet(On(l)') /\ Cardinality(On(l)') = Cardinality(On(l))
    BY <1>1, <1>2, OnCounts
  <2>4. CountsOK
    BY DEF BoxIInv
  <2> QED BY <2>1, <2>2, <2>3, <2>4, <1>4, SemNames DEF CountsOK, Onward
<1> QED BY <1>5, <1>6 DEF BoxIInv

\* Semaphore_pend in either call.
PendsOn(t, s) ==
  \/ (SemTake(t, s) \/ SemGranted(t)) /\ BoxGoto(t, Onward(s)) /\ UNCHANGED msg
  \/ SemWait(t, s) /\ UNCHANGED <<boxPc, msg>>
  \/ (SemRefuse(t, s) \/ SemTimedOut(t)) /\ BoxGoto(t, "user")
        /\ (msg' = msg \/ msg' = [msg EXCEPT ![t] = NoMessage])

LEMMA PendPreserves ==
  ASSUME BoxIInv, NEW t \in Threads, NEW s \in Sems, boxPc[t] = Caller(s), PendsOn(t, s),
         UNCHANGED <<boxVars, content, elem>>
  PROVE  BoxIInv'
<1>1. BoxTypeOK /\ WaitersOK /\ BoxThreadsOK /\ PlacesOK /\ CountsOK
  BY DEF BoxIInv
<1>2. UNCHANGED <<dataQue, freeQue, numFreeMsgs, content, elem>>
  BY DEF boxVars
<1>3. BoxHeld' = BoxHeld
  BY <1>2 DEF BoxHeld
<1>4. /\ Onward(s) \in BoxPCs \ HandPCs /\ boxPc[t] \notin HandPCs /\ "user" \in BoxPCs \ HandPCs
      /\ Onward(s) # "enqueue" /\ "user" # "enqueue" /\ "user" \notin PostPCs
      /\ boxPc[t] # Onward(s) /\ boxPc[t] # "user"
      /\ Onward(s) \in PostPCs => boxPc[t] \in PostPCs
      /\ boxPc[t] \notin {"get", "dequeue", "postFree", "user"}
      /\ Onward(s) \in {"get", "dequeue"}
  BY SemNames DEF Onward, Caller, BoxPCs, PostPCs, PendPCs, HandPCs
<1>5. t # Isr => t \in Clients
  BY DEF Threads
<1>6. CASE SemTake(t, s) /\ boxPc' = [boxPc EXCEPT ![t] = Onward(s)] /\ msg' = msg
  <2>1. /\ SemOK' /\ \A r \in Sems : GrantedOf(r)' = GrantedOf(r)
        /\ avail'[s] = avail[s] - 1 /\ \A r \in Sems \ {s} : avail'[r] = avail[r]
    BY <1>6, Takes
  <2>2. BoxTypeOK' /\ WaitersOK' /\ BoxThreadsOK' /\ PlacesOK'
    BY <1>1, <1>4, <1>6, <2>1, Types, BoxQuietStep DEF BoxThreadsOK
  <2>3. \A l \in {"get", "dequeue", "postFree"} :
          IsFiniteSet(On(l)') /\ Cardinality(On(l)') = Cardinality(On(l)) + IF l = Onward(s) THEN 1 ELSE 0
    <3> SUFFICES ASSUME NEW l \in {"get", "dequeue", "postFree"}
                 PROVE  IsFiniteSet(On(l)') /\ Cardinality(On(l)') = Cardinality(On(l)) + IF l = Onward(s) THEN 1 ELSE 0
      OBVIOUS
    <3>1. l # boxPc[t]
      BY <1>4
    <3>2. /\ IsFiniteSet(On(l)') /\ Cardinality(On(l)) \in Nat
          /\ l = Onward(s) => Cardinality(On(l)') = Cardinality(On(l)) + 1
          /\ l # Onward(s) => Cardinality(On(l)') = Cardinality(On(l))
      BY <1>4, <1>6, <3>1, OnCounts
    <3> QED BY <3>2
  <2>4. CountsOK'
    <3>1. /\ \A r \in Sems : IsFiniteSet(GrantedOf(r)') /\ IsFiniteSet(On(Onward(r))')
          /\ IsFiniteSet(On("postFree")') /\ IsFiniteSet(BoxHeld')
      BY <2>1, <2>3, <1>1, <1>3, SemNames DEF CountsOK, Onward
    <3>2. /\ avail'["data"] = avail["data"] - IF s = "data" THEN 1 ELSE 0
          /\ avail'["free"] = avail["free"] - IF s = "free" THEN 1 ELSE 0
          /\ avail["data"] \in Nat /\ avail["free"] \in Nat
      BY <2>1, <1>1, SemNames, Types
    <3>3. /\ Cardinality(On("get")') = Cardinality(On("get")) + IF s = "data" THEN 1 ELSE 0
          /\ Cardinality(On("dequeue")') = Cardinality(On("dequeue")) + IF s = "free" THEN 1 ELSE 0
          /\ Cardinality(On("postFree")') = Cardinality(On("postFree"))
          /\ Cardinality(On("get")) \in Nat /\ Cardinality(On("dequeue")) \in Nat
          /\ Cardinality(On("postFree")) \in Nat
      BY <2>3, SemNames, Counts DEF Onward
    <3>4. /\ Len(dataQue) = avail["data"] + Cardinality(GrantedOf("data")) + Cardinality(On("get"))
          /\ Len(freeQue) = avail["free"] + Cardinality(GrantedOf("free")) + Cardinality(On("dequeue"))
                              + Cardinality(On("postFree"))
          /\ Cardinality(GrantedOf("data")) \in Nat /\ Cardinality(GrantedOf("free")) \in Nat
      BY <1>1, SemNames, Counts DEF CountsOK
    <3>5. GrantedOf("data")' = GrantedOf("data") /\ GrantedOf("free")' = GrantedOf("free")
      BY <2>1, SemNames
    <3>6. Len(dataQue) = avail'["data"] + Cardinality(GrantedOf("data")') + Cardinality(On("get")')
      BY <3>2, <3>3, <3>4, <3>5
    <3>7. Len(freeQue) = avail'["free"] + Cardinality(GrantedOf("free")') + Cardinality(On("dequeue")')
                          + Cardinality(On("postFree")')
      BY <3>2, <3>3, <3>4, <3>5, SemNames
    <3> QED BY <3>1, <3>6, <3>7, <1>1, <1>2, <1>3 DEF CountsOK
  <2> QED BY <2>2, <2>4 DEF BoxIInv
<1>7. CASE SemGranted(t) /\ boxPc' = [boxPc EXCEPT ![t] = Onward(s)] /\ msg' = msg
  <2>1. t \in Clients /\ Sem!Return(t) /\ outcome[t] = "granted"
    BY <1>5, <1>7 DEF SemGranted
  <2>2. /\ SemOK' /\ avail' = avail
        /\ \A r \in Sems : GrantedOf(r)' = GrantedOf(r) \ {t}
        /\ t \in GrantedOf(s)
        /\ \A r \in Sems : t \in GrantedOf(r) => r = s
    BY <2>1, <1>7, Returns
  <2>3. BoxTypeOK' /\ WaitersOK' /\ BoxThreadsOK' /\ PlacesOK'
    BY <1>1, <1>4, <1>7, <2>2, Types, BoxQuietStep DEF BoxThreadsOK
  <2>4. \A l \in {"get", "dequeue", "postFree"} :
          IsFiniteSet(On(l)') /\ Cardinality(On(l)') = Cardinality(On(l)) + IF l = Onward(s) THEN 1 ELSE 0
    <3> SUFFICES ASSUME NEW l \in {"get", "dequeue", "postFree"}
                 PROVE  IsFiniteSet(On(l)') /\ Cardinality(On(l)') = Cardinality(On(l)) + IF l = Onward(s) THEN 1 ELSE 0
      OBVIOUS
    <3>1. l # boxPc[t]
      BY <1>4
    <3>2. /\ IsFiniteSet(On(l)') /\ Cardinality(On(l)) \in Nat
          /\ l = Onward(s) => Cardinality(On(l)') = Cardinality(On(l)) + 1
          /\ l # Onward(s) => Cardinality(On(l)') = Cardinality(On(l))
      BY <1>4, <1>7, <3>1, OnCounts
    <3> QED BY <3>2
  <2>5. \A r \in Sems : /\ IsFiniteSet(GrantedOf(r)')
                        /\ Cardinality(GrantedOf(r)') = Cardinality(GrantedOf(r)) - IF r = s THEN 1 ELSE 0
    BY <2>2, Counts, FS_RemoveElement
  <2>6. CountsOK'
    <3>1. /\ \A r \in Sems : IsFiniteSet(GrantedOf(r)') /\ IsFiniteSet(On(Onward(r))')
          /\ IsFiniteSet(On("postFree")') /\ IsFiniteSet(BoxHeld')
      BY <2>4, <2>5, <1>1, <1>3, SemNames DEF CountsOK, Onward
    <3>2. /\ Cardinality(GrantedOf("data")') = Cardinality(GrantedOf("data")) - IF s = "data" THEN 1 ELSE 0
          /\ Cardinality(GrantedOf("free")') = Cardinality(GrantedOf("free")) - IF s = "free" THEN 1 ELSE 0
          /\ avail["data"] \in Nat /\ avail["free"] \in Nat
      BY <2>5, <1>1, SemNames, Types
    <3>3. /\ Cardinality(On("get")') = Cardinality(On("get")) + IF s = "data" THEN 1 ELSE 0
          /\ Cardinality(On("dequeue")') = Cardinality(On("dequeue")) + IF s = "free" THEN 1 ELSE 0
          /\ Cardinality(On("postFree")') = Cardinality(On("postFree"))
          /\ Cardinality(On("get")) \in Nat /\ Cardinality(On("dequeue")) \in Nat
          /\ Cardinality(On("postFree")) \in Nat
      BY <2>4, SemNames, Counts DEF Onward
    <3>4. /\ Len(dataQue) = avail["data"] + Cardinality(GrantedOf("data")) + Cardinality(On("get"))
          /\ Len(freeQue) = avail["free"] + Cardinality(GrantedOf("free")) + Cardinality(On("dequeue"))
                              + Cardinality(On("postFree"))
          /\ Cardinality(GrantedOf("data")) \in Nat /\ Cardinality(GrantedOf("free")) \in Nat
      BY <1>1, SemNames, Counts DEF CountsOK
    <3>5. avail'["data"] = avail["data"] /\ avail'["free"] = avail["free"]
      BY <2>2
    <3>6. Len(dataQue) = avail'["data"] + Cardinality(GrantedOf("data")') + Cardinality(On("get")')
      BY <3>2, <3>3, <3>4, <3>5
    <3>7. Len(freeQue) = avail'["free"] + Cardinality(GrantedOf("free")') + Cardinality(On("dequeue")')
                          + Cardinality(On("postFree")')
      BY <3>2, <3>3, <3>4, <3>5, SemNames
    <3> QED BY <3>1, <3>6, <3>7, <1>1, <1>2, <1>3 DEF CountsOK
  <2> QED BY <2>3, <2>6 DEF BoxIInv
<1>8. CASE SemWait(t, s) /\ boxPc' = boxPc /\ msg' = msg
  <2>1. SemOK' /\ avail' = avail /\ \A r \in Sems : GrantedOf(r)' = GrantedOf(r)
    BY <1>5, <1>8, Waits DEF SemWait
  <2>2. BoxTypeOK' /\ WaitersOK'
    BY <2>1, <1>1, <1>2, <1>8 DEF BoxTypeOK, SemOK
  <2>3. BoxThreadsOK' /\ PlacesOK'
    BY <1>1, <1>2, <1>3, <1>8 DEF BoxThreadsOK, PlacesOK
  <2>4. On("get")' = On("get") /\ On("dequeue")' = On("dequeue") /\ On("postFree")' = On("postFree")
    BY <1>8 DEF On
  <2>5. CountsOK'
    BY <2>1, <2>4, <1>1, <1>2, <1>3, SemNames DEF CountsOK, Onward
  <2> QED BY <2>2, <2>3, <2>5 DEF BoxIInv
<1>9. CASE /\ SemRefuse(t, s) \/ SemTimedOut(t)
           /\ boxPc' = [boxPc EXCEPT ![t] = "user"]
           /\ msg' = msg \/ msg' = [msg EXCEPT ![t] = NoMessage]
  <2>1. SemOK' /\ avail' = avail /\ \A r \in Sems : GrantedOf(r)' = GrantedOf(r)
    <3>1. CASE SemRefuse(t, s)
      <4>1. t \in Clients => outcome[t] = "idle"
        BY <3>1, <1>1, Types DEF SemRefuse, NotWaiting
      <4>2. UNCHANGED tokenVars
        BY <3>1 DEF SemRefuse
      <4> QED BY <4>1, <4>2, <1>9, Goes DEF tokenVars
    <3>2. CASE SemTimedOut(t)
      <4>1. t \in Clients /\ Sem!Return(t) /\ outcome[t] # "granted"
        BY <3>2, <1>5 DEF SemTimedOut
      <4>2. SemOK' /\ avail' = avail /\ \A r \in Sems : GrantedOf(r)' = GrantedOf(r) \ {t} /\ t \notin GrantedOf(r)
        BY <4>1, <1>9, Returns
      <4> QED BY <4>2
    <3> QED BY <1>9, <3>1, <3>2
  <2>2. msg' \in [Threads -> Messages \cup {NoMessage}] /\ \A u \in Threads : u # t => msg'[u] = msg[u]
    BY <1>1, <1>9, Types
  <2>3. BoxTypeOK' /\ WaitersOK' /\ BoxThreadsOK' /\ PlacesOK'
    BY <1>4, <1>9, <2>1, <2>2, BoxQuietStep
  <2>4. \A l \in {"get", "dequeue", "postFree"} : IsFiniteSet(On(l)') /\ Cardinality(On(l)') = Cardinality(On(l))
    <3> SUFFICES ASSUME NEW l \in {"get", "dequeue", "postFree"}
                 PROVE  IsFiniteSet(On(l)') /\ Cardinality(On(l)') = Cardinality(On(l))
      OBVIOUS
    <3>1. l # boxPc[t] /\ l # "user"
      BY <1>4
    <3> QED BY <1>4, <1>9, <3>1, OnCounts
  <2>5. CountsOK'
    BY <2>1, <2>4, <1>1, <1>2, <1>3, SemNames DEF CountsOK, Onward
  <2> QED BY <2>3, <2>5 DEF BoxIInv
<1> QED BY <1>6, <1>7, <1>8, <1>9 DEF PendsOn, BoxGoto

-----------------------------------------------------------------------------
(* Steps that move a block.                                                *)

Hands == [Threads -> Blocks \cup {NoBlock}]

LEMMA EitherOrder ==
  ASSUME NEW q, NEW r, NEW hand
  PROVE  Apart(q, r, hand) <=> Apart(r, q, hand)
BY DEF Apart

\* The first block of a queue is taken in hand.
LEMMA TakeBlock ==
  ASSUME NEW q \in Seq(Blocks), q # <<>>, NEW r \in Seq(Blocks), NEW hand \in Hands, Apart(q, r, hand),
         NEW t \in Threads, hand[t] = NoBlock
  PROVE  Apart(Tail(q), r, [hand EXCEPT ![t] = Head(q)])
<1> DEFINE b == Head(q)
           z == Tail(q)
           new == [hand EXCEPT ![t] = b]
<1>1. /\ z \in Seq(Blocks) /\ b \in Blocks /\ Contains(q, b) /\ b # NoBlock
      /\ \A y : Contains(q, y) <=> Contains(z, y) \/ y = b
      /\ IsInjective(z) /\ ~Contains(z, b)
  BY Beheaded, BlocksAssumption DEF Apart
<1>2. new[t] = b /\ \A u \in Threads : u # t => new[u] = hand[u]
  BY DEF Hands
<1> HIDE DEF b, z, new
<1>3. \A u \in Threads : hand[u] # b
  BY <1>1 DEF Apart
<1>4. ASSUME NEW u \in Threads, new[u] # NoBlock PROVE ~Contains(z, new[u]) /\ ~Contains(r, new[u])
  BY <1>1, <1>2, <1>4 DEF Apart
<1>5. ASSUME NEW u \in Threads, NEW v \in Threads, new[u] = new[v], new[u] # NoBlock PROVE u = v
  BY <1>2, <1>3, <1>5 DEF Apart
<1>6. ASSUME NEW c \in Blocks PROVE Contains(z, c) \/ Contains(r, c) \/ \E u \in Threads : new[u] = c
  <2>1. CASE c = b
    BY <2>1, <1>2
  <2>2. CASE \E u \in Threads : hand[u] = c
    <3>1. PICK u \in Threads : hand[u] = c
      BY <2>2
    <3>2. u # t
      BY <3>1, BlocksAssumption
    <3> QED BY <3>1, <3>2, <1>2
  <2>3. CASE Contains(q, c) \/ Contains(r, c)
    BY <2>1, <2>3, <1>1
  <2> QED BY <2>2, <2>3 DEF Apart
<1> QED BY <1>1, <1>4, <1>5, <1>6 DEF Apart, b, z, new

\* The block in hand is put at the end of a queue.
LEMMA PutBlock ==
  ASSUME NEW q \in Seq(Blocks), NEW r \in Seq(Blocks), NEW hand \in Hands, Apart(q, r, hand),
         NEW t \in Threads, hand[t] # NoBlock
  PROVE  Apart(Append(q, hand[t]), r, [hand EXCEPT ![t] = NoBlock])
<1> DEFINE b == hand[t]
           z == Append(q, b)
           new == [hand EXCEPT ![t] = NoBlock]
<1>1. b \in Blocks /\ ~Contains(q, b) /\ ~Contains(r, b)
  BY DEF Hands, Apart
<1>2. new[t] = NoBlock /\ \A u \in Threads : u # t => new[u] = hand[u] /\ hand[u] # b
  BY DEF Hands, Apart
<1> HIDE DEF b
<1>3. /\ z \in Seq(Blocks) /\ IsInjective(z)
      /\ \A y : Contains(z, y) <=> Contains(q, y) \/ y = b
  BY <1>1, Appended DEF Apart
<1> HIDE DEF z, new
<1>4. ASSUME NEW u \in Threads, new[u] # NoBlock PROVE ~Contains(z, new[u]) /\ ~Contains(r, new[u])
  BY <1>2, <1>3, <1>4 DEF Apart
<1>5. ASSUME NEW u \in Threads, NEW v \in Threads, new[u] = new[v], new[u] # NoBlock PROVE u = v
  BY <1>2, <1>5 DEF Apart
<1>6. ASSUME NEW c \in Blocks PROVE Contains(z, c) \/ Contains(r, c) \/ \E u \in Threads : new[u] = c
  <2>1. CASE c = b
    BY <2>1, <1>3
  <2>2. CASE c # b /\ \E u \in Threads : hand[u] = c
    <3>1. PICK u \in Threads : hand[u] = c
      BY <2>2
    <3>2. u # t
      BY <3>1, <2>2 DEF b
    <3> QED BY <3>1, <3>2, <1>2
  <2>3. CASE Contains(q, c) \/ Contains(r, c)
    BY <2>3, <1>3
  <2> QED BY <2>1, <2>2, <2>3 DEF Apart
<1>7. \A c \in Blocks : ~(Contains(z, c) /\ Contains(r, c))
  BY <1>1, <1>3 DEF Apart
<1> QED BY <1>3, <1>4, <1>5, <1>6, <1>7 DEF Apart, b, z, new

\* A part is no more than the whole.
LEMMA Part ==
  ASSUME NEW whole, NEW a \in Nat, NEW b \in Nat, NEW c \in Nat, NEW d \in Nat,
         whole = a + b + c \/ whole = a + b + c + d, c >= 1
  PROVE  whole >= 1
OBVIOUS

\* A thread that has a token finds a block.
LEMMA BlockIsThere ==
  ASSUME BoxIInv, NEW t \in Threads
  PROVE  /\ boxPc[t] = "dequeue" => freeQue # <<>>
         /\ boxPc[t] = "get" => dataQue # <<>>
<1>1. CountsOK /\ BoxTypeOK
  BY DEF BoxIInv
<1>2. Len(<<>>) = 0
  OBVIOUS
<1>3. CASE boxPc[t] = "dequeue"
  <2>1. Cardinality(On("dequeue")) >= 1
    <3>1. t \in On("dequeue") /\ IsFiniteSet(On("dequeue"))
      BY <1>1, <1>3, SemNames DEF On, CountsOK, Onward
    <3> QED BY <3>1, NotNone
  <2>2. Len(freeQue) >= 1
    BY <2>1, Balance, Part
  <2>3. freeQue # <<>>
    BY <2>2, <1>2
  <2> QED BY <2>3, <1>3
<1>4. CASE boxPc[t] = "get"
  <2>1. Cardinality(On("get")) >= 1
    <3>1. t \in On("get") /\ IsFiniteSet(On("get"))
      BY <1>1, <1>4, SemNames DEF On, CountsOK, Onward
    <3> QED BY <3>1, NotNone
  <2>2. Len(dataQue) >= 1
    BY <2>1, Balance, Part
  <2>3. dataQue # <<>>
    BY <2>2, <1>2
  <2> QED BY <2>3, <1>4
<1> QED BY <1>3, <1>4

\* There is room in the counts for what a thread has in hand or owes.
LEMMA RoomForToken ==
  ASSUME BoxIInv, NEW t \in Threads
  PROVE  /\ boxPc[t] = "postFree" => avail["free"] < NumMsgs
         /\ elem[t] # NoBlock => /\ Len(dataQue) < NumMsgs /\ Len(freeQue) < NumMsgs
                                 /\ avail["data"] < NumMsgs
<1>1. CountsOK /\ (elem[t] # NoBlock <=> boxPc[t] \in HandPCs)
  BY DEF BoxIInv, BoxThreadsOK
<1>3. CASE boxPc[t] = "postFree"
  <2>1. t \in On("postFree") /\ IsFiniteSet(On("postFree"))
    BY <1>1, <1>3 DEF On, CountsOK
  <2>2. Cardinality(On("postFree")) >= 1
    BY <2>1, NotNone
  <2>3. avail["free"] < NumMsgs
    BY <2>2, Balance
  <2>4. elem[t] = NoBlock
    BY <1>1, <1>3 DEF HandPCs
  <2> QED BY <2>3, <2>4
<1>4. CASE elem[t] # NoBlock
  <2>1. t \in BoxHeld /\ IsFiniteSet(BoxHeld)
    BY <1>1, <1>4 DEF BoxHeld, CountsOK
  <2>2. Cardinality(BoxHeld) >= 1
    BY <2>1, NotNone
  <2>3. Len(dataQue) < NumMsgs /\ Len(freeQue) < NumMsgs /\ avail["data"] < NumMsgs
    BY <2>2, Balance, SMTT(30)
  <2>4. boxPc[t] # "postFree"
    BY <1>1, <1>4 DEF HandPCs
  <2> QED BY <2>3, <2>4
<1> QED BY <1>3, <1>4

\* Queue_dequeue of freeQue, which is not empty.
LEMMA DequeuePreserves ==
  ASSUME BoxIInv, NEW t \in Threads, PostDequeue(t)
  PROVE  BoxIInv'
<1>1. BoxTypeOK /\ WaitersOK /\ BoxThreadsOK /\ PlacesOK /\ CountsOK
  BY DEF BoxIInv
<1>2. /\ boxPc[t] = "dequeue" /\ boxPc' = [boxPc EXCEPT ![t] = "copyIn"] /\ freeQue # <<>>
      /\ elem' = [elem EXCEPT ![t] = Head(freeQue)] /\ freeQue' = Tail(freeQue)
      /\ numFreeMsgs' = numFreeMsgs - 1
      /\ UNCHANGED <<dataQue, msg, content>> /\ UNCHANGED tokenVars /\ UNCHANGED <<avail, waiting, outcome>>
  BY BlockIsThere DEF PostDequeue, BoxAt, BoxGoto, tokenVars
<1>3. /\ elem[t] = NoBlock /\ Head(freeQue) \in Blocks /\ Head(freeQue) # NoBlock
      /\ freeQue' \in Seq(Blocks) /\ Len(freeQue') = Len(freeQue) - 1
      /\ msg[t] \in Messages
  BY <1>1, <1>2, Types, Beheaded, BlocksAssumption DEF BoxThreadsOK, HandPCs, PostPCs
<1>4. /\ elem' \in Hands /\ elem'[t] = Head(freeQue)
      /\ \A u \in Threads : u # t => elem'[u] = elem[u]
  BY <1>1, <1>2, <1>3, Types DEF Hands
<1>5. boxPc'[t] = "copyIn" /\ (\A u \in Threads : u # t => boxPc'[u] = boxPc[u]) /\ boxPc' \in [Threads -> BoxPCs]
  BY <1>1, <1>2, OneGoes DEF BoxPCs, PostPCs
<1>6. SemOK' /\ \A s \in Sems : GrantedOf(s)' = GrantedOf(s)
  <2>1. t \in Clients => outcome[t] = "idle"
    BY <1>2, IdleElsewhere DEF Caller
  <2> QED BY <2>1, <1>2, Goes
<1>7. CountsOK'
  <2>1. /\ IsFiniteSet(On("get")') /\ IsFiniteSet(On("dequeue")') /\ IsFiniteSet(On("postFree")')
        /\ Cardinality(On("get")') = Cardinality(On("get"))
        /\ Cardinality(On("dequeue")') = Cardinality(On("dequeue")) - 1
        /\ Cardinality(On("postFree")') = Cardinality(On("postFree"))
    <3>1. boxPc[t] = "dequeue" /\ boxPc[t] # "copyIn" /\ boxPc' = [boxPc EXCEPT ![t] = "copyIn"]
      BY <1>2
    <3>2. /\ "copyIn" \notin {"get", "dequeue", "postFree"}
          /\ boxPc[t] \notin {"get", "postFree"}
      BY <3>1
    <3> QED BY <3>1, <3>2, OnEach, Zenon
  <2>2. IsFiniteSet(BoxHeld') /\ Cardinality(BoxHeld') = Cardinality(BoxHeld) + 1
    BY <1>1, <1>2, <1>3, Counts, HeldMoves
  <2>3. numFreeMsgs' = Len(freeQue')
    BY <1>2, <1>3, Balance
  <2>4. /\ \A s \in Sems : IsFiniteSet(GrantedOf(s)') /\ IsFiniteSet(On(Onward(s))')
        /\ GrantedOf("data")' = GrantedOf("data") /\ GrantedOf("free")' = GrantedOf("free")
    BY <2>1, <1>1, <1>6, SemNames DEF CountsOK, Onward
  <2>6. Len(freeQue') = avail["free"] + Cardinality(GrantedOf("free")) + Cardinality(On("dequeue")')
                          + Cardinality(On("postFree"))
    <3>1. Len(freeQue') = Len(freeQue) - 1
      BY <1>3
    <3>2. Cardinality(On("dequeue")') = Cardinality(On("dequeue")) - 1
      BY <2>1
    <3>3. /\ Len(freeQue) = avail["free"] + Cardinality(GrantedOf("free")) + Cardinality(On("dequeue"))
                             + Cardinality(On("postFree"))
          /\ avail["free"] \in Nat /\ Cardinality(GrantedOf("free")) \in Nat
          /\ Cardinality(On("dequeue")) \in Nat /\ Cardinality(On("postFree")) \in Nat
      BY Balance
    <3> QED BY <3>1, <3>2, <3>3
  <2>7. Len(dataQue) + Len(freeQue') + Cardinality(BoxHeld') = NumMsgs
    BY <2>2, <1>3, Balance
  <2> QED BY <2>1, <2>2, <2>3, <2>4, <2>6, <2>7, <1>1, <1>2 DEF CountsOK
<1>8. BoxTypeOK'
  <2>1. numFreeMsgs' \in 0 .. NumMsgs
    <3>1. Len(freeQue') \in Nat
      BY <1>3
    <3>2. Len(freeQue') = Len(freeQue) - 1 /\ numFreeMsgs' = numFreeMsgs - 1
      BY <1>2, <1>3
    <3>3. numFreeMsgs = Len(freeQue) /\ Len(freeQue) \in Nat /\ Len(freeQue) <= NumMsgs /\ NumMsgs \in Nat
      BY Balance
    <3> QED BY <3>1, <3>2, <3>3
  <2> QED BY <2>1, <1>1, <1>2, <1>3, <1>4, <1>5, <1>6 DEF BoxTypeOK, SemOK, BoxPCs, Hands
<1>9. BoxThreadsOK'
  BY <1>1, <1>2, <1>3, <1>4, <1>5 DEF BoxThreadsOK, HandPCs
<1>10. PlacesOK'
  <2>1. Apart(freeQue, dataQue, elem) /\ elem \in Hands
    BY <1>1, Types, EitherOrder DEF PlacesOK, Hands
  <2>2. Apart(Tail(freeQue), dataQue, [elem EXCEPT ![t] = Head(freeQue)])
    BY <2>1, <1>1, <1>2, <1>3, Types, TakeBlock
  <2>3. Apart(dataQue, Tail(freeQue), [elem EXCEPT ![t] = Head(freeQue)])
    BY <2>2, EitherOrder
  <2> QED BY <2>3, <1>2 DEF PlacesOK, Apart
<1> QED BY <1>6, <1>7, <1>8, <1>9, <1>10 DEF BoxIInv, SemOK

\* memcpy into the block in hand, which no other thread reads.
LEMMA CopyInPreserves ==
  ASSUME BoxIInv, NEW t \in Threads, PostCopy(t)
  PROVE  BoxIInv'
<1>1. BoxTypeOK /\ WaitersOK /\ BoxThreadsOK /\ PlacesOK /\ CountsOK
  BY DEF BoxIInv
<1>2. /\ boxPc[t] = "copyIn" /\ boxPc' = [boxPc EXCEPT ![t] = "enqueue"]
      /\ content' = [content EXCEPT ![elem[t]] = msg[t]]
      /\ UNCHANGED <<dataQue, freeQue, numFreeMsgs, elem, msg>> /\ UNCHANGED tokenVars
      /\ UNCHANGED <<avail, waiting, outcome>>
  BY DEF PostCopy, BoxAt, BoxGoto, tokenVars, boxVars
<1>3. elem[t] \in Blocks /\ elem[t] # NoBlock /\ msg[t] \in Messages
  BY <1>1, <1>2, Types DEF BoxThreadsOK, HandPCs, PostPCs
<1>4. /\ content' \in [Blocks \cup {Header} -> Messages \cup {NoMessage}]
      /\ content'[elem[t]] = msg[t]
      /\ \A b \in Blocks : b # elem[t] => content'[b] = content[b]
  BY <1>1, <1>2, <1>3, Types
<1>5. boxPc'[t] = "enqueue" /\ (\A u \in Threads : u # t => boxPc'[u] = boxPc[u]) /\ boxPc' \in [Threads -> BoxPCs]
  BY <1>1, <1>2, OneGoes DEF BoxPCs, PostPCs
<1>6. SemOK' /\ \A s \in Sems : GrantedOf(s)' = GrantedOf(s)
  <2>1. t \in Clients => outcome[t] = "idle"
    BY <1>2, IdleElsewhere DEF Caller
  <2> QED BY <2>1, <1>2, Goes
<1>7. CountsOK'
  <2>1. boxPc[t] = "copyIn" /\ boxPc[t] # "enqueue" /\ boxPc' = [boxPc EXCEPT ![t] = "enqueue"]
        /\ "enqueue" \notin {"get", "dequeue", "postFree"} /\ boxPc[t] \notin {"get", "dequeue", "postFree"}
    BY <1>2
  <2>2. /\ IsFiniteSet(On("get")') /\ IsFiniteSet(On("dequeue")') /\ IsFiniteSet(On("postFree")')
        /\ Cardinality(On("get")') = Cardinality(On("get"))
        /\ Cardinality(On("dequeue")') = Cardinality(On("dequeue"))
        /\ Cardinality(On("postFree")') = Cardinality(On("postFree"))
    BY <2>1, OnEach, Zenon
  <2>3. BoxHeld' = BoxHeld
    BY <1>2 DEF BoxHeld
  <2> QED BY <2>2, <2>3, <1>1, <1>2, <1>6, SemNames DEF CountsOK, Onward
<1>8. BoxTypeOK'
  BY <1>1, <1>2, <1>4, <1>5, <1>6 DEF BoxTypeOK, SemOK, BoxPCs
<1>9. BoxThreadsOK'
  <2>1. ASSUME NEW u \in Threads, u # t, boxPc[u] = "enqueue" PROVE elem[u] \in Blocks /\ elem[u] # elem[t]
    BY <2>1, <1>1, <1>3, Types DEF BoxThreadsOK, HandPCs, PlacesOK, Apart
  <2> QED BY <2>1, <1>1, <1>2, <1>3, <1>4, <1>5 DEF BoxThreadsOK, HandPCs
<1>10. PlacesOK'
  BY <1>1, <1>2 DEF PlacesOK
<1> QED BY <1>6, <1>7, <1>8, <1>9, <1>10 DEF BoxIInv, SemOK

\* Queue_enqueue to dataQue and Semaphore_post of dataSem.
LEMMA EnqueuePreserves ==
  ASSUME BoxIInv, NEW t \in Threads, PostEnqueue(t)
  PROVE  BoxIInv'
<1>1. BoxTypeOK /\ WaitersOK /\ BoxThreadsOK /\ PlacesOK /\ CountsOK
  BY DEF BoxIInv
<1>2. /\ boxPc[t] = "enqueue" /\ boxPc' = [boxPc EXCEPT ![t] = "user"]
      /\ dataQue' = Append(dataQue, elem[t]) /\ elem' = [elem EXCEPT ![t] = NoBlock]
      /\ msg' = [msg EXCEPT ![t] = NoMessage]
      /\ Sem!Post("data") /\ UNCHANGED <<freeQue, numFreeMsgs, content>>
  BY DEF PostEnqueue, BoxAt, BoxGoto
<1>3. elem[t] \in Blocks /\ elem[t] # NoBlock
  BY <1>1, <1>2, Types DEF BoxThreadsOK, HandPCs
<1>4. /\ elem' \in Hands /\ elem'[t] = NoBlock
      /\ \A u \in Threads : u # t => elem'[u] = elem[u] /\ msg'[u] = msg[u]
      /\ msg' \in [Threads -> Messages \cup {NoMessage}]
      /\ dataQue' \in Seq(Blocks) /\ Len(dataQue') = Len(dataQue) + 1
  BY <1>1, <1>2, <1>3, Types DEF Hands
<1>5. boxPc'[t] = "user" /\ (\A u \in Threads : u # t => boxPc'[u] = boxPc[u]) /\ boxPc' \in [Threads -> BoxPCs]
  BY <1>1, <1>2, OneGoes DEF BoxPCs
<1>6. /\ SemOK'
      /\ \A r \in Sems : IsFiniteSet(GrantedOf(r)')
      /\ avail'["data"] + Cardinality(GrantedOf("data")') = avail["data"] + Cardinality(GrantedOf("data")) + 1
      /\ avail'["data"] \in Nat /\ Cardinality(GrantedOf("data")') \in Nat
      /\ avail'["free"] = avail["free"] /\ GrantedOf("free")' = GrantedOf("free")
  <2>1. avail["data"] < NumMsgs /\ boxPc[t] \in {"enqueue", "postFree"} /\ "data" \in Sems /\ "free" \in Sems \ {"data"}
    BY <1>2, <1>3, RoomForToken, SemNames
  <2> QED BY <2>1, <1>2, Posts
<1>7. CountsOK'
  <2>1. boxPc[t] = "enqueue" /\ boxPc[t] # "user" /\ boxPc' = [boxPc EXCEPT ![t] = "user"]
        /\ "user" \notin {"get", "dequeue", "postFree"} /\ boxPc[t] \notin {"get", "dequeue", "postFree"}
    BY <1>2
  <2>2. /\ IsFiniteSet(On("get")') /\ IsFiniteSet(On("dequeue")') /\ IsFiniteSet(On("postFree")')
        /\ Cardinality(On("get")') = Cardinality(On("get"))
        /\ Cardinality(On("dequeue")') = Cardinality(On("dequeue"))
        /\ Cardinality(On("postFree")') = Cardinality(On("postFree"))
    BY <2>1, OnEach, Zenon
  <2>3. IsFiniteSet(BoxHeld') /\ Cardinality(BoxHeld') = Cardinality(BoxHeld) - 1
    BY <1>1, <1>2, <1>3, Counts, HeldMoves
  <2>4. /\ \A s \in Sems : IsFiniteSet(GrantedOf(s)') /\ IsFiniteSet(On(Onward(s))')
    BY <2>2, <1>6, SemNames DEF Onward
  <2>5. /\ Len(dataQue) = avail["data"] + Cardinality(GrantedOf("data")) + Cardinality(On("get"))
        /\ avail["data"] \in Nat /\ Cardinality(GrantedOf("data")) \in Nat /\ Cardinality(On("get")) \in Nat
        /\ Len(dataQue) + Len(freeQue) + Cardinality(BoxHeld) = NumMsgs
        /\ Cardinality(BoxHeld) \in Nat /\ Len(dataQue) \in Nat /\ Len(freeQue) \in Nat
    BY Balance
  <2>6. Len(dataQue') = Len(dataQue) + 1
    BY <1>4
  <2>7. avail'["data"] + Cardinality(GrantedOf("data")') = avail["data"] + Cardinality(GrantedOf("data")) + 1
        /\ avail'["data"] \in Nat /\ Cardinality(GrantedOf("data")') \in Nat
    BY <1>6
  <2>8. Len(dataQue') = avail'["data"] + Cardinality(GrantedOf("data")') + Cardinality(On("get"))
    <3> DEFINE n1 == Len(dataQue')
               n  == Len(dataQue)
               a1 == avail'["data"]
               a  == avail["data"]
               g1 == Cardinality(GrantedOf("data")')
               g  == Cardinality(GrantedOf("data"))
               c  == Cardinality(On("get"))
    <3>1. n = a + g + c /\ n1 = n + 1 /\ a1 + g1 = a + g + 1 /\ {a, g, c, a1, g1} \subseteq Nat
      BY <2>5, <2>6, <2>7, Zenon
    <3> HIDE DEF n1, n, a1, a, g1, g, c
    <3>2. n1 = a1 + g1 + c
      BY <3>1
    <3> QED BY <3>2 DEF n1, a1, g1, c
  <2>9. Len(dataQue') + Len(freeQue) + Cardinality(BoxHeld') = NumMsgs
    <3> DEFINE n1 == Len(dataQue')
               n  == Len(dataQue)
               f  == Len(freeQue)
               h1 == Cardinality(BoxHeld')
               h  == Cardinality(BoxHeld)
    <3>1. n + f + h = NumMsgs /\ n1 = n + 1 /\ h1 = h - 1 /\ {n, f, h} \subseteq Nat
      BY <2>3, <2>5, <2>6, Zenon
    <3> HIDE DEF n1, n, f, h1, h
    <3>2. n1 + f + h1 = NumMsgs
      BY <3>1
    <3> QED BY <3>2 DEF n1, f, h1
  <2> QED BY <2>2, <2>3, <2>4, <2>8, <2>9, <1>1, <1>2, <1>6 DEF CountsOK
<1>8. BoxTypeOK'
  BY <1>1, <1>2, <1>4, <1>5, <1>6 DEF BoxTypeOK, SemOK, BoxPCs, Hands
<1>9. BoxThreadsOK'
  BY <1>1, <1>2, <1>4, <1>5 DEF BoxThreadsOK, HandPCs, PostPCs
<1>10. PlacesOK'
  <2>1. Apart(dataQue, freeQue, elem) /\ elem \in Hands
    BY <1>1, Types DEF PlacesOK, Hands
  <2>2. Apart(Append(dataQue, elem[t]), freeQue, [elem EXCEPT ![t] = NoBlock])
    BY <2>1, <1>1, <1>3, Types, PutBlock
  <2> QED BY <2>2, <1>2 DEF PlacesOK, Apart
<1> QED BY <1>6, <1>7, <1>8, <1>9, <1>10 DEF BoxIInv, SemOK

\* Queue_get of dataQue, which is not empty.
LEMMA GetPreserves ==
  ASSUME BoxIInv, NEW t \in Threads, PendGet(t)
  PROVE  BoxIInv'
<1>1. BoxTypeOK /\ WaitersOK /\ BoxThreadsOK /\ PlacesOK /\ CountsOK
  BY DEF BoxIInv
<1>2. /\ boxPc[t] = "get" /\ boxPc' = [boxPc EXCEPT ![t] = "copyOut"] /\ dataQue # <<>>
      /\ elem' = [elem EXCEPT ![t] = Head(dataQue)] /\ dataQue' = Tail(dataQue)
      /\ UNCHANGED <<freeQue, numFreeMsgs, msg, content>> /\ UNCHANGED tokenVars
      /\ UNCHANGED <<avail, waiting, outcome>>
  BY BlockIsThere DEF PendGet, BoxAt, BoxGoto, tokenVars
<1>3. /\ elem[t] = NoBlock /\ Head(dataQue) \in Blocks /\ Head(dataQue) # NoBlock
      /\ dataQue' \in Seq(Blocks) /\ Len(dataQue') = Len(dataQue) - 1
  BY <1>1, <1>2, Types, Beheaded, BlocksAssumption DEF BoxThreadsOK, HandPCs
<1>4. /\ elem' \in Hands /\ elem'[t] = Head(dataQue)
      /\ \A u \in Threads : u # t => elem'[u] = elem[u]
  BY <1>1, <1>2, <1>3, Types DEF Hands
<1>5. boxPc'[t] = "copyOut" /\ (\A u \in Threads : u # t => boxPc'[u] = boxPc[u]) /\ boxPc' \in [Threads -> BoxPCs]
  BY <1>1, <1>2, OneGoes DEF BoxPCs, PendPCs
<1>6. SemOK' /\ \A s \in Sems : GrantedOf(s)' = GrantedOf(s)
  <2>1. t \in Clients => outcome[t] = "idle"
    BY <1>2, IdleElsewhere DEF Caller
  <2> QED BY <2>1, <1>2, Goes
<1>7. CountsOK'
  <2>1. boxPc[t] = "get" /\ boxPc[t] # "copyOut" /\ boxPc' = [boxPc EXCEPT ![t] = "copyOut"]
        /\ "copyOut" \notin {"get", "dequeue", "postFree"} /\ boxPc[t] \notin {"dequeue", "postFree"}
    BY <1>2
  <2>2. /\ IsFiniteSet(On("get")') /\ IsFiniteSet(On("dequeue")') /\ IsFiniteSet(On("postFree")')
        /\ Cardinality(On("get")') = Cardinality(On("get")) - 1
        /\ Cardinality(On("dequeue")') = Cardinality(On("dequeue"))
        /\ Cardinality(On("postFree")') = Cardinality(On("postFree"))
    BY <2>1, OnEach, Zenon
  <2>3. IsFiniteSet(BoxHeld') /\ Cardinality(BoxHeld') = Cardinality(BoxHeld) + 1
    BY <1>1, <1>2, <1>3, Counts, HeldMoves
  <2>4. /\ \A s \in Sems : IsFiniteSet(GrantedOf(s)') /\ IsFiniteSet(On(Onward(s))')
        /\ GrantedOf("data")' = GrantedOf("data") /\ GrantedOf("free")' = GrantedOf("free")
    BY <2>2, <1>1, <1>6, SemNames DEF CountsOK, Onward
  <2> DEFINE n1 == Len(dataQue')
             n  == Len(dataQue)
             f  == Len(freeQue)
             a  == avail["data"]
             g  == Cardinality(GrantedOf("data"))
             c1 == Cardinality(On("get")')
             c  == Cardinality(On("get"))
             h1 == Cardinality(BoxHeld')
             h  == Cardinality(BoxHeld)
  <2>5. /\ n1 = n - 1 /\ n = a + g + c /\ n + f + h = NumMsgs
        /\ c1 = c - 1 /\ h1 = h + 1 /\ {n, f, a, g, c, h} \subseteq Nat
    <3>1. n1 = n - 1
      BY <1>3
    <3> QED BY <3>1, <2>2, <2>3, Balance, Zenon
  <2> HIDE DEF n1, n, f, a, g, c1, c, h1, h
  <2>6. n1 = a + g + c1 /\ n1 + f + h1 = NumMsgs
    BY <2>5
  <2> QED BY <2>2, <2>3, <2>4, <2>6, <1>1, <1>2 DEF CountsOK, n1, f, a, g, c1, h1
<1>8. BoxTypeOK'
  BY <1>1, <1>2, <1>3, <1>4, <1>5, <1>6 DEF BoxTypeOK, SemOK, BoxPCs, Hands
<1>9. BoxThreadsOK'
  BY <1>1, <1>2, <1>3, <1>4, <1>5 DEF BoxThreadsOK, HandPCs, PostPCs
<1>10. PlacesOK'
  <2>1. Apart(dataQue, freeQue, elem) /\ elem \in Hands
    BY <1>1, Types DEF PlacesOK, Hands
  <2>2. Apart(Tail(dataQue), freeQue, [elem EXCEPT ![t] = Head(dataQue)])
    BY <2>1, <1>1, <1>2, <1>3, Types, TakeBlock
  <2> QED BY <2>2, <1>2 DEF PlacesOK, Apart
<1> QED BY <1>6, <1>7, <1>8, <1>9, <1>10 DEF BoxIInv, SemOK

\* memcpy out of the block in hand.
LEMMA CopyOutPreserves ==
  ASSUME BoxIInv, NEW t \in Threads, PendCopy(t)
  PROVE  BoxIInv'
<1>1. BoxTypeOK /\ BoxThreadsOK /\ CountsOK
  BY DEF BoxIInv
<1>2. /\ boxPc[t] = "copyOut" /\ boxPc' = [boxPc EXCEPT ![t] = "giveBack"]
      /\ msg' = [msg EXCEPT ![t] = content[elem[t]]]
      /\ UNCHANGED <<boxVars, content, elem>> /\ UNCHANGED tokenVars
      /\ UNCHANGED <<avail, waiting, outcome, dataQue, freeQue, numFreeMsgs>>
  BY DEF PendCopy, BoxAt, BoxGoto, tokenVars, boxVars
<1>3. content[elem[t]] \in Messages \cup {NoMessage}
  BY <1>1, <1>2, Types DEF BoxThreadsOK, HandPCs
<1>4. SemOK' /\ \A s \in Sems : GrantedOf(s)' = GrantedOf(s)
  <2>1. t \in Clients => outcome[t] = "idle"
    BY <1>2, IdleElsewhere DEF Caller
  <2> QED BY <2>1, <1>2, Goes
<1>5. BoxTypeOK' /\ WaitersOK' /\ BoxThreadsOK' /\ PlacesOK'
  <2>1. /\ "giveBack" \in BoxPCs /\ (boxPc[t] \in HandPCs <=> "giveBack" \in HandPCs)
        /\ "giveBack" # "enqueue" /\ "giveBack" \notin PostPCs
    BY <1>2 DEF BoxPCs, PostPCs, PendPCs, HandPCs
  <2>2. msg' \in [Threads -> Messages \cup {NoMessage}] /\ \A u \in Threads : u # t => msg'[u] = msg[u]
    BY <1>1, <1>2, <1>3, Types
  <2> QED BY <2>1, <2>2, <1>2, <1>4, BoxQuietStep
<1>6. CountsOK'
  <2>1. boxPc[t] = "copyOut" /\ boxPc[t] # "giveBack" /\ boxPc' = [boxPc EXCEPT ![t] = "giveBack"]
        /\ "giveBack" \notin {"get", "dequeue", "postFree"} /\ boxPc[t] \notin {"get", "dequeue", "postFree"}
    BY <1>2
  <2>2. /\ IsFiniteSet(On("get")') /\ IsFiniteSet(On("dequeue")') /\ IsFiniteSet(On("postFree")')
        /\ Cardinality(On("get")') = Cardinality(On("get"))
        /\ Cardinality(On("dequeue")') = Cardinality(On("dequeue"))
        /\ Cardinality(On("postFree")') = Cardinality(On("postFree"))
    BY <2>1, OnEach, Zenon
  <2>3. BoxHeld' = BoxHeld
    BY <1>2 DEF BoxHeld
  <2> QED BY <2>2, <2>3, <1>1, <1>2, <1>4, SemNames DEF CountsOK, Onward
<1> QED BY <1>5, <1>6 DEF BoxIInv

\* Queue_enqueue to freeQue, of which the writers are told in the next step.
LEMMA GiveBackPreserves ==
  ASSUME BoxIInv, NEW t \in Threads, PendGiveBack(t)
  PROVE  BoxIInv'
<1>1. BoxTypeOK /\ WaitersOK /\ BoxThreadsOK /\ PlacesOK /\ CountsOK
  BY DEF BoxIInv
<1>2. /\ boxPc[t] = "giveBack" /\ boxPc' = [boxPc EXCEPT ![t] = "postFree"]
      /\ freeQue' = Append(freeQue, elem[t]) /\ elem' = [elem EXCEPT ![t] = NoBlock]
      /\ numFreeMsgs' = numFreeMsgs + 1
      /\ UNCHANGED <<dataQue, content, msg>> /\ UNCHANGED tokenVars /\ UNCHANGED <<avail, waiting, outcome>>
  BY DEF PendGiveBack, BoxAt, BoxGoto, tokenVars
<1>3. elem[t] \in Blocks /\ elem[t] # NoBlock
  BY <1>1, <1>2, Types DEF BoxThreadsOK, HandPCs
<1>4. /\ elem' \in Hands /\ elem'[t] = NoBlock
      /\ \A u \in Threads : u # t => elem'[u] = elem[u]
      /\ freeQue' \in Seq(Blocks) /\ Len(freeQue') = Len(freeQue) + 1
  BY <1>1, <1>2, <1>3, Types DEF Hands
<1>5. boxPc'[t] = "postFree" /\ (\A u \in Threads : u # t => boxPc'[u] = boxPc[u]) /\ boxPc' \in [Threads -> BoxPCs]
  BY <1>1, <1>2, OneGoes DEF BoxPCs, PendPCs
<1>6. SemOK' /\ \A s \in Sems : GrantedOf(s)' = GrantedOf(s)
  <2>1. t \in Clients => outcome[t] = "idle"
    BY <1>2, IdleElsewhere DEF Caller
  <2> QED BY <2>1, <1>2, Goes
<1>7. CountsOK' /\ numFreeMsgs' \in 0 .. NumMsgs
  <2>1. boxPc[t] = "giveBack" /\ boxPc[t] # "postFree" /\ boxPc' = [boxPc EXCEPT ![t] = "postFree"]
        /\ "postFree" \notin {"get", "dequeue"} /\ boxPc[t] \notin {"get", "dequeue", "postFree"}
    BY <1>2
  <2>2. /\ IsFiniteSet(On("get")') /\ IsFiniteSet(On("dequeue")') /\ IsFiniteSet(On("postFree")')
        /\ Cardinality(On("get")') = Cardinality(On("get"))
        /\ Cardinality(On("dequeue")') = Cardinality(On("dequeue"))
        /\ Cardinality(On("postFree")') = Cardinality(On("postFree")) + 1
    BY <2>1, OnEach, Zenon
  <2>3. IsFiniteSet(BoxHeld') /\ Cardinality(BoxHeld') = Cardinality(BoxHeld) - 1
    BY <1>1, <1>2, <1>3, Counts, HeldMoves
  <2>4. /\ \A s \in Sems : IsFiniteSet(GrantedOf(s)') /\ IsFiniteSet(On(Onward(s))')
        /\ GrantedOf("data")' = GrantedOf("data") /\ GrantedOf("free")' = GrantedOf("free")
    BY <2>2, <1>1, <1>6, SemNames DEF CountsOK, Onward
  <2>5. Len(freeQue) < NumMsgs
    BY <1>3, RoomForToken
  <2> DEFINE n1 == Len(freeQue')
             n  == Len(freeQue)
             d  == Len(dataQue)
             a  == avail["free"]
             g  == Cardinality(GrantedOf("free"))
             c  == Cardinality(On("dequeue"))
             p1 == Cardinality(On("postFree")')
             p  == Cardinality(On("postFree"))
             h1 == Cardinality(BoxHeld')
             h  == Cardinality(BoxHeld)
  <2>6. /\ n1 = n + 1 /\ n = a + g + c + p /\ d + n + h = NumMsgs
        /\ p1 = p + 1 /\ h1 = h - 1 /\ {n, d, a, g, c, p, h} \subseteq Nat
        /\ numFreeMsgs = n /\ n < NumMsgs /\ NumMsgs \in Nat
    <3>1. n1 = n + 1
      BY <1>4
    <3> QED BY <3>1, <2>2, <2>3, <2>5, Balance, Zenon
  <2>7. numFreeMsgs' = numFreeMsgs + 1
    BY <1>2
  <2> HIDE DEF n1, n, d, a, g, c, p1, p, h1, h
  <2>8. n1 = a + g + c + p1 /\ d + n1 + h1 = NumMsgs /\ numFreeMsgs' = n1 /\ numFreeMsgs' \in 0 .. NumMsgs
    BY <2>6, <2>7
  <2> QED BY <2>2, <2>3, <2>4, <2>8, <1>1, <1>2 DEF CountsOK, n1, d, a, g, c, p1, h1
<1>8. BoxTypeOK'
  BY <1>1, <1>2, <1>4, <1>5, <1>6, <1>7 DEF BoxTypeOK, SemOK, BoxPCs, Hands
<1>9. BoxThreadsOK'
  BY <1>1, <1>2, <1>4, <1>5 DEF BoxThreadsOK, HandPCs, PostPCs
<1>10. PlacesOK'
  <2>1. Apart(freeQue, dataQue, elem) /\ elem \in Hands
    BY <1>1, Types, EitherOrder DEF PlacesOK, Hands
  <2>2. Apart(Append(freeQue, elem[t]), dataQue, [elem EXCEPT ![t] = NoBlock])
    BY <2>1, <1>1, <1>3, Types, PutBlock
  <2>3. Apart(dataQue, Append(freeQue, elem[t]), [elem EXCEPT ![t] = NoBlock])
    BY <2>2, EitherOrder
  <2> QED BY <2>3, <1>2 DEF PlacesOK, Apart
<1> QED BY <1>6, <1>7, <1>8, <1>9, <1>10 DEF BoxIInv, SemOK

\* Semaphore_post of freeSem, and the return of Mailbox_pend.
LEMMA PostFreePreserves ==
  ASSUME BoxIInv, NEW t \in Threads, PendPostFree(t)
  PROVE  BoxIInv'
<1>1. BoxTypeOK /\ BoxThreadsOK /\ CountsOK
  BY DEF BoxIInv
<1>2. /\ boxPc[t] = "postFree" /\ boxPc' = [boxPc EXCEPT ![t] = "user"]
      /\ msg' = [msg EXCEPT ![t] = NoMessage] /\ Sem!Post("free")
      /\ UNCHANGED <<boxVars, content, elem>> /\ UNCHANGED <<dataQue, freeQue, numFreeMsgs>>
  BY DEF PendPostFree, BoxAt, BoxGoto, boxVars
<1>3. /\ SemOK'
      /\ \A r \in Sems : IsFiniteSet(GrantedOf(r)')
      /\ avail'["free"] + Cardinality(GrantedOf("free")') = avail["free"] + Cardinality(GrantedOf("free")) + 1
      /\ avail'["free"] \in Nat /\ Cardinality(GrantedOf("free")') \in Nat
      /\ avail'["data"] = avail["data"] /\ GrantedOf("data")' = GrantedOf("data")
  <2>1. avail["free"] < NumMsgs /\ boxPc[t] \in {"enqueue", "postFree"} /\ "free" \in Sems /\ "data" \in Sems \ {"free"}
    BY <1>2, RoomForToken, SemNames
  <2> QED BY <2>1, <1>2, Posts
<1>4. BoxTypeOK' /\ WaitersOK' /\ BoxThreadsOK' /\ PlacesOK'
  <2>1. /\ "user" \in BoxPCs /\ (boxPc[t] \in HandPCs <=> "user" \in HandPCs)
        /\ "user" # "enqueue" /\ "user" \notin PostPCs
    BY <1>2 DEF BoxPCs, PostPCs, HandPCs
  <2>2. msg' \in [Threads -> Messages \cup {NoMessage}] /\ \A u \in Threads : u # t => msg'[u] = msg[u]
    BY <1>1, <1>2, Types
  <2> QED BY <2>1, <2>2, <1>2, <1>3, BoxQuietStep
<1>5. CountsOK'
  <2>1. boxPc[t] = "postFree" /\ boxPc[t] # "user" /\ boxPc' = [boxPc EXCEPT ![t] = "user"]
        /\ "user" \notin {"get", "dequeue", "postFree"} /\ boxPc[t] \notin {"get", "dequeue"}
    BY <1>2
  <2>2. /\ IsFiniteSet(On("get")') /\ IsFiniteSet(On("dequeue")') /\ IsFiniteSet(On("postFree")')
        /\ Cardinality(On("get")') = Cardinality(On("get"))
        /\ Cardinality(On("dequeue")') = Cardinality(On("dequeue"))
        /\ Cardinality(On("postFree")') = Cardinality(On("postFree")) - 1
    BY <2>1, OnEach, Zenon
  <2>3. BoxHeld' = BoxHeld
    BY <1>2 DEF BoxHeld
  <2>4. \A s \in Sems : IsFiniteSet(GrantedOf(s)') /\ IsFiniteSet(On(Onward(s))')
    BY <2>2, <1>3, SemNames DEF Onward
  <2> DEFINE n  == Len(freeQue)
             a1 == avail'["free"]
             a  == avail["free"]
             g1 == Cardinality(GrantedOf("free")')
             g  == Cardinality(GrantedOf("free"))
             c  == Cardinality(On("dequeue"))
             p1 == Cardinality(On("postFree")')
             p  == Cardinality(On("postFree"))
  <2>5. n = a + g + c + p /\ a1 + g1 = a + g + 1 /\ p1 = p - 1 /\ {a, g, c, p, a1, g1} \subseteq Nat
    BY <2>2, <1>3, Balance, Zenon
  <2> HIDE DEF n, a1, a, g1, g, c, p1, p
  <2>6. n = a1 + g1 + c + p1
    BY <2>5
  <2> QED BY <2>2, <2>3, <2>4, <2>6, <1>1, <1>2, <1>3 DEF CountsOK, n, a1, g1, c, p1
<1> QED BY <1>4, <1>5 DEF BoxIInv

LEMMA TimeOutPreserves ==
  ASSUME BoxIInv, NEW t \in Clients, TimeOut(t)
  PROVE  BoxIInv'
<1>1. BoxTypeOK /\ BoxThreadsOK /\ PlacesOK /\ CountsOK
  BY DEF BoxIInv
<1>2. /\ Sem!TimeOut(t) /\ UNCHANGED <<dataQue, freeQue, numFreeMsgs, content, boxPc, elem, msg>>
  BY DEF TimeOut, boxVars
<1>3. SemOK' /\ avail' = avail /\ \A r \in Sems : GrantedOf(r)' = GrantedOf(r)
  BY <1>2, TimesOut
<1>4. BoxTypeOK' /\ WaitersOK'
  BY <1>1, <1>2, <1>3 DEF BoxTypeOK, SemOK
<1>5. BoxThreadsOK' /\ PlacesOK'
  BY <1>1, <1>2 DEF BoxThreadsOK, PlacesOK
<1>6. CountsOK'
  <2>1. On("get")' = On("get") /\ On("dequeue")' = On("dequeue") /\ On("postFree")' = On("postFree") /\ BoxHeld' = BoxHeld
    BY <1>2 DEF On, BoxHeld
  <2> QED BY <2>1, <1>1, <1>2, <1>3, SemNames DEF CountsOK, Onward
<1> QED BY <1>4, <1>5, <1>6 DEF BoxIInv

LEMMA StutterPreserves ==
  ASSUME BoxIInv, UNCHANGED mailboxVars
  PROVE  BoxIInv'
<1>1. UNCHANGED <<avail, waiting, outcome, dataQue, freeQue, numFreeMsgs, content, boxPc, elem, msg>>
  BY DEF mailboxVars, tokenVars, boxVars
<1>2. BoxTypeOK' /\ WaitersOK'
  BY <1>1, SemTypes, SemTypesNext DEF BoxIInv, BoxTypeOK, WaitersOK
<1>3. BoxThreadsOK' /\ PlacesOK'
  BY <1>1 DEF BoxIInv, BoxThreadsOK, PlacesOK
<1>4. CountsOK'
  <2>1. On("get")' = On("get") /\ On("dequeue")' = On("dequeue") /\ On("postFree")' = On("postFree") /\ BoxHeld' = BoxHeld
        /\ \A s \in Sems : GrantedOf(s)' = GrantedOf(s)
    BY <1>1 DEF On, BoxHeld, GrantedOf
  <2> QED BY <2>1, <1>1, SemNames DEF BoxIInv, CountsOK, Onward
<1> QED BY <1>2, <1>3, <1>4 DEF BoxIInv

-----------------------------------------------------------------------------
(* The beginning, and every step.                                          *)

\* postInit puts every block on the free queue, once.
LEMMA AllBlocks ==
  LET q == SetToSeq(Blocks)
  IN  /\ q \in Seq(Blocks) /\ Len(q) = NumMsgs /\ IsInjective(q)
      /\ \A b \in Blocks : Contains(q, b)
<1> DEFINE n == NumMsgs
           q == SetToSeq(Blocks)
<1>1. IsFiniteSet(Blocks) /\ n \in Nat /\ ExistsBijection(1 .. n, Blocks)
  BY BlocksAssumption, FS_CardinalityType DEF NumMsgs
<1>2. \E f \in [1 .. n -> Blocks] : IsInjective(f)
  <2>1. PICK f \in Bijection(1 .. n, Blocks) : TRUE
    BY <1>1 DEF ExistsBijection
  <2>2. f \in [1 .. n -> Blocks] /\ \A i, j \in 1 .. n : f[i] = f[j] => i = j
    BY <2>1 DEF Bijection, Injection, IsInjective
  <2> QED BY <2>2 DEF IsInjective
<1>3. q \in [1 .. n -> Blocks] /\ IsInjective(q)
  BY <1>2 DEF SetToSeq, NumMsgs
<1> HIDE DEF q
<1>4. q \in Seq(Blocks) /\ Len(q) = n /\ DOMAIN q = 1 .. n
  BY <1>1, <1>3
<1>5. q \in Surjection(1 .. n, Blocks)
  <2>1. q \in Injection(1 .. n, Blocks)
    BY <1>3 DEF Injection, IsInjective
  <2>2. Cardinality(1 .. n) = Cardinality(Blocks)
    <3>1. Cardinality(1 .. n) = IF 1 > n THEN 0 ELSE n - 1 + 1
      BY <1>1, FS_Interval
    <3>2. Cardinality(1 .. n) = n
      BY <3>1, <1>1
    <3> QED BY <3>2 DEF NumMsgs
  <2> QED BY <2>1, <2>2, <1>1, FS_Injection
<1>6. \A b \in Blocks : Contains(q, b)
  BY <1>4, <1>5 DEF Surjection, Contains
<1> QED BY <1>3, <1>4, <1>6 DEF q

LEMMA BoxInitIInv == BoxInit => BoxIInv
<1> SUFFICES ASSUME BoxInit PROVE BoxIInv
  OBVIOUS
<1>1. /\ avail = [s \in Sems |-> IF s = "free" THEN NumMsgs ELSE 0]
      /\ waiting = [s \in Sems |-> <<>>] /\ outcome = [t \in Clients |-> "idle"]
      /\ dataQue = <<>> /\ freeQue = SetToSeq(Blocks) /\ numFreeMsgs = NumMsgs
      /\ content = [b \in Blocks \cup {Header} |-> NoMessage]
      /\ boxPc = [t \in Threads |-> "user"] /\ elem = [t \in Threads |-> NoBlock]
      /\ msg = [t \in Threads |-> NoMessage]
  <2>1. avail = [s \in {"data", "free"} |-> IF s = "free" THEN NumMsgs ELSE 0]
    BY Zenon DEF BoxInit, Sem!Init
  <2>2. waiting = [s \in {"data", "free"} |-> <<>>] /\ outcome = [t \in Clients |-> "idle"]
    BY DEF BoxInit, Sem!Init
  <2> QED BY <2>1, <2>2 DEF BoxInit, Sems
<1>2. NumMsgs \in Nat /\ freeQue \in Seq(Blocks) /\ Len(freeQue) = NumMsgs /\ IsInjective(freeQue)
      /\ \A b \in Blocks : Contains(freeQue, b)
  BY <1>1, AllBlocks, NumMsgsType
<1>3. BoxTypeOK
  <2>1. Sem!SpecTypeOK
    BY <1>1, <1>2, SemTypes DEF Sem!Outcomes
  <2> QED BY <2>1, <1>1, <1>2 DEF BoxTypeOK
<1>4. WaitersOK
  BY <1>1 DEF WaitersOK, IsInjective, Contains, Sem!Waits
<1>5. BoxThreadsOK
  BY <1>1 DEF BoxThreadsOK, HandPCs, PostPCs
<1>6. PlacesOK
  <2>1. IsInjective(dataQue) /\ \A b : ~Contains(dataQue, b)
    BY <1>1 DEF IsInjective, Contains
  <2> QED BY <2>1, <1>1, <1>2 DEF PlacesOK, Apart
<1>7. CountsOK
  <2>1. /\ \A s \in Sems : GrantedOf(s) = {} /\ On(Onward(s)) = {}
        /\ On("get") = {} /\ On("dequeue") = {} /\ On("postFree") = {} /\ BoxHeld = {}
        /\ GrantedOf("data") = {} /\ GrantedOf("free") = {}
    BY <1>1, SemNames DEF GrantedOf, On, Onward, BoxHeld
  <2>2. IsFiniteSet({}) /\ Cardinality({}) = 0
    BY FS_EmptySet
  <2>3. avail["data"] = 0 /\ avail["free"] = NumMsgs /\ Len(dataQue) = 0
    BY <1>1, SemNames
  <2>4. /\ \A s \in Sems : IsFiniteSet(GrantedOf(s)) /\ IsFiniteSet(On(Onward(s)))
        /\ IsFiniteSet(On("postFree")) /\ IsFiniteSet(BoxHeld)
    BY <2>1, <2>2
  <2>5. Cardinality(GrantedOf("data")) = 0 /\ Cardinality(GrantedOf("free")) = 0
        /\ Cardinality(On("get")) = 0 /\ Cardinality(On("dequeue")) = 0
        /\ Cardinality(On("postFree")) = 0 /\ Cardinality(BoxHeld) = 0
    BY <2>1, <2>2
  <2>6. Len(freeQue) = NumMsgs /\ numFreeMsgs = Len(freeQue) /\ NumMsgs \in Nat
    BY <1>1, <1>2
  <2> QED BY <2>3, <2>4, <2>5, <2>6 DEF CountsOK
<1> QED BY <1>3, <1>4, <1>5, <1>6, <1>7 DEF BoxIInv

LEMMA PendStep ==
  ASSUME BoxIInv, NEW t \in Threads, PendPend(t) \/ PostPend(t)
  PROVE  BoxIInv'
<1>1. CASE PendPend(t)
  <2>1. boxPc[t] = Caller("data") /\ PendsOn(t, "data") /\ UNCHANGED <<boxVars, content, elem>>
    BY <1>1 DEF PendPend, BoxAt, Caller, Onward, PendsOn
  <2> QED BY <2>1, SemNames, PendPreserves
<1>2. CASE PostPend(t)
  <2>1. boxPc[t] = Caller("free") /\ PendsOn(t, "free") /\ UNCHANGED <<boxVars, content, elem>>
    BY <1>2 DEF PostPend, BoxAt, Caller, Onward, PendsOn
  <2> QED BY <2>1, SemNames, PendPreserves
<1> QED BY <1>1, <1>2

LEMMA BoxNextIInv == BoxIInv /\ [BoxNext]_mailboxVars => BoxIInv'
<1> SUFFICES ASSUME BoxIInv, [BoxNext]_mailboxVars PROVE BoxIInv'
  OBVIOUS
<1>1. ASSUME NEW t \in Threads, BoxStep(t) PROVE BoxIInv'
  BY <1>1, CallPreserves, PendStep, DequeuePreserves, CopyInPreserves, EnqueuePreserves, GetPreserves,
     CopyOutPreserves, GiveBackPreserves, PostFreePreserves DEF BoxStep
<1>2. ASSUME NEW t \in Clients, TimeOut(t) PROVE BoxIInv'
  BY <1>2, TimeOutPreserves
<1> QED BY <1>1, <1>2, StutterPreserves DEF BoxNext

-----------------------------------------------------------------------------
(* The theorems.                                                           *)

\* IInv holds in every reachable state, for any tasks, blocks and messages.
THEOREM BoxInvariance == BoxSpec => []BoxIInv
BY BoxInitIInv, BoxNextIInv, PTL DEF BoxSpec

\* Mailbox.c never loses a block, and never has one in two hands: no message is
\* overwritten while it is copied.
THEOREM NoBlockLost == BoxSpec => []BlocksOK
<1>1. BoxIInv => BlocksOK
  <2> SUFFICES ASSUME BoxIInv, NEW b \in Blocks PROVE Cardinality(Places(b)) = 1
    BY DEF BlocksOK
  <2>1. BoxTypeOK /\ Apart(dataQue, freeQue, elem)
    BY DEF BoxIInv, PlacesOK
  <2>2. b # NoBlock
    BY BlocksAssumption
  <2>3. /\ DOMAIN dataQue = 1 .. Len(dataQue) /\ DOMAIN freeQue = 1 .. Len(freeQue)
        /\ \A i, j \in DOMAIN dataQue : dataQue[i] = dataQue[j] => i = j
        /\ \A i, j \in DOMAIN freeQue : freeQue[i] = freeQue[j] => i = j
        /\ \A i \in DOMAIN dataQue, j \in DOMAIN freeQue : ~(dataQue[i] = b /\ freeQue[j] = b)
        /\ \A i \in DOMAIN dataQue, t \in Threads : ~(dataQue[i] = b /\ elem[t] = b)
        /\ \A i \in DOMAIN freeQue, t \in Threads : ~(freeQue[i] = b /\ elem[t] = b)
        /\ \A t, u \in Threads : elem[t] = b /\ elem[u] = b => t = u
        /\ \/ \E i \in DOMAIN dataQue : dataQue[i] = b
           \/ \E i \in DOMAIN freeQue : freeQue[i] = b
           \/ \E t \in Threads : elem[t] = b
    <3>1. /\ DOMAIN dataQue = 1 .. Len(dataQue) /\ DOMAIN freeQue = 1 .. Len(freeQue)
          /\ Contains(dataQue, b) <=> \E i \in DOMAIN dataQue : dataQue[i] = b
          /\ Contains(freeQue, b) <=> \E i \in DOMAIN freeQue : freeQue[i] = b
      <4>1. DOMAIN dataQue = 1 .. Len(dataQue) /\ DOMAIN freeQue = 1 .. Len(freeQue)
        BY <2>1, Types
      <4> QED BY <4>1 DEF Contains
    <3>2. /\ ~(Contains(dataQue, b) /\ Contains(freeQue, b))
          /\ \A t \in Threads : elem[t] = b => ~Contains(dataQue, b) /\ ~Contains(freeQue, b)
          /\ \A t, u \in Threads : elem[t] = b /\ elem[u] = b => t = u
          /\ Contains(dataQue, b) \/ Contains(freeQue, b) \/ \E t \in Threads : elem[t] = b
      BY <2>1, <2>2 DEF Apart
    <3>3. /\ \A i, j \in DOMAIN dataQue : dataQue[i] = dataQue[j] => i = j
          /\ \A i, j \in DOMAIN freeQue : freeQue[i] = freeQue[j] => i = j
      BY <2>1 DEF Apart, IsInjective
    <3> QED BY <3>1, <3>2, <3>3, Zenon
  <2>4. \E p : Places(b) = {p}
    <3>1. CASE \E i \in DOMAIN dataQue : dataQue[i] = b
      <4>1. PICK i \in DOMAIN dataQue : dataQue[i] = b
        BY <3>1
      <4>2. Places(b) = {<<"data", i>>}
        BY <4>1, <2>3 DEF Places
      <4> QED BY <4>2
    <3>2. CASE \E i \in DOMAIN freeQue : freeQue[i] = b
      <4>1. PICK i \in DOMAIN freeQue : freeQue[i] = b
        BY <3>2
      <4>2. Places(b) = {<<"free", i>>}
        BY <4>1, <2>3 DEF Places
      <4> QED BY <4>2
    <3>3. CASE \E t \in Threads : elem[t] = b
      <4>1. PICK t \in Threads : elem[t] = b
        BY <3>3
      <4>2. Places(b) = {<<"thread", t>>}
        BY <4>1, <2>3 DEF Places
      <4> QED BY <4>2
    <3> QED BY <2>3, <3>1, <3>2, <3>3
  <2> QED BY <2>4, FS_Singleton
<1> QED BY <1>1, BoxInvariance, PTL

\* The tokens are the blocks on the queues, so a thread that has a token finds
\* a block, and numFreeMsgs is right.
THEOREM TokensAreBlocks == BoxSpec => []TokensOK
<1>1. BoxIInv => TokensOK
  <2> SUFFICES ASSUME BoxIInv PROVE TokensOK
    OBVIOUS
  <2>1. /\ Granted("pendPend", "get") = Cardinality(GrantedOf("data")) + Cardinality(On("get"))
        /\ Granted("postPend", "dequeue") = Cardinality(GrantedOf("free")) + Cardinality(On("dequeue"))
        /\ Cardinality({t \in Threads : boxPc[t] = "postFree"}) = Cardinality(On("postFree"))
    BY DEF Granted, GrantedOf, On, Caller
  <2> DEFINE dl == Len(dataQue)
             fl == Len(freeQue)
             da == avail["data"]
             fa == avail["free"]
             dg == Cardinality(GrantedOf("data"))
             fg == Cardinality(GrantedOf("free"))
             dc == Cardinality(On("get"))
             fc == Cardinality(On("dequeue"))
             p  == Cardinality(On("postFree"))
  <2>2. dl = da + dg + dc /\ fl = fa + fg + fc + p /\ {da, fa, dg, fg, dc, fc, p} \subseteq Nat
    BY Balance, Zenon
  <2> HIDE DEF dl, fl, da, fa, dg, fg, dc, fc, p
  <2>3. dl = da + (dg + dc) /\ fl = fa + (fg + fc) + p
    BY <2>2
  <2>4. BoxTypeOK /\ numFreeMsgs = Len(freeQue)
    BY DEF BoxIInv, CountsOK
  <2> QED BY <2>1, <2>3, <2>4, Zenon DEF TokensOK, dl, fl, da, fa, dg, fg, dc, fc, p
<1> QED BY <1>1, BoxInvariance, PTL

\* Readers and writers never wait for each other.
THEOREM NoStandoffEver == BoxSpec => []NoStandoff
<1>1. BoxIInv => NoStandoff
  <2> SUFFICES ASSUME BoxIInv, Settled, waiting["data"] # <<>>, waiting["free"] # <<>> PROVE FALSE
    BY DEF NoStandoff
  <2>1. BoxTypeOK /\ WaitersOK /\ BoxThreadsOK
    BY DEF BoxIInv
  <2>2. avail["data"] = 0 /\ avail["free"] = 0
    BY <2>1, SemNames DEF WaitersOK
  <2>3. \A t \in Threads : boxPc[t] = "user" \/ (t \in Clients /\ outcome[t] \in Sem!Waits /\ boxPc[t] \in {"pendPend", "postPend"})
    <3> SUFFICES ASSUME NEW t \in Threads, boxPc[t] # "user"
                 PROVE  t \in Clients /\ outcome[t] \in Sem!Waits /\ boxPc[t] \in {"pendPend", "postPend"}
      OBVIOUS
    <3>1. t \in Clients /\ outcome[t] \in Sem!Waits
      BY DEF Settled, Threads
    <3>2. outcome[t] # "idle"
      BY <3>1 DEF Sem!Waits
    <3> QED BY <3>1, <3>2, <2>1 DEF WaitersOK, Caller
  <2>4. GrantedOf("data") = {} /\ GrantedOf("free") = {}
    <3> SUFFICES ASSUME NEW t \in Clients, boxPc[t] # "user", outcome[t] = "granted" PROVE FALSE
      BY DEF GrantedOf, Caller
    <3>1. "granted" \notin Sem!Waits
      BY DEF Sem!Waits
    <3> QED BY <3>1, <2>1, <2>3, Types
  <2>5. On("get") = {} /\ On("dequeue") = {} /\ On("postFree") = {}
    BY <2>3 DEF On
  <2>6. BoxHeld = {}
    BY <2>1, <2>3 DEF BoxHeld, BoxThreadsOK, HandPCs
  <2>7. Cardinality({}) = 0
    BY FS_EmptySet
  <2>8. Len(dataQue) = 0 + 0 + 0 /\ Len(freeQue) = 0 + 0 + 0 + 0
    BY <2>2, <2>4, <2>5, <2>7, Balance, Zenon
  <2>9. Len(dataQue) + Len(freeQue) + 0 = NumMsgs
    BY <2>6, <2>7, Balance, Zenon
  <2> QED BY <2>8, <2>9, NumMsgsType
<1> QED BY <1>1, BoxInvariance, PTL

-----------------------------------------------------------------------------
(* The bounded buffer.                                                     *)

SendingBy(t) == IF boxPc[t] \in PostPCs THEN msg[t] ELSE NoMessage

ReceivedBy(t) == CASE boxPc[t] = "copyOut" -> content[elem[t]]
                   [] boxPc[t] \in {"giveBack", "postFree"} -> msg[t]
                   [] OTHER -> NoMessage

buffer   == [i \in DOMAIN dataQue |-> content[dataQue[i]]]
sending  == [t \in Threads |-> SendingBy(t)]
received == [t \in Threads |-> ReceivedBy(t)]

\* The steps of MailboxSpec, in these words.
LEMMA PromisedSteps ==
  ASSUME NEW t \in Threads
  PROVE  /\ \A m \in Messages :
              /\ sending[t] = NoMessage /\ sending' = [sending EXCEPT ![t] = m]
              /\ UNCHANGED <<buffer, received>>
              => Buffer!Next
         /\ /\ sending[t] # NoMessage /\ Len(buffer) < NumMsgs /\ buffer' = Append(buffer, sending[t])
            /\ sending' = [sending EXCEPT ![t] = NoMessage] /\ UNCHANGED received
            => Buffer!Next
         /\ sending' = [sending EXCEPT ![t] = NoMessage] /\ UNCHANGED <<buffer, received>> => Buffer!Next
         /\ /\ received[t] = NoMessage /\ buffer # <<>> /\ buffer' = Tail(buffer)
            /\ received' = [received EXCEPT ![t] = Head(buffer)] /\ UNCHANGED sending
            => Buffer!Next
         /\ received' = [received EXCEPT ![t] = NoMessage] /\ UNCHANGED <<buffer, sending>> => Buffer!Next
<1> USE DEF buffer, sending, received, SendingBy, ReceivedBy
<1>1. ASSUME NEW m \in Messages, sending[t] = NoMessage, sending' = [sending EXCEPT ![t] = m],
             UNCHANGED <<buffer, received>>
      PROVE  Buffer!Next
  BY <1>1, Zenon DEF Buffer!Begin, Buffer!Next
<1>2. ASSUME sending[t] # NoMessage, Len(buffer) < NumMsgs, buffer' = Append(buffer, sending[t]),
             sending' = [sending EXCEPT ![t] = NoMessage], UNCHANGED received
      PROVE  Buffer!Next
  BY <1>2, Zenon DEF Buffer!Send, Buffer!Next
<1>3. ASSUME sending' = [sending EXCEPT ![t] = NoMessage], UNCHANGED <<buffer, received>>
      PROVE  Buffer!Next
  BY <1>3, Zenon DEF Buffer!GiveUp, Buffer!Next
<1>4. ASSUME received[t] = NoMessage, buffer # <<>>, buffer' = Tail(buffer),
             received' = [received EXCEPT ![t] = Head(buffer)], UNCHANGED sending
      PROVE  Buffer!Next
  BY <1>4, Zenon DEF Buffer!Receive, Buffer!Next
<1>5. ASSUME received' = [received EXCEPT ![t] = NoMessage], UNCHANGED <<buffer, sending>>
      PROVE  Buffer!Next
  BY <1>5, Zenon DEF Buffer!Deliver, Buffer!Next
<1> QED BY <1>1, <1>2, <1>3, <1>4, <1>5, Zenon

LEMMA BufferStutter ==
  ASSUME UNCHANGED <<buffer, sending, received>>
  PROVE  UNCHANGED Buffer!specVars
<1> USE DEF buffer, sending, received, SendingBy, ReceivedBy
<1> QED BY Zenon DEF Buffer!specVars

\* The buffer keeps its messages when the data queue keeps its blocks.
LEMMA BufferKept ==
  ASSUME BoxTypeOK, dataQue' = dataQue,
         \A b \in Blocks : Contains(dataQue, b) => content'[b] = content[b]
  PROVE  buffer' = buffer
<1>1. \A i \in DOMAIN dataQue : dataQue[i] \in Blocks /\ Contains(dataQue, dataQue[i])
  <2>1. dataQue \in Seq(Blocks)
    BY Types
  <2>2. ASSUME NEW q \in Seq(Blocks), NEW i \in DOMAIN q PROVE i \in 1 .. Len(q) /\ q[i] \in Blocks
    BY <2>2
  <2> QED BY <2>1, <2>2 DEF Contains
<1> QED BY <1>1 DEF buffer

\* What the threads send and receive, after a step of t.
LEMMA OthersKeep ==
  ASSUME BoxTypeOK, BoxThreadsOK, PlacesOK, NEW t \in Threads,
         \A u \in Threads : u # t => boxPc'[u] = boxPc[u] /\ elem'[u] = elem[u] /\ msg'[u] = msg[u],
         \A b \in Blocks : content'[b] = content[b] \/ b = elem[t]
  PROVE  /\ \A u \in Threads : u # t => SendingBy(u)' = SendingBy(u) /\ ReceivedBy(u)' = ReceivedBy(u)
         /\ sending' = [sending EXCEPT ![t] = SendingBy(t)']
         /\ received' = [received EXCEPT ![t] = ReceivedBy(t)']
<1>1. ASSUME NEW u \in Threads, u # t
      PROVE  SendingBy(u)' = SendingBy(u) /\ ReceivedBy(u)' = ReceivedBy(u)
  <2>1. SendingBy(u)' = SendingBy(u)
    BY <1>1 DEF SendingBy
  <2>2. boxPc[u] = "copyOut" => content'[elem'[u]] = content[elem[u]]
    <3> SUFFICES ASSUME boxPc[u] = "copyOut" PROVE content'[elem'[u]] = content[elem[u]]
      OBVIOUS
    <3>1. elem[u] \in Blocks /\ elem[u] # NoBlock
      BY Types DEF BoxThreadsOK, HandPCs
    <3>2. elem[u] # elem[t]
      BY <1>1, <3>1 DEF PlacesOK, Apart
    <3> QED BY <1>1, <3>1, <3>2
  <2> QED BY <2>1, <2>2, <1>1 DEF ReceivedBy
<1>2. sending' = [u \in Threads |-> SendingBy(u)'] /\ received' = [u \in Threads |-> ReceivedBy(u)']
  BY DEF sending, received
<1> QED BY <1>1, <1>2 DEF sending, received

LEMMA BothKept ==
  ASSUME NEW t \in Threads,
         sending' = [sending EXCEPT ![t] = SendingBy(t)'], received' = [received EXCEPT ![t] = ReceivedBy(t)']
  PROVE  /\ SendingBy(t)' = SendingBy(t) => sending' = sending
         /\ ReceivedBy(t)' = ReceivedBy(t) => received' = received
         /\ sending[t] = SendingBy(t) /\ received[t] = ReceivedBy(t)
BY DEF sending, received

LEMMA BufferType ==
  ASSUME BoxTypeOK
  PROVE  /\ buffer \in Seq(Messages \cup {NoMessage}) /\ Len(buffer) = Len(dataQue)
         /\ DOMAIN buffer = 1 .. Len(dataQue)
         /\ \A i \in 1 .. Len(dataQue) : buffer[i] = content[dataQue[i]]
<1>1. /\ DOMAIN dataQue = 1 .. Len(dataQue) /\ Len(dataQue) \in Nat
      /\ \A i \in 1 .. Len(dataQue) : dataQue[i] \in Blocks
  BY Types
<1>2. \A i \in 1 .. Len(dataQue) : content[dataQue[i]] \in Messages \cup {NoMessage}
  BY <1>1, Types
<1>3. buffer = [i \in 1 .. Len(dataQue) |-> content[dataQue[i]]]
  BY <1>1 DEF buffer
<1>4. buffer \in [1 .. Len(dataQue) -> Messages \cup {NoMessage}]
  BY <1>2, <1>3
<1> QED BY <1>1, <1>3, <1>4

BoxImplemented == Buffer!Next \/ UNCHANGED Buffer!specVars

\* A step of t that moves no message: nothing, or the end of a post or a pend.
LEMMA NothingMoves ==
  ASSUME BoxTypeOK, BoxThreadsOK, PlacesOK, NEW t \in Threads,
         \A u \in Threads : u # t => boxPc'[u] = boxPc[u] /\ elem'[u] = elem[u] /\ msg'[u] = msg[u],
         \A b \in Blocks : content'[b] = content[b] \/ (b = elem[t] /\ b # NoBlock),
         dataQue' = dataQue
  PROVE  /\ SendingBy(t)' = SendingBy(t) /\ ReceivedBy(t)' = ReceivedBy(t) => BoxImplemented
         /\ SendingBy(t)' = NoMessage /\ ReceivedBy(t)' = ReceivedBy(t) => BoxImplemented
         /\ SendingBy(t)' = SendingBy(t) /\ ReceivedBy(t)' = NoMessage => BoxImplemented
<1>1. sending' = [sending EXCEPT ![t] = SendingBy(t)'] /\ received' = [received EXCEPT ![t] = ReceivedBy(t)']
  BY OthersKeep
<1>2. buffer' = buffer
  <2>1. \A b \in Blocks : Contains(dataQue, b) => content'[b] = content[b]
    BY DEF PlacesOK, Apart
  <2> QED BY <2>1, BufferKept
<1>3. /\ SendingBy(t)' = SendingBy(t) => sending' = sending
      /\ ReceivedBy(t)' = ReceivedBy(t) => received' = received
  BY <1>1, BothKept
<1> QED BY <1>1, <1>2, <1>3, PromisedSteps, BufferStutter DEF BoxImplemented

LEMMA CallImplements ==
  ASSUME BoxIInv, NEW t \in Threads, PendCall(t) \/ \E m \in Messages : BoxPostCall(t, m)
  PROVE  BoxImplemented
<1>1. BoxTypeOK /\ BoxThreadsOK /\ PlacesOK
  BY DEF BoxIInv
<1>2. /\ boxPc[t] = "user" /\ UNCHANGED <<dataQue, content, elem>>
      /\ \/ boxPc' = [boxPc EXCEPT ![t] = "pendPend"] /\ msg' = msg
         \/ boxPc' = [boxPc EXCEPT ![t] = "postPend"] /\ \E m \in Messages : msg' = [msg EXCEPT ![t] = m]
  BY DEF PendCall, BoxPostCall, BoxAt, BoxGoto, boxVars
<1>3. \A u \in Threads : u # t => boxPc'[u] = boxPc[u] /\ elem'[u] = elem[u] /\ msg'[u] = msg[u]
  BY <1>1, <1>2, Types, PcTypes
<1>4. SendingBy(t) = NoMessage /\ ReceivedBy(t) = NoMessage
  BY <1>2 DEF SendingBy, ReceivedBy, PostPCs
<1>5. CASE boxPc' = [boxPc EXCEPT ![t] = "pendPend"]
  <2>1. boxPc'[t] = "pendPend"
    BY <1>1, <1>5, PcTypes
  <2>2. SendingBy(t)' = NoMessage /\ ReceivedBy(t)' = NoMessage
    BY <2>1 DEF SendingBy, ReceivedBy, PostPCs
  <2> QED BY <2>2, <1>1, <1>2, <1>3, <1>4, NothingMoves
<1>6. ASSUME NEW m \in Messages, boxPc' = [boxPc EXCEPT ![t] = "postPend"], msg' = [msg EXCEPT ![t] = m]
      PROVE  BoxImplemented
  <2>1. boxPc'[t] = "postPend" /\ msg'[t] = m
    BY <1>1, <1>6, PcTypes, Types
  <2>2. SendingBy(t)' = m /\ ReceivedBy(t)' = NoMessage
    BY <2>1 DEF SendingBy, ReceivedBy, PostPCs
  <2>3. sending' = [sending EXCEPT ![t] = m] /\ received' = [received EXCEPT ![t] = ReceivedBy(t)']
    BY <2>2, <1>1, <1>2, <1>3, OthersKeep
  <2>4. received' = received /\ sending[t] = NoMessage
    BY <2>2, <2>3, <1>4, BothKept DEF sending
  <2>5. buffer' = buffer
    BY <1>1, <1>2, BufferKept
  <2> QED BY <2>3, <2>4, <2>5, PromisedSteps DEF BoxImplemented
<1> QED BY <1>2, <1>5, <1>6

LEMMA PendImplements ==
  ASSUME BoxIInv, NEW t \in Threads, NEW s \in Sems, boxPc[t] = Caller(s), PendsOn(t, s),
         s = "data" => msg' = msg, UNCHANGED <<dataQue, content, elem>>
  PROVE  BoxImplemented
<1>1. BoxTypeOK /\ BoxThreadsOK /\ PlacesOK
  BY DEF BoxIInv
<1>2. \/ boxPc' = [boxPc EXCEPT ![t] = Onward(s)] /\ msg' = msg
      \/ boxPc' = boxPc /\ msg' = msg
      \/ boxPc' = [boxPc EXCEPT ![t] = "user"] /\ (msg' = msg \/ msg' = [msg EXCEPT ![t] = NoMessage])
  BY DEF PendsOn, BoxGoto
<1>3. \A u \in Threads : u # t => boxPc'[u] = boxPc[u] /\ elem'[u] = elem[u] /\ msg'[u] = msg[u]
  BY <1>1, <1>2, Types, PcTypes
<1>4. \/ boxPc'[t] \in {Onward(s), boxPc[t]} /\ msg'[t] = msg[t]
      \/ boxPc'[t] = "user"
  BY <1>1, <1>2, PcTypes
<1>5. ReceivedBy(t) = NoMessage /\ ReceivedBy(t)' = NoMessage
  BY <1>4, SemNames DEF ReceivedBy, Caller, Onward
<1>6. SendingBy(t)' = SendingBy(t) \/ SendingBy(t)' = NoMessage
  BY <1>4, SemNames DEF SendingBy, Caller, Onward, PostPCs
<1> QED BY <1>1, <1>3, <1>5, <1>6, NothingMoves

LEMMA DequeueImplements ==
  ASSUME BoxIInv, NEW t \in Threads, PostDequeue(t)
  PROVE  BoxImplemented
<1>1. BoxTypeOK /\ BoxThreadsOK /\ PlacesOK
  BY DEF BoxIInv
<1>2. /\ boxPc[t] = "dequeue" /\ boxPc' = [boxPc EXCEPT ![t] = "copyIn"]
      /\ elem' = [elem EXCEPT ![t] = Head(freeQue)] /\ UNCHANGED <<dataQue, msg, content>>
  BY BlockIsThere DEF PostDequeue, BoxAt, BoxGoto
<1>3. boxPc'[t] = "copyIn" /\ \A u \in Threads : u # t => boxPc'[u] = boxPc[u] /\ elem'[u] = elem[u] /\ msg'[u] = msg[u]
  BY <1>1, <1>2, Types, PcTypes
<1>4. SendingBy(t)' = SendingBy(t) /\ ReceivedBy(t)' = ReceivedBy(t)
  BY <1>2, <1>3 DEF SendingBy, ReceivedBy, PostPCs
<1> QED BY <1>1, <1>2, <1>3, <1>4, NothingMoves

LEMMA CopyInImplements ==
  ASSUME BoxIInv, NEW t \in Threads, PostCopy(t)
  PROVE  BoxImplemented
<1>1. BoxTypeOK /\ BoxThreadsOK /\ PlacesOK
  BY DEF BoxIInv
<1>2. /\ boxPc[t] = "copyIn" /\ boxPc' = [boxPc EXCEPT ![t] = "enqueue"]
      /\ content' = [content EXCEPT ![elem[t]] = msg[t]] /\ UNCHANGED <<dataQue, msg, elem>>
  BY DEF PostCopy, BoxAt, BoxGoto, boxVars
<1>3. boxPc'[t] = "enqueue" /\ \A u \in Threads : u # t => boxPc'[u] = boxPc[u] /\ elem'[u] = elem[u] /\ msg'[u] = msg[u]
  BY <1>1, <1>2, Types, PcTypes
<1>4. \A b \in Blocks : content'[b] = content[b] \/ (b = elem[t] /\ b # NoBlock)
  BY <1>1, <1>2, Types, BlocksAssumption
<1>5. SendingBy(t)' = SendingBy(t) /\ ReceivedBy(t)' = ReceivedBy(t)
  BY <1>2, <1>3 DEF SendingBy, ReceivedBy, PostPCs
<1> QED BY <1>1, <1>2, <1>3, <1>4, <1>5, NothingMoves

\* The post takes effect.
LEMMA EnqueueImplements ==
  ASSUME BoxIInv, NEW t \in Threads, PostEnqueue(t)
  PROVE  BoxImplemented
<1>1. BoxTypeOK /\ BoxThreadsOK /\ PlacesOK
  BY DEF BoxIInv
<1>2. /\ boxPc[t] = "enqueue" /\ boxPc' = [boxPc EXCEPT ![t] = "user"]
      /\ dataQue' = Append(dataQue, elem[t]) /\ elem' = [elem EXCEPT ![t] = NoBlock]
      /\ msg' = [msg EXCEPT ![t] = NoMessage] /\ content' = content
  BY DEF PostEnqueue, BoxAt, BoxGoto
<1>3. elem[t] \in Blocks /\ elem[t] # NoBlock /\ content[elem[t]] = msg[t] /\ msg[t] \in Messages
  BY <1>1, <1>2, Types DEF BoxThreadsOK, HandPCs, PostPCs
<1>4. boxPc'[t] = "user" /\ \A u \in Threads : u # t => boxPc'[u] = boxPc[u] /\ elem'[u] = elem[u] /\ msg'[u] = msg[u]
  BY <1>1, <1>2, Types, PcTypes
<1>5. SendingBy(t) = msg[t] /\ SendingBy(t)' = NoMessage /\ ReceivedBy(t) = NoMessage /\ ReceivedBy(t)' = NoMessage
  BY <1>2, <1>4 DEF SendingBy, ReceivedBy, PostPCs
<1>6. sending' = [sending EXCEPT ![t] = SendingBy(t)'] /\ received' = [received EXCEPT ![t] = ReceivedBy(t)']
  BY <1>1, <1>2, <1>4, OthersKeep
<1>7. sending' = [sending EXCEPT ![t] = NoMessage] /\ received' = received /\ sending[t] = msg[t]
  BY <1>5, <1>6, BothKept
<1>8. Len(buffer) < NumMsgs /\ sending[t] # NoMessage
  BY <1>1, <1>3, <1>7, BufferType, RoomForToken, MessagesAssumption
<1>9. buffer' = Append(buffer, sending[t])
  <2> DEFINE n == Len(dataQue)
  <2>1. /\ n \in Nat /\ DOMAIN dataQue' = 1 .. n + 1 /\ dataQue'[n + 1] = elem[t]
        /\ \A i \in 1 .. n : dataQue'[i] = dataQue[i]
    BY <1>1, <1>2, <1>3, Types
  <2>2. buffer' = [i \in 1 .. n + 1 |-> content[dataQue'[i]]]
    BY <2>1, <1>2 DEF buffer
  <2>3. /\ buffer \in Seq(Messages \cup {NoMessage}) /\ Len(buffer) = n
        /\ \A i \in 1 .. n : buffer[i] = content[dataQue[i]]
    BY <1>1, BufferType
  <2> DEFINE z == Append(buffer, msg[t])
  <2>4. /\ z = [i \in 1 .. n + 1 |-> z[i]] /\ z[n + 1] = msg[t]
        /\ \A i \in 1 .. n : z[i] = buffer[i]
    BY <2>1, <2>3, <1>3
  <2> HIDE DEF z, n
  <2>5. \A i \in 1 .. n + 1 : z[i] = content[dataQue'[i]]
    <3>1. \A i \in 1 .. n + 1 : i \in 1 .. n \/ i = n + 1
      BY <2>1
    <3> QED BY <3>1, <2>1, <2>3, <2>4, <1>3
  <2>6. buffer' = z
    BY <2>2, <2>4, <2>5
  <2> QED BY <2>6, <1>7 DEF z
<1> QED BY <1>7, <1>8, <1>9, PromisedSteps DEF BoxImplemented

\* What is left of a sequence without its head, place by place.
LEMMA TailPlaces ==
  ASSUME NEW T, NEW q \in Seq(T), q # <<>>
  PROVE  /\ Tail(q) = [i \in 1 .. Len(q) - 1 |-> Tail(q)[i]]
         /\ \A i \in 1 .. Len(q) - 1 : Tail(q)[i] = q[i + 1]
<1>1. /\ Tail(q) \in Seq(T) /\ Len(Tail(q)) = Len(q) - 1
      /\ \A i \in 1 .. Len(q) - 1 : Tail(q)[i] = q[i + 1]
  OBVIOUS
<1>2. \A s \in Seq(T) : s = [i \in 1 .. Len(s) |-> s[i]]
  OBVIOUS
<1> QED BY <1>1, <1>2

\* The pend takes effect.
LEMMA GetImplements ==
  ASSUME BoxIInv, NEW t \in Threads, PendGet(t)
  PROVE  BoxImplemented
<1>1. BoxTypeOK /\ BoxThreadsOK /\ PlacesOK
  BY DEF BoxIInv
<1>2. /\ boxPc[t] = "get" /\ boxPc' = [boxPc EXCEPT ![t] = "copyOut"] /\ dataQue # <<>>
      /\ elem' = [elem EXCEPT ![t] = Head(dataQue)] /\ dataQue' = Tail(dataQue)
      /\ msg' = msg /\ content' = content
  BY BlockIsThere DEF PendGet, BoxAt, BoxGoto
<1>3. boxPc'[t] = "copyOut" /\ elem'[t] = Head(dataQue)
      /\ \A u \in Threads : u # t => boxPc'[u] = boxPc[u] /\ elem'[u] = elem[u] /\ msg'[u] = msg[u]
  BY <1>1, <1>2, Types, PcTypes
<1> DEFINE n == Len(dataQue)
           x == content[Head(dataQue)]
<1>4. n \in Nat /\ n # 0 /\ Head(dataQue) = dataQue[1] /\ DOMAIN dataQue' = 1 .. n - 1
      /\ \A i \in 1 .. n - 1 : dataQue'[i] = dataQue[i + 1]
  BY <1>1, <1>2, Types
<1>5. /\ SendingBy(t) = NoMessage /\ SendingBy(t)' = NoMessage
      /\ ReceivedBy(t) = NoMessage /\ ReceivedBy(t)' = x
  BY <1>2, <1>3 DEF SendingBy, ReceivedBy, PostPCs
<1>6. sending' = [sending EXCEPT ![t] = SendingBy(t)'] /\ received' = [received EXCEPT ![t] = ReceivedBy(t)']
  BY <1>1, <1>2, <1>3, OthersKeep
<1>7. sending' = sending /\ received' = [received EXCEPT ![t] = x] /\ received[t] = NoMessage
  BY <1>5, <1>6, BothKept
<1>8. /\ buffer \in Seq(Messages \cup {NoMessage}) /\ Len(buffer) = n
      /\ \A i \in 1 .. n : buffer[i] = content[dataQue[i]]
  BY <1>1, BufferType
<1>9. buffer # <<>> /\ Head(buffer) = x
  <2>1. 1 \in 1 .. n
    BY <1>4
  <2> QED BY <2>1, <1>4, <1>8
<1>10. buffer' = Tail(buffer)
  <2>1. buffer' = [i \in 1 .. n - 1 |-> content[dataQue'[i]]]
    BY <1>2, <1>4 DEF buffer
  <2> DEFINE z == Tail(buffer)
  <2>2. z = [i \in 1 .. n - 1 |-> z[i]] /\ \A i \in 1 .. n - 1 : z[i] = buffer[i + 1]
    BY <1>8, <1>9, TailPlaces
  <2> HIDE DEF z, n
  <2>3. \A i \in 1 .. n - 1 : z[i] = content[dataQue'[i]]
    <3>1. \A i \in 1 .. n - 1 : i + 1 \in 1 .. n
      BY <1>4
    <3> QED BY <3>1, <2>2, <1>4, <1>8
  <2>4. buffer' = z
    BY <2>1, <2>2, <2>3
  <2> QED BY <2>4 DEF z
<1> QED BY <1>7, <1>9, <1>10, PromisedSteps DEF BoxImplemented

LEMMA PendRestImplements ==
  ASSUME BoxIInv, NEW t \in Threads, PendCopy(t) \/ PendGiveBack(t) \/ PendPostFree(t)
  PROVE  BoxImplemented
<1>1. BoxTypeOK /\ BoxThreadsOK /\ PlacesOK
  BY DEF BoxIInv
<1>2. CASE PendCopy(t)
  <2>1. /\ boxPc[t] = "copyOut" /\ boxPc' = [boxPc EXCEPT ![t] = "giveBack"]
        /\ msg' = [msg EXCEPT ![t] = content[elem[t]]] /\ UNCHANGED <<dataQue, content, elem>>
    BY <1>2 DEF PendCopy, BoxAt, BoxGoto, boxVars
  <2>2. boxPc'[t] = "giveBack" /\ msg'[t] = content[elem[t]]
        /\ \A u \in Threads : u # t => boxPc'[u] = boxPc[u] /\ elem'[u] = elem[u] /\ msg'[u] = msg[u]
    BY <1>1, <2>1, Types, PcTypes
  <2>3. SendingBy(t)' = SendingBy(t) /\ ReceivedBy(t)' = ReceivedBy(t)
    BY <2>1, <2>2 DEF SendingBy, ReceivedBy, PostPCs
  <2> QED BY <2>1, <2>2, <2>3, <1>1, NothingMoves
<1>3. CASE PendGiveBack(t)
  <2>1. /\ boxPc[t] = "giveBack" /\ boxPc' = [boxPc EXCEPT ![t] = "postFree"]
        /\ elem' = [elem EXCEPT ![t] = NoBlock] /\ UNCHANGED <<dataQue, content, msg>>
    BY <1>3 DEF PendGiveBack, BoxAt, BoxGoto
  <2>2. boxPc'[t] = "postFree" /\ \A u \in Threads : u # t => boxPc'[u] = boxPc[u] /\ elem'[u] = elem[u] /\ msg'[u] = msg[u]
    BY <1>1, <2>1, Types, PcTypes
  <2>3. SendingBy(t)' = SendingBy(t) /\ ReceivedBy(t)' = ReceivedBy(t)
    BY <2>1, <2>2 DEF SendingBy, ReceivedBy, PostPCs
  <2> QED BY <2>1, <2>2, <2>3, <1>1, NothingMoves
<1>4. CASE PendPostFree(t)
  <2>1. /\ boxPc[t] = "postFree" /\ boxPc' = [boxPc EXCEPT ![t] = "user"]
        /\ msg' = [msg EXCEPT ![t] = NoMessage] /\ UNCHANGED <<dataQue, content, elem>>
    BY <1>4 DEF PendPostFree, BoxAt, BoxGoto, boxVars
  <2>2. boxPc'[t] = "user" /\ \A u \in Threads : u # t => boxPc'[u] = boxPc[u] /\ elem'[u] = elem[u] /\ msg'[u] = msg[u]
    BY <1>1, <2>1, Types, PcTypes
  <2>3. SendingBy(t)' = SendingBy(t) /\ ReceivedBy(t)' = NoMessage
    BY <2>1, <2>2 DEF SendingBy, ReceivedBy, PostPCs
  <2> QED BY <2>1, <2>2, <2>3, <1>1, NothingMoves
<1> QED BY <1>2, <1>3, <1>4

LEMMA SameImplements ==
  ASSUME BoxIInv, UNCHANGED <<dataQue, content, boxPc, elem, msg>>
  PROVE  BoxImplemented
<1>1. buffer' = buffer
  BY BufferKept DEF BoxIInv
<1>2. sending' = sending /\ received' = received
  BY DEF sending, received, SendingBy, ReceivedBy
<1> QED BY <1>1, <1>2, BufferStutter DEF BoxImplemented

\* A step of Mailbox.c is one step of the bounded buffer, or none.
LEMMA BoxNextImplements == BoxIInv /\ [BoxNext]_mailboxVars => [Buffer!Next]_(Buffer!specVars)
<1> SUFFICES ASSUME BoxIInv, [BoxNext]_mailboxVars PROVE BoxImplemented
  BY DEF BoxImplemented
<1>1. ASSUME NEW t \in Threads, BoxStep(t) PROVE BoxImplemented
  <2>1. CASE PendPend(t)
    <3>1. boxPc[t] = Caller("data") /\ PendsOn(t, "data") /\ msg' = msg /\ UNCHANGED <<dataQue, content, elem>>
      BY <2>1 DEF PendPend, BoxAt, Caller, Onward, PendsOn, boxVars
    <3> QED BY <3>1, SemNames, PendImplements
  <2>2. CASE PostPend(t)
    <3>1. boxPc[t] = Caller("free") /\ PendsOn(t, "free") /\ UNCHANGED <<dataQue, content, elem>>
      BY <2>2 DEF PostPend, BoxAt, Caller, Onward, PendsOn, boxVars
    <3> QED BY <3>1, SemNames, PendImplements
  <2> QED BY <2>1, <2>2, <1>1, CallImplements, DequeueImplements, CopyInImplements, EnqueueImplements,
             GetImplements, PendRestImplements DEF BoxStep
<1>2. ASSUME NEW t \in Clients, TimeOut(t) PROVE BoxImplemented
  <2>1. UNCHANGED <<dataQue, content, boxPc, elem, msg>>
    BY <1>2 DEF TimeOut, boxVars
  <2> QED BY <2>1, SameImplements
<1>3. ASSUME UNCHANGED mailboxVars PROVE BoxImplemented
  <2>1. UNCHANGED <<dataQue, content, boxPc, elem, msg>>
    BY <1>3 DEF mailboxVars, boxVars
  <2> QED BY <2>1, SameImplements
<1> QED BY <1>1, <1>2, <1>3 DEF BoxNext

LEMMA BoxInitImplements == BoxInit => Buffer!Init
<1> SUFFICES ASSUME BoxInit PROVE Buffer!Init
  OBVIOUS
<1>1. /\ dataQue = <<>> /\ boxPc = [t \in Threads |-> "user"] /\ msg = [t \in Threads |-> NoMessage]
  BY DEF BoxInit
<1>2. buffer = <<>>
  <2>1. DOMAIN dataQue = 1 .. 0 /\ 1 .. 0 = {}
    BY <1>1
  <2>2. buffer = [i \in 1 .. 0 |-> content[dataQue[i]]]
    BY <2>1 DEF buffer
  <2>3. buffer \in Seq(Messages) /\ Len(buffer) = 0
    BY <2>1, <2>2
  <2> QED BY <2>3
<1>3. \A t \in Threads : SendingBy(t) = NoMessage /\ ReceivedBy(t) = NoMessage
  BY <1>1 DEF SendingBy, ReceivedBy, PostPCs
<1>4. sending = [t \in Threads |-> NoMessage] /\ received = [t \in Threads |-> NoMessage]
  BY <1>3 DEF sending, received
<1> QED BY <1>2, <1>4, Zenon DEF Buffer!Init, buffer, sending, received, SendingBy, ReceivedBy

\* Mailbox.c is a bounded FIFO buffer: a message that is posted arrives
\* unchanged, once, in the order of the posts.
THEOREM BoxImplements == BoxSpec => KeepsBuffer
BY BoxInitImplements, BoxNextImplements, BoxInvariance, PTL DEF BoxSpec, KeepsBuffer, Buffer!Spec

=============================================================================
