-------------------------------- MODULE Queue --------------------------------
(***************************************************************************)
(* ti.sysbios.knl.Queue: circular doubly linked lists.  A node is an       *)
(* element or the head of a queue; a link record l has its next and prev   *)
(* pointers.  An element that was taken off a queue keeps its pointers.    *)
(*                                                                         *)
(* The operators stand for the code between Hwi_disable and Hwi_restore,   *)
(* and return the pointers as the code leaves them.  IsQueue says which    *)
(* sequence a list holds, and with it which lists the other modules of this *)
(* project may treat as sequences.                                         *)
(***************************************************************************)
EXTENDS Integers, Sequences

\* Queue_Instance_init, for every queue, and Queue_elemClear, for every element.
Cleared(nodes) == [next |-> [n \in nodes |-> n], prev |-> [n \in nodes |-> n]]

Queue_elemClear(l, e) == [next |-> [l.next EXCEPT ![e] = e], prev |-> [l.prev EXCEPT ![e] = e]]

Queue_isQueued(l, e) == l.next[e] # e \/ l.prev[e] # e

Queue_head(l, q)  == l.next[q]
Queue_tail(l, q)  == l.prev[q]
Queue_empty(l, q) == l.next[q] = q

\* e goes in front of the node at.
Queue_insert(l, at, e) ==
  [next |-> [l.next EXCEPT ![e] = at, ![l.prev[at]] = e],
   prev |-> [l.prev EXCEPT ![e] = l.prev[at], ![at] = e]]

Queue_put(l, q, e)     == Queue_insert(l, q, e)      \* and Queue_enqueue
Queue_putHead(l, q, e) ==
  [next |-> [l.next EXCEPT ![e] = l.next[q], ![q] = e],
   prev |-> [l.prev EXCEPT ![e] = q, ![l.next[q]] = e]]

\* What Queue_get and Queue_dequeue leave behind; they return Queue_head.
Queue_dequeue(l, q) ==
  LET rest == l.next[l.next[q]]
  IN  [next |-> [l.next EXCEPT ![q] = rest], prev |-> [l.prev EXCEPT ![rest] = q]]

\* What Queue_getTail leaves behind; it returns Queue_tail.
Queue_getTail(l, q) ==
  LET rest == l.prev[l.prev[q]]
  IN  [next |-> [l.next EXCEPT ![rest] = q], prev |-> [l.prev EXCEPT ![q] = rest]]

\* Whatever list e is on, or was on: its neighbours are joined.
Queue_remove(l, e) ==
  [next |-> [l.next EXCEPT ![l.prev[e]] = l.next[e]],
   prev |-> [l.prev EXCEPT ![l.next[e]] = l.prev[e]]]

-----------------------------------------------------------------------------
\* The first n elements from the head of q on, or all if there are fewer.
Walk(l, q, n) ==
  LET f[i \in 0 .. n] ==
        IF i = 0 THEN <<>>
        ELSE LET before == f[i - 1]
                 next   == l.next[IF before = <<>> THEN q ELSE before[Len(before)]]
             IN  IF Len(before) < i - 1 \/ next = q THEN before ELSE Append(before, next)
  IN  f[n]

\* The list of q is the sequence s, forwards and backwards.
Ring(q, s) == <<q>> \o s \o <<q>>

IsQueue(l, q, s) ==
  \A i \in 1 .. Len(s) + 1 :
    /\ l.next[Ring(q, s)[i]] = Ring(q, s)[i + 1]
    /\ l.prev[Ring(q, s)[i + 1]] = Ring(q, s)[i]
=============================================================================
