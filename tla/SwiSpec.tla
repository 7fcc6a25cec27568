------------------------------- MODULE SwiSpec -------------------------------
(***************************************************************************)
(* What ti.sysbios.knl.Swi promises (Swi.xdc:60-112): a Swi that is posted *)
(* runs once, however often it is posted before it starts; a Swi preempts  *)
(* a running one of lower priority and no other; those of one priority run *)
(* in the order they were posted; a Swi sees the trigger as it was when it *)
(* started, and when it starts its trigger is the configured one again.    *)
(***************************************************************************)
EXTENDS Integers, Sequences

CONSTANTS Swis, Triggers, Pris

VARIABLES
  queue,     \* of each priority, the Swis posted, in order
  active,    \* the Swis that have started, each with its trigger; the last one runs
  count,     \* the trigger of a Swi
  initial,   \* the trigger it is configured with
  prio       \* the priority of a Swi

specVars == <<queue, active, count, initial, prio>>

Init ==
  /\ queue = [p \in Pris |-> <<>>]
  /\ active = <<>>
  /\ initial \in [Swis -> Triggers] /\ count = initial
  /\ prio \in [Swis -> Pris]

Posted(s)  == \E p \in Pris : \E i \in DOMAIN queue[p] : queue[p][i] = s
Started(s) == \E i \in DOMAIN active : active[i].swi = s

Post(s) ==
  /\ UNCHANGED <<active, count, initial, prio>>
  /\ ~Posted(s)
  /\ queue' = [queue EXCEPT ![prio[s]] = Append(@, s)]

\* inc, dec, or, andn, apart from the post.
Trigger(s) ==
  /\ UNCHANGED <<queue, active, initial, prio>>
  /\ \E n \in Triggers : count' = [count EXCEPT ![s] = n]

\* The level of the thread that runs: no Swi of this level preempts it.
CurLevel(stack) == IF stack = <<>> THEN -1 ELSE prio[stack[Len(stack)].swi]

First(p, s) ==
  /\ queue[p] # <<>> /\ s = Head(queue[p])
  /\ \A r \in Pris : queue[r] # <<>> => r <= p

StartOn(stack, s) ==
  /\ active' = Append(stack, [swi |-> s, trigger |-> count[s]])
  /\ count' = [count EXCEPT ![s] = initial[s]]
  /\ UNCHANGED <<initial, prio>>
  /\ \E p \in Pris : /\ First(p, s) /\ p > CurLevel(stack)
                     /\ queue' = [queue EXCEPT ![p] = Tail(@)]

Start == \E s \in Swis : StartOn(active, s)

Returned == SubSeq(active, 1, Len(active) - 1)

\* A Swi returns, and the next one may start before anything else happens.
Return ==
  /\ active # <<>>
  /\ \/ active' = Returned /\ UNCHANGED <<count, initial, prio, queue>>
     \/ \E s \in Swis : StartOn(Returned, s)

\* The attributes of a Swi at rest: the priority alone, or the trigger too.
Configure(s) ==
  /\ UNCHANGED <<queue, active>>
  /\ ~Posted(s) /\ ~Started(s)
  /\ \E p \in Pris : prio' = [prio EXCEPT ![s] = p]
  /\ \/ UNCHANGED <<count, initial>>
     \/ \E n \in Triggers : /\ count' = [count EXCEPT ![s] = n]
                            /\ initial' = [initial EXCEPT ![s] = n]

Next ==
  \/ \E s \in Swis : Post(s) \/ Trigger(s) \/ Configure(s)
  \/ Start \/ Return

Spec == Init /\ [][Next]_specVars
=============================================================================
