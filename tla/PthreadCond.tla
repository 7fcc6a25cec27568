----------------------------- MODULE PthreadCond -----------------------------
(***************************************************************************)
(* pthread_cond of ti.posix.tirtos: a waiter puts an element of its stack,  *)
(* with a semaphore of its own, on the list of the condition variable.  The *)
(* list is modelled with its pointers (Queue), for an element that was      *)
(* taken off a list keeps them; the semaphores are SemaphoreSpec, and the   *)
(* mutex, which PthreadMutex models, is the thread that holds it.           *)
(***************************************************************************)
EXTENDS Queue, SequencesExt

CONSTANTS Threads,
          Cond,        \* the head of the list
          Apps         \* the applications: the calls that wake, and the threads
                       \* that wait with a time limit

VARIABLES
  avail, waiting, outcome,  \* the semaphore of each thread's CondElem
  waitList,                 \* the pointers of the list and of the elements
  holder,                   \* the mutex
  pc,                       \* where a thread is
  app

semVars == <<avail, waiting, outcome>>
vars    == <<semVars, waitList, holder, pc, app>>

Sem == INSTANCE SemaphoreSpec
         WITH Tasks <- Threads, Sems <- Threads, CountLimit <- 2,
              Mode <- [t \in Threads |-> {"binary"}],
              InitCount <- [t \in Threads |-> 0]

PCs == {"outside", "inside", "queued", "pend", "timedOut", "relock"}

TypeOK ==
  /\ Sem!SpecTypeOK
  /\ waitList \in [next : [Threads \cup {Cond} -> Threads \cup {Cond}],
                   prev : [Threads \cup {Cond} -> Threads \cup {Cond}]]
  /\ holder \in SUBSET Threads
  /\ pc \in [Threads -> PCs]
  /\ app \in Apps

Init ==
  /\ Sem!Init
  /\ waitList = Cleared(Threads \cup {Cond})
  /\ holder = {}
  /\ pc = [t \in Threads |-> "outside"]
  /\ app \in Apps

-----------------------------------------------------------------------------
At(t, l)   == pc[t] = l
Goto(t, l) == pc' = [pc EXCEPT ![t] = l]

\* The mutex, in the application and at the end of a wait.
Lock(t) ==
  /\ pc[t] \in {"outside", "relock"} /\ Goto(t, "inside")
  /\ holder = {} /\ holder' = {t}
  /\ UNCHANGED <<semVars, waitList, app>>

Unlock(t) ==
  /\ \/ At(t, "inside") /\ Goto(t, "outside")
     \/ At(t, "queued") /\ Goto(t, "pend")
  /\ holder' = {}
  /\ UNCHANGED <<semVars, waitList, app>>

-----------------------------------------------------------------------------
(* condWait, up to the unlocking of the mutex, and after it.                *)

CondWait(t) ==
  /\ At(t, "inside") /\ Goto(t, "queued")
  /\ waitList' = Queue_put(Queue_elemClear(waitList, t), Cond, t)
  /\ Sem!Reset(t, 0)
  /\ UNCHANGED <<holder, app>>

Pend(t) ==
  /\ At(t, "pend")
  /\ \/ outcome[t] = "idle" /\ Sem!Take(t) /\ Goto(t, "relock")
     \/ outcome[t] = "granted" /\ Sem!Return(t) /\ Goto(t, "relock")
     \/ outcome[t] = "timedout" /\ Sem!Return(t) /\ Goto(t, "timedOut")
     \/ Sem!Wait(t, t, IF t \in app.timed THEN "timed" ELSE "forever") /\ UNCHANGED pc
  /\ UNCHANGED <<waitList, holder, app>>

TimedOut(t) ==
  /\ At(t, "timedOut") /\ Goto(t, "relock")
  /\ waitList' = Queue_remove(waitList, t)
  /\ UNCHANGED <<semVars, holder, app>>

\* The Clock Swi ends a timed wait.
TimeOut(t) == Sem!TimeOut(t) /\ UNCHANGED <<waitList, holder, pc, app>>

-----------------------------------------------------------------------------
(* pthread_cond_signal and pthread_cond_broadcast, by a thread or a Task,     *)
(* with the mutex or without it.                                            *)

\* Semaphore_post, once for each thread of a set.
PostTo(woken) ==
  LET handed == {t \in woken : waiting[t] # <<>>}
  IN  /\ waiting' = [t \in Threads |-> IF t \in handed THEN <<>> ELSE waiting[t]]
      /\ outcome' = [t \in Threads |-> IF t \in handed THEN "granted" ELSE outcome[t]]
      /\ avail'   = [t \in Threads |-> IF t \in woken \ handed THEN 1 ELSE avail[t]]

\* Mutant of Unlinked: as broadcast has it.
UnlinkedOnly(l, e) == Queue_dequeue(l, Cond)

\* signal takes the first element, e, off the list.
Unlinked(l, e) == Queue_elemClear(Queue_dequeue(l, Cond), e)

Signal ==
  LET first == Queue_head(waitList, Cond)
  IN  /\ "signal" \in app.wakes /\ ~Queue_empty(waitList, Cond)
      /\ waitList' = Unlinked(waitList, first)
      /\ PostTo({first})
      /\ UNCHANGED <<holder, pc, app>>

Broadcast ==
  LET all == Walk(waitList, Cond, Cardinality(Threads))
      f[n \in 0 .. Len(all)] == IF n = 0 THEN waitList ELSE Queue_dequeue(f[n - 1], Cond)
  IN  /\ "broadcast" \in app.wakes /\ all # <<>>
      /\ waitList' = f[Len(all)]
      /\ PostTo(ToSet(all))
      /\ UNCHANGED <<holder, pc, app>>

-----------------------------------------------------------------------------
Next ==
  \/ \E t \in Threads :
       Lock(t) \/ Unlock(t) \/ CondWait(t) \/ Pend(t) \/ TimedOut(t) \/ TimeOut(t)
  \/ Signal \/ Broadcast

Spec == Init /\ [][Next]_vars

-----------------------------------------------------------------------------
(* Properties.                                                             *)

Posted(t) == avail[t] = 1 \/ outcome[t] = "granted"

\* "We need to call Task_disable() to protect the condition variable's waitList"
\* (pthread_cond.c:242-245): the list holds the threads that have begun to wait
\* and that no signal or broadcast has woken, each once, and nothing else; from
\* the moment a waiter unlocks the mutex no wake-up can miss it, and no element
\* is on the list once the wait it belongs to is over.
NoLostWaiter ==
  LET list == Walk(waitList, Cond, Cardinality(Threads))
  IN  /\ TypeOK
      /\ IsQueue(waitList, Cond, list)
      /\ IsInjective(list)
      /\ ToSet(list) = {t \in Threads : pc[t] \in {"queued", "pend", "timedOut"} /\ ~Posted(t)}
=============================================================================
