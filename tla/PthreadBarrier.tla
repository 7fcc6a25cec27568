---------------------------- MODULE PthreadBarrier ----------------------------
(***************************************************************************)
(* pthread_barrier of ti.posix.tirtos: a count of the threads that have     *)
(* come in this round, and a semaphore, here SemaphoreSpec, from which each  *)
(* of them but the last takes a token.                                      *)
(***************************************************************************)
EXTENDS Integers, SequencesExt

CONSTANTS Threads,
          Count     \* obj->count

VARIABLES
  avail, waiting, outcome,  \* the semaphore, as SemaphoreSpec has it
  pendCount,
  pc                        \* where a thread is

semVars == <<avail, waiting, outcome>>
vars    == <<semVars, pendCount, pc>>

BarrierSems == {"sem"}

Sem == INSTANCE SemaphoreSpec
         WITH Tasks <- Threads, CountLimit <- Cardinality(Threads) + 1,
              Sems <- BarrierSems, Mode <- [s \in BarrierSems |-> {}], InitCount <- [s \in BarrierSems |-> 0]

TypeOK ==
  /\ Sem!SpecTypeOK
  /\ pendCount \in 0 .. Count - 1
  /\ pc \in [Threads -> {"user", "pend"}]

Init ==
  /\ Sem!Init
  /\ pendCount = 0
  /\ pc = [t \in Threads |-> "user"]

-----------------------------------------------------------------------------
At(t, l)   == pc[t] = l
Goto(t, l) == pc' = [pc EXCEPT ![t] = l]

\* Semaphore_post, n times.
PostTimes(n) ==
  LET handed == SubSeq(waiting["sem"], 1, Min({n, Len(waiting["sem"])}))
  IN  /\ waiting' = [waiting EXCEPT !["sem"] = SubSeq(@, Len(handed) + 1, Len(@))]
      /\ outcome' = [t \in Threads |-> IF Contains(handed, t) THEN "granted" ELSE outcome[t]]
      /\ avail' = [avail EXCEPT !["sem"] = @ + n - Len(handed)]

\* A thread comes, and is not the last of the round.
Arrive(t) ==
  /\ At(t, "user") /\ Goto(t, "pend")
  /\ pendCount + 1 < Count
  /\ pendCount' = pendCount + 1
  /\ UNCHANGED semVars

\* Mutant of Others: the last thread posts a token for itself as well.
OthersAndSelf == Count

\* How many wait for the last thread.
Others == Count - 1

\* The last thread comes, and goes on.
ArriveLast(t) ==
  /\ At(t, "user")
  /\ pendCount + 1 >= Count
  /\ PostTimes(Others)
  /\ pendCount' = 0
  /\ UNCHANGED pc

Pend(t) ==
  /\ At(t, "pend")
  /\ \/ outcome[t] = "idle" /\ Sem!Take("sem") /\ Goto(t, "user")
     \/ outcome[t] = "granted" /\ Sem!Return(t) /\ Goto(t, "user")
     \/ Sem!Wait(t, "sem", "forever") /\ UNCHANGED pc
  /\ UNCHANGED pendCount

Next == \E t \in Threads : Arrive(t) \/ ArriveLast(t) \/ Pend(t)

Spec == Init /\ [][Next]_vars

-----------------------------------------------------------------------------
(* Properties.                                                             *)

Pending == {t \in Threads : pc[t] = "pend"}
Handed  == {t \in Threads : outcome[t] = "granted"}

\* A thread that has been counted may find its token taken by a faster one that
\* has come again, but no token is lost and none is left over: the threads
\* inside are those counted in this round and those a token is there for.  So
\* the threads that are blocked, with nobody on the way, are fewer than Count,
\* and the next to come will release them.  That a thread goes on when its own
\* round is complete is not stated, and with Count = 2 it may not: the faster one
\* takes its token and passes the next round alone.
BarrierTokens ==
  /\ TypeOK
  /\ Cardinality(Pending) = pendCount + avail["sem"] + Cardinality(Handed)
  /\ (\A t \in Pending : outcome[t] = "forever") => Cardinality(Pending) = pendCount
=============================================================================
