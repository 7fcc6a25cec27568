---------------------------- MODULE SemaphoreSpec ----------------------------
(***************************************************************************)
(* What ti.sysbios.knl.Semaphore promises (Semaphore.xdc), without the     *)
(* scheduler: a token posted is counted or handed to the first waiter, a   *)
(* wait ends once, with a token or, if it is timed, without one.           *)
(***************************************************************************)
EXTENDS Integers, SequencesExt

CONSTANTS Tasks, Sems, CountLimit, Mode, InitCount

VARIABLES
  avail,      \* tokens not handed out
  waiting,    \* the tasks waiting, in the order they will be served
  outcome     \* how the pend of a task stands

specVars == <<avail, waiting, outcome>>

Outcomes == {"idle", "timed", "forever", "granted", "timedout", "gone"}
Waits    == {"timed", "forever"}

SpecTypeOK ==
  /\ avail \in [Sems -> 0 .. CountLimit - 1]
  /\ waiting \in [Sems -> Seq(Tasks)]
  /\ outcome \in [Tasks -> Outcomes]

Init ==
  /\ avail = InitCount
  /\ waiting = [s \in Sems |-> <<>>]
  /\ outcome = [t \in Tasks |-> "idle"]

\* pend on an available semaphore, by a task or an interrupt.
Take(s) ==
  /\ avail[s] > 0
  /\ avail' = [avail EXCEPT ![s] = @ - 1]
  /\ UNCHANGED <<waiting, outcome>>

Wait(t, s, how) ==
  /\ outcome[t] = "idle" /\ avail[s] = 0
  /\ \E i \in 1 .. Len(waiting[s]) + 1 :
       /\ i <= Len(waiting[s]) => "priority" \in Mode[s]
       /\ waiting' = [waiting EXCEPT ![s] = InsertAt(@, i, t)]
  /\ outcome' = [outcome EXCEPT ![t] = how]
  /\ UNCHANGED avail

Post(s) ==
  IF waiting[s] = <<>>
  THEN /\ avail' = [avail EXCEPT ![s] = IF "binary" \in Mode[s] THEN 1
                                        ELSE (@ + 1) % CountLimit]
       /\ UNCHANGED <<waiting, outcome>>
  ELSE /\ waiting' = [waiting EXCEPT ![s] = Tail(@)]
       /\ outcome' = [outcome EXCEPT ![Head(waiting[s])] = "granted"]
       /\ UNCHANGED avail

Without(t) == [s \in Sems |-> RemoveFirst(waiting[s], t)]

TimeOut(t) ==
  /\ outcome[t] = "timed"
  /\ waiting' = Without(t)
  /\ outcome' = [outcome EXCEPT ![t] = "timedout"]
  /\ UNCHANGED avail

\* pend returns TRUE to a task that was granted a token, FALSE after a timeout.
Return(t) ==
  /\ outcome[t] \in {"granted", "timedout"}
  /\ outcome' = [outcome EXCEPT ![t] = "idle"]
  /\ UNCHANGED <<avail, waiting>>

\* The task is deleted: it waits no more.
Delete(t) ==
  /\ outcome[t] # "gone"
  /\ waiting' = Without(t)
  /\ outcome' = [outcome EXCEPT ![t] = "gone"]
  /\ UNCHANGED avail

Reset(s, n) ==
  /\ waiting[s] = <<>>
  /\ avail' = [avail EXCEPT ![s] = n]
  /\ UNCHANGED <<waiting, outcome>>

Next ==
  \/ \E s \in Sems : Take(s) \/ Post(s) \/ \E n \in 0 .. CountLimit - 1 : Reset(s, n)
  \/ \E t \in Tasks : TimeOut(t) \/ Return(t) \/ Delete(t)
  \/ \E t \in Tasks, s \in Sems, how \in Waits : Wait(t, s, how)

Spec == Init /\ [][Next]_specVars

\* No task waits for a token that is there.
NoIdleToken == \A s \in Sems : waiting[s] # <<>> => avail[s] = 0
=============================================================================
