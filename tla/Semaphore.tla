------------------------------ MODULE Semaphore ------------------------------
(***************************************************************************)
(* ti.sysbios.knl.Semaphore on the scheduler: tasks pend with and without  *)
(* timeout, tasks and interrupts post, the Clock Swi times waits out, and  *)
(* tasks are deleted while they wait.                                      *)
(*                                                                         *)
(* The Clock object of a timed wait is "active" until Clock_stop or until  *)
(* the Clock Swi takes it up; then it is "firing" while Semaphore_-        *)
(* pendTimeout has yet to disable interrupts, and a post may come first.   *)
(***************************************************************************)
EXTENDS KernelCalls

CONSTANTS Sems,         \* the Semaphore objects
          CountLimit,   \* 2^16: sem->count is a UInt16
          Mode,         \* for each, its bits: "binary", "priority"
          InitCount,    \* the count each is created with
          HwiLevels     \* the priorities interrupts set

ASSUME CountLimitAssumption == CountLimit \in Nat \ {0, 1}
ASSUME ModeAssumption == Mode \in [Sems -> SUBSET {"binary", "priority"}]
ASSUME InitCountAssumption == InitCount \in [Sems -> 0 .. CountLimit - 1]
ASSUME HwiLevelsAssumption == HwiLevels \subseteq Level

VARIABLES
  count,      \* sem->count
  pendQ,      \* sem->pendQ, as the tasks of its PendElems
  pendState,  \* elem.pendState of the PendElem on a task's stack
  clk         \* the Clock object on a task's stack

semVars == <<count, pendQ, pendState, clk>>
vars    == <<kernelVars, callVars, semVars>>

PCs        == {"user", "write", "region", "restore", "wake", "dead"}
PendStates == {"none", "TIMEOUT", "POSTED", "CLOCK_WAIT", "WAIT_FOREVER"}
Clocks     == {"none", "active", "firing", "stopped"}
Timeouts   == {"CLOCK_WAIT", "WAIT_FOREVER"}

Ops == [name : {"none"}]
         \cup [name : {"post", "pend"}, on : Sems] \cup [name : {"delete"}, on : Tasks]

TypeOK ==
  /\ KernelTypeOK
  /\ pc \in [Tasks -> PCs]
  /\ op \in [Tasks -> Ops]
  /\ key \in [Tasks -> BOOLEAN]
  /\ count \in [Sems -> 0 .. CountLimit - 1]
  /\ pendQ \in [Sems -> Seq(Tasks)]
  /\ pendState \in [Tasks -> PendStates]
  /\ clk \in [Tasks -> Clocks]

Init ==
  /\ InitCalls
  /\ count = InitCount
  /\ pendQ = [s \in Sems |-> <<>>]
  /\ pendState = [t \in Tasks |-> "none"]
  /\ clk = [t \in Tasks |-> "none"]

-----------------------------------------------------------------------------
(* Semaphore_pend.                                                         *)

Decrement(s) ==
  /\ count[s] > 0
  /\ count' = [count EXCEPT ![s] = @ - 1]
  /\ UNCHANGED <<pendQ, pendState, clk>>

PendTake(t, s) ==
  /\ At(t, "user") /\ Decrement(s)
  /\ UNCHANGED <<queueVars, locked, swiLocked, phase, callVars>>

\* Mutant of StartClock: the Clock object is only constructed.
StartClockNever(t, how) == clk' = [clk EXCEPT ![t] = "none"]

\* elem.pendState, and with it whether there is a Clock object to start.
StartClock(t, how) ==
  clk' = [clk EXCEPT ![t] = IF how = "CLOCK_WAIT" THEN "active" ELSE "none"]

\* No token and a timeout other than BIOS_NO_WAIT: one region blocks the task,
\* queues its PendElem and starts its Clock object.
PendBlock(t, s, how) ==
  /\ LockToBlock(t, [name |-> "pend", on |-> s])
  /\ count[s] = 0
  /\ Task_blockI(t)
  /\ pendQ' = [pendQ EXCEPT ![s] = IF "priority" \in Mode[s] THEN InsertPri(@, t, pri[t])
                                   ELSE Append(@, t)]
  /\ pendState' = [pendState EXCEPT ![t] = how]
  /\ StartClock(t, how)
  /\ UNCHANGED count

PendRestore(t) == op[t].name = "pend" /\ Return(t, "wake") /\ UNCHANGED semVars

\* The task runs again: Clock object off the Clock queue, pend returns.
PendReturn(t) ==
  /\ At(t, "wake") /\ Goto(t, "user")
  /\ clk' = [clk EXCEPT ![t] = "none"]
  /\ pendState' = [pendState EXCEPT ![t] = "none"]
  /\ op' = [op EXCEPT ![t] = NoOp]
  /\ UNCHANGED <<queueVars, locked, swiLocked, phase, key, count, pendQ>>

-----------------------------------------------------------------------------
(* Semaphore_post.                                                         *)

Increment(s) ==
  /\ count' = [count EXCEPT ![s] = IF "binary" \in Mode[s] THEN 1 ELSE (@ + 1) % CountLimit]
  /\ UNCHANGED <<queueVars, pendQ, pendState, clk>>

HandOver(s) ==
  LET t == Head(pendQ[s])
  IN  /\ pendQ' = [pendQ EXCEPT ![s] = Tail(@)]
      /\ pendState' = [pendState EXCEPT ![t] = "POSTED"]
      /\ clk' = [clk EXCEPT ![t] = IF @ = "active" THEN "stopped" ELSE @]
      /\ Task_unblockI(t)
      /\ UNCHANGED count

Semaphore_post(s) == IF pendQ[s] = <<>> THEN Increment(s) ELSE HandOver(s)

PostCall(t, s) == Call(t, [name |-> "post", on |-> s]) /\ UNCHANGED semVars

PostRegion(t) ==
  /\ Calling(t, "post") /\ Goto(t, "restore")
  /\ Semaphore_post(op[t].on)
  /\ UNCHANGED <<locked, swiLocked, phase, op, key>>

PostRestore(t) == op[t].name = "post" /\ Return(t, "user") /\ UNCHANGED semVars

\* "No tasks should be waiting on the semaphore when reset is called"
\* (Semaphore.xdc).
Semaphore_reset(t, s, n) ==
  /\ At(t, "user") /\ pendQ[s] = <<>>
  /\ count' = [count EXCEPT ![s] = n]
  /\ UNCHANGED <<queueVars, locked, swiLocked, phase, callVars, pendQ, pendState, clk>>

-----------------------------------------------------------------------------
(* Task_delete, as far as it ends a wait.                                  *)

DeleteCall(t, u) ==
  /\ u # t /\ mode[u] # "NONE"
  /\ \A v \in Tasks : op[v] # [name |-> "delete", on |-> u]
  /\ Call(t, [name |-> "delete", on |-> u])
  /\ UNCHANGED semVars

Unpended(u) == [s \in Sems |-> IF Linked(u, pendQ[s]) THEN Queue_remove(pendQ[s], u) ELSE pendQ[s]]

DeleteRegion(t) ==
  LET u == op[t].on
  IN  /\ Calling(t, "delete")
      /\ Task_unlink(u)
      /\ pendQ' = IF mode[u] = "BLOCKED" THEN Unpended(u) ELSE pendQ
      /\ clk' = [clk EXCEPT ![u] = "none"]
      /\ pendState' = [pendState EXCEPT ![u] = "none"]
      /\ pc' = [pc EXCEPT ![u] = "dead", ![t] = "restore"]
      /\ op' = [op EXCEPT ![u] = NoOp]
      /\ UNCHANGED <<locked, swiLocked, phase, key, count>>

DeleteRestore(t) == op[t].name = "delete" /\ Return(t, "user") /\ UNCHANGED semVars

-----------------------------------------------------------------------------
(* Interrupt level.  Semaphore_post finds the scheduler locked there.      *)

HwiPost(s) == InHwi /\ Semaphore_post(s) /\ UNCHANGED callVars

\* A pend with BIOS_NO_WAIT.
HwiTake(s) == InHwi /\ Decrement(s) /\ UNCHANGED <<queueVars, callVars>>

\* The Clock Swi finds that the timeout has come and calls pendTimeout.
ClockExpires(t) ==
  /\ InHwi /\ clk[t] = "active"
  /\ \A u \in Tasks : clk[u] # "firing"
  /\ clk' = [clk EXCEPT ![t] = "firing"]
  /\ UNCHANGED <<queueVars, callVars, count, pendQ, pendState>>

\* Mutants of Semaphore_pendTimeout: it does not verify that Semaphore_post has
\* not come first, and it leaves the PendElem on the waiting list.
PendTimeoutUnverified(t) ==
  /\ InHwi /\ clk[t] = "firing"
  /\ clk' = [clk EXCEPT ![t] = "stopped"]
  /\ pendQ' = Unpended(t)
  /\ pendState' = [pendState EXCEPT ![t] = "TIMEOUT"]
  /\ Task_unblockI(t)
  /\ UNCHANGED <<callVars, count>>

PendTimeoutQueued(t) ==
  /\ InHwi /\ clk[t] = "firing"
  /\ clk' = [clk EXCEPT ![t] = "stopped"]
  /\ IF pendState[t] = "CLOCK_WAIT"
     THEN pendState' = [pendState EXCEPT ![t] = "TIMEOUT"] /\ Task_unblockI(t)
     ELSE UNCHANGED <<queueVars, pendState>>
  /\ UNCHANGED <<callVars, count, pendQ>>

Semaphore_pendTimeout(t) ==
  /\ InHwi /\ clk[t] = "firing"
  /\ clk' = [clk EXCEPT ![t] = "stopped"]
  /\ IF pendState[t] = "CLOCK_WAIT"
     THEN /\ pendQ' = Unpended(t)
          /\ pendState' = [pendState EXCEPT ![t] = "TIMEOUT"]
          /\ Task_unblockI(t)
     ELSE UNCHANGED <<queueVars, pendQ, pendState>>
  /\ UNCHANGED <<callVars, count>>

HwiSetPri(t, p) ==
  /\ InHwi /\ mode[t] # "NONE"
  /\ Task_setPri(t, p)
  /\ UNCHANGED <<callVars, semVars>>

-----------------------------------------------------------------------------
\* The interrupt ends when the Clock Swi it posted has ended.
HwiDone == HwiExit /\ \A t \in Tasks : clk[t] # "firing"

KernelOnly == UNCHANGED <<callVars, semVars>>
KernelStep == (Scheduler \/ HwiEnter \/ HwiDone) /\ KernelOnly

TaskCall(t) ==
  \/ \E s \in Sems : PendTake(t, s) \/ PostCall(t, s)
  \/ \E s \in Sems, how \in Timeouts : PendBlock(t, s, how)
  \/ \E s \in Sems, n \in 0 .. CountLimit - 1 : Semaphore_reset(t, s, n)
  \/ \E u \in Tasks : DeleteCall(t, u)

TaskProgress(t) ==
  \/ Lock(t) /\ UNCHANGED semVars
  \/ PostRegion(t) \/ PostRestore(t) \/ PendRestore(t) \/ PendReturn(t)
  \/ DeleteRegion(t) \/ DeleteRestore(t)

HwiStep ==
  \/ \E s \in Sems : HwiPost(s) \/ HwiTake(s)
  \/ \E t \in Tasks : ClockExpires(t) \/ Semaphore_pendTimeout(t)
  \/ \E t \in Tasks, p \in HwiLevels : HwiSetPri(t, p)

Next == KernelStep \/ HwiStep \/ \E t \in Tasks : TaskCall(t) \/ TaskProgress(t)

Spec == Init /\ [][Next]_vars

\* The scheduler, with interrupts disabled, goes on.  The timer keeps
\* interrupting, the Clock Swi serves every object whose time
\* has come, and what an interrupt starts it ends.
Fairness ==
  /\ WF_vars(Scheduler /\ KernelOnly)
  /\ SF_vars(HwiEnter /\ KernelOnly)
  /\ WF_vars(HwiDone /\ KernelOnly)
  /\ \A t \in Tasks : SF_vars(ClockExpires(t)) /\ WF_vars(Semaphore_pendTimeout(t))

FairSpec == Spec /\ Fairness

-----------------------------------------------------------------------------
(* Properties.                                                             *)

\* A task is on a waiting list, once and on one list, exactly while it is
\* blocked and its wait is unresolved; its Clock object is armed exactly while
\* a timed wait is unresolved, or its timeout is being served.  When a waiter
\* runs again its wait has been resolved: pend returns elem.pendState as its
\* BOOL, so TRUE means that it was posted.
WaitersOK ==
  \A t \in Tasks :
    /\ mode[t] = "BLOCKED" <=> pendState[t] \in Timeouts
    /\ mode[t] = "BLOCKED" <=> \E s \in Sems : Linked(t, pendQ[s])
    /\ \A r, s \in Sems : Linked(t, pendQ[r]) /\ Linked(t, pendQ[s]) => r = s
    /\ \A s \in Sems : NoDuplicates(pendQ[s])
    /\ clk[t] = "active" => pendState[t] = "CLOCK_WAIT"
    /\ pendState[t] = "CLOCK_WAIT" => clk[t] \in {"active", "firing"}
    /\ pc[t] = "wake" /\ mode[t] = "READY" => pendState[t] \in {"POSTED", "TIMEOUT"}

\* "Tasks wait in FIFO order"; PRIORITY waiters are sorted (Semaphore.xdc:163),
\* as long as nobody changes the priority of a waiter.
Sorted(q) == \A i, j \in DOMAIN q : i < j => pri[q[i]] >= pri[q[j]]

PriorityOrder == \A s \in Sems : "priority" \in Mode[s] => Sorted(pendQ[s])

\* The promise: pend and post are atomic, whatever interrupts and other tasks
\* do between and inside them.
Outcome(t) ==
  CASE pc[t] = "dead"                -> "gone"
    [] pendState[t] = "CLOCK_WAIT"   -> "timed"
    [] pendState[t] = "WAIT_FOREVER" -> "forever"
    [] pendState[t] = "POSTED"       -> "granted"
    [] pendState[t] = "TIMEOUT"      -> "timedout"
    [] OTHER                         -> "idle"

Promise == INSTANCE SemaphoreSpec
             WITH avail <- count, waiting <- pendQ, outcome <- [t \in Tasks |-> Outcome(t)]

KeepsPromise == Promise!Spec

\* A timed wait ends.
TimedWaitEnds == \A t \in Tasks : pendState[t] = "CLOCK_WAIT" ~> pendState[t] # "CLOCK_WAIT"
=============================================================================
