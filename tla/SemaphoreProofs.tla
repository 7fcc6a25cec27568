---------------------------- MODULE SemaphoreProofs ----------------------------
(***************************************************************************)
(* Semaphore.c on the scheduler: every waiter is on one list while its wait *)
(* is unresolved and on none afterwards (WaitersOK), and the tasks,         *)
(* interrupts and timeouts together do what SemaphoreSpec promises.  Event.c *)
(* on top of it: the reader does not sleep through what it waits for, tokens *)
(* show, lists are sorted, and what Event_pend returns meets its masks.     *)
(***************************************************************************)
EXTENDS Event, KernelProofs

-----------------------------------------------------------------------------
(* Waiting lists.                                                          *)

\* The waiting list after a pend, in either order.
Queued(t, s) == IF "priority" \in Mode[s] THEN InsertPri(pendQ[s], t, pri[t]) ELSE Append(pendQ[s], t)

\* Either order inserts the task somewhere; FIFO order only at the end.
LEMMA QueuedPlace ==
  ASSUME pri \in [Tasks -> Level], NEW t \in Tasks, NEW s \in Sems, pendQ[s] \in Seq(Tasks)
  PROVE  \E i \in 1 .. Len(pendQ[s]) + 1 :
           /\ i <= Len(pendQ[s]) => "priority" \in Mode[s]
           /\ Queued(t, s) = InsertAt(pendQ[s], i, t)
<1>1. CASE "priority" \in Mode[s]
  <2>1. Queued(t, s) = InsertPri(pendQ[s], t, pri[t])
    BY <1>1 DEF Queued
  <2>2. PICK i \in 1 .. Len(pendQ[s]) + 1 : InsertPri(pendQ[s], t, pri[t]) = InsertAt(pendQ[s], i, t)
    BY InsertPriPlace
  <2> QED BY <1>1, <2>1, <2>2
<1>2. CASE "priority" \notin Mode[s]
  <2>1. Queued(t, s) = InsertAt(pendQ[s], Len(pendQ[s]) + 1, t)
    BY <1>2, AppendIsInsert DEF Queued
  <2>2. Len(pendQ[s]) + 1 \in 1 .. Len(pendQ[s]) + 1 /\ ~(Len(pendQ[s]) + 1 <= Len(pendQ[s]))
    OBVIOUS
  <2> QED BY <2>1, <2>2, Zenon
<1> QED BY <1>1, <1>2

-----------------------------------------------------------------------------
(* The inductive invariant.                                                *)

\* The lock is held by the running task's call and by nobody else; when it is
\* free no reschedule is pending; a task that has queued itself on a semaphore
\* does not run on, for the scheduler has been told.
CallsOK ==
  /\ ~swiLocked
  /\ \A t \in Tasks : ~key[t]
  /\ \A t \in Tasks : pc[t] \in {"region", "restore"} => t = running /\ phase = "user"
  /\ phase = "user" => ((IF isr THEN isrKey ELSE locked) <=> pc[running] \in {"region", "restore"})
  /\ ~isr /\ phase = "user" /\ ~locked => ~workFlag
  /\ phase = "user" => mode[running] = "READY"
                         \/ (pc[running] = "restore" /\ op[running].name = "pend")
  /\ \A t \in Tasks : pc[t] = "restore" /\ op[t].name = "pend" => workFlag

\* Where the call of t is, and what it names.
CallOf(t) ==
  /\ pc[t] \in {"user", "dead"} => op[t].name = "none"
  /\ pc[t] \in {"write", "region"} => op[t].name \in {"post", "delete"}
  /\ pc[t] = "restore" => op[t].name \in {"post", "delete", "pend"}
  /\ pc[t] = "wake" => op[t].name = "pend"
  /\ mode[t] = "NONE" <=> pc[t] = "dead"
  /\ mode[t] # "TERMINATED"
  /\ op[t].name = "delete" /\ pc[t] \in {"write", "region"} => op[t].on # t /\ mode[op[t].on] # "NONE"
  /\ \A u \in Tasks : op[t].name = "delete" /\ op[u] = op[t] => u = t

\* How the wait of t stands.
WaitOf(t) ==
  /\ op[t].name = "pend" <=> pendState[t] # "none"
  /\ mode[t] = "BLOCKED" <=> pendState[t] \in Timeouts
  /\ mode[t] = "BLOCKED" <=> \E s \in Sems : Linked(t, pendQ[s])
  /\ \A r, s \in Sems : Linked(t, pendQ[r]) /\ Linked(t, pendQ[s]) => r = s
  /\ clk[t] = "active" => pendState[t] = "CLOCK_WAIT"
  /\ pendState[t] = "CLOCK_WAIT" => clk[t] \in {"active", "firing"}

WaitsOK == (\A s \in Sems : NoDuplicates(pendQ[s])) /\ \A t \in Tasks : CallOf(t) /\ WaitOf(t)

IInv == TypeOK /\ KernelOK /\ CallsOK /\ WaitsOK

\* What IInv says of waiters in the words of WaitersOK.
LEMMA WaitersFromIInv ==
  ASSUME IInv
  PROVE  WaitersOK
<1>1. ASSUME NEW t \in Tasks, pc[t] = "wake", mode[t] = "READY"
      PROVE  pendState[t] \in {"POSTED", "TIMEOUT"}
  <2>1. CallOf(t) /\ WaitOf(t) /\ pendState[t] \in PendStates
    BY DEF IInv, WaitsOK, TypeOK
  <2> QED BY <1>1, <2>1 DEF CallOf, WaitOf, PendStates, Timeouts
<1> QED BY <1>1 DEF IInv, WaitsOK, WaitOf, WaitersOK

\* The fields of the calls.
LEMMA OpFields ==
  /\ \A o \in Ops : o.name \in {"none", "post", "pend", "delete"}
  /\ \A o \in Ops : o.name \in {"post", "pend"} => o.on \in Sems
  /\ \A o \in Ops : o.name = "delete" => o.on \in Tasks
  /\ NoOp \in Ops /\ NoOp.name = "none"
  /\ \A s \in Sems : /\ [name |-> "post", on |-> s] \in Ops /\ [name |-> "pend", on |-> s] \in Ops
  /\ \A u \in Tasks : [name |-> "delete", on |-> u] \in Ops
BY DEF Ops, NoOp

\* What the running task may rely on.
LEMMA InCall ==
  ASSUME IInv, NEW t \in Tasks, InTask(t)
  PROVE  /\ KernelTypeOK /\ KernelOK /\ QueueTypeOK /\ QueuesOK
         /\ running = t /\ curTask = t /\ phase = "user" /\ ~isr
         /\ UNCHANGED <<curTask, running, isr, isrKey>>
         /\ locked <=> pc[t] \in {"region", "restore"}
         /\ \A u \in Tasks \ {t} : pc[u] \notin {"region", "restore"}
         /\ pc[t] # "restore" => mode[t] = "READY"
         /\ ~locked => ~workFlag
<1>1. KernelTypeOK /\ KernelOK /\ QueueTypeOK /\ QueuesOK /\ CallsOK
  BY DEF IInv, TypeOK, KernelTypeOK, KernelOK
<1>2. running = t /\ phase = "user" /\ ~isr /\ UNCHANGED <<curTask, running, isr, isrKey>>
  BY DEF InTask, hwiVars
<1>3. curTask = t
  BY <1>1, <1>2 DEF KernelOK, ControlOK
<1> QED BY <1>1, <1>2, <1>3 DEF CallsOK

-----------------------------------------------------------------------------
(* CallsOK after a step of the running task.                               *)

\* After a region of t, t alone holds the lock and the scheduler is told if
\* t has queued itself.
LEMMA CallsAfterStep ==
  ASSUME IInv, NEW t \in Tasks, InTask(t), phase' = "user", ~swiLocked',
         \A u \in Tasks : ~key'[u],
         \A u \in Tasks \ {t} : pc'[u] \notin {"region", "restore"},
         locked' <=> pc'[t] \in {"region", "restore"},
         ~locked' => ~workFlag',
         mode'[t] = "READY" \/ (pc'[t] = "restore" /\ op'[t].name = "pend"),
         pc'[t] = "restore" /\ op'[t].name = "pend" => workFlag'
  PROVE  CallsOK'
<1>1. running' = t /\ ~isr'
  BY InCall
<1> QED BY <1>1 DEF CallsOK

\* Other tasks' calls when only the call of t moves.
LEMMA OthersStay ==
  ASSUME IInv, NEW t \in Tasks, NEW l, NEW o,
         pc' = [pc EXCEPT ![t] = l], op' = [op EXCEPT ![t] = o]
  PROVE  \A u \in Tasks : /\ pc'[u] = IF u = t THEN l ELSE pc[u]
                          /\ op'[u] = IF u = t THEN o ELSE op[u]
  BY DEF IInv, TypeOK

\* An interrupt-level operation leaves the calls alone.
LEMMA CallsAfterHwi ==
  ASSUME IInv, InHwi, UNCHANGED callVars, workFlag => workFlag',
         mode[running] = "READY" => mode'[running] = "READY"
  PROVE  CallsOK'
<1>1. isr /\ UNCHANGED <<curTask, locked, swiLocked, running, phase, isr, isrKey, pc, op, key>>
  BY DEF InHwi, hwiVars, callVars
<1> QED BY <1>1 DEF IInv, CallsOK

\* The scheduler and the interrupt dispatcher touch no call and no wait, and
\* give the processor to a task that is ready.
LEMMA KernelStepCalls ==
  ASSUME IInv, KernelStep
  PROVE  KernelTypeOK' /\ KernelOK' /\ CallsOK' /\ UNCHANGED <<mode, pri, callVars, semVars>>
<1>1. KernelTypeOK /\ KernelOK /\ CallsOK
  BY DEF IInv, TypeOK
<1>2. UNCHANGED <<callVars, semVars>> /\ UNCHANGED <<pc, op, key>>
  BY DEF KernelStep, KernelOnly, callVars
<1>3. /\ UNCHANGED <<mode, pri>>
      /\ phase = "user" /\ ~isr => workFlag' = workFlag
  BY DEF KernelStep, Scheduler, Task_schedule, Task_allBlockedFunction, Task_swap,
         HwiEnter, HwiDone, HwiExit, queueVars
<1>4. KernelTypeOK' /\ KernelOK'
  BY <1>1, Task_schedulePreserves, Task_allBlockedFunctionPreserves, Task_swapPreserves,
     HwiEnterPreserves, HwiExitPreserves DEF KernelStep, Scheduler, HwiDone
<1>5. CASE Scheduler
  <2>1. /\ phase # "user" /\ ~isr' /\ ~swiLocked'
        /\ (phase' = "user" => locked' = FALSE /\ workFlag' = FALSE)
    BY <1>5, <1>1 DEF Scheduler, Task_schedule, Task_allBlockedFunction, Task_swap,
       Task_schedule_select, LoopTest, hwiVars, queueVars, KernelOK, ControlOK, CallsOK,
       KernelTypeOK, QueueTypeOK
  <2>2. phase' = "user" => mode'[running'] = "READY"
    BY <1>5, <1>1, Task_schedulePreserves, Task_allBlockedFunctionPreserves, Task_swapPreserves
    DEF Scheduler
  <2>3. \A t \in Tasks : pc[t] \notin {"region", "restore"}
    BY <1>1, <2>1 DEF CallsOK
  <2>4. running' \in Tasks
    BY <1>4 DEF KernelTypeOK, ControlTypeOK
  <2>5. CallsOK'
    BY <1>1, <1>2, <2>1, <2>2, <2>3, <2>4 DEF CallsOK
  <2> QED BY <1>2, <1>3, <1>4, <2>5
<1>6. CASE HwiEnter
  <2>1. /\ ~isr /\ isr' /\ isrKey' = locked
        /\ UNCHANGED <<running, phase, swiLocked, workFlag>>
    BY <1>6 DEF HwiEnter, queueVars
  <2>2. CallsOK'
    BY <1>1, <1>2, <1>3, <2>1 DEF CallsOK
  <2> QED BY <1>2, <1>3, <1>4, <2>2
<1>7. CASE HwiDone
  <2>1. /\ isr /\ isr' = FALSE /\ UNCHANGED <<running, swiLocked, workFlag>>
        /\ (phase # "user" => isrKey) /\ locked /\ ~swiLocked
        /\ \/ isrKey /\ UNCHANGED <<phase, locked>>
           \/ ~isrKey /\ workFlag /\ phase' = "pick" /\ UNCHANGED locked
           \/ ~isrKey /\ UNCHANGED phase /\ locked' = FALSE /\ ~workFlag
    BY <1>7, <1>1 DEF HwiDone, HwiExit, Task_restore, Swi_enabled, queueVars, KernelOK, ControlOK,
       CallsOK, KernelTypeOK, ControlTypeOK, QueueTypeOK
  <2>2. running \in Tasks
    BY <1>1 DEF KernelTypeOK, ControlTypeOK
  <2>3. CallsOK'
    BY <1>1, <1>2, <1>3, <2>1, <2>2 DEF CallsOK
  <2> QED BY <1>2, <1>3, <1>4, <2>3
<1> QED BY <1>5, <1>6, <1>7 DEF KernelStep

-----------------------------------------------------------------------------
(* The initial state.                                                      *)

\* The state Task_startCore leaves, with nobody waiting, satisfies IInv.
LEMMA InitIInv == Init => IInv
<1> SUFFICES ASSUME Init PROVE IInv
  OBVIOUS
<1> USE DEF Init, InitCalls
<1>1. KernelTypeOK /\ KernelOK /\ mode[running] = "READY"
  BY InitPriAssumption, KernelStarts
<1>2. TypeOK
  BY <1>1, OpFields, InitCountAssumption DEF TypeOK, PCs, PendStates, Clocks
<1>3. CallsOK
  BY <1>1 DEF CallsOK, KernelInit, KernelTypeOK, ControlTypeOK
<1>4. WaitsOK
  BY OpFields DEF WaitsOK, CallOf, WaitOf, Timeouts, NoDuplicates, Linked, KernelInit
<1> QED BY <1>1, <1>2, <1>3, <1>4 DEF IInv

-----------------------------------------------------------------------------
(* WaitsOK after a step.                                                   *)

\* Nothing changes but the count: a pend that finds a token, a reset.
LEMMA CountOnly ==
  ASSUME IInv, count' \in [Sems -> 0 .. CountLimit - 1],
         UNCHANGED <<kernelVars, callVars, pendQ, pendState, clk>>
  PROVE  IInv'
<1>1. UNCHANGED <<mode, pri, readyQ, curSet, curQ, curTask, workFlag, locked, swiLocked, running,
                  phase, isr, isrKey, pc, op, key, pendQ, pendState, clk>>
  BY DEF kernelVars, callVars
<1>2. TypeOK'
  BY <1>1 DEF IInv, TypeOK, KernelTypeOK, QueueTypeOK, ControlTypeOK
<1>3. KernelOK'
  BY <1>1 DEF IInv, KernelOK, QueuesOK, ReadyListsOK, CurSetOK, CurQOK, NoLostReschedule, ControlOK
<1>4. CallsOK'
  BY <1>1 DEF IInv, CallsOK
<1>5. WaitsOK'
  BY <1>1 DEF IInv, WaitsOK, CallOf, WaitOf
<1> QED BY <1>2, <1>3, <1>4, <1>5 DEF IInv

\* The call of t moves to l with o: the others keep theirs, when no task comes
\* to exist or ceases to.
LEMMA CallsKept ==
  ASSUME IInv, NEW t \in Tasks, NEW l \in PCs, NEW o \in Ops,
         pc' = [pc EXCEPT ![t] = l], op' = [op EXCEPT ![t] = o],
         \A u \in Tasks : /\ mode'[u] = "NONE" <=> mode[u] = "NONE"
                          /\ mode'[u] # "TERMINATED",
         o = op[t] \/ o.name # "delete" \/ \A u \in Tasks : op[u] # o,
         l \in {"user", "dead"} => o.name = "none",
         l \in {"write", "region"} => o.name \in {"post", "delete"},
         l = "restore" => o.name \in {"post", "delete", "pend"},
         l = "wake" => o.name = "pend",
         l = "dead" <=> mode[t] = "NONE",
         o.name = "delete" /\ l \in {"write", "region"} => o.on # t /\ mode[o.on] # "NONE"
  PROVE  \A u \in Tasks : CallOf(u)'
<1>1. \A u \in Tasks : /\ pc'[u] = IF u = t THEN l ELSE pc[u]
                       /\ op'[u] = IF u = t THEN o ELSE op[u]
  BY OthersStay
<1>2. \A u \in Tasks : CallOf(u) /\ op[u] \in Ops
  BY DEF IInv, WaitsOK, TypeOK
<1>3. ASSUME NEW u \in Tasks PROVE CallOf(u)'
  <2>1. /\ pc'[u] \in {"user", "dead"} => op'[u].name = "none"
        /\ pc'[u] \in {"write", "region"} => op'[u].name \in {"post", "delete"}
        /\ pc'[u] = "restore" => op'[u].name \in {"post", "delete", "pend"}
        /\ pc'[u] = "wake" => op'[u].name = "pend"
        /\ mode'[u] = "NONE" <=> pc'[u] = "dead"
        /\ mode'[u] # "TERMINATED"
    BY <1>1, <1>2 DEF CallOf
  <2>2. op'[u].name = "delete" /\ pc'[u] \in {"write", "region"} =>
          op'[u].on # u /\ mode'[op'[u].on] # "NONE"
    BY <1>1, <1>2, OpFields DEF CallOf
  <2>3. ASSUME NEW v \in Tasks, op'[u].name = "delete", op'[v] = op'[u] PROVE v = u
    BY <1>1, <1>2, <2>3 DEF CallOf
  <2> QED BY <2>1, <2>2, <2>3 DEF CallOf
<1> QED BY <1>3

\* The waits stay as they are when lists, modes and Clock objects do and every
\* pend under way is still under way.
LEMMA WaitsKept ==
  ASSUME IInv, UNCHANGED <<mode, pendQ, pendState, clk>>,
         \A u \in Tasks : op'[u].name = "pend" <=> op[u].name = "pend"
  PROVE  \A u \in Tasks : WaitOf(u)' /\ \A s \in Sems : NoDuplicates(pendQ'[s])
BY DEF IInv, WaitsOK, WaitOf

\* The wait of u ends: the others stay on their lists, u is on none.
LEMMA WaitEnds ==
  ASSUME IInv, NEW u \in Tasks, NEW p \in {"POSTED", "TIMEOUT", "none"},
         mode'[u] # "BLOCKED", \A v \in Tasks \ {u} : mode'[v] = mode[v],
         \A s \in Sems : /\ NoDuplicates(pendQ'[s])
                         /\ \A v \in Tasks : Linked(v, pendQ'[s]) <=> Linked(v, pendQ[s]) /\ v # u,
         pendState' = [pendState EXCEPT ![u] = p],
         \A v \in Tasks \ {u} : clk'[v] = clk[v], clk'[u] # "active",
         \A v \in Tasks \ {u} : op'[v].name = "pend" <=> op[v].name = "pend",
         op'[u].name = "pend" <=> p # "none"
  PROVE  \A v \in Tasks : WaitOf(v)'
<1>1. \A v \in Tasks : pendState'[v] = IF v = u THEN p ELSE pendState[v]
  BY DEF IInv, TypeOK
<1>2. ASSUME NEW v \in Tasks \ {u} PROVE WaitOf(v)'
  <2>1. WaitOf(v)
    BY DEF IInv, WaitsOK
  <2>2. \A s \in Sems : Linked(v, pendQ'[s]) <=> Linked(v, pendQ[s])
    OBVIOUS
  <2> QED BY <1>1, <2>1, <2>2 DEF WaitOf
<1>3. WaitOf(u)'
  BY <1>1 DEF WaitOf, Timeouts
<1> QED BY <1>2, <1>3

-----------------------------------------------------------------------------
(* Every step keeps IInv.                                                  *)

\* Task_schedule, Task_swap and the interrupt dispatcher.
LEMMA KernelStepPreserves ==
  ASSUME IInv, KernelStep
  PROVE  IInv'
<1>1. KernelTypeOK' /\ KernelOK' /\ CallsOK' /\ UNCHANGED <<mode, pc, op, key, count, pendQ, pendState, clk>>
  BY KernelStepCalls DEF callVars, semVars
<1>2. TypeOK'
  BY <1>1 DEF IInv, TypeOK
<1>3. WaitsOK'
  BY <1>1 DEF IInv, WaitsOK, CallOf, WaitOf
<1> QED BY <1>1, <1>2, <1>3 DEF IInv

\* A region that leaves the queues and the waits alone, and in which the call
\* of t moves to l with o.
LEMMA QuietStep ==
  ASSUME IInv, NEW t \in Tasks, NEW l \in PCs, NEW o \in Ops, InTask(t),
         UNCHANGED <<queueVars, swiLocked, phase, pendQ, pendState, clk>>,
         count' \in [Sems -> 0 .. CountLimit - 1],
         pc' = [pc EXCEPT ![t] = l], op' = [op EXCEPT ![t] = o],
         key' \in [Tasks -> BOOLEAN], \A u \in Tasks : ~key'[u],
         locked' \in BOOLEAN, locked' <=> l \in {"region", "restore"}, ~locked' => ~locked,
         pc[t] # "restore", o.name = "pend" <=> op[t].name = "pend",
         o = op[t] \/ o.name # "delete" \/ \A u \in Tasks : op[u] # o,
         l = "user" => o.name = "none", l # "dead", l # "wake",
         l \in {"write", "region"} => o.name \in {"post", "delete"},
         l = "restore" => o.name \in {"post", "delete"},
         o.name = "delete" /\ l \in {"write", "region"} => o.on # t /\ mode[o.on] # "NONE"
  PROVE  IInv'
<1>1. /\ KernelTypeOK /\ KernelOK /\ QueueTypeOK /\ QueuesOK /\ phase = "user" /\ ~isr
      /\ UNCHANGED <<curTask, running, isr, isrKey>> /\ mode[t] = "READY"
      /\ \A u \in Tasks \ {t} : pc[u] \notin {"region", "restore"}
      /\ ~locked => ~workFlag
  BY InCall
<1>2. UNCHANGED <<mode, pri, readyQ, curSet, curQ, workFlag>>
  BY DEF queueVars
<1>3. ~swiLocked /\ swiLocked' \in BOOLEAN
  BY <1>1 DEF IInv, CallsOK, KernelTypeOK, ControlTypeOK
<1>4. QueueTypeOK' /\ QueuesOK'
  BY <1>1, QueuesUnchanged
<1>5. KernelTypeOK' /\ KernelOK'
  BY <1>1, <1>2, <1>3, <1>4, RegionPreserves
<1>6. \A u \in Tasks : /\ pc'[u] = IF u = t THEN l ELSE pc[u]
                       /\ op'[u] = IF u = t THEN o ELSE op[u]
  BY Zenon DEF IInv, TypeOK
<1>7. CallsOK'
  BY <1>1, <1>2, <1>3, <1>6, CallsAfterStep
<1>8. \A u \in Tasks : /\ mode'[u] = "NONE" <=> mode[u] = "NONE"
                       /\ mode'[u] # "TERMINATED"
  BY <1>2 DEF IInv, WaitsOK, CallOf
<1>9. \A u \in Tasks : CallOf(u)'
  BY <1>1, <1>8, CallsKept
<1>10. \A u \in Tasks : WaitOf(u)' /\ \A s \in Sems : NoDuplicates(pendQ'[s])
  BY <1>2, <1>6, WaitsKept
<1>11. TypeOK'
  BY <1>5 DEF IInv, TypeOK
<1>12. WaitsOK'
  BY <1>1, <1>9, <1>10 DEF WaitsOK
<1> QED BY <1>5, <1>7, <1>11, <1>12 DEF IInv

\* The calls of Semaphore_post and Task_delete.
LEMMA CallPreserves ==
  ASSUME IInv, NEW t \in Tasks, NEW o \in Ops, Call(t, o), UNCHANGED semVars,
         o.name \in {"post", "delete"},
         o.name = "delete" => /\ \A u \in Tasks : op[u] # o
                              /\ o.on # t /\ mode[o.on] # "NONE"
  PROVE  IInv'
<1>1. /\ InTask(t) /\ pc[t] = "user" /\ pc' = [pc EXCEPT ![t] = "write"]
      /\ op' = [op EXCEPT ![t] = o] /\ key' = [key EXCEPT ![t] = locked]
      /\ UNCHANGED <<queueVars, locked, swiLocked, phase, count, pendQ, pendState, clk>>
  BY DEF Call, At, Goto, semVars
<1>2. ~locked /\ locked \in BOOLEAN
  BY <1>1, InCall DEF KernelTypeOK, ControlTypeOK
<1>3. op[t].name = "none"
  BY <1>1 DEF IInv, WaitsOK, CallOf
<1>4. key' \in [Tasks -> BOOLEAN] /\ \A u \in Tasks : ~key'[u]
  BY <1>1, <1>2 DEF IInv, TypeOK, CallsOK
<1>5. "write" \in PCs
  BY DEF PCs
<1>6. count' \in [Sems -> 0 .. CountLimit - 1]
  BY <1>1 DEF IInv, TypeOK
<1> QED BY <1>1, <1>2, <1>3, <1>4, <1>5, <1>6, QuietStep

\* The write of Task_disable.
LEMMA LockPreserves ==
  ASSUME IInv, NEW t \in Tasks, Lock(t), UNCHANGED semVars
  PROVE  IInv'
<1>1. /\ InTask(t) /\ pc[t] = "write" /\ pc' = [pc EXCEPT ![t] = "region"] /\ locked' = TRUE
      /\ UNCHANGED <<queueVars, swiLocked, phase, op, key, count, pendQ, pendState, clk>>
  BY DEF Lock, At, Goto, semVars
<1>2. op' = [op EXCEPT ![t] = op[t]] /\ op[t] \in Ops
  BY <1>1 DEF IInv, TypeOK
<1>3. /\ op[t].name \in {"post", "delete"}
      /\ op[t].name = "delete" => op[t].on # t /\ mode[op[t].on] # "NONE"
  BY <1>1 DEF IInv, WaitsOK, CallOf
<1>4. key' \in [Tasks -> BOOLEAN] /\ (\A u \in Tasks : ~key'[u]) /\ count' \in [Sems -> 0 .. CountLimit - 1]
  BY <1>1 DEF IInv, TypeOK, CallsOK
<1>5. "region" \in PCs
  BY DEF PCs
<1> QED BY <1>1, <1>2, <1>3, <1>4, <1>5, QuietStep

\* Semaphore_post of a task, no task waiting.
LEMMA PostCountPreserves ==
  ASSUME IInv, NEW t \in Tasks, PostRegion(t), pendQ[op[t].on] = <<>>
  PROVE  IInv'
<1> DEFINE s == op[t].on
<1>1. /\ InTask(t) /\ pc[t] = "region" /\ pc' = [pc EXCEPT ![t] = "restore"]
      /\ op[t].name = "post" /\ UNCHANGED <<locked, swiLocked, phase, op, key>>
      /\ Increment(s)
  BY DEF PostRegion, Calling, At, Goto, Semaphore_post
<1>2. op' = [op EXCEPT ![t] = op[t]] /\ op[t] \in Ops /\ s \in Sems
  BY <1>1, OpFields DEF IInv, TypeOK
<1>3. /\ count' \in [Sems -> 0 .. CountLimit - 1]
      /\ UNCHANGED <<queueVars, pendQ, pendState, clk>>
  <2>1. (count[s] + 1) % CountLimit \in 0 .. CountLimit - 1 /\ 1 \in 0 .. CountLimit - 1
    BY <1>2, CountLimitAssumption DEF IInv, TypeOK
  <2> QED BY <1>1, <2>1 DEF Increment, IInv, TypeOK
<1>4. key' \in [Tasks -> BOOLEAN] /\ \A u \in Tasks : ~key'[u]
  BY <1>1 DEF IInv, TypeOK, CallsOK
<1>5. locked /\ locked \in BOOLEAN
  BY <1>1, InCall DEF KernelTypeOK, ControlTypeOK
<1>6. "restore" \in PCs
  BY DEF PCs
<1> HIDE DEF s
<1> QED BY <1>1, <1>2, <1>3, <1>4, <1>5, <1>6, QuietStep

\* Task_restore at the end of post, delete and of a pend that has queued the
\* task: a blocked caller leaves the processor, for there is work.
LEMMA ReturnPreserves ==
  ASSUME IInv, NEW t \in Tasks, NEW l \in {"user", "wake"}, Return(t, l), UNCHANGED semVars,
         l = "wake" <=> op[t].name = "pend"
  PROVE  IInv'
<1> DEFINE o == IF l = "wake" THEN op[t] ELSE NoOp
<1>1. /\ InTask(t) /\ pc[t] = "restore" /\ pc' = [pc EXCEPT ![t] = l] /\ Task_restore(key[t])
      /\ key' = [key EXCEPT ![t] = FALSE]
      /\ UNCHANGED <<queueVars, swiLocked, count, pendQ, pendState, clk>>
      /\ op' = [op EXCEPT ![t] = o]
  BY DEF Return, At, Goto, semVars, IInv, TypeOK
<1>2. o \in Ops /\ (o.name = "pend" <=> op[t].name = "pend") /\ (l = "user" => o.name = "none")
      /\ (l = "wake" => o.name = "pend") /\ l \in PCs
  BY OpFields DEF IInv, TypeOK, PCs
<1> HIDE DEF o
<1>3. /\ KernelTypeOK /\ KernelOK /\ running = t /\ phase = "user" /\ ~isr /\ locked
      /\ UNCHANGED <<curTask, running, isr, isrKey>>
      /\ \A u \in Tasks \ {t} : pc[u] \notin {"region", "restore"}
  BY <1>1, InCall
<1>4. /\ ~swiLocked /\ key[t] \in BOOLEAN /\ ~key[t] /\ UNCHANGED <<mode, workFlag>>
      /\ workFlag \/ mode[t] = "READY"
  BY <1>1, <1>3 DEF IInv, CallsOK, TypeOK, queueVars
<1>5. KernelTypeOK' /\ KernelOK'
  BY <1>1, <1>3, <1>4, RestorePreserves
<1>6. \/ workFlag /\ phase' = "pick" /\ locked'
      \/ ~workFlag /\ phase' = "user" /\ ~locked'
  BY <1>1, <1>3, <1>4 DEF Task_restore, Swi_enabled
<1>7. \A u \in Tasks : /\ pc'[u] = IF u = t THEN l ELSE pc[u]
                       /\ op'[u] = IF u = t THEN o ELSE op[u]
  BY <1>1, OthersStay
<1>8. key' \in [Tasks -> BOOLEAN] /\ \A u \in Tasks : ~key'[u]
  BY <1>1 DEF IInv, TypeOK, CallsOK
<1>9. CallsOK'
  BY <1>1, <1>3, <1>4, <1>6, <1>7, <1>8 DEF CallsOK
<1>10. \A u \in Tasks : /\ mode'[u] = "NONE" <=> mode[u] = "NONE"
                        /\ mode'[u] # "TERMINATED"
  BY <1>4 DEF IInv, WaitsOK, CallOf
<1>11. mode[t] # "NONE" /\ l # "dead" /\ l \notin {"write", "region", "restore"}
  BY <1>1 DEF IInv, WaitsOK, CallOf
<1>12. o = op[t] \/ o.name # "delete"
  BY <1>2
<1>13. \A u \in Tasks : CallOf(u)'
  BY <1>1, <1>2, <1>10, <1>11, <1>12, CallsKept
<1>14. \A u \in Tasks : WaitOf(u)' /\ \A s \in Sems : NoDuplicates(pendQ'[s])
  BY <1>1, <1>2, <1>4, <1>7, WaitsKept
<1>15. TypeOK'
  BY <1>1, <1>2, <1>5, <1>8 DEF IInv, TypeOK
<1>16. WaitsOK'
  BY <1>13, <1>14 DEF WaitsOK
<1> QED BY <1>5, <1>9, <1>15, <1>16 DEF IInv

\* The token goes to the first waiter: it is blocked, it becomes ready, and it
\* is on no list any more.
LEMMA HandOverPreserves ==
  ASSUME IInv, NEW s \in Sems, pendQ[s] # <<>>, HandOver(s), UNCHANGED curTask,
         \A v \in Tasks : op'[v].name = "pend" <=> op[v].name = "pend"
  PROVE  LET u == Head(pendQ[s])
         IN  /\ u \in Tasks /\ mode[u] = "BLOCKED" /\ mode' = [mode EXCEPT ![u] = "READY"]
             /\ QueueTypeOK' /\ QueuesOK' /\ workFlag'
             /\ count' \in [Sems -> 0 .. CountLimit - 1] /\ pendQ' \in [Sems -> Seq(Tasks)]
             /\ pendState' \in [Tasks -> PendStates] /\ clk' \in [Tasks -> Clocks]
             /\ \A r \in Sems : NoDuplicates(pendQ'[r])
             /\ \A v \in Tasks : WaitOf(v)'
<1> DEFINE u == Head(pendQ[s])
<1>1. /\ pendQ' = [pendQ EXCEPT ![s] = Tail(@)]
      /\ pendState' = [pendState EXCEPT ![u] = "POSTED"]
      /\ clk' = [clk EXCEPT ![u] = IF @ = "active" THEN "stopped" ELSE @]
      /\ Task_unblockI(u) /\ UNCHANGED count
  BY DEF HandOver
<1>2. pendQ[s] \in Seq(Tasks) /\ NoDuplicates(pendQ[s])
  BY DEF IInv, TypeOK, WaitsOK
<1>3. u \in Tasks /\ Linked(u, pendQ[s])
  BY <1>2, TailElements
<1>4. Tail(pendQ[s]) \in Seq(Tasks) /\ NoDuplicates(Tail(pendQ[s]))
  BY <1>2, TailElements
<1>5. \A v \in Tasks : Linked(v, Tail(pendQ[s])) <=> Linked(v, pendQ[s]) /\ v # u
  BY <1>2, TailIsRest
<1> HIDE DEF u
<1>6. WaitOf(u)
  BY <1>3 DEF IInv, WaitsOK
<1>7. mode[u] = "BLOCKED" /\ op[u].name = "pend"
  BY <1>3, <1>6 DEF WaitOf, Timeouts
<1>8. QueueTypeOK /\ QueuesOK
  BY DEF IInv, TypeOK, KernelTypeOK, KernelOK
<1>9. QueueTypeOK' /\ QueuesOK' /\ workFlag'
  BY <1>1, <1>3, <1>7, <1>8, Task_unblockIPreserves
<1>10. mode' = [mode EXCEPT ![u] = "READY"]
  BY <1>1 DEF Task_unblockI, Readied
<1>11. /\ count' \in [Sems -> 0 .. CountLimit - 1] /\ pendQ' \in [Sems -> Seq(Tasks)]
       /\ pendState' \in [Tasks -> PendStates] /\ clk' \in [Tasks -> Clocks]
  BY <1>1, <1>3, <1>4 DEF IInv, TypeOK, PendStates, Clocks
<1>12. ASSUME NEW r \in Sems
       PROVE  /\ NoDuplicates(pendQ'[r])
              /\ \A v \in Tasks : Linked(v, pendQ'[r]) <=> Linked(v, pendQ[r]) /\ v # u
  <2>1. CASE r = s
    <3>1. pendQ'[r] = Tail(pendQ[s])
      BY <1>1, <2>1 DEF IInv, TypeOK
    <3> QED BY <1>4, <1>5, <2>1, <3>1
  <2>2. CASE r # s
    <3>1. pendQ'[r] = pendQ[r]
      BY <1>1, <2>2 DEF IInv, TypeOK
    <3>2. ~Linked(u, pendQ[r])
      BY <1>3, <1>6, <2>2 DEF WaitOf
    <3>3. NoDuplicates(pendQ[r])
      BY DEF IInv, WaitsOK
    <3> QED BY <3>1, <3>2, <3>3
  <2> QED BY <2>1, <2>2
<1>13. mode'[u] # "BLOCKED" /\ \A v \in Tasks \ {u} : mode'[v] = mode[v]
  BY <1>3, <1>8, <1>10 DEF QueueTypeOK
<1>14. clk'[u] # "active" /\ \A v \in Tasks \ {u} : clk'[v] = clk[v]
  BY <1>1, <1>3 DEF IInv, TypeOK
<1>15. \A v \in Tasks : WaitOf(v)'
  BY <1>1, <1>3, <1>7, <1>12, <1>13, <1>14, WaitEnds
<1> QED BY <1>3, <1>7, <1>9, <1>10, <1>11, <1>12, <1>15 DEF u

\* Semaphore_post of a task, to a waiter.
LEMMA PostWaiterPreserves ==
  ASSUME IInv, NEW t \in Tasks, PostRegion(t), pendQ[op[t].on] # <<>>
  PROVE  IInv'
<1> DEFINE s == op[t].on
           u == Head(pendQ[s])
<1>1. /\ InTask(t) /\ pc[t] = "region" /\ pc' = [pc EXCEPT ![t] = "restore"]
      /\ op[t].name = "post" /\ UNCHANGED <<locked, swiLocked, phase, op, key>>
      /\ HandOver(s) /\ pendQ[s] # <<>>
  BY DEF PostRegion, Calling, At, Goto, Semaphore_post
<1>2. s \in Sems /\ op[t] \in Ops
  BY <1>1, OpFields DEF IInv, TypeOK
<1>3. /\ KernelTypeOK /\ KernelOK /\ phase = "user" /\ ~isr
      /\ UNCHANGED <<curTask, running, isr, isrKey>> /\ mode[t] = "READY" /\ locked
      /\ \A v \in Tasks \ {t} : pc[v] \notin {"region", "restore"}
  BY <1>1, InCall
<1> HIDE DEF s
<1>4. /\ u \in Tasks /\ mode[u] = "BLOCKED" /\ mode' = [mode EXCEPT ![u] = "READY"]
      /\ QueueTypeOK' /\ QueuesOK' /\ workFlag'
      /\ count' \in [Sems -> 0 .. CountLimit - 1] /\ pendQ' \in [Sems -> Seq(Tasks)]
      /\ pendState' \in [Tasks -> PendStates] /\ clk' \in [Tasks -> Clocks]
      /\ \A r \in Sems : NoDuplicates(pendQ'[r])
      /\ \A v \in Tasks : WaitOf(v)'
  BY <1>1, <1>2, <1>3, HandOverPreserves
<1> HIDE DEF u
<1>5. ~swiLocked /\ swiLocked' \in BOOLEAN /\ locked' \in BOOLEAN
  BY <1>1, <1>3 DEF KernelTypeOK, ControlTypeOK, IInv, CallsOK
<1>6. KernelTypeOK' /\ KernelOK'
  BY <1>1, <1>3, <1>4, <1>5, RegionPreserves
<1>7. \A v \in Tasks : mode'[v] = IF v = u THEN "READY" ELSE mode[v]
  BY <1>4 DEF IInv, TypeOK, KernelTypeOK, QueueTypeOK
<1>8. \A v \in Tasks : pc'[v] = IF v = t THEN "restore" ELSE pc[v]
  BY <1>1 DEF IInv, TypeOK
<1>9. CallsOK'
  <2>1. \A v \in Tasks : ~key'[v]
    BY <1>1 DEF IInv, CallsOK
  <2> QED BY <1>1, <1>3, <1>4, <1>5, <1>7, <1>8, <2>1, CallsAfterStep
<1>10. \A v \in Tasks : CallOf(v)'
  <2>1. \A v \in Tasks : (mode'[v] = "NONE" <=> mode[v] = "NONE") /\ mode'[v] # "TERMINATED"
    BY <1>4, <1>7 DEF IInv, WaitsOK, CallOf
  <2>2. op' = [op EXCEPT ![t] = op[t]] /\ "restore" \in PCs
    BY <1>1 DEF IInv, TypeOK, PCs
  <2> QED BY <1>1, <1>2, <1>3, <2>1, <2>2, CallsKept
<1>11. TypeOK'
  BY <1>1, <1>4, <1>6, <1>8 DEF IInv, TypeOK, PCs
<1>12. WaitsOK'
  BY <1>4, <1>10 DEF WaitsOK
<1> QED BY <1>6, <1>9, <1>11, <1>12 DEF IInv

\* An operation of an interrupt that readies u, whose wait it ends.
LEMMA HwiReadies ==
  ASSUME IInv, NEW u \in Tasks, InHwi, mode[u] = "BLOCKED", mode' = [mode EXCEPT ![u] = "READY"],
         QueueTypeOK', QueuesOK', workFlag', UNCHANGED callVars,
         count' \in [Sems -> 0 .. CountLimit - 1], pendQ' \in [Sems -> Seq(Tasks)],
         pendState' \in [Tasks -> PendStates], clk' \in [Tasks -> Clocks],
         \A r \in Sems : NoDuplicates(pendQ'[r]), \A v \in Tasks : WaitOf(v)'
  PROVE  IInv'
<1>1. KernelTypeOK /\ KernelOK /\ curTask \in Tasks /\ running \in Tasks
  BY DEF IInv, TypeOK, KernelTypeOK, ControlTypeOK
<1>2. \A v \in Tasks : mode'[v] = IF v = u THEN "READY" ELSE mode[v]
  BY <1>1 DEF KernelTypeOK, QueueTypeOK
<1>3. KernelTypeOK' /\ KernelOK'
  BY <1>1, <1>2, HwiPreserves
<1>4. CallsOK'
  BY <1>1, <1>2, CallsAfterHwi
<1>5. UNCHANGED <<pc, op, key>>
  BY DEF callVars
<1>6. \A v \in Tasks : CallOf(v)'
  <2>1. \A v \in Tasks : (mode'[v] = "NONE" <=> mode[v] = "NONE") /\ mode'[v] # "TERMINATED"
    BY <1>2 DEF IInv, WaitsOK, CallOf
  <2>2. \A v \in Tasks : op[v].name = "delete" /\ pc[v] \in {"write", "region"} => op[v].on \in Tasks
    BY OpFields DEF IInv, TypeOK
  <2> QED BY <1>5, <2>1, <2>2 DEF IInv, WaitsOK, CallOf
<1>7. TypeOK'
  BY <1>3, <1>5 DEF IInv, TypeOK
<1>8. WaitsOK'
  BY <1>6 DEF WaitsOK
<1> QED BY <1>3, <1>4, <1>7, <1>8 DEF IInv

\* Semaphore_post of an interrupt.
LEMMA HwiPostPreserves ==
  ASSUME IInv, NEW s \in Sems, HwiPost(s)
  PROVE  IInv'
<1>1. InHwi /\ UNCHANGED callVars /\ UNCHANGED <<curTask, locked, swiLocked, running, phase, isr, isrKey>>
  BY DEF HwiPost, InHwi, hwiVars
<1>2. CASE pendQ[s] = <<>>
  <2>1. Increment(s)
    BY <1>2 DEF HwiPost, Semaphore_post
  <2>2. (count[s] + 1) % CountLimit \in 0 .. CountLimit - 1 /\ 1 \in 0 .. CountLimit - 1
    BY CountLimitAssumption DEF IInv, TypeOK
  <2>3. count' \in [Sems -> 0 .. CountLimit - 1]
    BY <2>1, <2>2 DEF Increment, IInv, TypeOK
  <2>4. UNCHANGED <<kernelVars, callVars, pendQ, pendState, clk>>
    BY <1>1, <2>1 DEF Increment, queueVars, kernelVars
  <2> QED BY <2>3, <2>4, CountOnly
<1>3. CASE pendQ[s] # <<>>
  <2>1. HandOver(s)
    BY <1>3 DEF HwiPost, Semaphore_post
  <2>2. \A v \in Tasks : op'[v].name = "pend" <=> op[v].name = "pend"
    BY <1>1 DEF callVars
  <2> QED BY <1>1, <1>3, <2>1, <2>2, HandOverPreserves, HwiReadies
<1> QED BY <1>2, <1>3

\* A pend that finds a token, of an interrupt or of a task, and Semaphore_reset.
LEMMA TakePreserves ==
  ASSUME IInv, NEW s \in Sems, Decrement(s), UNCHANGED <<kernelVars, callVars>>
  PROVE  IInv'
<1>1. count[s] - 1 \in 0 .. CountLimit - 1
  BY CountLimitAssumption DEF Decrement, IInv, TypeOK
<1>2. count' \in [Sems -> 0 .. CountLimit - 1] /\ UNCHANGED <<pendQ, pendState, clk>>
  BY <1>1 DEF Decrement, IInv, TypeOK
<1> QED BY <1>2, CountOnly

\* Semaphore_pend of an interrupt, with BIOS_NO_WAIT.
LEMMA HwiTakePreserves ==
  ASSUME IInv, NEW s \in Sems, HwiTake(s)
  PROVE  IInv'
<1>1. Decrement(s) /\ UNCHANGED <<kernelVars, callVars>>
  BY DEF HwiTake, InHwi, hwiVars, queueVars, kernelVars
<1> QED BY <1>1, TakePreserves

\* Semaphore_pend of a task that finds a token.
LEMMA PendTakePreserves ==
  ASSUME IInv, NEW t \in Tasks, NEW s \in Sems, PendTake(t, s)
  PROVE  IInv'
<1>1. Decrement(s) /\ UNCHANGED <<kernelVars, callVars>>
  BY DEF PendTake, At, InTask, hwiVars, queueVars, kernelVars
<1> QED BY <1>1, TakePreserves

\* Semaphore_reset.
LEMMA Semaphore_resetPreserves ==
  ASSUME IInv, NEW t \in Tasks, NEW s \in Sems, NEW n \in 0 .. CountLimit - 1,
         Semaphore_reset(t, s, n)
  PROVE  IInv'
<1>1. UNCHANGED <<kernelVars, callVars, pendQ, pendState, clk>>
  BY DEF Semaphore_reset, At, InTask, hwiVars, queueVars, kernelVars
<1>2. count' \in [Sems -> 0 .. CountLimit - 1]
  BY DEF Semaphore_reset, IInv, TypeOK
<1> QED BY <1>1, <1>2, CountOnly

\* An interrupt that changes a Clock object, and no wait with it.
LEMMA ClockOnly ==
  ASSUME IInv, NEW t \in Tasks, NEW c \in Clocks, clk' = [clk EXCEPT ![t] = c],
         c # "active", pendState[t] = "CLOCK_WAIT" => c = "firing",
         UNCHANGED <<kernelVars, callVars, count, pendQ, pendState>>
  PROVE  IInv'
<1>1. UNCHANGED <<mode, pri, readyQ, curSet, curQ, curTask, workFlag, locked, swiLocked, running,
                  phase, isr, isrKey, pc, op, key, count, pendQ, pendState>>
  BY DEF kernelVars, callVars
<1>2. \A u \in Tasks : clk'[u] = IF u = t THEN c ELSE clk[u]
  BY DEF IInv, TypeOK
<1>3. TypeOK'
  BY <1>1 DEF IInv, TypeOK, KernelTypeOK, QueueTypeOK, ControlTypeOK
<1>4. KernelOK'
  BY <1>1 DEF IInv, KernelOK, QueuesOK, ReadyListsOK, CurSetOK, CurQOK, NoLostReschedule, ControlOK
<1>5. CallsOK'
  BY <1>1 DEF IInv, CallsOK
<1>6. ASSUME NEW u \in Tasks PROVE CallOf(u)' /\ WaitOf(u)'
  <2>1. CallOf(u) /\ WaitOf(u)
    BY DEF IInv, WaitsOK
  <2>2. CallOf(u)'
    BY <1>1, <2>1 DEF CallOf
  <2>3. WaitOf(u)'
    BY <1>1, <1>2, <2>1 DEF WaitOf
  <2> QED BY <2>2, <2>3
<1>7. WaitsOK'
  BY <1>1, <1>6 DEF IInv, WaitsOK
<1> QED BY <1>3, <1>4, <1>5, <1>7 DEF IInv

\* The Clock Swi takes up an expired Clock object.
LEMMA ClockExpiresPreserves ==
  ASSUME IInv, NEW t \in Tasks, ClockExpires(t)
  PROVE  IInv'
<1>1. UNCHANGED <<kernelVars, callVars, count, pendQ, pendState>>
  BY DEF ClockExpires, InHwi, hwiVars, queueVars, kernelVars
<1>2. clk' = [clk EXCEPT ![t] = "firing"] /\ "firing" \in Clocks
  BY DEF ClockExpires, Clocks
<1> QED BY <1>1, <1>2, ClockOnly

\* The lists without u, a task that is on one of them at most.
LEMMA UnpendedLists ==
  ASSUME NEW u \in Tasks, \A s \in Sems : pendQ[s] \in Seq(Tasks) /\ NoDuplicates(pendQ[s])
  PROVE  /\ Unpended(u) \in [Sems -> Seq(Tasks)]
         /\ \A s \in Sems :
              /\ NoDuplicates(Unpended(u)[s])
              /\ \A v \in Tasks : Linked(v, Unpended(u)[s]) <=> Linked(v, pendQ[s]) /\ v # u
<1>1. ASSUME NEW s \in Sems
      PROVE  /\ Unpended(u)[s] \in Seq(Tasks)
             /\ NoDuplicates(Unpended(u)[s])
             /\ \A v \in Tasks : Linked(v, Unpended(u)[s]) <=> Linked(v, pendQ[s]) /\ v # u
  <2>1. pendQ[s] \in Seq(Tasks) /\ NoDuplicates(pendQ[s])
    OBVIOUS
  <2>2. CASE Linked(u, pendQ[s])
    <3>1. Unpended(u)[s] = Queue_remove(pendQ[s], u)
      BY <2>2 DEF Unpended
    <3> QED BY <2>1, <2>2, <3>1, RemoveElement
  <2>3. CASE ~Linked(u, pendQ[s])
    <3>1. Unpended(u)[s] = pendQ[s]
      BY <2>3 DEF Unpended
    <3> QED BY <2>1, <2>3, <3>1
  <2> QED BY <2>2, <2>3
<1> QED BY <1>1 DEF Unpended

\* Semaphore_pendTimeout: it ends the wait unless a post has ended it.
LEMMA PendTimeoutPreserves ==
  ASSUME IInv, NEW t \in Tasks, Semaphore_pendTimeout(t)
  PROVE  IInv'
<1>1. /\ InHwi /\ clk[t] = "firing" /\ clk' = [clk EXCEPT ![t] = "stopped"]
      /\ UNCHANGED <<callVars, count>>
  BY DEF Semaphore_pendTimeout
<1>2. CASE pendState[t] # "CLOCK_WAIT"
  <2>1. UNCHANGED <<kernelVars, callVars, count, pendQ, pendState>>
    BY <1>1, <1>2 DEF Semaphore_pendTimeout, InHwi, hwiVars, queueVars, kernelVars
  <2>2. "stopped" \in Clocks
    BY DEF Clocks
  <2> QED BY <1>1, <1>2, <2>1, <2>2, ClockOnly
<1>3. CASE pendState[t] = "CLOCK_WAIT"
  <2>1. pendQ' = Unpended(t) /\ pendState' = [pendState EXCEPT ![t] = "TIMEOUT"] /\ Task_unblockI(t)
    BY <1>3 DEF Semaphore_pendTimeout
  <2>2. mode[t] = "BLOCKED" /\ op[t].name = "pend"
    BY <1>3 DEF IInv, WaitsOK, WaitOf, Timeouts
  <2>3. QueueTypeOK /\ QueuesOK /\ UNCHANGED curTask
    BY <1>1 DEF IInv, TypeOK, KernelTypeOK, KernelOK, InHwi
  <2>4. QueueTypeOK' /\ QueuesOK' /\ workFlag'
    BY <2>1, <2>2, <2>3, Task_unblockIPreserves
  <2>5. mode' = [mode EXCEPT ![t] = "READY"]
    BY <2>1 DEF Task_unblockI, Readied
  <2>6. mode'[t] # "BLOCKED" /\ \A v \in Tasks \ {t} : mode'[v] = mode[v]
    BY <2>3, <2>5 DEF QueueTypeOK
  <2>7. clk'[t] # "active" /\ \A v \in Tasks \ {t} : clk'[v] = clk[v]
    BY <1>1 DEF IInv, TypeOK
  <2>8. \A s \in Sems : /\ NoDuplicates(pendQ'[s])
                        /\ \A v \in Tasks : Linked(v, pendQ'[s]) <=> Linked(v, pendQ[s]) /\ v # t
    BY <2>1, UnpendedLists DEF IInv, TypeOK, WaitsOK
  <2>9. UNCHANGED op
    BY <1>1 DEF callVars
  <2>10. \A v \in Tasks : WaitOf(v)'
    BY <2>1, <2>2, <2>6, <2>7, <2>8, <2>9, WaitEnds
  <2>11. /\ count' \in [Sems -> 0 .. CountLimit - 1] /\ pendQ' \in [Sems -> Seq(Tasks)]
         /\ pendState' \in [Tasks -> PendStates] /\ clk' \in [Tasks -> Clocks]
    BY <1>1, <2>1, UnpendedLists DEF IInv, TypeOK, WaitsOK, PendStates, Clocks
  <2> QED BY <1>1, <2>2, <2>4, <2>5, <2>8, <2>10, <2>11, HwiReadies
<1> QED BY <1>2, <1>3

\* Task_setPri by an interrupt.
LEMMA HwiSetPriPreserves ==
  ASSUME IInv, NEW t \in Tasks, NEW p \in HwiLevels, HwiSetPri(t, p)
  PROVE  IInv'
<1>1. InHwi /\ Task_setPri(t, p) /\ UNCHANGED <<callVars, semVars>>
  BY DEF HwiSetPri
<1>2. KernelTypeOK /\ KernelOK /\ QueueTypeOK /\ QueuesOK /\ UNCHANGED curTask /\ p \in Level
  BY <1>1, HwiLevelsAssumption DEF IInv, TypeOK, KernelTypeOK, KernelOK, InHwi
<1>3. QueueTypeOK' /\ QueuesOK' /\ (workFlag' \/ UNCHANGED queueVars) /\ UNCHANGED mode
  BY <1>1, <1>2, Task_setPriPreserves
<1>4. KernelTypeOK' /\ KernelOK'
  BY <1>1, <1>2, <1>3, HwiPreserves
<1>5. CallsOK'
  BY <1>1, <1>3, CallsAfterHwi DEF queueVars
<1>6. UNCHANGED <<mode, pc, op, key, count, pendQ, pendState, clk>>
  BY <1>1, <1>3 DEF callVars, semVars
<1>7. TypeOK' /\ WaitsOK'
  BY <1>4, <1>6 DEF IInv, TypeOK, WaitsOK, CallOf, WaitOf
<1> QED BY <1>4, <1>5, <1>7 DEF IInv

\* The end of a pend: the wait is over, and its outcome is taken.
LEMMA PendReturnPreserves ==
  ASSUME IInv, NEW t \in Tasks, PendReturn(t)
  PROVE  IInv'
<1>1. /\ InTask(t) /\ pc[t] = "wake" /\ pc' = [pc EXCEPT ![t] = "user"]
      /\ clk' = [clk EXCEPT ![t] = "none"] /\ pendState' = [pendState EXCEPT ![t] = "none"]
      /\ op' = [op EXCEPT ![t] = NoOp]
      /\ UNCHANGED <<queueVars, locked, swiLocked, phase, key, count, pendQ>>
  BY DEF PendReturn, At, Goto
<1>2. /\ KernelTypeOK /\ KernelOK /\ QueueTypeOK /\ QueuesOK /\ phase = "user" /\ ~isr
      /\ UNCHANGED <<curTask, running, isr, isrKey>> /\ mode[t] = "READY" /\ ~locked
      /\ \A v \in Tasks \ {t} : pc[v] \notin {"region", "restore"}
      /\ ~workFlag
  BY <1>1, InCall
<1>3. UNCHANGED <<mode, pri, readyQ, curSet, curQ, workFlag>>
  BY <1>1 DEF queueVars
<1>4. ~swiLocked /\ swiLocked' \in BOOLEAN /\ locked' \in BOOLEAN
  BY <1>1, <1>2 DEF IInv, CallsOK, KernelTypeOK, ControlTypeOK
<1>5. KernelTypeOK' /\ KernelOK'
  BY <1>1, <1>2, <1>3, <1>4, QueuesUnchanged, RegionPreserves
<1>6. \A v \in Tasks : /\ pc'[v] = IF v = t THEN "user" ELSE pc[v]
                       /\ op'[v] = IF v = t THEN NoOp ELSE op[v]
                       /\ clk'[v] = IF v = t THEN "none" ELSE clk[v]
  BY <1>1 DEF IInv, TypeOK
<1>7. CallsOK'
  <2>1. \A v \in Tasks : ~key'[v]
    BY <1>1 DEF IInv, CallsOK
  <2> QED BY <1>1, <1>2, <1>3, <1>4, <1>6, <2>1, CallsAfterStep
<1>8. \A v \in Tasks : CallOf(v)'
  <2>1. \A v \in Tasks : (mode'[v] = "NONE" <=> mode[v] = "NONE") /\ mode'[v] # "TERMINATED"
    BY <1>3 DEF IInv, WaitsOK, CallOf
  <2>2. "user" \in PCs
    BY DEF PCs
  <2> QED BY <1>1, <1>2, <2>1, <2>2, OpFields, CallsKept
<1>9. \A v \in Tasks : WaitOf(v)'
  <2>1. \A s \in Sems : ~Linked(t, pendQ[s]) /\ NoDuplicates(pendQ[s])
    BY <1>2 DEF IInv, WaitsOK, WaitOf
  <2>2. \A s \in Sems : /\ NoDuplicates(pendQ'[s])
                        /\ \A v \in Tasks : Linked(v, pendQ'[s]) <=> Linked(v, pendQ[s]) /\ v # t
    BY <1>1, <2>1
  <2>3. /\ mode'[t] # "BLOCKED" /\ \A v \in Tasks \ {t} : mode'[v] = mode[v]
        /\ clk'[t] # "active" /\ \A v \in Tasks \ {t} : clk'[v] = clk[v]
        /\ op'[t].name # "pend" /\ \A v \in Tasks \ {t} : op'[v] = op[v]
    BY <1>2, <1>3, <1>6, OpFields
  <2> QED BY <1>1, <2>2, <2>3, WaitEnds
<1>10. TypeOK'
  BY <1>1, <1>5, OpFields DEF IInv, TypeOK, PCs, PendStates, Clocks
<1>11. WaitsOK'
  BY <1>1, <1>8, <1>9 DEF IInv, WaitsOK
<1> QED BY <1>5, <1>7, <1>10, <1>11 DEF IInv

\* A call of Task_delete names a task and nothing else.
LEMMA DeleteOp ==
  ASSUME NEW o \in Ops, o.name = "delete"
  PROVE  o = [name |-> "delete", on |-> o.on] /\ o.on \in Tasks
BY DEF Ops

\* Task_delete of a task that may be waiting: nobody else deletes it, so its
\* name is on no other call when it is gone.
LEMMA DeleteRegionPreserves ==
  ASSUME IInv, NEW t \in Tasks, DeleteRegion(t)
  PROVE  IInv'
<1> DEFINE u == op[t].on
<1>1. /\ InTask(t) /\ pc[t] = "region" /\ op[t].name = "delete"
      /\ Task_unlink(u)
      /\ pendQ' = IF mode[u] = "BLOCKED" THEN Unpended(u) ELSE pendQ
      /\ clk' = [clk EXCEPT ![u] = "none"]
      /\ pendState' = [pendState EXCEPT ![u] = "none"]
      /\ pc' = [pc EXCEPT ![u] = "dead", ![t] = "restore"]
      /\ op' = [op EXCEPT ![u] = NoOp]
      /\ UNCHANGED <<locked, swiLocked, phase, key, count>>
  BY DEF DeleteRegion, Calling, At
<1>2. op[t] \in Ops /\ CallOf(t)
  BY DEF IInv, TypeOK, WaitsOK
<1>3. u \in Tasks /\ op[t] = [name |-> "delete", on |-> u]
  BY <1>1, <1>2, DeleteOp
<1>4. u # t /\ mode[u] # "NONE"
  BY <1>1, <1>2 DEF CallOf
<1> HIDE DEF u
<1>5. /\ KernelTypeOK /\ KernelOK /\ QueueTypeOK /\ QueuesOK /\ phase = "user" /\ ~isr
      /\ UNCHANGED <<curTask, running, isr, isrKey>> /\ mode[t] = "READY" /\ locked /\ curTask = t
      /\ \A v \in Tasks \ {t} : pc[v] \notin {"region", "restore"}
  BY <1>1, InCall
<1>6. QueueTypeOK' /\ QueuesOK' /\ UNCHANGED <<workFlag, curQ>> /\ curSet' \subseteq curSet
  BY <1>1, <1>3, <1>4, <1>5, Task_unlinkPreserves DEF Task_unlink
<1>7. ~swiLocked /\ swiLocked' \in BOOLEAN /\ locked' \in BOOLEAN
  BY <1>1, <1>5 DEF IInv, CallsOK, KernelTypeOK, ControlTypeOK
<1>8. KernelTypeOK' /\ KernelOK'
  BY <1>1, <1>5, <1>6, <1>7, RegionPreserves
<1>9. \A v \in Tasks : mode'[v] = IF v = u THEN "NONE" ELSE mode[v]
  BY <1>1, <1>3, <1>5 DEF Task_unlink, QueueTypeOK
<1>10. \A v \in Tasks : /\ pc'[v] = IF v = t THEN "restore" ELSE IF v = u THEN "dead" ELSE pc[v]
                        /\ op'[v] = IF v = u THEN NoOp ELSE op[v]
                        /\ clk'[v] = IF v = u THEN "none" ELSE clk[v]
  BY <1>1, <1>3, <1>4 DEF IInv, TypeOK
<1>11. CallsOK'
  <2>1. \A v \in Tasks : ~key'[v]
    BY <1>1 DEF IInv, CallsOK
  <2>2. op'[t].name = "delete" /\ mode'[t] = "READY"
    BY <1>1, <1>4, <1>5, <1>9, <1>10
  <2>3. pc'[t] = "restore" /\ \A v \in Tasks \ {t} : pc'[v] \notin {"region", "restore"}
    BY <1>5, <1>10
  <2>4. InTask(t) /\ phase' = "user" /\ ~swiLocked' /\ locked'
    BY <1>1, <1>5, <1>7
  <2> QED BY <2>1, <2>2, <2>3, <2>4, CallsAfterStep
<1>12. ASSUME NEW v \in Tasks PROVE CallOf(v)'
  <2>1. CallOf(v) /\ op[v] \in Ops
    BY DEF IInv, WaitsOK, TypeOK
  <2>2. CASE v = u
    BY <1>4, <1>9, <1>10, <2>2, OpFields DEF CallOf
  <2>3. CASE v = t
    <3>1. pc'[v] = "restore" /\ op'[v] = op[v] /\ mode'[v] = mode[v] /\ mode[v] = "READY"
      BY <1>4, <1>5, <1>9, <1>10, <2>3
    <3>2. ASSUME NEW w \in Tasks, op'[w] = op'[v] PROVE w = v
      BY <1>1, <1>10, <2>1, <2>3, <3>1, <3>2, OpFields DEF CallOf
    <3> QED BY <1>1, <2>3, <3>1, <3>2 DEF CallOf
  <2>4. CASE v # u /\ v # t
    <3>1. pc'[v] = pc[v] /\ op'[v] = op[v] /\ mode'[v] = mode[v]
      BY <1>9, <1>10, <2>4
    <3>2. op[v].name = "delete" => op[v].on # u /\ op[v].on \in Tasks
      BY <1>1, <1>2, <1>3, <2>1, <2>4, DeleteOp DEF CallOf
    <3>3. op[v].name = "delete" => mode'[op[v].on] = mode[op[v].on]
      BY <1>9, <3>2
    <3>4. ASSUME NEW w \in Tasks, op'[v].name = "delete", op'[w] = op'[v] PROVE w = v
      BY <1>10, <2>1, <3>1, <3>4, OpFields DEF CallOf
    <3> QED BY <2>1, <3>1, <3>3, <3>4 DEF CallOf
  <2> QED BY <2>2, <2>3, <2>4
<1>13. ASSUME NEW s \in Sems
       PROVE  /\ NoDuplicates(pendQ'[s])
              /\ \A v \in Tasks : Linked(v, pendQ'[s]) <=> Linked(v, pendQ[s]) /\ v # u
  <2>1. CASE mode[u] = "BLOCKED"
    BY <1>1, <1>3, <2>1, UnpendedLists DEF IInv, TypeOK, WaitsOK
  <2>2. CASE mode[u] # "BLOCKED"
    <3>1. ~Linked(u, pendQ[s]) /\ NoDuplicates(pendQ[s]) /\ pendQ' = pendQ
      BY <1>1, <1>3, <2>2 DEF IInv, WaitsOK, WaitOf
    <3> QED BY <3>1
  <2> QED BY <2>1, <2>2
<1>14. \A v \in Tasks : WaitOf(v)'
  <2>1. /\ mode'[u] # "BLOCKED" /\ \A v \in Tasks \ {u} : mode'[v] = mode[v]
        /\ clk'[u] # "active" /\ \A v \in Tasks \ {u} : clk'[v] = clk[v]
        /\ op'[u].name # "pend" /\ \A v \in Tasks \ {u} : op'[v] = op[v]
    BY <1>3, <1>9, <1>10, OpFields
  <2> QED BY <1>1, <1>3, <1>13, <2>1, WaitEnds
<1>15. TypeOK'
  <2>1. pendQ' \in [Sems -> Seq(Tasks)]
    BY <1>1, <1>3, UnpendedLists DEF IInv, TypeOK, WaitsOK
  <2> QED BY <1>1, <1>3, <1>8, <2>1, OpFields DEF IInv, TypeOK, PCs, PendStates, Clocks
<1>16. WaitsOK'
  BY <1>12, <1>13, <1>14 DEF WaitsOK
<1> QED BY <1>8, <1>11, <1>15, <1>16 DEF IInv

\* A task that finds no token goes off its ready list and on the waiting list.
LEMMA PendBlockPreserves ==
  ASSUME IInv, NEW t \in Tasks, NEW s \in Sems, NEW how \in Timeouts, PendBlock(t, s, how)
  PROVE  IInv'
<1> DEFINE o == [name |-> "pend", on |-> s]
<1>1. /\ InTask(t) /\ pc[t] = "user" /\ pc' = [pc EXCEPT ![t] = "restore"]
      /\ locked' = TRUE /\ op' = [op EXCEPT ![t] = o] /\ key' = [key EXCEPT ![t] = locked]
      /\ UNCHANGED <<swiLocked, phase, count>>
      /\ Task_blockI(t)
      /\ pendQ' = [pendQ EXCEPT ![s] = Queued(t, s)]
      /\ pendState' = [pendState EXCEPT ![t] = how]
      /\ clk' = [clk EXCEPT ![t] = IF how = "CLOCK_WAIT" THEN "active" ELSE "none"]
  BY DEF PendBlock, LockToBlock, At, Goto, StartClock, Queued
<1>2. o \in Ops /\ o.name = "pend"
  BY OpFields
<1> HIDE DEF o
<1>3. /\ KernelTypeOK /\ KernelOK /\ QueueTypeOK /\ QueuesOK /\ phase = "user" /\ ~isr
      /\ UNCHANGED <<curTask, running, isr, isrKey>> /\ mode[t] = "READY" /\ ~locked
      /\ \A v \in Tasks \ {t} : pc[v] \notin {"region", "restore"}
  BY <1>1, InCall
<1>4. QueueTypeOK' /\ QueuesOK' /\ workFlag'
  BY <1>1, <1>3, LeaveReadyList DEF Task_blockI, Modes
<1>5. ~swiLocked /\ swiLocked' \in BOOLEAN /\ locked' \in BOOLEAN /\ locked \in BOOLEAN
  BY <1>1, <1>3 DEF IInv, CallsOK, KernelTypeOK, ControlTypeOK
<1>6. KernelTypeOK' /\ KernelOK'
  BY <1>1, <1>3, <1>4, <1>5, RegionPreserves
<1>7. \A v \in Tasks : mode'[v] = IF v = t THEN "BLOCKED" ELSE mode[v]
  BY <1>1, <1>3 DEF Task_blockI, QueueTypeOK
<1>8. \A v \in Tasks : /\ pc'[v] = IF v = t THEN "restore" ELSE pc[v]
                       /\ op'[v] = IF v = t THEN o ELSE op[v]
                       /\ pendState'[v] = IF v = t THEN how ELSE pendState[v]
                       /\ clk'[v] = IF v = t
                                    THEN IF how = "CLOCK_WAIT" THEN "active" ELSE "none"
                                    ELSE clk[v]
  BY <1>1 DEF IInv, TypeOK
<1>9. key' \in [Tasks -> BOOLEAN] /\ \A v \in Tasks : ~key'[v]
  BY <1>1, <1>3, <1>5 DEF IInv, TypeOK, CallsOK
<1>10. CallsOK'
  BY <1>1, <1>2, <1>3, <1>4, <1>5, <1>8, <1>9, CallsAfterStep
<1>11. \A v \in Tasks : CallOf(v)'
  <2>1. \A v \in Tasks : (mode'[v] = "NONE" <=> mode[v] = "NONE") /\ mode'[v] # "TERMINATED"
    BY <1>3, <1>7 DEF IInv, WaitsOK, CallOf
  <2>2. "restore" \in PCs
    BY DEF PCs
  <2> QED BY <1>1, <1>2, <1>3, <2>1, <2>2, CallsKept
<1>12. WaitOf(t) /\ \A r \in Sems : ~Linked(t, pendQ[r])
  BY <1>3 DEF IInv, WaitsOK, WaitOf
<1>13. /\ Queued(t, s) \in Seq(Tasks) /\ NoDuplicates(Queued(t, s))
       /\ \A v \in Tasks : Linked(v, Queued(t, s)) <=> Linked(v, pendQ[s]) \/ v = t
  <2>1. pendQ[s] \in Seq(Tasks) /\ NoDuplicates(pendQ[s])
    BY DEF IInv, TypeOK, WaitsOK
  <2>2. PICK i \in 1 .. Len(pendQ[s]) + 1 : Queued(t, s) = InsertAt(pendQ[s], i, t)
    BY <2>1, QueuedPlace DEF IInv, TypeOK, KernelTypeOK, QueueTypeOK
  <2> QED BY <1>12, <2>1, <2>2, InsertElement
<1>14. \A r \in Sems : pendQ'[r] = IF r = s THEN Queued(t, s) ELSE pendQ[r]
  BY <1>1 DEF IInv, TypeOK
<1>15. ASSUME NEW v \in Tasks PROVE WaitOf(v)'
  <2>1. CASE v = t
    <3>1. \A r \in Sems : Linked(t, pendQ'[r]) <=> r = s
      BY <1>12, <1>13, <1>14
    <3> QED BY <1>2, <1>7, <1>8, <2>1, <3>1 DEF WaitOf, Timeouts
  <2>2. CASE v # t
    <3>1. \A r \in Sems : Linked(v, pendQ'[r]) <=> Linked(v, pendQ[r])
      BY <1>13, <1>14, <2>2
    <3>2. WaitOf(v)
      BY DEF IInv, WaitsOK
    <3> QED BY <1>7, <1>8, <2>2, <3>1, <3>2 DEF WaitOf
  <2> QED BY <2>1, <2>2
<1>16. \A r \in Sems : NoDuplicates(pendQ'[r])
  BY <1>13, <1>14 DEF IInv, WaitsOK
<1>17. TypeOK'
  <2>1. pendState' \in [Tasks -> PendStates] /\ clk' \in [Tasks -> Clocks]
    BY <1>1 DEF IInv, TypeOK, PendStates, Clocks, Timeouts
  <2>2. pendQ' \in [Sems -> Seq(Tasks)]
    BY <1>1, <1>13 DEF IInv, TypeOK
  <2> QED BY <1>1, <1>2, <1>6, <1>9, <2>1, <2>2 DEF IInv, TypeOK, PCs
<1>18. WaitsOK'
  BY <1>11, <1>15, <1>16 DEF WaitsOK
<1> QED BY <1>6, <1>10, <1>17, <1>18 DEF IInv

\* Every step of the application, of the scheduler and of an interrupt keeps it.
LEMMA NextIInv == IInv /\ [Next]_vars => IInv'
<1> SUFFICES ASSUME IInv, [Next]_vars PROVE IInv'
  OBVIOUS
<1>1. CASE KernelStep
  BY <1>1, KernelStepPreserves
<1>2. ASSUME NEW t \in Tasks, TaskCall(t) PROVE IInv'
  <2>1. ASSUME NEW s \in Sems, PostCall(t, s) PROVE IInv'
    <3>1. [name |-> "post", on |-> s] \in Ops /\ [name |-> "post", on |-> s].name = "post"
      BY OpFields
    <3> QED BY <2>1, <3>1, CallPreserves DEF PostCall
  <2>2. ASSUME NEW u \in Tasks, DeleteCall(t, u) PROVE IInv'
    <3> DEFINE o == [name |-> "delete", on |-> u]
    <3>1. o \in Ops /\ o.name = "delete" /\ o.on = u
      BY OpFields
    <3>2. /\ u # t /\ mode[u] # "NONE" /\ (\A v \in Tasks : op[v] # o)
          /\ Call(t, o) /\ UNCHANGED semVars
      BY <2>2 DEF DeleteCall
    <3> HIDE DEF o
    <3> QED BY <3>1, <3>2, CallPreserves
  <2> QED BY <1>2, <2>1, <2>2, PendTakePreserves, PendBlockPreserves, Semaphore_resetPreserves
          DEF TaskCall
<1>3. ASSUME NEW t \in Tasks, TaskProgress(t) PROVE IInv'
  BY <1>3, LockPreserves, PostCountPreserves, PostWaiterPreserves, ReturnPreserves,
     PendReturnPreserves, DeleteRegionPreserves
  DEF TaskProgress, PostRestore, PendRestore, DeleteRestore
<1>4. CASE HwiStep
  BY <1>4, HwiPostPreserves, HwiTakePreserves, ClockExpiresPreserves, PendTimeoutPreserves,
     HwiSetPriPreserves DEF HwiStep
<1>5. CASE UNCHANGED vars
  <2>1. UNCHANGED <<kernelVars, callVars, pendQ, pendState, clk>> /\ UNCHANGED count
    BY <1>5 DEF vars, semVars
  <2>2. count' \in [Sems -> 0 .. CountLimit - 1]
    BY <2>1 DEF IInv, TypeOK
  <2> QED BY <2>1, <2>2, CountOnly
<1> QED BY <1>1, <1>2, <1>3, <1>4, <1>5 DEF Next

-----------------------------------------------------------------------------
(* The theorems.                                                           *)

\* IInv holds in every reachable state, whatever the tasks, their priorities
\* and the calls they and interrupts make.
THEOREM Invariance == Spec => []IInv
BY InitIInv, NextIInv, PTL DEF Spec

\* Semaphore_pend, _post, _pendTimeout and Task_delete agree about every waiter:
\* it is on one list while its wait is unresolved, and resolved when it runs.
THEOREM Waiters == Spec => []WaitersOK
<1>1. IInv => WaitersOK
  BY WaitersFromIInv
<1> QED BY <1>1, Invariance, PTL

-----------------------------------------------------------------------------
(* Every step is one that SemaphoreSpec allows, or none.                   *)

\* The least element of a set of one.
LEMMA MinOfOne ==
  ASSUME NEW i \in Nat
  PROVE  Promise!Min({i}) = i
<1>1. \E x \in {i} : \A y \in {i} : x =< y
  OBVIOUS
<1> QED BY <1>1 DEF Promise!Min

\* What SemaphoreSpec takes off a list is what Queue_remove takes off it.
LEMMA RemovedFirst ==
  ASSUME NEW q \in Seq(Tasks), NoDuplicates(q), NEW t \in Tasks
  PROVE  Promise!RemoveFirst(q, t) = IF Linked(t, q) THEN Queue_remove(q, t) ELSE q
<1> DEFINE found == {i \in 1 .. Len(q) : q[i] = t}
<1>1. Promise!RemoveFirst(q, t) = IF found = {} THEN q ELSE RemoveAt(q, Promise!Min(found))
  <2>1. (\E i \in 1 .. Len(q) : q[i] = t) <=> found # {}
    OBVIOUS
  <2> QED BY <2>1 DEF Promise!RemoveFirst, Promise!SelectInSeq, Promise!RemoveAt, RemoveAt
<1>2. CASE Linked(t, q)
  <2>1. Position(q, t) \in 1 .. Len(q) /\ q[Position(q, t)] = t
    BY <1>2, RemoveIndices
  <2>2. found = {Position(q, t)}
    BY <2>1 DEF NoDuplicates
  <2>3. Promise!Min(found) = Position(q, t) /\ found # {}
    BY <2>1, <2>2, MinOfOne
  <2> QED BY <1>1, <1>2, <2>3 DEF Queue_remove
<1>3. CASE ~Linked(t, q)
  <2>1. found = {}
    BY <1>3 DEF Linked
  <2> QED BY <1>1, <1>3, <2>1
<1> QED BY <1>2, <1>3

\* pendTimeout and Task_delete leave the lists SemaphoreSpec leaves.
LEMMA UnpendedIsWithout ==
  ASSUME IInv, NEW u \in Tasks
  PROVE  Unpended(u) = Promise!Without(u)
<1>1. \A s \in Sems : pendQ[s] \in Seq(Tasks) /\ NoDuplicates(pendQ[s])
  BY DEF IInv, TypeOK, WaitsOK
<1> QED BY <1>1, RemovedFirst DEF Unpended, Promise!Without

outcome == [t \in Tasks |-> Outcome(t)]

\* What SemaphoreSpec calls the waits.
LEMMA OutcomeTable ==
  ASSUME NEW u \in Tasks
  PROVE  /\ pc[u] = "dead" /\ pendState[u] = "none" => Outcome(u) = "gone"
         /\ pc[u] # "dead" =>
              /\ pendState[u] = "none" => Outcome(u) = "idle"
              /\ pendState[u] = "CLOCK_WAIT" => Outcome(u) = "timed"
              /\ pendState[u] = "WAIT_FOREVER" => Outcome(u) = "forever"
              /\ pendState[u] = "POSTED" => Outcome(u) = "granted"
              /\ pendState[u] = "TIMEOUT" => Outcome(u) = "timedout"
BY DEF Outcome

\* The same after a step.
LEMMA OutcomeTableNext ==
  ASSUME NEW u \in Tasks
  PROVE  /\ pc'[u] = "dead" /\ pendState'[u] = "none" => Outcome(u)' = "gone"
         /\ pc'[u] # "dead" =>
              /\ pendState'[u] = "none" => Outcome(u)' = "idle"
              /\ pendState'[u] = "CLOCK_WAIT" => Outcome(u)' = "timed"
              /\ pendState'[u] = "WAIT_FOREVER" => Outcome(u)' = "forever"
              /\ pendState'[u] = "POSTED" => Outcome(u)' = "granted"
              /\ pendState'[u] = "TIMEOUT" => Outcome(u)' = "timedout"
BY DEF Outcome

\* A step that changes the wait of u, and no other task's.
LEMMA OneOutcome ==
  ASSUME NEW u \in Tasks, NEW o, Outcome(u)' = o,
         \A v \in Tasks \ {u} : /\ pendState'[v] = pendState[v]
                                /\ pc'[v] = "dead" <=> pc[v] = "dead"
  PROVE  outcome' = [outcome EXCEPT ![u] = o]
<1>1. \A v \in Tasks \ {u} : Outcome(v)' = Outcome(v)
  BY DEF Outcome
<1> QED BY <1>1 DEF outcome

\* A step that changes no wait.
LEMMA NoOutcome ==
  ASSUME \A v \in Tasks : /\ pendState'[v] = pendState[v]
                          /\ pc'[v] = "dead" <=> pc[v] = "dead"
  PROVE  UNCHANGED outcome
<1>1. \A v \in Tasks : Outcome(v)' = Outcome(v)
  BY DEF Outcome
<1> QED BY <1>1 DEF outcome

\* A call of t that moves on: it was not deleted and is not now.
LEMMA StillThere ==
  ASSUME IInv, NEW t \in Tasks, NEW l, pc[t] # "dead", l # "dead", pc' = [pc EXCEPT ![t] = l]
  PROVE  \A v \in Tasks : pc'[v] = "dead" <=> pc[v] = "dead"
BY DEF IInv, TypeOK

\* SemaphoreSpec does not see a step that changes neither counts, lists nor waits.
LEMMA Stutters ==
  ASSUME UNCHANGED <<count, pendQ, pendState>>,
         \A v \in Tasks : pc'[v] = "dead" <=> pc[v] = "dead"
  PROVE  UNCHANGED Promise!specVars
<1>1. UNCHANGED outcome
  BY NoOutcome
<1> QED BY <1>1 DEF Promise!specVars, outcome

\* It does not see a call begin, nor Task_disable.
LEMMA CallStutters ==
  ASSUME IInv, NEW t \in Tasks, NEW o, Call(t, o) \/ Lock(t), UNCHANGED semVars
  PROVE  UNCHANGED Promise!specVars
<1>1. PICK l \in {"write", "region"} : pc' = [pc EXCEPT ![t] = l]
  BY DEF Call, Lock, At, Goto
<1>2. pc[t] # "dead" /\ UNCHANGED <<count, pendQ, pendState>>
  BY DEF Call, Lock, At, semVars
<1> QED BY <1>1, <1>2, StillThere, Stutters

\* It does not see Task_restore.
LEMMA ReturnStutters ==
  ASSUME IInv, NEW t \in Tasks, NEW l \in {"user", "wake"}, Return(t, l), UNCHANGED semVars
  PROVE  UNCHANGED Promise!specVars
<1>1. pc' = [pc EXCEPT ![t] = l] /\ pc[t] # "dead" /\ UNCHANGED <<count, pendQ, pendState>>
  BY DEF Return, At, Goto, semVars
<1> QED BY <1>1, StillThere, Stutters

\* A pend that finds a token.
LEMMA TakeImplements ==
  ASSUME NEW s \in Sems, Decrement(s), UNCHANGED callVars
  PROVE  Promise!Take(s)
<1>1. UNCHANGED outcome
  BY NoOutcome DEF Decrement, callVars
<1> QED BY <1>1 DEF Decrement, Promise!Take, outcome

\* Semaphore_reset, called when nobody waits.
LEMMA ResetImplements ==
  ASSUME NEW t \in Tasks, NEW s \in Sems, NEW n \in 0 .. CountLimit - 1, Semaphore_reset(t, s, n)
  PROVE  Promise!Reset(s, n)
<1>1. UNCHANGED outcome
  BY NoOutcome DEF Semaphore_reset, callVars
<1> QED BY <1>1 DEF Semaphore_reset, Promise!Reset, outcome

\* Semaphore_post: the token is counted or goes to the head of the list, who
\* has waited for it since.
LEMMA PostImplements ==
  ASSUME IInv, NEW s \in Sems, Semaphore_post(s),
         \A v \in Tasks : pc'[v] = "dead" <=> pc[v] = "dead"
  PROVE  Promise!Post(s)
<1>1. CASE pendQ[s] = <<>>
  <2>1. Increment(s)
    BY <1>1 DEF Semaphore_post
  <2>2. UNCHANGED outcome
    BY <2>1, NoOutcome DEF Increment
  <2> QED BY <1>1, <2>1, <2>2 DEF Increment, Promise!Post, outcome
<1>2. CASE pendQ[s] # <<>>
  <2> PICK u : u = Head(pendQ[s])
    OBVIOUS
  <2>1. /\ pendQ' = [pendQ EXCEPT ![s] = Tail(@)]
        /\ pendState' = [pendState EXCEPT ![u] = "POSTED"] /\ UNCHANGED count
    BY <1>2 DEF Semaphore_post, HandOver
  <2>2. pendQ[s] \in Seq(Tasks) /\ NoDuplicates(pendQ[s])
    BY DEF IInv, TypeOK, WaitsOK
  <2>3. u \in Tasks /\ Linked(u, pendQ[s])
    BY <1>2, <2>2, TailElements
  <2>4. pc[u] # "dead"
    BY <2>3 DEF IInv, WaitsOK, WaitOf, CallOf
  <2>5. \A v \in Tasks : pendState'[v] = IF v = u THEN "POSTED" ELSE pendState[v]
    BY <2>1 DEF IInv, TypeOK
  <2>6. Outcome(u)' = "granted"
    BY <2>3, <2>4, <2>5, OutcomeTableNext
  <2>7. outcome' = [outcome EXCEPT ![u] = "granted"]
    BY <2>3, <2>5, <2>6, OneOutcome
  <2> QED BY <1>2, <2>1, <2>7 DEF Promise!Post, outcome
<1> QED BY <1>1, <1>2

\* Semaphore_pend without a token.
LEMMA WaitImplements ==
  ASSUME IInv, NEW t \in Tasks, NEW s \in Sems, NEW how \in Timeouts, PendBlock(t, s, how)
  PROVE  \E h \in Promise!Waits : Promise!Wait(t, s, h)
<1> DEFINE h == IF how = "CLOCK_WAIT" THEN "timed" ELSE "forever"
<1>1. /\ pc[t] = "user" /\ pc' = [pc EXCEPT ![t] = "restore"]
      /\ count[s] = 0 /\ UNCHANGED count
      /\ pendQ' = [pendQ EXCEPT ![s] = Queued(t, s)]
      /\ pendState' = [pendState EXCEPT ![t] = how]
  BY DEF PendBlock, LockToBlock, At, Goto, Queued
<1>2. pendState[t] = "none"
  BY <1>1 DEF IInv, WaitsOK, CallOf, WaitOf
<1>3. Outcome(t) = "idle"
  BY <1>1, <1>2, OutcomeTable
<1>4. \A v \in Tasks : /\ pendState'[v] = IF v = t THEN how ELSE pendState[v]
                       /\ pc'[v] = "dead" <=> pc[v] = "dead"
  BY <1>1, StillThere DEF IInv, TypeOK
<1>5. Outcome(t)' = h
  BY <1>1, <1>4, OutcomeTableNext DEF Timeouts
<1>6. outcome' = [outcome EXCEPT ![t] = h] /\ outcome[t] = "idle"
  BY <1>3, <1>4, <1>5, OneOutcome DEF outcome
<1>7. PICK i \in 1 .. Len(pendQ[s]) + 1 :
        /\ i <= Len(pendQ[s]) => "priority" \in Mode[s]
        /\ Queued(t, s) = InsertAt(pendQ[s], i, t)
  BY QueuedPlace DEF IInv, TypeOK, KernelTypeOK, QueueTypeOK
<1>8. Queued(t, s) = Promise!InsertAt(pendQ[s], i, t)
  BY <1>7 DEF InsertAt, Promise!InsertAt
<1>9. pendQ' = [pendQ EXCEPT ![s] = Promise!InsertAt(@, i, t)]
  BY <1>1, <1>8 DEF IInv, TypeOK
<1>10. h \in Promise!Waits
  BY DEF Promise!Waits
<1> HIDE DEF h
<1>11. Promise!Wait(t, s, h)
  BY <1>1, <1>6, <1>7, <1>9 DEF Promise!Wait, outcome
<1> QED BY <1>10, <1>11

\* The end of a pend that has waited.
LEMMA ReturnImplements ==
  ASSUME IInv, NEW t \in Tasks, PendReturn(t)
  PROVE  Promise!Return(t)
<1>1. /\ InTask(t) /\ pc[t] = "wake" /\ pc' = [pc EXCEPT ![t] = "user"]
      /\ pendState' = [pendState EXCEPT ![t] = "none"] /\ UNCHANGED <<count, pendQ>>
  BY DEF PendReturn, At, Goto
<1>2. pendState[t] \in {"POSTED", "TIMEOUT"}
  BY <1>1, InCall, WaitersFromIInv DEF WaitersOK
<1>3. outcome[t] \in {"granted", "timedout"}
  BY <1>1, <1>2, OutcomeTable DEF outcome
<1>4. \A v \in Tasks : /\ pendState'[v] = IF v = t THEN "none" ELSE pendState[v]
                       /\ pc'[v] = "dead" <=> pc[v] = "dead"
  BY <1>1, StillThere DEF IInv, TypeOK
<1>5. Outcome(t)' = "idle"
  BY <1>1, <1>4, OutcomeTableNext
<1>6. outcome' = [outcome EXCEPT ![t] = "idle"]
  BY <1>4, <1>5, OneOutcome
<1> QED BY <1>1, <1>3, <1>6 DEF Promise!Return, outcome

\* Semaphore_pendTimeout before a post; after one it does nothing.
LEMMA TimeOutImplements ==
  ASSUME IInv, NEW t \in Tasks, Semaphore_pendTimeout(t)
  PROVE  Promise!TimeOut(t) \/ UNCHANGED Promise!specVars
<1>1. UNCHANGED count /\ UNCHANGED pc
  BY DEF Semaphore_pendTimeout, callVars
<1>2. CASE pendState[t] # "CLOCK_WAIT"
  <2>1. UNCHANGED <<pendQ, pendState>>
    BY <1>2 DEF Semaphore_pendTimeout
  <2> QED BY <1>1, <2>1, Stutters
<1>3. CASE pendState[t] = "CLOCK_WAIT"
  <2>1. pendQ' = Unpended(t) /\ pendState' = [pendState EXCEPT ![t] = "TIMEOUT"]
    BY <1>3 DEF Semaphore_pendTimeout
  <2>2. pc[t] # "dead"
    BY <1>3 DEF IInv, WaitsOK, WaitOf, CallOf
  <2>3. outcome[t] = "timed"
    BY <1>3, <2>2, OutcomeTable DEF outcome
  <2>4. \A v \in Tasks : pendState'[v] = IF v = t THEN "TIMEOUT" ELSE pendState[v]
    BY <2>1 DEF IInv, TypeOK
  <2>5. Outcome(t)' = "timedout"
    BY <1>1, <2>2, <2>4, OutcomeTableNext
  <2>6. outcome' = [outcome EXCEPT ![t] = "timedout"]
    BY <1>1, <2>4, <2>5, OneOutcome
  <2>7. pendQ' = Promise!Without(t)
    BY <2>1, UnpendedIsWithout
  <2> QED BY <1>1, <2>3, <2>6, <2>7 DEF Promise!TimeOut, outcome
<1> QED BY <1>2, <1>3

\* Task_delete of a task, waiting or not.
LEMMA DeleteImplements ==
  ASSUME IInv, NEW t \in Tasks, DeleteRegion(t)
  PROVE  \E u \in Tasks : Promise!Delete(u)
<1> PICK u : u = op[t].on
  OBVIOUS
<1>1. /\ pc[t] = "region" /\ op[t].name = "delete"
      /\ pendQ' = IF mode[u] = "BLOCKED" THEN Unpended(u) ELSE pendQ
      /\ pendState' = [pendState EXCEPT ![u] = "none"]
      /\ pc' = [pc EXCEPT ![u] = "dead", ![t] = "restore"] /\ UNCHANGED count
  BY DEF DeleteRegion, Calling, At
<1>2. op[t] \in Ops /\ CallOf(t)
  BY DEF IInv, TypeOK, WaitsOK
<1>3. u \in Tasks /\ u # t /\ mode[u] # "NONE"
  BY <1>1, <1>2, DeleteOp DEF CallOf
<1>4. CallOf(u) /\ WaitOf(u) /\ pendState[u] \in PendStates
  BY <1>3 DEF IInv, WaitsOK, TypeOK
<1>5. pc[u] # "dead"
  BY <1>3, <1>4 DEF CallOf
<1>6. outcome[u] # "gone"
  BY <1>3, <1>4, <1>5, OutcomeTable DEF PendStates, outcome
<1>7. \A v \in Tasks : /\ pendState'[v] = IF v = u THEN "none" ELSE pendState[v]
                       /\ pc'[v] = IF v = t THEN "restore" ELSE IF v = u THEN "dead" ELSE pc[v]
  BY <1>1, <1>3 DEF IInv, TypeOK
<1>8. Outcome(u)' = "gone"
  BY <1>3, <1>7, OutcomeTableNext
<1>9. outcome' = [outcome EXCEPT ![u] = "gone"]
  <2>1. \A v \in Tasks \ {u} : /\ pendState'[v] = pendState[v]
                               /\ pc'[v] = "dead" <=> pc[v] = "dead"
    <3>1. pc[t] # "dead"
      BY <1>1
    <3> QED BY <1>7, <3>1
  <2> QED BY <1>3, <1>8, <2>1, OneOutcome
<1>10. pendQ' = Promise!Without(u)
  <2>1. CASE mode[u] = "BLOCKED"
    BY <1>1, <1>3, <2>1, UnpendedIsWithout
  <2>2. CASE mode[u] # "BLOCKED"
    <3>1. \A s \in Sems : ~Linked(u, pendQ[s])
      BY <1>4, <2>2 DEF WaitOf
    <3>2. Unpended(u) = pendQ
      BY <3>1 DEF Unpended, IInv, TypeOK
    <3> QED BY <1>1, <1>3, <2>2, <3>2, UnpendedIsWithout
  <2> QED BY <2>1, <2>2
<1>11. Promise!Delete(u)
  BY <1>1, <1>6, <1>9, <1>10 DEF Promise!Delete, outcome
<1> QED BY <1>3, <1>11

\* One step of the code is one of SemaphoreSpec, or none.
LEMMA NextImplements ==
  ASSUME IInv, [Next]_vars
  PROVE  [Promise!Next]_(Promise!specVars)
<1>1. CASE KernelStep
  <2>1. UNCHANGED <<count, pendQ, pendState, pc>>
    BY <1>1 DEF KernelStep, KernelOnly, callVars, semVars
  <2> QED BY <2>1, Stutters
<1>2. ASSUME NEW t \in Tasks, TaskCall(t) PROVE [Promise!Next]_(Promise!specVars)
  <2>1. ASSUME NEW s \in Sems, PendTake(t, s) PROVE Promise!Next
    <3>1. Promise!Take(s)
      BY <2>1, TakeImplements DEF PendTake
    <3> QED BY <3>1 DEF Promise!Next
  <2>2. ASSUME NEW s \in Sems, PostCall(t, s) PROVE UNCHANGED Promise!specVars
    BY <2>2, CallStutters DEF PostCall
  <2>3. ASSUME NEW s \in Sems, NEW how \in Timeouts, PendBlock(t, s, how) PROVE Promise!Next
    <3>1. \E h \in Promise!Waits : Promise!Wait(t, s, h)
      BY <2>3, WaitImplements
    <3> QED BY <3>1 DEF Promise!Next
  <2>4. ASSUME NEW s \in Sems, NEW n \in 0 .. CountLimit - 1, Semaphore_reset(t, s, n)
        PROVE  Promise!Next
    <3>1. Promise!Reset(s, n)
      BY <2>4, ResetImplements
    <3> QED BY <3>1 DEF Promise!Next
  <2>5. ASSUME NEW u \in Tasks, DeleteCall(t, u) PROVE UNCHANGED Promise!specVars
    BY <2>5, CallStutters DEF DeleteCall
  <2> QED BY <1>2, <2>1, <2>2, <2>3, <2>4, <2>5 DEF TaskCall
<1>3. ASSUME NEW t \in Tasks, TaskProgress(t) PROVE [Promise!Next]_(Promise!specVars)
  <2>1. ASSUME Lock(t), UNCHANGED semVars PROVE UNCHANGED Promise!specVars
    BY <2>1, CallStutters
  <2>2. ASSUME PostRegion(t) PROVE Promise!Next
    <3>1. /\ op[t].on \in Sems /\ Semaphore_post(op[t].on)
          /\ pc[t] # "dead" /\ pc' = [pc EXCEPT ![t] = "restore"]
      BY <2>2, OpFields DEF PostRegion, Calling, At, Goto, IInv, TypeOK
    <3>2. PICK s \in Sems : s = op[t].on
      BY <3>1
    <3>3. Promise!Post(s)
      BY <3>1, <3>2, StillThere, PostImplements
    <3> QED BY <3>3 DEF Promise!Next
  <2>3. ASSUME PostRestore(t) \/ PendRestore(t) \/ DeleteRestore(t) PROVE UNCHANGED Promise!specVars
    BY <2>3, ReturnStutters DEF PostRestore, PendRestore, DeleteRestore
  <2>4. ASSUME PendReturn(t) PROVE Promise!Next
    BY <2>4, ReturnImplements DEF Promise!Next
  <2>5. ASSUME DeleteRegion(t) PROVE Promise!Next
    BY <2>5, DeleteImplements DEF Promise!Next
  <2> QED BY <1>3, <2>1, <2>2, <2>3, <2>4, <2>5 DEF TaskProgress
<1>4. CASE HwiStep
  <2>1. ASSUME NEW s \in Sems, HwiPost(s) PROVE Promise!Next
    <3>1. Promise!Post(s)
      BY <2>1, PostImplements DEF HwiPost, callVars
    <3> QED BY <3>1 DEF Promise!Next
  <2>2. ASSUME NEW s \in Sems, HwiTake(s) PROVE Promise!Next
    <3>1. Promise!Take(s)
      BY <2>2, TakeImplements DEF HwiTake
    <3> QED BY <3>1 DEF Promise!Next
  <2>3. ASSUME NEW t \in Tasks, ClockExpires(t) PROVE UNCHANGED Promise!specVars
    BY <2>3, Stutters DEF ClockExpires, callVars
  <2>4. ASSUME NEW t \in Tasks, Semaphore_pendTimeout(t) PROVE [Promise!Next]_(Promise!specVars)
    BY <2>4, TimeOutImplements DEF Promise!Next
  <2>5. ASSUME NEW t \in Tasks, NEW p \in HwiLevels, HwiSetPri(t, p)
        PROVE  UNCHANGED Promise!specVars
    BY <2>5, Stutters DEF HwiSetPri, callVars, semVars
  <2> QED BY <1>4, <2>1, <2>2, <2>3, <2>4, <2>5 DEF HwiStep
<1>5. CASE UNCHANGED vars
  <2>1. UNCHANGED <<count, pendQ, pendState, pc>>
    BY <1>5 DEF vars, callVars, semVars
  <2> QED BY <2>1, Stutters
<1> QED BY <1>1, <1>2, <1>3, <1>4, <1>5 DEF Next

\* pend and post are atomic, whatever interrupts, timeouts, deletions and other
\* tasks do between and inside their regions: Semaphore.c implements SemaphoreSpec.
THEOREM Implements == Spec => KeepsPromise
<1>1. Init => Promise!Init
  <2>1. Init => outcome = [t \in Tasks |-> "idle"]
    BY OutcomeTable DEF Init, InitCalls, outcome
  <2> QED BY <2>1 DEF Init, Promise!Init, outcome
<1>2. IInv /\ [Next]_vars => [Promise!Next]_(Promise!specVars)
  BY NextImplements
<1> QED BY <1>1, <1>2, Invariance, PTL DEF Spec, KeepsPromise, Promise!Spec

\* No task sleeps on a semaphore that has a token: a post never counts while
\* somebody waits, and a pend never waits while there is a token.
THEOREM NoSleeperMissed == Spec => []Promise!NoIdleToken
<1>1. Init => Promise!NoIdleToken
  BY DEF Init, Promise!NoIdleToken
<1>2. IInv /\ Promise!NoIdleToken /\ [Promise!Next]_(Promise!specVars) => Promise!NoIdleToken'
  <2> SUFFICES ASSUME IInv, Promise!NoIdleToken, [Promise!Next]_(Promise!specVars)
               PROVE  \A s \in Sems : pendQ'[s] # <<>> => count'[s] = 0
    BY DEF Promise!NoIdleToken
  <2>1. /\ \A s \in Sems : pendQ[s] # <<>> => count[s] = 0
        /\ \A s \in Sems : pendQ[s] \in Seq(Tasks) /\ NoDuplicates(pendQ[s]) /\ count[s] \in Nat
        /\ pendQ \in [Sems -> Seq(Tasks)] /\ count \in [Sems -> 0 .. CountLimit - 1]
    BY CountLimitAssumption DEF Promise!NoIdleToken, IInv, TypeOK, WaitsOK
  <2>2. ASSUME NEW s \in Sems, Promise!Take(s) PROVE \A r \in Sems : pendQ'[r] # <<>> => count'[r] = 0
    <3>1. UNCHANGED pendQ /\ pendQ[s] = <<>> /\ \A r \in Sems \ {s} : count'[r] = count[r]
      BY <2>1, <2>2 DEF Promise!Take
    <3> QED BY <2>1, <3>1
  <2>3. ASSUME NEW s \in Sems, Promise!Post(s) PROVE \A r \in Sems : pendQ'[r] # <<>> => count'[r] = 0
    <3>1. CASE pendQ[s] = <<>>
      <4>1. UNCHANGED pendQ /\ \A r \in Sems \ {s} : count'[r] = count[r]
        BY <2>1, <2>3, <3>1 DEF Promise!Post
      <4> QED BY <2>1, <3>1, <4>1
    <3>2. CASE pendQ[s] # <<>>
      <4>1. UNCHANGED count /\ \A r \in Sems \ {s} : pendQ'[r] = pendQ[r]
        BY <2>1, <2>3, <3>2 DEF Promise!Post
      <4> QED BY <2>1, <3>2, <4>1
    <3> QED BY <3>1, <3>2
  <2>4. ASSUME NEW s \in Sems, NEW n \in 0 .. CountLimit - 1, Promise!Reset(s, n)
        PROVE  \A r \in Sems : pendQ'[r] # <<>> => count'[r] = 0
    <3>1. UNCHANGED pendQ /\ pendQ[s] = <<>> /\ \A r \in Sems \ {s} : count'[r] = count[r]
      BY <2>1, <2>4 DEF Promise!Reset
    <3> QED BY <2>1, <3>1
  <2>5. ASSUME NEW t \in Tasks, Promise!TimeOut(t) \/ Promise!Delete(t)
        PROVE  \A r \in Sems : pendQ'[r] # <<>> => count'[r] = 0
    <3>1. UNCHANGED count /\ pendQ' = Promise!Without(t)
      BY <2>5 DEF Promise!TimeOut, Promise!Delete
    <3>2. \A r \in Sems : pendQ[r] = <<>> => pendQ'[r] = <<>>
      <4>1. \A r \in Sems : pendQ[r] = <<>> => ~Linked(t, pendQ[r])
        BY DEF Linked
      <4> QED BY <2>1, <3>1, <4>1, RemovedFirst DEF Promise!Without
    <3> QED BY <2>1, <3>1, <3>2
  <2>6. ASSUME NEW t \in Tasks, NEW s \in Sems, NEW h \in Promise!Waits, Promise!Wait(t, s, h)
        PROVE  \A r \in Sems : pendQ'[r] # <<>> => count'[r] = 0
    <3>1. UNCHANGED count /\ count[s] = 0 /\ \A r \in Sems \ {s} : pendQ'[r] = pendQ[r]
      BY <2>1, <2>6 DEF Promise!Wait
    <3> QED BY <2>1, <3>1
  <2>7. ASSUME NEW t \in Tasks, Promise!Return(t) PROVE UNCHANGED <<count, pendQ>>
    BY <2>7 DEF Promise!Return
  <2>8. ASSUME UNCHANGED Promise!specVars PROVE UNCHANGED <<count, pendQ>>
    BY <2>8 DEF Promise!specVars
  <2> QED BY <2>1, <2>2, <2>3, <2>4, <2>5, <2>6, <2>7, <2>8 DEF Promise!Next
<1>3. IInv /\ [Next]_vars => [Promise!Next]_(Promise!specVars)
  BY NextImplements
<1> QED BY <1>1, <1>2, <1>3, Invariance, PTL DEF Spec

-----------------------------------------------------------------------------
(* Event.                                                                  *)

\* Where a task is in a call it makes while the Event object is in use: only a
\* Semaphore_post announces.
EventCalls ==
  /\ pc \in [Tasks -> PCs \cup {"announce"}]
  /\ op \in [Tasks -> Ops \cup EventOps]
  /\ \A t \in Tasks : pc[t] = "announce" => op[t].name = "post"

\* The masks are there while the reader pends and nobody else's call is; a
\* reader that is looked for has not been told of anything yet.
ReaderWaits ==
  /\ eventQ \in {<<>>, <<Reader>>}
  /\ want # NoMask => op[Reader].name = "eventPend" /\ pc[Reader] \in {"restore", "wake"}
  /\ want # NoMask /\ eventQ # <<>> => got = {}

\* The inductive invariant.
BitsIInv ==
  /\ EventCalls /\ ReaderWaits
  /\ count \in [Sems -> 0 .. CountLimit - 1]
  /\ NoUnseenToken /\ NoMissedEvent

\* Where a region leaves the calls when only the call of t moves.
LEMMA EventCallMoves ==
  ASSUME EventCalls, NEW t \in Tasks, NEW l \in PCs \cup {"announce"}, NEW o \in Ops \cup EventOps,
         pc' = [pc EXCEPT ![t] = l], op' = [op EXCEPT ![t] = o], l = "announce" => o.name = "post"
  PROVE  /\ EventCalls'
         /\ \A u \in Tasks : /\ pc'[u] = IF u = t THEN l ELSE pc[u]
                             /\ op'[u] = IF u = t THEN o ELSE op[u]
<1>1. \A u \in Tasks : /\ pc'[u] = IF u = t THEN l ELSE pc[u]
                       /\ op'[u] = IF u = t THEN o ELSE op[u]
  BY DEF EventCalls
<1> QED BY <1>1 DEF EventCalls

\* A region of t that neither starts nor ends an announcement.
LEMMA NobodyAnnounces ==
  ASSUME EventCalls, NEW t \in Tasks, NEW l \in PCs, NEW o \in Ops \cup EventOps,
         pc' = [pc EXCEPT ![t] = l], op' = [op EXCEPT ![t] = o], pc[t] # "announce",
         UNCHANGED hwiOwes
  PROVE  /\ EventCalls'
         /\ \A u \in Tasks \ {t} : pc'[u] = pc[u] /\ op'[u] = op[u]
         /\ pc'[t] = l /\ op'[t] = o
         /\ \A s \in Sems : Announcing(s)' <=> Announcing(s)
<1>1. l # "announce"
  BY DEF PCs
<1>2. EventCalls' /\ \A u \in Tasks : /\ pc'[u] = IF u = t THEN l ELSE pc[u]
                                      /\ op'[u] = IF u = t THEN o ELSE op[u]
  BY <1>1, EventCallMoves
<1> QED BY <1>1, <1>2 DEF Announcing

-----------------------------------------------------------------------------
(* Event: what the regions do to the bits.                                 *)

\* An AND mask that fewer bits meet was met by more.
LEMMA FewerMatchFewer ==
  ASSUME NEW P, NEW R, R \subseteq P, NEW m
  PROVE  Matching(P, m) = {} => Matching(R, m) = {}
BY DEF Matching

LEMMA NoMaskMatchesNothing == \A P : Matching(P, NoMask) = {}
BY DEF Matching, NoMask

\* The bits stay as they are, and no token is there that was not.
LEMMA BitsKept ==
  ASSUME BitsIInv, UNCHANGED <<postedEvents, got>>, eventQ' = eventQ \/ eventQ' = <<>>,
         want' = want \/ want' = NoMask,
         \A s \in Sems : Announcing(s) => Announcing(s)',
         \A s \in Sems : count'[s] > 0 => count[s] > 0 \/ Announcing(s)'
  PROVE  NoUnseenToken' /\ NoMissedEvent'
<1>1. NoUnseenToken'
  BY DEF BitsIInv, NoUnseenToken
<1>2. NoMissedEvent'
  BY NoMaskMatchesNothing DEF BitsIInv, NoMissedEvent
<1> QED BY <1>1, <1>2

\* Event_post of an announcement, or of an explicit event: it looks for the
\* reader, so what it posts is not missed.
LEMMA EventPosts ==
  ASSUME BitsIInv, NEW id, Event_post(id), UNCHANGED <<count, want>>,
         \A s \in Sems : Announcing(s) => s = id \/ Announcing(s)'
  PROVE  /\ NoUnseenToken' /\ NoMissedEvent'
         /\ eventQ' = <<>> \/ UNCHANGED <<eventQ, got>>
<1> DEFINE posted == postedEvents \cup {id}
           match  == Matching(posted, want)
<1>1. CASE eventQ # <<>> /\ match # {}
  <2>1. postedEvents' = posted \ match /\ eventQ' = <<>> /\ got' = match
    BY <1>1 DEF Event_post
  <2>2. got = {}
    BY <1>1, NoMaskMatchesNothing DEF BitsIInv, ReaderWaits
  <2>3. NoUnseenToken'
    BY <2>1, <2>2 DEF BitsIInv, NoUnseenToken
  <2> QED BY <2>1, <2>3 DEF NoMissedEvent
<1>2. CASE ~(eventQ # <<>> /\ match # {})
  <2>1. postedEvents' = posted /\ UNCHANGED <<eventQ, got>>
    BY <1>2 DEF Event_post
  <2>2. NoUnseenToken'
    BY <2>1 DEF BitsIInv, NoUnseenToken
  <2>3. NoMissedEvent'
    BY <2>1, <1>2 DEF NoMissedEvent
  <2> QED BY <2>1, <2>2, <2>3
<1> QED BY <1>1, <1>2

\* Event_sync sets no bit the reader has not been looked for with: a token that
\* was there was posted, or its announcement is to come.
LEMMA EventSyncs ==
  ASSUME BitsIInv, NEW s \in Sems, Event_sync(s, count'[s]), UNCHANGED <<eventQ, want>>,
         got' \subseteq got, got \subseteq got' \cup {s},
         \A r \in Sems \ {s} : count'[r] = count[r],
         count'[s] > 0 => count[s] > 0 \/ eventQ = <<>>,
         \A r \in Sems : Announcing(r)' <=> Announcing(r)
  PROVE  NoUnseenToken' /\ NoMissedEvent'
<1>1. CASE count'[s] > 0
  <2>1. postedEvents' = postedEvents \cup {s}
    BY <1>1 DEF Event_sync
  <2>2. NoUnseenToken'
    BY <2>1 DEF BitsIInv, NoUnseenToken
  <2>3. ASSUME eventQ # <<>>, \A r \in Sems : ~Announcing(r), want # NoMask
        PROVE  s \in postedEvents
    BY <1>1, <2>3 DEF BitsIInv, NoUnseenToken, ReaderWaits
  <2>4. NoMissedEvent'
    <3> SUFFICES ASSUME eventQ # <<>>, \A r \in Sems : ~Announcing(r)
                 PROVE  Matching(postedEvents', want) = {}
      BY DEF NoMissedEvent
    <3>1. CASE want = NoMask
      BY <3>1, NoMaskMatchesNothing
    <3>2. CASE want # NoMask
      <4>1. postedEvents' = postedEvents
        BY <2>1, <2>3, <3>2
      <4> QED BY <4>1 DEF BitsIInv, NoMissedEvent
    <3> QED BY <3>1, <3>2
  <2> QED BY <2>2, <2>4
<1>2. CASE ~(count'[s] > 0)
  <2>1. postedEvents' = postedEvents \ {s}
    BY <1>2 DEF Event_sync
  <2>2. NoUnseenToken'
    BY <1>2, <2>1 DEF BitsIInv, NoUnseenToken
  <2>3. NoMissedEvent'
    BY <2>1, FewerMatchFewer DEF BitsIInv, NoMissedEvent
  <2> QED BY <2>2, <2>3
<1> QED BY <1>1, <1>2


-----------------------------------------------------------------------------
(* Event: every step keeps BitsIInv.                                      *)

\* The scheduler, and what interrupts do to waits for other things.
LEMMA EventUntouched ==
  ASSUME BitsIInv, UNCHANGED <<pc, op, count, eventVars>>
  PROVE  BitsIInv'
<1>1. UNCHANGED <<postedEvents, eventQ, want, got, hwiOwes>>
  BY DEF eventVars
<1> QED BY <1>1 DEF BitsIInv, EventCalls, ReaderWaits, NoUnseenToken, NoMissedEvent, Announcing

\* A region of t that touches no count and no bit, t not being a reader that
\* pends.
LEMMA EventQuiet ==
  ASSUME EventAssumption, BitsIInv, NEW t \in Tasks, NEW l \in PCs, NEW o \in Ops \cup EventOps,
         pc' = [pc EXCEPT ![t] = l], op' = [op EXCEPT ![t] = o], pc[t] # "announce",
         t = Reader => want = NoMask, UNCHANGED <<count, eventVars>>
  PROVE  BitsIInv'
<1>1. UNCHANGED <<postedEvents, eventQ, want, got, hwiOwes>>
  BY DEF eventVars
<1>2. EventCalls
  BY DEF BitsIInv
<1>3. /\ EventCalls'
      /\ \A u \in Tasks \ {t} : pc'[u] = pc[u] /\ op'[u] = op[u]
      /\ \A s \in Sems : Announcing(s)' <=> Announcing(s)
  BY <1>1, <1>2, NobodyAnnounces
<1>4. ReaderWaits'
  BY <1>1, <1>3 DEF BitsIInv, ReaderWaits, EventAssumption
<1>5. NoUnseenToken' /\ NoMissedEvent'
  BY <1>1, <1>3, BitsKept
<1> QED BY <1>3, <1>4, <1>5 DEF BitsIInv

\* A caller at "user" or inside another call is not a reader that pends.
LEMMA NotPending ==
  ASSUME BitsIInv, NEW t \in Tasks, pc[t] \notin {"restore", "wake"} \/ op[t].name # "eventPend"
  PROVE  t = Reader => want = NoMask
BY DEF BitsIInv, ReaderWaits

\* The calls of the names.
LEMMA EventOpFields ==
  /\ \A o \in Ops \cup EventOps : o.name = "post" => o.on \in Sems
  /\ \A s \in Sems : [name |-> "post", on |-> s] \in Ops /\ [name |-> "pend", on |-> s] \in Ops
  /\ [name |-> "eventPend"] \in EventOps /\ [name |-> "eventPend"].name = "eventPend"
  /\ [name |-> "eventPost"] \in EventOps
  /\ NoOp \in Ops
<1>1. \A o \in EventOps : o.name # "post"
  BY DEF EventOps
<1>2. \A o \in Ops : o.name = "post" => o.on \in Sems
  BY OpFields
<1>3. [name |-> "eventPend"] \in EventOps /\ [name |-> "eventPost"] \in EventOps
  BY DEF EventOps
<1> QED BY <1>1, <1>2, <1>3, OpFields

\* Task_restore at the end of a call, to "user" or to "wake".
LEMMA EventReturns ==
  ASSUME EventAssumption, BitsIInv, NEW t \in Tasks, NEW l \in {"user", "wake"}, Return(t, l),
         UNCHANGED <<count, eventVars>>, op[t].name # "eventPend"
  PROVE  BitsIInv'
<1>1. pc[t] = "restore" /\ pc' = [pc EXCEPT ![t] = l]
  BY DEF Return, At, Goto
<1>2. op' = [op EXCEPT ![t] = IF l = "wake" THEN op[t] ELSE NoOp]
  BY DEF Return, BitsIInv, EventCalls
<1>3. (IF l = "wake" THEN op[t] ELSE NoOp) \in Ops \cup EventOps /\ l \in PCs
  BY EventOpFields DEF BitsIInv, EventCalls, PCs
<1>4. t = Reader => want = NoMask
  BY NotPending
<1> QED BY <1>1, <1>2, <1>3, <1>4, EventQuiet

\* Decrement, by a pend that finds a token.
LEMMA CountedDown ==
  ASSUME BitsIInv, NEW s \in Sems, Decrement(s)
  PROVE  /\ count' \in [Sems -> 0 .. CountLimit - 1]
         /\ \A r \in Sems \ {s} : count'[r] = count[r]
         /\ count[s] > 0
BY CountLimitAssumption DEF BitsIInv, Decrement

\* Increment, by a post that finds nobody waiting.
LEMMA CountedUp ==
  ASSUME BitsIInv, NEW s \in Sems, Increment(s)
  PROVE  /\ count' \in [Sems -> 0 .. CountLimit - 1]
         /\ \A r \in Sems \ {s} : count'[r] = count[r]
<1>1. (count[s] + 1) % CountLimit \in 0 .. CountLimit - 1 /\ 1 \in 0 .. CountLimit - 1
  BY CountLimitAssumption DEF BitsIInv
<1> QED BY <1>1 DEF BitsIInv, Increment

\* The reader's calls: Event_pend that need not wait, that blocks, that goes on
\* when the reader runs again.
LEMMA ReaderPreserves ==
  ASSUME EventAssumption, BitsIInv, ReaderCall \/ EventPendRestore \/ EventPendReturn
  PROVE  BitsIInv'
<1> Reader \in Tasks
  BY DEF EventAssumption
<1>1. ASSUME NEW m \in Masks, EventPendNow(m) PROVE BitsIInv'
  <2> DEFINE match == Matching(postedEvents, m)
  <2>1. /\ pc[Reader] = "user" /\ got \cap Sems = {}
        /\ postedEvents' = postedEvents \ match /\ got' = match
        /\ UNCHANGED <<pc, op, count, eventQ, want, hwiOwes>>
    BY <1>1 DEF EventPendNow, At, Answered, callVars, semVars
  <2>2. want = NoMask
    BY <2>1, NotPending
  <2>3. EventCalls' /\ ReaderWaits' /\ count' \in [Sems -> 0 .. CountLimit - 1]
    BY <2>1, <2>2 DEF BitsIInv, EventCalls, ReaderWaits
  <2>4. NoUnseenToken'
    BY <2>1 DEF BitsIInv, NoUnseenToken, Announcing
  <2>5. NoMissedEvent'
    BY <2>1, <2>2, NoMaskMatchesNothing DEF NoMissedEvent
  <2> QED BY <2>3, <2>4, <2>5 DEF BitsIInv
<1>2. ASSUME NEW m \in Masks, NEW how \in Timeouts, EventPendBlock(m, how) PROVE BitsIInv'
  <2>1. /\ pc[Reader] = "user" /\ got \cap Sems = {} /\ Matching(postedEvents, m) = {}
        /\ pc' = [pc EXCEPT ![Reader] = "restore"]
        /\ op' = [op EXCEPT ![Reader] = [name |-> "eventPend"]]
        /\ eventQ' = <<Reader>> /\ want' = m /\ got' = {}
        /\ UNCHANGED <<count, postedEvents, hwiOwes>>
    BY <1>2 DEF EventPendBlock, LockToBlock, At, Goto, Answered
  <2>2. EventCalls /\ "restore" \in PCs
    BY DEF BitsIInv, PCs
  <2>3. /\ EventCalls' /\ pc'[Reader] = "restore" /\ op'[Reader] = [name |-> "eventPend"]
        /\ \A s \in Sems : Announcing(s)' <=> Announcing(s)
    BY <2>1, <2>2, EventOpFields, NobodyAnnounces
  <2>4. ReaderWaits'
    BY <2>1, <2>3, EventOpFields DEF ReaderWaits
  <2>5. NoUnseenToken' /\ NoMissedEvent'
    BY <2>1, <2>3 DEF BitsIInv, NoUnseenToken, NoMissedEvent
  <2> QED BY <2>1, <2>3, <2>4, <2>5 DEF BitsIInv
<1>3. ASSUME EventPendRestore PROVE BitsIInv'
  <2>1. /\ op[Reader].name = "eventPend" /\ pc[Reader] = "restore"
        /\ pc' = [pc EXCEPT ![Reader] = "wake"] /\ op' = op
        /\ UNCHANGED <<count, postedEvents, eventQ, want, got, hwiOwes>>
    BY <1>3 DEF EventPendRestore, Return, At, Goto, semVars, eventVars
  <2>2. EventCalls /\ "wake" \in PCs /\ op' = [op EXCEPT ![Reader] = op[Reader]]
        /\ op[Reader] \in Ops \cup EventOps
    BY <2>1 DEF BitsIInv, EventCalls, PCs
  <2>3. /\ EventCalls' /\ pc'[Reader] = "wake"
        /\ \A s \in Sems : Announcing(s)' <=> Announcing(s)
    BY <2>1, <2>2, NobodyAnnounces
  <2>4. ReaderWaits'
    BY <2>1, <2>3 DEF BitsIInv, ReaderWaits
  <2>5. NoUnseenToken' /\ NoMissedEvent'
    BY <2>1, <2>3, BitsKept
  <2> QED BY <2>1, <2>3, <2>4, <2>5 DEF BitsIInv
<1>4. ASSUME EventPendReturn PROVE BitsIInv'
  <2>1. /\ op[Reader].name = "eventPend" /\ pc[Reader] = "wake"
        /\ pc' = [pc EXCEPT ![Reader] = "user"] /\ op' = [op EXCEPT ![Reader] = NoOp]
        /\ want' = NoMask
        /\ UNCHANGED <<count, postedEvents, eventQ, got, hwiOwes>>
    BY <1>4 DEF EventPendReturn, PendReturn, At, Goto
  <2>2. EventCalls /\ "user" \in PCs
    BY DEF BitsIInv, PCs
  <2>3. EventCalls' /\ \A s \in Sems : Announcing(s)' <=> Announcing(s)
    BY <2>1, <2>2, EventOpFields, NobodyAnnounces
  <2>4. ReaderWaits'
    BY <2>1 DEF BitsIInv, ReaderWaits
  <2>5. NoUnseenToken' /\ NoMissedEvent'
    BY <2>1, <2>3, BitsKept
  <2> QED BY <2>1, <2>3, <2>4, <2>5 DEF BitsIInv
<1> QED BY <1>1, <1>2, <1>3, <1>4 DEF ReaderCall

\* Semaphore_pend of a token, in vain, or to block; Semaphore_reset; Event_post.
LEMMA EventCallPreserves ==
  ASSUME EventAssumption, BitsIInv, NEW t \in Tasks, EventCall(t)
  PROVE  BitsIInv'
<1> EventCalls /\ count \in [Sems -> 0 .. CountLimit - 1] /\ {"write", "restore"} \subseteq PCs
  BY DEF BitsIInv, PCs
<1>1. ASSUME NEW s \in Sems, CoupledTake(t, s) PROVE BitsIInv'
  <2>1. /\ pc[t] = "user" /\ Decrement(s) /\ Event_sync(s, count'[s]) /\ Answer(t, s)
        /\ UNCHANGED <<pc, op, eventQ, want, hwiOwes>>
    BY <1>1 DEF CoupledTake, PendTake, At, callVars
  <2>2. got' \subseteq got /\ got \subseteq got' \cup {s}
    BY <2>1 DEF Answer
  <2>3. EventCalls' /\ \A r \in Sems : Announcing(r)' <=> Announcing(r)
    BY <2>1 DEF EventCalls, Announcing
  <2>4. ReaderWaits'
    BY <2>1, <2>2 DEF BitsIInv, ReaderWaits
  <2>5. /\ count' \in [Sems -> 0 .. CountLimit - 1] /\ count[s] > 0
        /\ \A r \in Sems \ {s} : count'[r] = count[r]
    BY <2>1, CountedDown
  <2>6. NoUnseenToken' /\ NoMissedEvent'
    BY <2>1, <2>2, <2>3, <2>5, EventSyncs
  <2> QED BY <2>3, <2>4, <2>5, <2>6 DEF BitsIInv
<1>2. ASSUME NEW s \in Sems, CoupledFail(t, s) PROVE BitsIInv'
  <2>1. /\ count[s] = 0 /\ got' = (IF t = Reader THEN got \ {s} ELSE got)
        /\ UNCHANGED <<pc, op, count, postedEvents, eventQ, want, hwiOwes>>
    BY <1>2 DEF CoupledFail, callVars, semVars, Answer
  <2>2. EventCalls' /\ ReaderWaits'
    BY <2>1 DEF BitsIInv, EventCalls, ReaderWaits
  <2>3. NoUnseenToken' /\ NoMissedEvent'
    BY <2>1 DEF BitsIInv, NoUnseenToken, NoMissedEvent, Announcing
  <2> QED BY <2>1, <2>2, <2>3 DEF BitsIInv
<1>3. ASSUME NEW s \in Sems, NEW n \in 0 .. CountLimit - 1, CoupledReset(t, s, n) PROVE BitsIInv'
  <2>1. /\ count' = [count EXCEPT ![s] = n] /\ eventQ = <<>> /\ Event_sync(s, n)
        /\ UNCHANGED <<pc, op, eventQ, want, got, hwiOwes>>
    BY <1>3 DEF CoupledReset, Semaphore_reset, callVars
  <2>2. EventCalls' /\ ReaderWaits' /\ \A r \in Sems : Announcing(r)' <=> Announcing(r)
    BY <2>1 DEF BitsIInv, EventCalls, ReaderWaits, Announcing
  <2>3. /\ count' \in [Sems -> 0 .. CountLimit - 1] /\ count'[s] = n
        /\ \A r \in Sems \ {s} : count'[r] = count[r]
    BY <2>1
  <2>4. NoUnseenToken' /\ NoMissedEvent'
    BY <2>1, <2>2, <2>3, EventSyncs
  <2> QED BY <2>2, <2>3, <2>4 DEF BitsIInv
<1>4. ASSUME NEW s \in Sems, PostCall(t, s), UNCHANGED eventVars PROVE BitsIInv'
  <2>1. /\ pc[t] = "user" /\ pc' = [pc EXCEPT ![t] = "write"]
        /\ op' = [op EXCEPT ![t] = [name |-> "post", on |-> s]] /\ UNCHANGED <<count, eventVars>>
    BY <1>4 DEF PostCall, Call, At, Goto, semVars
  <2> QED BY <2>1, NotPending, EventOpFields, EventQuiet
<1>5. ASSUME NEW s \in Sems, NEW how \in Timeouts, t # Reader, CoupledBlock(t, s, how) PROVE BitsIInv'
  <2>1. /\ pc[t] = "user" /\ pc' = [pc EXCEPT ![t] = "restore"]
        /\ op' = [op EXCEPT ![t] = [name |-> "pend", on |-> s]] /\ UNCHANGED <<count, eventVars>>
    BY <1>5 DEF CoupledBlock, PendBlock, LockToBlock, At, Goto
  <2> QED BY <2>1, <1>5, EventOpFields, EventQuiet
<1>6. ASSUME NEW id \in Explicit, EventPostTask(t, id) PROVE BitsIInv'
  <2>1. /\ pc[t] = "user" /\ Event_post(id) /\ UNCHANGED <<count, want, hwiOwes>>
        /\ \/ UNCHANGED <<pc, op>>
           \/ /\ pc' = [pc EXCEPT ![t] = "restore"]
              /\ op' = [op EXCEPT ![t] = [name |-> "eventPost"]]
    BY <1>6 DEF EventPostTask, At, Goto, callVars
  <2>2. /\ EventCalls' /\ \A s \in Sems : Announcing(s)' <=> Announcing(s)
        /\ \A u \in Tasks \ {t} : pc'[u] = pc[u] /\ op'[u] = op[u]
    <3>1. CASE UNCHANGED <<pc, op>>
      BY <2>1, <3>1 DEF EventCalls, Announcing
    <3>2. CASE pc' = [pc EXCEPT ![t] = "restore"] /\ op' = [op EXCEPT ![t] = [name |-> "eventPost"]]
      BY <2>1, <3>2, EventOpFields, NobodyAnnounces
    <3> QED BY <2>1, <3>1, <3>2
  <2>3. /\ NoUnseenToken' /\ NoMissedEvent'
        /\ eventQ' = <<>> \/ UNCHANGED <<eventQ, got>>
    BY <2>1, <2>2, EventPosts
  <2>4. t = Reader => want = NoMask
    BY <2>1, NotPending
  <2>5. ReaderWaits'
    BY <2>1, <2>2, <2>3, <2>4 DEF BitsIInv, ReaderWaits, EventAssumption
  <2> QED BY <2>1, <2>2, <2>3, <2>5 DEF BitsIInv
<1> QED BY <1>1, <1>2, <1>3, <1>4, <1>5, <1>6 DEF EventCall

\* The regions of Semaphore_post, of a Semaphore_pend that blocks, of Event_post.
LEMMA EventProgressPreserves ==
  ASSUME EventAssumption, BitsIInv, NEW t \in Tasks, EventProgress(t)
  PROVE  BitsIInv'
<1> /\ EventCalls /\ count \in [Sems -> 0 .. CountLimit - 1]
    /\ {"region", "restore", "user"} \subseteq PCs
  BY DEF BitsIInv, PCs
<1>1. CASE Lock(t) /\ UNCHANGED <<semVars, eventVars>>
  <2>1. /\ pc[t] = "write" /\ pc' = [pc EXCEPT ![t] = "region"] /\ op' = op
        /\ UNCHANGED <<count, eventVars>>
    BY <1>1 DEF Lock, At, Goto, semVars
  <2>2. op' = [op EXCEPT ![t] = op[t]] /\ op[t] \in Ops \cup EventOps
    BY <2>1 DEF EventCalls
  <2> QED BY <2>1, <2>2, NotPending, EventQuiet
<1>2. CASE CoupledPendRestore(t)
  <2>1. Return(t, "wake") /\ op[t].name = "pend" /\ UNCHANGED <<count, eventVars>>
    BY <1>2 DEF CoupledPendRestore, PendRestore, semVars
  <2> QED BY <2>1, EventReturns
<1>3. CASE CoupledReturn(t)
  <2> DEFINE s == op[t].on
  <2>1. /\ op[t].name = "pend" /\ pc[t] = "wake"
        /\ pc' = [pc EXCEPT ![t] = "user"] /\ op' = [op EXCEPT ![t] = NoOp]
        /\ Event_sync(s, count[s]) /\ UNCHANGED <<count, eventQ, want, got, hwiOwes>>
    BY <1>3 DEF CoupledReturn, PendReturn, At, Goto
  <2>2. s \in Sems
    <3>1. op[t] \in Ops
      BY <2>1 DEF EventCalls, EventOps
    <3> QED BY <2>1, <3>1, OpFields
  <2>3. /\ EventCalls' /\ \A r \in Sems : Announcing(r)' <=> Announcing(r)
        /\ \A u \in Tasks \ {t} : pc'[u] = pc[u] /\ op'[u] = op[u]
    BY <2>1, EventOpFields, NobodyAnnounces
  <2>4. ReaderWaits'
    <3>1. t = Reader => want = NoMask
      BY <2>1, NotPending
    <3> QED BY <2>1, <2>3, <3>1 DEF BitsIInv, ReaderWaits, EventAssumption
  <2> HIDE DEF s
  <2>5. NoUnseenToken' /\ NoMissedEvent'
    BY <2>1, <2>2, <2>3, EventSyncs
  <2> QED BY <2>1, <2>3, <2>4, <2>5 DEF BitsIInv
<1>4. CASE CoupledPost(t)
  <2>1. op[t].name = "post" /\ op[t] \in Ops \cup EventOps
    BY <1>4 DEF CoupledPost, Calling, EventCalls
  <2> PICK s \in Sems : s = op[t].on
    BY <2>1, EventOpFields
  <2>2. /\ pc[t] = "region" /\ op' = op
        /\ pc' = [pc EXCEPT ![t] = IF pendQ[s] = <<>> THEN "announce" ELSE "restore"]
        /\ Semaphore_post(s) /\ UNCHANGED eventVars
    BY <1>4 DEF CoupledPost, Calling, At, Goto
  <2>3. op' = [op EXCEPT ![t] = op[t]]
    BY <2>2 DEF EventCalls
  <2>4. CASE pendQ[s] = <<>>
    <3>1. pc' = [pc EXCEPT ![t] = "announce"] /\ Increment(s)
      BY <2>2, <2>4 DEF Semaphore_post
    <3>2. UNCHANGED <<postedEvents, eventQ, want, got, hwiOwes>>
      BY <2>2 DEF eventVars
    <3>3. /\ EventCalls'
          /\ \A u \in Tasks : pc'[u] = (IF u = t THEN "announce" ELSE pc[u]) /\ op'[u] = op[u]
      BY <2>1, <2>2, <3>1 DEF EventCalls
    <3>4. /\ count' \in [Sems -> 0 .. CountLimit - 1]
          /\ \A r \in Sems \ {s} : count'[r] = count[r]
      BY <2>3, <3>1, CountedUp
    <3>5. Announcing(s)' /\ \A r \in Sems : Announcing(r) => Announcing(r)'
      BY <2>2, <3>2, <3>3 DEF Announcing
    <3>6. ReaderWaits'
      <4>1. t = Reader => want = NoMask
        BY <2>1, <2>2, NotPending
      <4> QED BY <3>2, <3>3, <4>1 DEF BitsIInv, ReaderWaits, EventAssumption
    <3>7. NoUnseenToken' /\ NoMissedEvent'
      BY <3>2, <3>4, <3>5, BitsKept
    <3> QED BY <3>3, <3>4, <3>6, <3>7 DEF BitsIInv
  <2>5. CASE pendQ[s] # <<>>
    <3>1. pc' = [pc EXCEPT ![t] = "restore"] /\ UNCHANGED <<count, eventVars>>
      BY <2>2, <2>5 DEF Semaphore_post, HandOver
    <3> QED BY <2>1, <2>2, <2>3, <3>1, NotPending, EventQuiet
  <2> QED BY <2>4, <2>5
<1>5. CASE CoupledAnnounce(t)
  <2> DEFINE s == op[t].on
  <2>1. /\ pc[t] = "announce" /\ pc' = [pc EXCEPT ![t] = "restore"] /\ op' = op
        /\ Event_post(s) /\ UNCHANGED <<count, want, hwiOwes>>
    BY <1>5 DEF CoupledAnnounce, At, Goto
  <2>2. op' = [op EXCEPT ![t] = op[t]] /\ op[t] \in Ops \cup EventOps
    BY <2>1 DEF EventCalls
  <2>3. /\ EventCalls'
        /\ \A u \in Tasks : pc'[u] = (IF u = t THEN "restore" ELSE pc[u]) /\ op'[u] = op[u]
    <3>1. "restore" \in PCs \cup {"announce"} /\ "restore" # "announce"
      OBVIOUS
    <3> QED BY <2>1, <2>2, <3>1, EventCallMoves
  <2>4. \A r \in Sems : Announcing(r) => r = s \/ Announcing(r)'
    BY <2>1, <2>3 DEF Announcing
  <2>5. /\ NoUnseenToken' /\ NoMissedEvent'
        /\ eventQ' = <<>> \/ UNCHANGED <<eventQ, got>>
    BY <2>1, <2>4, EventPosts
  <2>6. ReaderWaits'
    <3>1. t = Reader => want = NoMask
      BY <2>1, NotPending
    <3> QED BY <2>1, <2>3, <2>5, <3>1 DEF BitsIInv, ReaderWaits, EventAssumption
  <2> QED BY <2>1, <2>3, <2>5, <2>6 DEF BitsIInv
<1>6. CASE CoupledPostRestore(t) \/ EventPostRestore(t)
  <2>1. /\ Return(t, "user") /\ op[t].name \in {"post", "eventPost"}
        /\ UNCHANGED <<count, eventVars>>
    BY <1>6 DEF CoupledPostRestore, PostRestore, EventPostRestore, semVars
  <2> QED BY <2>1, EventReturns
<1> QED BY <1>1, <1>2, <1>3, <1>4, <1>5, <1>6 DEF EventProgress

\* Interrupts post, take and announce; timeouts end waits.
LEMMA EventHwiPreserves ==
  ASSUME EventAssumption, BitsIInv, EventHwiStep
  PROVE  BitsIInv'
<1> EventCalls /\ count \in [Sems -> 0 .. CountLimit - 1]
  BY DEF BitsIInv
<1>1. ASSUME NEW id, Event_post(id), UNCHANGED <<pc, op, count, want>>,
             \A s \in Sems : s \in hwiOwes => s = id \/ s \in hwiOwes'
      PROVE  BitsIInv'
  <2>1. EventCalls' /\ \A s \in Sems : Announcing(s) => s = id \/ Announcing(s)'
    BY <1>1 DEF EventCalls, Announcing
  <2>2. /\ NoUnseenToken' /\ NoMissedEvent'
        /\ eventQ' = <<>> \/ UNCHANGED <<eventQ, got>>
    BY <1>1, <2>1, EventPosts
  <2>3. ReaderWaits'
    BY <1>1, <2>2 DEF BitsIInv, ReaderWaits
  <2> QED BY <1>1, <2>1, <2>2, <2>3 DEF BitsIInv
<1>2. ASSUME NEW id \in Explicit, HwiEventPost(id) PROVE BitsIInv'
  BY <1>1, <1>2 DEF HwiEventPost, callVars
<1>3. ASSUME NEW s \in Sems, HwiAnnounce(s) PROVE BitsIInv'
  BY <1>1, <1>3 DEF HwiAnnounce, callVars
<1>4. ASSUME NEW s \in Sems, HwiCoupledPost(s) PROVE BitsIInv'
  <2>1. /\ Semaphore_post(s) /\ UNCHANGED <<pc, op, postedEvents, eventQ, want, got>>
        /\ hwiOwes' = IF pendQ[s] = <<>> THEN hwiOwes \cup {s} ELSE hwiOwes
    BY <1>4 DEF HwiCoupledPost, HwiPost, callVars
  <2>2. CASE pendQ[s] = <<>>
    <3>1. /\ count' \in [Sems -> 0 .. CountLimit - 1]
          /\ \A r \in Sems \ {s} : count'[r] = count[r]
      BY <2>1, <2>2, CountedUp DEF Semaphore_post
    <3>2. EventCalls' /\ Announcing(s)' /\ \A r \in Sems : Announcing(r) => Announcing(r)'
      BY <2>1, <2>2 DEF EventCalls, Announcing
    <3>3. NoUnseenToken' /\ NoMissedEvent'
      BY <2>1, <3>1, <3>2, BitsKept
    <3>4. ReaderWaits'
      BY <2>1 DEF BitsIInv, ReaderWaits
    <3> QED BY <3>1, <3>2, <3>3, <3>4 DEF BitsIInv
  <2>3. CASE pendQ[s] # <<>>
    <3>1. UNCHANGED <<pc, op, count, eventVars>>
      BY <2>1, <2>3 DEF Semaphore_post, HandOver, eventVars
    <3> QED BY <3>1, EventUntouched
  <2> QED BY <2>2, <2>3
<1>5. ASSUME NEW s \in Sems, HwiCoupledTake(s) PROVE BitsIInv'
  <2>1. /\ Decrement(s) /\ Event_sync(s, count'[s])
        /\ UNCHANGED <<pc, op, eventQ, want, got, hwiOwes>>
    BY <1>5 DEF HwiCoupledTake, HwiTake, callVars
  <2>2. /\ EventCalls' /\ ReaderWaits' /\ \A r \in Sems : Announcing(r)' <=> Announcing(r)
    BY <2>1 DEF BitsIInv, EventCalls, ReaderWaits, Announcing
  <2>3. /\ count' \in [Sems -> 0 .. CountLimit - 1] /\ count[s] > 0
        /\ \A r \in Sems \ {s} : count'[r] = count[r]
    BY <2>1, CountedDown
  <2>4. NoUnseenToken' /\ NoMissedEvent'
    BY <2>1, <2>2, <2>3, EventSyncs
  <2> QED BY <2>2, <2>3, <2>4 DEF BitsIInv
<1>6. ASSUME NEW t \in Tasks, HwiTimeout(t) PROVE BitsIInv'
  <2>1. CASE t = Reader /\ op[t].name = "eventPend" /\ Event_pendTimeout
    <3>1. /\ UNCHANGED <<pc, op, count, postedEvents, want, got, hwiOwes>>
          /\ eventQ' = eventQ \/ eventQ' = <<>>
      BY <2>1 DEF Event_pendTimeout, Semaphore_pendTimeout, callVars
    <3>2. EventCalls' /\ ReaderWaits' /\ \A s \in Sems : Announcing(s)' <=> Announcing(s)
      BY <3>1 DEF BitsIInv, EventCalls, ReaderWaits, Announcing
    <3>3. NoUnseenToken' /\ NoMissedEvent'
      BY <3>1, <3>2, BitsKept
    <3> QED BY <3>1, <3>2, <3>3 DEF BitsIInv
  <2>2. CASE (ClockExpires(t) \/ Semaphore_pendTimeout(t)) /\ UNCHANGED eventVars
    <3>1. UNCHANGED <<pc, op, count, eventVars>>
      BY <2>2 DEF ClockExpires, Semaphore_pendTimeout, callVars
    <3> QED BY <3>1, EventUntouched
  <2> QED BY <1>6, <2>1, <2>2 DEF HwiTimeout
<1> QED BY <1>2, <1>3, <1>4, <1>5, <1>6 DEF EventHwiStep

LEMMA BitsNext == EventAssumption /\ BitsIInv /\ [EventNext]_allVars => BitsIInv'
<1> SUFFICES ASSUME EventAssumption, BitsIInv, [EventNext]_allVars PROVE BitsIInv'
  OBVIOUS
<1>1. CASE EventKernelStep \/ UNCHANGED allVars
  <2>1. UNCHANGED <<pc, op, count, eventVars>>
    BY <1>1 DEF EventKernelStep, EventKernelOnly, allVars, vars, callVars, semVars
  <2> QED BY <2>1, EventUntouched
<1>2. CASE EventHwiStep
  BY <1>2, EventHwiPreserves
<1>3. CASE ReaderCall \/ EventPendRestore \/ EventPendReturn
  BY <1>3, ReaderPreserves
<1>4. CASE \E t \in Tasks : EventCall(t) \/ EventProgress(t)
  BY <1>4, EventCallPreserves, EventProgressPreserves
<1> QED BY <1>1, <1>2, <1>3, <1>4 DEF EventNext

\* Nothing is announced and the reader does not pend.
LEMMA BitsInit == EventInit => BitsIInv
<1> SUFFICES ASSUME EventInit PROVE BitsIInv
  OBVIOUS
<1>1. /\ pc = [t \in Tasks |-> "user"] /\ op = [t \in Tasks |-> NoOp]
      /\ count = InitCount /\ postedEvents = {s \in Sems : count[s] > 0}
      /\ eventQ = <<>> /\ want = NoMask
  BY DEF EventInit, Init, InitCalls
<1>2. EventCalls
  BY <1>1, OpFields DEF EventCalls, PCs
<1> QED BY <1>1, <1>2, InitCountAssumption DEF BitsIInv, ReaderWaits, NoUnseenToken, NoMissedEvent

\* The reader never sleeps while what it waits for has been posted, whatever
\* tasks and interrupts post, take and reset in between (Event.c, Semaphore.c).
THEOREM NoEventMissed == EventAssumption => (EventSpec => []NoMissedEvent)
<1> SUFFICES ASSUME EventAssumption PROVE EventSpec => []NoMissedEvent
  OBVIOUS
<1>1. BitsIInv /\ [EventNext]_allVars => BitsIInv'
  BY BitsNext
<1>2. BitsIInv => NoMissedEvent
  BY DEF BitsIInv
<1> QED BY <1>1, <1>2, BitsInit, PTL DEF EventSpec

\* A token shows in the Event object, is about to be announced, or the reader
\* has been told of it (Event.xdc:110-115).
THEOREM TokensShown == EventAssumption => (EventSpec => []NoUnseenToken)
<1> SUFFICES ASSUME EventAssumption PROVE EventSpec => []NoUnseenToken
  OBVIOUS
<1>1. BitsIInv /\ [EventNext]_allVars => BitsIInv'
  BY BitsNext
<1>2. BitsIInv => NoUnseenToken
  BY DEF BitsIInv
<1> QED BY <1>1, <1>2, BitsInit, PTL DEF EventSpec

-----------------------------------------------------------------------------
(* The order of the waiting lists while nobody changes a priority.         *)

\* The inductive invariant.
OrderIInv ==
  /\ pri \in [Tasks -> Level]
  /\ pendQ \in [Sems -> Seq(Tasks)]
  /\ PriorityOrder

\* What a list loses leaves it sorted: its head, or any waiter.
LEMMA TailSorted ==
  ASSUME NEW q \in Seq(Tasks), Sorted(q), q # <<>>
  PROVE  Sorted(Tail(q))
<1> DEFINE r == Tail(q)
<1>1. r \in Seq(Tasks) /\ Len(r) = Len(q) - 1 /\ \A j \in 1 .. Len(r) : r[j] = q[j + 1]
  OBVIOUS
<1> HIDE DEF r
<1>2. ASSUME NEW i \in 1 .. Len(r), NEW j \in 1 .. Len(r), i < j PROVE pri[r[i]] >= pri[r[j]]
  <2>1. i + 1 \in 1 .. Len(q) /\ j + 1 \in 1 .. Len(q) /\ i + 1 < j + 1
    BY <1>1, <1>2
  <2>2. \A m, n \in 1 .. Len(q) : m < n => pri[q[m]] >= pri[q[n]]
    BY DEF Sorted
  <2>3. pri[q[i + 1]] >= pri[q[j + 1]]
    BY <2>1, <2>2
  <2>4. r[i] = q[i + 1] /\ r[j] = q[j + 1]
    BY <1>1
  <2> QED BY <2>3, <2>4
<1>3. Sorted(r)
  BY <1>1, <1>2 DEF Sorted
<1> QED BY <1>3 DEF r

LEMMA RemoveSorted ==
  ASSUME NEW q \in Seq(Tasks), Sorted(q), NEW t \in Tasks, Linked(t, q)
  PROVE  Sorted(Queue_remove(q, t))
<1> DEFINE r == Queue_remove(q, t)
<1>1. PICK k \in 1 .. Len(q) : /\ r \in Seq(Tasks) /\ Len(r) = Len(q) - 1
                               /\ \A j \in 1 .. Len(r) : r[j] = IF j < k THEN q[j] ELSE q[j + 1]
  BY RemoveIndices
<1> HIDE DEF r
<1>2. ASSUME NEW i \in 1 .. Len(r), NEW j \in 1 .. Len(r), i < j PROVE pri[r[i]] >= pri[r[j]]
  <2> DEFINE a == IF i < k THEN i ELSE i + 1
             b == IF j < k THEN j ELSE j + 1
  <2>1. a \in 1 .. Len(q) /\ b \in 1 .. Len(q) /\ a < b /\ r[i] = q[a] /\ r[j] = q[b]
    BY <1>1, <1>2
  <2> HIDE DEF a, b
  <2>2. \A m, n \in 1 .. Len(q) : m < n => pri[q[m]] >= pri[q[n]]
    BY DEF Sorted
  <2>3. pri[q[a]] >= pri[q[b]]
    BY <2>1, <2>2
  <2> QED BY <2>1, <2>3
<1>3. Sorted(r)
  BY <1>1, <1>2 DEF Sorted
<1> QED BY <1>3 DEF r

\* A pend queues before the first waiter of a lower priority.
LEMMA InsertSorted ==
  ASSUME pri \in [Tasks -> Level], NEW q \in Seq(Tasks), Sorted(q), NEW t \in Tasks
  PROVE  InsertPri(q, t, pri[t]) \in Seq(Tasks) /\ Sorted(InsertPri(q, t, pri[t]))
<1> DEFINE r == InsertPri(q, t, pri[t])
<1>1. PICK k \in 1 .. Len(q) + 1 : /\ r = InsertAt(q, k, t)
                                   /\ \A j \in 1 .. k - 1 : pri[q[j]] >= pri[t]
                                   /\ k <= Len(q) => pri[q[k]] < pri[t]
  BY InsertPriPlace
<1>2. /\ r \in Seq(Tasks) /\ Len(r) = Len(q) + 1
      /\ \A j \in 1 .. Len(r) : r[j] = IF j < k THEN q[j] ELSE IF j = k THEN t ELSE q[j - 1]
  BY <1>1, InsertIndices
<1> HIDE DEF r
<1>3. /\ \A i, j \in 1 .. Len(q) : i < j => pri[q[i]] >= pri[q[j]]
      /\ \A j \in 1 .. Len(q) : pri[q[j]] \in Int
      /\ pri[t] \in Int
  BY DEF Sorted, Level, Priority, Inactive
<1>4. \A j \in 1 .. Len(q) : k <= j => pri[t] >= pri[q[j]]
  <2> TAKE j \in 1 .. Len(q)
  <2> HAVE k <= j
  <2>1. k \in 1 .. Len(q) /\ pri[q[k]] < pri[t]
    BY <1>1
  <2>2. pri[q[k]] >= pri[q[j]]
    BY <1>3, <2>1
  <2> QED BY <1>3, <2>1, <2>2
<1>5. ASSUME NEW i \in 1 .. Len(r), NEW j \in 1 .. Len(r), i < j PROVE pri[r[i]] >= pri[r[j]]
  <2>1. CASE j < k
    <3>1. i \in 1 .. Len(q) /\ j \in 1 .. Len(q) /\ r[i] = q[i] /\ r[j] = q[j]
      BY <1>2, <1>5, <2>1
    <3> QED BY <1>3, <1>5, <3>1
  <2>2. CASE j = k
    <3>1. i \in 1 .. k - 1 /\ r[i] = q[i] /\ r[j] = t
      BY <1>2, <1>5, <2>2
    <3> QED BY <1>1, <3>1
  <2>3. CASE k < j /\ i = k
    <3>1. j - 1 \in 1 .. Len(q) /\ k <= j - 1 /\ r[i] = t /\ r[j] = q[j - 1]
      BY <1>2, <2>3
    <3> QED BY <1>4, <3>1
  <2>4. CASE k < j /\ i # k
    <3> DEFINE a == IF i < k THEN i ELSE i - 1
    <3>1. a \in 1 .. Len(q) /\ j - 1 \in 1 .. Len(q) /\ a < j - 1 /\ r[i] = q[a] /\ r[j] = q[j - 1]
      BY <1>2, <1>5, <2>4
    <3> HIDE DEF a
    <3> QED BY <1>3, <3>1
  <2> QED BY <2>1, <2>2, <2>3, <2>4
<1>6. Sorted(r)
  BY <1>2, <1>5 DEF Sorted
<1> QED BY <1>2, <1>6 DEF r

\* The order is kept by a region that does to each list one of these things.
LEMMA OrderKept ==
  ASSUME OrderIInv, UNCHANGED pri, pendQ' \in [Sems -> Seq(Tasks)],
         \A s \in Sems : \/ pendQ'[s] = pendQ[s]
                         \/ pendQ[s] # <<>> /\ pendQ'[s] = Tail(pendQ[s])
                         \/ \E t \in Tasks : Linked(t, pendQ[s]) /\ pendQ'[s] = Queue_remove(pendQ[s], t)
                         \/ "priority" \notin Mode[s]
                         \/ \E t \in Tasks : pendQ'[s] = InsertPri(pendQ[s], t, pri[t])
  PROVE  OrderIInv'
<1>1. ASSUME NEW s \in Sems, "priority" \in Mode[s] PROVE Sorted(pendQ'[s])
  <2>1. pendQ[s] \in Seq(Tasks) /\ Sorted(pendQ[s]) /\ pri \in [Tasks -> Level]
    BY <1>1 DEF OrderIInv, PriorityOrder
  <2>2. CASE pendQ'[s] = pendQ[s]
    BY <2>1, <2>2
  <2>3. CASE pendQ[s] # <<>> /\ pendQ'[s] = Tail(pendQ[s])
    BY <2>1, <2>3, TailSorted
  <2>4. ASSUME NEW t \in Tasks, Linked(t, pendQ[s]), pendQ'[s] = Queue_remove(pendQ[s], t)
        PROVE  Sorted(pendQ'[s])
    BY <2>1, <2>4, RemoveSorted
  <2>5. ASSUME NEW t \in Tasks, pendQ'[s] = InsertPri(pendQ[s], t, pri[t])
        PROVE  Sorted(pendQ'[s])
    BY <2>1, <2>5, InsertSorted
  <2> QED BY <1>1, <2>2, <2>3, <2>4, <2>5
<1>2. ASSUME NEW s \in Sems, "priority" \in Mode[s] PROVE Sorted(pendQ[s])'
  BY <1>1, <1>2 DEF Sorted
<1> QED BY <1>2 DEF OrderIInv, PriorityOrder

LEMMA PostOrder ==
  ASSUME OrderIInv, NEW s, Semaphore_post(s)
  PROVE  OrderIInv'
<1>1. UNCHANGED pri
  BY DEF Semaphore_post, Increment, HandOver, Task_unblockI, queueVars
<1>2. CASE pendQ[s] = <<>>
  <2>1. UNCHANGED pendQ
    BY <1>2 DEF Semaphore_post, Increment
  <2> QED BY <1>1, <2>1 DEF OrderIInv, PriorityOrder, Sorted
<1>3. CASE pendQ[s] # <<>>
  <2>1. pendQ' = [pendQ EXCEPT ![s] = Tail(@)]
    BY <1>3 DEF Semaphore_post, HandOver
  <2>2. \A r \in Sems : \/ pendQ'[r] = pendQ[r]
                        \/ pendQ[r] # <<>> /\ pendQ'[r] = Tail(pendQ[r])
    BY <1>3, <2>1 DEF OrderIInv
  <2>3. pendQ' \in [Sems -> Seq(Tasks)]
    <3>1. s \in Sems => Tail(pendQ[s]) \in Seq(Tasks)
      BY <1>3 DEF OrderIInv
    <3> QED BY <2>1, <3>1 DEF OrderIInv
  <2> QED BY <1>1, <2>2, <2>3, OrderKept
<1> QED BY <1>2, <1>3

LEMMA TimeoutOrder ==
  ASSUME OrderIInv, NEW t \in Tasks, Semaphore_pendTimeout(t)
  PROVE  OrderIInv'
<1>1. UNCHANGED pri
  BY DEF Semaphore_pendTimeout, Task_unblockI, queueVars
<1>2. CASE pendState[t] # "CLOCK_WAIT"
  <2>1. UNCHANGED pendQ
    BY <1>2 DEF Semaphore_pendTimeout
  <2> QED BY <1>1, <2>1 DEF OrderIInv, PriorityOrder, Sorted
<1>3. CASE pendState[t] = "CLOCK_WAIT"
  <2>1. pendQ' = Unpended(t)
    BY <1>3 DEF Semaphore_pendTimeout
  <2>2. \A s \in Sems : \/ pendQ'[s] = pendQ[s]
                        \/ Linked(t, pendQ[s]) /\ pendQ'[s] = Queue_remove(pendQ[s], t)
    BY <2>1 DEF Unpended
  <2>3. ASSUME NEW s \in Sems, Linked(t, pendQ[s]) PROVE Queue_remove(pendQ[s], t) \in Seq(Tasks)
    BY <2>3, RemoveIndices DEF OrderIInv
  <2>4. pendQ' \in [Sems -> Seq(Tasks)]
    BY <2>1, <2>3 DEF Unpended, OrderIInv
  <2> QED BY <1>1, <2>2, <2>4, OrderKept
<1> QED BY <1>2, <1>3

LEMMA BlockOrder ==
  ASSUME OrderIInv, NEW t \in Tasks, NEW s \in Sems, NEW how, PendBlock(t, s, how)
  PROVE  OrderIInv'
<1>1. UNCHANGED pri /\ pendQ' = [pendQ EXCEPT ![s] = Queued(t, s)]
  BY DEF PendBlock, Task_blockI, Queued
<1>2. Queued(t, s) \in Seq(Tasks)
  <2>1. PICK i \in 1 .. Len(pendQ[s]) + 1 : Queued(t, s) = InsertAt(pendQ[s], i, t)
    BY QueuedPlace DEF OrderIInv
  <2> QED BY <2>1, InsertIndices DEF OrderIInv
<1>3. pendQ' \in [Sems -> Seq(Tasks)]
  BY <1>1, <1>2 DEF OrderIInv
<1>4. \A r \in Sems : \/ pendQ'[r] = pendQ[r]
                      \/ "priority" \notin Mode[r]
                      \/ pendQ'[r] = InsertPri(pendQ[r], t, pri[t])
  BY <1>1 DEF Queued, OrderIInv
<1> QED BY <1>1, <1>3, <1>4, OrderKept

LEMMA EventPostOrder ==
  ASSUME NEW id, Event_post(id)
  PROVE  UNCHANGED pri
BY DEF Event_post, Task_unblockI, queueVars

LEMMA OrderNext == OrderIInv /\ [EventNext]_allVars => OrderIInv'
<1> SUFFICES ASSUME OrderIInv, [EventNext]_allVars PROVE OrderIInv'
  OBVIOUS
<1>1. CASE UNCHANGED <<pri, pendQ>>
  BY <1>1 DEF OrderIInv, PriorityOrder, Sorted
<1>2. CASE EventKernelStep \/ UNCHANGED allVars
  <2>1. UNCHANGED <<pri, pendQ>>
    BY <1>2 DEF EventKernelStep, EventKernelOnly, Scheduler, Task_schedule, Task_allBlockedFunction,
       Task_swap, HwiEnter, EventHwiDone, HwiDone, HwiExit, queueVars, allVars, vars, kernelVars, semVars
  <2> QED BY <2>1, <1>1
<1>3. CASE EventHwiStep
  <2>1. ASSUME NEW id \in Explicit, HwiEventPost(id) PROVE OrderIInv'
    BY <2>1, <1>1, EventPostOrder DEF HwiEventPost
  <2>2. ASSUME NEW s \in Sems, HwiCoupledPost(s) PROVE OrderIInv'
    BY <2>2, PostOrder DEF HwiCoupledPost, HwiPost
  <2>3. ASSUME NEW s \in Sems, HwiAnnounce(s) PROVE OrderIInv'
    BY <2>3, <1>1, EventPostOrder DEF HwiAnnounce
  <2>4. ASSUME NEW s \in Sems, HwiCoupledTake(s) PROVE OrderIInv'
    BY <2>4, <1>1 DEF HwiCoupledTake, HwiTake, Decrement, queueVars
  <2>5. ASSUME NEW t \in Tasks, HwiTimeout(t) PROVE OrderIInv'
    <3>1. ClockExpires(t) \/ Semaphore_pendTimeout(t)
      BY <2>5 DEF HwiTimeout, Event_pendTimeout
    <3>2. CASE ClockExpires(t)
      BY <3>2, <1>1 DEF ClockExpires, queueVars
    <3> QED BY <3>1, <3>2, TimeoutOrder
  <2> QED BY <1>3, <2>1, <2>2, <2>3, <2>4, <2>5 DEF EventHwiStep
<1>4. CASE ReaderCall \/ EventPendRestore \/ EventPendReturn
  <2>1. UNCHANGED <<pri, pendQ>>
    BY <1>4 DEF ReaderCall, EventPendNow, EventPendBlock, Task_blockI, EventPendRestore, EventPendReturn,
       Return, PendReturn, queueVars, semVars
  <2> QED BY <2>1, <1>1
<1>5. ASSUME NEW t \in Tasks, EventCall(t) PROVE OrderIInv'
  <2>1. ASSUME NEW s \in Sems, NEW how \in Timeouts, CoupledBlock(t, s, how) PROVE OrderIInv'
    BY <2>1, BlockOrder DEF CoupledBlock
  <2>2. ASSUME NEW id \in Explicit, EventPostTask(t, id) PROVE OrderIInv'
    BY <2>2, <1>1, EventPostOrder DEF EventPostTask
  <2>3. ASSUME NEW s \in Sems, CoupledTake(t, s) \/ CoupledFail(t, s) PROVE UNCHANGED <<pri, pendQ>>
    BY <2>3 DEF CoupledTake, PendTake, Decrement, CoupledFail, queueVars, semVars
  <2>4. ASSUME NEW s \in Sems, NEW n \in 0 .. CountLimit - 1, CoupledReset(t, s, n)
        PROVE  UNCHANGED <<pri, pendQ>>
    BY <2>4 DEF CoupledReset, Semaphore_reset, queueVars
  <2>5. ASSUME NEW s \in Sems, PostCall(t, s) PROVE UNCHANGED <<pri, pendQ>>
    BY <2>5 DEF PostCall, Call, queueVars, semVars
  <2> QED BY <1>1, <1>5, <2>1, <2>2, <2>3, <2>4, <2>5 DEF EventCall
<1>6. ASSUME NEW t \in Tasks, EventProgress(t) PROVE OrderIInv'
  <2>1. CASE CoupledPost(t)
    BY <2>1, PostOrder DEF CoupledPost
  <2>2. CASE CoupledAnnounce(t)
    BY <2>2, <1>1, EventPostOrder DEF CoupledAnnounce
  <2>3. CASE \/ Lock(t) /\ UNCHANGED <<semVars, eventVars>>
             \/ CoupledPendRestore(t) \/ CoupledReturn(t) \/ CoupledPostRestore(t)
             \/ EventPostRestore(t)
    <3>1. UNCHANGED <<pri, pendQ>>
      BY <2>3 DEF Lock, CoupledPendRestore, PendRestore, CoupledReturn, PendReturn, CoupledPostRestore,
         PostRestore, EventPostRestore, Return, queueVars, semVars
    <3> QED BY <3>1, <1>1
  <2> QED BY <1>6, <2>1, <2>2, <2>3 DEF EventProgress
<1> QED BY <1>2, <1>3, <1>4, <1>5, <1>6 DEF EventNext

\* The waiters of a priority semaphore stand in the order of their priorities:
\* Semaphore_pend, _post and _pendTimeout keep it as long as nobody changes one.
THEOREM WaitersSorted == EventSpec => []PriorityOrder
<1>1. EventInit => OrderIInv
  BY InitPriAssumption DEF EventInit, Init, InitCalls, KernelInit, OrderIInv, PriorityOrder, Sorted
<1>2. OrderIInv => PriorityOrder
  BY DEF OrderIInv
<1> QED BY <1>1, <1>2, OrderNext, PTL DEF EventSpec

-----------------------------------------------------------------------------
(* Event: the reader's wait.                                               *)

\* Where a call holds the scheduler lock, and the calls that wait.
EventLocking == {"region", "announce", "restore"}
EventPends   == {"pend", "eventPend"}

\* The lock is held by the running task's call and by nobody else; a task that
\* has queued itself does not run on.
EventControl ==
  /\ ~swiLocked
  /\ \A t \in Tasks : ~key[t]
  /\ \A t \in Tasks : pc[t] \in EventLocking => t = running /\ phase = "user"
  /\ phase = "user" => ((IF isr THEN isrKey ELSE locked) <=> pc[running] \in EventLocking)
  /\ ~isr /\ phase = "user" /\ ~locked => ~workFlag
  /\ phase = "user" => mode[running] = "READY"
                         \/ (pc[running] = "restore" /\ op[running].name \in EventPends)
  /\ \A t \in Tasks : pc[t] = "restore" /\ op[t].name \in EventPends => workFlag

\* Where the call of t is, and what it is.
EventCallOf(t) ==
  /\ pc[t] = "user" => op[t].name = "none"
  /\ pc[t] \in {"write", "region", "announce"} => op[t].name = "post"
  /\ pc[t] = "wake" => op[t].name \in EventPends
  /\ pc[t] # "dead"
  /\ op[t].name = "eventPend" => t = Reader

\* How the wait of t stands, for a semaphore or for events.
EventWaitOf(t) ==
  /\ mode[t] \in {"READY", "BLOCKED"}
  /\ op[t].name \in EventPends <=> pendState[t] # "none"
  /\ mode[t] = "BLOCKED" <=> pendState[t] \in Timeouts
  /\ \A s \in Sems : Linked(t, pendQ[s]) => mode[t] = "BLOCKED" /\ op[t].name = "pend"
  /\ \A r, s \in Sems : Linked(t, pendQ[r]) /\ Linked(t, pendQ[s]) => r = s

EventWaits ==
  /\ \A s \in Sems : NoDuplicates(pendQ[s])
  /\ \A t \in Tasks : EventCallOf(t) /\ EventWaitOf(t)

\* The reader is looked for exactly while its wait is unresolved, and it is told
\* of events exactly when it is posted.
ReaderResult ==
  /\ eventQ # <<>> <=> op[Reader].name = "eventPend" /\ pendState[Reader] \in Timeouts
  /\ op[Reader].name = "eventPend" =>
       IF pendState[Reader] = "POSTED"
       THEN /\ got # {} /\ got \subseteq want.and \cup want.or
            /\ want.and \subseteq got \/ got \subseteq want.or
       ELSE got = {}

EventWaitTypes ==
  /\ key \in [Tasks -> BOOLEAN]
  /\ pendQ \in [Sems -> Seq(Tasks)]
  /\ pendState \in [Tasks -> PendStates]
  /\ clk \in [Tasks -> Clocks]

WaitIInv ==
  KernelTypeOK /\ KernelOK /\ EventWaitTypes /\ EventControl /\ EventWaits /\ ReaderResult

\* What the running task may rely on.
LEMMA EventInCall ==
  ASSUME WaitIInv, NEW t \in Tasks, InTask(t)
  PROVE  /\ QueueTypeOK /\ QueuesOK
         /\ running = t /\ curTask = t /\ phase = "user" /\ ~isr
         /\ UNCHANGED <<curTask, running, isr, isrKey>>
         /\ locked <=> pc[t] \in EventLocking
         /\ \A u \in Tasks \ {t} : pc[u] \notin EventLocking
         /\ pc[t] # "restore" => mode[t] = "READY"
         /\ ~locked => ~workFlag
         /\ ~swiLocked /\ locked \in BOOLEAN /\ swiLocked \in BOOLEAN
         /\ \A u \in Tasks : ~key[u]
<1>1. KernelTypeOK /\ KernelOK /\ QueueTypeOK /\ QueuesOK /\ EventControl
  BY DEF WaitIInv, KernelTypeOK, KernelOK
<1>2. running = t /\ phase = "user" /\ ~isr /\ UNCHANGED <<curTask, running, isr, isrKey>>
  BY DEF InTask, hwiVars
<1>3. curTask = t
  BY <1>1, <1>2 DEF KernelOK, ControlOK
<1> QED BY <1>1, <1>2, <1>3 DEF EventControl, KernelTypeOK, ControlTypeOK

\* After a region of t: t alone holds the lock, the scheduler is told if t has
\* queued itself, and the others' calls stand where they did.
LEMMA EventRegion ==
  ASSUME WaitIInv, BitsIInv, NEW t \in Tasks, NEW l \in PCs \cup {"announce"},
         NEW o \in Ops \cup EventOps, InTask(t),
         UNCHANGED <<phase, swiLocked>>, QueueTypeOK', QueuesOK',
         pc' = [pc EXCEPT ![t] = l], op' = [op EXCEPT ![t] = o],
         key' \in [Tasks -> BOOLEAN], \A u \in Tasks : ~key'[u],
         locked' \in BOOLEAN, locked' <=> l \in EventLocking,
         workFlag' \/ (UNCHANGED queueVars /\ (~locked' => ~locked)),
         ~locked' => ~workFlag',
         mode'[t] = "READY" \/ (l = "restore" /\ o.name \in EventPends),
         l = "restore" /\ o.name \in EventPends => workFlag'
  PROVE  KernelTypeOK' /\ KernelOK' /\ EventControl'
<1>1. /\ running = t /\ phase = "user" /\ ~isr /\ UNCHANGED <<curTask, running, isr, isrKey>>
      /\ \A u \in Tasks \ {t} : pc[u] \notin EventLocking
      /\ ~swiLocked /\ swiLocked' \in BOOLEAN
  BY EventInCall
<1>2. KernelTypeOK' /\ KernelOK'
  BY <1>1, RegionPreserves DEF WaitIInv, queueVars
<1>3. \A u \in Tasks : /\ pc'[u] = IF u = t THEN l ELSE pc[u]
                       /\ op'[u] = IF u = t THEN o ELSE op[u]
  BY Zenon DEF BitsIInv, EventCalls
<1>4. EventControl'
  BY <1>1, <1>3 DEF EventControl, EventLocking
<1> QED BY <1>2, <1>4

\* An operation of an interrupt leaves the calls alone.
LEMMA EventControlHwi ==
  ASSUME WaitIInv, InHwi, UNCHANGED callVars, QueueTypeOK', QueuesOK',
         workFlag' \/ UNCHANGED queueVars,
         \A u \in Tasks : mode[u] = "READY" => mode'[u] = "READY"
  PROVE  KernelTypeOK' /\ KernelOK' /\ EventControl'
<1>1. /\ isr /\ UNCHANGED <<curTask, locked, swiLocked, running, phase, isr, isrKey, pc, op, key>>
      /\ running \in Tasks /\ curTask \in Tasks
  BY DEF InHwi, hwiVars, callVars, WaitIInv, KernelTypeOK, ControlTypeOK
<1>2. KernelTypeOK' /\ KernelOK'
  BY <1>1, HwiPreserves DEF WaitIInv
<1>3. workFlag => workFlag'
  BY DEF queueVars
<1>4. EventControl'
  BY <1>1, <1>3 DEF WaitIInv, EventControl
<1> QED BY <1>2, <1>4

\* The scheduler and the interrupt dispatcher touch no call and no wait.
LEMMA EventKernelWaits ==
  ASSUME WaitIInv, EventKernelStep
  PROVE  WaitIInv'
<1>1. KernelTypeOK /\ KernelOK /\ EventControl
  BY DEF WaitIInv
<1>2. UNCHANGED <<pc, op, key, pendQ, pendState, clk, eventQ, want, got>>
  BY DEF EventKernelStep, EventKernelOnly, callVars, semVars, eventVars
<1>3. Scheduler \/ HwiEnter \/ HwiExit
  BY DEF EventKernelStep, EventHwiDone, HwiDone
<1>4. /\ UNCHANGED <<mode, pri>>
      /\ phase = "user" /\ ~isr => workFlag' = workFlag
  BY <1>3 DEF Scheduler, Task_schedule, Task_allBlockedFunction, Task_swap, HwiEnter, HwiExit, queueVars
<1>5. KernelTypeOK' /\ KernelOK'
  BY <1>1, <1>3, Task_schedulePreserves, Task_allBlockedFunctionPreserves, Task_swapPreserves,
     HwiEnterPreserves, HwiExitPreserves DEF Scheduler
<1>6. EventControl'
  <2>1. CASE Scheduler
    <3>1. /\ phase # "user" /\ ~isr' /\ ~swiLocked'
          /\ (phase' = "user" => locked' = FALSE /\ workFlag' = FALSE)
      BY <2>1, <1>1 DEF Scheduler, Task_schedule, Task_allBlockedFunction, Task_swap,
         Task_schedule_select, LoopTest, hwiVars, queueVars, KernelOK, ControlOK, EventControl,
         KernelTypeOK, QueueTypeOK
    <3>2. phase' = "user" => mode'[running'] = "READY"
      BY <2>1, <1>1, Task_schedulePreserves, Task_allBlockedFunctionPreserves, Task_swapPreserves
      DEF Scheduler
    <3>3. (\A t \in Tasks : pc[t] \notin EventLocking) /\ "restore" \in EventLocking
      BY <1>1, <3>1 DEF EventControl, EventLocking
    <3>4. running' \in Tasks
      BY <1>5 DEF KernelTypeOK, ControlTypeOK
    <3> QED BY <1>1, <1>2, <3>1, <3>2, <3>3, <3>4 DEF EventControl
  <2>2. CASE HwiEnter
    <3>1. /\ ~isr /\ isr' /\ isrKey' = locked
          /\ UNCHANGED <<running, phase, swiLocked, workFlag>>
      BY <2>2 DEF HwiEnter, queueVars
    <3> QED BY <1>1, <1>2, <1>4, <3>1 DEF EventControl
  <2>3. CASE HwiExit
    <3>1. /\ isr /\ isr' = FALSE /\ UNCHANGED <<running, swiLocked, workFlag>>
          /\ (phase # "user" => isrKey) /\ locked /\ ~swiLocked
          /\ \/ isrKey /\ UNCHANGED <<phase, locked>>
             \/ ~isrKey /\ workFlag /\ phase' = "pick" /\ UNCHANGED locked
             \/ ~isrKey /\ UNCHANGED phase /\ locked' = FALSE /\ ~workFlag
      BY <2>3, <1>1 DEF HwiExit, Task_restore, Swi_enabled, queueVars, KernelOK, ControlOK,
         EventControl, KernelTypeOK, ControlTypeOK, QueueTypeOK
    <3>2. running \in Tasks /\ "restore" \in EventLocking
      BY <1>1 DEF KernelTypeOK, ControlTypeOK, EventLocking
    <3> QED BY <1>1, <1>2, <1>4, <3>1, <3>2 DEF EventControl
  <2> QED BY <1>3, <2>1, <2>2, <2>3
<1>7. EventWaitTypes' /\ EventWaits' /\ ReaderResult'
  BY <1>2, <1>4 DEF WaitIInv, EventWaitTypes, EventWaits, EventCallOf, EventWaitOf, ReaderResult
<1> QED BY <1>5, <1>6, <1>7 DEF WaitIInv

\* A region of t that leaves the queues, the lists and the other waits alone; t,
\* which is ready, has no wait afterwards.
LEMMA EventQuietRegion ==
  ASSUME EventAssumption, BitsIInv, WaitIInv, NEW t \in Tasks,
         NEW l \in PCs \cup {"announce"}, NEW o \in Ops \cup EventOps, InTask(t),
         UNCHANGED <<queueVars, swiLocked, phase, pendQ, eventQ>>,
         pc' = [pc EXCEPT ![t] = l], op' = [op EXCEPT ![t] = o], EventWaitTypes',
         \A u \in Tasks : ~key'[u],
         locked' \in BOOLEAN, locked' <=> l \in EventLocking, ~locked' => ~locked,
         pc[t] # "restore", \A u \in Tasks \ {t} : pendState'[u] = pendState[u],
         pendState'[t] = "none", o.name \notin EventPends,
         t = Reader \/ UNCHANGED <<want, got>>,
         l = "user" => o.name = "none", l \notin {"wake", "dead"},
         l \in {"write", "region", "announce"} => o.name = "post"
  PROVE  WaitIInv'
<1>1. /\ QueueTypeOK /\ QueuesOK /\ UNCHANGED curTask /\ mode[t] = "READY" /\ (~locked => ~workFlag)
  BY EventInCall
<1>2. UNCHANGED <<mode, pri, readyQ, curSet, curQ, workFlag>> /\ key' \in [Tasks -> BOOLEAN]
  BY DEF queueVars, EventWaitTypes
<1>3. QueueTypeOK' /\ QueuesOK'
  BY <1>1, QueuesUnchanged
<1>4. /\ KernelTypeOK' /\ KernelOK' /\ EventControl'
      /\ \A u \in Tasks : /\ pc'[u] = IF u = t THEN l ELSE pc[u]
                          /\ op'[u] = IF u = t THEN o ELSE op[u]
  <2>1. /\ ~locked' => ~workFlag'
        /\ mode'[t] = "READY" \/ (l = "restore" /\ o.name \in EventPends)
        /\ l = "restore" /\ o.name \in EventPends => workFlag'
        /\ workFlag' \/ (UNCHANGED queueVars /\ (~locked' => ~locked))
        /\ UNCHANGED <<phase, swiLocked>>
    BY <1>1, <1>2
  <2>2. KernelTypeOK' /\ KernelOK' /\ EventControl'
    BY <1>2, <1>3, <2>1, EventRegion
  <2>3. \A u \in Tasks : /\ pc'[u] = IF u = t THEN l ELSE pc[u]
                         /\ op'[u] = IF u = t THEN o ELSE op[u]
    BY Zenon DEF BitsIInv, EventCalls
  <2> QED BY <2>2, <2>3
<1>5. \A u \in Tasks : EventCallOf(u) /\ EventWaitOf(u) /\ \A s \in Sems : NoDuplicates(pendQ[s])
  BY DEF WaitIInv, EventWaits
<1>6. ASSUME NEW u \in Tasks \ {t} PROVE EventCallOf(u)' /\ EventWaitOf(u)'
  BY <1>2, <1>4, <1>5 DEF EventCallOf, EventWaitOf
<1>7. EventCallOf(t)'
  BY <1>4 DEF EventCallOf, EventPends
<1>8. EventWaitOf(t)'
  <2>1. pendState'[t] \notin Timeouts
    BY DEF Timeouts
  <2> QED BY <2>1, <1>1, <1>2, <1>4, <1>5 DEF EventWaitOf
<1>9. EventWaits'
  BY <1>5, <1>6, <1>7, <1>8 DEF EventWaits
<1>10. ReaderResult'
  <2>1. CASE t = Reader
    <3>1. eventQ = <<>>
      BY <2>1, <1>1, <1>5 DEF WaitIInv, ReaderResult, EventWaitOf
    <3>2. op'[Reader].name # "eventPend"
      BY <2>1, <1>4 DEF EventPends
    <3> QED BY <3>1, <3>2 DEF ReaderResult
  <2>2. CASE t # Reader
    <3>1. op'[Reader] = op[Reader] /\ pendState'[Reader] = pendState[Reader] /\ UNCHANGED <<want, got>>
      BY <2>2, <1>4 DEF EventAssumption
    <3> QED BY <3>1 DEF WaitIInv, ReaderResult
  <2> QED BY <2>1, <2>2
<1> QED BY <1>4, <1>9, <1>10 DEF WaitIInv

\* A region at "user" that changes no call: the object's and the semaphores'
\* tokens only.
LEMMA EventTokensOnly ==
  ASSUME EventAssumption, BitsIInv, WaitIInv, NEW t \in Tasks, At(t, "user"),
         UNCHANGED <<queueVars, locked, swiLocked, phase, callVars, pendQ, pendState, clk, eventQ, want>>,
         t = Reader \/ UNCHANGED got
  PROVE  WaitIInv'
<1>1. InTask(t) /\ pc[t] = "user" /\ UNCHANGED <<pc, op, key>>
  BY DEF At, callVars
<1>2. op[t].name = "none"
  BY <1>1 DEF WaitIInv, EventWaits, EventCallOf
<1>3. pendState[t] = "none" /\ op' = [op EXCEPT ![t] = op[t]] /\ op[t] \in Ops \cup EventOps
      /\ pc' = [pc EXCEPT ![t] = "user"] /\ "user" \in PCs
  BY <1>1, <1>2 DEF BitsIInv, EventCalls, WaitIInv, EventWaits, EventWaitOf, EventPends, PCs
<1>4. ~locked /\ locked \in BOOLEAN
  BY <1>1, EventInCall DEF EventLocking
<1>5. EventWaitTypes' /\ \A u \in Tasks : ~key'[u]
  BY <1>1 DEF WaitIInv, EventWaitTypes, EventControl
<1>6. "user" \notin EventLocking
  BY DEF EventLocking
<1>7. op[t].name \notin EventPends
  BY <1>2 DEF EventPends
<1> QED BY <1>1, <1>2, <1>3, <1>4, <1>5, <1>6, <1>7, EventQuietRegion

\* The end of a wait for a semaphore or for events.
LEMMA EventPendEnds ==
  ASSUME EventAssumption, BitsIInv, WaitIInv, NEW t \in Tasks, PendReturn(t), UNCHANGED eventQ,
         t = Reader \/ UNCHANGED <<want, got>>
  PROVE  WaitIInv'
<1>1. /\ InTask(t) /\ pc[t] = "wake" /\ pc' = [pc EXCEPT ![t] = "user"]
      /\ clk' = [clk EXCEPT ![t] = "none"] /\ pendState' = [pendState EXCEPT ![t] = "none"]
      /\ op' = [op EXCEPT ![t] = NoOp]
      /\ UNCHANGED <<queueVars, locked, swiLocked, phase, key, pendQ>>
  BY DEF PendReturn, At, Goto
<1>2. ~locked /\ locked \in BOOLEAN
  BY <1>1, EventInCall DEF EventLocking
<1>3. EventWaitTypes' /\ \A u \in Tasks : ~key'[u]
  BY <1>1 DEF WaitIInv, EventWaitTypes, EventControl, PendStates, Clocks
<1>4. pendState'[t] = "none" /\ \A u \in Tasks \ {t} : pendState'[u] = pendState[u]
  BY <1>1 DEF WaitIInv, EventWaitTypes
<1>5. /\ NoOp \in Ops \cup EventOps /\ NoOp.name = "none" /\ NoOp.name \notin EventPends
      /\ "user" \in PCs \cup {"announce"} /\ "user" \notin EventLocking /\ pc[t] # "restore"
  BY <1>1, OpFields DEF PCs, EventLocking, EventPends
<1>6. locked' \in BOOLEAN /\ ~locked'
  BY <1>1, <1>2
<1> QED BY <1>1, <1>3, <1>4, <1>5, <1>6, EventQuietRegion

\* Semaphore_post's call and its write of Task_disable.
LEMMA EventPostCalls ==
  ASSUME EventAssumption, BitsIInv, WaitIInv, NEW t \in Tasks, UNCHANGED <<semVars, eventVars>>,
         (\E s \in Sems : Call(t, [name |-> "post", on |-> s])) \/ Lock(t)
  PROVE  WaitIInv'
<1>1. UNCHANGED <<pendQ, pendState, clk, eventQ, want, got>>
  BY DEF semVars, eventVars
<1>2. ASSUME NEW s \in Sems, Call(t, [name |-> "post", on |-> s]) PROVE WaitIInv'
  <2> DEFINE o == [name |-> "post", on |-> s]
  <2>1. /\ InTask(t) /\ pc[t] = "user" /\ pc' = [pc EXCEPT ![t] = "write"]
        /\ op' = [op EXCEPT ![t] = o] /\ key' = [key EXCEPT ![t] = locked]
        /\ UNCHANGED <<queueVars, locked, swiLocked, phase>>
    BY <1>2 DEF Call, At, Goto
  <2>2. o \in Ops /\ o.name = "post"
    BY OpFields
  <2> HIDE DEF o
  <2>3. ~locked /\ locked \in BOOLEAN
    BY <2>1, EventInCall DEF EventLocking
  <2>4. EventWaitTypes' /\ \A u \in Tasks : ~key'[u]
    BY <1>1, <2>1, <2>3 DEF WaitIInv, EventWaitTypes, EventControl
  <2>5. op[t].name = "none"
    BY <2>1 DEF WaitIInv, EventWaits, EventCallOf
  <2>6. pendState[t] = "none"
    BY <2>5 DEF WaitIInv, EventWaits, EventWaitOf, EventPends
  <2>7. "write" \in PCs /\ "write" \notin EventLocking /\ "post" \notin EventPends
    BY DEF PCs, EventLocking, EventPends
  <2> QED BY <1>1, <2>1, <2>2, <2>3, <2>4, <2>6, <2>7, EventQuietRegion
<1>3. CASE Lock(t)
  <2>1. /\ InTask(t) /\ pc[t] = "write" /\ pc' = [pc EXCEPT ![t] = "region"] /\ locked' = TRUE
        /\ UNCHANGED <<queueVars, swiLocked, phase, op, key>>
    BY <1>3 DEF Lock, At, Goto
  <2>2. op[t].name = "post"
    BY <2>1 DEF WaitIInv, EventWaits, EventCallOf
  <2>3. pendState[t] = "none" /\ op[t] \in Ops \cup EventOps /\ op' = [op EXCEPT ![t] = op[t]]
    BY <2>1, <2>2 DEF BitsIInv, EventCalls, WaitIInv, EventWaits, EventWaitOf, EventPends
  <2>4. EventWaitTypes' /\ \A u \in Tasks : ~key'[u]
    BY <1>1, <2>1 DEF WaitIInv, EventWaitTypes, EventControl
  <2>5. /\ "region" \in PCs \cup {"announce"} /\ "region" \in EventLocking
        /\ op[t].name \notin EventPends /\ pc[t] # "restore" /\ locked' \in BOOLEAN /\ locked'
    BY <2>1, <2>2 DEF PCs, EventLocking, EventPends
  <2>6. pendState'[t] = "none" /\ \A u \in Tasks \ {t} : pendState'[u] = pendState[u]
    BY <1>1, <2>3
  <2> QED BY <2>6, <1>1, <2>1, <2>2, <2>3, <2>4, <2>5, EventQuietRegion
<1> QED BY <1>2, <1>3

\* Task_unblockI of a waiter.
LEMMA EventUnblocks ==
  ASSUME WaitIInv, NEW u \in Tasks, mode[u] = "BLOCKED", Task_unblockI(u), UNCHANGED curTask
  PROVE  /\ QueueTypeOK' /\ QueuesOK' /\ workFlag'
         /\ \A v \in Tasks : mode'[v] = IF v = u THEN "READY" ELSE mode[v]
<1>1. QueueTypeOK /\ QueuesOK
  BY DEF WaitIInv, KernelTypeOK, KernelOK
<1>2. QueueTypeOK' /\ QueuesOK' /\ workFlag'
  BY <1>1, Task_unblockIPreserves
<1>3. mode' = [mode EXCEPT ![u] = "READY"]
  BY DEF Task_unblockI, Readied
<1> QED BY <1>1, <1>2, <1>3 DEF QueueTypeOK

\* The wait of u ends with p: it is ready, it is on no list, and the others wait
\* as they did.
LEMMA EventWaitEnds ==
  ASSUME WaitIInv, NEW u \in Tasks, NEW p \in {"POSTED", "TIMEOUT"}, op[u].name \in EventPends,
         \A v \in Tasks : mode'[v] = IF v = u THEN "READY" ELSE mode[v],
         pendState' = [pendState EXCEPT ![u] = p],
         \A s \in Sems : /\ NoDuplicates(pendQ'[s])
                         /\ \A v \in Tasks : Linked(v, pendQ'[s]) <=> Linked(v, pendQ[s]) /\ v # u,
         \A v \in Tasks : op'[v].name = op[v].name \/ {op[v].name, op'[v].name} \cap EventPends = {},
         \A v \in Tasks : EventCallOf(v)'
  PROVE  EventWaits'
<1>1. \A v \in Tasks : pendState'[v] = IF v = u THEN p ELSE pendState[v]
  BY DEF WaitIInv, EventWaitTypes
<1>2. \A v \in Tasks : EventWaitOf(v)
  BY DEF WaitIInv, EventWaits
<1>3. \A v \in Tasks : /\ op'[v].name \in EventPends <=> op[v].name \in EventPends
                       /\ op[v].name = "pend" => op'[v].name = "pend"
  BY DEF EventPends
<1>4. ASSUME NEW v \in Tasks \ {u} PROVE EventWaitOf(v)'
  <2>1. mode'[v] = mode[v] /\ pendState'[v] = pendState[v]
        /\ \A s \in Sems : Linked(v, pendQ'[s]) <=> Linked(v, pendQ[s])
    BY <1>1
  <2> QED BY <1>2, <1>3, <2>1 DEF EventWaitOf
<1>5. EventWaitOf(u)'
  <2>1. mode'[u] = "READY" /\ pendState'[u] = p /\ (\A s \in Sems : ~Linked(u, pendQ'[s]))
        /\ op'[u].name \in EventPends /\ p # "none" /\ p \notin Timeouts
    BY <1>1, <1>3 DEF Timeouts
  <2> QED BY <2>1 DEF EventWaitOf
<1> QED BY <1>4, <1>5 DEF EventWaits

\* A semaphore's token goes to its first waiter, who is not the reader waiting
\* for events.
LEMMA EventHandsOver ==
  ASSUME EventAssumption, WaitIInv, NEW s \in Sems, pendQ[s] # <<>>, HandOver(s),
         UNCHANGED <<curTask, key, eventQ, want, got>>,
         op'[Reader].name = "eventPend" <=> op[Reader].name = "eventPend",
         \A v \in Tasks : op'[v].name = op[v].name \/ {op[v].name, op'[v].name} \cap EventPends = {},
         \A v \in Tasks : EventCallOf(v)'
  PROVE  /\ QueueTypeOK' /\ QueuesOK' /\ workFlag' /\ EventWaitTypes' /\ EventWaits' /\ ReaderResult'
         /\ \A v \in Tasks : mode[v] = "READY" => mode'[v] = "READY"
<1> DEFINE u == Head(pendQ[s])
<1>1. /\ pendQ' = [pendQ EXCEPT ![s] = Tail(@)]
      /\ pendState' = [pendState EXCEPT ![u] = "POSTED"]
      /\ clk' = [clk EXCEPT ![u] = IF @ = "active" THEN "stopped" ELSE @]
      /\ Task_unblockI(u)
  BY DEF HandOver
<1>2. pendQ[s] \in Seq(Tasks) /\ NoDuplicates(pendQ[s])
  BY DEF WaitIInv, EventWaitTypes, EventWaits
<1>3. /\ u \in Tasks /\ Linked(u, pendQ[s])
      /\ Tail(pendQ[s]) \in Seq(Tasks) /\ NoDuplicates(Tail(pendQ[s]))
  BY <1>2, TailElements
<1>4. \A v \in Tasks : Linked(v, Tail(pendQ[s])) <=> Linked(v, pendQ[s]) /\ v # u
  BY <1>2, TailIsRest
<1> HIDE DEF u
<1>5. EventWaitOf(u)
  BY <1>3 DEF WaitIInv, EventWaits
<1>6. mode[u] = "BLOCKED" /\ op[u].name = "pend" /\ "pend" \in EventPends
  BY <1>3, <1>5 DEF EventWaitOf, EventPends
<1>7. /\ QueueTypeOK' /\ QueuesOK' /\ workFlag'
      /\ \A v \in Tasks : mode'[v] = IF v = u THEN "READY" ELSE mode[v]
  BY <1>1, <1>3, <1>6, EventUnblocks
<1>8. EventWaitTypes'
  BY <1>1, <1>3 DEF WaitIInv, EventWaitTypes, PendStates, Clocks
<1>9. ASSUME NEW r \in Sems
      PROVE  /\ NoDuplicates(pendQ'[r])
             /\ \A v \in Tasks : Linked(v, pendQ'[r]) <=> Linked(v, pendQ[r]) /\ v # u
  <2>1. CASE r = s
    <3>1. pendQ'[r] = Tail(pendQ[s])
      BY <1>1, <2>1 DEF WaitIInv, EventWaitTypes
    <3> QED BY <1>3, <1>4, <2>1, <3>1
  <2>2. CASE r # s
    <3>1. pendQ'[r] = pendQ[r]
      BY <1>1, <2>2 DEF WaitIInv, EventWaitTypes
    <3>2. ~Linked(u, pendQ[r])
      BY <1>3, <1>5, <2>2 DEF EventWaitOf
    <3> QED BY <3>1, <3>2 DEF WaitIInv, EventWaits
  <2> QED BY <2>1, <2>2
<1>10. EventWaits'
  BY <1>1, <1>3, <1>6, <1>7, <1>9, EventWaitEnds
<1>11. ReaderResult'
  <2>1. op[Reader].name = "eventPend" => pendState'[Reader] = pendState[Reader]
    BY <1>1, <1>6 DEF WaitIInv, EventWaitTypes, EventAssumption
  <2> QED BY <2>1 DEF WaitIInv, ReaderResult
<1> QED BY <1>7, <1>8, <1>10, <1>11

\* What Event_checkEvents matches meets the masks.
LEMMA MatchMeets ==
  ASSUME NEW P, NEW m
  PROVE  /\ Matching(P, m) \subseteq m.and \cup m.or
         /\ m.and \subseteq Matching(P, m) \/ Matching(P, m) \subseteq m.or
BY DEF Matching

\* Event_post finds the reader waiting and events that meet its masks.
LEMMA EventAnswers ==
  ASSUME EventAssumption, WaitIInv, NEW id, Event_post(id), eventQ # <<>>,
         Matching(postedEvents \cup {id}, want) # {}, UNCHANGED <<curTask, pendQ, want>>,
         key' \in [Tasks -> BOOLEAN], op'[Reader] = op[Reader],
         \A v \in Tasks : op'[v].name = op[v].name \/ {op[v].name, op'[v].name} \cap EventPends = {},
         \A v \in Tasks : EventCallOf(v)'
  PROVE  /\ QueueTypeOK' /\ QueuesOK' /\ workFlag' /\ EventWaitTypes' /\ EventWaits' /\ ReaderResult'
         /\ \A v \in Tasks : mode[v] = "READY" => mode'[v] = "READY"
<1> DEFINE match == Matching(postedEvents \cup {id}, want)
<1>1. /\ eventQ' = <<>> /\ got' = match
      /\ pendState' = [pendState EXCEPT ![Reader] = "POSTED"]
      /\ clk' = [clk EXCEPT ![Reader] = IF @ = "active" THEN "stopped" ELSE @]
      /\ Task_unblockI(Reader)
  BY DEF Event_post
<1>2. Reader \in Tasks
  BY DEF EventAssumption
<1>3. EventWaitOf(Reader) /\ op[Reader].name = "eventPend" /\ pendState[Reader] \in Timeouts
  BY <1>2 DEF WaitIInv, EventWaits, ReaderResult
<1>4. mode[Reader] = "BLOCKED" /\ op[Reader].name \in EventPends
      /\ \A s \in Sems : ~Linked(Reader, pendQ[s])
  BY <1>3 DEF EventWaitOf, EventPends
<1>5. /\ QueueTypeOK' /\ QueuesOK' /\ workFlag'
      /\ \A v \in Tasks : mode'[v] = IF v = Reader THEN "READY" ELSE mode[v]
  BY <1>1, <1>2, <1>4, EventUnblocks
<1>6. EventWaitTypes'
  BY <1>1, <1>2 DEF WaitIInv, EventWaitTypes, PendStates, Clocks
<1>7. \A s \in Sems : /\ NoDuplicates(pendQ'[s])
                      /\ \A v \in Tasks : Linked(v, pendQ'[s]) <=> Linked(v, pendQ[s]) /\ v # Reader
  BY <1>4 DEF WaitIInv, EventWaits
<1>8. EventWaits'
  BY <1>1, <1>2, <1>4, <1>5, <1>7, EventWaitEnds
<1>9. ReaderResult'
  <2>1. pendState'[Reader] = "POSTED" /\ "POSTED" \notin Timeouts
    BY <1>1, <1>2 DEF WaitIInv, EventWaitTypes, Timeouts
  <2> QED BY <1>1, <2>1, MatchMeets DEF ReaderResult
<1> QED BY <1>5, <1>6, <1>8, <1>9

\* A region of t that readies another task.
LEMMA EventReadies ==
  ASSUME WaitIInv, BitsIInv, NEW t \in Tasks, NEW o \in Ops \cup EventOps, InTask(t),
         UNCHANGED <<phase, swiLocked>>, QueueTypeOK', QueuesOK', workFlag',
         EventWaitTypes', EventWaits', ReaderResult', mode'[t] = "READY",
         pc' = [pc EXCEPT ![t] = "restore"], op' = [op EXCEPT ![t] = o],
         \A u \in Tasks : ~key'[u], locked' = TRUE
  PROVE  WaitIInv'
<1>1. /\ "restore" \in PCs \cup {"announce"} /\ "restore" \in EventLocking
      /\ key' \in [Tasks -> BOOLEAN] /\ locked' \in BOOLEAN
  BY DEF PCs, EventLocking, EventWaitTypes
<1>2. KernelTypeOK' /\ KernelOK' /\ EventControl'
  BY <1>1, EventRegion
<1> QED BY <1>2 DEF WaitIInv

\* The call of t goes on at "restore" and is not one that waits.
LEMMA EventAtRestore ==
  ASSUME WaitIInv, BitsIInv, NEW t \in Tasks, NEW o \in Ops \cup EventOps,
         pc' = [pc EXCEPT ![t] = "restore"], op' = [op EXCEPT ![t] = o],
         {op[t].name, o.name} \cap EventPends = {}
  PROVE  /\ \A v \in Tasks : /\ EventCallOf(v)'
                             /\ op'[v].name = op[v].name \/ {op[v].name, op'[v].name} \cap EventPends = {}
                             /\ op[v].name = "eventPend" => op'[v] = op[v]
                             /\ op'[v].name = "eventPend" <=> op[v].name = "eventPend"
<1>1. \A v \in Tasks : /\ pc'[v] = IF v = t THEN "restore" ELSE pc[v]
                       /\ op'[v] = IF v = t THEN o ELSE op[v]
  BY Zenon DEF BitsIInv, EventCalls
<1>2. op[t].name # "eventPend" /\ o.name # "eventPend"
  BY DEF EventPends
<1>3. \A v \in Tasks : EventCallOf(v)
  BY DEF WaitIInv, EventWaits
<1> QED BY <1>1, <1>2, <1>3 DEF EventCallOf

\* Semaphore_post's region and its announcement.
LEMMA EventPostRegions ==
  ASSUME EventAssumption, BitsIInv, WaitIInv, NEW t \in Tasks,
         CoupledPost(t) \/ CoupledAnnounce(t)
  PROVE  WaitIInv'
<1>1. /\ InTask(t) /\ pc[t] \in {"region", "announce"}
      /\ UNCHANGED <<locked, swiLocked, phase, op, key>>
  BY DEF CoupledPost, CoupledAnnounce, Calling, At
<1>2. op[t].name = "post" /\ op[t] \in Ops \cup EventOps /\ op' = [op EXCEPT ![t] = op[t]]
  BY <1>1 DEF WaitIInv, EventWaits, EventCallOf, BitsIInv, EventCalls
<1>3. op[t].name \notin EventPends /\ {op[t].name, op[t].name} \cap EventPends = {}
  BY <1>2 DEF EventPends
<1> PICK s \in Sems : s = op[t].on
  BY <1>2, EventOpFields
<1>4. /\ pc[t] \in EventLocking /\ pc[t] # "restore"
      /\ UNCHANGED curTask /\ locked = TRUE /\ mode[t] = "READY" /\ \A u \in Tasks : ~key[u]
  <2>1. pc[t] \in EventLocking /\ pc[t] # "restore"
    BY <1>1 DEF EventLocking
  <2> QED BY <1>1, <2>1, EventInCall
<1>5. pendState[t] = "none" /\ key \in [Tasks -> BOOLEAN]
  BY <1>3 DEF WaitIInv, EventWaits, EventWaitOf, EventWaitTypes
<1>6. key' \in [Tasks -> BOOLEAN] /\ (\A u \in Tasks : ~key'[u]) /\ locked' = TRUE /\ locked' \in BOOLEAN
  BY <1>1, <1>4, <1>5
<1>7. CASE CoupledPost(t) /\ pendQ[s] = <<>>
  <2>1. Increment(s) /\ pc' = [pc EXCEPT ![t] = "announce"] /\ UNCHANGED eventVars
    BY <1>7 DEF CoupledPost, Semaphore_post, Goto
  <2>2. UNCHANGED <<queueVars, pendQ, pendState, clk, eventQ, want, got>>
    BY <2>1 DEF Increment, eventVars
  <2>3. EventWaitTypes'
    BY <1>6, <2>2 DEF WaitIInv, EventWaitTypes
  <2>4. "announce" \in PCs \cup {"announce"} /\ "announce" \in EventLocking
    BY DEF EventLocking
  <2>5. pendState'[t] = "none" /\ \A u \in Tasks \ {t} : pendState'[u] = pendState[u]
    BY <1>5, <2>2
  <2> QED BY <1>1, <1>2, <1>3, <1>4, <1>6, <2>1, <2>2, <2>3, <2>4, <2>5, EventQuietRegion
<1>8. CASE CoupledPost(t) /\ pendQ[s] # <<>>
  <2>1. HandOver(s) /\ pc' = [pc EXCEPT ![t] = "restore"] /\ UNCHANGED eventVars
    BY <1>8 DEF CoupledPost, Semaphore_post, Goto
  <2>2. UNCHANGED <<key, eventQ, want, got>>
    BY <1>1, <2>1 DEF eventVars
  <2>3. \A v \in Tasks : /\ EventCallOf(v)'
                         /\ op'[v].name = op[v].name \/ {op[v].name, op'[v].name} \cap EventPends = {}
                         /\ op'[v].name = "eventPend" <=> op[v].name = "eventPend"
    BY <1>2, <1>3, <2>1, EventAtRestore
  <2>4. op'[Reader].name = "eventPend" <=> op[Reader].name = "eventPend"
    BY <2>3 DEF EventAssumption
  <2>5. /\ QueueTypeOK' /\ QueuesOK' /\ workFlag' /\ EventWaitTypes' /\ EventWaits' /\ ReaderResult'
        /\ \A v \in Tasks : mode[v] = "READY" => mode'[v] = "READY"
    BY <1>4, <1>8, <2>1, <2>2, <2>3, <2>4, EventHandsOver
  <2> QED BY <1>1, <1>2, <1>4, <1>6, <2>1, <2>5, EventReadies
<1>9. CASE CoupledAnnounce(t)
  <2>1. Event_post(s) /\ pc' = [pc EXCEPT ![t] = "restore"] /\ UNCHANGED <<pendQ, want>>
    BY <1>9 DEF CoupledAnnounce, Goto
  <2>2. CASE eventQ # <<>> /\ Matching(postedEvents \cup {s}, want) # {}
    <3>1. \A v \in Tasks : /\ EventCallOf(v)'
                           /\ op'[v].name = op[v].name \/ {op[v].name, op'[v].name} \cap EventPends = {}
      BY <1>2, <1>3, <2>1, EventAtRestore
    <3>2. /\ QueueTypeOK' /\ QueuesOK' /\ workFlag' /\ EventWaitTypes' /\ EventWaits' /\ ReaderResult'
          /\ \A v \in Tasks : mode[v] = "READY" => mode'[v] = "READY"
      BY <1>1, <1>4, <1>6, <2>1, <2>2, <3>1, EventAnswers
    <3> QED BY <1>1, <1>2, <1>4, <1>6, <2>1, <3>2, EventReadies
  <2>3. CASE ~(eventQ # <<>> /\ Matching(postedEvents \cup {s}, want) # {})
    <3>1. UNCHANGED <<queueVars, pendQ, pendState, clk, eventQ, want, got>>
      BY <2>1, <2>3 DEF Event_post
    <3>2. EventWaitTypes'
      BY <1>6, <3>1 DEF WaitIInv, EventWaitTypes
    <3>3. "restore" \in PCs \cup {"announce"} /\ "restore" \in EventLocking
      BY DEF EventLocking, PCs
    <3>4. pendState'[t] = "none" /\ \A u \in Tasks \ {t} : pendState'[u] = pendState[u]
      BY <1>5, <3>1
    <3> QED BY <1>1, <1>2, <1>3, <1>4, <1>6, <2>1, <3>1, <3>2, <3>3, <3>4, EventQuietRegion
  <2> QED BY <2>2, <2>3
<1> QED BY <1>7, <1>8, <1>9

\* Event_post by a task.
LEMMA EventPostTaskWaits ==
  ASSUME EventAssumption, BitsIInv, WaitIInv, NEW t \in Tasks, NEW id, EventPostTask(t, id)
  PROVE  WaitIInv'
<1>1. /\ At(t, "user") /\ InTask(t) /\ pc[t] = "user" /\ Event_post(id)
      /\ UNCHANGED <<swiLocked, phase, count, pendQ, want, hwiOwes>>
  BY DEF EventPostTask, At
<1>2. op[t].name = "none"
  BY <1>1 DEF WaitIInv, EventWaits, EventCallOf
<1>3. pendState[t] = "none" /\ key \in [Tasks -> BOOLEAN]
  BY <1>2 DEF WaitIInv, EventWaits, EventWaitOf, EventPends, EventWaitTypes
<1>4. UNCHANGED curTask /\ ~locked /\ locked \in BOOLEAN /\ mode[t] = "READY" /\ \A u \in Tasks : ~key[u]
  BY <1>1, EventInCall DEF EventLocking
<1>5. CASE eventQ = <<>>
  <2>1. UNCHANGED <<queueVars, callVars, locked, pendState, clk, eventQ, got>>
    BY <1>1, <1>5 DEF EventPostTask, Event_post
  <2> QED BY <1>1, <2>1, EventTokensOnly
<1>6. CASE eventQ # <<>>
  <2> DEFINE o == [name |-> "eventPost"]
  <2>1. /\ pc' = [pc EXCEPT ![t] = "restore"] /\ op' = [op EXCEPT ![t] = o]
        /\ key' = [key EXCEPT ![t] = locked] /\ locked' = TRUE
    BY <1>6 DEF EventPostTask, Goto
  <2>2. o \in Ops \cup EventOps /\ o.name = "eventPost"
    BY EventOpFields
  <2> HIDE DEF o
  <2>3. {op[t].name, o.name} \cap EventPends = {} /\ o.name \notin EventPends
    BY <1>2, <2>2 DEF EventPends
  <2>4. key' \in [Tasks -> BOOLEAN] /\ (\A u \in Tasks : ~key'[u]) /\ locked' \in BOOLEAN
    BY <1>3, <1>4, <2>1
  <2>5. CASE Matching(postedEvents \cup {id}, want) # {}
    <3>1. \A v \in Tasks : /\ EventCallOf(v)'
                           /\ op'[v].name = op[v].name \/ {op[v].name, op'[v].name} \cap EventPends = {}
                           /\ op[v].name = "eventPend" => op'[v] = op[v]
      BY <2>1, <2>2, <2>3, EventAtRestore
    <3>2. op'[Reader] = op[Reader]
      BY <1>6, <3>1 DEF EventAssumption, WaitIInv, ReaderResult
    <3>3. /\ QueueTypeOK' /\ QueuesOK' /\ workFlag' /\ EventWaitTypes' /\ EventWaits' /\ ReaderResult'
          /\ \A v \in Tasks : mode[v] = "READY" => mode'[v] = "READY"
      BY <1>1, <1>4, <1>6, <2>4, <2>5, <3>1, <3>2, EventAnswers
    <3> QED BY <1>1, <1>4, <2>1, <2>2, <2>4, <3>3, EventReadies
  <2>6. CASE Matching(postedEvents \cup {id}, want) = {}
    <3>1. UNCHANGED <<queueVars, pendQ, pendState, clk, eventQ, want, got>>
      BY <1>1, <2>6 DEF Event_post
    <3>2. EventWaitTypes'
      BY <2>4, <3>1 DEF WaitIInv, EventWaitTypes
    <3>3. "restore" \in PCs \cup {"announce"} /\ "restore" \in EventLocking
      BY DEF EventLocking, PCs
    <3>4. pendState'[t] = "none" /\ \A u \in Tasks \ {t} : pendState'[u] = pendState[u]
      BY <1>3, <3>1
    <3> QED BY <1>1, <2>1, <2>2, <2>3, <2>4, <3>1, <3>2, <3>3, <3>4, EventQuietRegion
  <2> QED BY <2>5, <2>6
<1> QED BY <1>5, <1>6

\* Task_restore ends a post, or puts a pend to sleep.
LEMMA EventRestores ==
  ASSUME EventAssumption, BitsIInv, WaitIInv, NEW t \in Tasks, NEW l \in {"user", "wake"},
         Return(t, l), UNCHANGED <<semVars, eventVars>>,
         l = "wake" <=> op[t].name \in EventPends
  PROVE  WaitIInv'
<1> DEFINE o == IF l = "wake" THEN op[t] ELSE NoOp
<1>1. /\ InTask(t) /\ pc[t] = "restore" /\ pc' = [pc EXCEPT ![t] = l] /\ Task_restore(key[t])
      /\ key' = [key EXCEPT ![t] = FALSE]
      /\ UNCHANGED <<queueVars, swiLocked, pendQ, pendState, clk, eventQ, want, got>>
      /\ op' = [op EXCEPT ![t] = o]
  BY DEF Return, At, Goto, semVars, eventVars, BitsIInv, EventCalls
<1>2. /\ o.name \in EventPends <=> op[t].name \in EventPends
      /\ op[t].name \in EventPends => o = op[t]
      /\ l = "user" => o.name = "none"
      /\ l = "wake" => o.name \in EventPends
      /\ l # "dead" /\ l \notin {"write", "region", "announce"}
  BY OpFields DEF EventPends
<1> HIDE DEF o
<1>3. /\ KernelTypeOK /\ KernelOK /\ EventControl /\ running = t /\ phase = "user" /\ ~isr /\ locked
      /\ UNCHANGED <<curTask, running, isr, isrKey>>
      /\ \A u \in Tasks \ {t} : pc[u] \notin EventLocking
  <2>1. pc[t] \in EventLocking
    BY <1>1 DEF EventLocking
  <2> QED BY <1>1, <2>1, EventInCall DEF WaitIInv
<1>4. /\ ~swiLocked /\ key[t] \in BOOLEAN /\ ~key[t] /\ UNCHANGED <<mode, workFlag>>
      /\ workFlag \/ mode[t] = "READY"
  BY <1>1, <1>3 DEF WaitIInv, EventControl, EventWaitTypes, queueVars
<1>5. KernelTypeOK' /\ KernelOK'
  BY <1>1, <1>3, <1>4, RestorePreserves
<1>6. \/ workFlag /\ phase' = "pick" /\ locked'
      \/ ~workFlag /\ phase' = "user" /\ ~locked'
  BY <1>1, <1>3, <1>4 DEF Task_restore, Swi_enabled
<1>7. \A u \in Tasks : /\ pc'[u] = IF u = t THEN l ELSE pc[u]
                       /\ op'[u] = IF u = t THEN o ELSE op[u]
  BY <1>1, Zenon DEF BitsIInv, EventCalls
<1>8. key' \in [Tasks -> BOOLEAN] /\ \A u \in Tasks : ~key'[u]
  BY <1>1, <1>3 DEF WaitIInv, EventWaitTypes, EventControl
<1>9. EventControl'
  <2>1. l \notin EventLocking /\ l # "restore"
    BY DEF EventLocking
  <2>2. \A u \in Tasks : pc'[u] \notin EventLocking /\ pc'[u] # "restore"
    BY <1>3, <1>7, <2>1 DEF EventLocking
  <2>3. ~swiLocked' /\ ~isr' /\ running' = t
    BY <1>1, <1>3, <1>4
  <2> QED BY <1>4, <1>6, <1>8, <2>2, <2>3 DEF EventControl
<1>10. EventWaitTypes'
  BY <1>1, <1>8 DEF WaitIInv, EventWaitTypes
<1>11. EventWaits'
  <2>1. \A u \in Tasks : EventCallOf(u) /\ EventWaitOf(u) /\ \A s \in Sems : NoDuplicates(pendQ[s])
    BY DEF WaitIInv, EventWaits
  <2>2. ASSUME NEW u \in Tasks \ {t} PROVE EventCallOf(u)' /\ EventWaitOf(u)'
    BY <1>1, <1>4, <1>7, <2>1 DEF EventCallOf, EventWaitOf
  <2>3. o.name = "eventPend" => t = Reader
    BY <1>2, <2>1 DEF EventCallOf, EventPends
  <2>4. EventCallOf(t)'
    BY <1>2, <1>7, <2>3 DEF EventCallOf
  <2>5. op[t].name = "pend" => o.name = "pend"
    BY <1>2 DEF EventPends
  <2>6. EventWaitOf(t)'
    BY <1>1, <1>2, <1>4, <1>7, <2>1, <2>5 DEF EventWaitOf
  <2> QED BY <1>1, <2>1, <2>2, <2>4, <2>6 DEF EventWaits
<1>12. ReaderResult'
  <2>1. op'[Reader].name = "eventPend" <=> op[Reader].name = "eventPend"
    BY <1>2, <1>7 DEF EventAssumption, EventPends
  <2> QED BY <1>1, <2>1 DEF WaitIInv, ReaderResult
<1> QED BY <1>5, <1>9, <1>10, <1>11, <1>12 DEF WaitIInv

\* Of the tasks t alone may go on a list, on one, and only to wait for a token.
Queues(t, name) ==
  /\ pendQ' \in [Sems -> Seq(Tasks)]
  /\ \A s \in Sems : /\ NoDuplicates(pendQ'[s])
                     /\ \A v \in Tasks \ {t} : Linked(v, pendQ'[s]) <=> Linked(v, pendQ[s])
                     /\ Linked(t, pendQ'[s]) => name = "pend"
  /\ \A r, s \in Sems : Linked(t, pendQ'[r]) /\ Linked(t, pendQ'[s]) => r = s

\* The region in which t queues itself, for a token (it is then on the list of
\* the semaphore) or for events.
LEMMA EventSleeps ==
  ASSUME BitsIInv, WaitIInv, NEW t \in Tasks, NEW o \in Ops \cup EventOps, NEW how \in Timeouts,
         LockToBlock(t, o), Task_blockI(t), o.name \in EventPends,
         o.name = "eventPend" => t = Reader,
         pendState' = [pendState EXCEPT ![t] = how], StartClock(t, how),
         Queues(t, o.name)
  PROVE  /\ KernelTypeOK' /\ KernelOK' /\ EventWaitTypes' /\ EventControl' /\ EventWaits'
         /\ op[t].name = "none" /\ pendState[t] = "none"
         /\ \A v \in Tasks : /\ op'[v] = IF v = t THEN o ELSE op[v]
                             /\ pendState'[v] = IF v = t THEN how ELSE pendState[v]
<1>1. /\ InTask(t) /\ pc[t] = "user" /\ pc' = [pc EXCEPT ![t] = "restore"]
      /\ locked' = TRUE /\ op' = [op EXCEPT ![t] = o] /\ key' = [key EXCEPT ![t] = locked]
      /\ UNCHANGED <<swiLocked, phase>>
      /\ clk' = [clk EXCEPT ![t] = IF how = "CLOCK_WAIT" THEN "active" ELSE "none"]
  BY DEF LockToBlock, At, Goto, StartClock
<1>2. /\ QueueTypeOK /\ QueuesOK /\ UNCHANGED curTask /\ mode[t] = "READY" /\ ~locked
      /\ locked \in BOOLEAN /\ \A u \in Tasks : ~key[u]
  BY <1>1, EventInCall DEF EventLocking
<1>3. QueueTypeOK' /\ QueuesOK' /\ workFlag'
  BY <1>2, LeaveReadyList DEF Task_blockI, Modes
<1>4. \A v \in Tasks : mode'[v] = IF v = t THEN "BLOCKED" ELSE mode[v]
  BY <1>2 DEF Task_blockI, QueueTypeOK
<1>5. key' \in [Tasks -> BOOLEAN] /\ \A v \in Tasks : ~key'[v]
  BY <1>1, <1>2 DEF WaitIInv, EventWaitTypes
<1>6. KernelTypeOK' /\ KernelOK' /\ EventControl'
  <2>1. "restore" \in PCs \cup {"announce"} /\ "restore" \in EventLocking /\ locked' \in BOOLEAN
    BY <1>1 DEF PCs, EventLocking
  <2> QED BY <1>1, <1>3, <1>5, <2>1, EventRegion
<1>7. \A v \in Tasks : /\ pc'[v] = IF v = t THEN "restore" ELSE pc[v]
                       /\ op'[v] = IF v = t THEN o ELSE op[v]
  BY <1>1, Zenon DEF BitsIInv, EventCalls
<1>8. \A v \in Tasks : pendState'[v] = IF v = t THEN how ELSE pendState[v]
  BY DEF WaitIInv, EventWaitTypes
<1>9. EventWaitTypes'
  BY <1>1, <1>5 DEF WaitIInv, EventWaitTypes, PendStates, Clocks, Timeouts, Queues
<1>10. \A v \in Tasks : EventCallOf(v) /\ EventWaitOf(v)
  BY DEF WaitIInv, EventWaits
<1>11. op[t].name = "none" /\ pendState[t] = "none"
  <2>1. op[t].name = "none"
    BY <1>1, <1>10 DEF EventCallOf
  <2> QED BY <1>10, <2>1 DEF EventWaitOf, EventPends
<1>12. ASSUME NEW v \in Tasks \ {t} PROVE EventCallOf(v)' /\ EventWaitOf(v)'
  BY <1>4, <1>7, <1>8, <1>10 DEF EventCallOf, EventWaitOf, Queues
<1>13. EventCallOf(t)'
  BY <1>7 DEF EventCallOf
<1>14. EventWaitOf(t)'
  <2>1. how # "none"
    BY DEF Timeouts
  <2> QED BY <1>4, <1>7, <1>8, <2>1 DEF EventWaitOf, Queues
<1>15. EventWaits'
  BY <1>12, <1>13, <1>14 DEF EventWaits, Queues
<1> QED BY <1>6, <1>7, <1>8, <1>9, <1>11, <1>15

\* A task waits for a token of a coupled semaphore, the reader for events.
LEMMA EventBlocks ==
  ASSUME EventAssumption, BitsIInv, WaitIInv, NEW how \in Timeouts,
         \/ \E t \in Tasks, s \in Sems : t # Reader /\ CoupledBlock(t, s, how)
         \/ \E m \in Masks : EventPendBlock(m, how)
  PROVE  WaitIInv'
<1>1. /\ pendQ \in [Sems -> Seq(Tasks)] /\ \A s \in Sems : pendQ[s] \in Seq(Tasks) /\ NoDuplicates(pendQ[s])
      /\ pri \in [Tasks -> Level] /\ Reader \in Tasks
  BY DEF WaitIInv, EventWaitTypes, EventWaits, KernelTypeOK, QueueTypeOK, EventAssumption
<1>2. ASSUME NEW t \in Tasks, At(t, "user")
      PROVE  /\ \A s \in Sems : ~Linked(t, pendQ[s])
             /\ op[t].name = "none"
  <2>1. op[t].name = "none" /\ EventWaitOf(t)
    BY <1>2 DEF At, WaitIInv, EventWaits, EventCallOf
  <2> QED BY <2>1 DEF EventWaitOf
<1>3. ASSUME NEW t \in Tasks, NEW s \in Sems, t # Reader, CoupledBlock(t, s, how) PROVE WaitIInv'
  <2> DEFINE o == [name |-> "pend", on |-> s]
  <2>1. /\ LockToBlock(t, o) /\ At(t, "user") /\ Task_blockI(t)
        /\ pendQ' = [pendQ EXCEPT ![s] = Queued(t, s)]
        /\ pendState' = [pendState EXCEPT ![t] = how] /\ StartClock(t, how)
        /\ UNCHANGED <<eventQ, want, got>>
    BY <1>3 DEF CoupledBlock, PendBlock, LockToBlock, Queued, eventVars
  <2>2. o \in Ops \cup EventOps /\ o.name = "pend" /\ "pend" \in EventPends
    BY OpFields DEF EventPends
  <2> HIDE DEF o
  <2>3. /\ Queued(t, s) \in Seq(Tasks) /\ NoDuplicates(Queued(t, s))
        /\ \A v \in Tasks : Linked(v, Queued(t, s)) <=> Linked(v, pendQ[s]) \/ v = t
    <3>1. PICK i \in 1 .. Len(pendQ[s]) + 1 : Queued(t, s) = InsertAt(pendQ[s], i, t)
      BY <1>1, QueuedPlace
    <3> QED BY <1>1, <1>2, <2>1, <3>1, InsertElement
  <2>4. \A r \in Sems : pendQ'[r] = IF r = s THEN Queued(t, s) ELSE pendQ[r]
    BY <1>1, <2>1
  <2>5. pendQ' \in [Sems -> Seq(Tasks)]
    BY <1>1, <2>1, <2>3
  <2>6. \A r \in Sems : /\ NoDuplicates(pendQ'[r])
                        /\ \A v \in Tasks \ {t} : Linked(v, pendQ'[r]) <=> Linked(v, pendQ[r])
                        /\ Linked(t, pendQ'[r]) <=> r = s
    BY <1>1, <1>2, <2>1, <2>3, <2>4
  <2>9. Queues(t, o.name) /\ o.name \in EventPends /\ (o.name = "eventPend" => t = Reader)
    BY <2>2, <2>5, <2>6 DEF Queues
  <2>7. /\ KernelTypeOK' /\ KernelOK' /\ EventWaitTypes' /\ EventControl' /\ EventWaits'
        /\ \A v \in Tasks : /\ op'[v] = IF v = t THEN o ELSE op[v]
                            /\ pendState'[v] = IF v = t THEN how ELSE pendState[v]
    BY <1>3, <2>1, <2>2, <2>5, <2>9, EventSleeps
  <2>8. ReaderResult'
    BY <1>1, <1>3, <2>1, <2>7 DEF WaitIInv, ReaderResult
  <2> QED BY <2>7, <2>8 DEF WaitIInv
<1>4. ASSUME NEW m \in Masks, EventPendBlock(m, how) PROVE WaitIInv'
  <2> DEFINE o == [name |-> "eventPend"]
  <2>1. /\ LockToBlock(Reader, o) /\ At(Reader, "user") /\ Task_blockI(Reader)
        /\ UNCHANGED pendQ
        /\ pendState' = [pendState EXCEPT ![Reader] = how] /\ StartClock(Reader, how)
        /\ eventQ' = <<Reader>> /\ got' = {}
    BY <1>4 DEF EventPendBlock, LockToBlock
  <2>2. o \in Ops \cup EventOps /\ o.name = "eventPend" /\ "eventPend" \in EventPends
    BY EventOpFields DEF EventPends
  <2> HIDE DEF o
  <2>3. \A r \in Sems : ~Linked(Reader, pendQ'[r])
    BY <1>1, <1>2, <2>1
  <2>7. Queues(Reader, o.name) /\ o.name \in EventPends
    BY <1>1, <2>1, <2>2, <2>3 DEF Queues
  <2>4. /\ KernelTypeOK' /\ KernelOK' /\ EventWaitTypes' /\ EventControl' /\ EventWaits'
        /\ \A v \in Tasks : /\ op'[v] = IF v = Reader THEN o ELSE op[v]
                            /\ pendState'[v] = IF v = Reader THEN how ELSE pendState[v]
    BY <1>1, <2>1, <2>2, <2>7, EventSleeps
  <2>5. op'[Reader].name = "eventPend" /\ pendState'[Reader] = how
    BY <1>1, <2>2, <2>4
  <2>6. ReaderResult'
    <3>1. eventQ' # <<>> /\ how # "POSTED"
      BY <2>1 DEF Timeouts
    <3> QED BY <2>1, <2>5, <3>1 DEF ReaderResult
  <2> QED BY <2>4, <2>6 DEF WaitIInv
<1> QED BY <1>3, <1>4

\* An interrupt that leaves the waits as they are.
LEMMA EventHwiQuiet ==
  ASSUME WaitIInv, InHwi, clk' \in [Tasks -> Clocks],
         UNCHANGED <<callVars, queueVars, pendQ, pendState, eventQ, want, got>>
  PROVE  WaitIInv'
<1>1. /\ QueueTypeOK /\ QueuesOK /\ UNCHANGED curTask
      /\ UNCHANGED <<pc, op, key, mode, pri, readyQ, curSet, curQ, workFlag>>
  BY DEF InHwi, callVars, queueVars, WaitIInv, KernelTypeOK, KernelOK
<1>2. QueueTypeOK' /\ QueuesOK'
  BY <1>1, QueuesUnchanged
<1>3. /\ workFlag' \/ UNCHANGED queueVars
      /\ \A u \in Tasks : mode[u] = "READY" => mode'[u] = "READY"
  BY <1>1
<1>4. KernelTypeOK' /\ KernelOK' /\ EventControl'
  BY <1>2, <1>3, EventControlHwi
<1>5. EventWaitTypes' /\ EventWaits' /\ ReaderResult'
  BY <1>1 DEF WaitIInv, EventWaitTypes, EventWaits, EventCallOf, EventWaitOf, ReaderResult
<1> QED BY <1>4, <1>5 DEF WaitIInv

\* An interrupt leaves the calls where they are.
LEMMA EventHwiCalls ==
  ASSUME WaitIInv, UNCHANGED callVars
  PROVE  /\ key' \in [Tasks -> BOOLEAN] /\ UNCHANGED <<key, op>>
         /\ \A v \in Tasks : /\ EventCallOf(v)'
                             /\ op'[v].name = op[v].name \/ {op[v].name, op'[v].name} \cap EventPends = {}
<1>1. UNCHANGED <<pc, op, key>>
  BY DEF callVars
<1> QED BY <1>1 DEF WaitIInv, EventWaits, EventWaitTypes, EventCallOf

\* Event_post by an interrupt, of its own or for a semaphore's token.
LEMMA EventHwiPosts ==
  ASSUME EventAssumption, WaitIInv, NEW id, InHwi, Event_post(id), UNCHANGED <<callVars, pendQ, want>>
  PROVE  WaitIInv'
<1>1. /\ key' \in [Tasks -> BOOLEAN] /\ op'[Reader] = op[Reader] /\ UNCHANGED curTask
      /\ \A v \in Tasks : /\ EventCallOf(v)'
                          /\ op'[v].name = op[v].name \/ {op[v].name, op'[v].name} \cap EventPends = {}
  BY EventHwiCalls DEF InHwi
<1>2. CASE eventQ # <<>> /\ Matching(postedEvents \cup {id}, want) # {}
  <2>1. /\ QueueTypeOK' /\ QueuesOK' /\ workFlag' /\ EventWaitTypes' /\ EventWaits' /\ ReaderResult'
        /\ \A v \in Tasks : mode[v] = "READY" => mode'[v] = "READY"
    BY <1>1, <1>2, EventAnswers
  <2>2. KernelTypeOK' /\ KernelOK' /\ EventControl'
    BY <2>1, EventControlHwi
  <2> QED BY <2>1, <2>2 DEF WaitIInv
<1>3. CASE ~(eventQ # <<>> /\ Matching(postedEvents \cup {id}, want) # {})
  <2>1. UNCHANGED <<queueVars, eventQ, got, pendState, clk>>
    BY <1>3 DEF Event_post
  <2>2. clk' \in [Tasks -> Clocks]
    BY <2>1 DEF WaitIInv, EventWaitTypes
  <2> QED BY <2>1, <2>2, EventHwiQuiet
<1> QED BY <1>2, <1>3

\* Semaphore_post by an interrupt.
LEMMA EventHwiTokens ==
  ASSUME EventAssumption, WaitIInv, NEW s \in Sems, HwiCoupledPost(s)
  PROVE  WaitIInv'
<1>1. InHwi /\ UNCHANGED callVars /\ Semaphore_post(s) /\ UNCHANGED <<eventQ, want, got, curTask>>
  BY DEF HwiCoupledPost, HwiPost, InHwi
<1>2. CASE pendQ[s] = <<>>
  <2>1. UNCHANGED <<queueVars, pendQ, pendState, clk>>
    BY <1>1, <1>2 DEF Semaphore_post, Increment
  <2>2. clk' \in [Tasks -> Clocks]
    BY <2>1 DEF WaitIInv, EventWaitTypes
  <2> QED BY <1>1, <2>1, <2>2, EventHwiQuiet
<1>3. CASE pendQ[s] # <<>>
  <2>1. /\ UNCHANGED key /\ (op'[Reader].name = "eventPend" <=> op[Reader].name = "eventPend")
        /\ \A v \in Tasks : /\ EventCallOf(v)'
                            /\ op'[v].name = op[v].name \/ {op[v].name, op'[v].name} \cap EventPends = {}
    BY <1>1, EventHwiCalls
  <2>2. HandOver(s)
    BY <1>1, <1>3 DEF Semaphore_post
  <2>3. /\ QueueTypeOK' /\ QueuesOK' /\ workFlag' /\ EventWaitTypes' /\ EventWaits' /\ ReaderResult'
        /\ \A v \in Tasks : mode[v] = "READY" => mode'[v] = "READY"
    BY <1>1, <1>3, <2>1, <2>2, EventHandsOver
  <2>4. KernelTypeOK' /\ KernelOK' /\ EventControl'
    BY <1>1, <2>3, EventControlHwi
  <2> QED BY <2>3, <2>4 DEF WaitIInv
<1> QED BY <1>2, <1>3

\* The timeout of a wait, for a token or for events: a wait that is resolved
\* stays so.
LEMMA EventTimesOut ==
  ASSUME EventAssumption, WaitIInv, NEW t \in Tasks, HwiTimeout(t)
  PROVE  WaitIInv'
<1>1. CASE ClockExpires(t) /\ UNCHANGED eventVars
  <2>1. InHwi /\ UNCHANGED <<callVars, queueVars, pendQ, pendState, eventQ, want, got>>
        /\ clk' = [clk EXCEPT ![t] = "firing"]
    BY <1>1 DEF ClockExpires, eventVars
  <2>2. clk' \in [Tasks -> Clocks]
    BY <2>1 DEF WaitIInv, EventWaitTypes, Clocks
  <2> QED BY <2>1, <2>2, EventHwiQuiet
<1>2. ASSUME Semaphore_pendTimeout(t), UNCHANGED <<want, got>>,
             \/ op[t].name # "eventPend" /\ UNCHANGED eventQ
             \/ /\ t = Reader /\ op[t].name = "eventPend"
                /\ eventQ' = IF pendState[Reader] = "CLOCK_WAIT" THEN <<>> ELSE eventQ
      PROVE  WaitIInv'
  <2>1. /\ InHwi /\ UNCHANGED <<callVars, curTask>> /\ clk' = [clk EXCEPT ![t] = "stopped"]
    BY <1>2 DEF Semaphore_pendTimeout, InHwi
  <2>2. clk' \in [Tasks -> Clocks]
    BY <2>1 DEF WaitIInv, EventWaitTypes, Clocks
  <2>3. CASE pendState[t] # "CLOCK_WAIT"
    <3>1. UNCHANGED <<queueVars, pendQ, pendState, eventQ>>
      BY <1>2, <2>3 DEF Semaphore_pendTimeout
    <3> QED BY <1>2, <2>1, <2>2, <3>1, EventHwiQuiet
  <2>4. CASE pendState[t] = "CLOCK_WAIT"
    <3>1. /\ pendQ' = Unpended(t) /\ Task_unblockI(t)
          /\ pendState' = [pendState EXCEPT ![t] = "TIMEOUT"]
      BY <1>2, <2>4 DEF Semaphore_pendTimeout
    <3>2. mode[t] = "BLOCKED" /\ op[t].name \in EventPends /\ EventWaitOf(t)
      BY <2>4 DEF WaitIInv, EventWaits, EventWaitOf, Timeouts
    <3>3. /\ QueueTypeOK' /\ QueuesOK' /\ workFlag'
          /\ \A v \in Tasks : mode'[v] = IF v = t THEN "READY" ELSE mode[v]
      BY <2>1, <3>1, <3>2, EventUnblocks
    <3>4. \A s \in Sems : pendQ[s] \in Seq(Tasks) /\ NoDuplicates(pendQ[s])
      BY DEF WaitIInv, EventWaitTypes, EventWaits
    <3>5. /\ pendQ' \in [Sems -> Seq(Tasks)]
          /\ \A s \in Sems : /\ NoDuplicates(pendQ'[s])
                             /\ \A v \in Tasks : Linked(v, pendQ'[s]) <=> Linked(v, pendQ[s]) /\ v # t
      BY <3>1, <3>4, UnpendedLists
    <3>6. /\ key' \in [Tasks -> BOOLEAN] /\ UNCHANGED op
          /\ \A v \in Tasks : /\ EventCallOf(v)'
                              /\ op'[v].name = op[v].name \/ {op[v].name, op'[v].name} \cap EventPends = {}
      BY <2>1, EventHwiCalls
    <3>7. EventWaits'
      BY <3>1, <3>2, <3>3, <3>5, <3>6, EventWaitEnds
    <3>8. EventWaitTypes'
      BY <2>2, <3>1, <3>5, <3>6 DEF WaitIInv, EventWaitTypes, PendStates
    <3>9. ReaderResult'
      <4>1. /\ \A v \in Tasks : pendState'[v] = IF v = t THEN "TIMEOUT" ELSE pendState[v]
            /\ Reader \in Tasks /\ "TIMEOUT" \notin Timeouts
        BY <3>1 DEF WaitIInv, EventWaitTypes, EventAssumption, Timeouts
      <4>2. CASE op[t].name # "eventPend" /\ UNCHANGED eventQ
        BY <1>2, <3>6, <4>1, <4>2 DEF WaitIInv, ReaderResult
      <4>3. CASE t = Reader /\ op[t].name = "eventPend" /\ eventQ' = <<>>
        BY <1>2, <2>4, <3>6, <4>1, <4>3 DEF WaitIInv, ReaderResult
      <4> QED BY <1>2, <2>4, <4>2, <4>3
    <3>10. KernelTypeOK' /\ KernelOK' /\ EventControl'
      <4>1. \A u \in Tasks : mode[u] = "READY" => mode'[u] = "READY"
        BY <3>3
      <4> QED BY <2>1, <3>3, <4>1, EventControlHwi
    <3> QED BY <3>7, <3>8, <3>9, <3>10 DEF WaitIInv
  <2> QED BY <2>3, <2>4
<1>3. CASE op[t].name # "eventPend" /\ Semaphore_pendTimeout(t) /\ UNCHANGED eventVars
  BY <1>2, <1>3 DEF eventVars
<1>4. CASE t = Reader /\ op[t].name = "eventPend" /\ Event_pendTimeout
  BY <1>2, <1>4 DEF Event_pendTimeout
<1> QED BY <1>1, <1>3, <1>4 DEF HwiTimeout

LEMMA WaitNext == EventAssumption /\ BitsIInv /\ WaitIInv /\ [EventNext]_allVars => WaitIInv'
<1> SUFFICES ASSUME EventAssumption, BitsIInv, WaitIInv, [EventNext]_allVars PROVE WaitIInv'
  OBVIOUS
<1>1. CASE UNCHANGED allVars
  <2>1. /\ UNCHANGED <<pc, op, key, pendQ, pendState, clk, eventQ, want, got>>
        /\ UNCHANGED <<readyQ, curSet, curQ, workFlag, mode, pri, curTask>>
        /\ UNCHANGED <<locked, swiLocked, running, phase, isr, isrKey>>
    BY <1>1 DEF allVars, vars, kernelVars, callVars, semVars, eventVars
  <2>2. QueueTypeOK' /\ QueuesOK'
    BY <2>1, QueuesUnchanged DEF WaitIInv, KernelTypeOK, KernelOK, queueVars
  <2>3. KernelTypeOK' /\ KernelOK'
    BY <2>1, <2>2 DEF WaitIInv, KernelTypeOK, ControlTypeOK, KernelOK, ControlOK, NoLostReschedule
  <2>4. EventControl'
    BY <2>1 DEF WaitIInv, EventControl
  <2>5. EventWaitTypes' /\ EventWaits' /\ ReaderResult'
    BY <2>1 DEF WaitIInv, EventWaitTypes, EventWaits, EventCallOf, EventWaitOf, ReaderResult
  <2> QED BY <2>3, <2>4, <2>5 DEF WaitIInv
<1>2. CASE EventKernelStep
  BY <1>2, EventKernelWaits
<1>3. CASE EventHwiStep
  <2>1. ASSUME NEW id \in Explicit, HwiEventPost(id) PROVE WaitIInv'
    BY <2>1, EventHwiPosts DEF HwiEventPost
  <2>2. ASSUME NEW s \in Sems, HwiAnnounce(s) PROVE WaitIInv'
    BY <2>2, EventHwiPosts DEF HwiAnnounce
  <2>3. ASSUME NEW s \in Sems, HwiCoupledTake(s) PROVE WaitIInv'
    <3>1. /\ InHwi
          /\ UNCHANGED <<callVars, queueVars, pendQ, pendState, clk, eventQ, want, got>>
      BY <2>3 DEF HwiCoupledTake, HwiTake, Decrement
    <3>2. clk' \in [Tasks -> Clocks]
      BY <3>1 DEF WaitIInv, EventWaitTypes
    <3> QED BY <3>1, <3>2, EventHwiQuiet
  <2> QED BY <1>3, <2>1, <2>2, <2>3, EventHwiTokens, EventTimesOut DEF EventHwiStep
<1>4. CASE ReaderCall \/ EventPendRestore \/ EventPendReturn
  <2>1. Reader \in Tasks
    BY DEF EventAssumption
  <2>2. ASSUME NEW m \in Masks, EventPendNow(m) PROVE WaitIInv'
    <3>1. /\ At(Reader, "user")
          /\ UNCHANGED <<queueVars, locked, swiLocked, phase, callVars, pendQ, pendState, clk, eventQ, want>>
      BY <2>2 DEF EventPendNow, semVars
    <3> QED BY <2>1, <3>1, EventTokensOnly
  <2>3. CASE EventPendRestore
    <3>1. Return(Reader, "wake") /\ op[Reader].name = "eventPend" /\ UNCHANGED <<semVars, eventVars>>
      BY <2>3 DEF EventPendRestore
    <3>2. op[Reader].name \in EventPends
      BY <3>1 DEF EventPends
    <3> QED BY <2>1, <3>1, <3>2, EventRestores
  <2>4. CASE EventPendReturn
    BY <2>1, <2>4, EventPendEnds DEF EventPendReturn
  <2> QED BY <1>4, <2>2, <2>3, <2>4, EventBlocks DEF ReaderCall
<1>5. ASSUME NEW t \in Tasks, EventCall(t) PROVE WaitIInv'
  <2>1. ASSUME NEW s \in Sems, CoupledTake(t, s) \/ CoupledFail(t, s) PROVE WaitIInv'
    <3>1. /\ t = Reader \/ UNCHANGED got
          /\ UNCHANGED <<queueVars, locked, swiLocked, phase, callVars, pendQ, pendState, clk, eventQ, want>>
      BY <2>1 DEF CoupledTake, CoupledFail, PendTake, Decrement, Answer, semVars
    <3>2. At(t, "user")
      BY <2>1 DEF CoupledTake, CoupledFail, PendTake
    <3> QED BY <3>1, <3>2, EventTokensOnly
  <2>2. ASSUME NEW s \in Sems, NEW n \in 0 .. CountLimit - 1, CoupledReset(t, s, n) PROVE WaitIInv'
    <3>1. /\ At(t, "user") /\ UNCHANGED got
          /\ UNCHANGED <<queueVars, locked, swiLocked, phase, callVars, pendQ, pendState, clk, eventQ, want>>
      BY <2>2 DEF CoupledReset, Semaphore_reset
    <3> QED BY <3>1, EventTokensOnly
  <2>3. ASSUME NEW s \in Sems, PostCall(t, s), UNCHANGED eventVars PROVE WaitIInv'
    BY <2>3, EventPostCalls DEF PostCall
  <2>4. ASSUME NEW s \in Sems, NEW how \in Timeouts, t # Reader, CoupledBlock(t, s, how) PROVE WaitIInv'
    BY <2>4, EventBlocks
  <2>5. ASSUME NEW id \in Explicit, EventPostTask(t, id) PROVE WaitIInv'
    BY <2>5, EventPostTaskWaits
  <2> QED BY <1>5, <2>1, <2>2, <2>3, <2>4, <2>5 DEF EventCall
<1>6. ASSUME NEW t \in Tasks, EventProgress(t) PROVE WaitIInv'
  <2>1. CASE Lock(t) /\ UNCHANGED <<semVars, eventVars>>
    BY <2>1, EventPostCalls
  <2>2. CASE CoupledPendRestore(t)
    <3>1. Return(t, "wake") /\ op[t].name = "pend" /\ UNCHANGED <<semVars, eventVars>>
      BY <2>2 DEF CoupledPendRestore, PendRestore
    <3>2. op[t].name \in EventPends
      BY <3>1 DEF EventPends
    <3> QED BY <3>1, <3>2, EventRestores
  <2>3. CASE CoupledReturn(t)
    BY <2>3, EventPendEnds DEF CoupledReturn
  <2>4. CASE CoupledPostRestore(t) \/ EventPostRestore(t)
    <3>1. Return(t, "user") /\ op[t].name \in {"post", "eventPost"} /\ UNCHANGED <<semVars, eventVars>>
      BY <2>4 DEF CoupledPostRestore, PostRestore, EventPostRestore
    <3>2. op[t].name \notin EventPends
      BY <3>1 DEF EventPends
    <3> QED BY <3>1, <3>2, EventRestores
  <2> QED BY <1>6, <2>1, <2>2, <2>3, <2>4, EventPostRegions DEF EventProgress
<1> QED BY <1>1, <1>2, <1>3, <1>4, <1>5, <1>6 DEF EventNext

LEMMA WaitInit == EventAssumption /\ EventInit => WaitIInv
<1> SUFFICES ASSUME EventAssumption, EventInit PROVE WaitIInv
  OBVIOUS
<1>1. /\ KernelInit(InitPri) /\ pc = [t \in Tasks |-> "user"] /\ op = [t \in Tasks |-> NoOp]
      /\ key = [t \in Tasks |-> FALSE] /\ pendQ = [s \in Sems |-> <<>>]
      /\ pendState = [t \in Tasks |-> "none"] /\ clk = [t \in Tasks |-> "none"] /\ eventQ = <<>>
  BY DEF EventInit, Init, InitCalls
<1>2. KernelTypeOK /\ KernelOK /\ mode[running] = "READY" /\ running \in Tasks
  BY <1>1, KernelStarts, InitPriAssumption DEF KernelTypeOK, ControlTypeOK
<1>3. ~swiLocked /\ ~isr /\ phase = "user" /\ ~locked /\ ~workFlag /\ \A t \in Tasks : mode[t] = "READY"
  BY <1>1 DEF KernelInit
<1>4. "user" \notin EventLocking /\ NoOp.name = "none" /\ "none" \notin EventPends
  BY DEF EventLocking, EventPends, NoOp
<1>5. EventControl
  BY <1>1, <1>2, <1>3, <1>4 DEF EventControl, EventLocking
<1>6. EventWaitTypes
  BY <1>1 DEF EventWaitTypes, PendStates, Clocks
<1>7. EventWaits
  <2>1. NoDuplicates(<<>>) /\ \A t : ~Linked(t, <<>>)
    BY DEF NoDuplicates, Linked
  <2> QED BY <1>1, <1>3, <1>4, <2>1 DEF EventWaits, EventCallOf, EventWaitOf, Timeouts
<1>8. ReaderResult
  <2>1. op[Reader].name # "eventPend"
    BY <1>1, <1>4 DEF EventAssumption
  <2> QED BY <1>1, <2>1 DEF ReaderResult
<1> QED BY <1>2, <1>5, <1>6, <1>7, <1>8 DEF WaitIInv

\* The bits, the masks and the answers keep their types.
BitsTyped ==
  /\ postedEvents \subseteq Ids
  /\ want \in Masks \cup {NoMask}
  /\ got \subseteq Ids
  /\ hwiOwes \subseteq Sems

LEMMA PostTyped ==
  ASSUME EventAssumption, BitsTyped, NEW id \in Ids, Event_post(id), UNCHANGED want,
         hwiOwes' \subseteq Sems
  PROVE  BitsTyped'
<1> DEFINE match == Matching(postedEvents \cup {id}, want)
<1>1. want.and \subseteq Ids /\ want.or \subseteq Ids
  BY DEF EventAssumption, BitsTyped, NoMask, Ids
<1>2. match \subseteq Ids
  BY <1>1, MatchMeets
<1>3. /\ postedEvents' = (postedEvents \cup {id}) \ match \/ postedEvents' = postedEvents \cup {id}
      /\ got' = match \/ got' = got
  BY DEF Event_post
<1> QED BY <1>2, <1>3 DEF BitsTyped

LEMMA SyncTyped ==
  ASSUME BitsTyped, NEW s \in Sems, NEW n, Event_sync(s, n), got' \subseteq got,
         UNCHANGED <<want, hwiOwes>>
  PROVE  BitsTyped'
BY DEF BitsTyped, Event_sync, Ids

LEMMA TypedNext ==
  EventAssumption /\ BitsIInv /\ WaitIInv /\ BitsTyped /\ [EventNext]_allVars => BitsTyped'
<1> SUFFICES ASSUME EventAssumption, BitsIInv, WaitIInv, BitsTyped, [EventNext]_allVars
             PROVE  BitsTyped'
  OBVIOUS
<1> Sems \subseteq Ids /\ Explicit \subseteq Ids
  BY DEF Ids
<1>1. CASE UNCHANGED <<postedEvents, want, got, hwiOwes>>
  BY <1>1 DEF BitsTyped
<1>2. CASE EventKernelStep \/ UNCHANGED allVars
  BY <1>1, <1>2 DEF EventKernelStep, EventKernelOnly, allVars, eventVars
<1>3. CASE EventHwiStep
  <2>1. ASSUME NEW id \in Explicit, HwiEventPost(id) PROVE BitsTyped'
    BY <2>1, PostTyped DEF HwiEventPost, BitsTyped
  <2>2. ASSUME NEW s \in Sems, HwiAnnounce(s) PROVE BitsTyped'
    <3>1. Event_post(s) /\ UNCHANGED want /\ hwiOwes' \subseteq Sems /\ s \in Ids
      BY <2>2 DEF HwiAnnounce, BitsTyped
    <3> QED BY <3>1, PostTyped
  <2>3. ASSUME NEW s \in Sems, HwiCoupledPost(s) PROVE BitsTyped'
    BY <2>3 DEF HwiCoupledPost, BitsTyped
  <2>4. ASSUME NEW s \in Sems, HwiCoupledTake(s) PROVE BitsTyped'
    BY <2>4, SyncTyped DEF HwiCoupledTake
  <2>5. ASSUME NEW t \in Tasks, HwiTimeout(t) PROVE BitsTyped'
    BY <1>1, <2>5 DEF HwiTimeout, Event_pendTimeout, eventVars
  <2> QED BY <1>3, <2>1, <2>2, <2>3, <2>4, <2>5 DEF EventHwiStep
<1>4. CASE ReaderCall \/ EventPendRestore \/ EventPendReturn
  <2>1. ASSUME NEW m \in Masks, EventPendNow(m) PROVE BitsTyped'
    <3>1. m.and \subseteq Ids /\ m.or \subseteq Ids
      BY DEF EventAssumption, Ids
    <3>2. Matching(postedEvents, m) \subseteq Ids
      BY <3>1, MatchMeets
    <3> QED BY <2>1, <3>2 DEF EventPendNow, BitsTyped
  <2>2. ASSUME NEW m \in Masks, NEW how \in Timeouts, EventPendBlock(m, how) PROVE BitsTyped'
    BY <2>2 DEF EventPendBlock, BitsTyped
  <2>3. CASE EventPendRestore \/ EventPendReturn
    BY <2>3 DEF EventPendRestore, EventPendReturn, eventVars, BitsTyped
  <2> QED BY <1>4, <2>1, <2>2, <2>3 DEF ReaderCall
<1>5. ASSUME NEW t \in Tasks, EventCall(t) PROVE BitsTyped'
  <2>1. ASSUME NEW s \in Sems, CoupledTake(t, s) PROVE BitsTyped'
    BY <2>1, SyncTyped DEF CoupledTake, Answer
  <2>2. ASSUME NEW s \in Sems, CoupledFail(t, s) PROVE BitsTyped'
    BY <2>2 DEF CoupledFail, Answer, BitsTyped
  <2>3. ASSUME NEW s \in Sems, NEW n \in 0 .. CountLimit - 1, CoupledReset(t, s, n) PROVE BitsTyped'
    BY <2>3, SyncTyped DEF CoupledReset
  <2>4. ASSUME NEW id \in Explicit, EventPostTask(t, id) PROVE BitsTyped'
    BY <2>4, PostTyped DEF EventPostTask, BitsTyped
  <2>5. CASE UNCHANGED eventVars
    BY <1>1, <2>5 DEF eventVars
  <2> QED BY <1>5, <2>1, <2>2, <2>3, <2>4, <2>5 DEF EventCall, CoupledBlock
<1>6. ASSUME NEW t \in Tasks, EventProgress(t) PROVE BitsTyped'
  <2>1. CASE CoupledReturn(t)
    <3>1. op[t].name = "pend" /\ op[t] \in Ops \cup EventOps
      BY <2>1 DEF CoupledReturn, BitsIInv, EventCalls
    <3>2. op[t] \in Ops
      BY <3>1 DEF EventOps
    <3>3. op[t].on \in Sems
      BY <3>1, <3>2, OpFields
    <3> QED BY <2>1, <3>3, SyncTyped DEF CoupledReturn
  <2>2. CASE CoupledAnnounce(t)
    <3>1. op[t].name = "post" /\ op[t] \in Ops \cup EventOps
      BY <2>2 DEF CoupledAnnounce, At, BitsIInv, EventCalls
    <3>2. op[t].on \in Ids
      BY <3>1, EventOpFields
    <3> QED BY <2>2, <3>2, PostTyped DEF CoupledAnnounce, BitsTyped
  <2>3. CASE UNCHANGED eventVars
    BY <1>1, <2>3 DEF eventVars
  <2> QED BY <1>6, <2>1, <2>2, <2>3 DEF EventProgress, CoupledPendRestore, CoupledPost,
      CoupledPostRestore, EventPostRestore
<1> QED BY <1>2, <1>3, <1>4, <1>5, <1>6 DEF EventNext

LEMMA EventResult == EventAssumption /\ BitsIInv /\ WaitIInv /\ BitsTyped => EventResultOK
<1> SUFFICES ASSUME EventAssumption, BitsIInv, WaitIInv, BitsTyped PROVE EventResultOK
  OBVIOUS
<1>1. EventTypeOK
  BY DEF EventTypeOK, BitsIInv, EventCalls, ReaderWaits, WaitIInv, EventWaitTypes, BitsTyped
<1>2. ASSUME pc[Reader] = "wake", mode[Reader] = "READY", op[Reader].name = "eventPend"
      PROVE  eventQ = <<>> /\ pendState[Reader] \in {"TIMEOUT", "POSTED"}
  <2>1. EventWaitOf(Reader) /\ pendState[Reader] \in PendStates
    BY DEF WaitIInv, EventWaits, EventWaitTypes, EventAssumption
  <2>2. pendState[Reader] # "none" /\ pendState[Reader] \notin Timeouts
    BY <1>2, <2>1 DEF EventWaitOf, EventPends
  <2> QED BY <2>1, <2>2 DEF WaitIInv, ReaderResult, PendStates, Timeouts
<1> QED BY <1>1, <1>2 DEF EventResultOK, WaitIInv, ReaderResult

\* When Event_pend goes on, the reader was posted and told of events that meet
\* its masks, or it timed out and was told of none, whichever of the posts, the
\* announcements and the timeout came first (Event.c, Event_pend and
\* Event_pendTimeout).
THEOREM EventAnswered == EventAssumption => (EventSpec => []EventResultOK)
<1> SUFFICES ASSUME EventAssumption PROVE EventSpec => []EventResultOK
  OBVIOUS
<1>1. EventInit => BitsIInv /\ WaitIInv /\ BitsTyped
  <2> SUFFICES ASSUME EventInit PROVE BitsTyped
    BY BitsInit, WaitInit
  <2> QED BY DEF EventInit, BitsTyped, Ids
<1>2. BitsIInv /\ WaitIInv /\ BitsTyped /\ [EventNext]_allVars => (BitsIInv /\ WaitIInv /\ BitsTyped)'
  BY BitsNext, WaitNext, TypedNext
<1>3. BitsIInv /\ WaitIInv /\ BitsTyped => EventResultOK
  BY EventResult
<1> QED BY <1>1, <1>2, <1>3, PTL DEF EventSpec
=============================================================================
