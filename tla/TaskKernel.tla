----------------------------- MODULE TaskKernel -----------------------------
(***************************************************************************)
(* The uniprocessor task scheduler of ti.sysbios.knl (Task.c) as the rest  *)
(* of the kernel sees it: the module state of Task, the primitives other   *)
(* modules call with interrupts disabled (Task_blockI, Task_unblockI,      *)
(* Task_setPri, ...), Task_schedule, and the interrupt dispatcher that     *)
(* brackets every interrupt with Task_disable / Task_restoreHwi.           *)
(*                                                                         *)
(* One step is one region the code runs with interrupts disabled.  Between *)
(* two regions an interrupt may be taken.  The primitives are action       *)
(* operators: each says what it does to the scheduler's variables, and the *)
(* modules that extend this one conjoin them with the effect of the caller *)
(* on its own variables.                                                   *)
(***************************************************************************)
EXTENDS Integers, SequencesExt

CONSTANTS Tasks,     \* the Task objects
          NumPri     \* Task_numPriorities: priorities are 0 .. NumPri - 1

ASSUME NumPriAssumption == NumPri \in Nat \ {0}

Priority  == 0 .. NumPri - 1
Inactive  == -1                       \* the priority of an inactive task
NoQ       == -1                       \* Task_module->curQ == NULL
Level     == Priority \cup {Inactive} \* readyQ[Inactive] is inactiveQ

Modes == {"READY", "BLOCKED", "TERMINATED", "NONE"}  \* NONE: no such object

VARIABLES
  mode,       \* tsk->mode
  pri,        \* tsk->priority; names tsk->readyQ and tsk->mask as well
  readyQ,     \* Task_module->readyQ[] and inactiveQ
  curSet,     \* Task_module->curSet, as the set of its bits
  curQ,       \* Task_module->curQ, as a priority
  curTask,    \* Task_module->curTask
  workFlag,   \* Task_module->workFlag
  locked,     \* Task_module->locked
  swiLocked,  \* Swi_module->locked as the task level sees it
  running,    \* the task whose context is loaded
  phase,      \* where Task_schedule is, "user" when it is not active
  isr,        \* an interrupt (and the Swis it posts) is being serviced
  isrKey      \* the dispatcher's tskKey

queueVars == <<mode, pri, readyQ, curSet, curQ, workFlag>>
hwiVars   == <<isr, isrKey>>
kernelVars == <<mode, pri, readyQ, curSet, curQ, curTask, workFlag, locked,
                swiLocked, running, phase, isr, isrKey>>

Phases == {"user", "pick", "stall", "switch"}

QueueTypeOK ==
  /\ mode \in [Tasks -> Modes]
  /\ pri \in [Tasks -> Level]
  /\ readyQ \in [Level -> Seq(Tasks)]
  /\ curSet \in SUBSET Priority
  /\ curQ \in Priority \cup {NoQ}
  /\ workFlag \in BOOLEAN

ControlTypeOK ==
  /\ curTask \in Tasks
  /\ running \in Tasks
  /\ locked \in BOOLEAN /\ swiLocked \in BOOLEAN
  /\ phase \in Phases
  /\ isr \in BOOLEAN /\ isrKey \in BOOLEAN

KernelTypeOK == QueueTypeOK /\ ControlTypeOK

-----------------------------------------------------------------------------
(* Queue.c: a Queue is a doubly linked list; an element is unlinked without *)
(* naming the list it is on.                                                *)

Position(q, t)     == CHOOSE i \in DOMAIN q : q[i] = t
Queue_remove(q, t) == RemoveAt(q, Position(q, t))

Linked(t, q) == \E i \in DOMAIN q : q[i] = t
NoDuplicates(q) == \A i, j \in DOMAIN q : q[i] = q[j] => i = j

\* Mutant of InsertPri: the comparison is the wrong way round.
InsertPriReversed(q, t, p) ==
  LET higher == {i \in DOMAIN q : pri[q[i]] > p}
  IN  InsertAt(q, IF higher = {} THEN Len(q) + 1 ELSE Min(higher), t)

\* A waiting list in order of priority: t, at priority p, goes before the first
\* task whose priority is lower now.
InsertPri(q, t, p) ==
  LET lower == {i \in DOMAIN q : pri[q[i]] < p}
  IN  InsertAt(q, IF lower = {} THEN Len(q) + 1 ELSE Min(lower), t)

Mask(p)   == {p} \ {Inactive}         \* tsk->mask: no bit for an inactive task

Intrinsics_maxbit(S) == CHOOSE p \in S : \A q \in S : q <= p

Unlinked(t) == [readyQ EXCEPT ![pri[t]] = Queue_remove(@, t)]

ClearBit(q, t) == IF q[pri[t]] = <<>> THEN curSet \ Mask(pri[t]) ELSE curSet

-----------------------------------------------------------------------------
(* The primitives, each called with interrupts disabled.                   *)

\* Mutant of Task_blockI: curQ still names the list of the blocked task.
BlockKeepsCurQ(t) ==
  /\ readyQ' = Unlinked(t)
  /\ curSet' = ClearBit(readyQ', t)
  /\ mode' = [mode EXCEPT ![t] = "BLOCKED"]
  /\ workFlag' = TRUE
  /\ UNCHANGED <<pri, curQ>>

Task_blockI(t) ==
  /\ readyQ' = Unlinked(t)
  /\ curSet' = ClearBit(readyQ', t)
  /\ curQ' = IF curTask = t THEN NoQ ELSE curQ
  /\ mode' = [mode EXCEPT ![t] = "BLOCKED"]
  /\ workFlag' = TRUE
  /\ UNCHANGED pri

Readied(t, p) ==
  /\ readyQ' = [readyQ EXCEPT ![p] = Append(@, t)]
  /\ curSet' = curSet \cup Mask(p)
  /\ mode' = [mode EXCEPT ![t] = "READY"]

\* Mutant of Task_unblockI: nobody is told that there is work.
UnblockQuietly(t) == Readied(t, pri[t]) /\ UNCHANGED <<pri, curQ, workFlag>>

Task_unblockI(t) ==
  /\ Readied(t, pri[t])
  /\ workFlag' = TRUE
  /\ UNCHANGED <<pri, curQ>>

\* The queues after a READY task moves to level p: the current task keeps the
\* processor among its new equals, any other task queues behind them.
Requeued(t, p) ==
  [Unlinked(t) EXCEPT ![p] = IF curTask = t THEN <<t>> \o @ ELSE Append(@, t)]

Task_setPri(t, p) ==
  IF p = pri[t]
  THEN UNCHANGED queueVars
  ELSE /\ pri' = [pri EXCEPT ![t] = p]
       /\ IF mode[t] = "READY"
          THEN /\ readyQ' = Requeued(t, p)
               /\ curSet' = ClearBit(Unlinked(t), t) \cup Mask(p)
          ELSE UNCHANGED <<readyQ, curSet>>
       /\ curQ' = IF p = Inactive THEN NoQ
                  ELSE IF mode[t] = "READY" /\ curTask = t THEN p
                  ELSE curQ
       /\ workFlag' = TRUE
       /\ UNCHANGED mode

\* Mutant of Task_yield: curQ is not tested.
YieldAny ==
  /\ readyQ' = IF curSet = {} THEN readyQ
               ELSE [readyQ EXCEPT ![Intrinsics_maxbit(curSet)] = Append(Tail(@), Head(@))]
  /\ curQ' = NoQ
  /\ workFlag' = TRUE
  /\ UNCHANGED <<mode, pri, curSet>>

Task_yield ==
  /\ readyQ' = IF curQ = NoQ THEN readyQ
               ELSE [readyQ EXCEPT ![curQ] = Append(Tail(@), Head(@))]
  /\ curQ' = NoQ
  /\ workFlag' = TRUE
  /\ UNCHANGED <<mode, pri, curSet>>

\* Mutant of Task_unlink: a ready task is deleted in place.
UnlinkNothing(t) ==
  /\ mode' = [mode EXCEPT ![t] = "NONE"]
  /\ UNCHANGED <<pri, readyQ, curSet, curQ, workFlag>>

\* The scheduler's part of Task_Instance_finalize: unlink a task that is on a
\* ready list.  Neither curQ nor workFlag is touched.
Task_unlink(t) ==
  /\ IF mode[t] = "READY"
     THEN readyQ' = Unlinked(t) /\ curSet' = ClearBit(readyQ', t)
     ELSE UNCHANGED <<readyQ, curSet>>
  /\ mode' = [mode EXCEPT ![t] = "NONE"]
  /\ UNCHANGED <<pri, curQ, workFlag>>

-----------------------------------------------------------------------------
(* Scheduler lock.                                                         *)

Swi_enabled  == ~swiLocked
Task_enabled == ~locked /\ Swi_enabled

\* Mutant of Task_restore: the key is ignored.
RestoreAnyKey(k) ==
  IF workFlag /\ Swi_enabled
  THEN phase' = "pick" /\ UNCHANGED locked
  ELSE locked' = FALSE /\ UNCHANGED phase

\* Mutant of Task_restore: the Swi scheduler is not asked.
RestoreAnySwi(k) ==
  IF k THEN UNCHANGED <<phase, locked>>
  ELSE IF workFlag THEN phase' = "pick" /\ UNCHANGED locked
       ELSE locked' = FALSE /\ UNCHANGED phase

\* Task_restore and Task_restoreHwi with interrupts disabled: enter
\* Task_schedule (the lock is released when it is done) or just unlock.
Task_restore(k) ==
  IF k THEN UNCHANGED <<phase, locked>>
  ELSE IF workFlag /\ Swi_enabled
       THEN phase' = "pick" /\ UNCHANGED locked
       ELSE locked' = FALSE /\ UNCHANGED phase

-----------------------------------------------------------------------------
(* Task_schedule.  phase "pick": about to run the body of the do loop with  *)
(* interrupts off.  "stall": in Task_allBlockedFunction, interrupts on.     *)
(* "switch": the next task is chosen and interrupts are on (switch hooks,   *)
(* logging, minimizeLatency) before the contexts are swapped.               *)

LoopTest(work) ==
  IF work THEN phase' = "pick" /\ UNCHANGED locked
          ELSE phase' = "user" /\ locked' = FALSE

Task_schedule_select(work) ==
  LET maxQ == Intrinsics_maxbit(curSet)
  IN  IF maxQ > curQ
      THEN /\ curQ' = maxQ
           /\ curTask' = Head(readyQ[maxQ])
           /\ phase' = "switch"
           /\ UNCHANGED locked
      ELSE LoopTest(work) /\ UNCHANGED <<curQ, curTask>>

Task_schedule ==
  /\ phase = "pick"
  /\ workFlag' = FALSE
  /\ IF curSet = {}
     THEN phase' = "stall" /\ UNCHANGED <<curQ, curTask, locked>>
     ELSE Task_schedule_select(FALSE)
  /\ UNCHANGED <<mode, pri, readyQ, curSet, swiLocked, running, hwiVars>>

Task_allBlockedFunction ==
  /\ phase = "stall" /\ ~isr
  /\ curSet # {}
  /\ Task_schedule_select(workFlag)
  /\ UNCHANGED <<mode, pri, readyQ, curSet, workFlag, swiLocked, running, hwiVars>>

\* Mutant of Task_swap: the new task does not look at workFlag.
SwapAndGo ==
  /\ phase = "switch" /\ ~isr
  /\ running' = curTask
  /\ LoopTest(FALSE)
  /\ UNCHANGED <<queueVars, curTask, swiLocked, hwiVars>>

\* The task swapped in continues after its own swap, or in Task_enter when it
\* has never run: both test workFlag and then unlock.
Task_swap ==
  /\ phase = "switch" /\ ~isr
  /\ running' = curTask
  /\ LoopTest(workFlag)
  /\ UNCHANGED <<queueVars, curTask, swiLocked, hwiVars>>

Scheduler == Task_schedule \/ Task_allBlockedFunction \/ Task_swap

-----------------------------------------------------------------------------
(* The interrupt dispatcher.  Nested interrupts find the lock taken and add *)
(* only more operations, so one level stands for all of them.               *)

HwiEnter ==
  /\ ~isr /\ phase # "pick"
  /\ isr' = TRUE
  /\ isrKey' = locked
  /\ locked' = TRUE
  /\ UNCHANGED <<queueVars, curTask, swiLocked, running, phase>>

HwiExit ==
  /\ isr
  /\ isr' = FALSE /\ isrKey' = FALSE
  /\ Task_restore(isrKey)
  /\ UNCHANGED <<queueVars, curTask, swiLocked, running>>

\* The body of an interrupt service routine, or of a Swi it posted.
InHwi == isr /\ UNCHANGED <<curTask, locked, swiLocked, running, phase, hwiVars>>

\* A region of the running task: no interrupt is being serviced and
\* Task_schedule is not active.
InTask(t) ==
  /\ running = t /\ phase = "user" /\ ~isr
  /\ UNCHANGED <<curTask, running, hwiVars>>

-----------------------------------------------------------------------------
(* After Task_startCore: every task is on the ready list of its priority, in *)
(* the order of their creation; the first one of the highest list runs.     *)

KernelInit(initPri) ==
  /\ mode = [t \in Tasks |-> "READY"]
  /\ pri = initPri
  /\ readyQ \in [Level -> {q \in SeqOf(Tasks, Cardinality(Tasks)) : NoDuplicates(q)}]
  /\ \A l \in Level, t \in Tasks : Linked(t, readyQ[l]) <=> initPri[t] = l
  /\ curSet = {p \in Priority : readyQ[p] # <<>>}
  /\ curQ = Intrinsics_maxbit(curSet)
  /\ curTask = Head(readyQ[curQ])
  /\ running = curTask
  /\ workFlag = FALSE /\ locked = FALSE /\ swiLocked = FALSE
  /\ phase = "user" /\ isr = FALSE /\ isrKey = FALSE

-----------------------------------------------------------------------------
(* What the primitives preserve.                                           *)

\* A task is linked on the ready list of its priority exactly when its mode
\* says READY, once, and on no other list.
ReadyListsOK ==
  \A l \in Level :
    /\ NoDuplicates(readyQ[l])
    /\ \A t \in Tasks : Linked(t, readyQ[l]) <=> mode[t] = "READY" /\ pri[t] = l

\* curSet has the bit of a priority exactly when its ready list is not empty.
CurSetOK == \A p \in Priority : p \in curSet <=> readyQ[p] # <<>>

\* When curQ is not NULL the current task heads it, so that Task_yield rotates
\* the task it means to and a preempted task keeps its turn.
CurQOK == curQ # NoQ => readyQ[curQ] # <<>> /\ Head(readyQ[curQ]) = curTask

\* Outside the scheduler, curQ that lags behind the ready lists is always
\* announced by workFlag.
NoLostReschedule ==
  ~workFlag =>
    /\ phase \in {"user", "switch"} => curQ # NoQ /\ \A p \in curSet : p <= curQ
    /\ phase = "stall" => curSet = {}

\* The lock follows the scheduler and the interrupt dispatcher, and the
\* context that is loaded is the current task's.
ControlOK ==
  /\ phase # "user" \/ isr => locked
  /\ isrKey => isr
  /\ isr /\ phase # "user" => isrKey
  /\ phase = "pick" => ~isr
  /\ phase # "user" => ~swiLocked
  /\ phase # "switch" => running = curTask
  /\ phase = "switch" => mode[curTask] = "READY"

QueuesOK == ReadyListsOK /\ CurSetOK /\ CurQOK
KernelOK == QueuesOK /\ NoLostReschedule /\ ControlOK
=============================================================================
