-------------------------------- MODULE Task --------------------------------
(***************************************************************************)
(* The services of ti.sysbios.knl.Task used by an arbitrary application:   *)
(* every task may, at any point, lock and unlock the scheduler, yield,     *)
(* sleep, change a priority, create, delete or exit; interrupts expire     *)
(* sleeps, change priorities and yield on behalf of the current task.      *)
(*                                                                         *)
(* Each call is cut where interrupts are enabled, and Task_disable into    *)
(* its read and its write of the lock.                                     *)
(***************************************************************************)
EXTENDS TaskKernel

CONSTANTS InitPri,            \* priority of each task, created by main()
          Calls,              \* the calls each of its tasks makes
          Levels,             \* the priorities its tasks set
          HwiLevels,          \* the priorities its interrupts set
          DeleteTerminated    \* Task_deleteTerminatedTasks

ASSUME InitPriAssumption ==
  /\ InitPri \in [Tasks -> Level]
  /\ \E t \in Tasks : InitPri[t] # Inactive
ASSUME LevelsAssumption == Levels \subseteq Level /\ HwiLevels \subseteq Level
ASSUME DeleteTerminatedAssumption == DeleteTerminated \in BOOLEAN

VARIABLES
  terminatedQ,  \* Task_Module_State_terminatedQ
  pendElem,     \* tsk->pendElem: null, or whether it names a Clock object
  clk,          \* the Clock object on the stack of a sleeping task
  pc,           \* where a task is in the call it makes
  op,           \* the call
  key,          \* the tskKey of that call
  heldKey       \* the key of an application-level Task_disable: {} when none

callVars == <<pc, op, key, heldKey>>
sleepVars == <<pendElem, clk>>
vars == <<kernelVars, terminatedQ, sleepVars, callVars>>

SimpleOps == [name : {"none", "yield", "lock", "unlock", "swiRestore", "exit", "sleep", "reap"}]
TaskOps   == [name : {"setPri", "create"}, task : Tasks, to : Level]
               \cup [name : {"delete"}, task : Tasks]
Op(name)  == [name |-> name]
NoOp      == Op("none")

PCs == {"user", "read", "write", "region", "exit", "restore", "wake", "woken", "dead"}

TypeOK ==
  /\ KernelTypeOK
  /\ terminatedQ \in Seq(Tasks)
  /\ pendElem \in [Tasks -> {"null", "timed", "bare"}]
  /\ clk \in [Tasks -> {"none", "active", "expired"}]
  /\ pc \in [Tasks -> PCs]
  /\ op \in [Tasks -> SimpleOps \cup TaskOps]
  /\ key \in [Tasks -> BOOLEAN]
  /\ heldKey \in [Tasks -> SUBSET BOOLEAN]

Init ==
  /\ KernelInit(InitPri)
  /\ terminatedQ = <<>>
  /\ pendElem = [t \in Tasks |-> "null"]
  /\ clk = [t \in Tasks |-> "none"]
  /\ pc = [t \in Tasks |-> "user"]
  /\ op = [t \in Tasks |-> NoOp]
  /\ key = [t \in Tasks |-> FALSE]
  /\ heldKey = [t \in Tasks |-> {}]

-----------------------------------------------------------------------------
(* Calls.  The application names only objects that exist, does not name an *)
(* object in two calls at once nor one that is exiting, sleeps and exits   *)
(* only with the schedulers unlocked, and sets no priority of a terminated *)
(* task (Task.xdc).                                                        *)

Names(o, u) == o \in TaskOps /\ o.task = u
Free(u)     == op[u].name # "exit" /\ \A v \in Tasks : ~Names(op[v], u)
Alive(u)    == mode[u] \in {"READY", "BLOCKED"}

Holding(t) == heldKey[t] # {}

LegalOn(t, o) ==
  /\ Free(o.task)
  /\ \/ o.name = "setPri" /\ Alive(o.task) /\ o.to \in Levels
     \/ o.name = "create" /\ mode[o.task] = "NONE" /\ o.to \in Levels
     \/ /\ o.name = "delete" /\ o.task # t
        /\ Alive(o.task) \/ (mode[o.task] = "TERMINATED" /\ ~DeleteTerminated)

Legal(t, o) ==
  /\ o.name \in Calls[t]
  /\ \/ o.name = "yield"
     \/ o.name = "reap" /\ DeleteTerminated
     \/ o.name = "lock" /\ ~Holding(t)
     \/ o.name = "exit" /\ ~Holding(t) /\ Task_enabled /\ Free(t)
     \/ o \in TaskOps /\ LegalOn(t, o)

\* The call and the read of Task_disable.
Call(t, o) ==
  /\ InTask(t) /\ pc[t] = "user"
  /\ Legal(t, o)
  /\ op' = [op EXCEPT ![t] = o]
  /\ key' = [key EXCEPT ![t] = locked]
  /\ pc' = [pc EXCEPT ![t] = "write"]
  /\ UNCHANGED <<queueVars, locked, swiLocked, phase, terminatedQ, sleepVars, heldKey>>

\* The write of Task_disable.
Lock(t) ==
  /\ InTask(t) /\ pc[t] = "write"
  /\ locked' = TRUE
  /\ pc' = [pc EXCEPT ![t] = IF op[t].name = "swiRestore" THEN "restore" ELSE "region"]
  /\ UNCHANGED <<queueVars, swiLocked, phase, terminatedQ, sleepVars, op, key, heldKey>>

\* A region run with the scheduler locked and interrupts disabled.
Region(t, next) ==
  /\ InTask(t) /\ pc[t] = "region"
  /\ pc' = [pc EXCEPT ![t] = next]
  /\ UNCHANGED <<locked, swiLocked, phase, op, key>>

YieldRegion(t) ==
  /\ Region(t, "restore") /\ op[t].name = "yield"
  /\ Task_yield
  /\ UNCHANGED <<terminatedQ, sleepVars, heldKey>>

SetPriRegion(t) ==
  /\ Region(t, "restore") /\ op[t].name = "setPri"
  /\ Task_setPri(op[t].task, op[t].to)
  /\ UNCHANGED <<terminatedQ, sleepVars, heldKey>>

\* An application-level Task_disable returns with the lock held.
LockRegion(t) ==
  /\ InTask(t) /\ pc[t] = "region" /\ op[t].name = "lock"
  /\ heldKey' = [heldKey EXCEPT ![t] = {key[t]}]
  /\ pc' = [pc EXCEPT ![t] = "user"]
  /\ op' = [op EXCEPT ![t] = NoOp]
  /\ key' = [key EXCEPT ![t] = FALSE]
  /\ UNCHANGED <<queueVars, locked, swiLocked, phase, terminatedQ, sleepVars>>

\* Task_postInit.  An inactive task is queued without the scheduler's help.
CreateRegion(t) ==
  /\ InTask(t) /\ pc[t] = "region" /\ op[t].name = "create"
  /\ LET u == op[t].task
         p == op[t].to
     IN  /\ Readied(u, p)
         /\ pri' = [pri EXCEPT ![u] = p]
         /\ workFlag' = (workFlag \/ p # Inactive)
         /\ pc' = [pc EXCEPT ![u] = "user", ![t] = "restore"]
         /\ heldKey' = [heldKey EXCEPT ![u] = {}]
  /\ UNCHANGED <<curQ, locked, swiLocked, phase, terminatedQ, sleepVars, op, key>>

\* Mutant of Finalize: the Clock object stays on the Clock queue.
FinalizeKeepsClock(u) ==
  /\ Task_unlink(u)
  /\ pendElem' = [pendElem EXCEPT ![u] = "null"]
  /\ UNCHANGED clk

\* Task_Instance_finalize: off the ready list, and the Clock object of an
\* unfinished sleep off the Clock queue.
Finalize(u) ==
  /\ Task_unlink(u)
  /\ clk' = IF mode[u] \in {"READY", "BLOCKED"} /\ pendElem[u] = "timed"
            THEN [clk EXCEPT ![u] = "none"] ELSE clk
  /\ pendElem' = [pendElem EXCEPT ![u] = "null"]

DeleteRegion(t) ==
  /\ InTask(t) /\ pc[t] = "region" /\ op[t].name = "delete"
  /\ Finalize(op[t].task)
  /\ pc' = [pc EXCEPT ![op[t].task] = "dead", ![t] = "restore"]
  /\ op' = [op EXCEPT ![op[t].task] = NoOp]
  /\ UNCHANGED <<locked, swiLocked, phase, terminatedQ, key, heldKey>>

\* Mutant of ReapRegion: the task reaped stays queued.
ReapKeepsQueue(t) ==
  /\ Region(t, "restore") /\ op[t].name = "reap"
  /\ IF terminatedQ = <<>> THEN UNCHANGED <<queueVars, sleepVars>>
     ELSE Finalize(Head(terminatedQ))
  /\ UNCHANGED <<terminatedQ, heldKey>>

\* Task_deleteTerminatedTasksFunc, called from the idle loop.
ReapRegion(t) ==
  /\ Region(t, "restore") /\ op[t].name = "reap"
  /\ IF terminatedQ = <<>> THEN UNCHANGED <<queueVars, terminatedQ, sleepVars>>
     ELSE Finalize(Head(terminatedQ)) /\ terminatedQ' = Tail(terminatedQ)
  /\ UNCHANGED heldKey

\* Task_exit: two regions under one lock.
ExitRegion(t) ==
  /\ Region(t, "exit") /\ op[t].name = "exit"
  /\ readyQ' = Unlinked(t)
  /\ curSet' = ClearBit(readyQ', t)
  /\ curQ' = IF curTask = t THEN NoQ ELSE curQ
  /\ mode' = [mode EXCEPT ![t] = "TERMINATED"]
  /\ workFlag' = TRUE
  /\ UNCHANGED <<pri, terminatedQ, sleepVars, heldKey>>

ExitTerminated(t) ==
  /\ InTask(t) /\ pc[t] = "exit"
  /\ terminatedQ' = IF DeleteTerminated THEN Append(terminatedQ, t) ELSE terminatedQ
  /\ pc' = [pc EXCEPT ![t] = "restore"]
  /\ UNCHANGED <<queueVars, locked, swiLocked, phase, sleepVars, op, key, heldKey>>

\* Task_sleep up to its Task_restore: one region, entered with the scheduler
\* enabled.
SleepRegion(t) ==
  /\ InTask(t) /\ pc[t] = "user" /\ ~Holding(t)
  /\ Task_enabled /\ "sleep" \in Calls[t]
  /\ key' = [key EXCEPT ![t] = locked]
  /\ locked' = TRUE
  /\ Task_blockI(t)
  /\ clk' = [clk EXCEPT ![t] = "active"]
  /\ pendElem' = [pendElem EXCEPT ![t] = "timed"]
  /\ op' = [op EXCEPT ![t] = Op("sleep")]
  /\ pc' = [pc EXCEPT ![t] = "restore"]
  /\ UNCHANGED <<swiLocked, phase, terminatedQ, heldKey>>

Restore(t) ==
  /\ InTask(t) /\ pc[t] = "restore"
  /\ Task_restore(key[t])
  /\ pc' = [pc EXCEPT ![t] = CASE op[t].name = "sleep" -> "wake"
                             [] op[t].name = "exit" -> "dead"
                             [] OTHER -> "user"]
  /\ op' = [op EXCEPT ![t] = NoOp]
  /\ key' = [key EXCEPT ![t] = FALSE]
  /\ UNCHANGED <<queueVars, swiLocked, terminatedQ, sleepVars, heldKey>>

\* The rest of Task_sleep, when the task runs again.
Wake(t) ==
  /\ InTask(t) /\ pc[t] = "wake"
  /\ clk' = [clk EXCEPT ![t] = "none"]
  /\ pendElem' = [pendElem EXCEPT ![t] = "bare"]
  /\ pc' = [pc EXCEPT ![t] = "woken"]
  /\ UNCHANGED <<queueVars, locked, swiLocked, phase, terminatedQ, op, key, heldKey>>

Woken(t) ==
  /\ InTask(t) /\ pc[t] = "woken"
  /\ pendElem' = [pendElem EXCEPT ![t] = "null"]
  /\ pc' = [pc EXCEPT ![t] = "user"]
  /\ UNCHANGED <<queueVars, locked, swiLocked, phase, terminatedQ, clk, op, key, heldKey>>

\* An application-level Task_restore.
Unlock(t) ==
  /\ InTask(t) /\ pc[t] = "user" /\ Holding(t)
  /\ \E k \in heldKey[t] : key' = [key EXCEPT ![t] = k]
  /\ heldKey' = [heldKey EXCEPT ![t] = {}]
  /\ op' = [op EXCEPT ![t] = Op("unlock")]
  /\ pc' = [pc EXCEPT ![t] = "restore"]
  /\ UNCHANGED <<queueVars, locked, swiLocked, phase, terminatedQ, sleepVars>>

Swi_disable(t) ==
  /\ InTask(t) /\ pc[t] = "user" /\ ~swiLocked
  /\ "swiRestore" \in Calls[t]
  /\ swiLocked' = TRUE
  /\ UNCHANGED <<queueVars, locked, phase, terminatedQ, sleepVars, callVars>>

\* Swi_restore unlocks the Swi scheduler, then gives the task scheduler its
\* chance with Task_restore(Task_disable()).
Swi_restore(t) ==
  /\ InTask(t) /\ pc[t] = "user" /\ swiLocked
  /\ swiLocked' = FALSE
  /\ op' = [op EXCEPT ![t] = Op("swiRestore")]
  /\ pc' = [pc EXCEPT ![t] = "read"]
  /\ UNCHANGED <<queueVars, locked, phase, terminatedQ, sleepVars, key, heldKey>>

Read(t) ==
  /\ InTask(t) /\ pc[t] = "read"
  /\ key' = [key EXCEPT ![t] = locked]
  /\ pc' = [pc EXCEPT ![t] = "write"]
  /\ UNCHANGED <<queueVars, locked, swiLocked, phase, terminatedQ, sleepVars, op, heldKey>>

-----------------------------------------------------------------------------
(* Interrupt level.                                                        *)

\* Clock runs Task_sleepTimeout when the Clock object of a sleep expires.
Task_sleepTimeout(t) ==
  /\ InHwi /\ clk[t] = "active"
  /\ clk' = [clk EXCEPT ![t] = "expired"]
  /\ Task_unblockI(t)
  /\ UNCHANGED <<terminatedQ, pendElem, callVars>>

HwiSetPri(t, p) ==
  /\ InHwi /\ Alive(t)
  /\ Task_setPri(t, p)
  /\ UNCHANGED <<terminatedQ, sleepVars, callVars>>

HwiYield ==
  /\ InHwi /\ \E t \in Tasks : "yield" \in Calls[t]
  /\ Task_yield
  /\ UNCHANGED <<terminatedQ, sleepVars, callVars>>

-----------------------------------------------------------------------------
KernelStep == (Scheduler \/ HwiEnter \/ HwiExit) /\ UNCHANGED <<terminatedQ, sleepVars, callVars>>

TaskCall(t) ==
  \/ \E name \in {"yield", "lock", "exit", "reap"} : Call(t, Op(name))
  \/ \E o \in TaskOps : Call(t, o)
  \/ SleepRegion(t) \/ Swi_disable(t)

\* The steps of a call under way and the calls that give a lock back.
TaskProgress(t) ==
  \/ Lock(t) \/ YieldRegion(t) \/ SetPriRegion(t) \/ LockRegion(t)
  \/ CreateRegion(t) \/ DeleteRegion(t) \/ ReapRegion(t)
  \/ ExitRegion(t) \/ ExitTerminated(t) \/ Restore(t) \/ Wake(t) \/ Woken(t)
  \/ Unlock(t) \/ Swi_restore(t) \/ Read(t)

HwiStep ==
  \/ \E t \in Tasks : Task_sleepTimeout(t)
  \/ \E t \in Tasks, p \in HwiLevels : HwiSetPri(t, p)
  \/ HwiYield

Next ==
  \/ KernelStep
  \/ \E t \in Tasks : TaskCall(t) \/ TaskProgress(t)
  \/ HwiStep

Spec == Init /\ [][Next]_vars

\* Every interrupt ends.  The interrupt load leaves the scheduler and the
\* running task time again and again, and does not ask for another round of
\* Task_schedule in each and every one of its rounds.  A task finishes the
\* calls it makes and returns the locks of both schedulers.
KernelOnly == UNCHANGED <<terminatedQ, sleepVars, callVars>>

Fairness ==
  /\ WF_vars(HwiExit /\ KernelOnly)
  /\ SF_vars(Scheduler /\ KernelOnly)
  /\ SF_vars(Scheduler /\ KernelOnly /\ phase' = "user")
  /\ SF_vars(\E t \in Tasks : TaskProgress(t))
  /\ SF_vars(\E t \in Tasks : Unlock(t))
  /\ SF_vars(\E t \in Tasks : Swi_restore(t))

FairSpec == Spec /\ Fairness

-----------------------------------------------------------------------------
(* Properties.                                                             *)

\* "The priority of the currently running task is never lower than the
\* priority of any ready task" (Task.xdc:76): whenever the schedulers are
\* enabled, the running task is ready and heads the highest ready list.  The
\* tail of Swi_restore, about to give the task scheduler its chance, is apart.
RunningIsHighest ==
  Task_enabled /\ op[running].name # "swiRestore" =>
    /\ mode[running] = "READY"
    /\ \A t \in Tasks : mode[t] = "READY" => pri[t] <= pri[running]
    /\ Head(readyQ[pri[running]]) = running

\* Task_disable's unprotected read and write (Task.c:354-369): its key always
\* tells whether the caller had the scheduler locked, and no interrupt or
\* preemption leaves the lock in another state than its owner's calls did.
InLockedPart(t) == Holding(t) \/ pc[t] \in {"region", "exit", "restore"}

LockBalance ==
  /\ \A t \in Tasks : /\ heldKey[t] \subseteq {FALSE}
                      /\ pc[t] \in {"write", "region", "exit", "restore"} =>
                           (key[t] <=> Holding(t))
  /\ locked <=> isr \/ phase # "user" \/ InLockedPart(running)

\* The Clock object of a sleep lives on the sleeper's stack: it is on the
\* Clock queue only while the task is in Task_sleep, and still armed only
\* while the task is blocked, so a timeout never readies a task twice.
SleepClockOK ==
  \A t \in Tasks :
    /\ clk[t] = "active" <=> mode[t] = "BLOCKED"
    /\ clk[t] # "none" => pendElem[t] = "timed" /\ Alive(t)

\* terminatedQ holds each terminated task once, from the end of its
\* Task_exit until it is reaped, and no other task.
TerminatedQOK ==
  /\ NoDuplicates(terminatedQ)
  /\ \A t \in Tasks : Linked(t, terminatedQ) <=>
       DeleteTerminated /\ mode[t] = "TERMINATED" /\ pc[t] # "exit"

\* While a task holds the scheduler, or the Swi scheduler, no other task runs.
LockExcludesTasks ==
  [][running' # running => ~Holding(running) /\ ~swiLocked]_vars

\* "Tasks of the same priority are scheduled on a first-come, first-served
\* basis" (Task.xdc:74-75): of two tasks waiting on a ready list, one overtakes
\* the other only when the other is the current task and yields.
Before(s, t, q) == \E i, j \in DOMAIN q : i < j /\ q[i] = s /\ q[j] = t

FirstComeFirstServed ==
  [][\A l \in Level, s, t \in Tasks :
       Before(s, t, readyQ[l]) /\ Before(t, s, readyQ'[l]) => s = curTask /\ curQ' = NoQ]_vars

\* A ready task above all others gets the processor, or loses that rank.
Highest(t) == /\ mode[t] = "READY" /\ pri[t] # Inactive
              /\ \A u \in Tasks \ {t} : mode[u] = "READY" => pri[u] < pri[t]

HighestRuns ==
  \A t \in Tasks : Highest(t) ~> (running = t /\ phase = "user") \/ ~Highest(t)

-----------------------------------------------------------------------------
(* The inductive invariant behind RunningIsHighest: what the scheduler's    *)
(* own steps need (KernelOK), and what each call under way guarantees of    *)
(* the lock, of the mode of the running task and of the task it names.      *)

LockHeldOK ==
  /\ \A t \in Tasks : /\ heldKey[t] \subseteq {FALSE}
                      /\ pc[t] \in {"write", "region", "exit", "restore"} =>
                           (key[t] <=> Holding(t))
                      /\ t # running \/ phase # "user" => ~InLockedPart(t)
  /\ phase = "user" => ((IF isr THEN isrKey ELSE locked) <=> InLockedPart(running))

\* workFlag raised while the schedulers were locked is still to be acted on.
WorkPending ==
  ~isr /\ phase = "user" /\ ~locked /\ workFlag =>
     swiLocked \/ op[running].name = "swiRestore"

Leaving(t) ==
  pc[t] = "exit" \/ (pc[t] = "restore" /\ op[t].name \in {"sleep", "exit"})

RunnerOK ==
  /\ phase = "user" => mode[running] = "READY" \/ Leaving(running)
  /\ \A t \in Tasks :
       /\ Leaving(t) => workFlag /\ ~Holding(t)
       /\ op[t].name \in {"lock", "sleep", "exit"} => ~Holding(t)
       /\ op[t].name \in {"sleep", "exit"} /\ t = running /\ phase = "user" => ~swiLocked

NamesOK(t) ==
  /\ op[t].name = "create" /\ pc[t] \in {"write", "region"} =>
       op[t].task # t /\ mode[op[t].task] = "NONE"
  /\ op[t].name = "delete" /\ pc[t] \in {"write", "region"} =>
       op[t].task # t /\ ~Linked(op[t].task, terminatedQ)
  /\ op[t] \in TaskOps => op[op[t].task].name # "exit"
  /\ \A u \in Tasks : op[t] \in TaskOps /\ Names(op[u], op[t].task) => u = t
  /\ op[t].name = "swiRestore" => pc[t] \in {"read", "write", "restore"}
  /\ pc[t] = "read" => op[t].name = "swiRestore"
  /\ pc[t] = "exit" =>
       op[t].name = "exit" /\ mode[t] = "TERMINATED" /\ ~Linked(t, terminatedQ)
  /\ pc[t] \in {"user", "wake", "woken", "dead"} => op[t] = NoOp

SleepersOK ==
  \A t \in Tasks :
    /\ clk[t] = "active" <=> mode[t] = "BLOCKED"
    /\ clk[t] # "none" => /\ pendElem[t] = "timed"
                          /\ pc[t] = "wake" \/ (pc[t] = "restore" /\ op[t].name = "sleep")
    /\ mode[t] \in {"TERMINATED", "NONE"} => clk[t] = "none"

TerminatedOK ==
  /\ NoDuplicates(terminatedQ)
  /\ \A t \in Tasks :
       /\ Linked(t, terminatedQ) => DeleteTerminated /\ mode[t] = "TERMINATED"
       /\ mode[t] = "TERMINATED" =>
            pc[t] \in {"exit", "dead"} \/ (pc[t] = "restore" /\ op[t].name = "exit")
       /\ mode[t] = "NONE" => pc[t] = "dead"

IInv ==
  /\ TypeOK /\ KernelOK /\ LockHeldOK /\ WorkPending /\ RunnerOK
  /\ \A t \in Tasks : NamesOK(t)
  /\ SleepersOK /\ TerminatedOK
=============================================================================
