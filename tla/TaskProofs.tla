----------------------------- MODULE TaskProofs -----------------------------
(***************************************************************************)
(* IInv is an inductive invariant of the Task services, and the scheduler  *)
(* therefore keeps the promise of Task.xdc:76.                             *)
(***************************************************************************)
EXTENDS Task, KernelProofs

\* Op(name) is one of the calls without a task, and no call with one.
LEMMA OpIsSimple ==
  ASSUME NEW name \in {"none", "yield", "lock", "unlock", "swiRestore", "exit", "sleep", "reap"}
  PROVE  /\ Op(name) \in SimpleOps /\ Op(name).name = name
         /\ Op(name) \notin TaskOps
<1>1. Op(name) \in SimpleOps /\ Op(name).name = name
  BY DEF Op, SimpleOps
<1>2. \A o \in TaskOps : o.name \in {"setPri", "create", "delete"}
  BY DEF TaskOps
<1>3. QED BY <1>1, <1>2

\* The fields of the calls.
LEMMA OpFields ==
  /\ \A o \in TaskOps : o.task \in Tasks /\ o.name \in {"setPri", "create", "delete"}
  /\ \A o \in TaskOps : o.name # "delete" => o.to \in Level
  /\ \A o \in SimpleOps : o.name \in {"none", "yield", "lock", "unlock", "swiRestore",
                                      "exit", "sleep", "reap"}
  /\ NoOp \in SimpleOps /\ NoOp \notin TaskOps /\ NoOp.name = "none"
<1>1. /\ \A o \in TaskOps : o.task \in Tasks /\ o.name \in {"setPri", "create", "delete"}
      /\ \A o \in TaskOps : o.name # "delete" => o.to \in Level
      /\ \A o \in SimpleOps : o.name \in {"none", "yield", "lock", "unlock", "swiRestore",
                                      "exit", "sleep", "reap"}
  BY DEF TaskOps, SimpleOps
<1>2. QED BY <1>1, OpIsSimple DEF NoOp

-----------------------------------------------------------------------------
(* The kernel's own steps leave the calls alone.                           *)

\* The scheduler, the dispatcher and the lock at the interrupt's end preserve
\* IInv: LockHeldOK speaks of isrKey while an interrupt hides the lock.
LEMMA KernelStepPreserves ==
  ASSUME IInv, KernelStep
  PROVE  IInv'
<1>1. KernelTypeOK /\ KernelOK
  BY DEF IInv, TypeOK
<1>2. UNCHANGED <<terminatedQ, pendElem, clk, pc, op, key, heldKey>>
  BY DEF KernelStep, sleepVars, callVars
<1>3. /\ UNCHANGED mode
      /\ phase = "user" /\ ~isr => workFlag' = workFlag
  BY DEF KernelStep, Scheduler, Task_schedule, Task_allBlockedFunction, Task_swap,
         HwiEnter, HwiExit, queueVars
<1>4. KernelTypeOK' /\ KernelOK'
  BY <1>1, Task_schedulePreserves, Task_allBlockedFunctionPreserves, Task_swapPreserves,
     HwiEnterPreserves, HwiExitPreserves DEF KernelStep, Scheduler
<1>5. TypeOK'
  BY <1>2, <1>4 DEF IInv, TypeOK
<1>6. SleepersOK' /\ TerminatedOK' /\ \A t \in Tasks : NamesOK(t)'
  BY <1>2, <1>3 DEF IInv, SleepersOK, TerminatedOK, NamesOK, Names
<1>7. LockHeldOK' /\ WorkPending' /\ RunnerOK'
  <2>1. CASE Scheduler
    <3>1. /\ phase # "user" /\ ~isr' /\ ~swiLocked
          /\ UNCHANGED swiLocked
          /\ (phase' = "user" => locked' = FALSE /\ workFlag' = FALSE)
      BY <2>1, <1>1 DEF Scheduler, Task_schedule, Task_allBlockedFunction, Task_swap,
         Task_schedule_select, LoopTest, hwiVars, queueVars, KernelOK, ControlOK, KernelTypeOK, QueueTypeOK
    <3>2. phase' = "user" => mode'[running'] = "READY"
      BY <2>1, <1>1, Task_schedulePreserves, Task_allBlockedFunctionPreserves, Task_swapPreserves
      DEF Scheduler
    <3>3. \A t \in Tasks : ~InLockedPart(t)
      BY <3>1 DEF IInv, LockHeldOK
    <3>4. LockHeldOK'
      <4>1. \A t \in Tasks : ~InLockedPart(t)' /\ UNCHANGED Holding(t)
        BY <1>2, <3>3 DEF InLockedPart, Holding
      <4>2. running' \in Tasks
        BY <1>4 DEF KernelTypeOK, ControlTypeOK
      <4>3. QED BY <1>2, <3>1, <4>1, <4>2 DEF IInv, LockHeldOK
    <3>5. WorkPending'
      BY <3>1 DEF WorkPending
    <3>6. RunnerOK'
      <4>1. \A t \in Tasks : ~Leaving(t)'
        BY <1>2, <3>3 DEF Leaving, InLockedPart
      <4>2. \A t \in Tasks : op'[t].name \in {"lock", "sleep", "exit"} => ~Holding(t)'
        BY <1>2 DEF IInv, RunnerOK, Holding
      <4>3. QED BY <3>1, <3>2, <4>1, <4>2 DEF RunnerOK
    <3>7. QED BY <3>4, <3>5, <3>6
  <2>2. CASE HwiEnter
    <3>1. /\ ~isr /\ isr' /\ isrKey' = locked
          /\ UNCHANGED <<running, phase, swiLocked, workFlag>>
      BY <2>2 DEF HwiEnter, queueVars
    <3>2. LockHeldOK'
      BY <1>2, <3>1 DEF IInv, LockHeldOK, InLockedPart, Holding
    <3>3. WorkPending'
      BY <3>1 DEF WorkPending
    <3>4. RunnerOK'
      BY <1>2, <1>3, <3>1 DEF IInv, RunnerOK, Leaving, Holding
    <3>5. QED BY <3>2, <3>3, <3>4
  <2>3. CASE HwiExit
    <3>1. /\ isr /\ isr' = FALSE /\ UNCHANGED <<running, swiLocked, workFlag>>
          /\ (phase # "user" => isrKey) /\ locked
          /\ \/ isrKey /\ UNCHANGED <<phase, locked>>
             \/ ~isrKey /\ workFlag /\ ~swiLocked /\ phase' = "pick" /\ UNCHANGED locked
             \/ ~isrKey /\ UNCHANGED phase /\ locked' = FALSE /\ (workFlag => swiLocked)
      BY <2>3, <1>1 DEF HwiExit, Task_restore, Swi_enabled, queueVars, KernelOK, ControlOK,
         KernelTypeOK, ControlTypeOK, QueueTypeOK
    <3>2. /\ \A t \in Tasks : UNCHANGED <<InLockedPart(t), Holding(t), Leaving(t)>>
          /\ running \in Tasks
      BY <1>1, <1>2 DEF InLockedPart, Holding, Leaving, KernelTypeOK, ControlTypeOK
    <3>3. LockHeldOK'
      BY <1>2, <3>1, <3>2 DEF IInv, LockHeldOK
    <3>4. WorkPending'
      BY <1>2, <3>1 DEF IInv, WorkPending
    <3>5. RunnerOK'
      BY <1>2, <1>3, <3>1, <3>2 DEF IInv, RunnerOK
    <3>6. QED BY <3>3, <3>4, <3>5
  <2>4. QED BY <2>1, <2>2, <2>3 DEF KernelStep
<1>8. QED BY <1>4, <1>5, <1>6, <1>7 DEF IInv, TypeOK

-----------------------------------------------------------------------------
(* Steps of the running task that leave the scheduler's queues alone.      *)

\* What a region of task t may rely on.
LEMMA InRegion ==
  ASSUME IInv, NEW t \in Tasks, InTask(t)
  PROVE  /\ KernelTypeOK /\ KernelOK /\ QueueTypeOK /\ QueuesOK
         /\ running = t /\ curTask = t /\ phase = "user" /\ ~isr
         /\ UNCHANGED <<curTask, running, isr, isrKey>>
         /\ locked <=> InLockedPart(t)
         /\ \A u \in Tasks \ {t} : ~InLockedPart(u) /\ ~Leaving(u)
<1>1. KernelTypeOK /\ KernelOK /\ QueueTypeOK /\ QueuesOK
  BY DEF IInv, TypeOK, KernelTypeOK, KernelOK
<1>2. running = t /\ phase = "user" /\ ~isr /\ UNCHANGED <<curTask, running, isr, isrKey>>
  BY DEF InTask, hwiVars
<1>3. curTask = t
  BY <1>1, <1>2 DEF KernelOK, ControlOK
<1>4. (locked <=> InLockedPart(t)) /\ \A u \in Tasks \ {t} : ~InLockedPart(u)
  BY <1>2 DEF IInv, LockHeldOK
<1>5. \A u \in Tasks : Leaving(u) => InLockedPart(u)
  BY DEF Leaving, InLockedPart
<1>6. QED BY <1>1, <1>2, <1>3, <1>4, <1>5

\* A region that leaves the queues alone, whatever it does to the locks.
LEMMA QuietRegion ==
  ASSUME IInv, NEW t \in Tasks, InTask(t), UNCHANGED <<queueVars, phase>>,
         locked' \in BOOLEAN, swiLocked' \in BOOLEAN
  PROVE  KernelTypeOK' /\ KernelOK'
<1>1. QueueTypeOK' /\ QueuesOK' /\ UNCHANGED <<curQ, workFlag>> /\ curSet' \subseteq curSet
  BY InRegion, QueuesUnchanged DEF queueVars
<1>2. QED BY <1>1, InRegion, RegionPreserves

\* Call keeps IInv: Legal lets nobody name an object twice.
LEMMA CallPreserves ==
  ASSUME IInv, NEW t \in Tasks, NEW o \in SimpleOps \cup TaskOps, Call(t, o),
         o \in TaskOps \/ o \in {Op("yield"), Op("lock"), Op("exit"), Op("reap")}
  PROVE  IInv'
<1>1. /\ InTask(t) /\ pc[t] = "user" /\ Legal(t, o)
      /\ op' = [op EXCEPT ![t] = o] /\ key' = [key EXCEPT ![t] = locked]
      /\ pc' = [pc EXCEPT ![t] = "write"]
      /\ UNCHANGED <<queueVars, locked, swiLocked, phase, terminatedQ, pendElem, clk, heldKey>>
  BY DEF Call, sleepVars
<1>2. UNCHANGED <<mode, workFlag>>
  BY <1>1 DEF queueVars
<1>3. KernelTypeOK' /\ KernelOK'
  BY <1>1, QuietRegion, InRegion DEF KernelTypeOK, ControlTypeOK
<1>4. TypeOK /\ locked \in BOOLEAN
  BY DEF IInv, TypeOK, KernelTypeOK, ControlTypeOK
<1>5. TypeOK'
  BY <1>1, <1>3, <1>4 DEF TypeOK, PCs
<1>6. /\ \A u \in Tasks : UNCHANGED Holding(u) /\ (u # t => UNCHANGED <<InLockedPart(u), Leaving(u)>>)
      /\ ~Leaving(t)' /\ (InLockedPart(t) <=> Holding(t)) /\ (InLockedPart(t)' <=> Holding(t))
  BY <1>1, <1>4 DEF Holding, InLockedPart, Leaving, TypeOK
<1>7. LockHeldOK'
  <2>1. \A u \in Tasks : u # t => ~InLockedPart(u)'
    BY <1>1, <1>6, InRegion
  <2>2. (locked' <=> InLockedPart(t)') /\ running' = t /\ ~isr' /\ phase' = "user"
    BY <1>1, <1>6, InRegion
  <2>3. \A u \in Tasks : heldKey'[u] \subseteq {FALSE}
                     /\ (u # t => key'[u] = key[u] /\ pc'[u] = pc[u])
    BY <1>1, <1>4 DEF IInv, LockHeldOK, TypeOK
  <2>4. key'[t] <=> Holding(t)'
    BY <1>1, <1>4, <1>6, InRegion DEF TypeOK
  <2>5. QED BY <1>6, <2>1, <2>2, <2>3, <2>4 DEF IInv, LockHeldOK
<1>8. o.name # "swiRestore" /\ o.name # "sleep" /\ op[t] = NoOp
      /\ (o.name \in {"lock", "exit"} => ~Holding(t)) /\ (o.name = "exit" => ~swiLocked)
  BY <1>1, OpFields, OpIsSimple DEF IInv, NamesOK, Legal, Task_enabled, Swi_enabled
<1>9. WorkPending'
  BY <1>1, <1>2, <1>4, <1>8, InRegion, OpFields DEF IInv, WorkPending, TypeOK
<1>10. RunnerOK'
  <2>1. mode'[running'] = "READY" /\ running' = t
    BY <1>1, <1>2, <1>6, InRegion DEF IInv, RunnerOK, InLockedPart, Leaving
  <2>2. \A u \in Tasks : ~Leaving(u)'
    BY <1>6, InRegion, <1>1
  <2>3. \A u \in Tasks : op'[u] = IF u = t THEN o ELSE op[u]
    BY <1>1, <1>4 DEF TypeOK
  <2>4. QED BY <1>1, <1>6, <1>8, <2>1, <2>2, <2>3 DEF IInv, RunnerOK
<1>11. ASSUME NEW v \in Tasks PROVE NamesOK(v)'
  <2>1. \A u \in Tasks : /\ op'[u] = IF u = t THEN o ELSE op[u]
                         /\ pc'[u] = IF u = t THEN "write" ELSE pc[u]
    BY <1>1, <1>4 DEF TypeOK
  <2>2. CASE v = t
    <3>1. CASE o \in TaskOps
      <4>1. LegalOn(t, o) /\ o.task \in Tasks /\ o.name \in {"setPri", "create", "delete"}
        BY <1>1, <3>1, OpFields DEF Legal
      <4>2. op[o.task].name # "exit" /\ \A u \in Tasks : ~Names(op[u], o.task)
        BY <4>1 DEF LegalOn, Free
      <4>3. mode[t] = "READY"
        BY <1>1, <1>6, InRegion DEF IInv, RunnerOK, Leaving
      <4>4. o.name = "create" => o.task # t /\ mode[o.task] = "NONE"
        BY <4>1, <4>3 DEF LegalOn
      <4>5. o.name = "delete" => o.task # t /\ ~Linked(o.task, terminatedQ)
        BY <4>1 DEF LegalOn, IInv, TerminatedOK, Alive
      <4>6. QED
        BY <1>1, <1>2, <2>1, <2>2, <3>1, <4>1, <4>2, <4>4, <4>5 DEF NamesOK, Names
    <3>2. CASE o \notin TaskOps
      <4>1. o.name \in {"yield", "lock", "exit", "reap"}
        BY <3>2, OpIsSimple
      <4>2. QED BY <2>1, <2>2, <3>2, <4>1 DEF NamesOK
    <3>3. QED BY <3>1, <3>2
  <2>3. CASE v # t
    <3>1. NamesOK(v)
      BY DEF IInv
    <3>2. op[v] \in TaskOps => op[v].task \in Tasks
      BY OpFields
    <3>3. op[v] \in TaskOps /\ op[v].task = t => o.name # "exit"
      BY <1>1, OpFields DEF Legal, Free, Names
    <3>4. op[v] \in TaskOps => ~Names(o, op[v].task)
      BY <1>1, OpFields DEF Legal, LegalOn, Free, Names
    <3>5. QED
      BY <1>1, <1>2, <2>1, <2>3, <3>1, <3>2, <3>3, <3>4 DEF NamesOK
  <2>4. QED BY <2>2, <2>3
<1>12. SleepersOK' /\ TerminatedOK'
  BY <1>1, <1>2, <1>4 DEF IInv, SleepersOK, TerminatedOK, TypeOK
<1>13. QED BY <1>3, <1>5, <1>7, <1>9, <1>10, <1>11, <1>12 DEF IInv, TypeOK

-----------------------------------------------------------------------------
(* Steps of a call under way: task t moves to p in call o with key k and    *)
(* application key h.                                                      *)

StepOf(t, p, o, k, h) ==
  /\ InTask(t)
  /\ p \in PCs /\ o \in SimpleOps \cup TaskOps /\ k \in BOOLEAN /\ h \in SUBSET {FALSE}
  /\ pc' = [pc EXCEPT ![t] = p]
  /\ op' = [op EXCEPT ![t] = o]
  /\ key' = [key EXCEPT ![t] = k]
  /\ heldKey' = [heldKey EXCEPT ![t] = h]

Kept(t) == pc[t] \in PCs /\ op[t] \in SimpleOps \cup TaskOps /\ key[t] \in BOOLEAN
             /\ heldKey[t] \in SUBSET {FALSE}
             /\ pc = [pc EXCEPT ![t] = pc[t]] /\ op = [op EXCEPT ![t] = op[t]]
             /\ key = [key EXCEPT ![t] = key[t]]
             /\ heldKey = [heldKey EXCEPT ![t] = heldKey[t]]

\* IInv is enough to say that the calls of a task stay as they are.
LEMMA KeptCalls ==
  ASSUME IInv, NEW t \in Tasks
  PROVE  Kept(t)
BY DEF IInv, TypeOK, LockHeldOK, Kept

\* The calls after such a step.
LEMMA StepFields ==
  ASSUME IInv, NEW t \in Tasks, NEW p, NEW o, NEW k, NEW h, StepOf(t, p, o, k, h)
  PROVE  /\ \A u \in Tasks :
              /\ pc'[u] = IF u = t THEN p ELSE pc[u]
              /\ op'[u] = IF u = t THEN o ELSE op[u]
              /\ key'[u] = IF u = t THEN k ELSE key[u]
              /\ heldKey'[u] = IF u = t THEN h ELSE heldKey[u]
         /\ pc' \in [Tasks -> PCs] /\ op' \in [Tasks -> SimpleOps \cup TaskOps]
         /\ key' \in [Tasks -> BOOLEAN] /\ heldKey' \in [Tasks -> SUBSET BOOLEAN]
BY DEF StepOf, IInv, TypeOK

\* LockHeldOK after a step of the running task: the new place, key and held
\* key of its call agree with the lock.
LEMMA StepLock ==
  ASSUME IInv, NEW t \in Tasks, NEW p, NEW o, NEW k, NEW h, StepOf(t, p, o, k, h),
         UNCHANGED phase,
         locked' <=> h # {} \/ p \in {"region", "exit", "restore"},
         p \in {"write", "region", "exit", "restore"} => (k <=> h # {})
  PROVE  LockHeldOK'
<1>1. \A u \in Tasks : u # t => ~InLockedPart(u)'
  BY StepFields, InRegion DEF StepOf, InLockedPart, Holding
<1>2. (InLockedPart(t)' <=> locked') /\ (Holding(t)' <=> h # {})
  BY StepFields DEF InLockedPart, Holding
<1>3. running' = t /\ ~isr' /\ phase' = "user"
  BY InRegion DEF StepOf
<1>4. \A u \in Tasks : u # t => (Holding(u)' <=> Holding(u))
  BY StepFields DEF Holding
<1>5. ASSUME NEW u \in Tasks
      PROVE  /\ heldKey'[u] \subseteq {FALSE}
             /\ pc'[u] \in {"write", "region", "exit", "restore"} =>
                  (key'[u] <=> Holding(u)')
  <2>1. CASE u = t
    <3>1. heldKey'[t] = h /\ pc'[t] = p /\ key'[t] = k /\ h \subseteq {FALSE}
      BY StepFields DEF StepOf
    <3>2. QED BY <1>2, <2>1, <3>1
  <2>2. CASE u # t
    <3>1. heldKey'[u] = heldKey[u] /\ pc'[u] = pc[u] /\ key'[u] = key[u]
      BY <2>2, StepFields
    <3>2. QED BY <1>4, <2>2, <3>1 DEF IInv, LockHeldOK
  <2>3. QED BY <2>1, <2>2
<1>6. QED BY <1>1, <1>2, <1>3, <1>5 DEF LockHeldOK

\* RunnerOK after such a step: the task is ready, or about to leave with the
\* scheduler told.
LEMMA StepRunner ==
  ASSUME IInv, NEW t \in Tasks, NEW p, NEW o, NEW k, NEW h, StepOf(t, p, o, k, h),
         mode'[t] = "READY" \/ Leaving(t)',
         Leaving(t)' => workFlag' /\ h = {},
         o.name \in {"lock", "sleep", "exit"} => h = {},
         o.name \in {"sleep", "exit"} => ~swiLocked'
  PROVE  RunnerOK'
<1>1. \A u \in Tasks : u # t => ~Leaving(u)'
  BY StepFields, InRegion DEF StepOf, Leaving
<1>2. running' = t
  BY InRegion DEF StepOf
<1>3. \A u \in Tasks : u # t => (Holding(u)' <=> Holding(u))
  BY StepFields DEF Holding
<1>4. ~Holding(t)' <=> h = {}
  BY StepFields DEF Holding
<1>5. QED BY <1>1, <1>2, <1>3, <1>4, StepFields DEF IInv, RunnerOK

\* NamesOK of all tasks after such a step, from NamesOK of the one that moves.
LEMMA StepNames ==
  ASSUME IInv, NEW t \in Tasks, NEW p, NEW o, NEW k, NEW h, StepOf(t, p, o, k, h),
         o = op[t] \/ (o \in SimpleOps /\ o.name # "exit"),
         NamesOK(t)',
         \A u \in Tasks : mode[u] = "NONE" => mode'[u] = "NONE",
         \A u \in Tasks : Linked(u, terminatedQ') /\ ~Linked(u, terminatedQ) =>
                             u = t /\ op[t].name = "exit"
  PROVE  \A v \in Tasks : NamesOK(v)'
<1>1. SUFFICES ASSUME NEW v \in Tasks, v # t PROVE NamesOK(v)'
  OBVIOUS
<1>2. NamesOK(v) /\ (op[v] \in TaskOps => op[v].task \in Tasks)
  BY OpFields DEF IInv
<1>3. op[v] \in TaskOps => op'[op[v].task].name # "exit"
  BY <1>2, StepFields DEF NamesOK
<1>4. o \in TaskOps => o = op[t]
  BY OpFields
<1>5. \A u \in Tasks : op[v] \in TaskOps /\ Names(op'[u], op[v].task) => u = v
  BY <1>1, <1>2, <1>4, StepFields DEF NamesOK, Names
<1>6. v # t /\ op[v].name = "delete" => op[v] \in TaskOps
  BY OpFields DEF IInv, TypeOK
<1>7. op[v].name = "create" => op[v] \in TaskOps
  BY OpFields DEF IInv, TypeOK
<1>8. op[v].name = "delete" /\ pc[v] \in {"write", "region"} => ~Linked(op[v].task, terminatedQ')
  BY <1>1, <1>2, <1>6 DEF NamesOK
<1>9. op[v].name = "create" /\ pc[v] \in {"write", "region"} => mode'[op[v].task] = "NONE"
  BY <1>1, <1>2, <1>7 DEF NamesOK
<1>10. pc[v] # "exit"
  BY <1>1, InRegion DEF StepOf, InLockedPart
<1>11. QED BY <1>1, <1>2, <1>3, <1>5, <1>8, <1>9, <1>10, StepFields DEF NamesOK

\* TerminatedOK after a step of a task that neither ends nor ends another.
LEMMA StepTerminated ==
  ASSUME IInv, NEW t \in Tasks, NEW p, NEW o, NEW k, NEW h, StepOf(t, p, o, k, h),
         UNCHANGED terminatedQ, mode[t] = "READY", mode'[t] \in {"READY", "BLOCKED"},
         \A v \in Tasks \ {t} : mode'[v] = mode[v]
  PROVE  TerminatedOK'
<1>1. ASSUME NEW v \in Tasks
      PROVE  /\ Linked(v, terminatedQ') => DeleteTerminated /\ mode'[v] = "TERMINATED"
             /\ mode'[v] = "TERMINATED" =>
                  pc'[v] \in {"exit", "dead"} \/ (pc'[v] = "restore" /\ op'[v].name = "exit")
             /\ mode'[v] = "NONE" => pc'[v] = "dead"
  <2>1. CASE v = t
    BY <2>1 DEF IInv, TerminatedOK
  <2>2. CASE v # t
    <3>1. pc'[v] = pc[v] /\ op'[v] = op[v]
      BY <2>2, StepFields
    <3>2. QED BY <2>2, <3>1 DEF IInv, TerminatedOK
  <2>3. QED BY <2>1, <2>2
<1>2. NoDuplicates(terminatedQ')
  BY DEF IInv, TerminatedOK
<1>3. QED BY <1>1, <1>2 DEF TerminatedOK

-----------------------------------------------------------------------------
(* The steps that change neither the queues nor the mode of a task.        *)

QuietStepOf(t, p, o, k, h) ==
  /\ StepOf(t, p, o, k, h)
  /\ UNCHANGED <<queueVars, phase, terminatedQ, pendElem, clk>>
  /\ locked' \in BOOLEAN /\ swiLocked' \in BOOLEAN
  /\ locked' <=> h # {} \/ p \in {"region", "exit", "restore"}
  /\ p \in {"write", "region", "exit", "restore"} => (k <=> h # {})
  /\ pc[t] \notin {"exit", "restore", "wake"} /\ p \notin {"exit", "wake"}
  /\ p = "restore" => o.name \notin {"sleep", "exit"}
  /\ o = op[t] \/ (o \in SimpleOps /\ o.name # "exit")
  /\ o.name \in {"lock", "sleep", "exit"} => h = {}
  /\ o.name \in {"sleep", "exit"} => ~swiLocked'
  /\ ~locked' /\ workFlag => swiLocked' \/ o.name = "swiRestore"

\* What a step that leaves the scheduler's queues alone keeps.
LEMMA QuietStep ==
  ASSUME IInv, NEW t \in Tasks, NEW p, NEW o, NEW k, NEW h, QuietStepOf(t, p, o, k, h),
         NamesOK(t)'
  PROVE  IInv'
<1> USE DEF QuietStepOf
<1>1. KernelTypeOK' /\ KernelOK'
  BY QuietRegion DEF StepOf
<1>2. TypeOK'
  BY <1>1, StepFields DEF IInv, TypeOK
<1>3. UNCHANGED <<mode, workFlag>>
  BY DEF queueVars
<1>4. mode'[t] = "READY"
  BY <1>3, InRegion DEF StepOf, IInv, RunnerOK, Leaving
<1>5. ~Leaving(t)'
  BY StepFields DEF Leaving
<1>6. LockHeldOK'
  BY StepLock
<1>7. RunnerOK'
  BY <1>4, <1>5, StepRunner
<1>8. WorkPending'
  <2>1. op'[t] = o /\ running' = t
    BY StepFields, InRegion DEF StepOf
  <2>2. QED BY <1>3, <2>1 DEF WorkPending
<1>9. \A v \in Tasks : NamesOK(v)'
  BY <1>3, StepNames
<1>10. SleepersOK'
  BY <1>3, StepFields DEF IInv, SleepersOK
<1>11. TerminatedOK'
  BY <1>3, <1>4, StepTerminated
<1>12. QED BY <1>1, <1>2, <1>6, <1>7, <1>8, <1>9, <1>10, <1>11 DEF IInv, TypeOK

\* NamesOK of the caller when its call names no task, or the same task still.
LEMMA NamesKept ==
  ASSUME IInv, NEW t \in Tasks, NEW p, NEW k, NEW h, StepOf(t, p, op[t], k, h),
         UNCHANGED <<mode, terminatedQ>>,
         p \in {"write", "region"} => pc[t] \in {"write", "region"},
         p \notin {"read", "exit", "user", "wake", "woken", "dead"},
         op[t].name = "swiRestore" => p \in {"read", "write", "restore"}
  PROVE  NamesOK(t)'
<1>1. NamesOK(t) /\ (op[t] \in TaskOps => op[t].task \in Tasks)
  BY OpFields DEF IInv
<1>2. pc'[t] = p /\ \A u \in Tasks : op'[u] = op[u]
  BY StepFields
<1>3. QED BY <1>1, <1>2 DEF NamesOK

\* NamesOK of the caller when its new call names no task.
LEMMA NamesNone ==
  ASSUME IInv, NEW t \in Tasks, NEW p, NEW o, NEW k, NEW h, StepOf(t, p, o, k, h),
         o \in SimpleOps, p # "exit",
         o.name = "swiRestore" => p \in {"read", "write", "restore"},
         p = "read" => o.name = "swiRestore",
         p \in {"user", "wake", "woken", "dead"} => o = NoOp
  PROVE  NamesOK(t)'
<1>1. o \notin TaskOps /\ o.name \notin {"create", "delete"}
  BY OpFields
<1>2. pc'[t] = p /\ op'[t] = o
  BY StepFields
<1>3. QED BY <1>1, <1>2 DEF NamesOK

\* The write of Task_disable.
LEMMA LockPreserves ==
  ASSUME IInv, NEW t \in Tasks, Lock(t)
  PROVE  IInv'
<1> DEFINE p == IF op[t].name = "swiRestore" THEN "restore" ELSE "region"
<1>1. /\ InTask(t) /\ pc[t] = "write" /\ locked' = TRUE
      /\ pc' = [pc EXCEPT ![t] = p]
      /\ UNCHANGED <<queueVars, swiLocked, phase, terminatedQ, pendElem, clk, op, key, heldKey>>
  BY DEF Lock, sleepVars
<1>2. StepOf(t, p, op[t], key[t], heldKey[t])
  BY <1>1, KeptCalls DEF StepOf, Kept, PCs
<1>3. key[t] <=> heldKey[t] # {}
  BY <1>1 DEF IInv, LockHeldOK, Holding
<1>4. /\ op[t].name \in {"lock", "sleep", "exit"} => heldKey[t] = {}
      /\ op[t].name \in {"sleep", "exit"} => ~swiLocked'
  BY <1>1, InRegion DEF IInv, RunnerOK, Holding
<1>5. NamesOK(t)'
  BY <1>1, <1>2, NamesKept DEF queueVars
<1>6. swiLocked' \in BOOLEAN
  BY <1>1 DEF IInv, TypeOK, KernelTypeOK, ControlTypeOK
<1>7. QuietStepOf(t, p, op[t], key[t], heldKey[t])
  BY <1>1, <1>2, <1>3, <1>4, <1>6 DEF QuietStepOf
<1>8. QED BY <1>5, <1>7, QuietStep

\* Task_disable returns to the application, which holds the lock from here.
LEMMA LockRegionPreserves ==
  ASSUME IInv, NEW t \in Tasks, LockRegion(t)
  PROVE  IInv'
<1>1. /\ InTask(t) /\ pc[t] = "region"
      /\ pc' = [pc EXCEPT ![t] = "user"] /\ op' = [op EXCEPT ![t] = NoOp]
      /\ key' = [key EXCEPT ![t] = FALSE] /\ heldKey' = [heldKey EXCEPT ![t] = {key[t]}]
      /\ op[t].name = "lock"
      /\ UNCHANGED <<queueVars, locked, swiLocked, phase, terminatedQ, pendElem, clk>>
  BY DEF LockRegion, sleepVars
<1>2. locked /\ locked \in BOOLEAN /\ swiLocked \in BOOLEAN
  BY <1>1, InRegion DEF InLockedPart, IInv, TypeOK, KernelTypeOK, ControlTypeOK
<1>3. key[t] = FALSE
  BY <1>1 DEF IInv, LockHeldOK, RunnerOK, TypeOK
<1>4. StepOf(t, "user", NoOp, FALSE, {FALSE})
  BY <1>1, <1>3, OpFields DEF StepOf, PCs
<1>5. NamesOK(t)'
  BY <1>4, NamesNone, OpFields
<1>6. NoOp \in SimpleOps /\ NoOp.name = "none"
  BY OpFields
<1>7. QuietStepOf(t, "user", NoOp, FALSE, {FALSE})
  BY <1>1, <1>2, <1>4, <1>6 DEF QuietStepOf
<1>8. QED BY <1>5, <1>7, QuietStep

\* The application gives the lock back, with the key it was given.
LEMMA UnlockPreserves ==
  ASSUME IInv, NEW t \in Tasks, Unlock(t)
  PROVE  IInv'
<1>1. PICK k \in heldKey[t] : key' = [key EXCEPT ![t] = k]
  BY DEF Unlock
<1>2. /\ InTask(t) /\ pc[t] = "user" /\ Holding(t)
      /\ pc' = [pc EXCEPT ![t] = "restore"] /\ op' = [op EXCEPT ![t] = Op("unlock")]
      /\ heldKey' = [heldKey EXCEPT ![t] = {}]
      /\ UNCHANGED <<queueVars, locked, swiLocked, phase, terminatedQ, pendElem, clk>>
  BY DEF Unlock, sleepVars
<1>3. k = FALSE
  BY <1>1 DEF IInv, LockHeldOK
<1>4. locked /\ locked \in BOOLEAN /\ swiLocked \in BOOLEAN
  BY <1>2, InRegion DEF InLockedPart, IInv, TypeOK, KernelTypeOK, ControlTypeOK
<1>5. StepOf(t, "restore", Op("unlock"), FALSE, {})
  BY <1>1, <1>2, <1>3, OpIsSimple DEF StepOf, PCs
<1>6. Op("unlock") \in SimpleOps /\ Op("unlock").name = "unlock"
  BY OpIsSimple
<1>7. NamesOK(t)'
  BY <1>5, <1>6, NamesNone
<1>8. QuietStepOf(t, "restore", Op("unlock"), FALSE, {})
  BY <1>2, <1>4, <1>5, <1>6 DEF QuietStepOf
<1>9. QED BY <1>7, <1>8, QuietStep

\* Swi_disable by a task that finds the Swi scheduler unlocked.
LEMMA Swi_disablePreserves ==
  ASSUME IInv, NEW t \in Tasks, Swi_disable(t)
  PROVE  IInv'
<1>1. /\ InTask(t) /\ pc[t] = "user" /\ swiLocked' = TRUE
      /\ UNCHANGED <<queueVars, locked, phase, terminatedQ, pendElem, clk, pc, op, key, heldKey>>
  BY DEF Swi_disable, sleepVars, callVars
<1>2. NamesOK(t) /\ op[t] = NoOp
  BY <1>1 DEF IInv, NamesOK
<1>3. StepOf(t, "user", op[t], key[t], heldKey[t])
  BY <1>1, KeptCalls DEF StepOf, Kept, PCs
<1>4. locked <=> heldKey[t] # {}
  BY <1>1, InRegion DEF InLockedPart, Holding
<1>5. NamesOK(t)'
  BY <1>1, <1>2, <1>3, NamesNone, OpFields
<1>6. locked' \in BOOLEAN
  BY <1>1 DEF IInv, TypeOK, KernelTypeOK, ControlTypeOK
<1>7. QuietStepOf(t, "user", op[t], key[t], heldKey[t])
  BY <1>1, <1>2, <1>3, <1>4, <1>6, OpFields DEF QuietStepOf
<1>8. QED BY <1>5, <1>7, QuietStep

\* The first part of Swi_restore: from here to its Task_restore a pending
\* reschedule is its to make.
LEMMA Swi_restorePreserves ==
  ASSUME IInv, NEW t \in Tasks, Swi_restore(t)
  PROVE  IInv'
<1>1. /\ InTask(t) /\ pc[t] = "user" /\ swiLocked' = FALSE
      /\ pc' = [pc EXCEPT ![t] = "read"] /\ op' = [op EXCEPT ![t] = Op("swiRestore")]
      /\ UNCHANGED <<queueVars, locked, phase, terminatedQ, pendElem, clk, key, heldKey>>
  BY DEF Swi_restore, sleepVars
<1>2. Op("swiRestore") \in SimpleOps /\ Op("swiRestore").name = "swiRestore"
  BY OpIsSimple
<1>3. StepOf(t, "read", Op("swiRestore"), key[t], heldKey[t])
  BY <1>1, <1>2, KeptCalls DEF StepOf, Kept, PCs
<1>4. locked <=> heldKey[t] # {}
  BY <1>1, InRegion DEF InLockedPart, Holding
<1>5. NamesOK(t)'
  BY <1>2, <1>3, NamesNone
<1>6. locked' \in BOOLEAN
  BY <1>1 DEF IInv, TypeOK, KernelTypeOK, ControlTypeOK
<1>7. QuietStepOf(t, "read", Op("swiRestore"), key[t], heldKey[t])
  BY <1>1, <1>2, <1>3, <1>4, <1>6 DEF QuietStepOf
<1>8. QED BY <1>5, <1>7, QuietStep

\* The read of the Task_disable inside Swi_restore.
LEMMA ReadPreserves ==
  ASSUME IInv, NEW t \in Tasks, Read(t)
  PROVE  IInv'
<1>1. /\ InTask(t) /\ pc[t] = "read"
      /\ pc' = [pc EXCEPT ![t] = "write"] /\ key' = [key EXCEPT ![t] = locked]
      /\ UNCHANGED <<queueVars, locked, swiLocked, phase, terminatedQ, pendElem, clk, op, heldKey>>
  BY DEF Read, sleepVars
<1>2. locked \in BOOLEAN /\ swiLocked \in BOOLEAN
  BY DEF IInv, TypeOK, KernelTypeOK, ControlTypeOK
<1>3. StepOf(t, "write", op[t], locked, heldKey[t])
  BY <1>1, <1>2, KeptCalls DEF StepOf, Kept, PCs
<1>4. locked <=> heldKey[t] # {}
  BY <1>1, InRegion DEF InLockedPart, Holding
<1>5. /\ op[t].name \in {"lock", "sleep", "exit"} => heldKey[t] = {}
      /\ op[t].name \in {"sleep", "exit"} => ~swiLocked'
  BY <1>1, InRegion DEF IInv, RunnerOK, Holding
<1>6. op[t].name = "swiRestore" /\ op[t] \in SimpleOps
  BY <1>1, OpFields DEF IInv, NamesOK, TypeOK
<1>7. NamesOK(t)'
  BY <1>3, <1>6, NamesNone
<1>9. QuietStepOf(t, "write", op[t], locked, heldKey[t])
  BY <1>1, <1>2, <1>3, <1>4, <1>5, <1>6 DEF QuietStepOf
<1>10. QED BY <1>7, <1>9, QuietStep

-----------------------------------------------------------------------------
(* The regions that reschedule.                                            *)

\* A region that ends with its call about to unlock.
LEMMA RegionEnds ==
  ASSUME IInv, NEW t \in Tasks, StepOf(t, "restore", op[t], key[t], heldKey[t]),
         pc[t] = "region", op[t].name \in {"yield", "setPri", "reap"},
         UNCHANGED <<locked, swiLocked, phase>>, mode'[t] = "READY"
  PROVE  LockHeldOK' /\ RunnerOK' /\ WorkPending'
<1>1. locked' /\ (key[t] <=> heldKey[t] # {})
  <2>1. InTask(t)
    BY DEF StepOf
  <2>2. QED BY <2>1, InRegion DEF InLockedPart, IInv, LockHeldOK, Holding
<1>2. LockHeldOK'
  BY <1>1, StepLock
<1>3. WorkPending'
  BY <1>1 DEF WorkPending
<1>4. ~Leaving(t)'
  BY StepFields DEF Leaving
<1>5. RunnerOK'
  BY <1>4, StepRunner
<1>6. QED BY <1>2, <1>3, <1>5

\* What the regions of Task_yield and Task_setPri have in common.
LEMMA RescheduleRegion ==
  ASSUME IInv, NEW t \in Tasks, StepOf(t, "restore", op[t], key[t], heldKey[t]),
         pc[t] = "region", op[t].name \in {"yield", "setPri"},
         UNCHANGED <<locked, swiLocked, phase, mode, terminatedQ, pendElem, clk>>,
         QueueTypeOK', QueuesOK', workFlag' \/ UNCHANGED queueVars
  PROVE  IInv'
<1>1. InTask(t)
  BY DEF StepOf
<1>2. KernelTypeOK' /\ KernelOK'
  BY <1>1, InRegion, RegionPreserves DEF queueVars, KernelTypeOK, ControlTypeOK
<1>3. TypeOK'
  BY <1>2, StepFields DEF IInv, TypeOK
<1>4. mode'[t] = "READY"
  BY <1>1, InRegion DEF IInv, RunnerOK, Leaving
<1>5. LockHeldOK' /\ RunnerOK' /\ WorkPending'
  BY <1>4, RegionEnds
<1>6. NamesOK(t)'
  BY NamesKept
<1>7. \A v \in Tasks : NamesOK(v)'
  BY <1>6, StepNames
<1>8. SleepersOK' /\ TerminatedOK'
  BY <1>4, StepFields, StepTerminated DEF IInv, SleepersOK
<1>9. QED BY <1>2, <1>3, <1>5, <1>7, <1>8 DEF IInv, TypeOK

\* Task_yield by a task.
LEMMA YieldRegionPreserves ==
  ASSUME IInv, NEW t \in Tasks, YieldRegion(t)
  PROVE  IInv'
<1>1. /\ InTask(t) /\ pc[t] = "region" /\ op[t].name = "yield" /\ Task_yield
      /\ pc' = [pc EXCEPT ![t] = "restore"]
      /\ UNCHANGED <<locked, swiLocked, phase, terminatedQ, pendElem, clk, op, key, heldKey>>
  BY DEF YieldRegion, Region, sleepVars
<1>2. StepOf(t, "restore", op[t], key[t], heldKey[t])
  BY <1>1, KeptCalls DEF StepOf, Kept, PCs
<1>3. QueueTypeOK' /\ QueuesOK' /\ workFlag' /\ UNCHANGED mode
  BY <1>1, InRegion, Task_yieldPreserves
<1>4. QED BY <1>1, <1>2, <1>3, RescheduleRegion

\* Task_setPri by a task.
LEMMA SetPriRegionPreserves ==
  ASSUME IInv, NEW t \in Tasks, SetPriRegion(t)
  PROVE  IInv'
<1>1. /\ InTask(t) /\ pc[t] = "region" /\ op[t].name = "setPri"
      /\ Task_setPri(op[t].task, op[t].to)
      /\ pc' = [pc EXCEPT ![t] = "restore"]
      /\ UNCHANGED <<locked, swiLocked, phase, terminatedQ, pendElem, clk, op, key, heldKey>>
  BY DEF SetPriRegion, Region, sleepVars
<1>2. StepOf(t, "restore", op[t], key[t], heldKey[t])
  BY <1>1, KeptCalls DEF StepOf, Kept, PCs
<1>3. op[t].task \in Tasks /\ op[t].to \in Level
  BY <1>1, OpFields DEF IInv, TypeOK
<1>4. QueueTypeOK' /\ QueuesOK' /\ (workFlag' \/ UNCHANGED queueVars) /\ UNCHANGED mode
  BY <1>1, <1>3, InRegion, Task_setPriPreserves
<1>5. QED BY <1>1, <1>2, <1>4, RescheduleRegion

\* The deletion of the oldest terminated task, which is on no ready list.
LEMMA ReapRegionPreserves ==
  ASSUME IInv, NEW t \in Tasks, ReapRegion(t)
  PROVE  IInv'
<1>1. /\ InTask(t) /\ pc[t] = "region" /\ op[t].name = "reap"
      /\ pc' = [pc EXCEPT ![t] = "restore"]
      /\ UNCHANGED <<locked, swiLocked, phase, op, key, heldKey>>
  BY DEF ReapRegion, Region
<1>2. StepOf(t, "restore", op[t], key[t], heldKey[t])
  BY <1>1, KeptCalls DEF StepOf, Kept, PCs
<1>3. mode[t] = "READY"
  BY <1>1, InRegion DEF IInv, RunnerOK, Leaving
<1>4. op[t] \in SimpleOps
  BY <1>1, OpFields DEF IInv, TypeOK
<1>5. NamesOK(t)'
  BY <1>1, <1>2, <1>4, NamesNone
<1>6. CASE terminatedQ = <<>>
  <2>1. UNCHANGED <<queueVars, terminatedQ, pendElem, clk>>
    BY <1>6 DEF ReapRegion, sleepVars
  <2>2. locked /\ locked \in BOOLEAN /\ swiLocked \in BOOLEAN /\ (key[t] <=> heldKey[t] # {})
    BY <1>1, InRegion DEF InLockedPart, IInv, LockHeldOK, Holding, TypeOK, KernelTypeOK, ControlTypeOK
  <2>3. QuietStepOf(t, "restore", op[t], key[t], heldKey[t])
    BY <1>1, <1>2, <2>1, <2>2 DEF QuietStepOf
  <2>4. QED BY <1>5, <2>3, QuietStep
<1>7. CASE terminatedQ # <<>>
  <2> DEFINE u == Head(terminatedQ)
  <2>1. /\ u \in Tasks /\ Linked(u, terminatedQ) /\ Tail(terminatedQ) \in Seq(Tasks)
        /\ NoDuplicates(Tail(terminatedQ))
        /\ \A v \in Tasks : Linked(v, Tail(terminatedQ)) => Linked(v, terminatedQ) /\ v # u
    BY <1>7, TailElements DEF IInv, TypeOK, TerminatedOK
  <2>2. Finalize(u) /\ terminatedQ' = Tail(terminatedQ)
    BY <1>7 DEF ReapRegion
  <2> HIDE DEF u
  <2>3. mode[u] = "TERMINATED" /\ u # t /\ clk[u] = "none"
    BY <1>3, <2>1 DEF IInv, TerminatedOK, SleepersOK
  <2>4. Task_unlink(u) /\ UNCHANGED clk /\ pendElem' = [pendElem EXCEPT ![u] = "null"]
    BY <2>2, <2>3 DEF Finalize
  <2>5. QueueTypeOK' /\ QueuesOK' /\ UNCHANGED workFlag /\ curSet' \subseteq curSet
    BY <1>1, <2>1, <2>3, <2>4, InRegion, Task_unlinkPreserves
  <2>6. /\ UNCHANGED curQ
        /\ \A v \in Tasks : mode'[v] = IF v = u THEN "NONE" ELSE mode[v]
    BY <2>4 DEF Task_unlink, IInv, TypeOK, KernelTypeOK, QueueTypeOK
  <2>7. KernelTypeOK' /\ KernelOK'
    BY <1>1, <2>5, <2>6, InRegion, RegionPreserves DEF KernelTypeOK, ControlTypeOK
  <2>8. TypeOK'
    BY <1>2, <2>1, <2>2, <2>4, <2>7, StepFields DEF IInv, TypeOK
  <2>9. LockHeldOK' /\ RunnerOK' /\ WorkPending'
    BY <1>1, <1>2, <1>3, <2>3, <2>6, RegionEnds
  <2>10. \A v \in Tasks : NamesOK(v)'
    <3>1. \A v \in Tasks : mode[v] = "NONE" => mode'[v] = "NONE"
      BY <2>6
    <3>2. \A v \in Tasks : Linked(v, terminatedQ') => Linked(v, terminatedQ)
      BY <2>1, <2>2
    <3>3. QED BY <1>2, <1>5, <3>1, <3>2, StepNames
  <2>11. SleepersOK'
    <3>1. \A v \in Tasks : pendElem'[v] = IF v = u THEN "null" ELSE pendElem[v]
      BY <2>4 DEF IInv, TypeOK
    <3>2. \A v \in Tasks : op'[v] = op[v] /\ (v # t => pc'[v] = pc[v])
      BY <1>2, StepFields
    <3>3. QED BY <1>1, <2>3, <2>4, <2>6, <3>1, <3>2 DEF IInv, SleepersOK
  <2>12. TerminatedOK'
    <3>1. pc[u] = "dead"
      BY <1>1, <2>1, <2>3, InRegion DEF IInv, TerminatedOK, InLockedPart
    <3>2. \A v \in Tasks : op'[v] = op[v] /\ (v # t => pc'[v] = pc[v])
      BY <1>2, StepFields
    <3>3. QED BY <1>3, <2>1, <2>2, <2>3, <2>6, <3>1, <3>2 DEF IInv, TerminatedOK
  <2>13. QED BY <2>7, <2>8, <2>9, <2>10, <2>11, <2>12 DEF IInv, TypeOK
<1>8. QED BY <1>6, <1>7

\* The first region of Task_exit takes the running task off its ready list.
LEMMA ExitRegionPreserves ==
  ASSUME IInv, NEW t \in Tasks, ExitRegion(t)
  PROVE  IInv'
<1>1. /\ InTask(t) /\ pc[t] = "region" /\ op[t].name = "exit"
      /\ readyQ' = Unlinked(t) /\ curSet' = ClearBit(readyQ', t)
      /\ curQ' = IF curTask = t THEN NoQ ELSE curQ
      /\ mode' = [mode EXCEPT ![t] = "TERMINATED"] /\ workFlag' = TRUE
      /\ pc' = [pc EXCEPT ![t] = "exit"]
      /\ UNCHANGED <<pri, locked, swiLocked, phase, terminatedQ, pendElem, clk, op, key, heldKey>>
  BY DEF ExitRegion, Region, sleepVars
<1>2. StepOf(t, "exit", op[t], key[t], heldKey[t])
  BY <1>1, KeptCalls DEF StepOf, Kept, PCs
<1>3. mode[t] = "READY" /\ op[t] \in SimpleOps
  BY <1>1, InRegion, OpFields DEF IInv, RunnerOK, Leaving, TypeOK
<1>4. QueueTypeOK' /\ QueuesOK' /\ workFlag'
  BY <1>1, <1>3, InRegion, LeaveReadyList DEF Modes
<1>5. KernelTypeOK' /\ KernelOK'
  BY <1>1, <1>4, InRegion, RegionPreserves DEF KernelTypeOK, ControlTypeOK
<1>6. TypeOK'
  BY <1>1, <1>2, <1>5, StepFields DEF IInv, TypeOK
<1>7. \A v \in Tasks : mode'[v] = IF v = t THEN "TERMINATED" ELSE mode[v]
  BY <1>1 DEF IInv, TypeOK, KernelTypeOK, QueueTypeOK
<1>8. locked' /\ (key[t] <=> heldKey[t] # {}) /\ heldKey[t] = {} /\ ~swiLocked'
  BY <1>1, InRegion DEF InLockedPart, IInv, LockHeldOK, RunnerOK, Holding
<1>9. LockHeldOK'
  BY <1>1, <1>2, <1>8, StepLock
<1>10. RunnerOK'
  <2>1. Leaving(t)'
    BY <1>2, StepFields DEF Leaving
  <2>2. QED BY <1>2, <1>4, <1>8, <2>1, StepRunner
<1>11. WorkPending'
  BY <1>8 DEF WorkPending
<1>12. ~Linked(t, terminatedQ)
  BY <1>3 DEF IInv, TerminatedOK
<1>13. NamesOK(t)'
  <2>1. pc'[t] = "exit" /\ op'[t] = op[t] /\ op[t] \notin TaskOps
    BY <1>2, <1>3, StepFields, OpFields
  <2>2. QED BY <1>1, <1>7, <1>12, <2>1 DEF NamesOK
<1>14. \A v \in Tasks : NamesOK(v)'
  BY <1>1, <1>2, <1>3, <1>7, <1>13, StepNames
<1>15. SleepersOK' /\ TerminatedOK'
  BY <1>1, <1>3, <1>7, <1>12 DEF IInv, SleepersOK, TerminatedOK, TypeOK
<1>16. QED BY <1>5, <1>6, <1>9, <1>10, <1>11, <1>14, <1>15 DEF IInv, TypeOK

\* The second region of Task_exit: the task is not on terminatedQ yet.
LEMMA ExitTerminatedPreserves ==
  ASSUME IInv, NEW t \in Tasks, ExitTerminated(t)
  PROVE  IInv'
<1>1. /\ InTask(t) /\ pc[t] = "exit"
      /\ terminatedQ' = IF DeleteTerminated THEN Append(terminatedQ, t) ELSE terminatedQ
      /\ pc' = [pc EXCEPT ![t] = "restore"]
      /\ UNCHANGED <<queueVars, locked, swiLocked, phase, pendElem, clk, op, key, heldKey>>
  BY DEF ExitTerminated, sleepVars
<1>2. StepOf(t, "restore", op[t], key[t], heldKey[t])
  BY <1>1, KeptCalls DEF StepOf, Kept, PCs
<1>3. op[t].name = "exit" /\ ~Linked(t, terminatedQ) /\ op[t] \in SimpleOps
  BY <1>1, OpFields DEF IInv, NamesOK, TypeOK
<1>4. locked /\ locked' /\ (key[t] <=> heldKey[t] # {}) /\ heldKey[t] = {} /\ ~swiLocked'
  BY <1>1, <1>3, InRegion DEF InLockedPart, IInv, LockHeldOK, RunnerOK, Holding
<1>5. workFlag /\ UNCHANGED <<mode, workFlag>>
  BY <1>1, InRegion DEF IInv, RunnerOK, Leaving, queueVars
<1>6. mode[t] = "TERMINATED"
  BY <1>1 DEF IInv, NamesOK
<1>7. /\ terminatedQ' \in Seq(Tasks) /\ NoDuplicates(terminatedQ')
      /\ \A u \in Tasks : Linked(u, terminatedQ') =>
            Linked(u, terminatedQ) \/ (u = t /\ DeleteTerminated)
  BY <1>1, <1>3, AppendElement DEF IInv, TypeOK, TerminatedOK
<1>8. KernelTypeOK' /\ KernelOK'
  BY <1>1, QuietRegion DEF IInv, TypeOK, KernelTypeOK, ControlTypeOK
<1>9. TypeOK'
  BY <1>1, <1>2, <1>7, <1>8, StepFields DEF IInv, TypeOK
<1>10. LockHeldOK'
  BY <1>1, <1>2, <1>4, StepLock
<1>11. RunnerOK'
  <2>1. Leaving(t)'
    BY <1>2, <1>3, StepFields DEF Leaving
  <2>2. QED BY <1>2, <1>4, <1>5, <2>1, StepRunner
<1>12. WorkPending'
  BY <1>4 DEF WorkPending
<1>13. NamesOK(t)'
  BY <1>2, <1>3, NamesNone
<1>14. \A v \in Tasks : NamesOK(v)'
  BY <1>2, <1>3, <1>5, <1>7, <1>13, StepNames
<1>15. SleepersOK'
  BY <1>1, <1>5, StepFields, <1>2 DEF IInv, SleepersOK
<1>16. TerminatedOK'
  <2>1. \A v \in Tasks : /\ pc'[v] = IF v = t THEN "restore" ELSE pc[v]
                         /\ op'[v] = op[v]
    BY <1>2, StepFields
  <2>2. QED BY <1>3, <1>5, <1>6, <1>7, <2>1 DEF IInv, TerminatedOK
<1>17. QED BY <1>8, <1>9, <1>10, <1>11, <1>12, <1>14, <1>15, <1>16 DEF IInv, TypeOK

\* Task_sleep up to Task_restore: the caller blocks with its Clock object armed.
LEMMA SleepRegionPreserves ==
  ASSUME IInv, NEW t \in Tasks, SleepRegion(t)
  PROVE  IInv'
<1>1. /\ InTask(t) /\ pc[t] = "user" /\ ~Holding(t) /\ ~locked /\ ~swiLocked
      /\ Task_blockI(t) /\ locked' = TRUE
      /\ clk' = [clk EXCEPT ![t] = "active"] /\ pendElem' = [pendElem EXCEPT ![t] = "timed"]
      /\ key' = [key EXCEPT ![t] = locked]
      /\ op' = [op EXCEPT ![t] = Op("sleep")] /\ pc' = [pc EXCEPT ![t] = "restore"]
      /\ UNCHANGED <<swiLocked, phase, terminatedQ, heldKey>>
  BY DEF SleepRegion, Task_enabled, Swi_enabled
<1>2. locked = FALSE /\ heldKey[t] = {} /\ Op("sleep") \in SimpleOps /\ Op("sleep").name = "sleep"
  BY <1>1, OpIsSimple DEF Holding, IInv, TypeOK, KernelTypeOK, ControlTypeOK
<1>3. StepOf(t, "restore", Op("sleep"), FALSE, {})
  BY <1>1, <1>2, KeptCalls DEF StepOf, Kept, PCs
<1>4. mode[t] = "READY"
  BY <1>1, InRegion DEF IInv, RunnerOK, Leaving
<1>5. QueueTypeOK' /\ QueuesOK' /\ workFlag'
  BY <1>1, <1>4, InRegion, LeaveReadyList DEF Modes, Task_blockI
<1>6. KernelTypeOK' /\ KernelOK'
  BY <1>1, <1>5, InRegion, RegionPreserves DEF KernelTypeOK, ControlTypeOK
<1>7. TypeOK'
  BY <1>1, <1>3, <1>6, StepFields DEF IInv, TypeOK
<1>8. \A v \in Tasks : mode'[v] = IF v = t THEN "BLOCKED" ELSE mode[v]
  BY <1>1 DEF IInv, TypeOK, KernelTypeOK, QueueTypeOK, Task_blockI
<1>9. LockHeldOK'
  BY <1>1, <1>3, StepLock
<1>10. RunnerOK'
  <2>1. Leaving(t)'
    BY <1>2, <1>3, StepFields DEF Leaving
  <2>2. QED BY <1>1, <1>3, <1>5, <2>1, StepRunner
<1>11. WorkPending'
  BY <1>1 DEF WorkPending
<1>12. NamesOK(t)'
  BY <1>2, <1>3, NamesNone
<1>13. \A v \in Tasks : NamesOK(v)'
  BY <1>1, <1>2, <1>3, <1>4, <1>8, <1>12, StepNames
<1>14. SleepersOK'
  BY <1>1, <1>2, <1>3, <1>8, StepFields DEF IInv, SleepersOK, TypeOK
<1>15. TerminatedOK'
  BY <1>1, <1>3, <1>4, <1>8, StepTerminated
<1>16. QED BY <1>6, <1>7, <1>9, <1>10, <1>11, <1>13, <1>14, <1>15 DEF IInv, TypeOK

-----------------------------------------------------------------------------
(* The end of a call, and the rest of Task_sleep.                          *)

\* Task_restore at the end of any call, among them the last step of Task_exit
\* and the one that blocks in Task_sleep.
LEMMA RestoreOfCallPreserves ==
  ASSUME IInv, NEW t \in Tasks, Restore(t)
  PROVE  IInv'
<1> DEFINE p == CASE op[t].name = "sleep" -> "wake"
                  [] op[t].name = "exit" -> "dead"
                  [] OTHER -> "user"
<1>1. /\ InTask(t) /\ pc[t] = "restore" /\ Task_restore(key[t])
      /\ pc' = [pc EXCEPT ![t] = p]
      /\ op' = [op EXCEPT ![t] = NoOp] /\ key' = [key EXCEPT ![t] = FALSE]
      /\ UNCHANGED <<queueVars, swiLocked, terminatedQ, pendElem, clk, heldKey>>
  BY DEF Restore, sleepVars
<1>2. /\ p \in {"user", "wake", "dead"}
      /\ p = "user" <=> op[t].name \notin {"sleep", "exit"}
      /\ op[t].name = "sleep" => p = "wake"
  OBVIOUS
<1> HIDE DEF p
<1>3. StepOf(t, p, NoOp, FALSE, heldKey[t])
  BY <1>1, <1>2, KeptCalls, OpFields DEF StepOf, Kept, PCs
<1>3a. \A u \in Tasks :
          /\ pc'[u] = IF u = t THEN p ELSE pc[u]
          /\ op'[u] = IF u = t THEN NoOp ELSE op[u]
          /\ key'[u] = IF u = t THEN FALSE ELSE key[u]
          /\ heldKey'[u] = heldKey[u]
  BY <1>1, <1>3, StepFields
<1>4. locked /\ (key[t] <=> heldKey[t] # {}) /\ key[t] \in BOOLEAN
  BY <1>1, InRegion DEF InLockedPart, IInv, LockHeldOK, Holding, TypeOK
<1>5. KernelTypeOK' /\ KernelOK'
  BY <1>1, <1>4, InRegion, RestorePreserves
<1>6. TypeOK'
  BY <1>1, <1>3, <1>5, StepFields DEF IInv, TypeOK
<1>7. UNCHANGED <<mode, workFlag>>
  BY <1>1 DEF queueVars
<1>8. \/ heldKey[t] # {} /\ UNCHANGED <<phase, locked>>
      \/ heldKey[t] = {} /\ workFlag /\ ~swiLocked /\ phase' = "pick" /\ UNCHANGED locked
      \/ heldKey[t] = {} /\ ~(workFlag /\ ~swiLocked) /\ UNCHANGED phase /\ locked' = FALSE
  BY <1>1, <1>4 DEF Task_restore, Swi_enabled
<1>9. p # "user" => phase' = "pick"
  BY <1>1, <1>2, <1>8, InRegion DEF IInv, RunnerOK, Leaving, Holding
<1>10. ASSUME phase' = "pick" PROVE LockHeldOK' /\ WorkPending' /\ RunnerOK'
  <2>1. /\ running' = t /\ ~isr' /\ heldKey[t] = {}
        /\ \A u \in Tasks \ {t} : ~InLockedPart(u)
    BY <1>1, <1>8, <1>10, InRegion
  <2>2. \A u \in Tasks : /\ ~InLockedPart(u)' /\ ~Leaving(u)'
                         /\ (Holding(u)' <=> Holding(u))
    <3>1. ASSUME NEW u \in Tasks, u # t PROVE ~InLockedPart(u)' /\ (Holding(u)' <=> Holding(u))
      BY <1>1, <1>3a, <2>1, <3>1 DEF InLockedPart, Holding
    <3>2. ~InLockedPart(t)' /\ (Holding(t)' <=> Holding(t))
      BY <1>1, <1>2, <1>3a, <2>1 DEF InLockedPart, Holding
    <3>3. QED BY <3>1, <3>2 DEF Leaving, InLockedPart
  <2>3. LockHeldOK'
    <3>1. \A u \in Tasks : u # t => key'[u] = key[u] /\ pc'[u] = pc[u]
      BY <1>3a
    <3>2. pc'[t] \notin {"write", "region", "exit", "restore"}
      BY <1>2, <1>3a
    <3>3. QED BY <1>1, <1>10, <2>2, <3>1, <3>2 DEF IInv, LockHeldOK
  <2>4. WorkPending'
    BY <1>10 DEF WorkPending
  <2>5. RunnerOK'
    <3>1. \A u \in Tasks : op'[u].name = IF u = t THEN "none" ELSE op[u].name
      BY <1>3a, OpFields
    <3>2. \A u \in Tasks : op[u].name \in {"lock", "sleep", "exit"} => ~Holding(u)
      BY DEF IInv, RunnerOK
    <3>3. \A u \in Tasks : op'[u].name \in {"lock", "sleep", "exit"} => ~Holding(u)'
      BY <2>2, <3>1, <3>2
    <3>4. QED BY <1>10, <2>2, <3>3 DEF RunnerOK
  <2>6. QED BY <2>3, <2>4, <2>5
<1>11. ASSUME phase' # "pick" PROVE LockHeldOK' /\ WorkPending' /\ RunnerOK'
  <2>1. /\ p = "user" /\ UNCHANGED phase /\ (locked' <=> heldKey[t] # {})
        /\ (~locked' /\ workFlag => swiLocked)
    BY <1>4, <1>8, <1>9, <1>11
  <2>2. mode'[t] = "READY" /\ running' = t
    BY <1>1, <1>2, <1>7, <2>1, InRegion DEF IInv, RunnerOK, Leaving
  <2>3. LockHeldOK'
    BY <1>3, <2>1, StepLock
  <2>4. ~Leaving(t)'
    BY <1>3a, <2>1 DEF Leaving
  <2>5. RunnerOK'
    BY <1>3, <2>2, <2>4, StepRunner, OpFields
  <2>6. WorkPending'
    BY <1>1, <1>7, <2>1 DEF WorkPending
  <2>7. QED BY <2>3, <2>5, <2>6
<1>12. NamesOK(t)'
  BY <1>2, <1>3, NamesNone, OpFields
<1>13. \A v \in Tasks : NamesOK(v)'
  BY <1>1, <1>3, <1>7, <1>12, StepNames, OpFields
<1>14. SleepersOK'
  <2>1. ASSUME NEW v \in Tasks, clk[v] # "none"
        PROVE  pc'[v] = "wake" \/ (pc'[v] = "restore" /\ op'[v].name = "sleep")
    <3>1. pc[v] = "wake" \/ (pc[v] = "restore" /\ op[v].name = "sleep")
      BY <2>1 DEF IInv, SleepersOK
    <3>2. CASE v = t
      BY <1>1, <1>2, <1>3a, <3>1, <3>2
    <3>3. CASE v # t
      BY <1>3a, <3>1, <3>3
    <3>4. QED BY <3>2, <3>3
  <2>2. QED BY <1>1, <1>7, <2>1 DEF IInv, SleepersOK
<1>15. TerminatedOK'
  <2>1. mode[t] = "TERMINATED" => p = "dead"
    BY <1>1 DEF IInv, TerminatedOK, p
  <2>2. mode[t] # "NONE"
    BY <1>1 DEF IInv, TerminatedOK
  <2>3. NoDuplicates(terminatedQ')
    BY <1>1 DEF IInv, TerminatedOK
  <2>4. ASSUME NEW v \in Tasks
        PROVE  /\ Linked(v, terminatedQ') => DeleteTerminated /\ mode'[v] = "TERMINATED"
               /\ mode'[v] = "TERMINATED" =>
                    pc'[v] \in {"exit", "dead"} \/ (pc'[v] = "restore" /\ op'[v].name = "exit")
               /\ mode'[v] = "NONE" => pc'[v] = "dead"
    <3>1. CASE v = t
      BY <1>1, <1>3a, <1>7, <2>1, <2>2, <3>1 DEF IInv, TerminatedOK
    <3>2. CASE v # t
      BY <1>1, <1>3a, <1>7, <3>2 DEF IInv, TerminatedOK
    <3>3. QED BY <3>1, <3>2
  <2>5. QED BY <2>3, <2>4 DEF TerminatedOK
<1>16. QED BY <1>5, <1>6, <1>10, <1>11, <1>13, <1>14, <1>15 DEF IInv, TypeOK

\* A sleeper that runs again, its Clock object expired.
Awake(t, p) ==
  /\ InTask(t)
  /\ <<pc[t], p>> \in {<<"wake", "woken">>, <<"woken", "user">>}
  /\ pc' = [pc EXCEPT ![t] = p]
  /\ clk' = [clk EXCEPT ![t] = "none"]
  /\ pendElem' \in [Tasks -> {"null", "timed", "bare"}]
  /\ \A u \in Tasks \ {t} : pendElem'[u] = pendElem[u]
  /\ UNCHANGED <<queueVars, locked, swiLocked, phase, terminatedQ, op, key, heldKey>>

\* The steps after a sleep preserve IInv.
LEMMA AwakePreserves ==
  ASSUME IInv, NEW t \in Tasks, NEW p, Awake(t, p)
  PROVE  IInv'
<1> USE DEF Awake
<1>1. op[t] = NoOp
  BY DEF IInv, NamesOK
<1>2. StepOf(t, p, NoOp, key[t], heldKey[t])
  BY <1>1, KeptCalls, OpFields DEF StepOf, Kept, PCs
<1>3. KernelTypeOK' /\ KernelOK'
  BY QuietRegion DEF IInv, TypeOK, KernelTypeOK, ControlTypeOK
<1>4. TypeOK'
  BY <1>2, <1>3, StepFields DEF IInv, TypeOK
<1>5. UNCHANGED <<mode, workFlag>>
  BY DEF queueVars
<1>6. mode[t] = "READY" /\ (locked <=> heldKey[t] # {}) /\ running' = t
  BY InRegion DEF IInv, RunnerOK, Leaving, InLockedPart, Holding
<1>7. LockHeldOK'
  BY <1>2, <1>6, StepLock
<1>8. ~Leaving(t)'
  BY <1>2, StepFields DEF Leaving
<1>9. RunnerOK'
  BY <1>2, <1>5, <1>6, <1>8, StepRunner, OpFields
<1>10. WorkPending'
  BY <1>5, <1>6, InRegion DEF IInv, WorkPending
<1>11. NamesOK(t)'
  BY <1>2, NamesNone, OpFields
<1>12. \A v \in Tasks : NamesOK(v)'
  BY <1>2, <1>5, <1>11, StepNames, OpFields
<1>13. \A v \in Tasks : /\ clk'[v] = IF v = t THEN "none" ELSE clk[v]
                        /\ v # t => pendElem'[v] = pendElem[v]
  BY DEF IInv, TypeOK
<1>14. SleepersOK'
  BY <1>2, <1>5, <1>6, <1>13, StepFields DEF IInv, SleepersOK
<1>15. TerminatedOK'
  BY <1>2, <1>5, <1>6, StepTerminated
<1>16. QED BY <1>3, <1>4, <1>7, <1>9, <1>10, <1>12, <1>14, <1>15 DEF IInv, TypeOK

\* The first of them: the Clock object leaves the Clock queue.
LEMMA WakePreserves ==
  ASSUME IInv, NEW t \in Tasks, Wake(t)
  PROVE  IInv'
<1>1. /\ pendElem' \in [Tasks -> {"null", "timed", "bare"}]
      /\ \A u \in Tasks \ {t} : pendElem'[u] = pendElem[u]
  BY DEF Wake, IInv, TypeOK
<1>2. /\ InTask(t) /\ pc[t] = "wake" /\ pc' = [pc EXCEPT ![t] = "woken"]
      /\ clk' = [clk EXCEPT ![t] = "none"]
      /\ UNCHANGED <<queueVars, locked, swiLocked, phase, terminatedQ, op, key, heldKey>>
  BY DEF Wake
<1>3. Awake(t, "woken")
  BY <1>1, <1>2 DEF Awake
<1>4. QED BY <1>3, AwakePreserves

\* The second: the pend element goes.
LEMMA WokenPreserves ==
  ASSUME IInv, NEW t \in Tasks, Woken(t)
  PROVE  IInv'
<1>1. clk' = [clk EXCEPT ![t] = "none"]
  <2>1. clk[t] = "none" /\ clk \in [Tasks -> {"none", "active", "expired"}] /\ clk' = clk
    BY DEF Woken, IInv, SleepersOK, TypeOK
  <2>2. QED BY <2>1
<1>2. Awake(t, "user")
  BY <1>1 DEF Woken, Awake, IInv, TypeOK
<1>3. QED BY <1>2, AwakePreserves

-----------------------------------------------------------------------------
(* Creation and deletion.                                                  *)

\* Task_create: the new task is named by nobody else and joins the ready list
\* of its priority.
LEMMA CreateRegionPreserves ==
  ASSUME IInv, NEW t \in Tasks, CreateRegion(t)
  PROVE  IInv'
<1> DEFINE u == op[t].task
           p == op[t].to
<1>1. /\ InTask(t) /\ pc[t] = "region" /\ op[t].name = "create"
      /\ Readied(u, p) /\ pri' = [pri EXCEPT ![u] = p]
      /\ workFlag' = (workFlag \/ p # Inactive)
      /\ pc' = [pc EXCEPT ![u] = "user", ![t] = "restore"]
      /\ heldKey' = [heldKey EXCEPT ![u] = {}]
      /\ UNCHANGED <<curQ, locked, swiLocked, phase, terminatedQ, pendElem, clk, op, key>>
  BY DEF CreateRegion, sleepVars
<1>2. u \in Tasks /\ p \in Level /\ op[t] \in TaskOps
  BY <1>1, OpFields DEF IInv, TypeOK
<1>3. u # t /\ mode[u] = "NONE" /\ mode[t] = "READY"
  <2>1. NamesOK(t)
    BY DEF IInv
  <2>2. QED BY <1>1, <2>1, InRegion DEF NamesOK, IInv, RunnerOK, Leaving
<1> HIDE DEF u, p
<1>4. /\ readyQ' \in [Level -> Seq(Tasks)] /\ curSet' \in SUBSET Priority
      /\ mode' \in [Tasks -> Modes] /\ pri' \in [Tasks -> Level]
      /\ ReadyListsOK' /\ CurSetOK'
      /\ \A l \in Level : readyQ[l] # <<>> =>
           readyQ'[l] # <<>> /\ Head(readyQ'[l]) = Head(readyQ[l])
  BY <1>1, <1>2, <1>3, InRegion, ReadiedLists DEF QueuesOK
<1>5. QueueTypeOK' /\ QueuesOK'
  BY <1>1, <1>4, InRegion, CurQKept DEF QueuesOK, QueueTypeOK
<1>6. workFlag' \/ (UNCHANGED <<curQ, workFlag>> /\ curSet' \subseteq curSet)
  BY <1>1, InRegion DEF Readied, Mask, QueueTypeOK
<1>7. KernelTypeOK' /\ KernelOK'
  BY <1>1, <1>5, <1>6, InRegion, RegionPreserves DEF KernelTypeOK, ControlTypeOK
<1>8. \A v \in Tasks :
        /\ pc'[v] = IF v = t THEN "restore" ELSE IF v = u THEN "user" ELSE pc[v]
        /\ heldKey'[v] = IF v = u THEN {} ELSE heldKey[v]
        /\ mode'[v] = IF v = u THEN "READY" ELSE mode[v]
  BY <1>1, <1>2, <1>3, InRegion DEF IInv, TypeOK, Readied, QueueTypeOK
<1>9. TypeOK'
  BY <1>1, <1>7 DEF IInv, TypeOK, PCs
<1>10. op[u] = NoOp
  BY <1>2, <1>3 DEF IInv, TerminatedOK, NamesOK
<1>11. LockHeldOK'
  <2>1. locked /\ (key[t] <=> Holding(t)) /\ InLockedPart(t)'
    BY <1>1, <1>8, InRegion DEF InLockedPart, IInv, LockHeldOK
  <2>2. \A v \in Tasks \ {t} : ~InLockedPart(v)'
    BY <1>1, <1>8, InRegion DEF InLockedPart, Holding
  <2>3. \A v \in Tasks : v # u => (Holding(v)' <=> Holding(v))
    BY <1>8 DEF Holding
  <2>4. ASSUME NEW v \in Tasks
        PROVE  /\ heldKey'[v] \subseteq {FALSE}
               /\ pc'[v] \in {"write", "region", "exit", "restore"} => (key'[v] <=> Holding(v)')
    <3>1. CASE v = u
      BY <1>3, <1>8, <3>1
    <3>2. CASE v = t
      BY <1>1, <1>3, <1>8, <2>1, <2>3, <3>2 DEF IInv, LockHeldOK
    <3>3. CASE v # u /\ v # t
      BY <1>1, <1>8, <2>3, <3>3 DEF IInv, LockHeldOK
    <3>4. QED BY <3>1, <3>2, <3>3
  <2>5. running' = t /\ ~isr' /\ phase' = "user" /\ locked'
    BY <1>1, <2>1, InRegion
  <2>6. QED BY <2>1, <2>2, <2>4, <2>5 DEF LockHeldOK
<1>12. WorkPending' /\ RunnerOK'
  <2>1. locked' /\ running' = t /\ mode'[t] = "READY"
    BY <1>1, <1>3, <1>8, InRegion DEF InLockedPart
  <2>2. ASSUME NEW v \in Tasks PROVE ~Leaving(v)'
    <3>1. CASE v = t \/ v = u
      <4>1. op'[t].name = "create" /\ pc'[u] = "user" /\ pc'[t] = "restore"
        BY <1>1, <1>2, <1>3, <1>8
      <4>2. QED BY <3>1, <4>1 DEF Leaving
    <3>2. CASE v # t /\ v # u
      <4>1. ~Leaving(v)
        BY <1>1, <3>2, InRegion
      <4>2. QED BY <1>1, <1>8, <3>2, <4>1 DEF Leaving
    <3>3. QED BY <3>1, <3>2
  <2>3. \A v \in Tasks : Holding(v)' => Holding(v)
    BY <1>8 DEF Holding
  <2>4. QED BY <1>1, <2>1, <2>2, <2>3, InRegion DEF IInv, WorkPending, RunnerOK
<1>13. ASSUME NEW v \in Tasks PROVE NamesOK(v)'
  <2>1. NamesOK(v) /\ (op[v] \in TaskOps => op[v].task \in Tasks)
    BY OpFields DEF IInv
  <2>2. op[v].name = "create" => op[v] \in TaskOps
    BY OpFields DEF IInv, TypeOK
  <2>3. CASE v = t
    <3>1. pc'[v] = "restore" /\ op'[v] = op[v] /\ op[v].name = "create"
      BY <1>1, <1>8, <2>3
    <3>2. \A w \in Tasks : op'[w] = op[w]
      BY <1>1
    <3>3. QED BY <2>1, <3>1, <3>2 DEF NamesOK
  <2>4. CASE v = u
    <3>1. pc'[v] = "user" /\ op'[v] = NoOp
      BY <1>1, <1>3, <1>8, <1>10, <2>4
    <3>2. QED BY <3>1, OpFields DEF NamesOK
  <2>5. CASE v # t /\ v # u
    <3>1. op[v].name = "create" => op[v].task # u
      <4>1. NamesOK(t)
        BY DEF IInv
      <4>2. QED BY <1>2, <2>2, <2>5, <4>1 DEF NamesOK, Names, u
    <3>2. op[v].name = "create" => mode'[op[v].task] = mode[op[v].task]
      BY <1>8, <2>1, <2>2, <3>1
    <3>3. QED BY <1>1, <1>8, <2>1, <2>5, <3>2 DEF NamesOK
  <2>6. QED BY <2>3, <2>4, <2>5
<1>14. SleepersOK'
  <2>1. clk[u] = "none"
    BY <1>2, <1>3 DEF IInv, SleepersOK
  <2>2. clk[t] = "none"
    BY <1>1 DEF IInv, SleepersOK
  <2>3. ASSUME NEW v \in Tasks
        PROVE  /\ clk'[v] = "active" <=> mode'[v] = "BLOCKED"
               /\ clk'[v] # "none" =>
                    /\ pendElem'[v] = "timed"
                    /\ pc'[v] = "wake" \/ (pc'[v] = "restore" /\ op'[v].name = "sleep")
               /\ mode'[v] \in {"TERMINATED", "NONE"} => clk'[v] = "none"
    <3>1. CASE v = u \/ v = t
      BY <1>1, <1>3, <1>8, <2>1, <2>2, <3>1
    <3>2. CASE v # u /\ v # t
      BY <1>1, <1>8, <3>2 DEF IInv, SleepersOK
    <3>3. QED BY <3>1, <3>2
  <2>4. QED BY <2>3 DEF SleepersOK
<1>15. TerminatedOK'
  <2>1. NoDuplicates(terminatedQ')
    BY <1>1 DEF IInv, TerminatedOK
  <2>2. ASSUME NEW v \in Tasks
        PROVE  /\ Linked(v, terminatedQ') => DeleteTerminated /\ mode'[v] = "TERMINATED"
               /\ mode'[v] = "TERMINATED" =>
                    pc'[v] \in {"exit", "dead"} \/ (pc'[v] = "restore" /\ op'[v].name = "exit")
               /\ mode'[v] = "NONE" => pc'[v] = "dead"
    <3>1. CASE v = u \/ v = t
      BY <1>1, <1>2, <1>3, <1>8, <3>1 DEF IInv, TerminatedOK
    <3>2. CASE v # u /\ v # t
      BY <1>1, <1>8, <3>2 DEF IInv, TerminatedOK
    <3>3. QED BY <3>1, <3>2
  <2>3. QED BY <2>1, <2>2 DEF TerminatedOK
<1>16. QED BY <1>7, <1>9, <1>11, <1>12, <1>13, <1>14, <1>15 DEF IInv, TypeOK

\* Task_delete: the deleted task leaves its list and its calls, and no other
\* task names it.
LEMMA DeleteRegionPreserves ==
  ASSUME IInv, NEW t \in Tasks, DeleteRegion(t)
  PROVE  IInv'
<1> DEFINE u == op[t].task
<1>1. /\ InTask(t) /\ pc[t] = "region" /\ op[t].name = "delete"
      /\ Finalize(u)
      /\ pc' = [pc EXCEPT ![u] = "dead", ![t] = "restore"]
      /\ op' = [op EXCEPT ![u] = NoOp]
      /\ UNCHANGED <<locked, swiLocked, phase, terminatedQ, key, heldKey>>
  BY DEF DeleteRegion
<1>2. u \in Tasks /\ op[t] \in TaskOps
  BY <1>1, OpFields DEF IInv, TypeOK
<1>3. u # t /\ ~Linked(u, terminatedQ) /\ mode[t] = "READY"
  <2>1. NamesOK(t)
    BY DEF IInv
  <2>2. QED BY <1>1, <2>1, InRegion DEF NamesOK, IInv, RunnerOK, Leaving
<1> HIDE DEF u
<1>4. clk' = [clk EXCEPT ![u] = "none"] /\ pendElem' = [pendElem EXCEPT ![u] = "null"]
  <2>1. CASE mode[u] \in {"READY", "BLOCKED"} /\ pendElem[u] = "timed"
    BY <1>1, <2>1 DEF Finalize
  <2>2. CASE ~(mode[u] \in {"READY", "BLOCKED"} /\ pendElem[u] = "timed")
    <3>1. mode[u] \in Modes /\ clk \in [Tasks -> {"none", "active", "expired"}]
      BY <1>2 DEF IInv, TypeOK, KernelTypeOK, QueueTypeOK
    <3>2. clk[u] = "none"
      BY <1>2, <2>2, <3>1 DEF IInv, SleepersOK, Modes
    <3>3. clk' = clk /\ pendElem' = [pendElem EXCEPT ![u] = "null"]
      BY <1>1, <2>2 DEF Finalize
    <3>4. QED BY <3>1, <3>2, <3>3
  <2>3. QED BY <2>1, <2>2
<1>5. Task_unlink(u)
  BY <1>1 DEF Finalize
<1>6. QueueTypeOK' /\ QueuesOK' /\ UNCHANGED <<workFlag, curQ>> /\ curSet' \subseteq curSet
  BY <1>1, <1>2, <1>3, <1>5, InRegion, Task_unlinkPreserves DEF Task_unlink
<1>7. KernelTypeOK' /\ KernelOK'
  BY <1>1, <1>6, InRegion, RegionPreserves DEF KernelTypeOK, ControlTypeOK
<1>8. \A v \in Tasks :
        /\ pc'[v] = IF v = t THEN "restore" ELSE IF v = u THEN "dead" ELSE pc[v]
        /\ op'[v] = IF v = u THEN NoOp ELSE op[v]
        /\ mode'[v] = IF v = u THEN "NONE" ELSE mode[v]
        /\ clk'[v] = IF v = u THEN "none" ELSE clk[v]
        /\ pendElem'[v] = IF v = u THEN "null" ELSE pendElem[v]
  BY <1>1, <1>2, <1>3, <1>4, <1>5, InRegion DEF IInv, TypeOK, Task_unlink, QueueTypeOK
<1>9. TypeOK'
  BY <1>1, <1>4, <1>7, OpFields DEF IInv, TypeOK, PCs
<1>10. \A v \in Tasks : Holding(v)' <=> Holding(v)
  BY <1>1 DEF Holding
<1>11. LockHeldOK'
  <2>1. locked /\ InLockedPart(t)'
    BY <1>1, <1>8, InRegion DEF InLockedPart
  <2>2. \A v \in Tasks \ {t} : ~InLockedPart(v)'
    <3>1. TAKE v \in Tasks \ {t}
    <3>2. ~InLockedPart(v)
      BY <1>1, InRegion
    <3>3. QED BY <1>8, <1>10, <3>2 DEF InLockedPart
  <2>3. ASSUME NEW v \in Tasks
        PROVE  /\ heldKey'[v] \subseteq {FALSE}
               /\ pc'[v] \in {"write", "region", "exit", "restore"} => (key'[v] <=> Holding(v)')
    <3>1. heldKey'[v] = heldKey[v] /\ key'[v] = key[v]
      BY <1>1
    <3>2. CASE v = t
      BY <1>1, <1>10, <3>1, <3>2 DEF IInv, LockHeldOK
    <3>3. CASE v = u
      <4>1. pc'[v] = "dead"
        BY <1>3, <1>8, <3>3
      <4>2. QED BY <3>1, <4>1 DEF IInv, LockHeldOK
    <3>4. CASE v # t /\ v # u
      <4>1. pc'[v] = pc[v]
        BY <1>8, <3>4
      <4>2. QED BY <1>10, <3>1, <4>1 DEF IInv, LockHeldOK
    <3>5. QED BY <3>2, <3>3, <3>4
  <2>4. running' = t /\ ~isr' /\ phase' = "user" /\ locked'
    BY <1>1, <2>1, InRegion
  <2>5. QED BY <2>1, <2>2, <2>3, <2>4 DEF LockHeldOK
<1>12. WorkPending' /\ RunnerOK'
  <2>1. locked' /\ running' = t /\ mode'[t] = "READY" /\ op'[t] = op[t]
    BY <1>1, <1>3, <1>8, InRegion DEF InLockedPart
  <2>2. \A v \in Tasks : ~Leaving(v)'
    <3>1. TAKE v \in Tasks
    <3>2. v # t => ~Leaving(v)
      BY <1>1, InRegion
    <3>3. v # t /\ v # u => pc'[v] = pc[v] /\ op'[v] = op[v]
      BY <1>8
    <3>4. op'[t].name = "delete" /\ pc'[t] = "restore" /\ pc'[u] = "dead"
      BY <1>1, <1>2, <1>3, <1>8
    <3>5. QED BY <3>2, <3>3, <3>4 DEF Leaving
  <2>3. ASSUME NEW v \in Tasks PROVE op'[v].name \in {"lock", "sleep", "exit"} => ~Holding(v)'
    BY <1>8, <1>10, OpFields DEF IInv, RunnerOK
  <2>4. QED BY <1>1, <2>1, <2>2, <2>3 DEF WorkPending, RunnerOK
<1>13. ASSUME NEW v \in Tasks PROVE NamesOK(v)'
  <2>1. NamesOK(v) /\ (op[v] \in TaskOps => op[v].task \in Tasks)
    BY OpFields DEF IInv
  <2>2. op[v].name = "create" => op[v] \in TaskOps
    BY OpFields DEF IInv, TypeOK
  <2>3. NoOp \notin TaskOps /\ NoOp.name = "none"
    BY OpFields
  <2>4. op[v] \in TaskOps =>
          /\ op'[op[v].task].name # "exit"
          /\ \A w \in Tasks : Names(op'[w], op[v].task) => w = v
    BY <1>8, <2>1, <2>3 DEF NamesOK, Names
  <2>5. CASE v = t
    <3>1. pc'[v] = "restore" /\ op'[v] = op[v] /\ op[v].name = "delete"
      BY <1>1, <1>3, <1>8, <2>5
    <3>2. QED BY <2>4, <3>1 DEF NamesOK
  <2>6. CASE v = u
    <3>1. pc'[v] = "dead" /\ op'[v] = NoOp
      BY <1>3, <1>8, <2>6
    <3>2. QED BY <2>3, <3>1 DEF NamesOK
  <2>7. CASE v # t /\ v # u
    <3>1. pc'[v] = pc[v] /\ op'[v] = op[v] /\ mode'[v] = mode[v]
      BY <1>8, <2>7
    <3>2. op[v].name = "create" /\ mode[op[v].task] = "NONE" => mode'[op[v].task] = "NONE"
      BY <1>8, <2>1, <2>2
    <3>3. QED BY <1>1, <2>1, <2>4, <3>1, <3>2 DEF NamesOK
  <2>8. QED BY <2>5, <2>6, <2>7
<1>14. SleepersOK'
  <2>1. clk[t] = "none"
    BY <1>1 DEF IInv, SleepersOK
  <2>2. ASSUME NEW v \in Tasks
        PROVE  /\ clk'[v] = "active" <=> mode'[v] = "BLOCKED"
               /\ clk'[v] # "none" =>
                    /\ pendElem'[v] = "timed"
                    /\ pc'[v] = "wake" \/ (pc'[v] = "restore" /\ op'[v].name = "sleep")
               /\ mode'[v] \in {"TERMINATED", "NONE"} => clk'[v] = "none"
    <3>1. CASE v = u \/ v = t
      BY <1>3, <1>8, <2>1, <3>1
    <3>2. CASE v # u /\ v # t
      BY <1>8, <3>2 DEF IInv, SleepersOK
    <3>3. QED BY <3>1, <3>2
  <2>3. QED BY <2>2 DEF SleepersOK
<1>15. TerminatedOK'
  <2>1. NoDuplicates(terminatedQ')
    BY <1>1 DEF IInv, TerminatedOK
  <2>2. ASSUME NEW v \in Tasks
        PROVE  /\ Linked(v, terminatedQ') => DeleteTerminated /\ mode'[v] = "TERMINATED"
               /\ mode'[v] = "TERMINATED" =>
                    pc'[v] \in {"exit", "dead"} \/ (pc'[v] = "restore" /\ op'[v].name = "exit")
               /\ mode'[v] = "NONE" => pc'[v] = "dead"
    <3>1. CASE v = u \/ v = t
      BY <1>1, <1>3, <1>8, <3>1 DEF IInv, TerminatedOK
    <3>2. CASE v # u /\ v # t
      <4>1. pc'[v] = pc[v] /\ op'[v] = op[v] /\ mode'[v] = mode[v]
        BY <1>8, <3>2
      <4>2. QED BY <1>1, <4>1 DEF IInv, TerminatedOK
    <3>3. QED BY <3>1, <3>2
  <2>3. QED BY <2>1, <2>2 DEF TerminatedOK
<1>16. QED BY <1>7, <1>9, <1>11, <1>12, <1>13, <1>14, <1>15 DEF IInv, TypeOK

-----------------------------------------------------------------------------
(* Interrupt level: no call moves, so the calls' parts of IInv survive any  *)
(* step that keeps terminatedQ and raises or keeps workFlag.               *)

\* The conjuncts of IInv about calls after an operation of an interrupt.
LEMMA HwiCalls ==
  ASSUME IInv, InHwi, UNCHANGED <<terminatedQ, callVars>>, workFlag' \/ workFlag' = workFlag,
         \A v \in Tasks : mode'[v] = mode[v] \/ (mode[v] = "BLOCKED" /\ mode'[v] = "READY")
  PROVE  /\ LockHeldOK' /\ WorkPending' /\ RunnerOK' /\ TerminatedOK'
         /\ \A v \in Tasks : NamesOK(v)'
<1>1. /\ isr /\ UNCHANGED <<locked, swiLocked, running, phase, isr, isrKey>>
      /\ UNCHANGED <<terminatedQ, pc, op, key, heldKey>>
  BY DEF InHwi, hwiVars, callVars
<1>2. \A v \in Tasks : UNCHANGED <<InLockedPart(v), Holding(v), Leaving(v)>>
  BY <1>1 DEF InLockedPart, Holding, Leaving
<1>3. running \in Tasks
  BY DEF IInv, TypeOK, KernelTypeOK, ControlTypeOK
<1>4. LockHeldOK'
  BY <1>1, <1>2, <1>3 DEF IInv, LockHeldOK
<1>5. WorkPending'
  BY <1>1 DEF WorkPending
<1>6. RunnerOK'
  BY <1>1, <1>2, <1>3 DEF IInv, RunnerOK
<1>7. TerminatedOK'
  BY <1>1 DEF IInv, TerminatedOK
<1>8. ASSUME NEW v \in Tasks PROVE NamesOK(v)'
  <2>1. NamesOK(v) /\ (op[v].name = "create" => op[v].task \in Tasks)
    BY OpFields DEF IInv, TypeOK
  <2>2. QED BY <1>1, <2>1 DEF NamesOK, Names
<1>9. QED BY <1>4, <1>5, <1>6, <1>7, <1>8

\* A sleep times out: an armed Clock object means a blocked task.
LEMMA Task_sleepTimeoutPreserves ==
  ASSUME IInv, NEW t \in Tasks, Task_sleepTimeout(t)
  PROVE  IInv'
<1>1. /\ InHwi /\ clk[t] = "active" /\ clk' = [clk EXCEPT ![t] = "expired"]
      /\ Task_unblockI(t) /\ UNCHANGED <<terminatedQ, pendElem, callVars>>
  BY DEF Task_sleepTimeout
<1>2. mode[t] = "BLOCKED"
  BY <1>1 DEF IInv, SleepersOK
<1>3. KernelTypeOK /\ KernelOK /\ QueueTypeOK /\ QueuesOK /\ UNCHANGED curTask
  BY <1>1 DEF IInv, TypeOK, KernelTypeOK, KernelOK, InHwi
<1>4. QueueTypeOK' /\ QueuesOK' /\ workFlag'
  BY <1>1, <1>2, <1>3, Task_unblockIPreserves
<1>5. \A v \in Tasks : mode'[v] = IF v = t THEN "READY" ELSE mode[v]
  BY <1>1, <1>3 DEF Task_unblockI, Readied, QueueTypeOK
<1>6. curTask \in Tasks
  BY <1>3 DEF KernelTypeOK, ControlTypeOK
<1>7. KernelTypeOK' /\ KernelOK'
  BY <1>1, <1>3, <1>4, <1>5, <1>6, HwiPreserves
<1>8. /\ LockHeldOK' /\ WorkPending' /\ RunnerOK' /\ TerminatedOK'
      /\ \A v \in Tasks : NamesOK(v)'
  BY <1>1, <1>2, <1>4, <1>5, HwiCalls
<1>9. UNCHANGED <<terminatedQ, pendElem, pc, op, key, heldKey>>
  BY <1>1 DEF callVars
<1>10. TypeOK'
  BY <1>1, <1>7, <1>9 DEF IInv, TypeOK
<1>11. SleepersOK'
  <2>1. \A v \in Tasks : clk'[v] = IF v = t THEN "expired" ELSE clk[v]
    BY <1>1 DEF IInv, TypeOK
  <2>2. QED BY <1>1, <1>5, <1>9, <2>1 DEF IInv, SleepersOK
<1>12. QED BY <1>7, <1>8, <1>10, <1>11 DEF IInv, TypeOK

\* What HwiSetPri and HwiYield have in common: no mode changes.
LEMMA HwiReschedules ==
  ASSUME IInv, InHwi, QueueTypeOK', QueuesOK', workFlag' \/ UNCHANGED queueVars, UNCHANGED mode,
         UNCHANGED <<terminatedQ, sleepVars, callVars>>
  PROVE  IInv'
<1>1. KernelTypeOK' /\ KernelOK'
  BY HwiPreserves DEF IInv, TypeOK
<1>2. /\ LockHeldOK' /\ WorkPending' /\ RunnerOK' /\ TerminatedOK'
      /\ \A v \in Tasks : NamesOK(v)'
  BY HwiCalls DEF queueVars
<1>3. UNCHANGED <<terminatedQ, pendElem, clk, pc, op, key, heldKey>>
  BY DEF sleepVars, callVars
<1>4. TypeOK' /\ SleepersOK'
  BY <1>1, <1>3 DEF IInv, TypeOK, SleepersOK
<1>5. QED BY <1>1, <1>2, <1>4 DEF IInv, TypeOK

\* Task_setPri by an interrupt.
LEMMA HwiSetPriPreserves ==
  ASSUME IInv, NEW t \in Tasks, NEW p \in HwiLevels, HwiSetPri(t, p)
  PROVE  IInv'
<1>1. InHwi /\ Task_setPri(t, p) /\ UNCHANGED <<terminatedQ, sleepVars, callVars>>
  BY DEF HwiSetPri
<1>2. QueueTypeOK /\ QueuesOK /\ UNCHANGED curTask /\ p \in Level
  BY <1>1, LevelsAssumption DEF IInv, TypeOK, KernelTypeOK, KernelOK, InHwi
<1>3. QueueTypeOK' /\ QueuesOK' /\ (workFlag' \/ UNCHANGED queueVars) /\ UNCHANGED mode
  BY <1>1, <1>2, Task_setPriPreserves
<1>4. QED BY <1>1, <1>3, HwiReschedules

\* Task_yield by an interrupt.
LEMMA HwiYieldPreserves ==
  ASSUME IInv, HwiYield
  PROVE  IInv'
<1>1. InHwi /\ Task_yield /\ UNCHANGED <<terminatedQ, sleepVars, callVars>>
  BY DEF HwiYield
<1>2. QueueTypeOK /\ QueuesOK /\ UNCHANGED curTask
  BY <1>1 DEF IInv, TypeOK, KernelTypeOK, KernelOK, InHwi
<1>3. QueueTypeOK' /\ QueuesOK' /\ workFlag' /\ UNCHANGED mode
  BY <1>1, <1>2, Task_yieldPreserves
<1>4. QED BY <1>1, <1>3, HwiReschedules

-----------------------------------------------------------------------------
(* The theorems.                                                           *)

\* The state Task_startCore leaves satisfies IInv.
LEMMA InitIInv == Init => IInv
<1> SUFFICES ASSUME Init PROVE IInv
  OBVIOUS
<1> USE DEF Init, KernelInit
<1>1. readyQ \in [Level -> Seq(Tasks)] /\ \A l \in Level : NoDuplicates(readyQ[l])
  <2>1. SeqOf(Tasks, Cardinality(Tasks)) \subseteq Seq(Tasks)
    BY DEF SeqOf
  <2>2. QED BY <2>1
<1>2. \A p \in Priority : p \in curSet <=> readyQ[p] # <<>>
  OBVIOUS
<1>3. curSet \in SUBSET Priority /\ curSet # {}
  <2>1. PICK t \in Tasks : InitPri[t] # Inactive
    BY InitPriAssumption
  <2>2. InitPri[t] \in Priority /\ InitPri[t] \in Level
    BY <2>1, InitPriAssumption DEF Level
  <2>3. Linked(t, readyQ[InitPri[t]])
    BY <2>1, <2>2
  <2>4. readyQ[InitPri[t]] # <<>>
    BY <2>3 DEF Linked
  <2>5. QED BY <2>2, <2>4
<1>4. curQ \in curSet /\ curQ \in Priority /\ \A p \in curSet : p <= curQ
  BY <1>3, MaxbitIsMax
<1>5. curTask \in Tasks /\ Linked(curTask, readyQ[curQ]) /\ readyQ[curQ] # <<>>
  <2>1. readyQ[curQ] \in Seq(Tasks) /\ readyQ[curQ] # <<>> /\ curTask = Head(readyQ[curQ])
    BY <1>1, <1>2, <1>4 DEF Level
  <2>2. \A q \in Seq(Tasks) : q # <<>> => Head(q) \in Tasks /\ Linked(Head(q), q)
    BY DEF Linked
  <2>3. QED BY <2>1, <2>2
<1>6. KernelTypeOK
  BY <1>1, <1>3, <1>4, <1>5, InitPriAssumption
  DEF KernelTypeOK, QueueTypeOK, ControlTypeOK, Modes, Phases
<1>7. TypeOK
  BY <1>6, OpFields DEF TypeOK, PCs
<1>8. ReadyListsOK /\ CurSetOK /\ CurQOK
  BY <1>1, <1>2, <1>4, <1>5 DEF ReadyListsOK, CurSetOK, CurQOK
<1>9. NoLostReschedule /\ ControlOK
  <2>1. curQ # NoQ
    BY <1>4, NumPriAssumption DEF Priority, NoQ
  <2>2. mode[curTask] = "READY" /\ running = curTask
    BY <1>5
  <2>3. QED BY <1>4, <2>1, <2>2 DEF NoLostReschedule, ControlOK
<1>10. LockHeldOK /\ WorkPending /\ RunnerOK
  BY <1>5, <1>6, OpFields DEF LockHeldOK, WorkPending, RunnerOK, Leaving, InLockedPart, Holding
<1>11. \A t \in Tasks : NamesOK(t)
  BY OpFields DEF NamesOK
<1>12. SleepersOK /\ TerminatedOK
  BY DEF SleepersOK, TerminatedOK, NoDuplicates, Linked
<1>13. QED BY <1>7, <1>8, <1>9, <1>10, <1>11, <1>12 DEF IInv, KernelOK, QueuesOK

\* Every step of the application, of the scheduler and of an interrupt keeps it.
LEMMA NextIInv == IInv /\ [Next]_vars => IInv'
<1> SUFFICES ASSUME IInv, [Next]_vars PROVE IInv'
  OBVIOUS
<1>1. CASE KernelStep
  BY <1>1, KernelStepPreserves
<1>2. ASSUME NEW t \in Tasks, TaskCall(t) PROVE IInv'
  <2>1. ASSUME NEW name \in {"yield", "lock", "exit", "reap"}, Call(t, Op(name)) PROVE IInv'
    <3>1. Op(name) \in SimpleOps
      BY OpIsSimple
    <3>2. QED BY <2>1, <3>1, CallPreserves
  <2>2. ASSUME NEW o \in TaskOps, Call(t, o) PROVE IInv'
    BY <2>2, CallPreserves
  <2>3. QED
    BY <1>2, <2>1, <2>2, SleepRegionPreserves, Swi_disablePreserves DEF TaskCall
<1>3. ASSUME NEW t \in Tasks, TaskProgress(t) PROVE IInv'
  BY <1>3, LockPreserves, YieldRegionPreserves, SetPriRegionPreserves, LockRegionPreserves,
     CreateRegionPreserves, DeleteRegionPreserves, ReapRegionPreserves, ExitRegionPreserves,
     ExitTerminatedPreserves, RestoreOfCallPreserves, WakePreserves, WokenPreserves,
     UnlockPreserves, Swi_restorePreserves, ReadPreserves DEF TaskProgress
<1>4. CASE HwiStep
  BY <1>4, Task_sleepTimeoutPreserves, HwiSetPriPreserves, HwiYieldPreserves DEF HwiStep
<1>5. CASE UNCHANGED vars
  <2>1. UNCHANGED <<mode, pri, readyQ, curSet, curQ, curTask, workFlag, locked, swiLocked,
                    running, phase, isr, isrKey, terminatedQ, pendElem, clk, pc, op, key, heldKey>>
    BY <1>5 DEF vars, kernelVars, sleepVars, callVars
  <2>2. TypeOK' /\ KernelOK'
    BY <2>1 DEF IInv, TypeOK, KernelTypeOK, QueueTypeOK, ControlTypeOK, KernelOK, QueuesOK,
       ReadyListsOK, CurSetOK, CurQOK, NoLostReschedule, ControlOK
  <2>3. LockHeldOK' /\ WorkPending' /\ RunnerOK' /\ SleepersOK' /\ TerminatedOK'
    BY <2>1 DEF IInv, LockHeldOK, WorkPending, RunnerOK, SleepersOK, TerminatedOK,
       InLockedPart, Holding, Leaving
  <2>4. \A t \in Tasks : NamesOK(t)'
    BY <2>1 DEF IInv, NamesOK, Names
  <2>5. QED BY <2>2, <2>3, <2>4 DEF IInv
<1>6. QED BY <1>1, <1>2, <1>3, <1>4, <1>5 DEF Next

\* IInv holds in every reachable state, whatever the tasks, the priorities and
\* the calls of the application.
THEOREM Invariance == Spec => []IInv
BY InitIInv, NextIInv, PTL DEF Spec

\* The state of Task.c keeps its types: no task queue ever holds anything but
\* tasks and curSet has no bit above numPriorities.
THEOREM TypeCorrect == Spec => []TypeOK
<1>1. IInv => TypeOK
  BY DEF IInv
<1>2. QED BY <1>1, Invariance, PTL

\* Each READY task is on the ready list of its priority, once, and no other
\* task is on any (Task_unblockI, Task_setPri, Task_exit, ...).
THEOREM ReadyLists == Spec => []ReadyListsOK
<1>1. IInv => ReadyListsOK
  BY DEF IInv, KernelOK, QueuesOK
<1>2. QED BY <1>1, Invariance, PTL

\* A bit of curSet is set exactly when the ready list of that priority is not
\* empty, so Intrinsics_maxbit finds the highest ready task.
THEOREM ReadyBits == Spec => []CurSetOK
<1>1. IInv => CurSetOK
  BY DEF IInv, KernelOK, QueuesOK
<1>2. QED BY <1>1, Invariance, PTL

\* Task.xdc:76: whenever the schedulers are enabled, the running task is ready
\* and no ready task has a higher priority.
THEOREM RunningHighest == Spec => []RunningIsHighest
<1>1. IInv => RunningIsHighest
  <2> SUFFICES ASSUME IInv, Task_enabled, op[running].name # "swiRestore"
               PROVE  /\ mode[running] = "READY"
                      /\ \A t \in Tasks : mode[t] = "READY" => pri[t] <= pri[running]
                      /\ Head(readyQ[pri[running]]) = running
    BY DEF RunningIsHighest
  <2>1. KernelTypeOK /\ KernelOK /\ ~locked /\ ~swiLocked
    BY DEF IInv, TypeOK, Task_enabled, Swi_enabled
  <2>2. phase = "user" /\ ~isr
    BY <2>1 DEF KernelOK, ControlOK
  <2>3. ~workFlag
    BY <2>1, <2>2 DEF IInv, WorkPending
  <2>4. QED BY <2>1, <2>3, RunningHeadsHighest
<1>2. QED BY <1>1, Invariance, PTL

\* When curQ is not NULL the current task heads it: Task_yield and Task_schedule
\* rely on it to know whose turn it is.
THEOREM CurrentQueue == Spec => []CurQOK
<1>1. IInv => CurQOK
  BY DEF IInv, KernelOK, QueuesOK
<1>2. QED BY <1>1, Invariance, PTL

\* Every Task_disable is matched: the scheduler is locked exactly while an
\* interrupt, Task_schedule or the locked part of a call of the running task
\* is under way, and every key given back is the one that was read.
THEOREM LockBalanced == Spec => []LockBalance
<1>1. IInv => LockBalance
  <2> SUFFICES ASSUME IInv PROVE LockBalance
    OBVIOUS
  <2>1. CASE phase = "user" /\ ~isr
    BY <2>1 DEF IInv, LockHeldOK, LockBalance
  <2>2. CASE phase # "user" \/ isr
    BY <2>2 DEF IInv, LockHeldOK, LockBalance, KernelOK, ControlOK
  <2>3. QED BY <2>1, <2>2
<1>2. QED BY <1>1, Invariance, PTL

\* The Clock object on a sleeper's stack is armed exactly while the task is
\* blocked, so Task_sleepTimeout never readies a task that is ready.
THEOREM SleepClock == Spec => []SleepClockOK
<1>1. IInv => SleepClockOK
  BY DEF IInv, SleepersOK, SleepClockOK, Alive, TypeOK, KernelTypeOK, QueueTypeOK, Modes
<1>2. QED BY <1>1, Invariance, PTL

\* A task that holds the scheduler, or the Swi scheduler, is not switched out.
THEOREM LockExcludes == Spec => LockExcludesTasks
<1>1. IInv /\ [Next]_vars => [running' # running => ~Holding(running) /\ ~swiLocked]_vars
  <2> SUFFICES ASSUME IInv, Next, running' # running
               PROVE  ~Holding(running) /\ ~swiLocked
    OBVIOUS
  <2>1. KernelStep
    <3>1. ASSUME NEW t \in Tasks, InTask(t) PROVE FALSE
      BY <3>1 DEF InTask
    <3>2. ~InHwi
      BY DEF InHwi
    <3>3. ~HwiStep
      BY <3>2 DEF HwiStep, Task_sleepTimeout, HwiSetPri, HwiYield
    <3>4. ASSUME NEW t \in Tasks PROVE ~TaskCall(t) /\ ~TaskProgress(t)
      BY <3>1 DEF TaskCall, TaskProgress, Call, SleepRegion, Swi_disable, Lock, YieldRegion,
         SetPriRegion, LockRegion, CreateRegion, DeleteRegion, ReapRegion, ExitRegion,
         ExitTerminated, Restore, Wake, Woken, Unlock, Swi_restore, Read, Region
    <3>5. QED BY <3>3, <3>4 DEF Next
  <2>2. phase # "user"
    BY <2>1 DEF KernelStep, Scheduler, Task_schedule, Task_allBlockedFunction, Task_swap,
       HwiEnter, HwiExit
  <2>3. ~swiLocked
    BY <2>2 DEF IInv, KernelOK, ControlOK
  <2>4. running \in Tasks
    BY DEF IInv, TypeOK, KernelTypeOK, ControlTypeOK
  <2>5. QED BY <2>2, <2>3, <2>4 DEF IInv, LockHeldOK, InLockedPart
<1>2. QED BY <1>1, Invariance, PTL DEF Spec, LockExcludesTasks

-----------------------------------------------------------------------------
(***************************************************************************)
(* terminatedQ of Task.c: TerminatedQOK is an invariant of Task!Spec.  IInv *)
(* says that whatever is on the queue has terminated; what is left to show *)
(* is that no terminated task is forgotten.                                *)
(***************************************************************************)

\* A task that has gone through both regions of Task_exit, and has not been
\* reaped, is on the queue.
NotForgotten ==
  \A t \in Tasks :
    DeleteTerminated /\ mode[t] = "TERMINATED" /\ pc[t] # "exit" => Linked(t, terminatedQ)

\* No task terminates and none leaves Task_exit.
NoneExits ==
  \A t \in Tasks : mode'[t] = "TERMINATED" => /\ mode[t] = "TERMINATED"
                                              /\ pc'[t] # "exit" => pc[t] # "exit"

LEMMA NoneExitsKeeps ==
  ASSUME NotForgotten, NoneExits, terminatedQ' = terminatedQ
  PROVE  NotForgotten'
  BY DEF NotForgotten, NoneExits

\* What IInv says of the variables that NotForgotten reads.
LEMMA ExitTypes ==
  ASSUME IInv
  PROVE  /\ mode \in [Tasks -> Modes] /\ pc \in [Tasks -> PCs]
         /\ terminatedQ \in Seq(Tasks) /\ NoDuplicates(terminatedQ)
         /\ \A t \in Tasks : pc[t] = "exit" => ~Linked(t, terminatedQ)
  BY DEF IInv, TypeOK, KernelTypeOK, QueueTypeOK, NamesOK, TerminatedOK

LEMMA KernelStepExits ==
  ASSUME KernelStep
  PROVE  NoneExits /\ terminatedQ' = terminatedQ
  BY DEF KernelStep, Scheduler, Task_schedule, Task_allBlockedFunction, Task_swap, HwiEnter, HwiExit,
     queueVars, callVars, NoneExits

LEMMA HwiStepExits ==
  ASSUME IInv, HwiStep
  PROVE  NoneExits /\ terminatedQ' = terminatedQ
<1>1. pc' = pc /\ terminatedQ' = terminatedQ
  BY DEF HwiStep, Task_sleepTimeout, HwiSetPri, HwiYield, callVars
<1>2. ASSUME NEW t \in Tasks, Task_sleepTimeout(t) PROVE NoneExits
  <2>1. mode' = [mode EXCEPT ![t] = "READY"]
    BY <1>2 DEF Task_sleepTimeout, Task_unblockI, Readied
  <2> QED BY <1>1, <2>1, ExitTypes DEF NoneExits
<1>3. ASSUME NEW t \in Tasks, NEW p \in HwiLevels, HwiSetPri(t, p) PROVE NoneExits
  <2>1. mode' = mode
    BY <1>3 DEF HwiSetPri, Task_setPri, queueVars
  <2> QED BY <1>1, <2>1 DEF NoneExits
<1>4. CASE HwiYield
  <2>1. mode' = mode
    BY <1>4 DEF HwiYield, Task_yield
  <2> QED BY <1>1, <2>1 DEF NoneExits
<1>5. NoneExits
  BY <1>2, <1>3, <1>4 DEF HwiStep
<1> QED BY <1>1, <1>5

LEMMA CallExits ==
  ASSUME IInv, NEW t \in Tasks, TaskCall(t)
  PROVE  NoneExits /\ terminatedQ' = terminatedQ
<1>1. ASSUME NEW o, Call(t, o) PROVE NoneExits /\ terminatedQ' = terminatedQ
  BY <1>1, ExitTypes DEF Call, queueVars, NoneExits
<1>2. CASE SleepRegion(t)
  <2>1. mode' = [mode EXCEPT ![t] = "BLOCKED"] /\ pc' = [pc EXCEPT ![t] = "restore"]
        /\ terminatedQ' = terminatedQ
    BY <1>2 DEF SleepRegion, Task_blockI
  <2> QED BY <2>1, ExitTypes DEF NoneExits
<1>3. CASE Swi_disable(t)
  BY <1>3 DEF Swi_disable, queueVars, callVars, NoneExits
<1> QED BY <1>1, <1>2, <1>3 DEF TaskCall

\* Every part of a call but the regions of Task_exit and the reaping.
LEMMA ProgressExits ==
  ASSUME IInv, NEW t \in Tasks, TaskProgress(t), ~ExitRegion(t), ~ExitTerminated(t), ~ReapRegion(t)
  PROVE  NoneExits /\ terminatedQ' = terminatedQ
<1>1. CASE YieldRegion(t) \/ SetPriRegion(t)
  <2>1. pc[t] = "region" /\ pc' = [pc EXCEPT ![t] = "restore"] /\ terminatedQ' = terminatedQ
    BY <1>1 DEF YieldRegion, SetPriRegion, Region
  <2>2. mode' = mode
    BY <1>1 DEF YieldRegion, SetPriRegion, Task_yield, Task_setPri, queueVars
  <2> QED BY <2>1, <2>2, ExitTypes DEF NoneExits
<1>2. CASE CreateRegion(t)
  <2>1. /\ pc[t] = "region" /\ terminatedQ' = terminatedQ
        /\ mode' = [mode EXCEPT ![op[t].task] = "READY"]
        /\ pc' = [pc EXCEPT ![op[t].task] = "user", ![t] = "restore"]
    BY <1>2 DEF CreateRegion, Readied
  <2> QED BY <2>1, ExitTypes DEF NoneExits
<1>3. CASE DeleteRegion(t)
  <2>1. /\ pc[t] = "region" /\ terminatedQ' = terminatedQ
        /\ mode' = [mode EXCEPT ![op[t].task] = "NONE"]
        /\ pc' = [pc EXCEPT ![op[t].task] = "dead", ![t] = "restore"]
    BY <1>3 DEF DeleteRegion, Finalize, Task_unlink
  <2> QED BY <2>1, ExitTypes DEF NoneExits
<1>4. CASE Lock(t) \/ LockRegion(t) \/ Restore(t) \/ Wake(t) \/ Woken(t) \/ Unlock(t)
           \/ Swi_restore(t) \/ Read(t)
  <2>1. mode' = mode /\ terminatedQ' = terminatedQ
    BY <1>4 DEF Lock, LockRegion, Restore, Wake, Woken, Unlock, Swi_restore, Read, queueVars
  <2>2. pc[t] # "exit" /\ \A u \in Tasks \ {t} : pc'[u] = pc[u]
    BY <1>4, ExitTypes DEF Lock, LockRegion, Restore, Wake, Woken, Unlock, Swi_restore, Read
  <2> QED BY <2>1, <2>2 DEF NoneExits
<1> QED BY <1>1, <1>2, <1>3, <1>4 DEF TaskProgress

\* The first region of Task_exit: the task terminates, and is in Task_exit.
LEMMA ExitRegionRemembers ==
  ASSUME IInv, NotForgotten, NEW t \in Tasks, ExitRegion(t)
  PROVE  NotForgotten'
<1>1. /\ mode' = [mode EXCEPT ![t] = "TERMINATED"] /\ pc' = [pc EXCEPT ![t] = "exit"]
      /\ terminatedQ' = terminatedQ
  BY DEF ExitRegion, Region
<1> QED BY <1>1, ExitTypes DEF NotForgotten

\* The second one puts it on the queue.
LEMMA ExitTerminatedRemembers ==
  ASSUME IInv, NotForgotten, NEW t \in Tasks, ExitTerminated(t)
  PROVE  NotForgotten'
<1>1. /\ pc[t] = "exit" /\ mode' = mode /\ pc' = [pc EXCEPT ![t] = "restore"]
      /\ terminatedQ' = IF DeleteTerminated THEN Append(terminatedQ, t) ELSE terminatedQ
  BY DEF ExitTerminated, queueVars
<1>2. \A u \in Tasks : Linked(u, Append(terminatedQ, t)) <=> Linked(u, terminatedQ) \/ u = t
  BY <1>1, ExitTypes, AppendElement
<1> QED BY <1>1, <1>2, ExitTypes DEF NotForgotten

\* The task that is taken off the queue is deleted, the others stay.
LEMMA ReapRemembers ==
  ASSUME IInv, NotForgotten, NEW t \in Tasks, ReapRegion(t)
  PROVE  NotForgotten'
<1>1. pc[t] = "region" /\ pc' = [pc EXCEPT ![t] = "restore"]
  BY DEF ReapRegion, Region
<1>2. CASE terminatedQ = <<>>
  <2>1. mode' = mode /\ terminatedQ' = terminatedQ
    BY <1>2 DEF ReapRegion, queueVars
  <2> QED BY <1>1, <2>1, ExitTypes DEF NotForgotten
<1>3. CASE terminatedQ # <<>>
  <2>1. mode' = [mode EXCEPT ![Head(terminatedQ)] = "NONE"] /\ terminatedQ' = Tail(terminatedQ)
    BY <1>3 DEF ReapRegion, Finalize, Task_unlink
  <2>2. ASSUME NEW u \in Tasks, Linked(u, terminatedQ), u # Head(terminatedQ)
        PROVE  Linked(u, Tail(terminatedQ))
    <3>1. PICK i \in 1 .. Len(terminatedQ) : terminatedQ[i] = u
      BY <2>2, ExitTypes DEF Linked
    <3>2. i # 1
      BY <3>1, <2>2, <1>3, ExitTypes
    <3>3. i - 1 \in 1 .. Len(Tail(terminatedQ)) /\ Tail(terminatedQ)[i - 1] = u
      BY <3>1, <3>2, <1>3, ExitTypes
    <3>4. DOMAIN Tail(terminatedQ) = 1 .. Len(Tail(terminatedQ))
      BY <1>3, ExitTypes
    <3> QED BY <3>3, <3>4 DEF Linked
  <2>3. Head(terminatedQ) \in Tasks
    BY <1>3, ExitTypes
  <2> QED BY <1>1, <2>1, <2>2, <2>3, ExitTypes DEF NotForgotten
<1> QED BY <1>2, <1>3

\* terminatedQ holds each terminated task once, from the end of its Task_exit
\* (Task.c:537-569) until the idle loop reaps it, and no other task: none is lost
\* and none is deleted twice.
THEOREM TerminatedQueue == Spec => []TerminatedQOK
<1>1. Init => NotForgotten
  BY DEF Init, KernelInit, NotForgotten
<1>2. IInv /\ NotForgotten /\ [Next]_vars => NotForgotten'
  <2> SUFFICES ASSUME IInv, NotForgotten, [Next]_vars PROVE NotForgotten'
    OBVIOUS
  <2>1. CASE KernelStep
    BY <2>1, KernelStepExits, NoneExitsKeeps
  <2>2. ASSUME NEW t \in Tasks, TaskCall(t) PROVE NotForgotten'
    BY <2>2, CallExits, NoneExitsKeeps
  <2>3. ASSUME NEW t \in Tasks, TaskProgress(t) PROVE NotForgotten'
    BY <2>3, ProgressExits, NoneExitsKeeps, ExitRegionRemembers, ExitTerminatedRemembers, ReapRemembers
  <2>4. CASE HwiStep
    BY <2>4, HwiStepExits, NoneExitsKeeps
  <2>5. CASE UNCHANGED vars
    BY <2>5 DEF vars, kernelVars, queueVars, callVars, NotForgotten
  <2> QED BY <2>1, <2>2, <2>3, <2>4, <2>5 DEF Next
<1>3. IInv /\ NotForgotten => TerminatedQOK
  <2> SUFFICES ASSUME IInv, NotForgotten PROVE TerminatedQOK
    OBVIOUS
  <2>1. \A t \in Tasks : Linked(t, terminatedQ) => DeleteTerminated /\ mode[t] = "TERMINATED"
    BY DEF IInv, TerminatedOK
  <2> QED BY <2>1, ExitTypes DEF NotForgotten, TerminatedQOK
<1> QED BY <1>1, <1>2, <1>3, Invariance, PTL DEF Spec

-----------------------------------------------------------------------------
(***************************************************************************)
(* The ready lists of Task.c are first come, first served: the action      *)
(* property FirstComeFirstServed holds of Task!Spec.  Only Task_yield lets  *)
(* one waiting task overtake another, and the one overtaken is the current. *)
(***************************************************************************)

\* No two elements of q are the other way round in r.
SameOrder(q, r) == \A s, t \in Tasks : ~(Before(s, t, q) /\ Before(t, s, r))

\* No two tasks on a ready list are the other way round in f.
NoneOvertaken(f) == \A l \in Level : SameOrder(readyQ[l], f[l])

-----------------------------------------------------------------------------
(* The order of a list that holds each element once.                       *)

LEMMA BeforeAt ==
  ASSUME NEW q \in Seq(Tasks), NEW s, NEW t, Before(s, t, q)
  PROVE  \E i, j \in 1 .. Len(q) : i < j /\ q[i] = s /\ q[j] = t
<1>1. DOMAIN q = 1 .. Len(q)
  OBVIOUS
<1>2. \E i, j \in DOMAIN q : i < j /\ q[i] = s /\ q[j] = t
  BY Zenon DEF Before
<1> QED BY <1>1, <1>2, Zenon

\* The elements of r that are in q come from ever later places in q.
LEMMA OrderKept ==
  ASSUME NEW q \in Seq(Tasks), NoDuplicates(q), NEW r \in Seq(Tasks), NEW at \in [1 .. Len(r) -> Int],
         \A j \in 1 .. Len(r) :
            Linked(r[j], q) => at[j] \in 1 .. Len(q) /\ r[j] = q[at[j]],
         \A j, k \in 1 .. Len(r) : j < k => at[j] < at[k]
  PROVE  SameOrder(q, r)
<1> SUFFICES ASSUME NEW s \in Tasks, NEW t \in Tasks, Before(s, t, q), Before(t, s, r)
             PROVE  FALSE
  BY DEF SameOrder
<1>1. PICK a, b \in 1 .. Len(q) : a < b /\ q[a] = s /\ q[b] = t
  BY BeforeAt
<1>2. PICK c, d \in 1 .. Len(r) : c < d /\ r[c] = t /\ r[d] = s
  BY BeforeAt
<1>3. Linked(s, q) /\ Linked(t, q)
  BY <1>1, LinkedAt
<1>4. at[c] \in 1 .. Len(q) /\ q[at[c]] = t /\ at[d] \in 1 .. Len(q) /\ q[at[d]] = s
  BY <1>2, <1>3
<1>5. at[c] = b /\ at[d] = a
  BY <1>1, <1>4 DEF NoDuplicates
<1>6. at[c] < at[d]
  BY <1>2
<1> QED BY <1>1, <1>5, <1>6

LEMMA RemoveOrder ==
  ASSUME NEW q \in Seq(Tasks), NoDuplicates(q), NEW t \in Tasks, Linked(t, q)
  PROVE  SameOrder(q, Queue_remove(q, t))
<1> DEFINE i == Position(q, t)
           r == Queue_remove(q, t)
           at == [j \in 1 .. Len(r) |-> IF j < i THEN j ELSE j + 1]
<1>1. /\ i \in 1 .. Len(q)
      /\ r \in Seq(Tasks) /\ Len(r) = Len(q) - 1
      /\ \A j \in 1 .. Len(r) : r[j] = IF j < i THEN q[j] ELSE q[j + 1]
  BY RemoveIndices
<1> HIDE DEF i, r
<1>2. at \in [1 .. Len(r) -> Int]
  BY <1>1
<1>3. \A j \in 1 .. Len(r) : at[j] \in 1 .. Len(q) /\ r[j] = q[at[j]]
  BY <1>1
<1>4. \A j, k \in 1 .. Len(r) : j < k => at[j] < at[k]
  BY <1>1
<1> HIDE DEF at
<1>5. SameOrder(q, r)
  BY <1>1, <1>2, <1>3, <1>4, OrderKept
<1> QED BY <1>5 DEF r

LEMMA AppendOrder ==
  ASSUME NEW q \in Seq(Tasks), NoDuplicates(q), NEW t \in Tasks, ~Linked(t, q)
  PROVE  SameOrder(q, Append(q, t))
<1> DEFINE r == Append(q, t)
           at == [j \in 1 .. Len(r) |-> j]
<1>1. /\ r \in Seq(Tasks) /\ Len(r) = Len(q) + 1 /\ Len(q) \in Nat /\ r[Len(q) + 1] = t
      /\ \A j \in 1 .. Len(q) : r[j] = q[j]
  OBVIOUS
<1> HIDE DEF r
<1>2. at \in [1 .. Len(r) -> Int]
  BY <1>1
<1>3. \A j \in 1 .. Len(r) : Linked(r[j], q) => at[j] \in 1 .. Len(q) /\ r[j] = q[at[j]]
  BY <1>1
<1>4. \A j, k \in 1 .. Len(r) : j < k => at[j] < at[k]
  BY <1>1
<1> HIDE DEF at
<1>5. SameOrder(q, r)
  BY <1>1, <1>2, <1>3, <1>4, OrderKept
<1> QED BY <1>5 DEF r

LEMMA PushOrder ==
  ASSUME NEW q \in Seq(Tasks), NoDuplicates(q), NEW t \in Tasks, ~Linked(t, q)
  PROVE  SameOrder(q, <<t>> \o q)
<1> DEFINE r == <<t>> \o q
           at == [j \in 1 .. Len(r) |-> j - 1]
<1>1. /\ r \in Seq(Tasks) /\ Len(r) = Len(q) + 1 /\ Len(q) \in Nat /\ r[1] = t
      /\ \A j \in 2 .. Len(r) : r[j] = q[j - 1]
  OBVIOUS
<1> HIDE DEF r
<1>2. at \in [1 .. Len(r) -> Int]
  BY <1>1
<1>3. ASSUME NEW j \in 1 .. Len(r), Linked(r[j], q) PROVE at[j] \in 1 .. Len(q) /\ r[j] = q[at[j]]
  <2>1. j # 1
    BY <1>1, <1>3
  <2> QED BY <1>1, <2>1
<1>4. \A j, k \in 1 .. Len(r) : j < k => at[j] < at[k]
  BY <1>1
<1> HIDE DEF at
<1>5. SameOrder(q, r)
  BY <1>1, <1>2, <1>3, <1>4, OrderKept
<1> QED BY <1>5 DEF r

\* A list that is rotated: only its head is overtaken.
LEMMA RotateOrder ==
  ASSUME NEW q \in Seq(Tasks), NoDuplicates(q), q # <<>>,
         NEW s \in Tasks, NEW t \in Tasks,
         Before(s, t, q), Before(t, s, Append(Tail(q), Head(q)))
  PROVE  s = Head(q)
<1> DEFINE r == Append(Tail(q), Head(q))
<1>1. /\ r \in Seq(Tasks) /\ Len(r) = Len(q) /\ Len(q) \in Nat \ {0} /\ r[Len(q)] = q[1]
      /\ \A j \in 1 .. Len(q) - 1 : r[j] = q[j + 1]
      /\ Head(q) = q[1] /\ Before(t, s, r)
  OBVIOUS
<1> HIDE DEF r
<1>2. PICK a, b \in 1 .. Len(q) : a < b /\ q[a] = s /\ q[b] = t
  BY BeforeAt
<1>3. PICK c, d \in 1 .. Len(r) : c < d /\ r[c] = t /\ r[d] = s
  BY <1>1, BeforeAt
<1>4. \A m, n \in 1 .. Len(q) : q[m] = q[n] => m = n
  BY DEF NoDuplicates
<1>5. c \in 1 .. Len(q) - 1 /\ c + 1 \in 1 .. Len(q) /\ q[c + 1] = t
  BY <1>1, <1>3
<1>6. c + 1 = b
  BY <1>2, <1>4, <1>5
<1>7. CASE d = Len(q)
  BY <1>1, <1>3, <1>7
<1>8. CASE d # Len(q)
  <2>1. d + 1 \in 1 .. Len(q) /\ q[d + 1] = s
    BY <1>1, <1>3, <1>8
  <2>2. d + 1 = a
    BY <1>2, <1>4, <2>1
  <2> QED BY <1>2, <1>3, <1>6, <2>2
<1> QED BY <1>7, <1>8

-----------------------------------------------------------------------------
(* The order of the ready lists under the primitives of the kernel.        *)

LEMMA NothingMoved ==
  ASSUME QueueTypeOK, ReadyListsOK
  PROVE  NoneOvertaken(readyQ)
<1> SUFFICES ASSUME NEW l \in Level, NEW s \in Tasks, NEW t \in Tasks,
                    Before(s, t, readyQ[l]), Before(t, s, readyQ[l])
             PROVE  FALSE
  BY DEF NoneOvertaken, SameOrder
<1>1. readyQ[l] \in Seq(Tasks) /\ NoDuplicates(readyQ[l])
  BY DEF QueueTypeOK, ReadyListsOK
<1>2. PICK a, b \in 1 .. Len(readyQ[l]) : a < b /\ readyQ[l][a] = s /\ readyQ[l][b] = t
  BY <1>1, BeforeAt
<1>3. PICK c, d \in 1 .. Len(readyQ[l]) : c < d /\ readyQ[l][c] = t /\ readyQ[l][d] = s
  BY <1>1, BeforeAt
<1> QED BY <1>1, <1>2, <1>3 DEF NoDuplicates

\* A list of a READY task is well formed and has the task on it.
LEMMA ListOfReady ==
  ASSUME QueueTypeOK, ReadyListsOK, NEW t \in Tasks, mode[t] = "READY"
  PROVE  /\ pri[t] \in Level /\ readyQ[pri[t]] \in Seq(Tasks)
         /\ NoDuplicates(readyQ[pri[t]]) /\ Linked(t, readyQ[pri[t]])
  BY DEF QueueTypeOK, ReadyListsOK

LEMMA UnlinkedOrder ==
  ASSUME QueueTypeOK, ReadyListsOK, NEW t \in Tasks, mode[t] = "READY"
  PROVE  NoneOvertaken(Unlinked(t))
<1>1. SameOrder(readyQ[pri[t]], Queue_remove(readyQ[pri[t]], t))
  BY ListOfReady, RemoveOrder
<1>2. /\ Unlinked(t)[pri[t]] = Queue_remove(readyQ[pri[t]], t)
      /\ \A l \in Level : l # pri[t] => Unlinked(t)[l] = readyQ[l]
  BY ListOfReady DEF Unlinked, QueueTypeOK
<1> QED BY <1>1, <1>2, NothingMoved DEF NoneOvertaken

\* A task that becomes ready queues behind the others.
LEMMA ReadiedOrder ==
  ASSUME QueueTypeOK, ReadyListsOK, NEW t \in Tasks, mode[t] # "READY", NEW p \in Level
  PROVE  NoneOvertaken([readyQ EXCEPT ![p] = Append(@, t)])
<1>1. SameOrder(readyQ[p], Append(readyQ[p], t))
  BY AppendOrder DEF QueueTypeOK, ReadyListsOK
<1> QED BY <1>1, NothingMoved DEF NoneOvertaken, QueueTypeOK

LEMMA RequeuedOrder ==
  ASSUME QueueTypeOK, ReadyListsOK, NEW t \in Tasks, mode[t] = "READY",
         NEW p \in Level, p # pri[t]
  PROVE  NoneOvertaken(Requeued(t, p))
<1>1. Unlinked(t)[p] = readyQ[p] /\ DOMAIN Unlinked(t) = Level
  BY ListOfReady DEF Unlinked, QueueTypeOK
<1>2. /\ Requeued(t, p)[p] = IF curTask = t THEN <<t>> \o readyQ[p] ELSE Append(readyQ[p], t)
      /\ \A l \in Level : l # p => Requeued(t, p)[l] = Unlinked(t)[l]
  BY <1>1 DEF Requeued
<1>3. readyQ[p] \in Seq(Tasks) /\ NoDuplicates(readyQ[p]) /\ ~Linked(t, readyQ[p])
  BY DEF QueueTypeOK, ReadyListsOK
<1>4. SameOrder(readyQ[p], Requeued(t, p)[p])
  BY <1>2, <1>3, AppendOrder, PushOrder
<1> QED BY <1>2, <1>4, UnlinkedOrder DEF NoneOvertaken

LEMMA SetPriOrder ==
  ASSUME QueueTypeOK, ReadyListsOK, NEW t \in Tasks, NEW p \in Level, Task_setPri(t, p)
  PROVE  NoneOvertaken(readyQ')
<1>1. CASE readyQ' = readyQ
  BY <1>1, NothingMoved
<1>2. CASE readyQ' # readyQ
  <2>1. p # pri[t] /\ mode[t] = "READY" /\ readyQ' = Requeued(t, p)
    BY <1>2 DEF Task_setPri, queueVars
  <2> QED BY <2>1, RequeuedOrder
<1> QED BY <1>1, <1>2

\* Task_yield overtakes the current task and no other.
LEMMA YieldOrder ==
  ASSUME QueueTypeOK, QueuesOK, Task_yield,
         NEW l \in Level, NEW s \in Tasks, NEW t \in Tasks,
         Before(s, t, readyQ[l]), Before(t, s, readyQ'[l])
  PROVE  s = curTask /\ curQ' = NoQ
<1>1. curQ' = NoQ
  BY DEF Task_yield
<1>2. curQ # NoQ /\ l = curQ
  <2>1. readyQ'[l] # readyQ[l]
    BY NothingMoved DEF NoneOvertaken, SameOrder, QueuesOK
  <2> QED BY <2>1 DEF Task_yield, QueueTypeOK
<1>3. readyQ'[l] = Append(Tail(readyQ[l]), Head(readyQ[l]))
  BY <1>2 DEF Task_yield, QueueTypeOK
<1>4. readyQ[l] \in Seq(Tasks) /\ NoDuplicates(readyQ[l]) /\ readyQ[l] # <<>> /\ Head(readyQ[l]) = curTask
  BY <1>2 DEF QueueTypeOK, QueuesOK, ReadyListsOK, CurQOK
<1>5. s = Head(readyQ[l])
  BY <1>3, <1>4, RotateOrder
<1> QED BY <1>1, <1>4, <1>5

-----------------------------------------------------------------------------
(* The order of the ready lists under the steps of Task.                   *)

\* What FirstComeFirstServed asks of a step.
InTurn ==
  \A l \in Level, s, t \in Tasks :
    Before(s, t, readyQ[l]) /\ Before(t, s, readyQ'[l]) => s = curTask /\ curQ' = NoQ

LEMMA InTurnWhenNoneOvertaken ==
  ASSUME NoneOvertaken(readyQ')
  PROVE  InTurn
  BY DEF NoneOvertaken, SameOrder, InTurn

\* What IInv says of the variables that the order depends on.
LEMMA ListTypes ==
  ASSUME IInv
  PROVE  /\ QueueTypeOK /\ QueuesOK /\ ReadyListsOK
         /\ \A t \in Tasks : op[t] \in SimpleOps \cup TaskOps
  BY DEF IInv, TypeOK, KernelTypeOK, KernelOK, QueuesOK

LEMMA ListsKept ==
  ASSUME IInv, readyQ' = readyQ
  PROVE  InTurn
  BY ListTypes, NothingMoved, InTurnWhenNoneOvertaken

LEMMA YieldInTurn ==
  ASSUME IInv, Task_yield
  PROVE  InTurn
  BY ListTypes, YieldOrder DEF InTurn

LEMMA KernelStepInTurn ==
  ASSUME IInv, KernelStep
  PROVE  InTurn
<1>1. readyQ' = readyQ
  BY DEF KernelStep, Scheduler, Task_schedule, Task_allBlockedFunction, Task_swap, HwiEnter, HwiExit,
     queueVars
<1> QED BY <1>1, ListsKept

LEMMA HwiStepInTurn ==
  ASSUME IInv, HwiStep
  PROVE  InTurn
<1>1. ASSUME NEW t \in Tasks, Task_sleepTimeout(t) PROVE InTurn
  <2>1. mode[t] = "BLOCKED"
    BY <1>1 DEF Task_sleepTimeout, IInv, SleepersOK
  <2>2. readyQ' = [readyQ EXCEPT ![pri[t]] = Append(@, t)]
    BY <1>1 DEF Task_sleepTimeout, Task_unblockI, Readied
  <2>3. pri[t] \in Level
    BY ListTypes DEF QueueTypeOK
  <2> QED BY <2>1, <2>2, <2>3, ListTypes, ReadiedOrder, InTurnWhenNoneOvertaken
<1>2. ASSUME NEW t \in Tasks, NEW p \in HwiLevels, HwiSetPri(t, p) PROVE InTurn
  <2>1. Task_setPri(t, p) /\ p \in Level
    BY <1>2, LevelsAssumption DEF HwiSetPri
  <2> QED BY <2>1, ListTypes, SetPriOrder, InTurnWhenNoneOvertaken
<1>3. CASE HwiYield
  BY <1>3, YieldInTurn DEF HwiYield
<1> QED BY <1>1, <1>2, <1>3 DEF HwiStep

\* A region of a call under way finds the running task ready.
LEMMA RegionOfReady ==
  ASSUME IInv, NEW t \in Tasks, InTask(t), pc[t] = "region"
  PROVE  mode[t] = "READY"
  BY InRegion DEF IInv, RunnerOK, Leaving

LEMMA CallInTurn ==
  ASSUME IInv, NEW t \in Tasks, TaskCall(t)
  PROVE  InTurn
<1>1. ASSUME NEW o, Call(t, o) PROVE InTurn
  <2>1. readyQ' = readyQ
    BY <1>1 DEF Call, queueVars
  <2> QED BY <2>1, ListsKept
<1>2. CASE SleepRegion(t)
  <2>1. mode[t] = "READY"
    BY <1>2 DEF SleepRegion, InTask, IInv, RunnerOK, Leaving
  <2>2. readyQ' = Unlinked(t)
    BY <1>2 DEF SleepRegion, Task_blockI
  <2> QED BY <2>1, <2>2, ListTypes, UnlinkedOrder, InTurnWhenNoneOvertaken
<1>3. CASE Swi_disable(t)
  <2>1. readyQ' = readyQ
    BY <1>3 DEF Swi_disable, queueVars
  <2> QED BY <2>1, ListsKept
<1> QED BY <1>1, <1>2, <1>3 DEF TaskCall

\* Task_delete and the reaping of terminated tasks.
LEMMA FinalizeInTurn ==
  ASSUME IInv, NEW u \in Tasks, Finalize(u)
  PROVE  InTurn
<1>1. CASE mode[u] = "READY"
  <2>1. readyQ' = Unlinked(u)
    BY <1>1 DEF Finalize, Task_unlink
  <2> QED BY <1>1, <2>1, ListTypes, UnlinkedOrder, InTurnWhenNoneOvertaken
<1>2. CASE mode[u] # "READY"
  <2>1. readyQ' = readyQ
    BY <1>2 DEF Finalize, Task_unlink
  <2> QED BY <2>1, ListsKept
<1> QED BY <1>1, <1>2

LEMMA ProgressInTurn ==
  ASSUME IInv, NEW t \in Tasks, TaskProgress(t)
  PROVE  InTurn
<1>1. CASE YieldRegion(t)
  BY <1>1, YieldInTurn DEF YieldRegion
<1>2. CASE SetPriRegion(t)
  <2>1. Task_setPri(op[t].task, op[t].to) /\ op[t].name = "setPri"
    BY <1>2 DEF SetPriRegion
  <2>2. op[t].task \in Tasks /\ op[t].to \in Level
    BY <2>1, ListTypes, OpFields
  <2> QED BY <2>1, <2>2, ListTypes, SetPriOrder, InTurnWhenNoneOvertaken
<1>3. CASE CreateRegion(t)
  <2>1. /\ op[t].name = "create" /\ pc[t] = "region"
        /\ readyQ' = [readyQ EXCEPT ![op[t].to] = Append(@, op[t].task)]
    BY <1>3 DEF CreateRegion, Readied
  <2>2. op[t].task \in Tasks /\ op[t].to \in Level
    BY <2>1, ListTypes, OpFields
  <2>3. mode[op[t].task] = "NONE"
    BY <2>1 DEF IInv, NamesOK
  <2> QED BY <2>1, <2>2, <2>3, ListTypes, ReadiedOrder, InTurnWhenNoneOvertaken
<1>4. CASE DeleteRegion(t)
  <2>1. op[t].name = "delete" /\ Finalize(op[t].task)
    BY <1>4 DEF DeleteRegion
  <2>2. op[t].task \in Tasks
    BY <2>1, ListTypes, OpFields
  <2> QED BY <2>1, <2>2, FinalizeInTurn
<1>5. CASE ReapRegion(t)
  <2>1. CASE terminatedQ = <<>>
    <3>1. readyQ' = readyQ
      BY <1>5, <2>1 DEF ReapRegion, queueVars
    <3> QED BY <3>1, ListsKept
  <2>2. CASE terminatedQ # <<>>
    <3>1. Finalize(Head(terminatedQ))
      BY <1>5, <2>2 DEF ReapRegion
    <3>2. Head(terminatedQ) \in Tasks
      BY <2>2 DEF IInv, TypeOK
    <3> QED BY <3>1, <3>2, FinalizeInTurn
  <2> QED BY <2>1, <2>2
<1>6. CASE ExitRegion(t)
  <2>1. InTask(t) /\ pc[t] = "region" /\ readyQ' = Unlinked(t)
    BY <1>6 DEF ExitRegion, Region
  <2> QED BY <2>1, RegionOfReady, ListTypes, UnlinkedOrder, InTurnWhenNoneOvertaken
<1>7. CASE Lock(t) \/ LockRegion(t) \/ ExitTerminated(t) \/ Restore(t) \/ Wake(t) \/ Woken(t)
           \/ Unlock(t) \/ Swi_restore(t) \/ Read(t)
  <2>1. readyQ' = readyQ
    BY <1>7 DEF Lock, LockRegion, ExitTerminated, Restore, Wake, Woken, Unlock, Swi_restore, Read,
       queueVars
  <2> QED BY <2>1, ListsKept
<1> QED BY <1>1, <1>2, <1>3, <1>4, <1>5, <1>6, <1>7 DEF TaskProgress

\* Tasks of one priority are served in the order in which they became ready: no
\* step of Task.c but Task_yield (Task.c:683-695) moves a waiting task past
\* another, and that one moves the current task only.
THEOREM FirstCome == Spec => FirstComeFirstServed
<1>1. IInv /\ [Next]_vars => [InTurn]_vars
  <2> SUFFICES ASSUME IInv, Next PROVE InTurn
    OBVIOUS
  <2> QED BY KernelStepInTurn, CallInTurn, ProgressInTurn, HwiStepInTurn DEF Next
<1>2. IInv /\ [Next]_vars =>
        [\A l \in Level, s, t \in Tasks :
           Before(s, t, readyQ[l]) /\ Before(t, s, readyQ'[l]) => s = curTask /\ curQ' = NoQ]_vars
  BY <1>1 DEF InTurn
<1> QED BY <1>2, Invariance, PTL DEF Spec, FirstComeFirstServed
=============================================================================
