-------------------------- MODULE GateMutexPriProofs --------------------------
(***************************************************************************)
(* GateMutexPri.c on the scheduler: exclusion, the order of the waiting     *)
(* lists, and priorities that are lent and given back, for any tasks,       *)
(* priorities, gates and applications.                                      *)
(***************************************************************************)
EXTENDS GateMutexPri, KernelProofs

-----------------------------------------------------------------------------
(* The inductive invariant.                                                *)

\* A call that holds the scheduler lock.
Holding == {"region", "donate", "handover", "restore"}

\* t has queued itself, on a gate or on something else, and is about to leave
\* the processor.
Leaving(t) ==
  \/ pc[t] \in {"donate", "restore"} /\ op[t].name = "wait"
  \/ pc[t] = "restore" /\ op[t].name = "pause"

\* The lock is held by the running task's call and by nobody else; when it is
\* free no reschedule is pending; a task that has queued itself does not run on,
\* for the scheduler has been told.
CallsOK ==
  /\ ~swiLocked
  /\ \A t \in Tasks : ~key[t]
  /\ \A t \in Tasks : pc[t] \in Holding => t = running /\ phase = "user"
  /\ phase = "user" => ((IF isr THEN isrKey ELSE locked) <=> pc[running] \in Holding)
  /\ ~isr /\ phase = "user" /\ ~locked => ~workFlag
  /\ phase = "user" => mode[running] = "READY" \/ Leaving(running)
  /\ \A t \in Tasks : Leaving(t) => workFlag

\* A waiter that leave has made the owner and that has yet to run.
Chosen(t) == pc[t] = "wake" /\ mode[t] = "READY"

\* Where the call of t is, and what it names.
CallOf(t) ==
  /\ pc[t] = "user" => op[t].name = "none"
  /\ pc[t] \in {"write", "region"} => op[t].name \in {"enter", "leave"}
  /\ pc[t] = "handover" => op[t].name = "leave"
  /\ pc[t] = "restore" => op[t].name \in {"enter", "leave", "wait", "pause"}
  /\ pc[t] \in {"donate", "wake"} => op[t].name = "wait"
  /\ op[t].name = "wait" => pc[t] \in {"donate", "restore", "wake"}
  /\ mode[t] \in {"READY", "BLOCKED"}

\* Distinct first enters are of distinct gates.
FirstEntersDiffer(t) ==
  \A i, j \in DOMAIN held[t] : held[t][i] = held[t][j] /\ held[t][i][2] = "FIRST_ENTER" => i = j

\* The gates are left innermost first, as they are if only one is held at a time.
InnermostFirst == app.nests \/ OneAtATime

\* How t stands to the gates: while it waits it is blocked, on the list of the
\* gate it names; it is inside the gates it owns, but for the one it is being
\* given or is giving away.
GatesOf(t) ==
  /\ \A g \in Gates : Waits(t, g) =>
       mode[t] = "BLOCKED" /\ op[t].name = "wait" /\ op[t].on = g /\ pc[t] \in {"restore", "wake"}
  /\ pc[t] = "donate" => mode[t] = "BLOCKED" /\ ~free[op[t].on] /\ t \notin owner[op[t].on]
  /\ pc[t] \in {"restore", "wake"} /\ op[t].name = "wait" =>
       \/ mode[t] = "BLOCKED" /\ Waits(t, op[t].on) /\ ~free[op[t].on] /\ t \notin owner[op[t].on]
       \/ Chosen(t) /\ owner[op[t].on] = {t} /\ ~free[op[t].on]
  /\ op[t].name = "wait" => ~Inside(t, op[t].on)
  /\ pc[t] = "handover" => owner[op[t].on] = {t} /\ ~free[op[t].on] /\ ~Inside(t, op[t].on)
  /\ op[t].name = "leave" /\ pc[t] \in {"write", "region"} =>
       /\ op[t].at \in DOMAIN held[t] /\ Left(t)[1] = op[t].on
       /\ InnermostFirst => op[t].at = Len(held[t])
  /\ \A g \in Gates : Inside(t, g) => owner[g] = {t} /\ ~free[g]
  /\ FirstEntersDiffer(t)

\* An owner has the gate in hand.
HasGate(t, g) ==
  \/ Inside(t, g)
  \/ (Chosen(t) \/ pc[t] = "handover") /\ op[t].on = g

GateOK(g) ==
  /\ NoDuplicates(gateQ[g])
  /\ free[g] => gateQ[g] = <<>>
  /\ ~free[g] => \E t \in Tasks : owner[g] = {t} /\ HasGate(t, g) /\ ownerOrigPri[g] >= InitPri[t]

\* t has read its priority and not yet used it.
Entering(t) ==
  \/ pc[t] \in {"write", "region"} /\ op[t].name = "enter"
  \/ pc[t] = "donate"

\* Nobody's priority is below its own.  Where gates are left innermost first, a
\* task that owns none has its own priority, and the gate it came to own first,
\* which it leaves last, has kept that priority.
PriOf(t) ==
  /\ InitPri[t] <= pri[t]
  /\ Entering(t) => InitPri[t] <= tskPri[t] /\ tskPri[t] <= pri[t]
  /\ InnermostFirst =>
       /\ held[t] = <<>> => IF Chosen(t) THEN ownerOrigPri[op[t].on] = InitPri[t]
                            ELSE pri[t] = InitPri[t]
       /\ held[t] # <<>> => /\ held[t][1][2] = "FIRST_ENTER"
                            /\ ownerOrigPri[held[t][1][1]] = InitPri[t]

\* t enters, waits or gives away the one gate it held.
EmptyHanded(t) == Entering(t) \/ op[t].name = "wait" \/ pc[t] = "handover"

\* With one gate at a time nobody waits above the owner, until it leaves.
LentOK ==
  OneAtATime =>
    /\ \A t \in Tasks : Len(held[t]) <= 1 /\ (EmptyHanded(t) => held[t] = <<>>)
    /\ \A g \in Gates, t \in Tasks : Waits(t, g) =>
         \A o \in owner[g] : pc[o] # "handover" => pri[t] <= pri[o]

\* How tasks and gates stand to each other.
StandOK ==
  /\ \A t \in Tasks : CallOf(t) /\ GatesOf(t) /\ PriOf(t)
  /\ \A g \in Gates : GateOK(g)
  /\ GateQueueSorted
  /\ LentOK

IInv == TypeOK /\ KernelOK /\ CallsOK /\ StandOK

-----------------------------------------------------------------------------
(* The calls.                                                              *)

\* The fields of the calls.
LEMMA OpFields ==
  /\ \A o \in Ops : o.name \in {"none", "pause", "enter", "wait", "leave"}
  /\ \A o \in Ops : o.name \in {"enter", "wait", "leave"} => o.on \in Gates
  /\ NoOp \in Ops /\ NoOp.name = "none"
  /\ [name |-> "pause"] \in Ops
  /\ \A g \in Gates : /\ [name |-> "enter", on |-> g] \in Ops
                      /\ [name |-> "wait", on |-> g] \in Ops
                      /\ \A i \in Nat \ {0} : [name |-> "leave", on |-> g, at |-> i] \in Ops
BY DEF Ops, NoOp

\* What the running task may rely on.
LEMMA InCall ==
  ASSUME IInv, NEW t \in Tasks, InTask(t)
  PROVE  /\ KernelTypeOK /\ KernelOK /\ QueueTypeOK /\ QueuesOK
         /\ running = t /\ curTask = t /\ phase = "user" /\ ~isr
         /\ UNCHANGED <<curTask, running, isr, isrKey>>
         /\ locked \in BOOLEAN /\ (locked <=> pc[t] \in Holding)
         /\ \A u \in Tasks \ {t} : pc[u] \notin Holding
         /\ ~Leaving(t) => mode[t] = "READY"
         /\ Leaving(t) => workFlag
         /\ ~locked => ~workFlag
         /\ ~swiLocked /\ \A u \in Tasks : ~key[u]
<1>1. KernelTypeOK /\ KernelOK /\ QueueTypeOK /\ QueuesOK /\ CallsOK /\ locked \in BOOLEAN
  BY DEF IInv, TypeOK, KernelTypeOK, KernelOK, ControlTypeOK
<1>2. running = t /\ phase = "user" /\ ~isr /\ UNCHANGED <<curTask, running, isr, isrKey>>
  BY DEF InTask, hwiVars
<1>3. curTask = t
  BY <1>1, <1>2 DEF KernelOK, ControlOK
<1> QED BY <1>1, <1>2, <1>3 DEF CallsOK

\* Other tasks' calls when only the call of t moves.
LEMMA OthersStay ==
  ASSUME IInv, NEW t \in Tasks, NEW l, NEW o,
         pc' = [pc EXCEPT ![t] = l], op' = [op EXCEPT ![t] = o]
  PROVE  \A u \in Tasks : /\ pc'[u] = IF u = t THEN l ELSE pc[u]
                          /\ op'[u] = IF u = t THEN o ELSE op[u]
  BY DEF IInv, TypeOK

\* After a region of t that moves its call to l with o, t alone holds the lock,
\* and the scheduler is told of what has become of the queues.
LEMMA RegionKeeps ==
  ASSUME IInv, NEW t \in Tasks, NEW l \in PCs, NEW o \in Ops, InTask(t),
         UNCHANGED <<phase, swiLocked>>,
         pc' = [pc EXCEPT ![t] = l], op' = [op EXCEPT ![t] = o],
         key' \in [Tasks -> BOOLEAN], \A u \in Tasks : ~key'[u],
         locked' \in BOOLEAN, locked' <=> l \in Holding, ~locked' => ~workFlag',
         QueueTypeOK', QueuesOK',
         workFlag' \/ (UNCHANGED <<curQ, workFlag>> /\ curSet' \subseteq curSet),
         mode'[t] = "READY" \/ Leaving(t)', Leaving(t)' => workFlag'
  PROVE  KernelTypeOK' /\ KernelOK' /\ CallsOK' /\ pc' \in [Tasks -> PCs] /\ op' \in [Tasks -> Ops]
<1>1. /\ KernelTypeOK /\ KernelOK /\ running = t /\ phase = "user" /\ ~isr
      /\ UNCHANGED <<curTask, running, isr, isrKey>> /\ ~swiLocked
      /\ \A u \in Tasks \ {t} : pc[u] \notin Holding
  BY InCall
<1>2. swiLocked' \in BOOLEAN
  BY <1>1 DEF KernelTypeOK, ControlTypeOK
<1>3. KernelTypeOK' /\ KernelOK'
  BY <1>1, <1>2, RegionPreserves
<1>4. \A u \in Tasks : /\ pc'[u] = IF u = t THEN l ELSE pc[u]
                       /\ op'[u] = IF u = t THEN o ELSE op[u]
  BY Zenon DEF IInv, TypeOK
<1>5. \A u \in Tasks : Leaving(u)' => u = t
  BY <1>1, <1>4 DEF Leaving, Holding
<1>6. CallsOK'
  BY <1>1, <1>4, <1>5 DEF CallsOK
<1> QED BY <1>3, <1>6 DEF IInv, TypeOK

\* The same when the region leaves the queues alone.
LEMMA QuietRegion ==
  ASSUME IInv, NEW t \in Tasks, NEW l \in PCs, NEW o \in Ops, InTask(t),
         UNCHANGED <<queueVars, phase, swiLocked>>,
         pc' = [pc EXCEPT ![t] = l], op' = [op EXCEPT ![t] = o],
         key' \in [Tasks -> BOOLEAN], \A u \in Tasks : ~key'[u],
         locked' \in BOOLEAN, locked' <=> l \in Holding, ~locked' => ~locked,
         Leaving(t)' <=> Leaving(t)
  PROVE  KernelTypeOK' /\ KernelOK' /\ CallsOK' /\ pc' \in [Tasks -> PCs] /\ op' \in [Tasks -> Ops]
<1>1. /\ QueueTypeOK /\ QueuesOK /\ UNCHANGED <<curTask, isr, isrKey>>
      /\ ~locked => ~workFlag
      /\ ~Leaving(t) => mode[t] = "READY"
      /\ Leaving(t) => workFlag
  BY InCall
<1>2. UNCHANGED <<mode, curQ, workFlag, curSet>>
  BY DEF queueVars
<1>3. QueueTypeOK' /\ QueuesOK'
  BY <1>1, QueuesUnchanged
<1> QED BY <1>1, <1>2, <1>3, RegionKeeps

-----------------------------------------------------------------------------
(* StandOK after a step.                                                   *)

\* A task that nothing has happened to, while the gates stay as they are.
LEMMA OthersStand ==
  ASSUME StandOK, UNCHANGED <<gateVars, app>>, NEW u \in Tasks,
         pc'[u] = pc[u], op'[u] = op[u], mode'[u] = mode[u], pri'[u] = pri[u],
         held'[u] = held[u], tskPri'[u] = tskPri[u]
  PROVE  CallOf(u)' /\ GatesOf(u)' /\ PriOf(u)'
<1>1. CallOf(u) /\ GatesOf(u) /\ PriOf(u)
  BY DEF StandOK
<1>2. UNCHANGED <<free, owner, ownerOrigPri, gateQ>>
  BY DEF gateVars
<1>3. CallOf(u)'
  BY <1>1 DEF CallOf
<1>4. GatesOf(u)'
  BY <1>1, <1>2
  DEF GatesOf, FirstEntersDiffer, Waits, Inside, Left, Chosen, InnermostFirst, OneAtATime
<1>5. PriOf(u)'
  BY <1>1 , <1>2 DEF PriOf, Entering, Chosen, InnermostFirst, OneAtATime
<1> QED BY <1>3, <1>4, <1>5

\* A step of t, or one that readies t, which leaves the gates and everyone's
\* priority as they are.
LEMMA StandKept ==
  ASSUME StandOK, TypeOK, NEW t \in Tasks, UNCHANGED <<gateVars, app, pri>>,
         \A u \in Tasks \ {t} : /\ pc'[u] = pc[u] /\ op'[u] = op[u] /\ mode'[u] = mode[u]
                                /\ held'[u] = held[u] /\ tskPri'[u] = tskPri[u],
         CallOf(t)', GatesOf(t)', PriOf(t)',
         \A g \in Gates : HasGate(t, g) => HasGate(t, g)',
         OneAtATime => Len(held'[t]) <= 1 /\ (EmptyHanded(t)' => held'[t] = <<>>),
         pc[t] # "handover"
  PROVE  StandOK'
<1>1. UNCHANGED <<free, owner, ownerOrigPri, gateQ>>
  BY DEF gateVars
<1>2. \A u \in Tasks : CallOf(u)' /\ GatesOf(u)' /\ PriOf(u)'
  <2> SUFFICES ASSUME NEW u \in Tasks PROVE CallOf(u)' /\ GatesOf(u)' /\ PriOf(u)'
    OBVIOUS
  <2>1. CASE u = t
    BY <2>1
  <2>2. CASE u # t
    BY <2>2, OthersStand
  <2> QED BY <2>1, <2>2
<1>3. ASSUME NEW g \in Gates PROVE GateOK(g)'
  <2>1. GateOK(g)
    BY DEF StandOK
  <2>2. ASSUME ~free[g]
        PROVE  \E u \in Tasks : owner'[g] = {u} /\ HasGate(u, g)' /\ ownerOrigPri'[g] >= InitPri[u]
    <3>1. PICK u \in Tasks : owner[g] = {u} /\ HasGate(u, g) /\ ownerOrigPri[g] >= InitPri[u]
      BY <2>1, <2>2 DEF GateOK
    <3>2. HasGate(u, g)'
      <4>1. CASE u = t
        BY <3>1, <4>1
      <4>2. CASE u # t
        BY <3>1, <4>2 DEF HasGate, Inside, Chosen
      <4> QED BY <4>1, <4>2
    <3> QED BY <1>1, <3>1, <3>2
  <2> QED BY <1>1, <2>1, <2>2 DEF GateOK
<1>4. GateQueueSorted'
  BY <1>1 DEF StandOK, GateQueueSorted
<1>5. LentOK'
  <2> SUFFICES ASSUME OneAtATime PROVE LentOK'
    BY DEF LentOK, OneAtATime
  <2>1. \A u \in Tasks : Len(held[u]) <= 1 /\ (EmptyHanded(u) => held[u] = <<>>)
    BY DEF StandOK, LentOK
  <2>2. \A u \in Tasks : Len(held'[u]) <= 1 /\ (EmptyHanded(u)' => held'[u] = <<>>)
    BY <2>1 DEF Entering, EmptyHanded
  <2>3. ASSUME NEW g \in Gates, NEW u \in Tasks, Waits(u, g)', NEW w \in owner'[g], pc'[w] # "handover"
        PROVE  pri'[u] <= pri'[w]
    <3>1. w \in owner[g] /\ Waits(u, g) /\ w \in Tasks
      BY <1>1, <2>3 DEF Waits, TypeOK
    <3>2. pc[w] # "handover"
      BY <2>3, <3>1
    <3> QED BY <3>1, <3>2 DEF StandOK, LentOK
  <2> QED BY <2>2, <2>3 DEF LentOK
<1> QED BY <1>2, <1>3, <1>4, <1>5 DEF StandOK

-----------------------------------------------------------------------------
(* The initial state, the scheduler and the interrupt dispatcher.          *)

\* The state Task_startCore leaves, with every gate free, satisfies IInv.
LEMMA InitIInv == Init => IInv
<1> SUFFICES ASSUME Init PROVE IInv
  OBVIOUS
<1> USE DEF Init, InitCalls
<1>1. KernelTypeOK /\ KernelOK /\ mode[running] = "READY"
  BY InitPriAssumption, KernelStarts
<1>2. \A t \in Tasks : InitPri[t] \in Level /\ pri[t] = InitPri[t] /\ mode[t] = "READY"
  BY InitPriAssumption DEF KernelInit
<1>3. TypeOK
  <2>1. 0 \in Level
    BY NumPriAssumption DEF Level, Priority
  <2>2. tskPri \in [Tasks -> Level] /\ held \in [Tasks -> Seq(Gates \X Keys)]
    BY <1>2
  <2>3. /\ free \in [Gates -> BOOLEAN] /\ owner \in [Gates -> SUBSET Tasks] /\ app \in Apps
        /\ ownerOrigPri \in [Gates -> Level] /\ gateQ \in [Gates -> Seq(Tasks)]
    BY <2>1
  <2>4. pc \in [Tasks -> PCs] /\ op \in [Tasks -> Ops] /\ key \in [Tasks -> BOOLEAN]
    BY OpFields DEF PCs
  <2> QED BY <1>1, <2>2, <2>3, <2>4 DEF TypeOK
<1>4. CallsOK
  BY <1>1 DEF CallsOK, KernelInit, KernelTypeOK, ControlTypeOK, Holding, Leaving
<1>5. ASSUME NEW t \in Tasks PROVE CallOf(t) /\ GatesOf(t)
  BY <1>2, OpFields DEF CallOf, GatesOf, FirstEntersDiffer, Waits, Linked, Inside, Chosen
<1>6. ASSUME NEW t \in Tasks PROVE PriOf(t)
  BY <1>2 DEF PriOf, Entering, Chosen, Level, Priority, Inactive
<1>7. \A g \in Gates : GateOK(g)
  BY DEF GateOK, NoDuplicates
<1>8. GateQueueSorted
  BY DEF GateQueueSorted
<1>9. LentOK
  BY OpFields DEF LentOK, EmptyHanded, Entering, Waits, Linked
<1> QED BY <1>1, <1>3, <1>4, <1>5, <1>6, <1>7, <1>8, <1>9 DEF IInv, StandOK

\* The scheduler and the interrupt dispatcher touch no call and no gate, and
\* give the processor to a task that is ready.
LEMMA KernelStepCalls ==
  ASSUME IInv, KernelStep
  PROVE  /\ KernelTypeOK' /\ KernelOK' /\ CallsOK'
         /\ UNCHANGED <<mode, pri, pc, op, key, gateVars, userVars>>
<1>1. KernelTypeOK /\ KernelOK /\ CallsOK
  BY DEF IInv, TypeOK
<1>2. UNCHANGED <<pc, op, key, gateVars, userVars>>
  BY DEF KernelStep, KernelOnly, callVars
<1>3. /\ UNCHANGED <<mode, pri>>
      /\ phase = "user" /\ ~isr => workFlag' = workFlag
  BY DEF KernelStep, Scheduler, Task_schedule, Task_allBlockedFunction, Task_swap,
         HwiEnter, HwiExit, queueVars
<1>4. KernelTypeOK' /\ KernelOK'
  BY <1>1, Task_schedulePreserves, Task_allBlockedFunctionPreserves, Task_swapPreserves,
     HwiEnterPreserves, HwiExitPreserves DEF KernelStep, Scheduler
<1>5. \A t \in Tasks : Leaving(t)' <=> Leaving(t)
  BY <1>2 DEF Leaving
<1>6. CASE Scheduler
  <2>1. /\ phase # "user" /\ ~isr' /\ ~swiLocked'
        /\ (phase' = "user" => locked' = FALSE /\ workFlag' = FALSE)
    BY <1>6, <1>1 DEF Scheduler, Task_schedule, Task_allBlockedFunction, Task_swap,
       Task_schedule_select, LoopTest, hwiVars, queueVars, KernelOK, ControlOK, CallsOK,
       KernelTypeOK, QueueTypeOK
  <2>2. phase' = "user" => mode'[running'] = "READY"
    BY <1>6, <1>1, Task_schedulePreserves, Task_allBlockedFunctionPreserves, Task_swapPreserves
    DEF Scheduler
  <2>3. \A t \in Tasks : pc[t] \notin Holding /\ ~Leaving(t)
    BY <1>1, <2>1 DEF CallsOK, Leaving, Holding
  <2>4. running' \in Tasks
    BY <1>4 DEF KernelTypeOK, ControlTypeOK
  <2>5. CallsOK'
    BY <1>1, <1>2, <1>5, <2>1, <2>2, <2>3, <2>4 DEF CallsOK
  <2> QED BY <1>2, <1>3, <1>4, <2>5
<1>7. CASE HwiEnter
  <2>1. /\ ~isr /\ isr' /\ isrKey' = locked /\ running \in Tasks
        /\ UNCHANGED <<running, phase, swiLocked, workFlag>>
    BY <1>1, <1>7 DEF HwiEnter, queueVars, KernelTypeOK, ControlTypeOK
  <2>2. CallsOK'
    BY <1>1, <1>2, <1>3, <1>5, <2>1 DEF CallsOK
  <2> QED BY <1>2, <1>3, <1>4, <2>2
<1>8. CASE HwiExit
  <2>1. /\ isr /\ isr' = FALSE /\ UNCHANGED <<running, swiLocked, workFlag>>
        /\ (phase # "user" => isrKey) /\ locked /\ ~swiLocked /\ running \in Tasks
        /\ \/ isrKey /\ UNCHANGED <<phase, locked>>
           \/ ~isrKey /\ workFlag /\ phase' = "pick" /\ UNCHANGED locked
           \/ ~isrKey /\ UNCHANGED phase /\ locked' = FALSE /\ ~workFlag
    BY <1>8, <1>1 DEF HwiExit, Task_restore, Swi_enabled, queueVars, KernelOK, ControlOK,
       CallsOK, KernelTypeOK, ControlTypeOK, QueueTypeOK
  <2>2. CallsOK'
    BY <1>1, <1>2, <1>3, <1>5, <2>1 DEF CallsOK
  <2> QED BY <1>2, <1>3, <1>4, <2>2
<1> QED BY <1>6, <1>7, <1>8 DEF KernelStep

\* Nothing changes that StandOK names.
LEMMA StandUnchanged ==
  ASSUME StandOK, UNCHANGED <<mode, pri, pc, op, gateVars, userVars>>
  PROVE  StandOK'
<1>1. UNCHANGED <<free, owner, ownerOrigPri, gateQ, app, tskPri, held>>
  BY DEF gateVars, userVars
<1>2. \A t \in Tasks : CallOf(t)' /\ GatesOf(t)' /\ PriOf(t)'
  BY OthersStand, <1>1
<1>3. \A g \in Gates : GateOK(g)'
  BY <1>1 DEF StandOK, GateOK, HasGate, Inside, Chosen
<1>4. GateQueueSorted'
  BY <1>1 DEF StandOK, GateQueueSorted
<1>5. LentOK'
  BY <1>1 DEF StandOK, LentOK, OneAtATime, EmptyHanded, Entering, Waits
<1> QED BY <1>2, <1>3, <1>4, <1>5 DEF StandOK

LEMMA KernelStepPreserves ==
  ASSUME IInv, KernelStep
  PROVE  IInv'
<1>1. /\ KernelTypeOK' /\ KernelOK' /\ CallsOK'
      /\ UNCHANGED <<mode, pri, pc, op, key, gateVars, userVars>>
  BY KernelStepCalls
<1>2. UNCHANGED <<free, owner, ownerOrigPri, gateQ, app, tskPri, held>>
  BY <1>1 DEF gateVars, userVars
<1>3. TypeOK'
  BY <1>1, <1>2 DEF IInv, TypeOK
<1>4. StandOK'
  BY <1>1, StandUnchanged DEF IInv
<1> QED BY <1>1, <1>3, <1>4 DEF IInv

-----------------------------------------------------------------------------
(* Steps of a task that leave the gates, the queues and everyone's priority *)
(* as they are.                                                            *)

LEMMA QuietStep ==
  ASSUME IInv, NEW t \in Tasks, NEW l \in PCs, NEW o \in Ops, InTask(t),
         UNCHANGED <<queueVars, phase, swiLocked, gateVars, app>>,
         pc' = [pc EXCEPT ![t] = l], op' = [op EXCEPT ![t] = o],
         key' \in [Tasks -> BOOLEAN], \A u \in Tasks : ~key'[u],
         locked' \in BOOLEAN, locked' <=> l \in Holding, ~locked' => ~locked,
         Leaving(t)' <=> Leaving(t),
         NEW p \in Level, tskPri' = [tskPri EXCEPT ![t] = p],
         NEW h \in Seq(Gates \X Keys), held' = [held EXCEPT ![t] = h],
         CallOf(t)', GatesOf(t)', PriOf(t)',
         \A g \in Gates : HasGate(t, g) => HasGate(t, g)',
         OneAtATime => Len(h) <= 1 /\ (EmptyHanded(t)' => h = <<>>),
         pc[t] # "handover"
  PROVE  IInv'
<1>1. KernelTypeOK' /\ KernelOK' /\ CallsOK' /\ pc' \in [Tasks -> PCs] /\ op' \in [Tasks -> Ops]
  BY QuietRegion
<1>2. UNCHANGED <<mode, pri, free, owner, ownerOrigPri, gateQ>>
  BY DEF queueVars, gateVars
<1>3. \A u \in Tasks : /\ pc'[u] = IF u = t THEN l ELSE pc[u]
                       /\ op'[u] = IF u = t THEN o ELSE op[u]
                       /\ tskPri'[u] = IF u = t THEN p ELSE tskPri[u]
                       /\ held'[u] = IF u = t THEN h ELSE held[u]
  BY Zenon DEF IInv, TypeOK
<1>4. TypeOK'
  BY <1>1, <1>2 DEF IInv, TypeOK
<1>5. StandOK'
  <2>1. \A u \in Tasks \ {t} : /\ pc'[u] = pc[u] /\ op'[u] = op[u] /\ mode'[u] = mode[u]
                               /\ held'[u] = held[u] /\ tskPri'[u] = tskPri[u]
    BY <1>2, <1>3
  <2>2. OneAtATime => Len(held'[t]) <= 1 /\ (EmptyHanded(t)' => held'[t] = <<>>)
    BY <1>3
  <2> QED BY <1>2, <2>1, <2>2, StandKept DEF IInv
<1> QED BY <1>1, <1>4, <1>5 DEF IInv

\* The call of enter, which reads the caller's priority.
LEMMA EnterCallPreserves ==
  ASSUME IInv, NEW t \in Tasks, NEW g \in Gates, EnterCall(t, g)
  PROVE  IInv'
<1> DEFINE o == [name |-> "enter", on |-> g]
<1>1. /\ InTask(t) /\ pc[t] = "user" /\ pc' = [pc EXCEPT ![t] = "write"]
      /\ op' = [op EXCEPT ![t] = o] /\ key' = [key EXCEPT ![t] = locked]
      /\ UNCHANGED <<queueVars, locked, swiLocked, phase, gateVars, app>>
      /\ tskPri' = [tskPri EXCEPT ![t] = pri[t]] /\ held' = [held EXCEPT ![t] = held[t]]
      /\ UNCHANGED held /\ Len(held[t]) < app.depth
  BY DEF EnterCall, Call, At, Goto, IInv, TypeOK
<1>2. o \in Ops /\ o.name = "enter" /\ "write" \in PCs
  BY OpFields DEF PCs
<1> HIDE DEF o
<1>3. ~locked /\ locked \in BOOLEAN /\ mode[t] = "READY"
  BY <1>1, InCall DEF Holding, Leaving
<1>4. key' \in [Tasks -> BOOLEAN] /\ \A u \in Tasks : ~key'[u]
  BY <1>1, <1>3 DEF IInv, TypeOK, CallsOK
<1>5. pri[t] \in Level /\ held[t] \in Seq(Gates \X Keys) /\ app.depth \in Nat
  BY AppsAssumption DEF IInv, TypeOK, KernelTypeOK, QueueTypeOK
<1>6. /\ pc'[t] = "write" /\ op'[t] = o /\ tskPri'[t] = pri[t] /\ op[t].name = "none"
      /\ UNCHANGED <<mode, pri, free, owner, ownerOrigPri, gateQ>>
  BY <1>1 DEF IInv, TypeOK, queueVars, gateVars, StandOK, CallOf
<1>7. CallOf(t) /\ GatesOf(t) /\ PriOf(t)
  BY DEF IInv, StandOK
<1>8. CallOf(t)'
  BY <1>2, <1>3, <1>6 DEF CallOf
<1>9. GatesOf(t)'
  BY <1>1, <1>2, <1>6, <1>7 DEF GatesOf, FirstEntersDiffer, Waits, Inside
<1>10. PriOf(t)'
  BY <1>1, <1>2, <1>5, <1>6, <1>7, InitPriAssumption
  DEF PriOf, Chosen, Level, Priority, Inactive, InnermostFirst, OneAtATime
<1>11. \A f \in Gates : HasGate(t, f) => HasGate(t, f)'
  BY <1>1, <1>6 DEF HasGate, Inside, Chosen
<1>12. OneAtATime => Len(held[t]) <= 1 /\ (EmptyHanded(t)' => held[t] = <<>>)
  BY <1>1, <1>5 DEF OneAtATime
<1>13. ~Leaving(t) /\ ~Leaving(t)'
  BY <1>1, <1>6 DEF Leaving
<1>14. "write" \notin Holding
  BY DEF Holding
<1> QED BY <1>1, <1>2, <1>3, <1>4, <1>5, <1>8, <1>9, <1>10, <1>11, <1>12, <1>13, <1>14, QuietStep

\* The call of leave.
LEMMA LeaveCallPreserves ==
  ASSUME IInv, NEW t \in Tasks, LeaveCall(t)
  PROVE  IInv'
<1>0. PICK i \in DOMAIN held[t] :
        /\ \A j \in DOMAIN held[t] : j > i => ~app.nests
        /\ Call(t, [name |-> "leave", on |-> held[t][i][1], at |-> i])
  BY DEF LeaveCall
<1> DEFINE o == [name |-> "leave", on |-> held[t][i][1], at |-> i]
<1>1. /\ InTask(t) /\ pc[t] = "user" /\ pc' = [pc EXCEPT ![t] = "write"]
      /\ op' = [op EXCEPT ![t] = o] /\ key' = [key EXCEPT ![t] = locked]
      /\ UNCHANGED <<queueVars, locked, swiLocked, phase, gateVars, app>>
      /\ tskPri' = [tskPri EXCEPT ![t] = tskPri[t]] /\ held' = [held EXCEPT ![t] = held[t]]
      /\ UNCHANGED <<held, tskPri>>
  BY <1>0 DEF LeaveCall, Call, At, Goto, IInv, TypeOK, userVars
<1>2. held[t] \in Seq(Gates \X Keys) /\ tskPri[t] \in Level
  BY DEF IInv, TypeOK
<1>3. held[t][i][1] \in Gates /\ i \in Nat \ {0} /\ i <= Len(held[t]) /\ Len(held[t]) \in DOMAIN held[t]
  BY <1>2
<1>4. o \in Ops /\ o.name = "leave" /\ "write" \in PCs /\ o.on = held[t][i][1] /\ o.at = i
  BY <1>3, OpFields DEF PCs
<1> HIDE DEF o
<1>16. InnermostFirst => i = Len(held[t])
  <2>1. CASE app.nests
    BY <1>0, <1>2, <1>3, <2>1
  <2>2. OneAtATime => Len(held[t]) <= 1
    BY DEF IInv, StandOK, LentOK
  <2> QED BY <1>2, <1>3, <2>1, <2>2 DEF InnermostFirst
<1>5. ~locked /\ locked \in BOOLEAN /\ mode[t] = "READY"
  BY <1>1, InCall DEF Holding, Leaving
<1>6. key' \in [Tasks -> BOOLEAN] /\ \A u \in Tasks : ~key'[u]
  BY <1>1, <1>5 DEF IInv, TypeOK, CallsOK
<1>7. /\ pc'[t] = "write" /\ op'[t] = o /\ op[t].name = "none"
      /\ UNCHANGED <<mode, pri, free, owner, ownerOrigPri, gateQ>>
  BY <1>1 DEF IInv, TypeOK, queueVars, gateVars, StandOK, CallOf
<1>8. CallOf(t) /\ GatesOf(t) /\ PriOf(t)
  BY DEF IInv, StandOK
<1>9. CallOf(t)'
  BY <1>4, <1>5, <1>7 DEF CallOf
<1>10. GatesOf(t)'
  <2>1. /\ op'[t].at \in DOMAIN held'[t] /\ Left(t)'[1] = op'[t].on
        /\ InnermostFirst' => op'[t].at = Len(held'[t])
    BY <1>1, <1>4, <1>7, <1>16 DEF Left, InnermostFirst, OneAtATime
  <2> QED BY <1>1, <1>4, <1>7, <1>8, <2>1 DEF GatesOf, FirstEntersDiffer, Waits, Inside
<1>11. PriOf(t)'
  BY <1>1, <1>4, <1>7, <1>8 DEF PriOf, Chosen, Entering, InnermostFirst, OneAtATime
<1>12. \A f \in Gates : HasGate(t, f) => HasGate(t, f)'
  BY <1>1, <1>7 DEF HasGate, Inside, Chosen
<1>13. OneAtATime => Len(held[t]) <= 1 /\ (EmptyHanded(t)' => held[t] = <<>>)
  BY <1>1, <1>4, <1>7 DEF IInv, StandOK, LentOK, EmptyHanded, Entering
<1>14. ~Leaving(t) /\ ~Leaving(t)'
  BY <1>1, <1>7 DEF Leaving
<1>15. "write" \notin Holding
  BY DEF Holding
<1> QED BY <1>1, <1>2, <1>4, <1>5, <1>6, <1>9, <1>10, <1>11, <1>12, <1>13, <1>14, <1>15, QuietStep

\* The write of Task_disable.
LEMMA LockPreserves ==
  ASSUME IInv, NEW t \in Tasks, Lock(t), UNCHANGED <<gateVars, userVars>>
  PROVE  IInv'
<1>1. /\ InTask(t) /\ pc[t] = "write" /\ pc' = [pc EXCEPT ![t] = "region"]
      /\ op' = [op EXCEPT ![t] = op[t]] /\ locked' = TRUE
      /\ UNCHANGED <<queueVars, swiLocked, phase, gateVars, app, op, key>>
      /\ tskPri' = [tskPri EXCEPT ![t] = tskPri[t]] /\ held' = [held EXCEPT ![t] = held[t]]
      /\ UNCHANGED <<held, tskPri>>
  BY DEF Lock, At, Goto, IInv, TypeOK, userVars
<1>2. held[t] \in Seq(Gates \X Keys) /\ tskPri[t] \in Level /\ op[t] \in Ops /\ "region" \in PCs
  BY DEF IInv, TypeOK, PCs
<1>3. key' \in [Tasks -> BOOLEAN] /\ \A u \in Tasks : ~key'[u]
  BY <1>1 DEF IInv, TypeOK, CallsOK
<1>4. pc'[t] = "region" /\ UNCHANGED <<mode, pri, free, owner, ownerOrigPri, gateQ>>
  BY <1>1 DEF IInv, TypeOK, queueVars, gateVars
<1>5. CallOf(t) /\ GatesOf(t) /\ PriOf(t)
  BY DEF IInv, StandOK
<1>6. CallOf(t)'
  BY <1>1, <1>4, <1>5 DEF CallOf
<1>7. GatesOf(t)'
  BY <1>1, <1>4, <1>5
  DEF GatesOf, FirstEntersDiffer, Waits, Inside, Left, InnermostFirst, OneAtATime
<1>8. PriOf(t)'
  BY <1>1, <1>4, <1>5 DEF PriOf, Chosen, Entering, InnermostFirst, OneAtATime
<1>9. \A f \in Gates : HasGate(t, f) => HasGate(t, f)'
  BY <1>1, <1>4 DEF HasGate, Inside, Chosen
<1>10. OneAtATime => Len(held[t]) <= 1 /\ (EmptyHanded(t)' => held[t] = <<>>)
  BY <1>1, <1>4 DEF IInv, StandOK, LentOK, EmptyHanded, Entering
<1>11. ~Leaving(t) /\ ~Leaving(t)'
  BY <1>1, <1>4 DEF Leaving
<1>12. "region" \in Holding
  BY DEF Holding
<1> QED BY <1>1, <1>2, <1>3, <1>6, <1>7, <1>8, <1>9, <1>10, <1>11, <1>12, QuietStep

\* What a task is inside of after one more enter.
LEMMA HeldGrows ==
  ASSUME NEW t \in Tasks, held[t] \in Seq(Gates \X Keys), NEW g \in Gates, NEW k \in Keys,
         held'[t] = Append(held[t], <<g, k>>)
  PROVE  /\ held'[t] \in Seq(Gates \X Keys) /\ held'[t] # <<>> /\ Len(held'[t]) = Len(held[t]) + 1
         /\ held'[t][1] = IF held[t] = <<>> THEN <<g, k>> ELSE held[t][1]
         /\ \A f \in Gates : Inside(t, f)' <=> Inside(t, f) \/ (f = g /\ k = "FIRST_ENTER")
         /\ FirstEntersDiffer(t) /\ (k = "FIRST_ENTER" => ~Inside(t, g)) => FirstEntersDiffer(t)'
<1> DEFINE h == held'[t]
<1>1. <<g, k>> \in Gates \X Keys
  OBVIOUS
<1>2. /\ h \in Seq(Gates \X Keys) /\ h # <<>> /\ Len(h) = Len(held[t]) + 1 /\ Len(held[t]) \in Nat
      /\ \A i \in 1 .. Len(h) : h[i] = IF i <= Len(held[t]) THEN held[t][i] ELSE <<g, k>>
      /\ DOMAIN held[t] = 1 .. Len(held[t]) /\ DOMAIN h = 1 .. Len(h)
  BY <1>1
<1>3. h[1] = IF held[t] = <<>> THEN <<g, k>> ELSE held[t][1]
  BY <1>2
<1> HIDE DEF h
<1>4. /\ \A i \in DOMAIN held[t] : i \in DOMAIN h /\ h[i] = held[t][i]
      /\ \A i \in DOMAIN h : i \in DOMAIN held[t] \/ i = Len(h)
      /\ Len(h) \in DOMAIN h /\ h[Len(h)] = <<g, k>>
  BY <1>2
<1>5. \A f \in Gates : Inside(t, f)' <=> Inside(t, f) \/ (f = g /\ k = "FIRST_ENTER")
  <2> SUFFICES ASSUME NEW f \in Gates
               PROVE  Inside(t, f)' <=> Inside(t, f) \/ (f = g /\ k = "FIRST_ENTER")
    OBVIOUS
  <2>1. Inside(t, f)' <=> \E i \in DOMAIN h : h[i] = <<f, "FIRST_ENTER">>
    BY DEF Inside, h
  <2>2. <<g, k>> = <<f, "FIRST_ENTER">> <=> f = g /\ k = "FIRST_ENTER"
    OBVIOUS
  <2> QED BY <1>4, <2>1, <2>2, Zenon DEF Inside
<1>6. ASSUME FirstEntersDiffer(t), k = "FIRST_ENTER" => ~Inside(t, g)
      PROVE  FirstEntersDiffer(t)'
  <2>1. ASSUME NEW i \in DOMAIN h, NEW j \in DOMAIN h, h[i] = h[j], h[i][2] = "FIRST_ENTER"
        PROVE  i = j
    <3>1. \A n \in DOMAIN held[t] : held[t][n] = <<g, k>> => k # "FIRST_ENTER"
      BY <1>6 DEF Inside
    <3>2. <<g, k>>[2] = k
      OBVIOUS
    <3> QED BY <1>4, <1>6, <2>1, <3>1, <3>2 DEF FirstEntersDiffer
  <2> QED BY <2>1 DEF FirstEntersDiffer, h
<1> QED BY <1>2, <1>3, <1>5, <1>6 DEF h

\* Two sequences end to end.
LEMMA ConcatIs ==
  ASSUME NEW S, NEW p \in Seq(S), NEW s \in Seq(S)
  PROVE  /\ p \o s \in Seq(S) /\ Len(p \o s) = Len(p) + Len(s)
         /\ \A j \in 1 .. Len(p) + Len(s) : (p \o s)[j] = IF j <= Len(p) THEN p[j] ELSE s[j - Len(p)]
  OBVIOUS

\* A sequence without its ith element.
LEMMA RemovedIs ==
  ASSUME NEW S, NEW s \in Seq(S), NEW i \in DOMAIN s
  PROVE  /\ RemoveAt(s, i) \in Seq(S) /\ Len(RemoveAt(s, i)) = Len(s) - 1
         /\ \A j \in DOMAIN RemoveAt(s, i) :
              RemoveAt(s, i)[j] = IF j < i THEN s[j] ELSE s[j + 1]
<1> DEFINE a == SubSeq(s, 1, i - 1)
           b == SubSeq(s, i + 1, Len(s))
           n == Len(s)
<1>1. n \in Nat /\ i \in 1 .. n /\ DOMAIN s = 1 .. n
  OBVIOUS
<1>2. a \in Seq(S) /\ Len(a) = i - 1 /\ \A j \in 1 .. i - 1 : a[j] = s[j]
  BY <1>1
<1>3. b \in Seq(S) /\ Len(b) = n - i /\ \A j \in 1 .. n - i : b[j] = s[i + j]
  BY <1>1
<1>4. RemoveAt(s, i) = a \o b
  BY DEF RemoveAt
<1> HIDE DEF a, b, n
<1>5. /\ a \o b \in Seq(S) /\ Len(a \o b) = n - 1 /\ DOMAIN (a \o b) = 1 .. n - 1
      /\ \A j \in 1 .. n - 1 : (a \o b)[j] = IF j <= Len(a) THEN a[j] ELSE b[j - Len(a)]
  <2>1. /\ a \o b \in Seq(S) /\ Len(a \o b) = Len(a) + Len(b)
        /\ \A j \in 1 .. Len(a) + Len(b) : (a \o b)[j] = IF j <= Len(a) THEN a[j] ELSE b[j - Len(a)]
    BY <1>2, <1>3, ConcatIs
  <2>2. Len(a) + Len(b) = n - 1
    BY <1>1, <1>2, <1>3
  <2> QED BY <2>1, <2>2
<1>6. \A j \in 1 .. n - 1 : (a \o b)[j] = IF j < i THEN s[j] ELSE s[j + 1]
  <2> SUFFICES ASSUME NEW j \in 1 .. n - 1
               PROVE  (a \o b)[j] = IF j < i THEN s[j] ELSE s[j + 1]
    OBVIOUS
  <2>1. CASE j < i
    BY <1>1, <1>2, <1>5, <2>1
  <2>2. CASE ~(j < i)
    <3>1. j - Len(a) \in 1 .. n - i /\ i + (j - Len(a)) = j + 1 /\ ~(j <= Len(a))
      BY <1>1, <1>2, <2>2
    <3>2. b[j - Len(a)] = s[i + (j - Len(a))]
      BY <1>3, <3>1
    <3> QED BY <1>5, <2>2, <3>1, <3>2
  <2> QED BY <2>1, <2>2
<1> QED BY <1>4, <1>5, <1>6 DEF n

\* What a task is inside of after a leave.
LEMMA HeldShrinks ==
  ASSUME NEW t \in Tasks, held[t] \in Seq(Gates \X Keys), op[t].at \in DOMAIN held[t],
         FirstEntersDiffer(t), held'[t] = RemoveAt(held[t], op[t].at)
  PROVE  /\ Left(t) \in Gates \X Keys
         /\ held'[t] \in Seq(Gates \X Keys) /\ Len(held'[t]) = Len(held[t]) - 1
         /\ op[t].at = Len(held[t]) /\ held'[t] # <<>> => held'[t][1] = held[t][1]
         /\ \A f \in Gates : Inside(t, f)' <=> Inside(t, f) /\ Left(t) # <<f, "FIRST_ENTER">>
         /\ FirstEntersDiffer(t)'
<1> DEFINE h == held'[t]
           a == op[t].at
           n == Len(held[t])
           from(j) == IF j < a THEN j ELSE j + 1
<1>1. /\ h \in Seq(Gates \X Keys) /\ Len(h) = n - 1
      /\ \A j \in DOMAIN h : h[j] = IF j < a THEN held[t][j] ELSE held[t][j + 1]
  BY RemovedIs
<1>2. /\ n \in Nat /\ a \in 1 .. n /\ DOMAIN held[t] = 1 .. n /\ DOMAIN h = 1 .. n - 1
      /\ Left(t) = held[t][a] /\ Left(t) \in Gates \X Keys
  BY <1>1 DEF Left
<1>3. a = n /\ h # <<>> => h[1] = held[t][1]
  <2> SUFFICES ASSUME a = n, h # <<>> PROVE h[1] = held[t][1]
    OBVIOUS
  <2>1. Len(h) > 0
    BY <1>1
  <2> QED BY <1>1, <1>2, <2>1
<1> HIDE DEF h, a, n
<1>4. \A j \in DOMAIN h : /\ from(j) \in DOMAIN held[t] \ {a} /\ h[j] = held[t][from(j)]
                          /\ \A k \in DOMAIN h : from(j) = from(k) => j = k
  BY <1>1, <1>2
<1>5. \A k \in DOMAIN held[t] \ {a} : \E j \in DOMAIN h : from(j) = k
  <2> SUFFICES ASSUME NEW k \in DOMAIN held[t] \ {a} PROVE \E j \in DOMAIN h : from(j) = k
    OBVIOUS
  <2>1. CASE k < a
    BY <1>2, <2>1
  <2>2. CASE ~(k < a)
    <3>1. k - 1 \in DOMAIN h /\ from(k - 1) = k
      BY <1>2, <2>2
    <3> QED BY <3>1
  <2> QED BY <2>1, <2>2
<1> HIDE DEF from
<1>6. \A f \in Gates : Inside(t, f)' <=> Inside(t, f) /\ Left(t) # <<f, "FIRST_ENTER">>
  <2> SUFFICES ASSUME NEW f \in Gates
               PROVE  Inside(t, f)' <=> Inside(t, f) /\ Left(t) # <<f, "FIRST_ENTER">>
    OBVIOUS
  <2>1. Inside(t, f)' <=> \E j \in DOMAIN h : h[j] = <<f, "FIRST_ENTER">>
    BY DEF Inside, h
  <2>2. <<f, "FIRST_ENTER">>[2] = "FIRST_ENTER"
    OBVIOUS
  <2>3. \A j \in DOMAIN h : h[j] = <<f, "FIRST_ENTER">> => Left(t) # <<f, "FIRST_ENTER">>
    <3> SUFFICES ASSUME NEW j \in DOMAIN h, h[j] = <<f, "FIRST_ENTER">>,
                        Left(t) = <<f, "FIRST_ENTER">>
                 PROVE  FALSE
      OBVIOUS
    <3>1. held[t][from(j)] = held[t][a] /\ held[t][from(j)][2] = "FIRST_ENTER" /\ from(j) # a
      BY <1>2, <1>4, <2>2
    <3>2. from(j) \in DOMAIN held[t] /\ a \in DOMAIN held[t]
      BY <1>2, <1>4
    <3> QED BY <3>1, <3>2 DEF FirstEntersDiffer
  <2>4. \A k \in DOMAIN held[t] : held[t][k] # Left(t) => \E j \in DOMAIN h : h[j] = held[t][k]
    BY <1>2, <1>4, <1>5
  <2>5. \A j \in DOMAIN h : \E k \in DOMAIN held[t] : h[j] = held[t][k]
    BY <1>4
  <2> QED BY <2>1, <2>3, <2>4, <2>5, Zenon DEF Inside
<1>7. FirstEntersDiffer(t)'
  <2> SUFFICES ASSUME NEW i \in DOMAIN h, NEW j \in DOMAIN h, h[i] = h[j], h[i][2] = "FIRST_ENTER"
               PROVE  i = j
    BY DEF FirstEntersDiffer, h
  <2>1. from(i) = from(j)
    BY <1>4 DEF FirstEntersDiffer
  <2> QED BY <1>4, <2>1
<1> QED BY <1>1, <1>2, <1>3, <1>6, <1>7 DEF h, a, n

\* An owner that is in a region of enter or leave is inside the gate.
LEMMA OwnerIsInside ==
  ASSUME IInv, NEW t \in Tasks, NEW g \in Gates, pc[t] = "region", ~free[g], t \in owner[g]
  PROVE  owner[g] = {t} /\ Inside(t, g)
<1>1. PICK u \in Tasks : owner[g] = {u} /\ HasGate(u, g)
  BY DEF IInv, StandOK, GateOK
<1> QED BY <1>1 DEF HasGate, Chosen

\* A nested enter of the owner.
LEMMA EnterNestedPreserves ==
  ASSUME IInv, NEW t \in Tasks, EnterNested(t)
  PROVE  IInv'
<1> DEFINE g == op[t].on
           h == Append(held[t], <<g, "NESTED_ENTER">>)
<1>1. /\ InTask(t) /\ pc[t] = "region" /\ op[t].name = "enter" /\ pc' = [pc EXCEPT ![t] = "restore"]
      /\ op' = [op EXCEPT ![t] = op[t]] /\ ~free[g] /\ t \in owner[g]
      /\ UNCHANGED <<queueVars, locked, swiLocked, phase, gateVars, app, op, key, tskPri>>
      /\ tskPri' = [tskPri EXCEPT ![t] = tskPri[t]] /\ held' = [held EXCEPT ![t] = h]
  BY DEF EnterNested, Calling, At, Goto, Entered, IInv, TypeOK
<1>2. /\ held[t] \in Seq(Gates \X Keys) /\ tskPri[t] \in Level /\ op[t] \in Ops
      /\ "restore" \in PCs /\ g \in Gates
  BY <1>1, OpFields DEF IInv, TypeOK, PCs
<1>3. /\ pc'[t] = "restore" /\ held'[t] = h
      /\ UNCHANGED <<mode, pri, free, owner, ownerOrigPri, gateQ>>
  BY <1>1 DEF IInv, TypeOK, queueVars, gateVars
<1>4. CallOf(t) /\ GatesOf(t) /\ PriOf(t) /\ FirstEntersDiffer(t)
  BY DEF IInv, StandOK, GatesOf
<1>5. Inside(t, g) /\ held[t] # <<>>
  <2>1. Inside(t, g)
    BY <1>1, <1>2, OwnerIsInside
  <2> QED BY <2>1 DEF Inside
<1>6. /\ h \in Seq(Gates \X Keys) /\ h # <<>> /\ h[1] = held[t][1]
      /\ \A f \in Gates : Inside(t, f)' <=> Inside(t, f)
      /\ FirstEntersDiffer(t)'
  <2>1. "NESTED_ENTER" \in Keys /\ "NESTED_ENTER" # "FIRST_ENTER"
    BY DEF Keys
  <2> QED BY <1>2, <1>3, <1>4, <1>5, <2>1, HeldGrows
<1> HIDE DEF h
<1>7. key' \in [Tasks -> BOOLEAN] /\ \A u \in Tasks : ~key'[u]
  BY <1>1 DEF IInv, TypeOK, CallsOK
<1>8. CallOf(t)'
  BY <1>1, <1>3, <1>4 DEF CallOf
<1>9. GatesOf(t)'
  BY <1>1, <1>3, <1>4, <1>6 DEF GatesOf, Waits
<1>10. PriOf(t)'
  BY <1>1, <1>3, <1>4, <1>5, <1>6 DEF PriOf, Chosen, Entering, InnermostFirst, OneAtATime
<1>11. \A f \in Gates : HasGate(t, f) => HasGate(t, f)'
  BY <1>1, <1>3, <1>6 DEF HasGate, Chosen
<1>12. ~OneAtATime
  BY <1>1, <1>5 DEF IInv, StandOK, LentOK, EmptyHanded, Entering
<1>13. ~Leaving(t) /\ ~Leaving(t)'
  BY <1>1, <1>3 DEF Leaving
<1>14. "restore" \in Holding /\ locked \in BOOLEAN /\ locked
  BY <1>1, InCall DEF Holding
<1> QED BY <1>1, <1>2, <1>6, <1>7, <1>8, <1>9, <1>10, <1>11, <1>12, <1>13, <1>14, QuietStep

\* The leave of a nested enter.
LEMMA LeaveNestedPreserves ==
  ASSUME IInv, NEW t \in Tasks, LeaveNested(t)
  PROVE  IInv'
<1> DEFINE h == RemoveAt(held[t], op[t].at)
<1>1. /\ InTask(t) /\ pc[t] = "region" /\ op[t].name = "leave" /\ pc' = [pc EXCEPT ![t] = "restore"]
      /\ op' = [op EXCEPT ![t] = op[t]] /\ Left(t)[2] # "FIRST_ENTER"
      /\ UNCHANGED <<queueVars, locked, swiLocked, phase, gateVars, app, op, key, tskPri>>
      /\ tskPri' = [tskPri EXCEPT ![t] = tskPri[t]] /\ held' = [held EXCEPT ![t] = h]
  BY DEF LeaveNested, Undone, Calling, At, Goto, IInv, TypeOK
<1>2. /\ held[t] \in Seq(Gates \X Keys) /\ tskPri[t] \in Level /\ op[t] \in Ops /\ "restore" \in PCs
  BY <1>1, OpFields DEF IInv, TypeOK, PCs
<1>3. /\ pc'[t] = "restore" /\ held'[t] = h
      /\ UNCHANGED <<mode, pri, free, owner, ownerOrigPri, gateQ>>
  BY <1>1 DEF IInv, TypeOK, queueVars, gateVars
<1>4. /\ CallOf(t) /\ GatesOf(t) /\ PriOf(t) /\ FirstEntersDiffer(t)
      /\ op[t].at \in DOMAIN held[t] /\ (InnermostFirst => op[t].at = Len(held[t]))
  BY <1>1 DEF IInv, StandOK, GatesOf
<1>5. /\ h \in Seq(Gates \X Keys) /\ Len(h) = Len(held[t]) - 1
      /\ InnermostFirst /\ h # <<>> => h[1] = held[t][1]
      /\ \A f \in Gates : Inside(t, f)' <=> Inside(t, f)
      /\ FirstEntersDiffer(t)'
  <2>1. \A f \in Gates : Left(t) # <<f, "FIRST_ENTER">>
    BY <1>1
  <2> QED BY <1>2, <1>3, <1>4, <2>1, HeldShrinks
<1> HIDE DEF h
<1>6. InnermostFirst => h # <<>> /\ held[t] # <<>> /\ Len(held[t]) > 1
  <2> SUFFICES ASSUME InnermostFirst PROVE h # <<>> /\ held[t] # <<>> /\ Len(held[t]) > 1
    OBVIOUS
  <2>1. held[t] # <<>> /\ Len(held[t]) \in Nat /\ Left(t) = held[t][Len(held[t])]
    BY <1>2, <1>4 DEF Left
  <2>2. held[t][1][2] = "FIRST_ENTER"
    BY <1>4, <2>1 DEF PriOf
  <2> QED BY <1>1, <1>2, <1>5, <2>1, <2>2
<1>7. key' \in [Tasks -> BOOLEAN] /\ \A u \in Tasks : ~key'[u]
  BY <1>1 DEF IInv, TypeOK, CallsOK
<1>8. CallOf(t)'
  BY <1>1, <1>3, <1>4 DEF CallOf
<1>9. GatesOf(t)'
  BY <1>1, <1>3, <1>4, <1>5 DEF GatesOf, Waits
<1>10. PriOf(t)'
  BY <1>1, <1>3, <1>4, <1>5, <1>6 DEF PriOf, Chosen, Entering, InnermostFirst, OneAtATime
<1>11. \A f \in Gates : HasGate(t, f) => HasGate(t, f)'
  BY <1>1, <1>3, <1>5 DEF HasGate, Chosen
<1>12. ~OneAtATime
  <2>1. OneAtATime => Len(held[t]) <= 1
    BY DEF IInv, StandOK, LentOK
  <2> QED BY <1>2, <1>6, <2>1 DEF InnermostFirst
<1>13. ~Leaving(t) /\ ~Leaving(t)'
  BY <1>1, <1>3 DEF Leaving
<1>14. "restore" \in Holding /\ locked \in BOOLEAN /\ locked
  BY <1>1, InCall DEF Holding
<1> QED BY <1>1, <1>2, <1>5, <1>7, <1>8, <1>9, <1>10, <1>11, <1>12, <1>13, <1>14, QuietStep

\* A waiter that leave has chosen returns from enter.
LEMMA EnterReturnPreserves ==
  ASSUME IInv, NEW t \in Tasks, EnterReturn(t)
  PROVE  IInv'
<1> DEFINE g == op[t].on
           h == Append(held[t], <<g, "FIRST_ENTER">>)
<1>1. /\ InTask(t) /\ pc[t] = "wake" /\ pc' = [pc EXCEPT ![t] = "user"]
      /\ op' = [op EXCEPT ![t] = NoOp]
      /\ UNCHANGED <<queueVars, locked, swiLocked, phase, gateVars, app, key, tskPri>>
      /\ tskPri' = [tskPri EXCEPT ![t] = tskPri[t]] /\ held' = [held EXCEPT ![t] = h]
  BY DEF EnterReturn, At, Goto, Entered, IInv, TypeOK
<1>2. CallOf(t) /\ GatesOf(t) /\ PriOf(t) /\ FirstEntersDiffer(t) /\ op[t].name = "wait"
  BY <1>1 DEF IInv, StandOK, CallOf, GatesOf
<1>3. /\ held[t] \in Seq(Gates \X Keys) /\ tskPri[t] \in Level
      /\ "user" \in PCs /\ g \in Gates
  BY <1>2, OpFields DEF IInv, TypeOK, PCs
<1>4. ~locked /\ locked \in BOOLEAN /\ mode[t] = "READY"
  BY <1>1, InCall DEF Holding, Leaving
<1>5. owner[g] = {t} /\ ~free[g] /\ ~Inside(t, g) /\ Chosen(t)
  BY <1>1, <1>2, <1>4 DEF GatesOf, Chosen
<1>6. /\ pc'[t] = "user" /\ held'[t] = h /\ op'[t] = NoOp
      /\ UNCHANGED <<mode, pri, free, owner, ownerOrigPri, gateQ>>
  BY <1>1 DEF IInv, TypeOK, queueVars, gateVars
<1>7. /\ h \in Seq(Gates \X Keys) /\ h # <<>> /\ Len(h) = Len(held[t]) + 1
      /\ h[1] = IF held[t] = <<>> THEN <<g, "FIRST_ENTER">> ELSE held[t][1]
      /\ \A f \in Gates : Inside(t, f)' <=> Inside(t, f) \/ f = g
      /\ FirstEntersDiffer(t)'
  <2>1. "FIRST_ENTER" \in Keys
    BY DEF Keys
  <2> QED BY <1>2, <1>3, <1>5, <1>6, <2>1, HeldGrows
<1> HIDE DEF h
<1>8. key' \in [Tasks -> BOOLEAN] /\ \A u \in Tasks : ~key'[u]
  BY <1>1 DEF IInv, TypeOK, CallsOK
<1>9. CallOf(t)'
  BY <1>1, <1>2, <1>6, OpFields DEF CallOf
<1>10. GatesOf(t)'
  <2>1. \A f \in Gates : ~Waits(t, f)
    BY <1>2, <1>4 DEF GatesOf
  <2> QED BY <1>2, <1>5, <1>6, <1>7, <2>1, OpFields DEF GatesOf, Waits
<1>11. PriOf(t)'
  <2>1. ~Entering(t)' /\ InitPri[t] <= pri'[t] /\ held'[t] # <<>>
    BY <1>2, <1>6, <1>7 DEF PriOf, Entering
  <2>2. CASE held[t] = <<>>
    BY <1>1, <1>2, <1>5, <1>6, <1>7, <2>1, <2>2 DEF PriOf, InnermostFirst, OneAtATime
  <2>3. CASE held[t] # <<>>
    BY <1>1, <1>2, <1>6, <1>7, <2>1, <2>3 DEF PriOf, InnermostFirst, OneAtATime
  <2> QED BY <2>2, <2>3
<1>12. \A f \in Gates : HasGate(t, f) => HasGate(t, f)'
  BY <1>1, <1>5, <1>7 DEF HasGate
<1>13. OneAtATime => Len(h) <= 1 /\ (EmptyHanded(t)' => h = <<>>)
  <2>1. ~EmptyHanded(t)'
    BY <1>6, OpFields DEF EmptyHanded, Entering
  <2>2. OneAtATime => held[t] = <<>>
    BY <1>2 DEF IInv, StandOK, LentOK, EmptyHanded
  <2> QED BY <1>7, <2>1, <2>2
<1>14. ~Leaving(t) /\ ~Leaving(t)'
  BY <1>1, <1>6 DEF Leaving
<1>15. "user" \notin Holding /\ NoOp \in Ops
  BY OpFields DEF Holding
<1> QED BY <1>1, <1>3, <1>4, <1>7, <1>8, <1>9, <1>10, <1>11, <1>12, <1>13, <1>14, <1>15, QuietStep

\* The Task_restore that ends a call: a waiter leaves the processor, for there
\* is work.
LEMMA RestoreStepPreserves ==
  ASSUME IInv, NEW t \in Tasks, Restore(t)
  PROVE  IInv'
<1>1. PICK l \in {"user", "wake"}, o \in {op[t], NoOp} :
        /\ pc' = [pc EXCEPT ![t] = l] /\ op' = [op EXCEPT ![t] = o]
        /\ IF op[t].name = "wait" THEN l = "wake" /\ o = op[t] ELSE l = "user" /\ o = NoOp
  <2>1. CASE op[t].name = "wait"
    BY <2>1 DEF Restore, Goto, IInv, TypeOK
  <2>2. CASE op[t].name # "wait"
    BY <2>2 DEF Restore, Goto
  <2> QED BY <2>1, <2>2
<1>2. /\ InTask(t) /\ pc[t] = "restore" /\ Task_restore(key[t])
      /\ key' = [key EXCEPT ![t] = FALSE]
      /\ UNCHANGED <<queueVars, swiLocked, gateVars, app, tskPri, held>>
  BY DEF Restore, At, userVars
<1>3. l \in PCs /\ o \in Ops
  BY <1>1, OpFields DEF IInv, TypeOK, PCs
<1>4. /\ KernelTypeOK /\ KernelOK /\ running = t /\ phase = "user" /\ ~isr /\ locked
      /\ UNCHANGED <<curTask, running, isr, isrKey>>
      /\ \A u \in Tasks \ {t} : pc[u] \notin Holding
      /\ ~Leaving(t) => mode[t] = "READY"
      /\ Leaving(t) => workFlag
      /\ ~swiLocked
  BY <1>2, InCall DEF Holding
<1>5. key[t] \in BOOLEAN /\ ~key[t] /\ UNCHANGED <<mode, pri, workFlag>>
  BY <1>2 DEF IInv, CallsOK, TypeOK, queueVars
<1>6. KernelTypeOK' /\ KernelOK'
  BY <1>2, <1>4, <1>5, RestorePreserves
<1>7. \/ workFlag /\ phase' = "pick" /\ locked'
      \/ ~workFlag /\ phase' = "user" /\ ~locked'
  BY <1>2, <1>4, <1>5 DEF Task_restore, Swi_enabled
<1>8. \A u \in Tasks : /\ pc'[u] = IF u = t THEN l ELSE pc[u]
                       /\ op'[u] = IF u = t THEN o ELSE op[u]
  BY <1>1, Zenon DEF IInv, TypeOK
<1>9. key' \in [Tasks -> BOOLEAN] /\ \A u \in Tasks : ~key'[u]
  BY <1>2 DEF IInv, TypeOK, CallsOK
<1>10. \A u \in Tasks : pc'[u] \notin Holding /\ ~Leaving(u)'
  BY <1>1, <1>4, <1>8 DEF Leaving, Holding
<1>11. CallsOK'
  BY <1>2, <1>4, <1>5, <1>7, <1>9, <1>10 DEF CallsOK
<1>12. CallOf(t) /\ GatesOf(t) /\ PriOf(t)
  BY DEF IInv, StandOK
<1>13. pc'[t] = l /\ op'[t] = o /\ UNCHANGED <<free, owner, ownerOrigPri, gateQ>>
  BY <1>2, <1>8 DEF gateVars
<1>14. op[t].name = "wait" => mode[t] = "BLOCKED" /\ o = op[t]
  BY <1>1, <1>2, <1>12 DEF GatesOf, Chosen
<1>15. CallOf(t)'
  BY <1>1, <1>2, <1>5, <1>12, <1>13, OpFields DEF CallOf
<1>16. GatesOf(t)'
  <2>1. CASE op[t].name = "wait"
    BY <1>1, <1>2, <1>5, <1>12, <1>13, <1>14, <2>1 DEF GatesOf, FirstEntersDiffer, Waits, Inside, Chosen
  <2>2. CASE op[t].name # "wait"
    BY <1>1, <1>2, <1>5, <1>12, <1>13, <2>2, OpFields DEF GatesOf, FirstEntersDiffer, Waits, Inside
  <2> QED BY <2>1, <2>2
<1>17. PriOf(t)'
  <2>1. ~Chosen(t) /\ ~Chosen(t)'
    BY <1>1, <1>2, <1>5, <1>13, <1>14 DEF Chosen
  <2> QED BY <1>1, <1>2, <1>5, <1>12, <1>13, <2>1 DEF PriOf, Entering, InnermostFirst, OneAtATime
<1>18. \A f \in Gates : HasGate(t, f) => HasGate(t, f)'
  BY <1>2 DEF HasGate, Inside, Chosen
<1>19. OneAtATime => Len(held'[t]) <= 1 /\ (EmptyHanded(t)' => held'[t] = <<>>)
  BY <1>1, <1>2, <1>13, OpFields DEF IInv, StandOK, LentOK, EmptyHanded, Entering
<1>20. StandOK'
  BY <1>2, <1>5, <1>8, <1>15, <1>16, <1>17, <1>18, <1>19, StandKept DEF IInv
<1>21. TypeOK'
  BY <1>1, <1>2, <1>3, <1>6, <1>9, <1>13 DEF IInv, TypeOK
<1> QED BY <1>6, <1>11, <1>20, <1>21 DEF IInv

-----------------------------------------------------------------------------
(* Tasks block and are readied.                                            *)

\* The running task takes itself off the ready lists, in a call that moves to
\* l with o.
LEMMA BlockStep ==
  ASSUME IInv, NEW t \in Tasks, NEW l \in {"donate", "restore"}, NEW o \in Ops, InTask(t),
         UNCHANGED <<phase, swiLocked, gateVars, userVars>>, locked' = TRUE,
         pc' = [pc EXCEPT ![t] = l], op' = [op EXCEPT ![t] = o],
         key' \in [Tasks -> BOOLEAN], \A u \in Tasks : ~key'[u],
         Task_blockI(t), pc[t] \in {"user", "region"},
         IF l = "donate" THEN /\ Entering(t) /\ o.name = "wait" /\ o.on \in Gates
                              /\ ~free[o.on] /\ t \notin owner[o.on]
                         ELSE o.name = "pause"
  PROVE  IInv'
<1>1. l \in PCs /\ l \in Holding /\ locked' \in BOOLEAN
  BY DEF PCs, Holding
<1>2. /\ KernelTypeOK /\ KernelOK /\ QueueTypeOK /\ QueuesOK
      /\ UNCHANGED <<curTask, running, isr, isrKey>> /\ mode[t] = "READY"
  BY InCall DEF Leaving
<1>3. QueueTypeOK' /\ QueuesOK' /\ workFlag'
  BY <1>2, LeaveReadyList DEF Task_blockI, Modes
<1>4. /\ \A v \in Tasks : mode'[v] = IF v = t THEN "BLOCKED" ELSE mode[v]
      /\ UNCHANGED <<pri, free, owner, ownerOrigPri, gateQ, app, tskPri, held>>
  BY <1>2 DEF Task_blockI, QueueTypeOK, gateVars, userVars
<1>5. \A u \in Tasks : /\ pc'[u] = IF u = t THEN l ELSE pc[u]
                       /\ op'[u] = IF u = t THEN o ELSE op[u]
  BY Zenon DEF IInv, TypeOK
<1>6. Leaving(t)'
  BY <1>5 DEF Leaving
<1>7. KernelTypeOK' /\ KernelOK' /\ CallsOK' /\ pc' \in [Tasks -> PCs] /\ op' \in [Tasks -> Ops]
  BY <1>1, <1>3, <1>6, RegionKeeps
<1>8. TypeOK'
  BY <1>4, <1>7 DEF IInv, TypeOK
<1>9. CallOf(t) /\ GatesOf(t) /\ PriOf(t)
  BY DEF IInv, StandOK
<1>10. CallOf(t)'
  BY <1>4, <1>5 DEF CallOf
<1>11. GatesOf(t)'
  <2>1. \A g \in Gates : ~Waits(t, g)
    BY <1>2, <1>9 DEF GatesOf
  <2>2. \A g \in Gates : Inside(t, g)' <=> Inside(t, g)
    BY <1>4 DEF Inside
  <2>3. \A g \in Gates : ~Waits(t, g)'
    BY <1>4, <2>1 DEF Waits
  <2>4. o.name = "wait" => l = "donate" /\ ~Inside(t, o.on)'
    BY <1>9, <2>2 DEF GatesOf
  <2> QED BY <1>4, <1>5, <1>9, <2>2, <2>3, <2>4 DEF GatesOf, FirstEntersDiffer
<1>12. PriOf(t)'
  <2>1. ~Chosen(t) /\ ~Chosen(t)' /\ (Entering(t)' => Entering(t))
    BY <1>5 DEF Chosen, Entering
  <2> QED BY <1>4, <1>9, <2>1 DEF PriOf, InnermostFirst, OneAtATime
<1>13. \A g \in Gates : HasGate(t, g) => HasGate(t, g)'
  BY <1>4 DEF HasGate, Inside, Chosen
<1>14. OneAtATime => Len(held'[t]) <= 1 /\ (EmptyHanded(t)' => held'[t] = <<>>)
  BY <1>4, <1>5 DEF IInv, StandOK, LentOK, EmptyHanded, Entering
<1>15. StandOK'
  <2>1. \A u \in Tasks \ {t} : /\ pc'[u] = pc[u] /\ op'[u] = op[u] /\ mode'[u] = mode[u]
                               /\ held'[u] = held[u] /\ tskPri'[u] = tskPri[u]
    BY <1>4, <1>5
  <2> QED BY <1>4, <1>10, <1>11, <1>12, <1>13, <1>14, <2>1, StandKept DEF IInv
<1> QED BY <1>7, <1>8, <1>15 DEF IInv

\* enter finds the gate taken.
LEMMA EnterBlockPreserves ==
  ASSUME IInv, NEW t \in Tasks, EnterBlock(t)
  PROVE  IInv'
<1> DEFINE g == op[t].on
           o == [name |-> "wait", on |-> g]
<1>1. /\ InTask(t) /\ pc[t] = "region" /\ op[t].name = "enter" /\ pc' = [pc EXCEPT ![t] = "donate"]
      /\ op' = [op EXCEPT ![t] = o] /\ ~free[g] /\ t \notin owner[g] /\ Task_blockI(t)
      /\ UNCHANGED <<locked, swiLocked, phase, key, gateVars, userVars>>
  BY DEF EnterBlock, Calling, At, Goto
<1>2. g \in Gates
  BY <1>1, OpFields DEF IInv, TypeOK
<1> HIDE DEF g
<1>3. o \in Ops /\ o.name = "wait" /\ o.on = g
  BY <1>2, OpFields
<1> HIDE DEF o
<1>4. key' \in [Tasks -> BOOLEAN] /\ \A u \in Tasks : ~key'[u]
  BY <1>1 DEF IInv, TypeOK, CallsOK
<1>5. locked' = TRUE
  BY <1>1, InCall DEF Holding
<1>6. Entering(t)
  BY <1>1 DEF Entering
<1> QED BY <1>1, <1>2, <1>3, <1>4, <1>5, <1>6, BlockStep

\* A task blocks on something else.
LEMMA PausePreserves ==
  ASSUME IInv, NEW t \in Tasks, Pause(t)
  PROVE  IInv'
<1> DEFINE o == [name |-> "pause"]
<1>1. /\ InTask(t) /\ pc[t] = "user" /\ pc' = [pc EXCEPT ![t] = "restore"]
      /\ op' = [op EXCEPT ![t] = o] /\ Task_blockI(t) /\ locked' = TRUE
      /\ key' = [key EXCEPT ![t] = locked]
      /\ UNCHANGED <<swiLocked, phase, gateVars, userVars>>
  BY DEF Pause, LockToBlock, At, Goto
<1>2. o \in Ops /\ o.name = "pause"
  BY OpFields
<1> HIDE DEF o
<1>3. ~locked /\ locked \in BOOLEAN
  BY <1>1, InCall DEF Holding
<1>4. key' \in [Tasks -> BOOLEAN] /\ \A u \in Tasks : ~key'[u]
  BY <1>1, <1>3 DEF IInv, TypeOK, CallsOK
<1> QED BY <1>1, <1>2, <1>4, BlockStep

\* An interrupt readies a task that waits for something else.
LEMMA HwiWakePreserves ==
  ASSUME IInv, NEW t \in Tasks, HwiWake(t)
  PROVE  IInv'
<1>1. /\ InHwi /\ mode[t] = "BLOCKED" /\ op[t].name # "wait" /\ Task_unblockI(t)
      /\ UNCHANGED <<pc, op, key, free, owner, ownerOrigPri, gateQ, app, tskPri, held>>
      /\ UNCHANGED <<curTask, locked, swiLocked, running, phase, isr, isrKey>>
      /\ UNCHANGED gateVars /\ isr
  BY DEF HwiWake, InHwi, hwiVars, callVars, gateVars, userVars
<1>2. KernelTypeOK /\ KernelOK /\ QueueTypeOK /\ QueuesOK /\ CallsOK /\ curTask \in Tasks /\ running \in Tasks
  BY DEF IInv, TypeOK, KernelTypeOK, KernelOK, ControlTypeOK
<1>3. QueueTypeOK' /\ QueuesOK' /\ workFlag'
  BY <1>1, <1>2, Task_unblockIPreserves
<1>4. UNCHANGED pri /\ \A v \in Tasks : mode'[v] = IF v = t THEN "READY" ELSE mode[v]
  BY <1>1, <1>2 DEF Task_unblockI, Readied, QueueTypeOK
<1>5. KernelTypeOK' /\ KernelOK'
  BY <1>1, <1>2, <1>3, <1>4, HwiPreserves
<1>6. \A u \in Tasks : Leaving(u)' <=> Leaving(u)
  BY <1>1 DEF Leaving
<1>7. CallsOK'
  BY <1>1, <1>2, <1>3, <1>4, <1>6 DEF CallsOK
<1>8. TypeOK'
  BY <1>1, <1>5 DEF IInv, TypeOK
<1>9. CallOf(t) /\ GatesOf(t) /\ PriOf(t)
  BY DEF IInv, StandOK
<1>10. pc[t] # "handover" /\ pc[t] \notin {"donate", "wake"}
  BY <1>1, <1>2, <1>9 DEF CallsOK, Holding, Leaving, CallOf
<1>11. CallOf(t)'
  BY <1>1, <1>4, <1>9 DEF CallOf
<1>12. GatesOf(t)'
  BY <1>1, <1>4, <1>9, <1>10 
  DEF GatesOf, FirstEntersDiffer, Waits, Inside, Left, InnermostFirst, OneAtATime
<1>13. PriOf(t)'
  BY <1>1, <1>4, <1>9, <1>10 DEF PriOf, Entering, Chosen, InnermostFirst, OneAtATime
<1>14. \A g \in Gates : HasGate(t, g) => HasGate(t, g)'
  BY <1>1, <1>4, <1>10 DEF HasGate, Inside, Chosen
<1>15. OneAtATime => Len(held'[t]) <= 1 /\ (EmptyHanded(t)' => held'[t] = <<>>)
  BY <1>1 DEF IInv, StandOK, LentOK, EmptyHanded, Entering
<1>16. StandOK'
  BY <1>1, <1>4, <1>10, <1>11, <1>12, <1>13, <1>14, <1>15, StandKept DEF IInv
<1> QED BY <1>5, <1>7, <1>8, <1>16 DEF IInv

-----------------------------------------------------------------------------
(* Steps that change one gate.                                             *)

\* Only what is kept of gate g changes.
GatesButKept(g) ==
  \A f \in Gates \ {g} : /\ free'[f] = free[f] /\ owner'[f] = owner[f]
                         /\ ownerOrigPri'[f] = ownerOrigPri[f] /\ gateQ'[f] = gateQ[f]

\* A task that does not have gate g, and that nothing has happened to.
LEMMA GateMoves ==
  ASSUME StandOK, TypeOK, NEW g \in Gates, GatesButKept(g), UNCHANGED app, NEW u \in Tasks,
         pc'[u] = pc[u], op'[u] = op[u], mode'[u] = mode[u], pri'[u] = pri[u],
         held'[u] = held[u], tskPri'[u] = tskPri[u],
         Waits(u, g)' <=> Waits(u, g),
         Waits(u, g) => ~free'[g] /\ u \notin owner'[g],
         ~HasGate(u, g), pc[u] \notin {"donate", "handover"}
  PROVE  CallOf(u)' /\ GatesOf(u)' /\ PriOf(u)'
<1>1. CallOf(u) /\ GatesOf(u) /\ PriOf(u)
  BY DEF StandOK
<1>2. op[u].name = "wait" => op[u].on \in Gates
  BY OpFields DEF TypeOK
<1>3. /\ \A f \in Gates : Inside(u, f)' <=> Inside(u, f)
      /\ \A f \in Gates : Inside(u, f) => f # g
      /\ Chosen(u)' <=> Chosen(u)
      /\ Chosen(u) => op[u].on # g
  BY DEF Inside, Chosen, HasGate
<1>4. \A f \in Gates : Waits(u, f)' <=> Waits(u, f)
  BY DEF Waits, GatesButKept
<1>5. CallOf(u)'
  BY <1>1 DEF CallOf
<1>6. GatesOf(u)'
  <2>1. \A f \in Gates : Waits(u, f)' =>
          mode'[u] = "BLOCKED" /\ op'[u].name = "wait" /\ op'[u].on = f /\ pc'[u] \in {"restore", "wake"}
    BY <1>1, <1>4 DEF GatesOf
  <2>2. ASSUME pc[u] \in {"restore", "wake"}, op[u].name = "wait"
        PROVE  LET f == op[u].on IN
               \/ mode'[u] = "BLOCKED" /\ Waits(u, f)' /\ ~free'[f] /\ u \notin owner'[f]
               \/ Chosen(u)' /\ owner'[f] = {u} /\ ~free'[f]
    <3>1. CASE op[u].on = g
      BY <1>1, <1>3, <1>4, <2>2, <3>1 DEF GatesOf
    <3>2. CASE op[u].on # g
      BY <1>1, <1>2, <1>3, <1>4, <2>2, <3>2 DEF GatesOf, GatesButKept
    <3> QED BY <3>1, <3>2
  <2>3. op'[u].name = "wait" => ~Inside(u, op[u].on)'
    BY <1>1, <1>2, <1>3 DEF GatesOf
  <2>4. \A f \in Gates : Inside(u, f)' => owner'[f] = {u} /\ ~free'[f]
    BY <1>1, <1>3 DEF GatesOf, GatesButKept
  <2>5. FirstEntersDiffer(u)'
    BY <1>1 DEF GatesOf, FirstEntersDiffer
  <2>6. op'[u].name = "leave" /\ pc'[u] \in {"write", "region"} =>
          /\ op'[u].at \in DOMAIN held'[u] /\ Left(u)'[1] = op'[u].on
          /\ InnermostFirst' => op'[u].at = Len(held'[u])
    BY <1>1 DEF GatesOf, Left, InnermostFirst, OneAtATime
  <2> QED BY <2>1, <2>2, <2>3, <2>4, <2>5, <2>6 DEF GatesOf
<1>7. PriOf(u)'
  <2>0. InnermostFirst' <=> InnermostFirst
    BY DEF InnermostFirst, OneAtATime
  <2>1. InnermostFirst /\ held[u] = <<>> =>
          IF Chosen(u)' THEN ownerOrigPri'[op'[u].on] = InitPri[u] ELSE pri'[u] = InitPri[u]
    <3>1. Chosen(u) => op[u].on \in Gates \ {g}
      BY <1>1, <1>2, <1>3 DEF Chosen, CallOf
    <3> QED BY <1>1, <1>3, <3>1 DEF PriOf, GatesButKept
  <2>2. InnermostFirst /\ held[u] # <<>> => ownerOrigPri'[held[u][1][1]] = InitPri[u]
    <3> SUFFICES ASSUME InnermostFirst, held[u] # <<>>
                 PROVE  ownerOrigPri'[held[u][1][1]] = InitPri[u]
      OBVIOUS
    <3>1. held[u] \in Seq(Gates \X Keys) /\ 1 \in DOMAIN held[u]
      BY DEF TypeOK
    <3>2. held[u][1] \in Gates \X Keys /\ held[u][1][2] = "FIRST_ENTER"
      BY <1>1, <3>1 DEF PriOf
    <3>3. Inside(u, held[u][1][1]) /\ held[u][1][1] \in Gates
      BY <3>1, <3>2 DEF Inside
    <3> QED BY <1>1, <1>3, <3>3 DEF PriOf, GatesButKept
  <2> QED BY <1>1, <2>0, <2>1, <2>2 DEF PriOf, Entering
<1> QED BY <1>5, <1>6, <1>7

\* enter finds the gate free: nobody stands to it in any way.
LEMMA EnterFreePreserves ==
  ASSUME IInv, NEW t \in Tasks, EnterFree(t)
  PROVE  IInv'
<1>1. PICK g \in Gates : g = op[t].on
  BY OpFields DEF EnterFree, Calling, IInv, TypeOK
<1> DEFINE h == Append(held[t], <<g, "FIRST_ENTER">>)
<1>2. /\ InTask(t) /\ pc[t] = "region" /\ op[t].name = "enter" /\ pc' = [pc EXCEPT ![t] = "restore"]
      /\ op' = [op EXCEPT ![t] = op[t]] /\ free[g]
      /\ free' = [free EXCEPT ![g] = FALSE] /\ owner' = [owner EXCEPT ![g] = {t}]
      /\ ownerOrigPri' = [ownerOrigPri EXCEPT ![g] = tskPri[t]]
      /\ UNCHANGED <<queueVars, locked, swiLocked, phase, op, key, gateQ, app, tskPri>>
      /\ held' = [held EXCEPT ![t] = h]
  BY <1>1 DEF EnterFree, Calling, At, Goto, TakeGate, Entered, IInv, TypeOK
<1>3. /\ held[t] \in Seq(Gates \X Keys) /\ tskPri[t] \in Level /\ op[t] \in Ops /\ "restore" \in PCs
  BY DEF IInv, TypeOK, PCs
<1>4. key' \in [Tasks -> BOOLEAN] /\ \A u \in Tasks : ~key'[u]
  BY <1>2 DEF IInv, TypeOK, CallsOK
<1>5. pc'[t] = "restore" /\ held'[t] = h /\ UNCHANGED <<mode, pri>>
  BY <1>2 DEF IInv, TypeOK, queueVars
<1>6. ~Leaving(t) /\ ~Leaving(t)'
  BY <1>2, <1>5 DEF Leaving
<1>7. "restore" \in Holding /\ locked \in BOOLEAN /\ locked
  BY <1>2, InCall DEF Holding
<1>8. KernelTypeOK' /\ KernelOK' /\ CallsOK' /\ pc' \in [Tasks -> PCs] /\ op' \in [Tasks -> Ops]
  BY <1>2, <1>3, <1>4, <1>6, <1>7, QuietRegion
<1>9. /\ StandOK /\ TypeOK /\ CallOf(t) /\ GatesOf(t) /\ PriOf(t) /\ FirstEntersDiffer(t)
      /\ gateQ[g] = <<>> /\ ~Inside(t, g)
  BY <1>2 DEF IInv, StandOK, GatesOf, GateOK
<1>10. /\ h \in Seq(Gates \X Keys) /\ h # <<>> /\ Len(h) = Len(held[t]) + 1
       /\ h[1] = IF held[t] = <<>> THEN <<g, "FIRST_ENTER">> ELSE held[t][1]
       /\ \A f \in Gates : Inside(t, f)' <=> Inside(t, f) \/ f = g
       /\ FirstEntersDiffer(t)'
  <2>1. "FIRST_ENTER" \in Keys
    BY DEF Keys
  <2>2. held'[t] = h /\ held[t] \in Seq(Gates \X Keys) /\ FirstEntersDiffer(t) /\ ~Inside(t, g)
    BY <1>3, <1>5, <1>9
  <2> QED BY <2>1, <2>2, HeldGrows
<1>11. TypeOK'
  <2>1. held' \in [Tasks -> Seq(Gates \X Keys)]
    BY <1>2, <1>10 DEF IInv, TypeOK
  <2> QED BY <1>2, <1>3, <1>4, <1>8, <2>1 DEF IInv, TypeOK
<1> HIDE DEF h
<1>12. /\ \A f \in Gates : /\ free'[f] = IF f = g THEN FALSE ELSE free[f]
                           /\ owner'[f] = IF f = g THEN {t} ELSE owner[f]
                           /\ ownerOrigPri'[f] = IF f = g THEN tskPri[t] ELSE ownerOrigPri[f]
       /\ \A u \in Tasks : /\ pc'[u] = IF u = t THEN "restore" ELSE pc[u]
                           /\ held'[u] = IF u = t THEN h ELSE held[u]
  BY <1>2 DEF IInv, TypeOK
<1>13. GatesButKept(g)
  BY <1>2, <1>12 DEF GatesButKept
<1>14. \A u \in Tasks : ~Waits(u, g) /\ ~Waits(u, g)'
  BY <1>2, <1>9 DEF Waits, Linked
<1>15. \A u \in Tasks : ~HasGate(u, g)
  <2>1. ASSUME NEW u \in Tasks, HasGate(u, g) PROVE FALSE
    <3>1. CallOf(u) /\ GatesOf(u)
      BY <1>9 DEF StandOK
    <3> QED BY <1>2, <2>1, <3>1 DEF HasGate, GatesOf, CallOf, Chosen
  <2> QED BY <2>1
<1>16. ASSUME NEW u \in Tasks \ {t} PROVE CallOf(u)' /\ GatesOf(u)' /\ PriOf(u)'
  <2>1. pc[u] \notin {"donate", "handover"}
    BY <1>2, InCall DEF Holding
  <2>2. /\ pc'[u] = pc[u] /\ op'[u] = op[u] /\ mode'[u] = mode[u] /\ pri'[u] = pri[u]
        /\ held'[u] = held[u] /\ tskPri'[u] = tskPri[u]
    BY <1>2, <1>5, <1>12
  <2> QED BY <1>2, <1>9, <1>13, <1>14, <1>15, <2>1, <2>2, GateMoves
<1>17. CallOf(t)'
  BY <1>2, <1>5, <1>9 DEF CallOf
<1>18. GatesOf(t)'
  BY <1>2, <1>5, <1>9, <1>10, <1>12, <1>14 DEF GatesOf, Waits
<1>19. PriOf(t)'
  <2>1. ~Entering(t)' /\ ~Chosen(t) /\ held'[t] # <<>>
    BY <1>2, <1>5, <1>10 DEF Entering, Chosen
  <2>2. InitPri[t] <= tskPri[t] /\ tskPri[t] <= pri[t] /\ InitPri[t] \in Level /\ pri[t] \in Level
    BY <1>2, <1>9, InitPriAssumption DEF PriOf, Entering, TypeOK, KernelTypeOK, QueueTypeOK
  <2>5. (InnermostFirst' <=> InnermostFirst) /\ (~InnermostFirst => PriOf(t)')
    BY <1>2, <1>5, <1>9, <2>1 DEF PriOf, InnermostFirst, OneAtATime
  <2>3. CASE InnermostFirst /\ held[t] = <<>>
    <3>1. tskPri[t] = InitPri[t]
      BY <1>3, <1>9, <2>1, <2>2, <2>3 DEF PriOf, Level, Priority, Inactive
    <3>2. h[1][2] = "FIRST_ENTER" /\ h[1][1] = g
      BY <1>10, <2>3
    <3>3. ownerOrigPri'[g] = InitPri[t] /\ pri'[t] = pri[t]
      BY <1>5, <1>12, <3>1
    <3> QED BY <1>5, <1>9, <2>1, <2>2, <3>2, <3>3 DEF PriOf
  <2>4. CASE InnermostFirst /\ held[t] # <<>>
    <3>1. held[t][1] \in Gates \X Keys /\ 1 \in DOMAIN held[t] /\ held[t][1][2] = "FIRST_ENTER"
      BY <1>3, <1>9, <2>4 DEF PriOf
    <3>2. Inside(t, held[t][1][1]) /\ held[t][1][1] \in Gates
      BY <3>1 DEF Inside
    <3>3. held[t][1][1] # g
      BY <1>9, <3>2
    <3> QED BY <1>5, <1>9, <1>10, <1>12, <2>1, <2>4, <3>2, <3>3 DEF PriOf
  <2> QED BY <2>3, <2>4, <2>5
<1>20. ASSUME NEW f \in Gates PROVE GateOK(f)'
  <2>1. GateOK(f)
    BY <1>9 DEF StandOK
  <2>2. CASE f = g
    <3>1. owner'[g] = {t} /\ HasGate(t, g)'
      BY <1>10, <1>12 DEF HasGate
    <3>2. ownerOrigPri'[g] >= InitPri[t]
      BY <1>2, <1>3, <1>9, <1>12, InitPriAssumption DEF PriOf, Entering, Level, Priority, Inactive
    <3> QED BY <1>2, <1>12, <2>1, <2>2, <3>1, <3>2 DEF GateOK
  <2>3. CASE f # g
    <3>1. \A u \in Tasks : HasGate(u, f) => HasGate(u, f)'
      <4>1. HasGate(t, f) => HasGate(t, f)'
        BY <1>2, <1>10 DEF HasGate, Chosen
      <4>2. \A u \in Tasks \ {t} : HasGate(u, f) => HasGate(u, f)'
        BY <1>2, <1>5, <1>12 DEF HasGate, Inside, Chosen
      <4> QED BY <4>1, <4>2
    <3> QED BY <1>2, <1>12, <2>1, <2>3, <3>1 DEF GateOK
  <2> QED BY <2>2, <2>3
<1>21. GateQueueSorted'
  BY <1>2, <1>5, <1>9 DEF StandOK, GateQueueSorted
<1>22. LentOK'
  <2> SUFFICES ASSUME OneAtATime PROVE LentOK'
    BY <1>2 DEF LentOK, OneAtATime
  <2>1. LentOK
    BY <1>9 DEF StandOK
  <2>2. held[t] = <<>>
    BY <1>2, <2>1 DEF LentOK, EmptyHanded, Entering
  <2>3. Len(held'[t]) <= 1 /\ ~EmptyHanded(t)'
    BY <1>2, <1>5, <1>10, <2>2 DEF EmptyHanded, Entering
  <2>4. \A u \in Tasks \ {t} : Len(held'[u]) <= 1 /\ (EmptyHanded(u)' => held'[u] = <<>>)
    BY <1>2, <1>12, <2>1 DEF LentOK, EmptyHanded, Entering
  <2>5. ASSUME NEW f \in Gates, NEW u \in Tasks, Waits(u, f)', NEW w \in owner'[f], pc'[w] # "handover"
        PROVE  pri'[u] <= pri'[w]
    <3>1. f # g /\ Waits(u, f)
      BY <1>2, <1>14, <2>5 DEF Waits
    <3>2. w \in owner[f] /\ w \in Tasks
      BY <1>12, <2>5, <3>1, <1>9 DEF TypeOK
    <3>3. pc[w] # "handover"
      BY <1>2, <1>12, <2>5, <3>2
    <3> QED BY <1>5, <2>1, <3>1, <3>2, <3>3 DEF LentOK
  <2> QED BY <2>3, <2>4, <2>5 DEF LentOK
<1>23. StandOK'
  BY <1>16, <1>17, <1>18, <1>19, <1>20, <1>21, <1>22 DEF StandOK
<1> QED BY <1>8, <1>11, <1>23 DEF IInv

-----------------------------------------------------------------------------
(* The order of the waiting lists.                                         *)

\* The waiters of q are in order of their priorities f, but for those that have
\* been raised.
InOrder(q, f) == \A i, j \in DOMAIN q : i < j /\ f[q[j]] = InitPri[q[j]] => f[q[i]] >= f[q[j]]

LEMMA SortedIsInOrder ==
  /\ GateQueueSorted <=> \A g \in Gates : InOrder(gateQ[g], pri)
  /\ GateQueueSorted' <=> \A g \in Gates : InOrder(gateQ'[g], pri')
BY DEF GateQueueSorted, InOrder

\* Nobody's move matters when tasks are raised.
LEMMA RaiseKeepsOrder ==
  ASSUME NEW q \in Seq(Tasks), NEW f \in [Tasks -> Level], NEW e \in [Tasks -> Level],
         \A u \in Tasks : InitPri[u] <= f[u] /\ f[u] <= e[u], InOrder(q, f)
  PROVE  InOrder(q, e)
<1> SUFFICES ASSUME NEW i \in DOMAIN q, NEW j \in DOMAIN q, i < j, e[q[j]] = InitPri[q[j]]
             PROVE  e[q[i]] >= e[q[j]]
  BY DEF InOrder
<1>1. q[i] \in Tasks /\ q[j] \in Tasks
  OBVIOUS
<1>2. \A u \in Tasks : f[u] \in Int /\ e[u] \in Int /\ InitPri[u] \in Int
  BY InitPriAssumption DEF Level, Priority, Inactive
<1>3. f[q[j]] = e[q[j]]
  BY <1>1, <1>2
<1>4. f[q[i]] >= f[q[j]]
  BY <1>3 DEF InOrder
<1> QED BY <1>1, <1>2, <1>3, <1>4

\* A task that goes before the first one below the priority p it had when it
\* came; it has been raised if its own is another.
LEMMA InsertKeepsOrder ==
  ASSUME NEW q \in Seq(Tasks), NEW f \in [Tasks -> Level], NEW t \in Tasks, NEW p \in Level,
         NEW r \in Seq(Tasks), NEW i \in 1 .. Len(q) + 1, InOrder(q, f),
         \A k \in 1 .. i - 1 : f[q[k]] >= p, i <= Len(q) => f[q[i]] < p,
         p <= f[t], f[t] = InitPri[t] => f[t] = p,
         Len(r) = Len(q) + 1,
         \A k \in 1 .. Len(r) : r[k] = IF k < i THEN q[k] ELSE IF k = i THEN t ELSE q[k - 1]
  PROVE  InOrder(r, f)
<1> SUFFICES ASSUME NEW j \in 1 .. Len(r), NEW k \in 1 .. Len(r), j < k, f[r[k]] = InitPri[r[k]]
             PROVE  f[r[j]] >= f[r[k]]
  BY DEF InOrder
<1>1. \A u \in Tasks : f[u] \in Int
  BY DEF Level, Priority, Inactive
<1>2. p \in Int /\ Len(q) \in Nat /\ DOMAIN q = 1 .. Len(q) /\ \A n \in 1 .. Len(q) : q[n] \in Tasks
  BY DEF Level, Priority, Inactive
<1>3. CASE k < i
  <2>1. r[j] = q[j] /\ r[k] = q[k] /\ j \in 1 .. Len(q) /\ k \in 1 .. Len(q)
    BY <1>2, <1>3
  <2> QED BY <1>2, <2>1 DEF InOrder
<1>4. CASE k = i
  <2>1. r[j] = q[j] /\ r[k] = t /\ j \in 1 .. i - 1
    BY <1>2, <1>4
  <2> QED BY <2>1
<1>5. CASE k > i /\ j = i
  <2>1. r[j] = t /\ r[k] = q[k - 1] /\ k - 1 \in 1 .. Len(q) /\ i \in 1 .. Len(q) /\ f[q[i]] < p
    BY <1>2, <1>5
  <2>2. f[q[i]] >= f[q[k - 1]]
    <3>1. CASE k - 1 = i
      BY <1>1, <1>2, <2>1, <3>1
    <3>2. CASE k - 1 # i
      <4>1. i < k - 1
        BY <1>5, <3>2
      <4> QED BY <1>2, <2>1, <4>1 DEF InOrder
    <3> QED BY <3>1, <3>2
  <2>3. f[t] \in Int /\ f[q[i]] \in Int /\ f[q[k - 1]] \in Int
    BY <1>1, <1>2, <2>1
  <2> QED BY <1>2, <2>1, <2>2, <2>3
<1>6. CASE k > i /\ j # i
  <2>1. PICK n \in 1 .. Len(q) : n < k - 1 /\ r[j] = q[n]
    <3>1. CASE j < i
      <4>1. r[j] = q[j] /\ j \in 1 .. Len(q) /\ j < k - 1
        BY <1>2, <1>6, <3>1
      <4> QED BY <4>1
    <3>2. CASE j > i
      <4>1. r[j] = q[j - 1] /\ j - 1 \in 1 .. Len(q) /\ j - 1 < k - 1
        BY <1>2, <1>6, <3>2
      <4> QED BY <4>1
    <3> QED BY <1>6, <3>1, <3>2
  <2>2. r[k] = q[k - 1] /\ k - 1 \in 1 .. Len(q)
    BY <1>2, <1>6
  <2> QED BY <1>2, <2>1, <2>2 DEF InOrder
<1> QED BY <1>3, <1>4, <1>5, <1>6

-----------------------------------------------------------------------------
(* Priorities are lent and given back.                                     *)

\* Only the owner has a gate.
LEMMA OwnerHasGate ==
  ASSUME StandOK, TypeOK, NEW g \in Gates, NEW u \in Tasks, HasGate(u, g)
  PROVE  owner[g] = {u} /\ ~free[g]
BY DEF StandOK, GatesOf, CallOf, HasGate, Chosen

\* Task_setPri of GateMutexPri: nobody else's priority changes.
LEMMA SetPriIs ==
  ASSUME QueueTypeOK, NEW o \in Tasks, NEW p \in Level, Task_setPri(o, p)
  PROVE  pri' = [pri EXCEPT ![o] = p] /\ UNCHANGED mode /\ (workFlag => workFlag')
BY DEF Task_setPri, QueueTypeOK, queueVars

\* The queues after enter has lent the owner a priority.
LEMMA DonateIs ==
  ASSUME QueueTypeOK, QueuesOK, NEW o \in Tasks, NEW p \in Level, Donate(o, p), UNCHANGED curTask
  PROVE  /\ QueueTypeOK' /\ QueuesOK' /\ UNCHANGED mode /\ (workFlag => workFlag')
         /\ \A u \in Tasks \ {o} : pri'[u] = pri[u]
         /\ pri[o] <= pri'[o] /\ p <= pri'[o]
<1>1. pri \in [Tasks -> Level] /\ \A l \in Level : l \in Int
  BY DEF QueueTypeOK, Level, Priority, Inactive
<1>2. CASE p > pri[o]
  <2>1. Task_setPri(o, p)
    BY <1>2 DEF Donate
  <2>2. pri' = [pri EXCEPT ![o] = p] /\ UNCHANGED mode /\ (workFlag => workFlag')
    BY <2>1, SetPriIs
  <2>3. QueueTypeOK' /\ QueuesOK'
    BY <2>1, Task_setPriPreserves
  <2>4. pri[o] <= pri'[o] /\ p <= pri'[o] /\ \A u \in Tasks \ {o} : pri'[u] = pri[u]
    BY <1>1, <1>2, <2>2
  <2> QED BY <2>2, <2>3, <2>4
<1>3. CASE ~(p > pri[o])
  <2>1. UNCHANGED <<queueVars, curTask>> /\ UNCHANGED <<mode, pri, workFlag>>
    BY <1>3 DEF Donate, queueVars
  <2>2. QueueTypeOK' /\ QueuesOK'
    BY <2>1, QueuesUnchanged
  <2> QED BY <1>1, <1>3, <2>1, <2>2
<1> QED BY <1>2, <1>3

\* The caller of enter queues itself and lends the owner its priority.
LEMMA EnterDonatePreserves ==
  ASSUME IInv, NEW t \in Tasks, EnterDonate(t)
  PROVE  IInv'
<1>1. StandOK /\ TypeOK /\ CallOf(t) /\ GatesOf(t) /\ PriOf(t)
  BY DEF IInv, StandOK
<1>2. PICK g \in Gates : g = op[t].on
  BY <1>1, OpFields DEF EnterDonate, At, CallOf, TypeOK
<1> DEFINE p == tskPri[t]
           q == gateQ[g]
           r == InsertPri(q, t, p)
<1>3. /\ InTask(t) /\ pc[t] = "donate" /\ pc' = [pc EXCEPT ![t] = "restore"]
      /\ op' = [op EXCEPT ![t] = op[t]] /\ op[t].name = "wait" /\ mode[t] = "BLOCKED"
      /\ gateQ' = [gateQ EXCEPT ![g] = r]
      /\ UNCHANGED <<locked, swiLocked, phase, op, key, free, owner, ownerOrigPri, app, tskPri, held>>
  BY <1>1, <1>2 DEF EnterDonate, At, Goto, IInv, TypeOK, CallOf, GatesOf, userVars
<1>4. PICK o \in Tasks : owner[g] = {o} /\ HasGate(o, g) /\ o # t /\ Donate(o, p)
  <2>1. ~free[g] /\ t \notin owner[g] /\ \E o \in owner[g] : Donate(o, p)
    BY <1>1, <1>2, <1>3 DEF EnterDonate, GatesOf
  <2>2. PICK o \in Tasks : owner[g] = {o} /\ HasGate(o, g)
    BY <1>1, <2>1 DEF StandOK, GateOK
  <2> QED BY <2>1, <2>2
<1>5. /\ QueueTypeOK /\ QueuesOK /\ UNCHANGED curTask /\ locked /\ locked \in BOOLEAN /\ ~free[g] /\ t \notin owner[g]
      /\ workFlag /\ \A u \in Tasks \ {t} : pc[u] \notin Holding
  BY <1>1, <1>2, <1>3, InCall DEF Holding, Leaving, GatesOf
<1>6. /\ p \in Level /\ q \in Seq(Tasks) /\ NoDuplicates(q) /\ ~Linked(t, q) /\ \A f \in Gates : ~Waits(t, f)
  <2>1. \A f \in Gates : ~Waits(t, f)
    BY <1>1, <1>3 DEF GatesOf
  <2> QED BY <1>1, <2>1 DEF TypeOK, StandOK, GateOK, Waits
<1> HIDE DEF p
<1>7. /\ QueueTypeOK' /\ QueuesOK' /\ UNCHANGED mode /\ workFlag'
      /\ \A u \in Tasks \ {o} : pri'[u] = pri[u]
      /\ pri[o] <= pri'[o] /\ p <= pri'[o]
  BY <1>4, <1>5, <1>6, DonateIs
<1>8. PICK i \in 1 .. Len(q) + 1 : /\ r = InsertAt(q, i, t)
                                   /\ \A k \in 1 .. i - 1 : pri[q[k]] >= p
                                   /\ i <= Len(q) => pri[q[i]] < p
  BY <1>5, <1>6, InsertPriPlace DEF QueueTypeOK
<1>9. /\ r \in Seq(Tasks) /\ Len(r) = Len(q) + 1 /\ NoDuplicates(r)
      /\ \A u \in Tasks : Linked(u, r) <=> Linked(u, q) \/ u = t
      /\ \A k \in 1 .. Len(r) : r[k] = IF k < i THEN q[k] ELSE IF k = i THEN t ELSE q[k - 1]
  <2>1. InsertAt(q, i, t) = r
    BY <1>8
  <2> HIDE DEF q, r
  <2> QED BY <1>6, <2>1, InsertElement
<1> HIDE DEF r
<1>10. \A f \in Gates : gateQ'[f] = IF f = g THEN r ELSE gateQ[f]
  BY <1>1, <1>3 DEF TypeOK
<1>11. \A u \in Tasks, f \in Gates : Waits(u, f)' <=> Waits(u, f) \/ (u = t /\ f = g)
  BY <1>6, <1>9, <1>10 DEF Waits
<1>12. \A u \in Tasks : pc'[u] = IF u = t THEN "restore" ELSE pc[u]
  BY <1>1, <1>3 DEF TypeOK
<1>13. KernelTypeOK' /\ KernelOK' /\ CallsOK' /\ pc' \in [Tasks -> PCs] /\ op' \in [Tasks -> Ops]
  <2>1. Leaving(t)' /\ "restore" \in PCs /\ "restore" \in Holding /\ op[t] \in Ops
    BY <1>1, <1>3, <1>12 DEF Leaving, PCs, Holding, TypeOK
  <2>2. key' \in [Tasks -> BOOLEAN] /\ \A u \in Tasks : ~key'[u]
    BY <1>3 DEF IInv, TypeOK, CallsOK
  <2> QED BY <1>3, <1>5, <1>7, <2>1, <2>2, RegionKeeps
<1>14. TypeOK'
  <2>1. gateQ' \in [Gates -> Seq(Tasks)]
    BY <1>1, <1>3, <1>9 DEF TypeOK
  <2> QED BY <1>1, <1>3, <1>13, <2>1 DEF IInv, TypeOK
<1>15. ~Chosen(t) /\ \A u \in Tasks : /\ Chosen(u)' <=> Chosen(u)
                                      /\ \A f \in Gates : Inside(u, f)' <=> Inside(u, f)
  BY <1>3, <1>7, <1>12 DEF Chosen, Inside
<1>16. ASSUME NEW u \in Tasks PROVE CallOf(u)'
  <2>1. CallOf(u)
    BY <1>1 DEF StandOK
  <2> QED BY <1>3, <1>7, <1>12, <2>1 DEF CallOf
<1>17. ASSUME NEW u \in Tasks PROVE GatesOf(u)'
  <2>1. CASE u = t
    BY <1>1, <1>2, <1>3, <1>5, <1>6, <1>7, <1>11, <1>12, <1>15, <2>1
    DEF GatesOf, FirstEntersDiffer
  <2>2. CASE u # t
    <3>1. GatesOf(u) /\ CallOf(u)
      BY <1>1 DEF StandOK
    <3>2. \A f \in Gates : Waits(u, f)' <=> Waits(u, f)
      BY <1>11, <2>2
    <3>3. op[u].name = "wait" => op[u].on \in Gates
      BY <1>1, OpFields DEF TypeOK
    <3>4. pc'[u] = pc[u] /\ op'[u] = op[u] /\ mode'[u] = mode[u] /\ held'[u] = held[u]
      BY <1>3, <1>7, <1>12, <2>2
    <3>5. op[u].name = "wait" => (Waits(u, op[u].on)' <=> Waits(u, op[u].on))
      BY <3>2, <3>3, <3>4
    <3>6. op[u].name = "wait" => (Inside(u, op[u].on)' <=> Inside(u, op[u].on))
      BY <1>15, <3>3, <3>4 DEF Inside
    <3>7. UNCHANGED <<free, owner>> /\ (pc[u] = "handover" => u = t)
      BY <1>3, <1>5 DEF Holding
    <3>8. FirstEntersDiffer(u)' <=> FirstEntersDiffer(u)
      BY <3>4 DEF FirstEntersDiffer
    <3>9. pc[u] \notin {"donate", "handover"}
      BY <1>5, <2>2 DEF Holding
    <3> QED BY <1>3, <1>15, <3>1, <3>2, <3>4, <3>5, <3>6, <3>7, <3>8, <3>9
        DEF GatesOf, Left, InnermostFirst, OneAtATime
  <2> QED BY <2>1, <2>2
<1>18. \A u \in Tasks : /\ InitPri[u] <= pri[u] /\ pri[u] <= pri'[u]
                        /\ InitPri[u] \in Int /\ pri[u] \in Int /\ pri'[u] \in Int /\ tskPri[u] \in Int
  <2> SUFFICES ASSUME NEW u \in Tasks
               PROVE  /\ InitPri[u] <= pri[u] /\ pri[u] <= pri'[u]
                      /\ InitPri[u] \in Int /\ pri[u] \in Int /\ pri'[u] \in Int /\ tskPri[u] \in Int
    OBVIOUS
  <2>1. \A l \in Level : l \in Int
    BY DEF Level, Priority, Inactive
  <2>2. InitPri[u] \in Level /\ pri[u] \in Level /\ pri'[u] \in Level /\ tskPri[u] \in Level
    BY <1>1, <1>5, <1>7, InitPriAssumption DEF QueueTypeOK, TypeOK
  <2>3. InitPri[u] <= pri[u]
    BY <1>1 DEF StandOK, PriOf
  <2> QED BY <1>7, <2>1, <2>2, <2>3
<1>19. ASSUME NEW u \in Tasks PROVE PriOf(u)'
  <2>1. PriOf(u)
    BY <1>1 DEF StandOK
  <2>2. Entering(u)' => Entering(u)
    BY <1>3, <1>12 DEF Entering
  <2>3. u = o /\ held[o] = <<>> => Chosen(o)
    <3>1. ~Inside(o, g) \/ held[o] # <<>>
      BY DEF Inside
    <3> QED BY <1>4, <1>5, <3>1 DEF HasGate, Holding
  <2> QED BY <1>3, <1>7, <1>15, <1>18, <2>1, <2>2, <2>3 DEF PriOf, InnermostFirst, OneAtATime
<1>20. ASSUME NEW f \in Gates PROVE GateOK(f)'
  <2>1. GateOK(f)
    BY <1>1 DEF StandOK
  <2>2. \A u \in Tasks : HasGate(u, f) => HasGate(u, f)'
    BY <1>3, <1>12, <1>15 DEF HasGate
  <2>3. NoDuplicates(gateQ'[f])
    BY <1>9, <1>10, <2>1 DEF GateOK
  <2> QED BY <1>3, <1>5, <1>10, <2>1, <2>2, <2>3 DEF GateOK
<1>21. GateQueueSorted'
  <2>1. pri \in [Tasks -> Level] /\ pri' \in [Tasks -> Level]
    BY <1>5, <1>7 DEF QueueTypeOK
  <2>2. \A f \in Gates : InOrder(gateQ[f], pri)
    BY <1>1, SortedIsInOrder DEF StandOK
  <2>3. InOrder(r, pri)
    <3>1. p <= pri[t] /\ (pri[t] = InitPri[t] => pri[t] = p)
      BY <1>1, <1>3, <1>18 DEF PriOf, Entering, p
    <3>2. InOrder(q, pri)
      BY <2>2
    <3> HIDE DEF q
    <3> QED BY <1>6, <1>8, <1>9, <2>1, <3>1, <3>2, InsertKeepsOrder
  <2>4. ASSUME NEW f \in Gates PROVE InOrder(gateQ'[f], pri')
    <3>1. gateQ'[f] \in Seq(Tasks) /\ InOrder(gateQ'[f], pri)
      BY <1>9, <1>10, <2>2, <2>3, <1>1 DEF TypeOK
    <3>2. \A u \in Tasks : InitPri[u] <= pri[u] /\ pri[u] <= pri'[u]
      BY <1>18
    <3> QED BY <2>1, <3>1, <3>2, RaiseKeepsOrder
  <2> QED BY <2>4, SortedIsInOrder
<1>22. LentOK'
  <2> SUFFICES ASSUME OneAtATime PROVE LentOK'
    BY <1>3 DEF LentOK, OneAtATime
  <2>1. LentOK
    BY <1>1 DEF StandOK
  <2>2. \A u \in Tasks : EmptyHanded(u)' => EmptyHanded(u)
    BY <1>3, <1>12 DEF EmptyHanded, Entering
  <2>3. ASSUME NEW f \in Gates, NEW u \in Tasks, Waits(u, f)', NEW w \in owner'[f], pc'[w] # "handover"
        PROVE  pri'[u] <= pri'[w]
    <3>1. w \in owner[f] /\ w \in Tasks /\ pc[w] # "handover"
      BY <1>1, <1>3, <1>12, <2>3 DEF TypeOK
    <3>2. CASE Waits(u, f)
      <4>1. pri[u] <= pri[w]
        BY <2>1, <3>1, <3>2 DEF LentOK
      <4>2. u # o
        <5>1. GatesOf(u) /\ CallOf(u)
          BY <1>1 DEF StandOK
        <5>2. mode[u] = "BLOCKED" /\ op[u].name = "wait"
          BY <3>2, <5>1 DEF GatesOf
        <5>3. held[u] = <<>> /\ ~Chosen(u) /\ pc[u] # "handover"
          BY <2>1, <5>1, <5>2 DEF LentOK, EmptyHanded, Chosen, CallOf
        <5>4. ~HasGate(u, g)
          BY <5>3 DEF HasGate, Inside
        <5> QED BY <1>4, <5>4
      <4> QED BY <1>7, <1>18, <3>1, <4>1, <4>2
    <3>3. CASE ~Waits(u, f)
      <4>1. u = t /\ f = g /\ w = o
        BY <1>4, <1>11, <2>3, <3>1, <3>3
      <4>2. held[t] = <<>>
        BY <1>3, <2>1 DEF LentOK, EmptyHanded
      <4>3. pri[t] = p
        BY <1>1, <1>3, <1>15, <1>18, <4>2 DEF PriOf, Entering, InnermostFirst, p
      <4> QED BY <1>4, <1>7, <4>1, <4>3
    <3> QED BY <3>2, <3>3
  <2> QED BY <1>3, <2>1, <2>2, <2>3 DEF LentOK
<1> QED BY <1>13, <1>14, <1>16, <1>17, <1>19, <1>20, <1>21, <1>22 DEF IInv, StandOK

\* The queues after leave has given a lent priority back.
LEMMA RestorePriIs ==
  ASSUME QueueTypeOK, QueuesOK, NEW t \in Tasks, NEW p \in Level, RestorePri(t, p),
         UNCHANGED curTask
  PROVE  /\ QueueTypeOK' /\ QueuesOK' /\ UNCHANGED mode
         /\ workFlag' \/ UNCHANGED queueVars
         /\ \A u \in Tasks \ {t} : pri'[u] = pri[u]
         /\ pri'[t] = IF p < pri[t] THEN p ELSE pri[t]
<1>1. pri \in [Tasks -> Level]
  BY DEF QueueTypeOK
<1>2. CASE p < pri[t]
  <2>1. Task_setPri(t, p)
    BY <1>2 DEF RestorePri
  <2>2. pri' = [pri EXCEPT ![t] = p] /\ UNCHANGED mode
    BY <2>1, SetPriIs
  <2>3. QueueTypeOK' /\ QueuesOK' /\ (workFlag' \/ UNCHANGED queueVars)
    BY <2>1, Task_setPriPreserves
  <2> QED BY <1>1, <1>2, <2>2, <2>3
<1>3. CASE ~(p < pri[t])
  <2>1. UNCHANGED <<queueVars, curTask>> /\ UNCHANGED <<mode, pri>>
    BY <1>3 DEF RestorePri, queueVars
  <2>2. QueueTypeOK' /\ QueuesOK'
    BY <2>1, QueuesUnchanged
  <2> QED BY <1>1, <1>3, <2>1, <2>2
<1> QED BY <1>2, <1>3

\* The first half of the leave of a first enter.
LEMMA LeaveRestorePriPreserves ==
  ASSUME IInv, NEW t \in Tasks, LeaveRestorePri(t)
  PROVE  IInv'
<1>1. StandOK /\ TypeOK /\ CallOf(t) /\ GatesOf(t) /\ PriOf(t) /\ FirstEntersDiffer(t)
  BY DEF IInv, StandOK, GatesOf
<1>2. PICK g \in Gates : g = op[t].on
  BY <1>1, OpFields DEF LeaveRestorePri, Calling, TypeOK
<1> DEFINE h == RemoveAt(held[t], op[t].at)
           p == ownerOrigPri[g]
<1>3. /\ InTask(t) /\ pc[t] = "region" /\ op[t].name = "leave" /\ pc' = [pc EXCEPT ![t] = "handover"]
      /\ op' = [op EXCEPT ![t] = op[t]] /\ Left(t)[2] = "FIRST_ENTER" /\ RestorePri(t, p)
      /\ held' = [held EXCEPT ![t] = h]
      /\ UNCHANGED <<locked, swiLocked, phase, op, key, free, owner, ownerOrigPri, gateQ, app, tskPri>>
      /\ UNCHANGED gateVars
  BY <1>1, <1>2 DEF LeaveRestorePri, Undone, Calling, At, Goto, TypeOK, gateVars
<1>4. /\ held[t] \in Seq(Gates \X Keys) /\ op[t].at \in DOMAIN held[t] /\ Left(t)[1] = g
      /\ InnermostFirst => op[t].at = Len(held[t])
      /\ p \in Level /\ op[t] \in Ops
  BY <1>1, <1>2, <1>3 DEF TypeOK, GatesOf
<1>5. held'[t] = h /\ pc'[t] = "handover"
  BY <1>1, <1>3 DEF TypeOK
<1>6. /\ Left(t) \in Gates \X Keys
      /\ h \in Seq(Gates \X Keys) /\ Len(h) = Len(held[t]) - 1
      /\ InnermostFirst /\ h # <<>> => h[1] = held[t][1]
      /\ \A f \in Gates : Inside(t, f)' <=> Inside(t, f) /\ Left(t) # <<f, "FIRST_ENTER">>
      /\ FirstEntersDiffer(t)'
  BY <1>1, <1>4, <1>5, HeldShrinks
<1>7. Left(t) = <<g, "FIRST_ENTER">>
  BY <1>3, <1>4, <1>6
<1>8. /\ Inside(t, g) /\ owner[g] = {t} /\ ~free[g]
      /\ \A f \in Gates : Inside(t, f)' <=> Inside(t, f) /\ f # g
  <2>2. Inside(t, g)
    BY <1>4, <1>7 DEF Inside, Left
  <2>3. \A f \in Gates : <<g, "FIRST_ENTER">> = <<f, "FIRST_ENTER">> <=> f = g
    OBVIOUS
  <2> QED BY <1>1, <1>6, <1>7, <2>2, <2>3 DEF GatesOf
<1> HIDE DEF h, p
<1>9. /\ QueueTypeOK /\ QueuesOK /\ UNCHANGED curTask /\ locked /\ locked \in BOOLEAN /\ mode[t] = "READY"
      /\ \A u \in Tasks \ {t} : pc[u] \notin Holding
  BY <1>3, InCall DEF Holding, Leaving
<1>10. /\ QueueTypeOK' /\ QueuesOK' /\ UNCHANGED mode
       /\ workFlag' \/ UNCHANGED queueVars
       /\ \A u \in Tasks \ {t} : pri'[u] = pri[u]
       /\ pri'[t] = IF p < pri[t] THEN p ELSE pri[t]
  BY <1>3, <1>4, <1>9, RestorePriIs
<1>11. \A u \in Tasks : /\ pc'[u] = IF u = t THEN "handover" ELSE pc[u]
                        /\ held'[u] = IF u = t THEN h ELSE held[u]
  BY <1>1, <1>3 DEF TypeOK
<1>12. KernelTypeOK' /\ KernelOK' /\ CallsOK' /\ pc' \in [Tasks -> PCs] /\ op' \in [Tasks -> Ops]
  <2>1. ~Leaving(t)' /\ "handover" \in PCs /\ "handover" \in Holding
    BY <1>5 DEF Leaving, PCs, Holding
  <2>2. key' \in [Tasks -> BOOLEAN] /\ \A u \in Tasks : ~key'[u]
    BY <1>3 DEF IInv, TypeOK, CallsOK
  <2>3. workFlag' \/ (UNCHANGED <<curQ, workFlag>> /\ curSet' \subseteq curSet)
    BY <1>10 DEF queueVars
  <2> QED BY <1>3, <1>4, <1>9, <1>10, <2>1, <2>2, <2>3, RegionKeeps
<1>13. TypeOK'
  <2>1. held' \in [Tasks -> Seq(Gates \X Keys)]
    BY <1>1, <1>3, <1>6 DEF TypeOK
  <2> QED BY <1>1, <1>3, <1>12, <2>1 DEF IInv, TypeOK
<1>14. ASSUME NEW u \in Tasks \ {t} PROVE CallOf(u)' /\ GatesOf(u)' /\ PriOf(u)'
  <2>1. /\ pc'[u] = pc[u] /\ op'[u] = op[u] /\ mode'[u] = mode[u] /\ pri'[u] = pri[u]
        /\ held'[u] = held[u] /\ tskPri'[u] = tskPri[u]
    BY <1>3, <1>10, <1>11
  <2> QED BY <1>1, <1>3, <2>1, OthersStand
<1>15. \A f \in Gates : ~Waits(t, f)
  BY <1>1, <1>3 DEF GatesOf
<1>16. CallOf(t)'
  BY <1>1, <1>3, <1>5, <1>10 DEF CallOf
<1>17. GatesOf(t)'
  BY <1>2, <1>3, <1>5, <1>6, <1>8, <1>1, <1>15 DEF GatesOf, Waits
<1>18. InitPri[t] \in Int /\ pri[t] \in Int /\ p \in Int /\ InitPri[t] <= pri[t] /\ InitPri[t] <= p
  <2>1. \A l \in Level : l \in Int
    BY DEF Level, Priority, Inactive
  <2>2. InitPri[t] \in Level /\ pri[t] \in Level
    BY <1>9, InitPriAssumption DEF QueueTypeOK
  <2>3. p >= InitPri[t]
    BY <1>1, <1>8 DEF StandOK, GateOK, p
  <2> QED BY <1>1, <1>4, <2>1, <2>2, <2>3 DEF PriOf
<1>19. PriOf(t)'
  <2>1. InitPri[t] <= pri'[t] /\ ~Entering(t)' /\ ~Chosen(t)'
    BY <1>3, <1>5, <1>10, <1>18 DEF Entering, Chosen
  <2>4. (InnermostFirst' <=> InnermostFirst) /\ (~InnermostFirst => PriOf(t)')
    BY <1>3, <2>1 DEF PriOf, InnermostFirst, OneAtATime
  <2>2. CASE InnermostFirst /\ h = <<>>
    <3>1. held[t] # <<>> /\ held[t][1] = <<g, "FIRST_ENTER">>
      <4>1. Len(h) = 0 /\ Len(held[t]) \in Nat
        BY <1>4, <2>2
      <4>2. Len(held[t]) = 1
        BY <1>6, <4>1
      <4> QED BY <1>4, <1>7, <2>2, <4>2 DEF Left
    <3>2. held[t][1][1] = g
      BY <3>1
    <3>3. p = InitPri[t]
      BY <1>1, <2>2, <3>1, <3>2 DEF PriOf, p
    <3>4. pri'[t] = InitPri[t]
      BY <1>10, <1>18, <3>3
    <3> QED BY <1>5, <2>1, <2>2, <3>4 DEF PriOf
  <2>3. CASE InnermostFirst /\ h # <<>>
    <3>1. held[t] # <<>>
      BY <1>4
    <3> QED BY <1>1, <1>3, <1>5, <1>6, <2>1, <2>3, <3>1 DEF PriOf
  <2> QED BY <2>2, <2>3, <2>4
<1>20. ASSUME NEW f \in Gates PROVE GateOK(f)'
  <2>1. GateOK(f)
    BY <1>1 DEF StandOK
  <2>2. HasGate(t, f) => HasGate(t, f)'
    BY <1>2, <1>3, <1>5, <1>8 DEF HasGate, Chosen
  <2>3. \A u \in Tasks \ {t} : HasGate(u, f) => HasGate(u, f)'
    BY <1>3, <1>10, <1>11 DEF HasGate, Chosen, Inside
  <2> QED BY <1>3, <2>1, <2>2, <2>3 DEF GateOK
<1>21. GateQueueSorted'
  <2> SUFFICES ASSUME NEW f \in Gates PROVE InOrder(gateQ'[f], pri')
    BY SortedIsInOrder
  <2>1. gateQ[f] \in Seq(Tasks) /\ InOrder(gateQ[f], pri)
    BY <1>1, SortedIsInOrder DEF StandOK, TypeOK
  <2>2. \A i \in DOMAIN gateQ[f] : gateQ[f][i] \in Tasks /\ gateQ[f][i] # t
    BY <1>15, <2>1 DEF Waits, Linked
  <2>3. \A i \in DOMAIN gateQ[f] : pri'[gateQ[f][i]] = pri[gateQ[f][i]]
    BY <1>10, <2>2
  <2> QED BY <1>3, <2>1, <2>3 DEF InOrder
<1>22. LentOK'
  <2> SUFFICES ASSUME OneAtATime PROVE LentOK'
    BY <1>3 DEF LentOK, OneAtATime
  <2>1. LentOK
    BY <1>1 DEF StandOK
  <2>2. \A u \in Tasks \ {t} : EmptyHanded(u)' => EmptyHanded(u)
    BY <1>3, <1>11 DEF EmptyHanded, Entering
  <2>3. h = <<>> /\ Len(h) <= 1
    <3>1. Len(held[t]) <= 1
      BY <2>1 DEF LentOK
    <3> QED BY <1>4, <1>6, <3>1
  <2>4. ASSUME NEW f \in Gates, NEW u \in Tasks, Waits(u, f)', NEW w \in owner'[f], pc'[w] # "handover"
        PROVE  pri'[u] <= pri'[w]
    <3>1. w \in owner[f] /\ w \in Tasks /\ Waits(u, f) /\ u # t
      BY <1>1, <1>3, <1>15, <2>4 DEF TypeOK, Waits
    <3>2. w # t /\ pc[w] # "handover"
      BY <1>11, <2>4, <3>1
    <3>3. pri[u] <= pri[w]
      BY <2>1, <3>1, <3>2 DEF LentOK
    <3> QED BY <1>10, <3>1, <3>2, <3>3
  <2> QED BY <1>11, <2>1, <2>2, <2>3, <2>4 DEF LentOK
<1> QED BY <1>12, <1>13, <1>14, <1>16, <1>17, <1>19, <1>20, <1>21, <1>22 DEF IInv, StandOK

\* Only the running task is in a region, and a task that waits is at its wait:
\* what a task that is not t has to do with a gate that t is giving away.
LEMMA HandingOver ==
  ASSUME IInv, NEW t \in Tasks, InTask(t), pc[t] = "handover", NEW g \in Gates, g = op[t].on
  PROVE  /\ owner[g] = {t} /\ ~free[g] /\ ~Inside(t, g) /\ \A f \in Gates : ~Waits(t, f)
         /\ \A f \in Gates : HasGate(t, f) /\ f # g => Inside(t, f)
         /\ \A u \in Tasks \ {t} : ~HasGate(u, g) /\ pc[u] \notin Holding
         /\ OneAtATime => \A f \in Gates \ {g} : t \in owner[f] => free[f]
<1>1. CallOf(t) /\ GatesOf(t) /\ StandOK /\ TypeOK
  BY DEF IInv, StandOK
<1>2. owner[g] = {t} /\ ~free[g] /\ ~Inside(t, g) /\ \A f \in Gates : ~Waits(t, f)
  BY <1>1 DEF GatesOf, CallOf
<1>3. \A f \in Gates : HasGate(t, f) /\ f # g => Inside(t, f)
  BY DEF HasGate, Chosen
<1>4. \A u \in Tasks \ {t} : ~HasGate(u, g) /\ pc[u] \notin Holding
  BY <1>1, <1>2, OwnerHasGate, InCall
<1>5. ASSUME OneAtATime, NEW f \in Gates \ {g}, t \in owner[f], ~free[f] PROVE FALSE
  <2>1. HasGate(t, f)
    BY <1>1, <1>5 DEF StandOK, GateOK
  <2>2. held[t] # <<>>
    BY <1>3, <2>1 DEF Inside
  <2> QED BY <1>1, <1>5, <2>2 DEF StandOK, LentOK, EmptyHanded
<1> QED BY <1>2, <1>3, <1>4, <1>5

\* The second half of leave, when nobody waits.
LEMMA FreeGatePreserves ==
  ASSUME IInv, NEW t \in Tasks, LeaveHandOver(t), gateQ[op[t].on] = <<>>
  PROVE  IInv'
<1>1. StandOK /\ TypeOK /\ CallOf(t) /\ GatesOf(t) /\ PriOf(t)
  BY DEF IInv, StandOK
<1>2. PICK g \in Gates : g = op[t].on
  BY <1>1, OpFields DEF LeaveHandOver, At, CallOf, TypeOK
<1>3. /\ InTask(t) /\ pc[t] = "handover" /\ op[t].name = "leave" /\ pc' = [pc EXCEPT ![t] = "restore"]
      /\ op' = [op EXCEPT ![t] = op[t]] /\ free' = [free EXCEPT ![g] = TRUE] /\ gateQ[g] = <<>>
      /\ UNCHANGED <<queueVars, locked, swiLocked, phase, op, key, owner, ownerOrigPri, gateQ, app, tskPri, held>>
  BY <1>1, <1>2 DEF LeaveHandOver, At, Goto, CallOf, TypeOK, userVars
<1>4. /\ owner[g] = {t} /\ ~free[g] /\ ~Inside(t, g) /\ \A f \in Gates : ~Waits(t, f)
      /\ \A f \in Gates : HasGate(t, f) /\ f # g => Inside(t, f)
      /\ \A u \in Tasks \ {t} : ~HasGate(u, g) /\ pc[u] \notin Holding
      /\ OneAtATime => \A f \in Gates \ {g} : t \in owner[f] => free[f]
  BY <1>2, <1>3, HandingOver
<1>5. /\ UNCHANGED <<mode, pri>>
      /\ \A f \in Gates : free'[f] = IF f = g THEN TRUE ELSE free[f]
      /\ \A u \in Tasks : pc'[u] = IF u = t THEN "restore" ELSE pc[u]
  BY <1>1, <1>3 DEF TypeOK, queueVars
<1>6. KernelTypeOK' /\ KernelOK' /\ CallsOK' /\ pc' \in [Tasks -> PCs] /\ op' \in [Tasks -> Ops]
  <2>1. ~Leaving(t) /\ ~Leaving(t)' /\ "restore" \in PCs /\ "restore" \in Holding /\ op[t] \in Ops
    BY <1>1, <1>3, <1>5 DEF Leaving, PCs, Holding, TypeOK
  <2>2. key' \in [Tasks -> BOOLEAN] /\ \A u \in Tasks : ~key'[u]
    BY <1>3 DEF IInv, TypeOK, CallsOK
  <2>3. locked /\ locked \in BOOLEAN
    BY <1>3, InCall DEF Holding
  <2> QED BY <1>3, <2>1, <2>2, <2>3, QuietRegion
<1>7. TypeOK'
  BY <1>1, <1>3, <1>6 DEF IInv, TypeOK
<1>8. GatesButKept(g) /\ \A u \in Tasks : ~Waits(u, g) /\ ~Waits(u, g)'
  BY <1>3, <1>5 DEF GatesButKept, Waits, Linked
<1>9. ASSUME NEW u \in Tasks \ {t} PROVE CallOf(u)' /\ GatesOf(u)' /\ PriOf(u)'
  <2>1. pc[u] \notin {"donate", "handover"}
    BY <1>4 DEF Holding
  <2>2. /\ pc'[u] = pc[u] /\ op'[u] = op[u] /\ mode'[u] = mode[u] /\ pri'[u] = pri[u]
        /\ held'[u] = held[u] /\ tskPri'[u] = tskPri[u]
    BY <1>3, <1>5
  <2> QED BY <1>1, <1>3, <1>4, <1>8, <2>1, <2>2, GateMoves
<1>10. CallOf(t)'
  BY <1>1, <1>3, <1>5 DEF CallOf
<1>11. GatesOf(t)'
  <2>1. \A f \in Gates : Inside(t, f)' => owner'[f] = {t} /\ ~free'[f]
    BY <1>1, <1>3, <1>4, <1>5 DEF GatesOf, Inside
  <2> QED BY <1>1, <1>3, <1>4, <1>5, <2>1 DEF GatesOf, FirstEntersDiffer, Waits
<1>12. PriOf(t)'
  BY <1>1, <1>3, <1>5 DEF PriOf, Entering, Chosen, InnermostFirst, OneAtATime
<1>13. ASSUME NEW f \in Gates PROVE GateOK(f)'
  <2>1. GateOK(f)
    BY <1>1 DEF StandOK
  <2>2. CASE f = g
    BY <1>3, <1>5, <2>1, <2>2 DEF GateOK
  <2>3. CASE f # g
    <3>1. \A u \in Tasks : HasGate(u, f) => HasGate(u, f)'
      <4>1. HasGate(t, f) => HasGate(t, f)'
        BY <1>3, <1>4, <2>3 DEF HasGate, Inside
      <4>2. \A u \in Tasks \ {t} : HasGate(u, f) => HasGate(u, f)'
        BY <1>3, <1>5 DEF HasGate, Inside, Chosen
      <4> QED BY <4>1, <4>2
    <3> QED BY <1>3, <1>5, <2>1, <2>3, <3>1 DEF GateOK
  <2> QED BY <2>2, <2>3
<1>14. GateQueueSorted'
  BY <1>1, <1>3, <1>5 DEF StandOK, GateQueueSorted
<1>15. LentOK'
  <2> SUFFICES ASSUME OneAtATime PROVE LentOK'
    BY <1>3 DEF LentOK, OneAtATime
  <2>1. LentOK
    BY <1>1 DEF StandOK
  <2>2. \A u \in Tasks : EmptyHanded(u)' => EmptyHanded(u)
    BY <1>3, <1>5 DEF EmptyHanded, Entering
  <2>3. ASSUME NEW f \in Gates, NEW u \in Tasks, Waits(u, f)', NEW w \in owner'[f], pc'[w] # "handover"
        PROVE  pri'[u] <= pri'[w]
    <3>1. w \in owner[f] /\ w \in Tasks /\ Waits(u, f) /\ f # g
      BY <1>1, <1>3, <1>8, <2>3 DEF TypeOK, Waits
    <3>2. ~free[f]
      BY <1>1, <3>1 DEF StandOK, GateOK, Waits, Linked
    <3>3. w # t
      BY <1>4, <3>1, <3>2
    <3> QED BY <1>5, <2>1, <2>3, <3>1, <3>3 DEF LentOK
  <2> QED BY <1>3, <2>1, <2>2, <2>3 DEF LentOK
<1> QED BY <1>6, <1>7, <1>9, <1>10, <1>11, <1>12, <1>13, <1>14, <1>15 DEF IInv, StandOK

\* The second half of leave, when the first waiter becomes the owner.
LEMMA HandGatePreserves ==
  ASSUME IInv, NEW t \in Tasks, LeaveHandOver(t), gateQ[op[t].on] # <<>>
  PROVE  IInv'
<1>1. StandOK /\ TypeOK /\ CallOf(t) /\ GatesOf(t) /\ PriOf(t)
  BY DEF IInv, StandOK
<1>2. PICK g \in Gates : g = op[t].on
  BY <1>1, OpFields DEF LeaveHandOver, At, CallOf, TypeOK
<1> DEFINE q == gateQ[g]
<1>3. q \in Seq(Tasks) /\ NoDuplicates(q) /\ q # <<>>
  BY <1>1, <1>2 DEF TypeOK, StandOK, GateOK
<1>4. PICK n \in Tasks : n = Head(q)
  BY <1>3
<1>5. /\ InTask(t) /\ pc[t] = "handover" /\ op[t].name = "leave" /\ pc' = [pc EXCEPT ![t] = "restore"]
      /\ op' = [op EXCEPT ![t] = op[t]] /\ q # <<>>
      /\ gateQ' = [gateQ EXCEPT ![g] = Tail(q)] /\ owner' = [owner EXCEPT ![g] = {n}]
      /\ ownerOrigPri' = [ownerOrigPri EXCEPT ![g] = pri[n]] /\ Task_unblockI(n)
      /\ UNCHANGED <<locked, swiLocked, phase, op, key, free, app, tskPri, held>>
  BY <1>3, <1>1, <1>2, <1>4 DEF LeaveHandOver, At, Goto, CallOf, TypeOK, userVars
<1>6. /\ owner[g] = {t} /\ ~free[g] /\ ~Inside(t, g) /\ \A f \in Gates : ~Waits(t, f)
      /\ \A f \in Gates : HasGate(t, f) /\ f # g => Inside(t, f)
      /\ \A u \in Tasks \ {t} : ~HasGate(u, g) /\ pc[u] \notin Holding
      /\ OneAtATime => \A f \in Gates \ {g} : t \in owner[f] => free[f]
  BY <1>2, <1>5, HandingOver
<1>7. /\ Waits(n, g) /\ Tail(q) \in Seq(Tasks) /\ NoDuplicates(Tail(q))
      /\ \A u \in Tasks : Linked(u, Tail(q)) <=> Linked(u, q) /\ u # n
  <2> HIDE DEF q
  <2>1. Linked(n, q) /\ Tail(q) \in Seq(Tasks) /\ NoDuplicates(Tail(q))
    BY <1>3, <1>4, TailElements
  <2>2. \A u \in Tasks : Linked(u, Tail(q)) <=> Linked(u, q) /\ u # n
    BY <1>3, <1>4, TailIsRest
  <2> QED BY <2>1, <2>2 DEF Waits, q
<1>8. CallOf(n) /\ GatesOf(n) /\ PriOf(n) /\ n # t
  BY <1>1, <1>6, <1>7 DEF StandOK
<1>9. /\ mode[n] = "BLOCKED" /\ op[n].name = "wait" /\ op[n].on = g /\ pc[n] = "wake" /\ ~Inside(n, g)
      /\ ~Chosen(n)
  BY <1>6, <1>7, <1>8 DEF GatesOf, Holding, Chosen
<1>10. /\ QueueTypeOK /\ QueuesOK /\ UNCHANGED curTask /\ locked /\ locked \in BOOLEAN /\ mode[t] = "READY"
  BY <1>5, InCall DEF Holding, Leaving
<1>11. QueueTypeOK' /\ QueuesOK' /\ workFlag'
  BY <1>5, <1>7, <1>9, <1>10, Task_unblockIPreserves
<1>12. UNCHANGED pri /\ \A u \in Tasks : mode'[u] = IF u = n THEN "READY" ELSE mode[u]
  BY <1>5, <1>10 DEF Task_unblockI, Readied, QueueTypeOK
<1>13. /\ \A u \in Tasks : pc'[u] = IF u = t THEN "restore" ELSE pc[u]
       /\ \A f \in Gates : /\ owner'[f] = IF f = g THEN {n} ELSE owner[f]
                           /\ ownerOrigPri'[f] = IF f = g THEN pri[n] ELSE ownerOrigPri[f]
                           /\ gateQ'[f] = IF f = g THEN Tail(q) ELSE gateQ[f]
  BY <1>1, <1>5 DEF TypeOK
<1>14. KernelTypeOK' /\ KernelOK' /\ CallsOK' /\ pc' \in [Tasks -> PCs] /\ op' \in [Tasks -> Ops]
  <2>1. ~Leaving(t)' /\ "restore" \in PCs /\ "restore" \in Holding /\ op[t] \in Ops
    BY <1>1, <1>5, <1>13 DEF Leaving, PCs, Holding, TypeOK
  <2>2. key' \in [Tasks -> BOOLEAN] /\ \A u \in Tasks : ~key'[u]
    BY <1>5 DEF IInv, TypeOK, CallsOK
  <2>3. mode'[t] = "READY"
    BY <1>8, <1>10, <1>12
  <2> QED BY <1>5, <1>10, <1>11, <2>1, <2>2, <2>3, RegionKeeps
<1>15. TypeOK'
  <2>1. pri[n] \in Level
    BY <1>7, <1>10 DEF QueueTypeOK
  <2>2. /\ gateQ' \in [Gates -> Seq(Tasks)] /\ owner' \in [Gates -> SUBSET Tasks]
        /\ ownerOrigPri' \in [Gates -> Level]
    BY <1>1, <1>5, <1>7, <2>1 DEF TypeOK
  <2> QED BY <1>1, <1>5, <1>14, <2>2 DEF IInv, TypeOK
<1>16. /\ GatesButKept(g)
       /\ \A u \in Tasks, f \in Gates : Waits(u, f)' <=> Waits(u, f) /\ ~(u = n /\ f = g)
       /\ \A u \in Tasks, f \in Gates : Inside(u, f)' <=> Inside(u, f)
  BY <1>5, <1>7, <1>13 DEF GatesButKept, Waits, Inside
<1>17. ASSUME NEW u \in Tasks \ {t, n} PROVE CallOf(u)' /\ GatesOf(u)' /\ PriOf(u)'
  <2>1. pc[u] \notin {"donate", "handover"}
    BY <1>6 DEF Holding
  <2>2. /\ pc'[u] = pc[u] /\ op'[u] = op[u] /\ mode'[u] = mode[u] /\ pri'[u] = pri[u]
        /\ held'[u] = held[u] /\ tskPri'[u] = tskPri[u]
    BY <1>5, <1>12, <1>13
  <2>3. (Waits(u, g)' <=> Waits(u, g)) /\ ~free'[g] /\ u \notin owner'[g]
    BY <1>5, <1>6, <1>13, <1>16
  <2>4. ~HasGate(u, g)
    BY <1>6
  <2> QED BY <1>1, <1>5, <1>16, <2>1, <2>2, <2>3, <2>4, GateMoves
<1>18. CallOf(t)' /\ CallOf(n)'
  BY <1>1, <1>5, <1>8, <1>12, <1>13 DEF CallOf
<1>19. GatesOf(t)'
  <2>1. \A f \in Gates : Inside(t, f)' => owner'[f] = {t} /\ ~free'[f]
    BY <1>1, <1>5, <1>6, <1>13, <1>16 DEF GatesOf
  <2>2. \A f \in Gates : ~Waits(t, f)'
    BY <1>6, <1>16
  <2> QED BY <1>1, <1>5, <1>13, <2>1, <2>2 DEF GatesOf, FirstEntersDiffer
<1>20. GatesOf(n)'
  <2>1. \A f \in Gates : Inside(n, f)' => owner'[f] = {n} /\ ~free'[f]
    BY <1>5, <1>8, <1>9, <1>13, <1>16 DEF GatesOf
  <2>2. \A f \in Gates : ~Waits(n, f)'
    BY <1>8, <1>9, <1>16 DEF GatesOf
  <2>3. Chosen(n)' /\ owner'[g] = {n} /\ ~free'[g] /\ ~Inside(n, g)'
    BY <1>5, <1>6, <1>8, <1>9, <1>12, <1>13, <1>16 DEF Chosen
  <2> QED BY <1>5, <1>8, <1>9, <1>13, <2>1, <2>2, <2>3 DEF GatesOf, FirstEntersDiffer
<1>21. \A u \in {t, n} : InnermostFirst /\ held[u] # <<>> =>
         /\ held[u][1][1] \in Gates \ {g}
         /\ ownerOrigPri'[held[u][1][1]] = ownerOrigPri[held[u][1][1]]
  <2> SUFFICES ASSUME NEW u \in {t, n}, InnermostFirst, held[u] # <<>>
               PROVE  held[u][1][1] \in Gates \ {g}
    BY <1>13
  <2>1. held[u] \in Seq(Gates \X Keys) /\ 1 \in DOMAIN held[u]
    BY <1>1, <1>7 DEF TypeOK
  <2>2. held[u][1] \in Gates \X Keys /\ held[u][1][2] = "FIRST_ENTER"
    BY <1>1, <1>8, <2>1 DEF PriOf
  <2>3. Inside(u, held[u][1][1]) /\ held[u][1][1] \in Gates
    BY <2>1, <2>2 DEF Inside
  <2> QED BY <1>6, <1>9, <2>3
<1>22. PriOf(t)'
  BY <1>1, <1>5, <1>12, <1>13, <1>21 DEF PriOf, Entering, Chosen, InnermostFirst, OneAtATime
<1>23. PriOf(n)'
  <2>1. InnermostFirst /\ held[n] = <<>> => ownerOrigPri'[g] = InitPri[n]
    BY <1>8, <1>9, <1>13 DEF PriOf
  <2>2. Chosen(n)' /\ (Entering(n)' <=> Entering(n))
    BY <1>5, <1>8, <1>9, <1>12, <1>13 DEF Chosen, Entering
  <2> QED BY <1>5, <1>8, <1>9, <1>12, <1>21, <2>1, <2>2 DEF PriOf, InnermostFirst, OneAtATime
<1>24. ASSUME NEW f \in Gates PROVE GateOK(f)'
  <2>1. GateOK(f)
    BY <1>1 DEF StandOK
  <2>2. CASE f = g
    <3>1. HasGate(n, g)' /\ owner'[g] = {n}
      BY <1>5, <1>8, <1>9, <1>12, <1>13 DEF HasGate, Chosen
    <3>2. ownerOrigPri'[g] >= InitPri[n]
      <4>1. pri[n] \in Int /\ InitPri[n] \in Int
        BY <1>7, <1>10, InitPriAssumption DEF QueueTypeOK, Level, Priority, Inactive
      <4> QED BY <1>8, <1>13, <4>1 DEF PriOf
    <3> QED BY <1>5, <1>6, <1>7, <1>13, <2>2, <3>1, <3>2 DEF GateOK
  <2>3. CASE f # g
    <3>1. \A u \in Tasks : HasGate(u, f) => HasGate(u, f)'
      <4>1. HasGate(t, f) => HasGate(t, f)'
        BY <1>6, <1>16, <2>3 DEF HasGate
      <4>2. \A u \in Tasks \ {t} : HasGate(u, f) => HasGate(u, f)'
        BY <1>5, <1>12, <1>13, <1>16 DEF HasGate, Chosen
      <4> QED BY <4>1, <4>2
    <3> QED BY <1>5, <1>13, <2>1, <2>3, <3>1 DEF GateOK
  <2> QED BY <2>2, <2>3
<1>25. \A f \in Gates : InOrder(gateQ[f], pri)
  BY <1>1, SortedIsInOrder DEF StandOK
<1>26. GateQueueSorted'
  <2> SUFFICES ASSUME NEW f \in Gates PROVE InOrder(gateQ'[f], pri')
    BY SortedIsInOrder
  <2>1. CASE f = g
    <3>1. InOrder(q, pri)
      BY <1>25
    <3>2. \A i \in DOMAIN Tail(q) : i + 1 \in DOMAIN q /\ Tail(q)[i] = q[i + 1] /\ i \in Int
      BY <1>3
    <3> HIDE DEF q
    <3>3. InOrder(Tail(q), pri)
      BY <3>1, <3>2 DEF InOrder
    <3> QED BY <1>12, <1>13, <2>1, <3>3
  <2>2. CASE f # g
    BY <1>12, <1>13, <1>25, <2>2
  <2> QED BY <2>1, <2>2
<1>27. LentOK'
  <2> SUFFICES ASSUME OneAtATime PROVE LentOK'
    BY <1>5 DEF LentOK, OneAtATime
  <2>1. LentOK
    BY <1>1 DEF StandOK
  <2>2. \A u \in Tasks : EmptyHanded(u)' => EmptyHanded(u)
    BY <1>5, <1>13 DEF EmptyHanded, Entering
  <2>3. ASSUME NEW f \in Gates, NEW u \in Tasks, Waits(u, f)', NEW w \in owner'[f], pc'[w] # "handover"
        PROVE  pri'[u] <= pri'[w]
    <3>1. Waits(u, f)
      BY <1>16, <2>3
    <3>2. CASE f = g
      <4>1. w = n /\ u # n
        BY <1>13, <1>16, <2>3, <3>2
      <4>2. pri[u] = InitPri[u]
        <5>1. GatesOf(u) /\ PriOf(u)
          BY <1>1 DEF StandOK
        <5>2. mode[u] = "BLOCKED" /\ op[u].name = "wait"
          BY <3>1, <5>1 DEF GatesOf
        <5> QED BY <2>1, <5>1, <5>2 DEF LentOK, EmptyHanded, PriOf, Chosen, InnermostFirst
      <4>3. PICK i \in DOMAIN q : q[i] = u
        BY <3>1, <3>2 DEF Waits, Linked
      <4>4. 1 \in DOMAIN q /\ q[1] = n /\ i > 1
        BY <1>3, <1>4, <4>1, <4>3
      <4>5. pri[n] >= pri[u]
        BY <1>25, <4>2, <4>3, <4>4 DEF InOrder
      <4>6. pri[n] \in Int /\ pri[u] \in Int
        BY <1>7, <1>10 DEF QueueTypeOK, Level, Priority, Inactive
      <4> QED BY <1>12, <4>1, <4>5, <4>6
    <3>3. CASE f # g
      <4>1. ~free[f]
        BY <1>1, <3>1 DEF StandOK, GateOK, Waits, Linked
      <4>2. w \in owner[f] /\ w \in Tasks /\ w # t
        BY <1>1, <1>6, <1>13, <2>3, <3>3, <4>1 DEF TypeOK
      <4> QED BY <1>12, <1>13, <2>1, <2>3, <3>1, <4>2 DEF LentOK
    <3> QED BY <3>2, <3>3
  <2> QED BY <1>5, <2>1, <2>2, <2>3 DEF LentOK
<1>28. \A u \in Tasks : CallOf(u)' /\ GatesOf(u)' /\ PriOf(u)'
  BY <1>17, <1>18, <1>19, <1>20, <1>22, <1>23
<1> QED BY <1>14, <1>15, <1>24, <1>26, <1>27, <1>28 DEF IInv, StandOK

-----------------------------------------------------------------------------
(* Every step keeps IInv.                                                  *)

LEMMA StutterPreserves ==
  ASSUME IInv, UNCHANGED vars
  PROVE  IInv'
<1>1. UNCHANGED <<kernelVars, pc, op, key, gateVars, userVars>>
  BY DEF vars, callVars
<1>2. UNCHANGED <<mode, pri, readyQ, curSet, curQ, curTask, workFlag, locked, swiLocked, running,
                  phase, isr, isrKey, free, owner, ownerOrigPri, gateQ, app, tskPri, held>>
  BY <1>1 DEF kernelVars, gateVars, userVars
<1>3. TypeOK'
  BY <1>1, <1>2 DEF IInv, TypeOK, KernelTypeOK, QueueTypeOK, ControlTypeOK
<1>4. KernelOK'
  BY <1>2 DEF IInv, KernelOK, QueuesOK, ReadyListsOK, CurSetOK, CurQOK, NoLostReschedule, ControlOK
<1>5. CallsOK'
  BY <1>1, <1>2 DEF IInv, CallsOK, Leaving
<1>6. StandOK'
  BY <1>1, <1>2, StandUnchanged DEF IInv
<1> QED BY <1>3, <1>4, <1>5, <1>6 DEF IInv

LEMMA NextIInv == IInv /\ [Next]_vars => IInv'
<1> SUFFICES ASSUME IInv, [Next]_vars PROVE IInv'
  OBVIOUS
<1>1. CASE KernelStep
  BY <1>1, KernelStepPreserves
<1>2. ASSUME NEW t \in Tasks, HwiWake(t) PROVE IInv'
  BY <1>2, HwiWakePreserves
<1>3. ASSUME NEW t \in Tasks, TaskCall(t) PROVE IInv'
  BY <1>3, PausePreserves, LeaveCallPreserves, EnterCallPreserves DEF TaskCall
<1>4. ASSUME NEW t \in Tasks, TaskProgress(t) PROVE IInv'
  <2>1. LeaveHandOver(t) => IInv'
    BY FreeGatePreserves, HandGatePreserves
  <2> QED BY <1>4, <2>1, LockPreserves, EnterFreePreserves, EnterNestedPreserves,
             EnterBlockPreserves, EnterDonatePreserves, EnterReturnPreserves,
             LeaveNestedPreserves, LeaveRestorePriPreserves, RestoreStepPreserves
          DEF TaskProgress
<1>5. CASE UNCHANGED vars
  BY <1>5, StutterPreserves
<1> QED BY <1>1, <1>2, <1>3, <1>4, <1>5 DEF Next

-----------------------------------------------------------------------------
(* The theorems.                                                           *)

\* IInv holds in every reachable state, for any tasks and priorities, any gates
\* and any applications.
THEOREM Invariance == Spec => []IInv
BY InitIInv, NextIInv, PTL DEF Spec

\* Two tasks are never inside one gate, and the owner GateMutexPri.c keeps is
\* the one that is, or the waiter leave has chosen.
THEOREM Exclusion == Spec => []MutualExclusion
<1>1. IInv => MutualExclusion
  <2> SUFFICES ASSUME IInv, NEW g \in Gates, NEW t \in Tasks
               PROVE  /\ Inside(t, g) => owner[g] = {t} /\ ~free[g]
                      /\ Waits(t, g) => ~free[g] /\ t \notin owner[g] /\ mode[t] = "BLOCKED"
                      /\ pc[t] = "wake" /\ mode[t] = "READY" => owner[op[t].on] = {t} /\ ~free[op[t].on]
    BY DEF MutualExclusion, IInv
  <2>1. CallOf(t) /\ GatesOf(t)
    BY DEF IInv, StandOK
  <2> QED BY <2>1 DEF CallOf, GatesOf, Chosen
<1> QED BY <1>1, Invariance, PTL

\* A lent priority is given back: where gates are left innermost first, a task
\* that is inside no gate, and in no call, has its own.
THEOREM LentAndReturned == Spec => []PriorityReturned
<1>1. IInv => PriorityReturned
  BY DEF IInv, StandOK, PriOf, Chosen, PriorityReturned, InnermostFirst
<1> QED BY <1>1, Invariance, PTL

\* Nobody waits behind a task of a lower priority, unless it has been raised
\* since it came.
THEOREM QueueSorted == Spec => []GateQueueSorted
<1>1. IInv => GateQueueSorted
  BY DEF IInv, StandOK
<1> QED BY <1>1, Invariance, PTL

\* Whoever uses one gate at a time inherits the priority of everyone it keeps
\* waiting, whenever the scheduler is enabled.
THEOREM Inherits == Spec => []SimpleInheritance
<1>1. IInv => SimpleInheritance
  <2> SUFFICES ASSUME IInv, OneAtATime, Task_enabled, NEW g \in Gates, NEW t \in Tasks, Waits(t, g),
                      NEW o \in owner[g]
               PROVE  pri[t] <= pri[o]
    BY DEF SimpleInheritance, Inheritance
  <2>1. o \in Tasks
    BY DEF IInv, TypeOK
  <2>2. pc[o] # "handover"
    <3>1. ASSUME pc[o] \in Holding PROVE FALSE
      <4>1. o = running /\ phase = "user" /\ ~locked
        BY <2>1, <3>1 DEF IInv, CallsOK, Task_enabled
      <4>2. ~isr
        BY <4>1 DEF IInv, KernelOK, ControlOK
      <4> QED BY <3>1, <4>1, <4>2 DEF IInv, CallsOK
    <3> QED BY <3>1 DEF Holding
  <2> QED BY <2>2 DEF IInv, StandOK, LentOK
<1> QED BY <1>1, Invariance, PTL
=============================================================================
