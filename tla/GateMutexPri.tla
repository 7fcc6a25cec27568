----------------------------- MODULE GateMutexPri -----------------------------
(***************************************************************************)
(* ti.sysbios.gates.GateMutexPri: a mutex with priority inheritance.  Its  *)
(* state is protected by Task_disable alone, so interrupts come between    *)
(* the steps of enter and leave, and other tasks do not.  Tasks also block *)
(* on something else (Pause) until an interrupt wakes them.                *)
(***************************************************************************)
EXTENDS KernelCalls

CONSTANTS Gates,      \* the gate objects
          Apps        \* the applications: the gates each task uses, how many
                      \* enters it holds at a time, on one gate or several, and
                      \* whether it leaves them innermost first

ASSUME AppsAssumption ==
  Apps \subseteq [uses : [Tasks -> SUBSET Gates], depth : Nat, nests : BOOLEAN]

VARIABLES
  free,           \* obj->mutexCnt == 1
  owner,          \* obj->owner, {} for NULL
  ownerOrigPri,   \* obj->ownerOrigPri
  gateQ,          \* obj->pendQ, as the tasks of its PendElems
  app,            \* the application that runs
  tskPri,         \* tskPri in enter
  held            \* the gates a task is inside of, with the keys enter returned

gateVars == <<free, owner, ownerOrigPri, gateQ>>
userVars == <<app, tskPri, held>>
vars     == <<kernelVars, callVars, gateVars, userVars>>

PCs  == {"user", "write", "region", "donate", "handover", "restore", "wake"}
Keys == {"FIRST_ENTER", "NESTED_ENTER"}
Ops  == [name : {"none", "pause"}] \cup [name : {"enter", "wait"}, on : Gates]
          \cup [name : {"leave"}, on : Gates, at : Nat \ {0}]

TypeOK ==
  /\ KernelTypeOK
  /\ pc \in [Tasks -> PCs]
  /\ op \in [Tasks -> Ops]
  /\ key \in [Tasks -> BOOLEAN]
  /\ free \in [Gates -> BOOLEAN]
  /\ owner \in [Gates -> SUBSET Tasks]
  /\ ownerOrigPri \in [Gates -> Level]
  /\ gateQ \in [Gates -> Seq(Tasks)]
  /\ app \in Apps
  /\ tskPri \in [Tasks -> Level]
  /\ held \in [Tasks -> Seq(Gates \X Keys)]

Init ==
  /\ InitCalls
  /\ free = [g \in Gates |-> TRUE]
  /\ owner = [g \in Gates |-> {}]
  /\ ownerOrigPri = [g \in Gates |-> 0]
  /\ gateQ = [g \in Gates |-> <<>>]
  /\ app \in Apps
  /\ tskPri = [t \in Tasks |-> InitPri[t]]
  /\ held = [t \in Tasks |-> <<>>]

-----------------------------------------------------------------------------
(* GateMutexPri_enter.  The priority is read before the scheduler is        *)
(* locked.                                                                 *)

Entered(t, g, k) == held' = [held EXCEPT ![t] = Append(@, <<g, k>>)]

EnterCall(t, g) ==
  /\ g \in app.uses[t] /\ Len(held[t]) < app.depth
  /\ Call(t, [name |-> "enter", on |-> g])
  /\ tskPri' = [tskPri EXCEPT ![t] = pri[t]]
  /\ UNCHANGED <<gateVars, app, held>>

\* Mutant of TakeGate: mutexCnt stays 1.
TakeGateFree(g, t, p) ==
  /\ owner' = [owner EXCEPT ![g] = {t}]
  /\ ownerOrigPri' = [ownerOrigPri EXCEPT ![g] = p]
  /\ UNCHANGED free

TakeGate(g, t, p) ==
  /\ free' = [free EXCEPT ![g] = FALSE]
  /\ owner' = [owner EXCEPT ![g] = {t}]
  /\ ownerOrigPri' = [ownerOrigPri EXCEPT ![g] = p]

EnterFree(t) ==
  LET g == op[t].on
  IN  /\ Calling(t, "enter") /\ Goto(t, "restore")
      /\ free[g]
      /\ TakeGate(g, t, tskPri[t])
      /\ Entered(t, g, "FIRST_ENTER")
      /\ UNCHANGED <<queueVars, locked, swiLocked, phase, op, key, gateQ, app, tskPri>>

EnterNested(t) ==
  LET g == op[t].on
  IN  /\ Calling(t, "enter") /\ Goto(t, "restore")
      /\ ~free[g] /\ t \in owner[g]
      /\ Entered(t, g, "NESTED_ENTER")
      /\ UNCHANGED <<queueVars, locked, swiLocked, phase, op, key, gateVars, app, tskPri>>

\* Task_block.
EnterBlock(t) ==
  LET g == op[t].on
  IN  /\ Calling(t, "enter") /\ Goto(t, "donate")
      /\ ~free[g] /\ t \notin owner[g]
      /\ Task_blockI(t)
      /\ op' = [op EXCEPT ![t] = [name |-> "wait", on |-> g]]
      /\ UNCHANGED <<locked, swiLocked, phase, key, gateVars, userVars>>

\* Mutant of Donate: nothing is lent.
DonateNothing(o, p) == UNCHANGED queueVars

Donate(o, p) == IF p > pri[o] THEN Task_setPri(o, p) ELSE UNCHANGED queueVars

EnterDonate(t) ==
  LET g == op[t].on
  IN  /\ At(t, "donate") /\ Goto(t, "restore")
      /\ gateQ' = [gateQ EXCEPT ![g] = InsertPri(@, t, tskPri[t])]
      /\ \E o \in owner[g] : Donate(o, tskPri[t])
      /\ UNCHANGED <<locked, swiLocked, phase, op, key, free, owner, ownerOrigPri, userVars>>

\* A waiter runs again: the gate is its own, leave has seen to that.
EnterReturn(t) ==
  /\ At(t, "wake") /\ Goto(t, "user")
  /\ Entered(t, op[t].on, "FIRST_ENTER")
  /\ op' = [op EXCEPT ![t] = NoOp]
  /\ UNCHANGED <<queueVars, locked, swiLocked, phase, key, gateVars, app, tskPri>>

-----------------------------------------------------------------------------
(* GateMutexPri_leave, with the gate and the key of an enter: the caller is  *)
(* the gate's owner still, so enters of one gate are undone innermost first; *)
(* different gates may be left in any order.                               *)

LeaveCall(t) ==
  /\ \E i \in DOMAIN held[t] :
       /\ \A j \in DOMAIN held[t] : j > i => ~app.nests /\ held[t][j][1] # held[t][i][1]
       /\ Call(t, [name |-> "leave", on |-> held[t][i][1], at |-> i])
  /\ UNCHANGED <<gateVars, userVars>>

\* The enter that the leave of t undoes.
Left(t) == held[t][op[t].at]

Undone(t) == held' = [held EXCEPT ![t] = RemoveAt(@, op[t].at)]

LeaveNested(t) ==
  /\ Calling(t, "leave") /\ Goto(t, "restore")
  /\ Left(t)[2] # "FIRST_ENTER"
  /\ Undone(t)
  /\ UNCHANGED <<queueVars, locked, swiLocked, phase, op, key, gateVars, app, tskPri>>

\* Mutant of RestorePri: the comparison is the wrong way round.
RestorePriReversed(t, p) ==
  IF p > pri[t] THEN Task_setPri(t, p) ELSE UNCHANGED queueVars

RestorePri(t, p) == IF p < pri[t] THEN Task_setPri(t, p) ELSE UNCHANGED queueVars

LeaveRestorePri(t) ==
  /\ Calling(t, "leave") /\ Goto(t, "handover")
  /\ Left(t)[2] = "FIRST_ENTER"
  /\ RestorePri(t, ownerOrigPri[op[t].on])
  /\ Undone(t)
  /\ UNCHANGED <<locked, swiLocked, phase, op, key, gateVars, app, tskPri>>

LeaveHandOver(t) ==
  LET g == op[t].on
      newOwner == Head(gateQ[g])
  IN  /\ At(t, "handover") /\ Goto(t, "restore")
      /\ IF gateQ[g] = <<>>
         THEN /\ free' = [free EXCEPT ![g] = TRUE]
              /\ UNCHANGED <<queueVars, owner, ownerOrigPri, gateQ>>
         ELSE /\ gateQ' = [gateQ EXCEPT ![g] = Tail(@)]
              /\ owner' = [owner EXCEPT ![g] = {newOwner}]
              /\ ownerOrigPri' = [ownerOrigPri EXCEPT ![g] = pri[newOwner]]
              /\ Task_unblockI(newOwner)
              /\ UNCHANGED free
      /\ UNCHANGED <<locked, swiLocked, phase, op, key, userVars>>

\* The Task_restore that ends a call; a waiter keeps in mind what it waits for.
Restore(t) ==
  /\ At(t, "restore")
  /\ Task_restore(key[t])
  /\ IF op[t].name = "wait" THEN Goto(t, "wake") /\ UNCHANGED op
     ELSE Goto(t, "user") /\ op' = [op EXCEPT ![t] = NoOp]
  /\ key' = [key EXCEPT ![t] = FALSE]
  /\ UNCHANGED <<queueVars, swiLocked, gateVars, userVars>>

-----------------------------------------------------------------------------
(* The rest of the application.                                            *)

Pause(t) ==
  /\ LockToBlock(t, [name |-> "pause"])
  /\ Task_blockI(t)
  /\ UNCHANGED <<gateVars, userVars>>

Waits(t, g)  == Linked(t, gateQ[g])
Inside(t, g) == \E i \in DOMAIN held[t] : held[t][i] = <<g, "FIRST_ENTER">>

HwiWake(t) ==
  /\ InHwi /\ mode[t] = "BLOCKED"
  /\ op[t].name # "wait"
  /\ Task_unblockI(t)
  /\ UNCHANGED <<callVars, gateVars, userVars>>

-----------------------------------------------------------------------------
KernelOnly == UNCHANGED <<callVars, gateVars, userVars>>
KernelStep == (Scheduler \/ HwiEnter \/ HwiExit) /\ KernelOnly

\* The steps a task takes once it has entered or left a call.
TaskProgress(t) ==
  \/ Lock(t) /\ UNCHANGED <<gateVars, userVars>>
  \/ EnterFree(t) \/ EnterNested(t) \/ EnterBlock(t) \/ EnterDonate(t) \/ EnterReturn(t)
  \/ LeaveNested(t) \/ LeaveRestorePri(t) \/ LeaveHandOver(t)
  \/ Restore(t)

TaskCall(t) == Pause(t) \/ LeaveCall(t) \/ \E g \in Gates : EnterCall(t, g)

Next == KernelStep \/ \E t \in Tasks : HwiWake(t) \/ TaskCall(t) \/ TaskProgress(t)

Spec == Init /\ [][Next]_vars

\* Interrupts keep coming, end, and leave the scheduler and the running task
\* time again and again; what a task waits for inside a gate comes; a running
\* task goes on with the call it has begun and leaves the gates it has entered.
Fairness ==
  /\ WF_vars(HwiEnter /\ KernelOnly)
  /\ WF_vars(HwiExit /\ KernelOnly)
  /\ SF_vars(Scheduler /\ KernelOnly)
  /\ SF_vars(Scheduler /\ KernelOnly /\ phase' = "user")
  /\ SF_vars(\E t \in Tasks : held[t] # <<>> /\ HwiWake(t))
  /\ SF_vars(\E t \in Tasks : TaskProgress(t))
  /\ SF_vars(\E t \in Tasks : LeaveCall(t))

FairSpec == Spec /\ Fairness

-----------------------------------------------------------------------------
(* Properties.                                                             *)

\* Two tasks are never inside one gate, and the owner is the one that is, or
\* the waiter that leave has chosen and that has yet to run.  All of the state
\* keeps its type.
MutualExclusion ==
  /\ TypeOK
  /\ \A g \in Gates, t \in Tasks :
       /\ Inside(t, g) => owner[g] = {t} /\ ~free[g]
       /\ Waits(t, g) => ~free[g] /\ t \notin owner[g] /\ mode[t] = "BLOCKED"
       /\ pc[t] = "wake" /\ mode[t] = "READY" => owner[op[t].on] = {t} /\ ~free[op[t].on]

\* "Task Low's priority will be temporarily raised to that of High, as long as
\* High is waiting on the gate" (GateMutexPri.xdc:70-73): while the scheduler
\* is enabled no waiter has a higher priority than the owner.  A waiter that
\* was itself raised while it waited is the documented exception.
Inheritance ==
  Task_enabled =>
    \A g \in Gates, t \in Tasks : Waits(t, g) /\ pri[t] = InitPri[t] =>
       \A o \in owner[g] : pri[t] <= pri[o]

\* An application that holds one gate at a time: then the promise is kept.
OneAtATime == app.depth = 1

SimpleInheritance == OneAtATime => Inheritance

\* "Temporarily": a task that is inside no gate has its own priority back, if
\* the application leaves its gates innermost first.  In another order it may
\* not: a task that enters a second gate while it is raised, and leaves the first
\* one first, has the raised priority recorded for the second, and leave does not
\* lower it again.
PriorityReturned ==
  app.nests =>
    \A t \in Tasks : held[t] = <<>> /\ pc[t] = "user" => pri[t] = InitPri[t]

\* "The queue of tasks waiting on a GateMutexPri is sorted by priority"
\* (GateMutexPri.xdc:53-56), so leave serves the highest waiter first: no waiter
\* has one of a lower priority before it, unless somebody has raised it since it
\* came, for a waiter is not moved.
GateQueueSorted ==
  \A g \in Gates : \A i, j \in DOMAIN gateQ[g] :
    LET u == gateQ[g][i]
        t == gateQ[g][j]
    IN  i < j /\ pri[t] = InitPri[t] => pri[u] >= pri[t]

\* No priority inversion: a task that waits for a gate and has a priority above
\* all others gets it, although tasks of middle priority never give way, if
\* whoever holds a gate leaves it before it enters another.
Top(t) == \A u \in Tasks \ {t} : InitPri[u] < InitPri[t]

TopGetsGate ==
  \A t \in Tasks, g \in Gates : Top(t) => (OneAtATime /\ Waits(t, g) ~> Inside(t, g))
=============================================================================
