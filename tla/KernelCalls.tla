----------------------------- MODULE KernelCalls -----------------------------
(***************************************************************************)
(* The shape of a service call made by a task: Task_disable (its read and  *)
(* its write of the lock are apart), a region, Task_restore with the key   *)
(* read first.  Modules that model a service extend this one.              *)
(***************************************************************************)
EXTENDS TaskKernel

CONSTANTS InitPri      \* priority of each task, created before BIOS_start()

ASSUME InitPriAssumption ==
  /\ InitPri \in [Tasks -> Level]
  /\ \E t \in Tasks : InitPri[t] # Inactive

VARIABLES
  pc,       \* where a task is in the call it makes
  op,       \* the call: its name and what it is made on
  key       \* the tskKey of the call

callVars == <<pc, op, key>>

NoOp == [name |-> "none"]

InitCalls ==
  /\ KernelInit(InitPri)
  /\ pc = [t \in Tasks |-> "user"]
  /\ op = [t \in Tasks |-> NoOp]
  /\ key = [t \in Tasks |-> FALSE]

At(t, l)        == InTask(t) /\ pc[t] = l
Calling(t, name) == At(t, "region") /\ op[t].name = name
Goto(t, l)      == pc' = [pc EXCEPT ![t] = l]

\* The call and the read of Task_disable.
Call(t, o) ==
  /\ At(t, "user") /\ Goto(t, "write")
  /\ op' = [op EXCEPT ![t] = o]
  /\ key' = [key EXCEPT ![t] = locked]
  /\ UNCHANGED <<queueVars, locked, swiLocked, phase>>

\* The write of Task_disable.
Lock(t) ==
  /\ At(t, "write") /\ Goto(t, "region")
  /\ locked' = TRUE
  /\ UNCHANGED <<queueVars, swiLocked, phase, op, key>>

\* Task_disable inside a region, by a task about to block.
LockToBlock(t, o) ==
  /\ At(t, "user") /\ Goto(t, "restore")
  /\ Task_enabled
  /\ locked' = TRUE
  /\ op' = [op EXCEPT ![t] = o]
  /\ key' = [key EXCEPT ![t] = locked]
  /\ UNCHANGED <<swiLocked, phase>>

\* Task_restore: a blocked caller goes on with its call, at "wake", when it
\* runs again.
Return(t, l) ==
  /\ At(t, "restore") /\ Goto(t, l)
  /\ Task_restore(key[t])
  /\ op' = IF l = "wake" THEN op ELSE [op EXCEPT ![t] = NoOp]
  /\ key' = [key EXCEPT ![t] = FALSE]
  /\ UNCHANGED <<queueVars, swiLocked>>
=============================================================================
