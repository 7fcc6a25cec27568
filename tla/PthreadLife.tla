----------------------------- MODULE PthreadLife -----------------------------
(***************************************************************************)
(* The life of the threads of ti.posix.tirtos: create, exit, join, detach,  *)
(* cancel, setcancelstate and the Idle function that deletes detached       *)
(* threads.  joinSem is SemaphoreSpec.  What the code does with the         *)
(* scheduler locked is one step.  Cleanup handlers and keys are left out.   *)
(***************************************************************************)
EXTENDS Integers, SequencesExt

CONSTANTS Threads,
          Apps      \* the applications: the threads that are there first, who makes
                    \* which of the calls on whom, and whether one is cancelled again

VARIABLES
  avail, waiting, outcome,   \* joinSem of each thread, as SemaphoreSpec has it
  life,                      \* "none", "live", "stopped" at priority -1, "freed"
  detached, joinThread,      \* joinThread is {} for NULL
  cancelDisabled, cancelPending,
  terminatedList,
  idle,                      \* the thread _pthread_cleanupFxn has taken off the list
  call,                      \* where a thread is, and the thread its call is on
  app

semVars  == <<avail, waiting, outcome>>
objVars  == <<detached, joinThread, cancelDisabled, cancelPending>>
listVars == <<terminatedList, idle>>
vars     == <<semVars, life, objVars, listVars, call, app>>

Sem == INSTANCE SemaphoreSpec
         WITH Tasks <- Threads, Sems <- Threads, CountLimit <- 2,
              Mode <- [t \in Threads |-> {"binary"}],
              InitCount <- [t \in Threads |-> 0]

PCs == {"exit", "exitPost", "exitList", "stop", "join", "joined", "cancel", "cancelPost", "cancelDelete"}

User     == [at |-> "user"]
On(l, t) == [at |-> l, on |-> t]

TypeOK ==
  /\ Sem!SpecTypeOK
  /\ life \in [Threads -> {"none", "live", "stopped", "freed"}]
  /\ detached \in SUBSET Threads
  /\ joinThread \in [Threads -> SUBSET Threads]
  /\ cancelDisabled \in SUBSET Threads /\ cancelPending \in SUBSET Threads
  /\ terminatedList \in Seq(Threads) /\ IsInjective(terminatedList)
  /\ idle \in SUBSET Threads
  /\ call \in [Threads -> {User} \cup [at : PCs, on : Threads]]
  /\ app \in Apps

\* The threads in app.first are there, the others have yet to be created.
Init ==
  /\ Sem!Init
  /\ app \in Apps
  /\ life = [t \in Threads |-> IF t \in app.first THEN "live" ELSE "none"]
  /\ detached = {}
  /\ joinThread = [t \in Threads |-> {}]
  /\ cancelDisabled = {} /\ cancelPending = {}
  /\ terminatedList = <<>> /\ idle = {}
  /\ call = [t \in Threads |-> User]

-----------------------------------------------------------------------------
At(a, l)      == life[a] = "live" /\ call[a].at = l
Goto(a, c)    == call' = [call EXCEPT ![a] = c]
Target(a)     == call[a].on
Calls(a, l, t) == At(a, "user") /\ <<a, l, t>> \in app.calls /\ life[t] \in {"live", "stopped"}

pthread_create(a, t, asDetached) ==
  /\ At(a, "user") /\ life[t] = "none"
  /\ life' = [life EXCEPT ![t] = "live"]
  /\ detached' = IF asDetached THEN detached \cup {t} ELSE detached
  /\ UNCHANGED <<semVars, joinThread, cancelDisabled, cancelPending, listVars, call, app>>

\* Task_delete takes a thread off the semaphore it waits for.
_pthread_delete(t) ==
  /\ life' = [life EXCEPT ![t] = "freed"]
  /\ IF outcome[t] = "forever" THEN Sem!Delete(t) ELSE UNCHANGED semVars

-----------------------------------------------------------------------------
(* pthread_exit, by the thread, at its end or from setcancelstate.          *)

ExitCall(a) ==
  /\ At(a, "user") /\ Goto(a, On("exit", a))
  /\ cancelDisabled' = cancelDisabled \cup {a}
  /\ UNCHANGED <<semVars, life, detached, joinThread, cancelPending, listVars, app>>

\* The handlers have run; detached is read with the scheduler unlocked.
Exit(a) ==
  /\ At(a, "exit")
  /\ Goto(a, On(IF a \in detached THEN "exitList" ELSE "exitPost", a))
  /\ UNCHANGED <<semVars, life, objVars, listVars, app>>

ExitPost(a) ==
  /\ At(a, "exitPost") /\ Goto(a, On("stop", a))
  /\ Sem!Post(a)
  /\ UNCHANGED <<life, objVars, listVars, app>>

ExitList(a) ==
  /\ At(a, "exitList") /\ Goto(a, On("stop", a))
  /\ terminatedList' = <<a>> \o terminatedList
  /\ UNCHANGED <<semVars, life, objVars, idle, app>>

Stop(a) ==
  /\ At(a, "stop") /\ Goto(a, User)
  /\ life' = [life EXCEPT ![a] = "stopped"]
  /\ UNCHANGED <<semVars, objVars, listVars, app>>

-----------------------------------------------------------------------------
(* pthread_join and pthread_detach.                                        *)

\* Mutant of MayJoin: a second call is not refused.
MayJoinTwice(t) == t \notin detached

\* What both calls require; otherwise they return EINVAL.
MayJoin(t) == joinThread[t] = {} /\ t \notin detached

JoinCall(a, t) ==
  /\ Calls(a, "join", t) /\ a # t
  /\ MayJoin(t)
  /\ joinThread' = [joinThread EXCEPT ![t] = {a}]
  /\ Goto(a, On("join", t))
  /\ UNCHANGED <<semVars, life, detached, cancelDisabled, cancelPending, listVars, app>>

JoinPend(a) ==
  /\ At(a, "join")
  /\ \/ outcome[a] = "idle" /\ Sem!Take(Target(a)) /\ Goto(a, On("joined", Target(a)))
     \/ outcome[a] = "granted" /\ Sem!Return(a) /\ Goto(a, On("joined", Target(a)))
     \/ Sem!Wait(a, Target(a), "forever") /\ UNCHANGED call
  /\ UNCHANGED <<life, objVars, listVars, app>>

JoinDelete(a) ==
  /\ At(a, "joined") /\ Goto(a, User)
  /\ _pthread_delete(Target(a))
  /\ UNCHANGED <<objVars, listVars, app>>

Detach(a, t) ==
  /\ Calls(a, "detach", t)
  /\ MayJoin(t)
  /\ detached' = detached \cup {t}
  /\ UNCHANGED <<semVars, life, joinThread, cancelDisabled, cancelPending, listVars, call, app>>

-----------------------------------------------------------------------------
(* pthread_cancel and pthread_setcancelstate.                               *)

\* A thread that cancels itself stops here.
CancelCall(a, t) ==
  /\ Calls(a, "cancel", t) /\ (t \in cancelPending => app.again)
  /\ cancelPending' = cancelPending \cup {t}
  /\ IF t \in cancelDisabled THEN UNCHANGED <<life, call>>
     ELSE life' = [life EXCEPT ![t] = "stopped"] /\ Goto(a, On("cancel", t))
  /\ UNCHANGED <<semVars, detached, joinThread, cancelDisabled, listVars, app>>

\* The handlers have run; detached is read with the scheduler unlocked.
Cancel(a) ==
  /\ At(a, "cancel")
  /\ Goto(a, On(IF Target(a) \in detached THEN "cancelDelete" ELSE "cancelPost", Target(a)))
  /\ UNCHANGED <<semVars, life, objVars, listVars, app>>

CancelPost(a) ==
  /\ At(a, "cancelPost") /\ Goto(a, User)
  /\ Sem!Post(Target(a))
  /\ UNCHANGED <<life, objVars, listVars, app>>

CancelDelete(a) ==
  /\ At(a, "cancelDelete") /\ Goto(a, User)
  /\ _pthread_delete(Target(a))
  /\ UNCHANGED <<objVars, listVars, app>>

SetCancelState(a, enable) ==
  /\ At(a, "user") /\ <<a, "setcancelstate", a>> \in app.calls
  /\ IF enable /\ a \in cancelPending
     THEN cancelDisabled' = cancelDisabled \cup {a} /\ Goto(a, On("exit", a))
     ELSE /\ cancelDisabled' = IF enable THEN cancelDisabled \ {a} ELSE cancelDisabled \cup {a}
          /\ UNCHANGED call
  /\ UNCHANGED <<semVars, life, detached, joinThread, cancelPending, listVars, app>>

-----------------------------------------------------------------------------
(* _pthread_cleanupFxn, of the Idle task.                                   *)

IdleTake ==
  /\ idle = {} /\ terminatedList # <<>>
  /\ idle' = {Head(terminatedList)} /\ terminatedList' = Tail(terminatedList)
  /\ UNCHANGED <<semVars, life, objVars, call, app>>

IdleDelete ==
  /\ \E t \in idle : _pthread_delete(t)
  /\ idle' = {}
  /\ UNCHANGED <<objVars, terminatedList, call, app>>

-----------------------------------------------------------------------------
Next ==
  \/ \E a, t \in Threads :
       \/ \E asDetached \in BOOLEAN : pthread_create(a, t, asDetached)
       \/ JoinCall(a, t) \/ Detach(a, t) \/ CancelCall(a, t)
  \/ \E a \in Threads :
       \/ ExitCall(a) \/ Exit(a) \/ ExitPost(a) \/ ExitList(a) \/ Stop(a)
       \/ JoinPend(a) \/ JoinDelete(a)
       \/ Cancel(a) \/ CancelPost(a) \/ CancelDelete(a)
       \/ \E enable \in BOOLEAN : SetCancelState(a, enable)
  \/ IdleTake \/ IdleDelete

Spec == Init /\ [][Next]_vars

-----------------------------------------------------------------------------
(* Properties.                                                             *)

\* Who is about to delete t, and need wait for nobody else.
Deleters(t) ==
  {a \in Threads : life[a] = "live" /\ call[a] \in {On("joined", t), On("cancelDelete", t)}}

\* A thread that has begun a call on t has not finished with it.
InUse(t) == \E a \in Threads : life[a] = "live" /\ call[a] # User /\ Target(a) = t /\ a # t

\* Nobody uses a thread object that was freed, and no two delete it.
FreedOnce ==
  \A t \in Threads :
    LET onList == IF t \in idle \cup ToSet(terminatedList) THEN 1 ELSE 0
    IN  /\ life[t] = "freed" => ~InUse(t) /\ onList = 0
        /\ Cardinality(Deleters(t)) + onList <= 1

\* "When the thread terminates, its resources will automatically be freed
\* without the need for another thread to call pthread_join()"
\* (pthread.c:378-381): a detached thread that has stopped is freed, or somebody
\* is about to.  And one that is not detached has its token in joinSem, or on
\* the way to the thread that joins it, which can still run.
Reclaimed ==
  \A t \in Threads :
    life[t] = "stopped" =>
      \/ t \in idle \cup ToSet(terminatedList) \/ Deleters(t) # {}
      \/ \E a \in Threads : life[a] = "live" /\ call[a] \in {On("cancel", t), On("cancelPost", t)}
      \/ /\ t \notin detached /\ \A a \in joinThread[t] : life[a] = "live"
         /\ avail[t] = 1 \/ \E a \in joinThread[t] : outcome[a] = "granted"

ThreadsFreed == TypeOK /\ FreedOnce /\ Reclaimed
=============================================================================
