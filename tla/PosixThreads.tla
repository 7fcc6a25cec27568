----------------------------- MODULE PosixThreads -----------------------------
(***************************************************************************)
(* Threads of ti.posix.tirtos: either the mutexes they lock, with the      *)
(* priorities these lend them, or their own lives from creation to         *)
(* deletion.  The variables of the semaphores, of the calls and of the     *)
(* application are those of the one that is looked at, and the other's are *)
(* None.                                                                   *)
(***************************************************************************)
EXTENDS Integers, FiniteSets

CONSTANTS Pthreads,
          Mutexes, Protocol, Type, InitCeiling,      \* see PthreadMutex
          PthreadPri, PthreadLevels, MutexApps,      \* its InitPri, NumPri and Apps
          LifeApps                                   \* see PthreadLife

VARIABLES
  aspect,                                            \* the one that is looked at
  tAvail, tWaiting, tOutcome, call, app,
  owner, lockCnt, prioceiling, waitList, priority, runPri,
  life, detached, joinThread, cancelDisabled, cancelPending, terminatedList, idle

Mu == INSTANCE PthreadMutex
        WITH Threads <- Pthreads, InitPri <- PthreadPri, NumPri <- PthreadLevels, Apps <- MutexApps,
             avail <- tAvail, waiting <- tWaiting, outcome <- tOutcome

Th == INSTANCE PthreadLife
        WITH Threads <- Pthreads, Apps <- LifeApps,
             avail <- tAvail, waiting <- tWaiting, outcome <- tOutcome

\* The attributes are in range, and so is what the applications set.
MutexAssumption ==
  /\ IsFiniteSet(Pthreads) /\ IsFiniteSet(Mutexes) /\ PthreadLevels \in Nat
  /\ InitCeiling \in [Mutexes -> Mu!Level \cup {0}]
  /\ PthreadPri \in [Pthreads -> Mu!Level]
  /\ \A p \in MutexApps : p.uses \in [Pthreads -> SUBSET Mutexes] /\ p.ceilings \subseteq Mu!Level

\* Threads detach themselves only; a thread that may be cancelled, by others and
\* once, neither joins nor cancels.
LifeAssumption ==
  \A p \in LifeApps :
    /\ p.again = FALSE
    /\ \A a, t \in Pthreads :
         /\ <<a, "detach", t>> \in p.calls => a = t
         /\ <<a, "cancel", t>> \in p.calls =>
              a # t /\ \A u \in Pthreads : <<t, "join", u>> \notin p.calls /\ <<t, "cancel", u>> \notin p.calls

-----------------------------------------------------------------------------
None == 0

mutexVars  == <<owner, lockCnt, prioceiling, waitList, priority, runPri>>
lifeVars   == <<life, detached, joinThread, cancelDisabled, cancelPending, terminatedList, idle>>
threadVars == <<aspect, tAvail, tWaiting, tOutcome, call, app, mutexVars, lifeVars>>

NoCalls == tAvail = None /\ tWaiting = None /\ tOutcome = None /\ call = None /\ app = None

NoMutexes ==
  /\ owner = None /\ lockCnt = None /\ prioceiling = None
  /\ waitList = None /\ priority = None /\ runPri = None

NoLives ==
  /\ life = None /\ detached = None /\ joinThread = None /\ cancelDisabled = None
  /\ cancelPending = None /\ terminatedList = None /\ idle = None

ThreadsInit ==
  \/ aspect = "none" /\ NoCalls /\ NoMutexes /\ NoLives
  \/ aspect = "mutexes" /\ Mu!Init /\ NoLives
  \/ aspect = "lives" /\ Th!Init /\ NoMutexes

ThreadsNext ==
  /\ UNCHANGED aspect
  /\ \/ aspect = "mutexes" /\ Mu!Next /\ UNCHANGED lifeVars
     \/ aspect = "lives" /\ Th!Next /\ UNCHANGED mutexVars

ThreadsSpec == ThreadsInit /\ [][ThreadsNext]_threadVars

-----------------------------------------------------------------------------
(* Properties, each of what is looked at.                                  *)

\* A mutex is free, has one owner, or is on its way to one.
MutexExclusion == aspect = "mutexes" => Mu!MutexExclusion

\* A thread runs at the priority its mutexes give it, and at its own without any.
MutexPriority == aspect = "mutexes" => Mu!MutexPriority

\* Every thread that has stopped is freed once, or somebody will free it.
ThreadsFreed == aspect = "lives" => Th!ThreadsFreed
=============================================================================
