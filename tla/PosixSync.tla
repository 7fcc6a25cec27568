------------------------------- MODULE PosixSync -------------------------------
(***************************************************************************)
(* The objects of ti.posix.tirtos through which threads wait for each      *)
(* other: a read-write lock, a condition variable or a barrier.  Threads   *)
(* use one of them; the variables of the semaphores and of the threads'    *)
(* places are those of the one in use, and the others' are Unused.         *)
(***************************************************************************)
EXTENDS Integers, FiniteSets

CONSTANTS Users,            \* the threads
          LockLimit,        \* bounds the semaphores of the lock
          Cond, CondApps,   \* see PthreadCond
          Rounders,         \* the threads at the barrier
          Count             \* see PthreadBarrier

VARIABLES
  object,                                       \* the one in use
  pAvail, pWaiting, pOutcome, pPc,
  activeReaderCnt, blockedReaderCnt, lockOwner, limited,
  condList, holder, condApp,
  pendCount

Rw == INSTANCE Rwlock
        WITH Tasks <- Users, CountLimit <- LockLimit, owner <- lockOwner,
             avail <- pAvail, waiting <- pWaiting, outcome <- pOutcome, pc <- pPc

Cv == INSTANCE PthreadCond
        WITH Threads <- Users, Apps <- CondApps, waitList <- condList, app <- condApp,
             avail <- pAvail, waiting <- pWaiting, outcome <- pOutcome, pc <- pPc

Bar == INSTANCE PthreadBarrier
         WITH Threads <- Rounders, avail <- pAvail, waiting <- pWaiting, outcome <- pOutcome, pc <- pPc

LockAssumption == IsFiniteSet(Users) /\ LockLimit \in Nat \ {0, 1}

\* Finitely many threads; none waits with a time limit where one broadcasts.
CondAssumption ==
  /\ IsFiniteSet(Users) /\ Cond \notin Users
  /\ \A a \in CondApps : "broadcast" \in a.wakes => a.timed = {}

BarrierAssumption == IsFiniteSet(Rounders) /\ Count \in Nat \ {0}

-----------------------------------------------------------------------------
Unused == 0

lockVars == <<activeReaderCnt, blockedReaderCnt, lockOwner, limited>>
condVars == <<condList, holder, condApp>>
syncVars == <<object, pAvail, pWaiting, pOutcome, pPc, lockVars, condVars, pendCount>>

NoSync == pAvail = Unused /\ pWaiting = Unused /\ pOutcome = Unused /\ pPc = Unused
NoLock == activeReaderCnt = Unused /\ blockedReaderCnt = Unused /\ lockOwner = Unused /\ limited = Unused
NoCond == condList = Unused /\ holder = Unused /\ condApp = Unused

SyncInit ==
  \/ object = "none" /\ NoSync /\ NoLock /\ NoCond /\ pendCount = Unused
  \/ object = "rwlock" /\ Rw!Init /\ NoCond /\ pendCount = Unused
  \/ object = "cond" /\ Cv!Init /\ NoLock /\ pendCount = Unused
  \/ object = "barrier" /\ Bar!Init /\ NoLock /\ NoCond

SyncNext ==
  /\ UNCHANGED object
  /\ \/ object = "rwlock" /\ Rw!Next /\ UNCHANGED <<condVars, pendCount>>
     \/ object = "cond" /\ Cv!Next /\ UNCHANGED <<lockVars, pendCount>>
     \/ object = "barrier" /\ Bar!Next /\ UNCHANGED <<lockVars, condVars>>

SyncSpec == SyncInit /\ [][SyncNext]_syncVars

-----------------------------------------------------------------------------
(* Properties, each of the object in use.                                  *)

\* A writer has the read-write lock alone, one that was handed it and has not
\* run included.
RwExclusion == object = "rwlock" => Rw!RwExclusion

\* A reader that waits without a token waits for a writer that will post it.
ReadersWoken == object = "rwlock" => Rw!ReadersWoken

\* No wake-up misses a thread that has unlocked the mutex, and no element stays
\* on the list when its wait is over.
NoLostWaiter == object = "cond" => Cv!NoLostWaiter

\* The barrier has as many tokens as it has yet to release threads.
BarrierTokens == object = "barrier" => Bar!BarrierTokens
=============================================================================
