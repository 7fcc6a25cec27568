-------------------------------- MODULE Rwlock --------------------------------
(***************************************************************************)
(* pthread_rwlock of ti.posix.tirtos: a read-write lock over two counting  *)
(* semaphores.  "sem" is the lock itself, taken by a writer or by the first *)
(* reader; readers that find a writer wait for a token of "readSem", and   *)
(* then try again.  The semaphores are SemaphoreSpec.  What the code does   *)
(* with the scheduler locked is one step: interrupts use no lock, and a     *)
(* timeout in between could as well have come before.                       *)
(***************************************************************************)
EXTENDS Integers, SequencesExt

CONSTANTS Tasks,
          CountLimit   \* a semaphore counts below this: the bound of the model

VARIABLES
  avail, waiting, outcome,   \* the semaphores, as SemaphoreSpec has them
  activeReaderCnt, blockedReaderCnt,
  owner,                     \* obj->owner, {} for NULL
  pc,                        \* where a thread is
  limited                    \* the threads whose call has a time limit

semVars  == <<avail, waiting, outcome>>
lockVars == <<activeReaderCnt, blockedReaderCnt, owner>>
vars     == <<semVars, lockVars, pc, limited>>

LockSems == {"sem", "readSem"}

Sem == INSTANCE SemaphoreSpec
         WITH Sems <- LockSems, Mode <- [s \in LockSems |-> {}],
              InitCount <- [s \in LockSems |-> IF s = "sem" THEN 1 ELSE 0]

PCs == {"user", "wrPend", "wrTaken", "writing", "rdPend", "rdTry", "rdTimedOut", "reading"}

TypeOK ==
  /\ Sem!SpecTypeOK
  /\ activeReaderCnt \in 0 .. Cardinality(Tasks)
  /\ blockedReaderCnt \in 0 .. Cardinality(Tasks)
  /\ owner \in SUBSET Tasks /\ Cardinality(owner) <= 1
  /\ pc \in [Tasks -> PCs]
  /\ limited \in SUBSET Tasks

Init ==
  /\ Sem!Init
  /\ activeReaderCnt = 0 /\ blockedReaderCnt = 0 /\ owner = {}
  /\ pc = [t \in Tasks |-> "user"]
  /\ limited = {}

-----------------------------------------------------------------------------
At(t, l)   == pc[t] = l
Goto(t, l) == pc' = [pc EXCEPT ![t] = l]

\* Semaphore_pend, the time limit of the call being that of the wait.
PendTake(t, s)    == outcome[t] = "idle" /\ Sem!Take(s)
PendWait(t, s)    == Sem!Wait(t, s, IF t \in limited THEN "timed" ELSE "forever")
PendGranted(t)    == outcome[t] = "granted" /\ Sem!Return(t)
PendTimedOut(t)   == outcome[t] = "timedout" /\ Sem!Return(t)

\* Semaphore_post, n[s] times on s.
Handed(s, n) == SubSeq(waiting[s], 1, Min({n[s], Len(waiting[s])}))

PostEach(n) ==
  /\ avail' = [s \in LockSems |-> avail[s] + n[s] - Len(Handed(s, n))]
  /\ \A s \in LockSems : avail'[s] < CountLimit
  /\ waiting' = [s \in LockSems |-> SubSeq(waiting[s], Len(Handed(s, n)) + 1, Len(waiting[s]))]
  /\ outcome' = [t \in Tasks |-> IF \E s \in LockSems : Contains(Handed(s, n), t)
                                 THEN "granted" ELSE outcome[t]]

-----------------------------------------------------------------------------
(* wrlock, timedwrlock and trywrlock.                                      *)

WrCall(t) ==
  /\ At(t, "user") /\ Goto(t, "wrPend")
  /\ limited' \in {limited \cup {t}, limited \ {t}}
  /\ UNCHANGED <<semVars, lockVars>>

WrPend(t) ==
  /\ At(t, "wrPend")
  /\ \/ PendTake(t, "sem") /\ Goto(t, "wrTaken")
     \/ PendGranted(t) /\ Goto(t, "wrTaken")
     \/ PendWait(t, "sem") /\ UNCHANGED pc
     \/ PendTimedOut(t) /\ Goto(t, "user")
     \/ t \in limited /\ outcome[t] = "idle" /\ avail["sem"] = 0 /\ UNCHANGED semVars /\ Goto(t, "user")
  /\ UNCHANGED <<lockVars, limited>>

\* The owner is written with the scheduler unlocked.
WrTaken(t) ==
  /\ At(t, "wrTaken") /\ Goto(t, "writing")
  /\ owner' = {t}
  /\ UNCHANGED <<semVars, activeReaderCnt, blockedReaderCnt, limited>>

-----------------------------------------------------------------------------
(* rdlockAcquire.                                                          *)

\* Mutant of BecomeReader: the first reader does not take the lock.
BecomeReaderFreely(t) ==
  /\ activeReaderCnt' = activeReaderCnt + 1
  /\ UNCHANGED <<semVars, owner>>

\* Beside another reader, or with the token of sem that is there.
BecomeReader(t) ==
  /\ activeReaderCnt' = activeReaderCnt + 1
  /\ IF activeReaderCnt > 0
     THEN UNCHANGED <<semVars, owner>>
     ELSE Sem!Take("sem") /\ owner' = {t}

NoReading == activeReaderCnt = 0 /\ avail["sem"] = 0

RdAcquire(t) ==
  /\ At(t, "user")
  /\ \/ BecomeReader(t) /\ Goto(t, "reading") /\ UNCHANGED <<blockedReaderCnt, limited>>
     \/ /\ NoReading                         \* tryrdlock returns here, with EBUSY
        /\ blockedReaderCnt' = blockedReaderCnt + 1
        /\ Goto(t, "rdPend")
        /\ limited' \in {limited \cup {t}, limited \ {t}}
        /\ UNCHANGED <<semVars, activeReaderCnt, owner>>

RdPend(t) ==
  /\ At(t, "rdPend")
  /\ \/ PendTake(t, "readSem") /\ Goto(t, "rdTry")
     \/ PendGranted(t) /\ Goto(t, "rdTry")
     \/ PendWait(t, "readSem") /\ UNCHANGED pc
     \/ PendTimedOut(t) /\ Goto(t, "rdTimedOut")
  /\ UNCHANGED <<lockVars, limited>>

RdTry(t) ==
  /\ At(t, "rdTry")
  /\ \/ /\ BecomeReader(t) /\ Goto(t, "reading")
        /\ blockedReaderCnt' = blockedReaderCnt - 1
     \/ /\ NoReading /\ Goto(t, "rdPend")
        /\ UNCHANGED <<semVars, lockVars>>
     \/ /\ NoReading /\ t \in limited        \* the time is over
        /\ Goto(t, "user")
        /\ blockedReaderCnt' = blockedReaderCnt - 1
        /\ UNCHANGED <<semVars, activeReaderCnt, owner>>
  /\ UNCHANGED limited

RdTimedOut(t) ==
  /\ At(t, "rdTimedOut") /\ Goto(t, "user")
  /\ blockedReaderCnt' = blockedReaderCnt - 1
  /\ UNCHANGED <<semVars, activeReaderCnt, owner, limited>>

-----------------------------------------------------------------------------
(* pthread_rwlock_unlock, by a reader and by a writer.                     *)

\* Mutant of Released: as many readers are told as writers, one.
ReleasedOne == [s \in LockSems |-> IF s = "sem" THEN 1 ELSE Min({1, blockedReaderCnt})]

\* What a writer posts.
Released == [s \in LockSems |-> IF s = "sem" THEN 1 ELSE blockedReaderCnt]

Unlock(t) ==
  /\ pc[t] \in {"reading", "writing"} /\ Goto(t, "user")
  /\ IF activeReaderCnt > 0
     THEN /\ activeReaderCnt' = activeReaderCnt - 1
          /\ IF activeReaderCnt = 1 THEN owner' = {} /\ Sem!Post("sem")
                                    ELSE UNCHANGED <<owner, semVars>>
     ELSE owner' = {} /\ PostEach(Released) /\ UNCHANGED activeReaderCnt
  /\ UNCHANGED <<blockedReaderCnt, limited>>

-----------------------------------------------------------------------------
\* The Clock Swi ends a timed wait.
TimeOut(t) == Sem!TimeOut(t) /\ UNCHANGED <<lockVars, pc, limited>>

Next ==
  \E t \in Tasks :
    \/ WrCall(t) \/ WrPend(t) \/ WrTaken(t)
    \/ RdAcquire(t) \/ RdPend(t) \/ RdTry(t) \/ RdTimedOut(t)
    \/ Unlock(t) \/ TimeOut(t)

Spec == Init /\ [][Next]_vars

-----------------------------------------------------------------------------
(* Properties.                                                             *)

Writing(t) == pc[t] \in {"wrTaken", "writing"} \/ (pc[t] = "wrPend" /\ outcome[t] = "granted")
Readers    == {t \in Tasks : pc[t] = "reading"}

\* A writer that has the lock, or has been handed it and not run yet, has it
\* alone; the readers inside are counted; and owner, by which
\* pthread_rwlock_destroy tells whether the lock is in use, is one thread that
\* has had the lock since it was last free.  All of the state keeps its type.
RwExclusion ==
  /\ TypeOK
  /\ Cardinality({t \in Tasks : Writing(t)}) + Min({1, Cardinality(Readers)}) + avail["sem"] = 1
  /\ activeReaderCnt = Cardinality(Readers)
  /\ owner # {} <=> Readers # {} \/ \E t \in Tasks : pc[t] = "writing"

\* "Unblock all readers" (pthread_rwlock.c:240-250): a reader waits for a token
\* that nobody has posted only while a writer has the lock, or is handed it,
\* and will post it.  It holds although other readers may take its token, run
\* into the next writer and wait again.
ReadersWoken ==
  LET tokenless == {t \in Tasks : pc[t] = "rdPend" /\ outcome[t] \in {"idle"} \cup Sem!Waits}
  IN  Cardinality(tokenless) > avail["readSem"] => \E t \in Tasks : Writing(t)

\* The assertion of the reader's unlock (pthread_rwlock.c:230), a call that a
\* reader may make in any state: no reader is blocked while readers are inside.
NoneBlocked == Readers # {} => blockedReaderCnt = 0
=============================================================================
