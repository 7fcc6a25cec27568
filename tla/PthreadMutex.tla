----------------------------- MODULE PthreadMutex -----------------------------
(***************************************************************************)
(* pthread_mutex of ti.posix.tirtos, with the priority protocols            *)
(* (Settings.enableMutexPriority), and pthread_setschedparam: a mutex is a  *)
(* binary semaphore, here SemaphoreSpec, and an owner, a list of waiters    *)
(* and a priority ceiling that the scheduler's lock protects.  What the     *)
(* code does under that lock is one step, but for the loop of               *)
(* resetInheritPriority, one turn of which is one: on a cycle of owners it  *)
(* never ends.  A thread that is inside a call and not blocked is passed    *)
(* over only by threads of no lower priority.                               *)
(***************************************************************************)
EXTENDS Integers, SequencesExt

CONSTANTS Threads,
          Mutexes,
          Protocol,     \* "NONE", "INHERIT" or "PROTECT" for each mutex
          Type,         \* "NORMAL", "RECURSIVE" or "ERRORCHECK" for each mutex
          InitCeiling,  \* the prioceiling of the attributes of each mutex
          InitPri,      \* the priority of the attributes of each thread
          NumPri,       \* Task_numPriorities
          Apps          \* the applications: the mutexes each thread uses, how
                        \* many it holds at once, the ceilings and the
                        \* priorities that are set, and to which threads

VARIABLES
  avail, waiting, outcome,  \* the semaphores, as SemaphoreSpec has them
  owner, lockCnt,           \* owner is {} for NULL
  prioceiling,
  waitList,                 \* mpo->waitList, of threads
  priority,                 \* thread->priority
  runPri,                   \* the priority of the thread's task
  call,                     \* where a thread is, and the call it is in
  app

semVars   == <<avail, waiting, outcome>>
mutexVars == <<owner, lockCnt, prioceiling, waitList>>
vars      == <<semVars, mutexVars, priority, runPri, call, app>>

Sem == INSTANCE SemaphoreSpec
         WITH Tasks <- Threads, Sems <- Mutexes, CountLimit <- 2,
              Mode <- [m \in Mutexes |-> {"binary"}],
              InitCount <- [m \in Mutexes |-> 1]

Level == 1 .. NumPri - 1
PCs   == {"pend", "taken", "timedOut", "reset", "ceiling", "getPri", "setPri", "unlock"}

\* A thread in its own code, or in a call: for the mutex on, with a time limit or
\* "forever", to set a ceiling if that is not 0.  At "reset", on is next of
\* resetInheritPriority.
User  == [at |-> "user"]
Calls == [at : PCs, on : Mutexes, ceiling : Level \cup {0}, how : Sem!Waits]

TypeOK ==
  /\ Sem!SpecTypeOK
  /\ owner \in [Mutexes -> SUBSET Threads]
  /\ lockCnt \in [Mutexes -> Nat]
  /\ prioceiling \in [Mutexes -> Level \cup {0}]
  /\ waitList \in [Mutexes -> Seq(Threads)]
  /\ priority \in [Threads -> Level]
  /\ runPri \in [Threads -> Level]
  /\ call \in [Threads -> Calls \cup {User}]
  /\ app \in Apps

Init ==
  /\ Sem!Init
  /\ owner = [m \in Mutexes |-> {}]
  /\ lockCnt = [m \in Mutexes |-> 0]
  /\ prioceiling = [m \in Mutexes |-> IF Protocol[m] = "PROTECT" THEN InitCeiling[m] ELSE 0]
  /\ waitList = [m \in Mutexes |-> <<>>]
  /\ priority = InitPri /\ runPri = InitPri
  /\ call = [t \in Threads |-> User]
  /\ app \in Apps

-----------------------------------------------------------------------------
Owned(t, m) == owner[m] = {t}
Blocked(t)  == outcome[t] \in Sem!Waits

\* pthread_Obj.mutexList and pthread_Obj.blockedMutex.
mutexList(t)    == {m \in Mutexes : Owned(t, m) /\ Protocol[m] # "NONE"}
blockedMutex(t) == {m \in Mutexes : Contains(waitList[m], t)}

\* t is in the loop of resetInheritPriority, with the scheduler locked.
Walks(t) == call[t].at = "reset"

\* A thread in its own code may be blocked there on something else.
Runs(t) ==
  /\ ~Blocked(t)
  /\ \/ Walks(t)
     \/ \A u \in Threads : /\ ~Walks(u)
                            /\ call[u] # User /\ ~Blocked(u) => runPri[u] <= runPri[t]

At(t, l)   == Runs(t) /\ call[t].at = l
Goto(t, l) == call' = [call EXCEPT ![t].at = l]
Return(t)  == call' = [call EXCEPT ![t] = User]

\* Call c has its mutex.
Acquired(t, c) == call' = [call EXCEPT ![t] = IF c.ceiling = 0 THEN User ELSE [c EXCEPT !.at = "ceiling"]]

-----------------------------------------------------------------------------
(* The priorities.                                                         *)

\* setPrioCeiling: the priority of the highest waiter.
CeilingOf(w, pri) == Max({0} \cup {pri[t] : t \in ToSet(w)})

\* adjustPri, of a thread that owns the mutexes in own, with these ceilings.
Adjusted(t, own, ceil) == Max({priority[t]} \cup {ceil[m] : m \in own})

\* The mutexes setInheritPriority raises: from m, to the mutex its owner waits
\* for, and so on, until an owner has the priority p.
Raised(m, p) ==
  LET Next(done) == IF done = <<>> THEN {m}
                    ELSE UNION {blockedMutex(o) : o \in owner[Last(done)]}
      Above(done) == UNION {owner[x] : x \in ToSet(done)}
      f[n \in 0 .. Cardinality(Mutexes)] ==
        IF n = 0 THEN <<>>
        ELSE LET done == f[n - 1]
                 low  == {x \in Next(done) : \E o \in owner[x] \ Above(done) : runPri[o] < p}
             IN  IF Len(done) = n - 1 /\ low # {} THEN Append(done, CHOOSE x \in low : TRUE) ELSE done
  IN  ToSet(f[Cardinality(Mutexes)])

\* Mutant of setInheritPriority: the owner alone is raised, not what it waits for.
setInheritPriorityOnce(m, p) ==
  LET low == {o \in owner[m] : runPri[o] < p}
  IN  /\ runPri' = [t \in Threads |-> IF t \in low THEN p ELSE runPri[t]]
      /\ prioceiling' = IF low = {} THEN prioceiling ELSE [prioceiling EXCEPT ![m] = p]

setInheritPriority(m, p) ==
  /\ runPri' = [t \in Threads |-> IF \E x \in Raised(m, p) : Owned(t, x) THEN p ELSE runPri[t]]
  /\ prioceiling' = [x \in Mutexes |-> IF x \in Raised(m, p) THEN p ELSE prioceiling[x]]

-----------------------------------------------------------------------------
(* acquireMutex, for lock, trylock, timedlock and setprioceiling.  Where it *)
(* returns an error at once nothing changes, and there is no action.        *)

\* EINVAL: the ceiling is below the thread's priority.
Refused(t, m) == Protocol[m] = "PROTECT" /\ prioceiling[m] < priority[t]

\* The locks t has to release.
Holds(t) == Cardinality(UNION {{m} \X (1 .. lockCnt[m]) : m \in {x \in Mutexes : Owned(t, x)}})

MayCall(t, c) ==
  /\ At(t, "user") /\ Holds(t) < app.depth
  /\ ~Refused(t, c.on)
  /\ UNCHANGED <<priority, app>>

\* The mutex is free; w are those who wait for it.
Own(t, m, w) ==
  LET ceil == IF Protocol[m] = "INHERIT" THEN CeilingOf(w, runPri) ELSE prioceiling[m]
  IN  /\ owner' = [owner EXCEPT ![m] = {t}]
      /\ lockCnt' = [lockCnt EXCEPT ![m] = 1]
      /\ waitList' = [waitList EXCEPT ![m] = w]
      /\ prioceiling' = [prioceiling EXCEPT ![m] = ceil]
      /\ runPri' = [runPri EXCEPT ![t] = IF Protocol[m] = "NONE" THEN @ ELSE Max({@, ceil})]

LockAgain(t, c) ==
  /\ MayCall(t, c)
  /\ Owned(t, c.on) /\ Type[c.on] = "RECURSIVE"
  /\ lockCnt' = [lockCnt EXCEPT ![c.on] = @ + 1]
  /\ Acquired(t, c)
  /\ UNCHANGED <<semVars, owner, prioceiling, waitList, runPri>>

LockFree(t, c) ==
  /\ MayCall(t, c) /\ Protocol[c.on] # "NONE"
  /\ Sem!Take(c.on)
  /\ Own(t, c.on, waitList[c.on])
  /\ Acquired(t, c)

\* The mutex is not free, and the wait is still to begin.  A NORMAL mutex may be
\* asked for again by its owner, with a time limit.
LockBlock(t, c) ==
  LET m == c.on
  IN  /\ MayCall(t, c) /\ Protocol[m] # "NONE"
      /\ avail[m] = 0
      /\ Owned(t, m) => Type[m] = "NORMAL" /\ c.how = "timed"
      /\ IF Protocol[m] = "INHERIT"
         THEN /\ setInheritPriority(m, runPri[t])
              /\ waitList' = [waitList EXCEPT ![m] = Append(@, t)]
         ELSE UNCHANGED <<runPri, prioceiling, waitList>>
      /\ call' = [call EXCEPT ![t] = c]
      /\ UNCHANGED <<semVars, owner, lockCnt>>

\* acquireMutexNone: the scheduler is not locked before the wait.
LockNone(t, c) ==
  /\ MayCall(t, c) /\ Protocol[c.on] = "NONE"
  /\ ~Owned(t, c.on)
  /\ call' = [call EXCEPT ![t] = c]
  /\ UNCHANGED <<semVars, mutexVars, runPri>>

Pend(t) ==
  LET m == call[t].on
  IN  /\ At(t, "pend")
      /\ \/ outcome[t] = "idle" /\ Sem!Take(m) /\ Goto(t, "taken")
         \/ outcome[t] = "granted" /\ Sem!Return(t) /\ Goto(t, "taken")
         \/ outcome[t] = "timedout" /\ Sem!Return(t) /\ Goto(t, "timedOut")
         \/ Sem!Wait(t, m, call[t].how) /\ UNCHANGED call
         \/ /\ Protocol[m] = "NONE" /\ call[t].how = "timed"   \* trylock
            /\ outcome[t] = "idle" /\ avail[m] = 0
            /\ Return(t) /\ UNCHANGED semVars
      /\ UNCHANGED <<mutexVars, priority, runPri, app>>

\* Mutant of Without: the thread stays on the list.
WithoutNone(t, m) == waitList

\* A thread leaves the waiters of m.
Without(t, m) == [waitList EXCEPT ![m] = RemoveFirst(@, t)]

Taken(t) ==
  LET m == call[t].on
  IN  /\ At(t, "taken")
      /\ Own(t, m, Without(t, m)[m])
      /\ Acquired(t, call[t])
      /\ UNCHANGED <<semVars, priority, app>>

TimedOut(t) ==
  LET m == call[t].on
  IN  /\ At(t, "timedOut")
      /\ IF Protocol[m] = "INHERIT" THEN waitList' = Without(t, m) /\ Goto(t, "reset")
         ELSE Return(t) /\ UNCHANGED waitList
      /\ UNCHANGED <<semVars, owner, lockCnt, prioceiling, priority, runPri, app>>

\* One turn: the owner of next is lowered, unless it is no higher than the waiter
\* setPrioCeiling looks at last, and then the owner of the mutex it waits for.
resetInheritPriority(t) ==
  LET next == call[t].on
      w    == waitList[next]
      ceil == [prioceiling EXCEPT ![next] = CeilingOf(w, runPri)]
      last == IF w = <<>> THEN 0 ELSE runPri[Last(w)]
  IN  /\ At(t, "reset")
      /\ \/ owner[next] = {} /\ Return(t) /\ UNCHANGED <<runPri, prioceiling>>
         \/ \E o \in owner[next] :
              /\ prioceiling' = ceil
              /\ \/ runPri[o] <= last /\ Return(t) /\ UNCHANGED runPri
                 \/ /\ runPri[o] > last
                    /\ runPri' = [runPri EXCEPT ![o] = Adjusted(o, mutexList(o), ceil)]
                    /\ \/ blockedMutex(o) = {} /\ Return(t)
                       \/ \E m \in blockedMutex(o) : call' = [call EXCEPT ![t].on = m]
      /\ UNCHANGED <<semVars, owner, lockCnt, waitList, priority, app>>

-----------------------------------------------------------------------------
(* The rest of pthread_mutex_setprioceiling, with the mutex locked and the  *)
(* scheduler not: the priority that is tested may be stale when it is set.  *)

WriteCeiling(t) ==
  LET m == call[t].on
  IN  /\ At(t, "ceiling") /\ Goto(t, IF lockCnt[m] > 1 THEN "getPri" ELSE "unlock")
      /\ prioceiling' = [prioceiling EXCEPT ![m] = call[t].ceiling]
      /\ UNCHANGED <<semVars, owner, lockCnt, waitList, priority, runPri, app>>

GetPri(t) ==
  /\ At(t, "getPri")
  /\ Goto(t, IF runPri[t] < call[t].ceiling THEN "setPri" ELSE "unlock")
  /\ UNCHANGED <<semVars, mutexVars, priority, runPri, app>>

SetPri(t) ==
  /\ At(t, "setPri") /\ Goto(t, "unlock")
  /\ runPri' = [runPri EXCEPT ![t] = call[t].ceiling]
  /\ UNCHANGED <<semVars, mutexVars, priority, app>>

-----------------------------------------------------------------------------
(* pthread_mutex_unlock.                                                   *)

\* The priority removeMutex leaves t with.
Released(t, m) == Adjusted(t, mutexList(t) \ {m}, prioceiling)

Unlock(t, m) ==
  /\ Owned(t, m)
  /\ At(t, "user") \/ (At(t, "unlock") /\ m = call[t].on)
  /\ IF lockCnt[m] > 1
     THEN UNCHANGED <<semVars, owner, prioceiling, runPri>>
     ELSE /\ owner' = [owner EXCEPT ![m] = {}]
          /\ prioceiling' = [prioceiling EXCEPT ![m] = IF Protocol[m] = "INHERIT" THEN 0 ELSE @]
          /\ runPri' = [runPri EXCEPT ![t] = IF Protocol[m] = "NONE" THEN @ ELSE Released(t, m)]
          /\ Sem!Post(m)
  /\ lockCnt' = [lockCnt EXCEPT ![m] = @ - 1]
  /\ Return(t)
  /\ UNCHANGED <<waitList, priority, app>>

-----------------------------------------------------------------------------
\* pthread_setschedparam, of t, by a thread or a Task that can run.
SetSchedParam(t, p) ==
  /\ t \in app.targets /\ p \in Level \ {priority[t]}
  /\ \E u \in Threads : At(u, "user")
  /\ priority' = [priority EXCEPT ![t] = p]
  /\ runPri' = [runPri EXCEPT ![t] = IF p > Max({0} \cup {prioceiling[m] : m \in mutexList(t)})
                                     THEN p ELSE @]
  /\ UNCHANGED <<semVars, mutexVars, call, app>>

\* The Clock Swi ends a timed wait.
TimeOut(t) == Sem!TimeOut(t) /\ UNCHANGED <<mutexVars, priority, runPri, call, app>>

\* pthread_mutex_setprioceiling is for PROTECT mutexes, and waits for ever.
NewCalls(t) ==
  {c \in [at : {"pend"}, on : app.uses[t], ceiling : app.ceilings \cup {0}, how : Sem!Waits] :
     c.ceiling = 0 \/ (Protocol[c.on] = "PROTECT" /\ c.how = "forever")}

Next ==
  \E t \in Threads :
    \/ At(t, "user") /\ \E c \in NewCalls(t) : LockAgain(t, c) \/ LockFree(t, c) \/ LockBlock(t, c) \/ LockNone(t, c)
    \/ Pend(t) \/ Taken(t) \/ TimedOut(t) \/ resetInheritPriority(t)
    \/ WriteCeiling(t) \/ GetPri(t) \/ SetPri(t) \/ TimeOut(t)
    \/ \E m \in Mutexes : Unlock(t, m)
    \/ \E p \in Level : SetSchedParam(t, p)

Spec == Init /\ [][Next]_vars

-----------------------------------------------------------------------------
(* Properties.                                                             *)

\* A mutex is free, or owned by one thread, or on its way to the one thread
\* that has its token and has yet to say so; then it has no owner and no count,
\* as Taken asserts (pthread_mutex.c:647-648 and 776-777).  Whoever waits in
\* the list that the ceiling is computed from is in the call.
MutexExclusion ==
  /\ TypeOK
  /\ \A m \in Mutexes :
       LET coming == {t \in Threads : /\ call[t].at \in {"pend", "taken"} /\ call[t].on = m
                                      /\ call[t].at = "taken" \/ outcome[t] = "granted"}
       IN  /\ avail[m] + Cardinality(owner[m]) + Cardinality(coming) = 1
           /\ owner[m] = {} <=> lockCnt[m] = 0
           /\ IsInjective(waitList[m])
           /\ Protocol[m] = "INHERIT" =>
                ToSet(waitList[m]) = {t \in Threads : call[t].at \in {"pend", "taken", "timedOut"} /\ call[t].on = m}

\* "When the thread releases the mutex, its priority will be set to the max of
\* the priority ceilings of the mutexes it still owns, and its original
\* priority" (_pthread.h:73-76): a thread that owns none runs at its own.
OwnPriority == \A t \in Threads : mutexList(t) = {} => runPri[t] = priority[t]

\* t sets the ceiling of m and is between the write of it and its own priority;
\* a call that alone holds the mutex does without (pthread_mutex.c:402-404).
Adjusts(t, m) ==
  \/ call[t].at \in {"getPri", "setPri"} /\ call[t].on = m
  \/ call[t].at = "unlock" /\ call[t].on = m /\ lockCnt[m] = 1

\* "A thread holding a PTHREAD_PRIO_PROTECT or PTHREAD_PRIO_INHERIT mutex must
\* run at a priority >= the mutex prioceiling" (pthread_mutex.c:90-91), once
\* pthread_mutex_setprioceiling has gone through with a ceiling it sets.
RunsAtCeiling ==
  \A t \in Threads : \A m \in mutexList(t) : ~Adjusts(t, m) => runPri[t] >= prioceiling[m]

\* "The prioceiling will be set to the priority of the highest priority thread
\* waiting on the mutex" (pthread_mutex.c:85-88), and so the owner runs at that
\* priority or above.
Inheritance ==
  \A m \in Mutexes : \A o \in owner[m], t \in ToSet(waitList[m]) : runPri[t] <= runPri[o]

\* The highest priority at which a thread may wait for a mutex: its own, or the
\* ceiling of one of its other mutexes, or that of who may wait for one of those.
Peak(a) ==
  LET Others(u, m, protocol) == {k \in a.uses[u] \ {m} : Protocol[k] = protocol}
      Heights(u, m, peak) ==
        {InitPri[u]} \cup UNION {a.ceilings \cup {InitCeiling[k]} : k \in Others(u, m, "PROTECT")}
          \cup UNION {{peak[v][k] : v \in {x \in Threads : k \in a.uses[x]}} : k \in Others(u, m, "INHERIT")}
      f[n \in 0 .. Cardinality(Mutexes)] ==
        [u \in Threads |-> [m \in Mutexes |-> IF n = 0 THEN InitPri[u] ELSE Max(Heights(u, m, f[n - 1]))]]
  IN  f[Cardinality(Mutexes)]

\* The mutexes for which t may be raised.
RaisedFor(a, t) ==
  {m \in a.uses[t] : \/ Protocol[m] = "PROTECT"
                     \/ /\ Protocol[m] = "INHERIT"
                        /\ \E u \in Threads \ {t} : m \in a.uses[u] /\ Peak(a)[u][m] > InitPri[t]}

\* The two promises are kept where no thread may be raised for one mutex while it
\* holds another, and priorities are not changed.
RaisedForOne ==
  {a \in Apps : /\ a.targets = {}
                /\ a.depth = 1 \/ (a.depth = 2 /\ \A t \in Threads : Cardinality(RaisedFor(a, t)) <= 1)}

MutexPriority == OwnPriority /\ (app \in RaisedForOne => RunsAtCeiling /\ Inheritance)
=============================================================================
