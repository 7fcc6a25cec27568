------------------------------ MODULE MCServices ------------------------------
(* The services above the scheduler, one at a time: a mailbox of two        *)
(* messages, an Event object, and those of POSIX.  Tasks t1, t2 and t3 use  *)
(* them; the mailbox has an interrupt as well, the barrier a fourth thread. *)
EXTENDS Event, Mailbox, PosixSync, PosixThreads

CONSTANTS t1, t2, t3, t4, isr0, b1, b2, m1, m2,
          s1, e1,           \* the Event object's semaphore and its explicit event
          mi, mj, mp, mn    \* mutexes: two INHERIT, a PROTECT and a NONE

VARIABLE service   \* the one that is used; what belongs to the others stays as it is

LOCAL INSTANCE TLC

\* A reader t2 between a task that preempts it and one that it preempts, and a
\* coupled semaphore that serves by priority.
MCMasks     == {[and |-> {}, or |-> {s1}], [and |-> {e1, s1}, or |-> {}], [and |-> {}, or |-> {e1, s1}]}
MCInitPri   == t1 :> 0 @@ t2 :> 1 @@ t3 :> 2
MCInitCount == s1 :> 0
MCMode      == s1 :> {"priority"}

\* One mutex of each protocol at a time; a chain of two; all nested two deep; a
\* mutex locked again, with a ceiling that is set; a priority that is set.
MCMutexApps ==
  LET App(u1, u2, u3, depth, ceilings, targets) ==
        [uses |-> t1 :> u1 @@ t2 :> u2 @@ t3 :> u3, depth |-> depth, ceilings |-> ceilings, targets |-> targets]
  IN  {App({mi, mp, mn}, {mi, mp, mn}, {mi, mp, mn}, 1, {3}, {}),
       App({mi}, {mi, mj}, {mj}, 2, {}, {}),
       App({mi, mj}, {mi, mj}, {mi, mj}, 2, {}, {}),
       App({mp}, {mp}, {}, 2, {1, 3}, {}),
       App({mi, mp}, {mi, mp}, {mi}, 1, {}, {t2})}

MCProtocol    == mi :> "INHERIT" @@ mj :> "INHERIT" @@ mp :> "PROTECT" @@ mn :> "NONE"
MCType        == mi :> "NORMAL" @@ mj :> "RECURSIVE" @@ mp :> "RECURSIVE" @@ mn :> "ERRORCHECK"
MCInitCeiling == [m \in Mutexes |-> 2]
MCPthreadPri  == t1 :> 1 @@ t2 :> 2 @@ t3 :> 3

\* Broadcasts come with waits that have no time limit only.
MCCondApps == {[wakes |-> {"signal"}, timed |-> {t1, t2}], [wakes |-> {"signal", "broadcast"}, timed |-> {}]}

\* Two threads join, threads detach themselves, and one is cancelled.
MCLifeApps == {[again |-> FALSE, first |-> {t1},
                calls |-> {<<a, "join", t>> : a \in {t1, t2}, t \in {t2, t3}}
                          \cup {<<t, "detach", t>> : t \in {t2, t3}}
                          \cup {<<t1, "cancel", t3>>, <<t3, "setcancelstate", t3>>}]}

ASSUME /\ EventAssumption /\ LockAssumption /\ MutexAssumption
       /\ CondAssumption /\ BarrierAssumption /\ LifeAssumption

-----------------------------------------------------------------------------
services == <<service, allVars, mailboxVars, syncVars, threadVars>>

MCInit ==
  /\ EventInit /\ BoxInit /\ SyncInit /\ ThreadsInit
  /\ service \in {"event", "mailbox", "sync", "threads"}
  /\ service = "sync" <=> object # "none"
  /\ service = "threads" <=> aspect # "none"

\* Threads may wait for each other's mutexes, and threads end.
Stopped == service = "threads" /\ UNCHANGED services

MCNext ==
  \/ service = "event" /\ EventNext /\ UNCHANGED <<service, mailboxVars, syncVars, threadVars>>
  \/ service = "mailbox" /\ BoxNext /\ UNCHANGED <<service, allVars, syncVars, threadVars>>
  \/ service = "sync" /\ SyncNext /\ UNCHANGED <<service, allVars, mailboxVars, threadVars>>
  \/ service = "threads" /\ ThreadsNext /\ UNCHANGED <<service, allVars, mailboxVars, syncVars>>
  \/ Stopped

MCSpec == MCInit /\ [][MCNext]_services
=============================================================================
