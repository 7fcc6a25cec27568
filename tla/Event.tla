-------------------------------- MODULE Event --------------------------------
(***************************************************************************)
(* ti.sysbios.knl.Event: a task, the reader, waits for a set of events that *)
(* tasks and interrupts post, explicitly or by posting a semaphore that is *)
(* coupled to the Event object (Semaphore.supportsEvents).  The reader of a *)
(* semaphore's event answers it with Semaphore_pend(BIOS_NO_WAIT); other   *)
(* tasks and interrupts pend on the same semaphores.                       *)
(*                                                                         *)
(* Semaphore_post counts its token in one region and posts the event in    *)
(* another; in between interrupts come.                                    *)
(***************************************************************************)
EXTENDS Semaphore

CONSTANTS Reader,    \* the one task that pends on the Event object
          Explicit,  \* the event ids that are posted explicitly
          Masks      \* the masks the reader pends with: [and, or]

\* What the constants must be.
EventAssumption ==
  /\ Reader \in Tasks
  /\ Masks \subseteq {m \in [and : SUBSET (Explicit \cup Sems), or : SUBSET (Explicit \cup Sems)] :
                     m.and \cup m.or # {}}

\* The event id of a coupled semaphore is the semaphore.
Ids == Explicit \cup Sems

VARIABLES
  postedEvents,  \* event->postedEvents, as the set of its bits
  eventQ,        \* event->pendQ: the reader while it waits
  want,          \* the masks in the reader's PendElem
  got,           \* what Event_pend returned and the reader has not answered
  hwiOwes        \* semaphores an interrupt has counted up and not yet announced

eventVars == <<postedEvents, eventQ, want, got, hwiOwes>>
allVars   == <<vars, eventVars>>

NoMask == [and |-> {}, or |-> {}]

EventOps == [name : {"eventPend", "eventPost"}]

EventTypeOK ==
  /\ KernelTypeOK
  /\ pc \in [Tasks -> PCs \cup {"announce"}]
  /\ op \in [Tasks -> Ops \cup EventOps]
  /\ count \in [Sems -> 0 .. CountLimit - 1]
  /\ postedEvents \subseteq Ids
  /\ eventQ \in {<<>>, <<Reader>>}
  /\ want \in Masks \cup {NoMask}
  /\ got \subseteq Ids
  /\ hwiOwes \subseteq Sems
  /\ pendState \in [Tasks -> PendStates]
  /\ clk \in [Tasks -> Clocks]

EventInit ==
  /\ Init
  /\ postedEvents = {s \in Sems : count[s] > 0}
  /\ eventQ = <<>>
  /\ want = NoMask
  /\ got = {}
  /\ hwiOwes = {}

-----------------------------------------------------------------------------
(* The object.                                                             *)

\* Mutant of Matching: an AND mask is met by any of its events.
MatchingAny(posted, m) == (m.or \cup m.and) \cap posted

\* Event_checkEvents: what of the posted events a pend with these masks takes.
Matching(posted, m) ==
  (m.or \cap posted) \cup (IF m.and \subseteq posted THEN m.and ELSE {})

\* Mutant of Event_sync: it only clears.
SyncOnlyClears(s, n) == postedEvents' = IF n > 0 THEN postedEvents ELSE postedEvents \ {s}

\* The bit of a coupled semaphore says whether it is available.
Event_sync(s, n) ==
  postedEvents' = IF n > 0 THEN postedEvents \cup {s} ELSE postedEvents \ {s}

\* Mutant of Event_post: a reader that waits is not looked for.
PostUnseen(id) ==
  /\ postedEvents' = postedEvents \cup {id}
  /\ UNCHANGED <<queueVars, eventQ, got, pendState, clk>>

\* Event_post with interrupts disabled, up to its Task_restore.
Event_post(id) ==
  LET posted == postedEvents \cup {id}
      match  == Matching(posted, want)
  IN  IF eventQ # <<>> /\ match # {}
      THEN /\ postedEvents' = posted \ match
           /\ eventQ' = <<>>
           /\ got' = match
           /\ pendState' = [pendState EXCEPT ![Reader] = "POSTED"]
           /\ clk' = [clk EXCEPT ![Reader] = IF @ = "active" THEN "stopped" ELSE @]
           /\ Task_unblockI(Reader)
      ELSE /\ postedEvents' = posted
           /\ UNCHANGED <<queueVars, eventQ, got, pendState, clk>>

-----------------------------------------------------------------------------
(* Event_pend, by the reader.                                              *)

\* The reader has answered all it was told.
Answered == got \cap Sems = {}

\* There is a match, or there is none and the timeout is BIOS_NO_WAIT.
EventPendNow(m) ==
  LET match == Matching(postedEvents, m)
  IN  /\ At(Reader, "user") /\ Answered
      /\ postedEvents' = postedEvents \ match
      /\ got' = match
      /\ UNCHANGED <<queueVars, locked, swiLocked, phase, callVars, semVars, eventQ, want, hwiOwes>>

EventPendBlock(m, how) ==
  /\ LockToBlock(Reader, [name |-> "eventPend"]) /\ Answered
  /\ Matching(postedEvents, m) = {}
  /\ eventQ' = <<Reader>>
  /\ want' = m
  /\ got' = {}
  /\ pendState' = [pendState EXCEPT ![Reader] = how]
  /\ StartClock(Reader, how)
  /\ Task_blockI(Reader)
  /\ UNCHANGED <<count, pendQ, postedEvents, hwiOwes>>

EventPendRestore ==
  /\ op[Reader].name = "eventPend" /\ Return(Reader, "wake")
  /\ UNCHANGED <<semVars, eventVars>>

\* The reader runs again and Event_pend returns got, or 0 after a timeout.
EventPendReturn ==
  /\ op[Reader].name = "eventPend" /\ PendReturn(Reader)
  /\ want' = NoMask
  /\ UNCHANGED <<postedEvents, eventQ, got, hwiOwes>>

Event_pendTimeout ==
  /\ eventQ' = IF pendState[Reader] = "CLOCK_WAIT" THEN <<>> ELSE eventQ
  /\ Semaphore_pendTimeout(Reader)
  /\ UNCHANGED <<postedEvents, want, got, hwiOwes>>

\* A task posts an event: the scheduler is locked only if the reader waits.
EventPostTask(t, id) ==
  /\ At(t, "user")
  /\ Event_post(id)
  /\ IF eventQ = <<>> THEN UNCHANGED <<callVars, locked>>
     ELSE /\ Goto(t, "restore")
          /\ op' = [op EXCEPT ![t] = [name |-> "eventPost"]]
          /\ key' = [key EXCEPT ![t] = locked]
          /\ locked' = TRUE
  /\ UNCHANGED <<swiLocked, phase, count, pendQ, want, hwiOwes>>

EventPostRestore(t) ==
  /\ op[t].name = "eventPost" /\ Return(t, "user")
  /\ UNCHANGED <<semVars, eventVars>>

-----------------------------------------------------------------------------
(* The coupled semaphores.                                                 *)

\* Semaphore_pend that need not wait.  A reader's pend answers the event.
Answer(t, s) == got' = IF t = Reader THEN got \ {s} ELSE got

CoupledTake(t, s) ==
  /\ PendTake(t, s)
  /\ Event_sync(s, count'[s])
  /\ Answer(t, s)
  /\ UNCHANGED <<eventQ, want, hwiOwes>>

\* Semaphore_pend(BIOS_NO_WAIT) that returns FALSE.
CoupledFail(t, s) ==
  /\ At(t, "user") /\ count[s] = 0
  /\ Answer(t, s)
  /\ UNCHANGED <<queueVars, locked, swiLocked, phase, callVars, semVars, postedEvents, eventQ, want, hwiOwes>>

CoupledBlock(t, s, how) == PendBlock(t, s, how) /\ UNCHANGED eventVars

CoupledPendRestore(t) == PendRestore(t) /\ UNCHANGED eventVars

\* A waiter runs again, granted or timed out, and synchronizes the event.
CoupledReturn(t) ==
  /\ op[t].name = "pend" /\ PendReturn(t)
  /\ Event_sync(op[t].on, count[op[t].on])
  /\ UNCHANGED <<eventQ, want, got, hwiOwes>>

\* Semaphore_post: a token that is counted is announced in a second region.
CoupledPost(t) ==
  LET s == op[t].on
  IN  /\ Calling(t, "post") /\ Goto(t, IF pendQ[s] = <<>> THEN "announce" ELSE "restore")
      /\ Semaphore_post(s)
      /\ UNCHANGED <<locked, swiLocked, phase, op, key, eventVars>>

CoupledAnnounce(t) ==
  /\ At(t, "announce") /\ Goto(t, "restore")
  /\ Event_post(op[t].on)
  /\ UNCHANGED <<locked, swiLocked, phase, op, key, count, pendQ, want, hwiOwes>>

\* The reader, too, has to be gone when a semaphore is reset: Event_sync would
\* set its bit and leave it asleep.
CoupledReset(t, s, n) ==
  /\ Semaphore_reset(t, s, n) /\ eventQ = <<>>
  /\ Event_sync(s, n)
  /\ UNCHANGED <<eventQ, want, got, hwiOwes>>

CoupledPostRestore(t) == PostRestore(t) /\ UNCHANGED eventVars

-----------------------------------------------------------------------------
(* Interrupt level; a nested interrupt may come between the two regions.   *)

HwiEventPost(id) == InHwi /\ Event_post(id) /\ UNCHANGED <<callVars, count, pendQ, want, hwiOwes>>

HwiCoupledPost(s) ==
  /\ s \notin hwiOwes /\ HwiPost(s)
  /\ hwiOwes' = IF pendQ[s] = <<>> THEN hwiOwes \cup {s} ELSE hwiOwes
  /\ UNCHANGED <<postedEvents, eventQ, want, got>>

HwiAnnounce(s) ==
  /\ InHwi /\ s \in hwiOwes
  /\ Event_post(s)
  /\ hwiOwes' = hwiOwes \ {s}
  /\ UNCHANGED <<callVars, count, pendQ, want>>

HwiCoupledTake(s) ==
  /\ HwiTake(s)
  /\ Event_sync(s, count'[s])
  /\ UNCHANGED <<eventQ, want, got, hwiOwes>>

HwiTimeout(t) ==
  \/ ClockExpires(t) /\ UNCHANGED eventVars
  \/ op[t].name # "eventPend" /\ Semaphore_pendTimeout(t) /\ UNCHANGED eventVars
  \/ t = Reader /\ op[t].name = "eventPend" /\ Event_pendTimeout

EventHwiDone == hwiOwes = {} /\ HwiDone

-----------------------------------------------------------------------------
EventKernelOnly == UNCHANGED <<callVars, semVars, eventVars>>
EventKernelStep == (Scheduler \/ HwiEnter \/ EventHwiDone) /\ EventKernelOnly

EventCall(t) ==
  \/ \E s \in Sems : CoupledTake(t, s) \/ CoupledFail(t, s)
  \/ \E s \in Sems, n \in 0 .. CountLimit - 1 : CoupledReset(t, s, n)
  \/ \E s \in Sems : PostCall(t, s) /\ UNCHANGED eventVars
  \/ \E s \in Sems, how \in Timeouts : t # Reader /\ CoupledBlock(t, s, how)
  \/ \E id \in Explicit : EventPostTask(t, id)

ReaderCall == \E m \in Masks : EventPendNow(m) \/ \E how \in Timeouts : EventPendBlock(m, how)

EventProgress(t) ==
  \/ Lock(t) /\ UNCHANGED <<semVars, eventVars>>
  \/ CoupledPendRestore(t) \/ CoupledReturn(t)
  \/ CoupledPost(t) \/ CoupledAnnounce(t) \/ CoupledPostRestore(t)
  \/ EventPostRestore(t)

EventHwiStep ==
  \/ \E id \in Explicit : HwiEventPost(id)
  \/ \E s \in Sems : HwiCoupledPost(s) \/ HwiAnnounce(s) \/ HwiCoupledTake(s)
  \/ \E t \in Tasks : HwiTimeout(t)

EventNext ==
  \/ EventKernelStep \/ EventHwiStep
  \/ ReaderCall \/ EventPendRestore \/ EventPendReturn
  \/ \E t \in Tasks : EventCall(t) \/ EventProgress(t)

EventSpec == EventInit /\ [][EventNext]_allVars

-----------------------------------------------------------------------------
(* Properties.                                                             *)

\* A Semaphore_post that has counted a token and has yet to post the event.
Announcing(s) == s \in hwiOwes \/ \E t \in Tasks : pc[t] = "announce" /\ op[t].on = s

\* The reader never sleeps while what it waits for has been posted: the bits a
\* Semaphore_pend sets without Event_post (Event_sync) are followed by an
\* Event_post that looks for the reader.
NoMissedEvent ==
  eventQ # <<>> /\ (\A s \in Sems : ~Announcing(s)) => Matching(postedEvents, want) = {}

\* A token that is there shows in the Event object, unless it is about to be
\* announced or the reader, told of it, has yet to answer: the caveat of
\* Event.xdc:110-115.
NoUnseenToken ==
  \A s \in Sems : count[s] > 0 => s \in postedEvents \cup got \/ Announcing(s)

\* When the reader runs again, it was posted and has events that meet its
\* masks, or it timed out and nothing was taken for it.  All of the state
\* keeps its type.
EventResultOK ==
  /\ EventTypeOK
  /\ pc[Reader] = "wake" /\ mode[Reader] = "READY" /\ op[Reader].name = "eventPend" =>
       /\ eventQ = <<>>
       /\ \/ pendState[Reader] = "TIMEOUT" /\ got = {}
          \/ /\ pendState[Reader] = "POSTED" /\ got # {}
             /\ got \subseteq want.and \cup want.or
             /\ want.and \subseteq got \/ got \subseteq want.or
=============================================================================
