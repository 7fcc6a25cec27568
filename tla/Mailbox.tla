------------------------------- MODULE Mailbox -------------------------------
(***************************************************************************)
(* ti.sysbios.knl.Mailbox: message blocks go round between a free queue and *)
(* a data queue, each with a semaphore that counts its blocks.  The two     *)
(* semaphores are SemaphoreSpec, which Semaphore implements.  Any task may  *)
(* run between two regions; an interrupt uses the mailbox without waiting, *)
(* and no task runs until it has finished.                                 *)
(***************************************************************************)
EXTENDS Integers, SequencesExt

CONSTANTS Clients,     \* the tasks
          Isr,         \* the interrupt as a thread
          Blocks,      \* the MbxElems of obj->buf, numMsgs of them
          Messages,
          NoMessage,   \* no message, or whatever the buffer held before
          NoBlock,
          Header       \* the queue object itself: what Queue_get of an empty queue returns

ASSUME BlocksAssumption == IsFiniteSet(Blocks) /\ Blocks # {} /\ {NoBlock, Header} \cap Blocks = {}

ASSUME IsrAssumption == Isr \notin Clients

ASSUME MessagesAssumption == NoMessage \notin Messages

Threads == Clients \cup {Isr}
NumMsgs == Cardinality(Blocks)

VARIABLES
  avail, waiting, outcome,   \* dataSem and freeSem, as SemaphoreSpec has them
  dataQue, freeQue,          \* obj->dataQue, obj->freeQue
  numFreeMsgs,               \* obj->numFreeMsgs
  content,                   \* the message in a block
  boxPc,                     \* where a thread is in Mailbox_post or Mailbox_pend
  elem,                      \* its elem
  msg                        \* the caller's message

tokenVars   == <<avail, waiting, outcome>>
boxVars     == <<dataQue, freeQue, numFreeMsgs>>
mailboxVars == <<tokenVars, boxVars, content, boxPc, elem, msg>>

Sem == INSTANCE SemaphoreSpec
         WITH Tasks <- Clients, Sems <- {"data", "free"}, CountLimit <- NumMsgs + 1,
              Mode <- [s \in {"data", "free"} |-> {}],
              InitCount <- [s \in {"data", "free"} |-> IF s = "free" THEN NumMsgs ELSE 0]

PostPCs == {"postPend", "dequeue", "copyIn", "enqueue"}
PendPCs == {"pendPend", "get", "copyOut", "giveBack", "postFree"}

BoxTypeOK ==
  /\ Sem!SpecTypeOK
  /\ dataQue \in Seq(Blocks) /\ freeQue \in Seq(Blocks)
  /\ numFreeMsgs \in 0 .. NumMsgs
  /\ content \in [Blocks \cup {Header} -> Messages \cup {NoMessage}]
  /\ boxPc \in [Threads -> {"user"} \cup PostPCs \cup PendPCs]
  /\ elem \in [Threads -> Blocks \cup {NoBlock}]
  /\ msg \in [Threads -> Messages \cup {NoMessage}]

\* Mailbox_postInit puts every block on the free queue.
BoxInit ==
  /\ Sem!Init
  /\ dataQue = <<>>
  /\ freeQue = SetToSeq(Blocks)
  /\ numFreeMsgs = NumMsgs
  /\ content = [b \in Blocks \cup {Header} |-> NoMessage]
  /\ boxPc = [t \in Threads |-> "user"]
  /\ elem = [t \in Threads |-> NoBlock]
  /\ msg = [t \in Threads |-> NoMessage]

-----------------------------------------------------------------------------
\* No task runs while the interrupt is in the mailbox.
BoxAt(t, l)   == boxPc[t] = l /\ (t = Isr \/ boxPc[Isr] = "user")
BoxGoto(t, l) == boxPc' = [boxPc EXCEPT ![t] = l]

\* Semaphore_pend: there is a token; the call is made with BIOS_NO_WAIT or
\* waits; the wait ends.
NotWaiting(t) == t # Isr => outcome[t] = "idle"

SemTake(t, s) == NotWaiting(t) /\ Sem!Take(s)

SemWait(t, s) == t # Isr /\ \E how \in Sem!Waits : Sem!Wait(t, s, how)

SemRefuse(t, s) == NotWaiting(t) /\ avail[s] = 0 /\ UNCHANGED tokenVars

SemGranted(t) == t # Isr /\ outcome[t] = "granted" /\ Sem!Return(t)

SemTimedOut(t) == t # Isr /\ outcome[t] = "timedout" /\ Sem!Return(t)

-----------------------------------------------------------------------------
(* Mailbox_post.                                                           *)

BoxPostCall(t, m) ==
  /\ BoxAt(t, "user") /\ BoxGoto(t, "postPend")
  /\ msg' = [msg EXCEPT ![t] = m]
  /\ UNCHANGED <<tokenVars, boxVars, content, elem>>

PostPend(t) ==
  /\ BoxAt(t, "postPend")
  /\ \/ SemTake(t, "free") /\ BoxGoto(t, "dequeue") /\ UNCHANGED msg
     \/ SemGranted(t) /\ BoxGoto(t, "dequeue") /\ UNCHANGED msg
     \/ SemWait(t, "free") /\ UNCHANGED <<boxPc, msg>>
     \/ (SemRefuse(t, "free") \/ SemTimedOut(t)) /\ BoxGoto(t, "user")
          /\ msg' = [msg EXCEPT ![t] = NoMessage]
  /\ UNCHANGED <<boxVars, content, elem>>

\* Mutant of PostDequeue: the block is looked at and not taken.
PostDequeueHead(t) ==
  /\ BoxAt(t, "dequeue") /\ BoxGoto(t, "copyIn")
  /\ elem' = [elem EXCEPT ![t] = Head(freeQue)]
  /\ UNCHANGED <<tokenVars, boxVars, content, msg>>

\* The test of the code for an empty queue included.
PostDequeue(t) ==
  /\ BoxAt(t, "dequeue")
  /\ IF freeQue = <<>>
     THEN /\ BoxGoto(t, "user") /\ msg' = [msg EXCEPT ![t] = NoMessage]
          /\ UNCHANGED <<boxVars, elem>>
     ELSE /\ BoxGoto(t, "copyIn")
          /\ elem' = [elem EXCEPT ![t] = Head(freeQue)]
          /\ freeQue' = Tail(freeQue)
          /\ numFreeMsgs' = numFreeMsgs - 1
          /\ UNCHANGED <<dataQue, msg>>
  /\ UNCHANGED <<tokenVars, content>>

PostCopy(t) ==
  /\ BoxAt(t, "copyIn") /\ BoxGoto(t, "enqueue")
  /\ content' = [content EXCEPT ![elem[t]] = msg[t]]
  /\ UNCHANGED <<tokenVars, boxVars, elem, msg>>

\* Queue_enqueue and Semaphore_post in one region.
PostEnqueue(t) ==
  /\ BoxAt(t, "enqueue") /\ BoxGoto(t, "user")
  /\ dataQue' = Append(dataQue, elem[t])
  /\ Sem!Post("data")
  /\ elem' = [elem EXCEPT ![t] = NoBlock]
  /\ msg' = [msg EXCEPT ![t] = NoMessage]
  /\ UNCHANGED <<freeQue, numFreeMsgs, content>>

-----------------------------------------------------------------------------
(* Mailbox_pend.                                                           *)

PendCall(t) ==
  /\ BoxAt(t, "user") /\ BoxGoto(t, "pendPend")
  /\ UNCHANGED <<tokenVars, boxVars, content, elem, msg>>

PendPend(t) ==
  /\ BoxAt(t, "pendPend")
  /\ \/ SemTake(t, "data") /\ BoxGoto(t, "get")
     \/ SemGranted(t) /\ BoxGoto(t, "get")
     \/ SemWait(t, "data") /\ UNCHANGED boxPc
     \/ (SemRefuse(t, "data") \/ SemTimedOut(t)) /\ BoxGoto(t, "user")
  /\ UNCHANGED <<boxVars, content, elem, msg>>

\* Mutant of PendGet: the newest message first.
PendGetNewest(t) ==
  /\ BoxAt(t, "get") /\ BoxGoto(t, "copyOut")
  /\ elem' = [elem EXCEPT ![t] = IF dataQue = <<>> THEN Header ELSE Last(dataQue)]
  /\ dataQue' = IF dataQue = <<>> THEN dataQue ELSE Front(dataQue)
  /\ UNCHANGED <<tokenVars, freeQue, numFreeMsgs, content, msg>>

PendGet(t) ==
  /\ BoxAt(t, "get") /\ BoxGoto(t, "copyOut")
  /\ elem' = [elem EXCEPT ![t] = IF dataQue = <<>> THEN Header ELSE Head(dataQue)]
  /\ dataQue' = IF dataQue = <<>> THEN dataQue ELSE Tail(dataQue)
  /\ UNCHANGED <<tokenVars, freeQue, numFreeMsgs, content, msg>>

PendCopy(t) ==
  /\ BoxAt(t, "copyOut") /\ BoxGoto(t, "giveBack")
  /\ msg' = [msg EXCEPT ![t] = content[elem[t]]]
  /\ UNCHANGED <<tokenVars, boxVars, content, elem>>

\* Mutant of PendGiveBack: the block is not counted.
PendGiveBackUncounted(t) ==
  /\ BoxAt(t, "giveBack") /\ BoxGoto(t, "postFree")
  /\ freeQue' = Append(freeQue, elem[t])
  /\ elem' = [elem EXCEPT ![t] = NoBlock]
  /\ UNCHANGED <<tokenVars, dataQue, numFreeMsgs, content, msg>>

PendGiveBack(t) ==
  /\ BoxAt(t, "giveBack") /\ BoxGoto(t, "postFree")
  /\ freeQue' = Append(freeQue, elem[t])
  /\ numFreeMsgs' = numFreeMsgs + 1
  /\ elem' = [elem EXCEPT ![t] = NoBlock]
  /\ UNCHANGED <<tokenVars, dataQue, content, msg>>

\* Mutant of PendPostFree: the writers are not told.
PendPostNothing(t) ==
  /\ BoxAt(t, "postFree") /\ BoxGoto(t, "user")
  /\ msg' = [msg EXCEPT ![t] = NoMessage]
  /\ UNCHANGED <<tokenVars, boxVars, content, elem>>

PendPostFree(t) ==
  /\ BoxAt(t, "postFree") /\ BoxGoto(t, "user")
  /\ Sem!Post("free")
  /\ msg' = [msg EXCEPT ![t] = NoMessage]
  /\ UNCHANGED <<boxVars, content, elem>>

-----------------------------------------------------------------------------
\* The Clock Swi ends a timed wait.
TimeOut(t) == boxPc[Isr] = "user" /\ Sem!TimeOut(t) /\ UNCHANGED <<boxVars, content, boxPc, elem, msg>>

BoxStep(t) ==
  \/ \E m \in Messages : BoxPostCall(t, m)
  \/ PostPend(t) \/ PostDequeue(t) \/ PostCopy(t) \/ PostEnqueue(t)
  \/ PendCall(t) \/ PendPend(t) \/ PendGet(t) \/ PendCopy(t) \/ PendGiveBack(t) \/ PendPostFree(t)

BoxNext == (\E t \in Threads : BoxStep(t)) \/ \E t \in Clients : TimeOut(t)

BoxSpec == BoxInit /\ [][BoxNext]_mailboxVars

-----------------------------------------------------------------------------
(* Properties.                                                             *)

\* A block is on one queue, once, or in the hands of one thread: it is not
\* lost, and no message is overwritten while it is copied.
Places(b) == {<<"data", i>> : i \in {i \in DOMAIN dataQue : dataQue[i] = b}}
             \cup {<<"free", i>> : i \in {i \in DOMAIN freeQue : freeQue[i] = b}}
             \cup {<<"thread", t>> : t \in {t \in Threads : elem[t] = b}}

BlocksOK == \A b \in Blocks : Cardinality(Places(b)) = 1

\* The semaphores' tokens, and those granted to tasks that have yet to run,
\* are the blocks on the queues, so neither queue is found empty by a thread
\* that has a token; numFreeMsgs is the length of the free queue.  All of the
\* state keeps its type.
Granted(call, next) ==
  Cardinality({t \in Clients : boxPc[t] = call /\ outcome[t] = "granted"})
    + Cardinality({t \in Threads : boxPc[t] = next})

TokensOK ==
  /\ BoxTypeOK
  /\ Len(dataQue) = avail["data"] + Granted("pendPend", "get")
  /\ Len(freeQue) = avail["free"] + Granted("postPend", "dequeue")
                      + Cardinality({t \in Threads : boxPc[t] = "postFree"})
  /\ numFreeMsgs = Len(freeQue)

\* Readers and writers do not wait for each other: when nobody is on the way
\* through the mailbox, not both semaphores have waiters.
Settled == \A t \in Threads :
  boxPc[t] = "user" \/ (t # Isr /\ outcome[t] \in Sem!Waits)

NoStandoff == Settled => waiting["data"] = <<>> \/ waiting["free"] = <<>>

\* The mailbox is a bounded FIFO buffer: a message takes effect when its block
\* is enqueued and is received when its block is taken, whatever is copied
\* before and after.
Buffer == INSTANCE MailboxSpec
             WITH Capacity <- NumMsgs,
                  buffer   <- [i \in DOMAIN dataQue |-> content[dataQue[i]]],
                  sending  <- [t \in Threads |-> IF boxPc[t] \in PostPCs THEN msg[t] ELSE NoMessage],
                  received <- [t \in Threads |->
                                 CASE boxPc[t] = "copyOut" -> content[elem[t]]
                                   [] boxPc[t] \in {"giveBack", "postFree"} -> msg[t]
                                   [] OTHER -> NoMessage]

KeepsBuffer == Buffer!Spec
=============================================================================
