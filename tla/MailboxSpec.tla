----------------------------- MODULE MailboxSpec -----------------------------
(***************************************************************************)
(* What ti.sysbios.knl.Mailbox promises: a bounded buffer of messages.  A  *)
(* message posted arrives unchanged, once, in the order of the posts.      *)
(***************************************************************************)
EXTENDS Naturals, Sequences

CONSTANTS Threads, Messages, Capacity, NoMessage

VARIABLES
  buffer,     \* the messages in the mailbox
  sending,    \* the message of a post that has yet to take effect
  received    \* the message of a pend that has taken effect

specVars == <<buffer, sending, received>>

Init ==
  /\ buffer = <<>>
  /\ sending = [t \in Threads |-> NoMessage]
  /\ received = [t \in Threads |-> NoMessage]

Begin(t, m) ==
  /\ sending[t] = NoMessage /\ sending' = [sending EXCEPT ![t] = m]
  /\ UNCHANGED <<buffer, received>>

Send(t) ==
  /\ sending[t] # NoMessage /\ Len(buffer) < Capacity
  /\ buffer' = Append(buffer, sending[t])
  /\ sending' = [sending EXCEPT ![t] = NoMessage]
  /\ UNCHANGED received

\* post returns FALSE.
GiveUp(t) ==
  /\ sending' = [sending EXCEPT ![t] = NoMessage]
  /\ UNCHANGED <<buffer, received>>

Receive(t) ==
  /\ received[t] = NoMessage /\ buffer # <<>>
  /\ received' = [received EXCEPT ![t] = Head(buffer)]
  /\ buffer' = Tail(buffer)
  /\ UNCHANGED sending

\* pend returns TRUE to a caller that has the message.
Deliver(t) ==
  /\ received' = [received EXCEPT ![t] = NoMessage]
  /\ UNCHANGED <<buffer, sending>>

Next ==
  \E t \in Threads :
    \/ Send(t) \/ GiveUp(t) \/ Receive(t) \/ Deliver(t)
    \/ \E m \in Messages : Begin(t, m)

Spec == Init /\ [][Next]_specVars
=============================================================================
