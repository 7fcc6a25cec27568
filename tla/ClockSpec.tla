------------------------------ MODULE ClockSpec ------------------------------
(***************************************************************************)
(* What ti.sysbios.knl.Clock promises (Clock.xdc): an object that is        *)
(* started fires once its timeout has elapsed, and then once per period;   *)
(* it never fires early, and starting or stopping it takes effect.         *)
(***************************************************************************)
EXTENDS Integers

CONSTANTS Objects, Timeouts, Periods

VARIABLES
  armed,    \* the object has been started and has yet to fire
  left,     \* ticks until it is due, zero or less when it is due
  every     \* its period, 0 when it is one-shot

specVars == <<armed, left, every>>

Init ==
  /\ armed = [o \in Objects |-> FALSE]
  /\ left = [o \in Objects |-> 0]
  /\ every = [o \in Objects |-> 0]

Tick ==
  /\ left' = [o \in Objects |-> IF armed[o] THEN left[o] - 1 ELSE 0]
  /\ UNCHANGED <<armed, every>>

Start(o, n) ==
  /\ armed' = [armed EXCEPT ![o] = TRUE]
  /\ left' = [left EXCEPT ![o] = n]
  /\ UNCHANGED every

Stop(o) ==
  /\ armed' = [armed EXCEPT ![o] = FALSE]
  /\ left' = [left EXCEPT ![o] = 0]
  /\ UNCHANGED every

Create(o, n) ==
  /\ ~armed[o]
  /\ every' = [every EXCEPT ![o] = n]
  /\ UNCHANGED <<armed, left>>

Delete(o) ==
  /\ armed' = [armed EXCEPT ![o] = FALSE]
  /\ left' = [left EXCEPT ![o] = 0]
  /\ every' = [every EXCEPT ![o] = 0]

Fire(o) ==
  /\ armed[o] /\ left[o] <= 0
  /\ armed' = [armed EXCEPT ![o] = every[o] # 0]
  /\ left' = [left EXCEPT ![o] = IF every[o] = 0 THEN 0 ELSE @ + every[o]]
  /\ UNCHANGED every

Next ==
  \/ Tick
  \/ \E o \in Objects :
       \/ Stop(o) \/ Fire(o) \/ Delete(o)
       \/ \E n \in Timeouts : Start(o, n)
       \/ \E n \in Periods : Create(o, n)

Spec == Init /\ [][Next]_specVars
=============================================================================
