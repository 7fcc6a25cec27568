-------------------------------- MODULE Clock --------------------------------
(***************************************************************************)
(* ti.sysbios.knl.Clock in TickMode_PERIODIC: the timer interrupt counts    *)
(* ticks and posts the Clock Swi, whose work function walks the queue of    *)
(* Clock objects once for each tick it has not seen.  Tasks create, delete, *)
(* start and stop objects while the Swi does not run; Clock functions start *)
(* and stop them from within the walk; interrupts do so at any moment.      *)
(***************************************************************************)
EXTENDS Integers, SequencesExt

CONSTANTS Objects,
          TickLimit,   \* 2^32: ticks, currTimeout are UInt32
          Timeouts,    \* the timeouts objects are created with
          Periods,     \* the periods, 0 for a one-shot object
          MaxLag,      \* how many ticks the Swi falls behind
          Racing       \* interrupts touch an object while the Swi expires it

ASSUME TimeoutsAssumption ==
  /\ TickLimit \in Nat \ {0} /\ MaxLag \in Nat
  /\ Timeouts \subseteq Nat \ {0} /\ Periods \subseteq Nat
  /\ \A n \in Timeouts \cup Periods : 2 * (n + MaxLag) < TickLimit
ASSUME RacingAssumption == Racing \in BOOLEAN

VARIABLES
  ticks,        \* Clock_module->ticks
  swiCount,     \* Clock_module->swiCount
  posted,       \* the Clock Swi is posted
  clockQ,       \* Clock_module->clockQ
  active, currTimeout, timeout, period,   \* the fields of an object
  pc,           \* where the work function is, "idle" when it does not run
  compare, ticksLeft,   \* its compare and count
  elem,         \* the objects it has yet to visit for this tick
  obj,          \* the object it has found due
  found         \* the currTimeout it has read

moduleVars == <<ticks, swiCount, posted, clockQ>>
objectVars == <<active, currTimeout, timeout, period>>
workVars   == <<pc, compare, ticksLeft, elem, obj, found>>
vars       == <<moduleVars, objectVars, workVars>>

UInt32 == 0 .. TickLimit - 1

Plus(m, n)  == (m + n) % TickLimit
Minus(m, n) == (m - n) % TickLimit

TypeOK ==
  /\ ticks \in UInt32 /\ compare \in UInt32 /\ found \in UInt32
  /\ swiCount \in 0 .. MaxLag /\ ticksLeft \in 0 .. MaxLag
  /\ posted \in BOOLEAN
  /\ clockQ \in Seq(Objects) /\ elem \in Seq(Objects)
  /\ active \in [Objects -> BOOLEAN]
  /\ currTimeout \in [Objects -> UInt32]
  /\ timeout \in [Objects -> Timeouts \cup {0}]
  /\ period \in [Objects -> Periods \cup {0}]
  /\ pc \in {"idle", "begin", "walk", "expire", "call"}
  /\ obj \in SUBSET Objects

Init ==
  /\ ticks = 0 /\ swiCount = 0 /\ posted = FALSE
  /\ clockQ = <<>>
  /\ active = [o \in Objects |-> FALSE]
  /\ currTimeout = [o \in Objects |-> 0]
  /\ timeout = [o \in Objects |-> 0]
  /\ period = [o \in Objects |-> 0]
  /\ pc = "idle" /\ compare = 0 /\ ticksLeft = 0
  /\ elem = <<>> /\ obj = {} /\ found = 0

Created(o) == \E i \in DOMAIN clockQ : clockQ[i] = o

-----------------------------------------------------------------------------
(* The timer interrupt.                                                    *)

\* Mutant of Clock_doTick: the Swi is not posted while it runs.
PostWhenIdle ==
  /\ swiCount + ticksLeft < MaxLag
  /\ ticks' = Plus(ticks, 1)
  /\ IF clockQ # <<>> THEN swiCount' = swiCount + 1 /\ posted' = (posted \/ pc = "idle")
     ELSE UNCHANGED <<swiCount, posted>>
  /\ UNCHANGED <<clockQ, objectVars, workVars>>

\* Mutant of Clock_doTick: a tick that finds the Swi posted is not counted.
DoTickOnce ==
  /\ swiCount + ticksLeft < MaxLag
  /\ ticks' = Plus(ticks, 1)
  /\ IF clockQ # <<>> THEN swiCount' = 1 /\ posted' = TRUE
     ELSE UNCHANGED <<swiCount, posted>>
  /\ UNCHANGED <<clockQ, objectVars, workVars>>

Clock_doTick ==
  /\ swiCount + ticksLeft < MaxLag
  /\ ticks' = Plus(ticks, 1)
  /\ IF clockQ # <<>> THEN swiCount' = swiCount + 1 /\ posted' = TRUE
     ELSE UNCHANGED <<swiCount, posted>>
  /\ UNCHANGED <<clockQ, objectVars, workVars>>

-----------------------------------------------------------------------------
(* Objects.                                                                *)

Clock_start(o) ==
  /\ active' = [active EXCEPT ![o] = TRUE]
  /\ currTimeout' = [currTimeout EXCEPT ![o] = Plus(ticks, timeout[o])]

Clock_stop(o) ==
  /\ active' = [active EXCEPT ![o] = FALSE]
  /\ UNCHANGED currTimeout

StartOrStop(o) ==
  /\ Created(o)
  /\ Clock_start(o) \/ Clock_stop(o)
  /\ UNCHANGED <<timeout, period>>

Create(o, n, every) ==
  /\ pc = "idle" /\ ~Created(o)
  /\ clockQ' = Append(clockQ, o)
  /\ timeout' = [timeout EXCEPT ![o] = n]
  /\ period' = [period EXCEPT ![o] = every]
  /\ active' = [active EXCEPT ![o] = FALSE]
  /\ UNCHANGED <<ticks, swiCount, posted, currTimeout, workVars>>

\* Clock_Instance_finalize: the object is memory again.
Delete(o) ==
  /\ pc = "idle" /\ Created(o)
  /\ clockQ' = RemoveFirst(clockQ, o)
  /\ active' = [active EXCEPT ![o] = FALSE]
  /\ currTimeout' = [currTimeout EXCEPT ![o] = 0]
  /\ timeout' = [timeout EXCEPT ![o] = 0]
  /\ period' = [period EXCEPT ![o] = 0]
  /\ UNCHANGED <<ticks, swiCount, posted, workVars>>

TaskStartStop(o) == pc = "idle" /\ StartOrStop(o) /\ UNCHANGED <<moduleVars, workVars>>

\* By an interrupt or a Swi that preempts the Clock Swi.
Untouched(o) == pc \in {"expire", "call"} => o \notin obj

HwiStartStop(o) ==
  /\ Racing \/ Untouched(o)
  /\ StartOrStop(o)
  /\ UNCHANGED <<moduleVars, workVars>>

-----------------------------------------------------------------------------
(* Clock_workFunc.                                                         *)

\* The Swi module takes the Clock Swi off its queue and calls the function.
WorkBegin ==
  /\ pc = "idle" /\ posted
  /\ pc' = "begin" /\ posted' = FALSE
  /\ UNCHANGED <<ticks, swiCount, clockQ, objectVars, compare, ticksLeft, elem, obj, found>>

\* A tick since WorkBegin is counted here and has posted the Swi again, which
\* then finds nothing to count.
WorkCount ==
  /\ pc = "begin" /\ pc' = "walk"
  /\ compare' = Minus(ticks, swiCount)
  /\ ticksLeft' = swiCount
  /\ swiCount' = 0
  /\ UNCHANGED <<ticks, posted, clockQ, objectVars, elem, obj, found>>

WorkTick ==
  /\ pc = "walk" /\ elem = <<>> /\ ticksLeft # 0
  /\ compare' = Plus(compare, 1)
  /\ ticksLeft' = ticksLeft - 1
  /\ elem' = clockQ
  /\ UNCHANGED <<moduleVars, objectVars, pc, obj, found>>

Due(o) == active[o] /\ currTimeout[o] = compare

WorkVisit ==
  /\ pc = "walk" /\ elem # <<>>
  /\ elem' = Tail(elem)
  /\ IF Due(Head(elem))
     THEN pc' = "expire" /\ obj' = {Head(elem)} /\ found' = currTimeout[Head(elem)]
     ELSE UNCHANGED <<pc, obj, found>>
  /\ UNCHANGED <<moduleVars, objectVars, compare, ticksLeft>>

\* Mutant of WorkExpire: the next period counts from the current tick.
WorkExpireLate ==
  /\ pc = "expire" /\ pc' = "call"
  /\ \E o \in obj :
       /\ active' = [active EXCEPT ![o] = period[o] # 0]
       /\ currTimeout' = IF period[o] = 0 THEN currTimeout
                         ELSE [currTimeout EXCEPT ![o] = Plus(ticks, period[o])]
  /\ UNCHANGED <<moduleVars, timeout, period, compare, ticksLeft, elem, obj, found>>

\* The object is updated without protection: currTimeout is read again, or is
\* what was read when it was compared.
WorkExpire ==
  /\ pc = "expire" /\ pc' = "call"
  /\ \E o \in obj, base \in {found} \cup {currTimeout[q] : q \in obj} :
       IF period[o] = 0
       THEN active' = [active EXCEPT ![o] = FALSE] /\ UNCHANGED currTimeout
       ELSE currTimeout' = [currTimeout EXCEPT ![o] = Plus(base, period[o])] /\ UNCHANGED active
  /\ UNCHANGED <<moduleVars, timeout, period, compare, ticksLeft, elem, obj, found>>

\* The Clock function runs; it may start or stop an object, its own too.
WorkCall ==
  /\ pc = "call" /\ pc' = "walk"
  /\ obj' = {} /\ found' = 0
  /\ UNCHANGED objectVars \/ \E o \in Objects : StartOrStop(o)
  /\ UNCHANGED <<moduleVars, compare, ticksLeft, elem>>

WorkEnd ==
  /\ pc = "walk" /\ elem = <<>> /\ ticksLeft = 0
  /\ pc' = "idle" /\ compare' = 0
  /\ UNCHANGED <<moduleVars, objectVars, ticksLeft, elem, obj, found>>

Clock_workFunc ==
  WorkBegin \/ WorkCount \/ WorkTick \/ WorkVisit \/ WorkExpire \/ WorkCall \/ WorkEnd

-----------------------------------------------------------------------------
Next ==
  \/ Clock_doTick \/ Clock_workFunc
  \/ \E o \in Objects, n \in Timeouts, every \in Periods : Create(o, n, every)
  \/ \E o \in Objects : Delete(o) \/ TaskStartStop(o) \/ HwiStartStop(o)

Spec == Init /\ [][Next]_vars

\* A posted Swi runs, and its function goes on.
FairSpec == Spec /\ WF_vars(Clock_workFunc)

-----------------------------------------------------------------------------
(* Properties.                                                             *)

\* Ticks until an active object is due, as a signed number.
Left(o) ==
  LET d == Minus(currTimeout[o], ticks)
  IN  IF ~active[o] THEN 0 ELSE IF 2 * d < TickLimit THEN d ELSE d - TickLimit

\* The work function has yet to test the object for the tick it is at.
Ahead(o) == (\E i \in DOMAIN elem : elem[i] = o) \/ (pc = "expire" /\ o \in obj)

\* The ticks it has yet to serve the object for.
Behind(o) == swiCount + ticksLeft + (IF Ahead(o) THEN 1 ELSE 0)

\* No object is passed over: one that is due is due at a tick the work function
\* has yet to walk the queue for, however far it has fallen behind and whoever
\* started the object meanwhile.  All of the state keeps its type.
NothingMissed == TypeOK /\ \A o \in Objects : active[o] => Left(o) + Behind(o) >= 1

\* An object that falls due has its function called, unless it is stopped or
\* started again first: a tick that arrives while the Swi runs posts it again.
DueFires == \A o \in Objects :
  (active[o] /\ Left(o) <= 0)
    ~> (~active[o] \/ Left(o) > 0 \/ (pc = "call" /\ o \in obj))

\* Clock_start may be called while the queue is being served (Clock.xdc): the
\* work function leaves an object alone whose new timeout has not elapsed.
StartKept ==
  [][ \A o \in Objects :
        pc = "expire" /\ pc' = "call" /\ active[o] /\ Left(o) > 0
          => active'[o] /\ currTimeout'[o] = currTimeout[o] ]_vars

Promise == INSTANCE ClockSpec
             WITH armed <- active, left <- [o \in Objects |-> Left(o)], every <- period

\* Started objects fire after their timeout and then once per period, never
\* early; every start and stop takes effect.
KeepsPromise == Promise!Spec
=============================================================================
