--------------------------------- MODULE Swi ---------------------------------
(***************************************************************************)
(* ti.sysbios.knl.Swi: functions posted by software run to completion on   *)
(* one stack, above the tasks and below the interrupts.  The threads that  *)
(* have started and not ended form a stack: at the bottom the task level,  *)
(* which is one thread here (a task that holds the Swi scheduler is not    *)
(* switched out: Task's LockExcludesTasks), then Swis and interrupts in the *)
(* order they preempted one another.  Only the top runs.                   *)
(*                                                                         *)
(* One step is one region with interrupts disabled.  What a thread does    *)
(* between calls is arbitrary; it may hold the gates GateHwi and GateSwi,  *)
(* which are Hwi_disable/restore and Swi_disable/restore, and a GateAll.   *)
(***************************************************************************)
EXTENDS Queue, FiniteSets, SequencesExt

CONSTANTS Swis, Task, Hwi,   \* the threads
          NoSwi,             \* curSwi == NULL
          NumPri,            \* Swi_numPriorities
          InitPri, InitTrigger,
          TriggerLimit,      \* a trigger is a UInt modulo this power of two
          Uses,              \* how the application posts a Swi
          Levels,            \* the priorities it changes a Swi to
          Starts,            \* the initial triggers it changes a Swi to
          LateSetAttrs,      \* it calls setAttrs on Swis that have already run
          MaxNest,           \* interrupts nest this deep
          MayHold,           \* the gates a thread uses
          MaxHeld            \* how many it holds

Pri      == 0 .. NumPri - 1
NoQ      == -1               \* curQ == NULL
Triggers == 0 .. TriggerLimit - 1
Ways     == {"post", "inc", "dec", "or", "andn"}
Nodes    == Swis \cup Pri    \* the qElems, and the heads of readyQ[]

ASSUME SwiAssumption ==
  /\ IsFiniteSet(Swis) /\ Swis \cap Pri = {}
  /\ NumPri \in Nat \ {0} /\ TriggerLimit \in Nat \ {0}
  /\ InitPri \in [Swis -> Pri] /\ InitTrigger \in [Swis -> Triggers]
  /\ Uses \in [Swis -> SUBSET Ways]
  /\ Levels \in [Swis -> SUBSET Pri] /\ Starts \subseteq Triggers
  /\ Task # Hwi /\ {Task, Hwi, NoSwi} \cap Swis = {}

VARIABLES
  link,         \* the pointers of the nodes
  curSet,       \* Swi_module->curSet, as the set of its bits
  curQ,         \* Swi_module->curQ, as a priority
  curSwi,       \* Swi_module->curSwi
  curTrigger,   \* Swi_module->curTrigger
  locked,       \* Swi_module->locked
  pri,          \* swi->priority; names swi->mask and swi->readyQ as well
  posted,       \* swi->posted
  trigger,      \* swi->trigger
  initTrigger,  \* swi->initTrigger
  stack,        \* the threads that have started
  all           \* the GateAll object

curVars  == <<curQ, curSwi, curTrigger>>
attrVars == <<pri, initTrigger>>
swiVars  == <<link, curSet, posted, trigger, attrVars>>
vars     == <<swiVars, curVars, locked, stack, all>>

NoSaved  == [curQ |-> NoQ, curSwi |-> NoSwi, curTrigger |-> 0]
Saved    == [curQ : Pri \cup {NoQ}, curSwi : Swis \cup {NoSwi}, curTrigger : Triggers]
Held     == [gate : {"hwi", "swi", "all"}, key : BOOLEAN] \cup [gate : {"pri"}, key : Pri]

\* run: in its own code; disable: Swi_disable has read locked; post: a trigger
\* has been changed and Swi_post is to be called; schedule: before the region of
\* Swi_schedule; loop: in it, a Swi it started is above; window: an interrupt
\* that ends lets others in; lowering, lowered: in Swi_restorePri; leaving:
\* in GateAll_leave, before Hwi_restore.
PCs == {"run", "disable", "post", "schedule", "loop", "window",
       "lowering", "lowered", "leaving"}

\* key: the key of the dispatcher, or the one Swi_disable has read;
\* saved: what Swi_run keeps on its stack; intr: interrupts are enabled.
Frames == [thread : Swis \cup {Task, Hwi}, pc : PCs, key : BOOLEAN, on : Swis \cup {NoSwi},
           saved : Saved, held : Seq(Held), intr : BOOLEAN]

TypeOK ==
  /\ link \in [next : [Nodes -> Nodes], prev : [Nodes -> Nodes]]
  /\ curSet \subseteq Pri
  /\ curQ \in Pri \cup {NoQ} /\ curSwi \in Swis \cup {NoSwi} /\ curTrigger \in Triggers
  /\ locked \in BOOLEAN
  /\ pri \in [Swis -> Pri] /\ posted \in [Swis -> BOOLEAN]
  /\ trigger \in [Swis -> Triggers] /\ initTrigger \in [Swis -> Triggers]
  /\ stack \in Seq(Frames)
  /\ all \in [entered : BOOLEAN, hwiKey : BOOLEAN, swiKey : BOOLEAN]

Started(thread, key) ==
  [thread |-> thread, pc |-> "run", key |-> key, on |-> NoSwi,
   saved |-> NoSaved, held |-> <<>>, intr |-> TRUE]

Init ==
  /\ link = Cleared(Nodes)
  /\ curSet = {}
  /\ curQ = NoQ /\ curSwi = NoSwi /\ curTrigger = 0
  /\ locked = FALSE
  /\ pri = InitPri /\ posted = [s \in Swis |-> FALSE]
  /\ trigger = InitTrigger /\ initTrigger = InitTrigger
  /\ stack = <<Started(Task, FALSE)>>
  /\ all = [entered |-> FALSE, hwiKey |-> FALSE, swiKey |-> FALSE]

Top     == Last(stack)
Below   == Front(stack)
At(l)   == Top.pc = l
Becomes(f) == stack' = Append(Below, f)
Goto(l) == Becomes([Top EXCEPT !.pc = l])

Running(s) == \E i \in DOMAIN stack : stack[i].thread = s
Intrinsics_maxbit(S) == CHOOSE p \in S : \A q \in S : q <= p

-----------------------------------------------------------------------------
(* Swi_run, between the loop that calls it and the function it calls.      *)

\* Mutant of SwiRun: posted is cleared when the function has returned.
SwiRunPosted(s, threads, was) ==
  /\ curQ' = pri[s] /\ curSwi' = s /\ curTrigger' = trigger[s]
  /\ trigger' = [trigger EXCEPT ![s] = initTrigger[s]]
  /\ locked' = FALSE
  /\ stack' = Append(threads, [Started(s, FALSE) EXCEPT !.saved = was])
  /\ UNCHANGED <<posted, attrVars>>

\* The function of s starts on top of threads; was is what curQ, curSwi and
\* curTrigger are when Swi_run is called.
SwiRun(s, threads, was) ==
  /\ curQ' = pri[s] /\ curSwi' = s /\ curTrigger' = trigger[s]
  /\ trigger' = [trigger EXCEPT ![s] = initTrigger[s]]
  /\ posted' = [posted EXCEPT ![s] = FALSE]
  /\ locked' = FALSE
  /\ stack' = Append(threads, [Started(s, FALSE) EXCEPT !.saved = was])
  /\ UNCHANGED attrVars

\* The body of the loops of Swi_runLoop and Swi_restoreHwi.
RunFirst(q, threads, was) ==
  LET s == Queue_head(link, q)
  IN  /\ s \in Swis
      /\ link' = Queue_dequeue(link, q)
      /\ curSet' = IF Queue_empty(link', q) THEN curSet \ {pri[s]} ELSE curSet
      /\ SwiRun(s, threads, was)

\* The region ends in the thread that called: Swi_schedule and Swi_restore of a
\* task end with Task_restore, which enables interrupts if the task scheduler
\* was not locked; an interrupt returns.
TaskRestore(f) == {f} \cup (IF f.thread = Task THEN {[f EXCEPT !.intr = TRUE]} ELSE {})

\* It called from GateAll_leave, which has cleared entered.
LeavingAll(f) ==
  /\ f.pc \in {"schedule", "loop", "leaving"}
  /\ f.held # <<>> /\ Last(f.held) = [gate |-> "all", key |-> FALSE]

CallerGoesOn(threads) ==
  LET f == [Last(threads) EXCEPT !.pc = IF LeavingAll(Last(threads)) THEN "leaving" ELSE "run"]
  IN  IF f.thread = Hwi THEN stack' = Front(threads)
      ELSE \E g \in TaskRestore(f) : stack' = Append(Front(threads), g)

\* Mutant of Schedule: a Swi preempts one of its own priority.
ScheduleEqual(threads, was) ==
  IF curSet # {} /\ Intrinsics_maxbit(curSet) >= was.curQ
  THEN RunFirst(Intrinsics_maxbit(curSet),
                Append(Front(threads), [Last(threads) EXCEPT !.pc = "loop"]), was)
  ELSE /\ locked' = FALSE
       /\ curQ' = was.curQ /\ curSwi' = was.curSwi /\ curTrigger' = was.curTrigger
       /\ CallerGoesOn(threads)
       /\ UNCHANGED <<link, curSet, posted, trigger, attrVars>>

\* Run what is above the level of was, or unlock the scheduler and leave it.
Schedule(threads, was) ==
  IF curSet # {} /\ Intrinsics_maxbit(curSet) > was.curQ
  THEN RunFirst(Intrinsics_maxbit(curSet),
                Append(Front(threads), [Last(threads) EXCEPT !.pc = "loop"]), was)
  ELSE /\ locked' = FALSE
       /\ curQ' = was.curQ /\ curSwi' = was.curSwi /\ curTrigger' = was.curTrigger
       /\ CallerGoesOn(threads)
       /\ UNCHANGED <<link, curSet, posted, trigger, attrVars>>

Current == [curQ |-> curQ, curSwi |-> curSwi, curTrigger |-> curTrigger]

SwiSchedule == At("schedule") /\ Schedule(stack, Current)

\* The function returns: Swi_run restores what it saved, the loop goes on.
SwiReturn ==
  /\ Top.thread \in Swis /\ At("run") /\ Top.held = <<>>
  /\ Schedule(Below, Top.saved)

-----------------------------------------------------------------------------
(* Swi_post and the triggers.                                              *)

\* The region of Swi_post.
Swi_post(s) ==
  /\ \/ At("run") /\ "post" \in Uses[s]
     \/ At("post") /\ Top.on = s
  /\ IF posted[s]
     THEN /\ Becomes([Top EXCEPT !.pc = "run", !.on = NoSwi])
          /\ UNCHANGED <<link, curSet, locked, posted>>
     ELSE /\ posted' = [posted EXCEPT ![s] = TRUE]
          /\ link' = Queue_put(link, pri[s], s)
          /\ curSet' = curSet \cup {pri[s]}
          /\ locked' = TRUE
          /\ Becomes([Top EXCEPT !.pc = IF locked THEN "run" ELSE "schedule", !.on = NoSwi])
  /\ UNCHANGED <<curVars, trigger, attrVars>>

\* The trigger changes in one region, Swi_post follows in another.
SetTrigger(s, n, post) ==
  /\ trigger' = [trigger EXCEPT ![s] = n]
  /\ IF post THEN Becomes([Top EXCEPT !.pc = "post", !.on = s]) ELSE UNCHANGED stack
  /\ UNCHANGED <<link, curSet, curVars, locked, posted, attrVars>>

Bit(n, m) == (n \div m) % 2          \* m = 2^i: bit i of n
Masks     == {m \in 1 .. TriggerLimit - 1 : \E i \in 0 .. TriggerLimit : m = 2 ^ i}

\* TriggerLimit is 2^w, so a mask is one of its w bits.
ASSUME MasksAssumption == \A m \in Masks : TriggerLimit % (2 * m) = 0

Swi_inc(s) == At("run") /\ "inc" \in Uses[s] /\ SetTrigger(s, (trigger[s] + 1) % TriggerLimit, TRUE)

Swi_or(s, m) ==
  /\ At("run") /\ "or" \in Uses[s]
  /\ SetTrigger(s, trigger[s] + m * (1 - Bit(trigger[s], m)), TRUE)

\* Only the transition to 0 posts.
Swi_dec(s) ==
  /\ At("run") /\ "dec" \in Uses[s] /\ trigger[s] # 0
  /\ SetTrigger(s, trigger[s] - 1, trigger[s] = 1)

Swi_andn(s, m) ==
  LET n == trigger[s] - m * Bit(trigger[s], m)
  IN  /\ At("run") /\ "andn" \in Uses[s] /\ trigger[s] # 0
      /\ SetTrigger(s, n, n = 0)

-----------------------------------------------------------------------------
(* The gates.                                                              *)

MayEnter(gate) == gate \in MayHold[Top.thread] /\ Len(Top.held) < MaxHeld[Top.thread]
Holds(f, gate) == f.held # <<>> /\ Last(f.held).gate = gate

GateHwi_enter ==
  /\ At("run") /\ MayEnter("hwi")
  /\ Becomes([Top EXCEPT !.held = Append(@, [gate |-> "hwi", key |-> Top.intr]), !.intr = FALSE])
  /\ UNCHANGED <<swiVars, curVars, locked>>

GateHwi_leave ==
  /\ At("run") /\ Holds(Top, "hwi")
  /\ Becomes([Top EXCEPT !.held = Front(@), !.intr = Last(Top.held).key])
  /\ UNCHANGED <<swiVars, curVars, locked>>

\* Swi_disable reads locked and then writes it.  It is not for interrupts, and
\* would change nothing there.
DisableRead ==
  /\ At("run") /\ MayEnter("swi") /\ Top.thread # Hwi
  /\ Becomes([Top EXCEPT !.pc = "disable", !.key = locked])
  /\ UNCHANGED <<swiVars, curVars, locked>>

DisableWrite ==
  /\ At("disable")
  /\ locked' = TRUE
  /\ Becomes([Top EXCEPT !.pc = "run", !.key = FALSE,
                         !.held = Append(@, [gate |-> "swi", key |-> Top.key])])
  /\ UNCHANGED <<swiVars, curVars>>

\* Mutant of Swi_restore: it unlocks without a look at curSet.
RestoreBlind ==
  /\ At("run") \/ At("lowered")
  /\ Holds(Top, "swi")
  /\ locked' = (locked /\ Last(Top.held).key)
  /\ Becomes([Top EXCEPT !.held = Front(@), !.pc = "run"])
  /\ UNCHANGED <<swiVars, curVars>>

\* Mutant of Swi_restore: the inner one of two unlocks.
RestoreAlways ==
  LET f == [Top EXCEPT !.held = Front(@), !.pc = "run"]
  IN  /\ At("run") \/ At("lowered")
      /\ Holds(Top, "swi")
      /\ IF curSet # {} THEN Becomes([f EXCEPT !.pc = "schedule"]) /\ UNCHANGED locked
         ELSE locked' = FALSE /\ \E g \in TaskRestore(f) : Becomes(g)
      /\ UNCHANGED <<swiVars, curVars>>

\* Swi_restore, up to the region of the Swi_schedule it calls if a Swi is ready.
Swi_restore ==
  LET f == [Top EXCEPT !.held = Front(@), !.pc = "run"]
  IN  /\ At("run") \/ At("lowered")
      /\ Holds(Top, "swi")
      /\ IF Last(Top.held).key THEN Becomes(f) /\ UNCHANGED locked
         ELSE IF curSet # {} THEN Becomes([f EXCEPT !.pc = "schedule"]) /\ UNCHANGED locked
         ELSE locked' = FALSE /\ \E g \in TaskRestore(f) : Becomes(g)
      /\ UNCHANGED <<swiVars, curVars>>

\* A thread that finds the gate entered is the one that entered it.
GateAll_enter ==
  /\ At("run") /\ MayEnter("all")
  /\ IF all.entered
     THEN /\ Becomes([Top EXCEPT !.held = Append(@, [gate |-> "all", key |-> TRUE])])
          /\ UNCHANGED <<locked, all>>
     ELSE /\ Becomes([Top EXCEPT !.held = Append(@, [gate |-> "all", key |-> FALSE]), !.intr = FALSE])
          /\ all' = [entered |-> TRUE, hwiKey |-> Top.intr, swiKey |-> locked]
          /\ locked' = TRUE
  /\ UNCHANGED <<swiVars, curVars>>

\* Mutant of GateAll_leave: entered is cleared by an inner leave only.
LeaveEntered ==
  /\ At("run") /\ Holds(Top, "all")
  /\ IF Last(Top.held).key
     THEN /\ Becomes([Top EXCEPT !.held = Front(@)])
          /\ all' = [all EXCEPT !.entered = FALSE] /\ UNCHANGED locked
     ELSE /\ UNCHANGED all
          /\ IF all.swiKey THEN Goto("leaving") /\ UNCHANGED locked
             ELSE IF curSet # {} THEN Goto("schedule") /\ UNCHANGED locked
             ELSE /\ locked' = FALSE
                  /\ \E g \in TaskRestore([Top EXCEPT !.pc = "leaving"]) : Becomes(g)
  /\ UNCHANGED <<swiVars, curVars>>

\* GateAll_leave, up to the region of the Swi_schedule that Swi_restore calls.
GateAll_leave ==
  /\ At("run") /\ Holds(Top, "all")
  /\ IF Last(Top.held).key
     THEN Becomes([Top EXCEPT !.held = Front(@)]) /\ UNCHANGED <<locked, all>>
     ELSE /\ all' = [all EXCEPT !.entered = FALSE]
          /\ IF all.swiKey THEN Goto("leaving") /\ UNCHANGED locked
             ELSE IF curSet # {} THEN Goto("schedule") /\ UNCHANGED locked
             ELSE /\ locked' = FALSE
                  /\ \E g \in TaskRestore([Top EXCEPT !.pc = "leaving"]) : Becomes(g)
  /\ UNCHANGED <<swiVars, curVars>>

\* Hwi_restore of the key that is in the object by now.
GateAll_left ==
  /\ At("leaving")
  /\ Becomes([Top EXCEPT !.pc = "run", !.held = Front(@), !.intr = all.hwiKey])
  /\ UNCHANGED <<swiVars, curVars, locked, all>>

\* Swi_raisePri, by a Swi; the key is its own priority.
Swi_raisePri(p) ==
  /\ At("run") /\ Top.thread \in Swis /\ MayEnter("pri")
  /\ \A i \in DOMAIN Top.held : Top.held[i].gate # "pri"
  /\ curQ' = IF p > curQ THEN p ELSE curQ
  /\ Becomes([Top EXCEPT !.held = Append(@, [gate |-> "pri", key |-> pri[curSwi]])])
  /\ UNCHANGED <<swiVars, curSwi, curTrigger, locked>>

\* Swi_restorePri: a Swi_disable, the write of curQ while the scheduler is
\* locked, and a Swi_restore.
LowerRead ==
  /\ At("run") /\ Holds(Top, "pri")
  /\ Becomes([Top EXCEPT !.pc = "lowering", !.key = locked])
  /\ UNCHANGED <<swiVars, curVars, locked>>

LowerWrite ==
  /\ At("lowering")
  /\ locked' = TRUE
  /\ curQ' = Last(Top.held).key
  /\ Becomes([Top EXCEPT !.pc = "lowered", !.key = FALSE,
                         !.held = Append(Front(@), [gate |-> "swi", key |-> Top.key])])
  /\ UNCHANGED <<swiVars, curSwi, curTrigger>>

-----------------------------------------------------------------------------
(* The attributes of a Swi that is neither ready nor preempted, nor runs.  *)

AtRest(s) == ~posted[s] /\ ~Running(s)

Swi_setPri(s, p) ==
  /\ At("run") /\ AtRest(s) /\ p # pri[s]
  /\ pri' = [pri EXCEPT ![s] = p]
  /\ UNCHANGED <<link, curSet, curVars, locked, posted, trigger, initTrigger, stack>>

Swi_setAttrs(s, p, n) ==
  /\ At("run") /\ AtRest(s)
  /\ LateSetAttrs \/ ~Queue_isQueued(link, s)
  /\ link' = Queue_remove(link, s)
  /\ posted' = [posted EXCEPT ![s] = FALSE]
  /\ pri' = [pri EXCEPT ![s] = p]
  /\ trigger' = [trigger EXCEPT ![s] = n]
  /\ initTrigger' = [initTrigger EXCEPT ![s] = n]
  /\ UNCHANGED <<curSet, curVars, locked, stack>>

-----------------------------------------------------------------------------
(* The interrupt dispatcher, as it uses the module.                        *)

Nested == Cardinality({i \in DOMAIN stack : stack[i].thread = Hwi})

HwiEnter ==
  /\ Top.intr /\ Nested < MaxNest
  /\ stack' = Append(stack, Started(Hwi, locked))
  /\ locked' = TRUE
  /\ UNCHANGED <<swiVars, curVars>>

\* Swi_restoreHwi, up to its window.
HwiReturn ==
  /\ Top.thread = Hwi /\ At("run") /\ Top.held = <<>>
  /\ CASE Top.key -> stack' = Below /\ UNCHANGED locked
       [] ~Top.key /\ curSet # {} -> Goto("window") /\ UNCHANGED locked
       [] OTHER -> stack' = Below /\ locked' = FALSE
  /\ UNCHANGED <<swiVars, curVars>>

Swi_restoreHwi == At("window") /\ Schedule(stack, Current)

-----------------------------------------------------------------------------
Call ==
  \/ \E s \in Swis :
       \/ Swi_post(s) \/ Swi_inc(s) \/ Swi_dec(s)
       \/ \E m \in Masks : Swi_or(s, m) \/ Swi_andn(s, m)
       \/ \E p \in Levels[s] : Swi_setPri(s, p) \/ \E n \in Starts : Swi_setAttrs(s, p, n)
  \/ GateHwi_enter \/ DisableRead
  \/ \E p \in Pri : Swi_raisePri(p)

Leave == GateHwi_leave \/ Swi_restore \/ LowerRead

Step ==
  \/ Call \/ Leave \/ DisableWrite \/ LowerWrite
  \/ SwiSchedule \/ SwiReturn
  \/ HwiEnter \/ HwiReturn \/ Swi_restoreHwi

GateAll == GateAll_enter \/ GateAll_leave \/ GateAll_left

Next == GateAll \/ (Step /\ UNCHANGED all)

Spec == Init /\ [][Next]_vars

-----------------------------------------------------------------------------
(* Properties.                                                             *)

Elements(p) == Walk(link, p, Cardinality(Swis))

\* A posted Swi is on the ready list of its priority, once, and nothing else
\* is; the lists are well linked both ways; curSet has the bits of the lists
\* that are not empty.  (Swi_post, Swi_runLoop and Swi_setAttrs keep posted,
\* the list and the bit together.)  All of the state keeps its type.
ReadyListsOK ==
  /\ TypeOK
  /\ \A p \in Pri :
       LET list == Elements(p)
       IN  /\ IsQueue(link, p, list)
           /\ \A i, j \in DOMAIN list : list[i] = list[j] => i = j
           /\ {list[i] : i \in DOMAIN list} = {s \in Swis : posted[s] /\ pri[s] = p}
           /\ p \in curSet <=> list # <<>>

\* Whenever the scheduler is unlocked, no posted Swi is above the level of the
\* thread that runs: what came while it was locked has been served.
NoneAbove == ~locked => \A p \in curSet : p <= curQ

\* locked, in the thread that runs, says whether that thread is inside the
\* scheduler, holds GateSwi or is an interrupt; a thread that was interrupted
\* finds it as it left it, because the key of the interrupt says the same.
Gates(f) == IF LeavingAll(f) THEN Front(f.held) ELSE f.held

HoldsSwi(f) == \E i \in DOMAIN Gates(f) : f.held[i].gate \in {"swi", "all"}

Locks(f) == f.thread = Hwi \/ HoldsSwi(f) \/ f.pc = "schedule"

LockBalance ==
  /\ locked <=> Locks(Top)
  /\ \A i \in DOMAIN stack : LET f == stack[i] IN
       /\ f.pc \in {"disable", "lowering"} => (f.key <=> Locks(f))
       /\ f.thread = Hwi => (f.key <=> Locks(stack[i - 1]))
       /\ \A j \in DOMAIN f.held : f.held[j].gate = "swi" =>
            (f.held[j].key <=> \E k \in 1 .. j - 1 : f.held[k].gate \in {"swi", "all"})

\* Exclusion by GateSwi, no Swi starts above a thread that holds it, and by
\* GateAll, of everything.
GatesExclusive ==
  /\ \A i \in DOMAIN stack : HoldsSwi(stack[i]) =>
       \A j \in i + 1 .. Len(stack) : stack[j].thread \notin Swis
  /\ all.entered => locked /\ ~Top.intr

\* Exclusion by GateHwi: "Such a gate guarantees exclusive access to the CPU"
\* (GateHwi.xdc:44), as long as its owner does not start Swis itself.
HoldsHwi(f) == \E i \in DOMAIN f.held : f.held[i].gate = "hwi"

GateHwiExclusive ==
  HoldsHwi(Top) /\ At("run") => ~Top.intr

\* The promise, with the ready lists as sequences and the threads as the Swis
\* that have started.
StartedSwis(threads) ==
  LET f[n \in 0 .. Len(threads)] ==
        IF n = 0 THEN <<>>
        ELSE IF threads[n].thread \in Swis THEN Append(f[n - 1], threads[n]) ELSE f[n - 1]
  IN  f[Len(threads)]

ActiveSwis ==
  LET frames == StartedSwis(stack)
  IN  [i \in DOMAIN frames |->
         [swi |-> frames[i].thread,
          trigger |-> IF i = Len(frames) THEN curTrigger ELSE frames[i + 1].saved.curTrigger]]

Promise == INSTANCE SwiSpec
             WITH Pris <- Pri, queue <- [p \in Pri |-> Elements(p)], active <- ActiveSwis,
                  count <- trigger, initial <- initTrigger, prio <- pri

KeepsPromise == Promise!Spec
=============================================================================
