# SYS/BIOS kernel: TLA+ models, checks and proofs

This project models the core of TI-RTOS SYS/BIOS (`src/packages/ti/sysbios`): the preemptive
task scheduler and the services built on it. TLC checks the models on small instances; TLAPS
proves the invariants of the scheduler, of semaphores, Event objects, priority-inheriting gates, mailboxes, Clock, Swis, read-write
locks and barriers, and the linked lists they rest on, for every instance. The C code is the reference: each
definition that stands for code is tied to its lines in `PROJECT.json` ("map").

    tlc -workers 2 -config MCTask.cfg MCTask.tla        # one run; the others are listed below
    tlapm TaskProofs.tla                                # a proof module; the others are listed below

## 1. Inventory

SYS/BIOS runs on one processor: tasks (threads with priorities), Swis (run-to-completion
interrupts posted by software) and Hwis (hardware interrupts). Code is protected in three
ways, and everything hard about the kernel comes from where each is in force: `Hwi_disable`
(nothing else runs), `Swi_disable` (no Swi, no task switch), `Task_disable` (no task switch,
interrupts come).

| Part | State | Operations | Interacts with | Hard because | Correct when |
|---|---|---|---|---|---|
| **Task** `knl/Task.c` | ready lists, `curSet` bits, `curQ`, `curTask`, `workFlag`, `locked`; per task mode, priority, `pendElem` | create, delete, exit, sleep, yield, setPri, disable/restore, block/unblock, schedule | every blocking service calls block/unblock; the interrupt dispatcher brackets every interrupt with disable/restoreHwi; Clock calls the sleep timeout | `Task_disable` is a non-atomic read and write; Task_schedule opens interrupts between its choice and the swap; calls come from interrupts while a task is half way through one | the highest ready task runs; equals in turn; lists, bits and modes agree; lock and keys balance |
| **Semaphore** `knl/Semaphore.c` | count, waiting list, `pendState` and Clock object on each waiter's stack | pend (no wait, timed, forever), post, reset, timeout | Task, Clock, Event | a timeout races a post; waiters are deleted; posts come from interrupts | a token is counted or handed over, exactly once; a wait ends once, with the right result |
| **GateMutexPri** `gates/GateMutexPri.c` | count, owner, owner's priority, sorted waiting list | enter, leave | Task_setPri, block/unblock | priorities move while tasks wait and while the gate is handed over | exclusion; the owner has at least the waiters' priorities; what was lent is returned |
| **Event** `knl/Event.c` | posted bits, one pender | pend (AND/OR), post, sync, timeout | Task, Clock, Semaphore, Mailbox | post between check and block; a semaphore counts a token in one region and announces it in another | the reader never sleeps through what it waits for; a bit means a token |
| **Mailbox** `knl/Mailbox.c` | two semaphores, free and data queues, block count | pend, post | Semaphore, Event | a block and its token move in different regions, the copy in none | a bounded FIFO; no block lost or shared |
| **Clock** `knl/Clock.c` | tick count, ticks to serve, queue of objects | tick, start, stop, create, delete, dynamic ticks | timers, Swi, all timeouts | objects change while the queue is walked, by ticks one by one; the Swi falls behind; the count wraps | each object fires on its tick, once per period, none is passed over |
| **Swi** `knl/Swi.c` | ready lists by priority, `curSet`, `curQ`, `curSwi`, `locked`; per Swi posted flag, trigger, priority | post, inc, dec, or, andn, disable/restore, raise/restorePri, setPri, setAttrs, run | the dispatcher brackets every interrupt with disable/restoreHwi; ends in Task_restore | Swis nest on one stack and post, lock and raise one another while interrupts come at every step; counts and posts are separate regions | each post is served once, highest first, in order; none waits while the scheduler is unlocked |
| **GateHwi, GateSwi, GateAll, GateTask** | a key each; `entered` and keys of GateAll | enter, leave | the three locks | nesting; keys kept in the object | exclusion |
| **Queue** `knl/Queue.c` | next and prev of each element | put, get, insert, remove, ... | every list of the kernel | dequeued elements keep their pointers; remove trusts them | a list is a sequence |
| **pthread_rwlock** `posix/tirtos` | two semaphores, readers active and blocked, owner | rdlock, wrlock, timed and try variants, unlock | Semaphore, Task_disable | woken readers race writers for the lock and may lose; time limits | many readers or one writer; no one waits for a wake-up already spent |
| **pthread_mutex** `posix/tirtos` | a semaphore, owner, lock count, ceiling, waiting list | lock (plain, timed, try), unlock, setprioceiling, pthread_setschedparam | Semaphore, Task_setPri, Task_disable | priorities are lent along chains of mutexes, and taken back when a wait times out | one owner; its priority is its own, its ceilings and its waiters' |
| **pthread_cond** | a list of elements on the waiters' stacks, a semaphore each | wait, timedwait, signal, broadcast | Queue, Semaphore, mutex | a waiter that times out meets a signal | no wake-up lost, no stale element |
| **pthread_barrier** | count, a semaphore | wait | Semaphore | a fast thread comes again before the slow ones have waited | all of a round go on (not so with a count of 2, see section 3); no token lost or left over |
| **pthread** life `pthread.c` | detached, joinThread, joinSem, list of terminated threads | create, exit, join, detach, cancel, setcancelstate, the Idle function | Semaphore, Task_delete | exit, join, detach and cancel meet half way | freed once, and freed |
| pthread_once, keys, POSIX semaphores, message queues, timers | | | Semaphore, Mailbox, Clock | | |
| GateMutex | a semaphore | enter, leave | Semaphore | nesting | exclusion |
| HeapBuf, HeapMem, HeapMultiBuf | free lists | alloc, free | gates | out of memory, coalescing | blocks disjoint, nothing lost |
| SMP variants, GateSpinlock | per core scheduler state | as Task, Swi | inter-core interrupts | several cores | as Task, Swi |
| GIO/DEV, Syncs, Load, hal, timers, families | driver queues, registers, statistics | | | | |

`PROJECT.json` lists the hazards of this code at the lines where they bite, with the
properties that watch over them.

## 2. Modules

| Module | What it is |
|---|---|
| `TaskKernel` | the scheduler's state and primitives, Task_schedule, the interrupt dispatcher |
| `Task` | the whole Task API used by an arbitrary application, with interrupts; properties, inductive invariant |
| `KernelCalls` | the shape of a service call: Task_disable, region, Task_restore |
| `SemaphoreSpec` | what a semaphore promises, without scheduler |
| `Semaphore` | `Semaphore.c` on the scheduler; implements SemaphoreSpec |
| `GateMutexPri` | `GateMutexPri.c` on the scheduler |
| `Event` | `Event.c` on the scheduler, with the semaphores coupled to the Event object (extends `Semaphore`) |
| `MailboxSpec` | what a mailbox promises: a bounded FIFO buffer |
| `Mailbox` | `Mailbox.c` over two semaphores of `SemaphoreSpec`; implements MailboxSpec |
| `ClockSpec` | what Clock promises: a count-down per object |
| `Clock` | `Clock.c`, TickMode_PERIODIC; implements ClockSpec |
| `Queue` | `Queue.c` on pointers, and which sequence a list holds |
| `SwiSpec` | what Swi promises: posted once, run once, highest first, in order, with the configured trigger back at each start |
| `Swi` | `Swi.c` on the pointers of `Queue`, with GateHwi, GateSwi and GateAll; implements SwiSpec |
| `Rwlock` | `pthread_rwlock.c` over two semaphores of `SemaphoreSpec` |
| `PthreadMutex` | `pthread_mutex.c` with the priority protocols, and pthread_setschedparam, over `SemaphoreSpec` |
| `PthreadCond` | `pthread_cond.c` on the pointers of `Queue` and a semaphore for each waiter |
| `PthreadBarrier` | `pthread_barrier.c` over `SemaphoreSpec` |
| `PthreadLife` | `pthread.c`: threads from creation to their deletion, joinSem as `SemaphoreSpec` |
| `PosixSync` | a lock, a condition variable or a barrier: instances of the three POSIX modules in which threads wait for each other, one of which is in use |
| `PosixThreads` | mutexes or the lives of threads: instances of the two POSIX modules about threads themselves, one of which is looked at |
| `MCTask`, `MCSemaphore`, `MCGateMutexPri`, `MCRwlock`, `MCPthreadMutex`, `MCClock`, `MCSwi` | instances for TLC |
| `MCServices` | Event, Mailbox, PosixSync and PosixThreads, one of which is in use |
| `KernelProofs`, `TaskProofs` | proofs about `TaskKernel`, for every module that extends it, and about `Task` |
| `SemaphoreProofs` | proofs about `Semaphore`, its refinement of SemaphoreSpec among them, and about `Event` |
| `GateMutexPriProofs` | proofs about `GateMutexPri` on the scheduler |
| `ServicesProofs` | proofs about `Rwlock`, `PthreadBarrier` and `PthreadCond`, as instances of `PosixSync` |
| `ClockThreadsProofs` | proofs about `Clock`, its refinement of ClockSpec among them; and, independent of these, about `PthreadMutex` and `PthreadLife`, as instances of `PosixThreads` |
| `QueueProofs` | proofs about `Queue`, and about the waiting lists of `SemaphoreSpec` |
| `SwiMailboxProofs` | proofs about `Swi` on the pointers of `Queue`, its refinement of SwiSpec among them; and, independent of these, about `Mailbox`, its refinement of MailboxSpec among them |

`TaskKernel` is extended by `Task` and, through `KernelCalls`, by `Semaphore` and
`GateMutexPri`, so these services are checked on the real scheduler and not on an idealised one;
`Event` extends `Semaphore`. `Semaphore` implements `SemaphoreSpec`, on which `Mailbox` and the POSIX
modules are built in turn. `Clock` stands by itself: it runs in a Swi, which no task interleaves with. `Swi`
has the pointers of its lists; `Task`, `Semaphore` and `Mailbox` have sequences, which `QueueProofs`
justifies: they never remove an element that is not on a list.
Operators named `...Quietly`, `...Always`, and others whose comment begins with "Mutant of",
are deliberately wrong variants. No specification uses them; `PROJECT.json` ("mutants") pairs
each with the property that TLC finds violated when it takes the place of the right one.

### How the code becomes actions

One action is one region the code runs with interrupts disabled; between two actions an
interrupt may come. `Task_disable`, whose comment (`Task.c:354-369`) argues that its
read-modify-write need not be atomic, is two actions: `Call` reads the key, `Lock` writes the
lock. A call of a service is then `Call`, `Lock`, a region (`YieldRegion`, `SetPriRegion`,
`PostRegion`, ...) and `Restore`. `pc[t]` says where task `t` is in its call, `op[t]` which call
it is, `key[t]` the `tskKey` on its stack. Blocking calls take the lock inside their region
(`SleepRegion`, `PendBlock`) and continue at "wake".

Scheduler state corresponds one to one: `readyQ` (with `inactiveQ` at level -1), `curSet` as the
set of its bits, `curQ`, `curTask`, `workFlag`, `locked`. `running` is the task whose context is
loaded: it differs from `curTask` between the choice in Task_schedule and the swap. `phase` is
where Task_schedule is: "pick" (body, interrupts off), "stall" (Task_allBlockedFunction,
interrupts on), "switch" (the window at `Task.c:123-153`). The window is always open in the
model; builds that leave it closed have fewer behaviours. Sleep and pend have
a Clock object each, as the sleeper sees it: armed, being served, expired.

Interrupts: `HwiEnter` is the dispatcher's TASK_DISABLE, `HwiExit` its TASK_RESTORE. In
between, any number of operations of ISRs and of the Swis they post happen, each atomic. Nested
interrupts find the scheduler locked, so one level of nesting stands for all. In `Semaphore` a
timeout is served in two steps, so that a nested interrupt's post can come between the decision
of the Clock Swi and `Semaphore_pendTimeout`.

`Event` refines each action of `Semaphore` with what it does to the Event object: `Event_sync` in
every pend that takes a token or wakes and in reset, `Event_post` in a second region of post
("announce", and `hwiOwes` for interrupts, so that nested ones come in between). The bits are a
set of ids; a semaphore is its own id. The reader obeys the documented use: one task pends on the
object, answers an event of a semaphore with a Semaphore_pend (`got`, `Answered`) before it
pends on the object again, and does not wait on the semaphores.

`Mailbox`: `pc[t]` is where a thread is between two regions, `elem` its block, `msg` its buffer.
A post is PostPend (Semaphore_pend on freeSem), PostDequeue, PostCopy, PostEnqueue (which the
code makes one with the Semaphore_post); a pend is PendPend, PendGet, PendCopy, PendGiveBack,
PendPostFree. Tasks interleave at every step; an interrupt runs to its end. Scheduling is left out: any
task may run next, which includes what the scheduler does.

`Clock`: `Clock_doTick` is the timer interrupt. The work function is at `pc`: "begin" (called, swiCount not
yet read), "walk" (between objects), "expire" (object found due, not yet updated), "call" (updated,
its function about to run). `elem` is the rest of the queue for this tick. Tasks act
while the Swi is idle, Clock functions at "call", interrupts and higher Swis at any time; constant `Racing`
says whether these also touch the very object that is being expired.

`Swi`: the state is a stack of threads, since Swis and interrupts run on one: the task level at the bottom,
each thread above preempted the one below, and only the top runs. A thread's frame has where
it is in its call (`pc`), the keys it holds (`held`) and what Swi_run keeps in local variables (`saved`).
Every region with interrupts disabled is a step; Swi_disable's read and write of `locked`, the
count and the post of Swi_inc, and the three parts of Swi_restorePri are steps of their own. What threads do between calls
is free; a Swi is posted in the ways `Uses` gives. The task level is one thread: a task that
holds the Swi scheduler is not switched out (LockExcludesTasks of `Task`).

`Rwlock`: a region of Task_disable is one step here, since neither interrupts nor the Clock Swi use the lock
and a timeout in such a region could as well have come before it. Time limits are the timed
waits of SemaphoreSpec, which end at any moment.

The other POSIX modules follow it: what runs under Task_disable is one step (but for one loop of the mutexes, below), each Semaphore_pend is the step, or
steps, of SemaphoreSpec, and `pc[t]` or `call[t]` says where a thread is in between. `PthreadMutex` keeps priorities: a thread that
is inside a call and not blocked is passed over only by threads of no lower priority (`Runs`). That is
weaker than the scheduler (threads in their own code may be blocked there on something else) and enough to
let the owner be delayed anywhere. `Raised` and resetInheritPriority are the two loops along the chain owner,
blockedMutex, owner. The first stops at an owner that runs as high as the caller, and so on a cycle; it is a fold. The second
(`pthread_mutex.c:863-888`) has no such end, so each of its turns is a step of its own, in which no other thread runs (`Walks`) though
time limits may run out; on a cycle the thread stays in it for ever, with the scheduler locked. What pthread_mutex_setprioceiling
does between its lock and its unlock is not under Task_disable: the write of the ceiling, the read of the thread's priority and the
setting of it (`pthread_mutex.c:416`, 423, 425) are three steps, with anything in between.
`Own`, `Taken` and `TimedOut` are the ends of acquireMutex. Calls that return an error at once change nothing and
are no actions. `PthreadCond` has a thread's element as a node of `Queue`; a broadcast is a fold of the dequeues.
`PthreadLife` has the reads of `detached` outside the lock (`pthread.c:259`, 430) as steps of their own.

A task may leave any gate it is in (`LeaveCall`): nothing in `GateMutexPri.c` or `GateMutexPri.xdc` asks for the last one entered. Of the
enters of one gate it undoes the last first, since each key belongs to its own enter and only the first enter's key lets the gate go. An
application with `nests` leaves its gates last entered first, as nested calls do, and PriorityReturned is stated of these; section 3 says
what happens in the others.

The application is arbitrary within the documented rules of `Task.xdc`: a task sleeps, pends
and exits only with both schedulers enabled (the code asserts it), nobody deletes a running,
exiting or, with deleteTerminatedTasks, terminated task, nobody sets the priority of a
terminated one, and two tasks do not create or delete the same object at once. All initial
tasks are taken to be created by main() (dynamically), so that terminated ones may be reaped.

## 3. Runs

| Run | Instance | What it shows | Distinct states |
|---|---|---|---|
| `task` | 3 tasks at two levels: one sets priorities, yields and locks; one creates, deletes, reaps and holds the Swi lock; one sleeps and exits; interrupts expire sleeps, yield and bring tasks back; FairSpec | IInv, the invariant of the proofs; RunningIsHighest, LockBalance, ReadyListsOK, SleepClockOK, TerminatedQOK, FirstComeFirstServed, LockExcludesTasks, HighestRuns | 105,070 |
| `semaphore` | 3 tasks at levels 0, 1, 1; a binary FIFO semaphore; interrupts set any task's priority to 0; FairSpec | WaitersOK, KeepsPromise (refinement of SemaphoreSpec), TimedWaitEnds | 148,122 |
| `gatemutexpri` | Low, Med, High, tasks block inside; an application with one gate each at a time, one with two gates nested two deep, entered in either order and left last entered first, or one in which Low and High use two gates and leave them in any order; FairSpec | MutualExclusion, PriorityReturned (where gates are left last entered first), GateQueueSorted, SimpleInheritance, TopGetsGate | 232,283 |
| `gatemutexpri_nested` | two gates | *violation* of Inheritance, see below | |
| `services` | a mailbox of 2 blocks with 3 tasks and an interrupt; or an Event object with one explicit event and a coupled counting semaphore in priority order, tasks below and above the reader, AND and OR masks, a counter that wraps at 3; or 3 threads on a read-write lock, on mutexes, on a condition variable; or 4 threads at a barrier for 3; or 3 threads that create, join, detach and cancel each other | BlocksOK, TokensOK, NoStandoff, KeepsBuffer (refinement of MailboxSpec); NoMissedEvent, NoUnseenToken, EventResultOK, PriorityOrder; RwExclusion, ReadersWoken; MutexExclusion, MutexPriority; NoLostWaiter; BarrierTokens; ThreadsFreed | 1,619,550 |
| `mutex_inherit` | 3 threads nest two PRIO_INHERIT mutexes | *violation* of Inheritance, see below | |
| `rwlock_assert` | the read-write lock | *violation* of NoneBlocked, see below | |
| `clock` | 2 objects, timeout 2, one-shot or period 1; ticks wrap at 9; up to 2 ticks behind; FairSpec | NothingMissed, KeepsPromise (refinement of ClockSpec), DueFires | 392,382 |
| `clock_race` | the same with Racing | *violation* of StartKept, see below | |
| `swi` | 3 Swis on 2 levels, posted in all ways, one changes its level; a task and Swis that hold the gates and raise their priority; interrupts | ReadyListsOK, NoneAbove, LockBalance, GatesExclusive, KeepsPromise (refinement of SwiSpec) | 584,022 |
| `swi_setattrs` | the same with Swi_setAttrs of Swis that have run | *violation* of ReadyListsOK, see below | |
| `swi_interrupts` | the same as `swi` | *violation* of GateHwiExclusive, see below | |

**Bounds.** Three tasks on two levels are the least with both preemption and a turn to keep
among equals, with one task left to interfere; the third level is the top of a priority
donation. All properties speak of at most two tasks and what happens between them. `CountLimit`
= 3 stands for 2^16, so that the wrap of `sem->count` happens. `MaxHeld` = 2 lets a task nest an
enter. `TickLimit` = 9 stands for 2^32: the least that tells a due time ahead from one behind
(`TimeoutsAssumption`), so the count wraps all the time. `MaxLag` = 2 ticks are enough for the
Swi to serve a past tick while another waits; period 1 is then due again before the walk is over.
Two blocks and three tasks let a mailbox be full and empty with a thread in every step. In `Rwlock`, a semaphore counts
below 4: tokens of `readSem` that nobody takes pile up with every unlock of a writer while a reader that has
timed out is still counted, and an unlock that would exceed the bound is not taken. In `Swi`, two levels give a Swi that
is preempted, one that preempts and an equal of either; interrupts nest `MaxNest` = 1 deep, since
a second one finds `locked` set as the first one does; a trigger has one bit (`TriggerLimit` = 2), the least
that counts down to 0 and wraps. The mutexes (two INHERIT, a
PROTECT, a NONE; every type among them) are used by one of five applications: one at a time, a chain of two, two nested in
either order, a recursive one whose ceiling is set, and with pthread_setschedparam; three priorities make one waiter higher than another.
Threads on the condition variable use time limits with signals only, as the broadcast is known to go wrong with them
(below). At the barrier the fourth thread lets a round begin while the last one is still leaving. In `PthreadLife` two threads join,
detach themselves and one cancels one that may switch cancellation off; what is known to go wrong is left out. Threads may
wait for each other's mutexes, and all may end: `Stopped` of `MCServices` is the step of a system that stands still. There are no other bounds: calls go on for ever. Which task makes which
calls (`Calls`) is chosen to keep the instance small; the proofs cover all calls by all tasks together.

**Fairness.** `Task`: interrupts end (WF on HwiExit); the interrupt load leaves Task_schedule
time and does not ask for another round in each of its rounds (SF on the scheduler, SF on leaving
it); a running task finishes a call it has begun and gives back the locks it holds. Nothing makes a
task call or an interrupt come. `Semaphore`: the same for the scheduler and for
interrupts, and the timer: interrupts keep coming and the Clock Swi serves an
object whose time has come (that is what a tick is for). No fairness on tasks: a timed wait ends even if
all tasks loop. `GateMutexPri`: as `Task`; interrupts keep coming, what a task inside a gate waits for comes, and
a running task that makes progress leaves the gates it has entered; High's progress may not depend on Med's giving
way, and does not. `Clock`: a posted Swi runs and its function goes on (WF on Clock_workFunc): Swis
preempt all tasks, and the interrupt load leaves them time.

**What the properties guard.** RunningIsHighest is the promise of `Task.xdc:76`; it is silent while
a scheduler lock is held and in the tail of Swi_restore, which is about to call the task scheduler.
LockBalance is the argument of the comment in Task_disable, and in `Swi` the same of Swi_disable, which has no
such comment, and of the keys of the dispatcher. FirstComeFirstServed compares the order
of two tasks before and after a step, so an overtaking by any path is found. KeepsPromise says that
pend, post and timeouts are atomic whatever happens inside them; its refinement mapping reads the
outcome of a wait from `pendState`. Inheritance leaves out a waiter whose own priority was changed
while it waited: that is the exception the documentation makes (`GateMutexPri.xdc:79-81`).
GateQueueSorted says that a waiter with its own priority has none of a lower priority before it. It
is silent about those behind a waiter that is raised: one that is raised while it waits, because it owns
another gate, is not moved in the list, so the sentence of `GateMutexPri.xdc:53-56`, "sorted by
priority", holds of the others only.

NoMissedEvent is the promise of an Event across the two ways its bits are set, and holds
although Event_sync wakes nobody, because a post that syncs announces as well. It is stated
when no post is half done. NoUnseenToken says that the reader can rely on the bits: a token
that nobody announces shows as a bit or in what the reader was told. Its converse is false, and no
property claims it: when a task or an interrupt takes the token between the two regions of a post, the bit
is set after it. Event.xdc:110-115 has the reader clear it with its Semaphore_pend; a
BIOS_NO_WAIT pend that returns FALSE does not, as against `Semaphore.xdc:428-434` ("prior to returning
from this function, the Event object's state is updated"), so the bit stays until the next token
has come and gone. TokensOK accounts for each token and block on the way through a mailbox; it is why
Mailbox_post's test for an empty queue (`Mailbox.c:297`) is never true, and why Mailbox_pend, which
has no such test, never takes the queue's own header for a message. NoStandoff says that
readers and writers never wait for each other. KeepsBuffer places the effect of
a post at its enqueue. NothingMissed relates the due time of an object, modulo the wrap, to the ticks and
objects the work function has yet to look at: the objects are compared for equality with the
tick, so one that is passed over once would come up 2^32 ticks later. ReadyListsOK of `Swi` follows the pointers both ways, so a list that is damaged
by a stale element shows at once, and not when somebody misses a Swi. NoneAbove is what Swi_restore,
Swi_restorePri and the end of each interrupt must see to, whichever comes last. GatesExclusive includes GateAll, a gate whose keys
are in the object and where a Swi started by the leave may enter it again before they have all been
read. RwExclusion counts a writer that has been handed the lock and has not run. ReadersWoken holds although
a reader may take the token meant for another, lose the lock to the next writer and wait again: the writer
it lost it to will post for every reader still counted. WaitersOK ties the
list of a semaphore to the tasks' modes, clocks and `pendState`, the four places where the end of a wait is recorded, whichever of
post, timeout and deletion comes first. MutexPriority says that a thread that owns no mutex runs at its own priority, whatever
was lent to it in chains and taken back by timeouts; and, in the applications of `RaisedForOne`, that it runs at least at its
ceilings and its waiters' priorities. These are the applications that do not set priorities and in which a thread locks one mutex at a time, or nests two
and can be raised for one of them only. Who can raise it is reckoned with what may be lent to the waiter in turn (`Peak`). Less will not do: a thread
of low priority that waits for the second mutex of another may itself be raised, by the ceiling of a third mutex it holds; and nested three deep,
an owner may wait, with a time limit, for a NORMAL mutex it has, and be on its own waiting list when it is raised. NoLostWaiter is the atomicity of unlocking the mutex and beginning to wait, and says that
no element of a stack that is left stays on the list. BarrierTokens is conservation of tokens and no more: those that are there or handed over, with
the count, are the threads inside, so the threads inside are never all blocked with the count complete. It does not say which thread goes on. A fast
thread can take, in the next round, the token of one that was counted in this (see below), and the property holds throughout.
RunsAtCeiling, a part of MutexPriority, leaves out a thread between writing a new ceiling and adopting it (`Adjusts`): the new ceiling of
a mutex held more than once is in force before its holder runs at it, and a call that alone holds the mutex does not adopt it at all, on purpose (`pthread_mutex.c:402-404`). ThreadsFreed: no use after free, no
thread freed twice, none left behind.

**Findings.** 1. `GateMutexPri.xdc:70-73` promises the owner the waiter's priority "as long as High is
waiting on the gate". `GateMutexPri_leave` (`GateMutexPri.c:233-235`) restores the priority recorded
for the gate being left, so a task that holds two gates drops, on leaving the inner one, the priority
lent to it for the outer one. Run `gatemutexpri_nested` shows it; with one gate the property holds (SimpleInheritance in run `gatemutexpri`).

2. `Clock_workFunc` tests an object (`Clock.c:360`) and updates it (364, 368) with interrupts enabled.
A `Clock_start` of this object by an interrupt in between, which `Clock.xdc:957-959` counts with, is lost: a
one-shot object is left inactive, a periodic one gets its period on top of the new timeout. Run
`clock_race` shows it; without interrupts that touch the object in this window all of `clock` holds.

3. `pthread_rwlock_unlock` asserts that no reader is blocked when a reader unlocks (`pthread_rwlock.c:230`).
A reader woken by a writer is counted as blocked until it runs; another one woken with it may read and
unlock first. Run `rwlock_assert`.

4. `Swi_setAttrs` removes the Swi from its ready list "defensively" (`Swi.c:819-820`), with the pointers that
Swi_runLoop's Queue_dequeue left in it. For a Swi that has run, they point to its neighbours of that time, and
a Swi that has been posted since is unlinked and never runs. Run `swi_setattrs`; without such calls all of `swi` holds.

5. Swi_post from a task ends with TASK_RESTORE (`Swi.c:236`), which enables interrupts. A task inside
GateHwi that posts a Swi goes on with interrupts enabled, as against `Swi.xdc:1299-1300`. Run `swi_interrupts`.

6. `setInheritPriority` sets a mutex's ceiling only if its owner runs below the caller (`pthread_mutex.c:908-911`). A waiter
that comes while the owner is raised for another mutex leaves no trace in the ceiling, and when the owner unlocks that other mutex
it falls below this waiter, as against `pthread_mutex.c:85-91`. Run `mutex_inherit`; with one inherited mutex at a time the
property holds (MutexPriority in `services`).

Seen while modelling, with no run: a task that does not leave its gates last entered first may keep a priority that was lent to it. Low holds A, High
waits for A, so Low runs at 2; Low enters B, which records 2 as ownerOrigPri, and leaves A, which sets it back to 0; High gets A, leaves it and waits for B, so Low runs
at 2 again; Low leaves B, where `GateMutexPri.c:233` finds 2 not below 2. Low is in no gate and stays at 2, as against "temporarily raised"
(`GateMutexPri.xdc:70-73`). PriorityReturned without its condition fails in this way in the third application of `gatemutexpri`.

A second Swi_raisePri before the Swi_restorePri of the first
returns the Swi's own priority and not the raised one, so the inner Swi_restorePri does not restore "the Swi's priority
prior to the Swi_raisePri call" (`Swi.xdc:856-857`); in the model a Swi raises itself once at a time. `GateAll_leave` reads `hwiKey` after the Swis that
Swi_restore runs, one of which may have entered the gate and changed it. 

In POSIX: an element that `pthread_cond_broadcast` dequeues is not cleared as `pthread_cond_signal` does it
(`pthread_cond.c:133-136`), so a waiter whose wait has timed out at that moment removes itself through stale pointers
and takes others off the list. A signal can wake such a waiter, which then reports ETIMEDOUT, and the signal is spent.
`pthread_detach` between the test of `detached` in an exit or a cancel (`pthread.c:430`) and its Semaphore_post leaves the thread
to nobody, as against `pthread.c:378-381`. A second pthread_cancel of a thread that is being joined posts to an object that
may be freed; one that cancels itself stops before it is cleaned up; a thread that is cancelled while it joins another leaves `joinThread` set,
so that other can neither be joined nor detached, and one that is cancelled while it cancels another (`pthread.c:249-266`) leaves that to nobody. While a PRIO_INHERIT mutex is on its way to a new owner, `owner` is
NULL and a waiter that comes lends its priority to no one until that owner runs. resetInheritPriority compares with the
waiter looked at last, not with the highest (setPrioCeiling returns the last, `pthread_mutex.c:954`). pthread_setschedparam of a waiter or of an owner does
not update the ceilings. The loop of resetInheritPriority does not end on a cycle: thread 1 owns a NORMAL PRIO_INHERIT mutex and asks for it again with a
time limit, which nothing refuses (`pthread_mutex.c:709-711`); thread 3, the highest, waits for it too, with a time limit,
and then thread 2, of a priority in between; thread 3 times out. The owner of the mutex is also the owner of the mutex that owner waits for. It runs at 3, which the ceiling
keeps since the owner is itself on the list, and so above thread 2, the last of the list: each turn comes back to it, for ever, with the scheduler locked (`pthread_mutex.c:863-888`; setInheritPriority says of such cycles that "we also don't want to loop forever", and stops). pthread_mutex_setprioceiling reads
its thread's priority and sets it with the scheduler unlocked (`pthread_mutex.c:423-425`), so a priority set or lent in between is overwritten by the ceiling, which may be
lower. At a barrier with a count of 2 a thread is counted (`pthread_barrier.c:131`) and preempted before it pends; a second one completes the round, returns, comes again, is
counted, and its pend takes the first one's token: it has passed the next round alone, and the first one blocks in a round that is complete, until somebody comes.

Wording that the code has outgrown, with no run: `Mailbox.xdc:448-457` says that adding a
message and signalling is not atomic, `Mailbox.c:312-323` makes it so; `Mailbox.xdc:356-358`
calls getNumPendingMsgs the messages "ready to be read", it also counts those still being copied in or
out; `Semaphore.xdc:475-479` says that Semaphore_pend invokes Event_pend, which it does not.

## 4. Proofs

`TaskProofs` proves for `Task!Spec`, for any set of tasks, any number of priorities, any initial
priorities (one task at least active), any set of calls and of interrupt priorities, and with
deleteTerminatedTasks on or off:

- `Invariance`: `[]IInv`; from it `TypeCorrect`, `ReadyLists`, `ReadyBits`, `CurrentQueue`,
  `RunningHighest`, `LockBalanced`, `SleepClock` (invariants of the runs), and `LockExcludes`
  (an action property);
- `TerminatedQueue`: IInv says that whatever is on terminatedQ has terminated; `NotForgotten`, inductive
  on top of it, says that no terminated task is missing there. Only the two regions of Task_exit and the
  reaping touch it, every other step keeps it because it terminates nobody (`NoneExits`);
- `FirstCome`: the operations on a list without duplicates keep the order of the elements that stay,
  except the rotation, which only its head suffers (`RemoveOrder`, `AppendOrder`, `PushOrder`, `RotateOrder`). IInv gives what they
  need: a task that is readied is on no list, one that is moved is on one, the head of `curQ` is `curTask`.

The assumptions are the named ASSUMEs of the modules, all about constants: sets that are not empty or do not overlap, priorities
in range, values that stand for nothing (`NoMessage`, `NoBlock`) and are no message or block.

RunningIsHighest is not inductive. It holds because whenever `curQ` lags behind the lists `workFlag`
says so (`NoLostReschedule`), and no one unlocks the scheduler while `workFlag` is up except through
Task_schedule (`WorkPending`, `RunnerOK`), which in turn needs the lock to be what the key
says (`LockHeldOK`), the lists and bits to agree (`KernelOK`), and tasks that block, end
or are deleted not to be named by calls under way (`NamesOK`, `SleepersOK`, `TerminatedOK`). The
conjunction is `IInv`; run `task` checks it with TLC before it is proved.

`QueueProofs` proves of the pointers of `Queue`, for lists of any length and any nodes:
`InsertKeepsList` (Queue_insert into the ring of a list makes the ring of the list with the element there;
Queue_put is that at the end, Queue_putHead at the front),
`RemoveKeepsList` (of an element of the list), `EndsOfList` (head, tail, empty, dequeue, getTail), and
`OtherListsKept`. It also has what `SwiMailboxProofs` and `ServicesProofs` need of lists that hold each element once
(`Appended`, `Beheaded`, `TakenOut`, `PutLast`), and that the walk along a ring yields the list (`Walked`). That one is an induction: the
library's induction theorem is out of reach, but a nonempty set of numbers has a least one (`LeastNumber`), and at the first place
where the walk and the list differ they do not. In the same way: dequeuing as often as there are elements leaves the list empty (`AllDequeued`). An element that
is on no list may be cleared (`ClearedOffList`), keeps its pointers (`OffListKept`), and once cleared may be removed (`ClearedRemoved`). The hypothesis of `RemoveKeepsList`, that the element is on the list, is what finding 4 lacks.

`SemaphoreProofs` proves of `Semaphore`, for any tasks, priorities, semaphores, counts, orders and interrupt levels:
`Waiters` (WaitersOK), `Implements` (KeepsPromise, the refinement of SemaphoreSpec) and `NoSleeperMissed` (no task sleeps on a
semaphore that has a token). `IInv` adds to `KernelOK` what calls do with the scheduler (`CallsOK`: the lock is held by the running task's
call and by no other; a task that has queued itself does not run on) and, task by task, where its call is and how its wait stands (`CallOf`,
`WaitOf`). WaitersOK alone is not inductive: Semaphore_pendTimeout readies whoever it finds unresolved, which is right only because such a task
is on one list and blocked; a task deleted with its name on another task's call would be unlinked twice (`CallOf`: two
calls of Task_delete never name the same task). The refinement is proved action by action: one region of the code is one step of SemaphoreSpec, every other
step leaves counts, lists and outcomes alone. In SemaphoreSpec a waiter that leaves is taken off by `RemoveFirst`, in the code by Queue_remove: `RemovedFirst`.

It goes on with `Event`, for any explicit events, any masks and any reader (`EventAssumption`), in three inductive invariants, each as small
as its theorem allows. `BitsIInv` is enough for `NoEventMissed` (NoMissedEvent) and `TokensShown` (NoUnseenToken): it needs nothing of the scheduler,
only that the masks in the PendElem are there while the reader pends and nobody else's call is, that a reader that is looked for has not been told
of anything yet (`ReaderWaits`), and that only a Semaphore_post announces (`EventCalls`). The step that could break it is Event_sync, which
sets a bit and wakes nobody: `EventSyncs` shows that it only sets bits that are set, announced or in the reader's hands. `OrderIInv` is enough for
`WaitersSorted` (PriorityOrder). `EventAnswered` (EventResultOK) takes `WaitIInv`: the scheduler's `KernelOK`, the calls' use of the lock
(`EventControl`), every task's wait, for a token or for events (`EventWaits`), and what ties the object to the reader's PendElem
(`ReaderResult`): the reader is on `event->pendQ` exactly while its wait is unresolved, and has been told of events exactly when it was posted. Each
wait ends in one of three places (a token handed over, Event_post, a timeout), which share one lemma (`EventWaitEnds`).

`GateMutexPriProofs` proves of `GateMutexPri`, for any tasks, priorities, gates, applications (which gates a task uses, how deep
it nests them) and interrupt levels: `Exclusion` (MutualExclusion), `LentAndReturned` (PriorityReturned), `QueueSorted` (GateQueueSorted)
and `Inherits` (SimpleInheritance). All but `LentAndReturned` are of applications that leave their gates in any order; that one says nothing of
applications without `nests`, as PriorityReturned does not. None of the four is inductive. Exclusion needs to know who has a gate at each moment of a hand-over: the owner is
inside, or about to leave the region of its leave, or chosen by leave and yet to run (`HasGate`), and a waiter is on the list of the one gate it names
and blocked, or chosen (`GatesOf`). For what was lent, `PriOf` says where a task's own priority is recorded:
in the first gate it came to own, which in an application with `nests` it leaves last, so whatever the inner ones restore, the last leave restores the right
one; that takes that first enters are of different gates (`FirstEntersDiffer`) and that the priority enter has read, and not yet recorded, is
at most the present one (`tskPri`). `LentOK` is SimpleInheritance with the moment left out at which the owner has already stepped down
and not yet handed over. `IInv` is these (`StandOK`) with `KernelOK` and the calls' use of the scheduler (`CallsOK`).

`SwiMailboxProofs` proves of `Mailbox`, for any set of tasks, any finite number of blocks and any messages: `NoBlockLost` (BlocksOK), `TokensAreBlocks`
(TokensOK), `NoStandoffEver` (NoStandoff) and `BoxImplements` (KeepsBuffer, the refinement of MailboxSpec). `BoxIInv` has the two waiting lists
(`WaitersOK`: as in SemaphoreSpec, and a task waits only in the pend its place in the call names), what a thread has in hand at each place (`BoxThreadsOK`), that no block is in two
places and none nowhere (`PlacesOK`), and the sums (`CountsOK`): the blocks on a queue are the semaphore's tokens, those
handed to a waiter that has not run, those taken by a thread that has yet to dequeue, and, for the free queue, the blocks put
back whose post is still to come; queues and hands together have `NumMsgs` blocks. So a thread that has a token finds a block
(`BlockIsThere`), and Mailbox_pend needs no test for an empty queue. The refinement maps the buffer to the contents of the
data queue: the enqueue is the put, the dequeue of a pend the get, and every other step leaves it alone because no block on
the queue is in a thread's hand.

`ClockThreadsProofs` proves of `Clock`, for any objects, timeouts and periods, any lag and any width of the tick count that leaves room for
them (`TimeoutsAssumption`): `NothingIsMissed` (NothingMissed) and `Implements` (KeepsPromise, the refinement of ClockSpec), both for
`Racing` = FALSE: finding 2 is what becomes of the promise otherwise. `IInv` says which tick the work function is at (`compare` is `ticks` less the ticks counted and
not yet served, unless the queue is empty: `WorkOK`), that only objects on the queue are active (`ObjectsOK`), and of each object NothingMissed with
its other side (`InTime`): it is never so far ahead that the short way round to its due time is backwards. An object that is visited and
not due loses one tick in which it could be served; it can afford to, because its due time is not the one `compare` stands at,
and it was not before (`GapBack`). The arithmetic of the wrapping count is in lemmas of its own (`Counted` to `GapBack`), after which everything is
linear.

The POSIX modules are proved about as the instances of `PosixSync` and `PosixThreads`, which are what run `services` checks: an object's invariant
is preserved by its own module's steps, and `LockInUse`, `CondInUse`, `BarrierInUse`, `MutexesOf` and `LivesOf` carry it over to a system in which
one object of several is in use.

`ServicesProofs` proves of `Rwlock`, for any finite set of threads (and semaphores whose count may reach 1): `WritersAlone` (RwExclusion) and `ReadersWake`
(ReadersWoken). RwExclusion is not inductive, because the lock passes to a waiter before that one runs: who has it is the writer inside or the one that
has the token of `sem`, counted or handed over, and `LockOK` says that there is one of these, or readers, or the token. For the hand-over to have
an effect the waiting lists must name those that pend and nobody else (`LockWaitersOK`); for the reader that comes first or goes last, `activeReaderCnt`
must be the readers inside (`LockCountsOK`). ReadersWoken follows from `LockTokensOK`: unless a writer has the lock, the readers that wait without a token are no more than
the tokens of `readSem`. A writer that goes posts one for each reader counted as blocked, and those without a token are
among them; a reader without a token comes to wait only while a writer is inside (`WriterInside`). Tokens left behind by timeouts do no harm: a reader that takes one looks at `sem` again.

Of `PthreadBarrier` it proves `NoTokenLost` (BarrierTokens, a statement about the number of tokens and not about whose they are), for any finite set of threads and any count from 1 on. The
inductive invariant: the waiting list holds each pending thread once and no one waits while there are tokens
(`RoundQueueOK`), only a thread in its pend waits or has been handed a token (`RoundWaitsOK`), and the threads in their pend are as many as
those counted, the tokens and the threads handed one (`TokensCounted`).

Of `PthreadCond` it proves `NoWaiterLost` (NoLostWaiter), for any finite set of threads and any application in which no broadcast meets a wait
with a time limit (`CondAssumption`): what becomes of the list otherwise is told in section 3. The inductive invariant: the ring of the list is a sequence of the
threads that have begun to wait and that nobody has woken (`CondListOK`); each waits on its own semaphore, in its pend, only while that has no token
(`CondWaitsOK`); and a thread that was woken and may yet remove its element, because its time ran out as it was signalled, finds the element cleared
(`ClearedOK`). The last is why signal clears what it dequeues. Broadcast does not, and leaves `ClearedOK` true only where nobody has a time limit.

Of `PthreadLife` `ClockThreadsProofs` proves `ThreadsAreFreed` (ThreadsFreed), for any set of threads and any application in which threads detach only themselves, are cancelled only
by others and once, and one that may be cancelled neither joins nor cancels (`LifeAssumption`); the cases left out are those in which section 3 says the
property fails. The invariant `LifeIInv` says of each thread what the calls on it and the objects it leaves behind
add up to (`ThreadOK`). From its last step on, whether its own or that of who cancels it, it is `Over`: one that is not detached has
given one token, which is in joinSem or with its joiner (`TokenThere`), and is on no list; one that is detached has given none, and is on the list
unless who cancels it will delete it. Before that it is on no list and has no token. What a call has read of `detached` is still true when it acts on it
(`CallersOK`, `CancellersOK`), which is where a detach by another thread would break it; `joinThread` is the one thread that
joins (`JoinersOK`), which waits on joinSem only while there is no token (`JoinWaitsOK`).

`SwiMailboxProofs` proves of `Swi`, for any finite set of Swis, any priorities, triggers, masks and gates, and any depth to which interrupts nest:
`ListsAreReady` (ReadyListsOK), `NoSwiIsLeft` (NoneAbove), `LockIsBalanced` (LockBalance), `GatesExclude` (GatesExclusive) and `Implements`
(KeepsPromise, the refinement of SwiSpec, which includes that a Swi that starts has its `initTrigger` back in `trigger`). The hypothesis is `LateSetAttrs` = FALSE: finding 4 is what becomes of the lists otherwise. `IInv` describes
the stack of threads. Each frame is at a place that its kind of thread can be at, and its keys say what it held when it took them (`FrameOK`, `HeldOK`):
`locked` is read and written in two steps, which is harmless because whoever comes in between puts back what it found. A thread that has another one on top of it is in
Swi_runLoop if that is a Swi, holds no GateAll, and if it is an interrupt has its lock for a key (`OnTop`); no Swi is above a holder of GateSwi (`ThreadsOK`);
`locked` and `entered` are what the top thread's frame says (`TopOK`). `CurOK` has what NoneAbove needs when a Swi ends: the saved `curSwi` and `curQ`
in each frame are the thread below and a level that is not below its own; a bit above that level makes the loop go on. The lists come from
`QueueProofs`: Queue_put and Queue_remove keep the ring of one priority, and the others' (`ListsOK`); the level of a posted Swi never changes, so the one
setPri moves is on the list it is taken off. The refinement maps the rings to sequences and the frames of Swis to the
running Swis (`StartedSwis`); a step that ends a Swi and starts the next is one step of both.

The argument about the scheduler has three layers. `KernelProofs` begins with what removal, appending, insertion and rotation do to the
elements of a sequence without duplicates, and goes on with the scheduler: each primitive preserves the consistency
of the queues, each step of the scheduler and of the dispatcher preserves `KernelOK`, for any module
that extends `TaskKernel`. `TaskProofs`, `SemaphoreProofs` and `GateMutexPriProofs` have one lemma per action of their modules.

Of `PthreadMutex` `ClockThreadsProofs` proves `MutexesExclude` (MutexExclusion) and `RunsAtItsOwn` (OwnPriority, the first part of MutexPriority), for any finite sets
of threads and mutexes, any types and protocols, and any applications whose ceilings are priorities (`MutexAssumption`), which may nest mutexes as they like
and set priorities and ceilings meanwhile. The invariant `MutexIInv` says where the token of a mutex is: in its
semaphore, with its owner, or on its way to one thread, and then the mutex has no owner and no count (`TokenOK`); that a thread waits only in the call that `call` names,
on one semaphore and once (`PendsOK`); that the list of an INHERIT mutex is that of the threads that pend on it, have been handed its token and have yet to enter themselves
as owner, or have timed out and have yet to leave (`MutexLists`); and that who sets a ceiling has the mutex (`CeilingsOK`).
One turn of resetInheritPriority is a step, and each turn keeps the invariant by itself (`ResetPreserves`), so it makes no difference how long the chain is or whether
it has an end. Nor do the three steps of setprioceiling depend on each other: whatever happened in between, the thread has the mutex and the value it sets is a priority (`CeilingStepPreserves`).
So who sets an owner's priority finds an owner that has a mutex, and removal from a list finds what it removes. That a thread
without a mutex runs at its own priority needs no more: every path that takes or gives back a mutex ends by setting the priority from
what is left (`Adjusted`), and the chain that setInheritPriority follows (`Raised`, which is a recursive function) raises only owners.

`FlatPriorities` proves all of MutexPriority for applications in which a thread locks one mutex at a time (depth 1), which is the first half of `RaisedForOne`; the threads' own priorities and the ceilings may
be any. The chains are then one link long, because an owner does not wait (`OneEach`). `FlatOK` adds two facts to MutexIInv: no thread on a list runs above the
owner (`Above`), and the owner runs at the ceiling or above (`Reaches`), save between writing a ceiling and adopting it (`Adjusts`). They depend on each
other: resetInheritPriority leaves an owner alone that is no higher than the waiter looked at last, which is right only as long as no waiter is above the owner.

Only model-checked: MutexPriority where two mutexes are nested, and all liveness
(HighestRuns, TimedWaitEnds, TopGetsGate, DueFires: liveness under fairness is beyond the prover, as is ENABLED). Nothing is proved of the
properties that a run finds violated.

## 5. Not modelled

Event: a pend by an interrupt (it cannot wait), deletion of the waiting reader, registerEvent
after creation, and Semaphore_reset to more than 0 while the reader waits: Event_sync then sets the bit and leaves
the reader asleep. Mailbox: reader and writer Events (they are those of its semaphores), allocation of the
buffer. Clock: TickMode_DYNAMIC, setTimeout, setPeriod and setTicks, Clock without Swis. Swi: creation and deletion at run time,
and the builds in which the dispatcher does without Swis. POSIX: destroy of an object nobody
uses, thread keys, cleanup handlers and pthread_once, failures of memory allocation, builds without `Settings.enableMutexPriority` (their mutexes are those of
PRIO_NONE), and the modules that only forward to Mailbox, Semaphore and Clock. Also hooks, logging, stack checks, statistics; `vitalTaskFlag`; the SMP
schedulers; registers, timers and ports; configuration scripts. `Task_startCore` is the initial
state; its own window before the first task is not a step. Task deletion while in a gate is not
modelled. Each part is listed with its reason in `PROJECT.json`.

## 6. Plan

In this order; each with its abstract specification where it has one:

1. `Clock` in TickMode_DYNAMIC: skipped ticks against the same ClockSpec.
2. `GateMutex` over `SemaphoreSpec`: exclusion.
3. `HeapBuf`, `HeapMem`: no block is given out twice, nothing is lost, neighbours coalesce.
4. `PthreadCond` with broadcasts that meet timed waits, and `PthreadLife` with a detach by another thread, as runs that show the findings above.
5. `Mailbox` with a reader that waits on an Event.
6. Proofs: MutexPriority for the other half of `RaisedForOne`, where two mutexes are nested.
