# A TLA+ verification of the RT-Thread 2.1.0 kernel

RT-Thread is a preemptive, priority-based real-time kernel. This directory
models its core: the scheduler and thread management down to the PendSV context
switch, the hard timers, the wait lists of its IPC objects, and all of these
objects: semaphore, mutex, event, mailbox, message queue and memory pool. TLC
checks the models on small instances; TLAPS proves the scheduler's safety
properties for every number of threads, priorities and nested interrupts.

Kernel sources are in `src/src/*.c`, headers in `src/include/*.h`. Below, a bare
file name means one of those.

## 1. Inventory

| Part | State | Operations | Interacts with |
|---|---|---|---|
| Lists (`rtservice.h`) | next/prev of each node | insert after/before, remove, isempty | everything; a thread has one node `tlist`, so it is in at most one of: a ready queue, a wait list, the defunct list |
| Scheduler (`scheduler.c`) | `rt_thread_priority_table`, `rt_thread_ready_priority_group`, `rt_current_thread`, `rt_scheduler_lock_nest` | insert/remove thread, `rt_schedule`, enter/exit critical | called by all kernel calls and by handlers |
| Threads (`thread.c`) | `stat`, `current_priority`, `number_mask`, `remaining_tick`, `error`, `thread_timer` | create/init, startup, exit, delete/detach, suspend, resume, sleep, yield, control, timeout | scheduler, timer, defunct list |
| Idle thread (`idle.c`) | `rt_thread_defunct` | reap | frees what exit and delete leave |
| Tick, interrupts (`clock.c`, `irq.c`) | `rt_tick`, `rt_interrupt_nest` | tick, enter, leave | yields, fires timers |
| Context switch (`libcpu/arm/cortex-m4`) | three words shared with PendSV | request a switch, PendSV | `rt_schedule` asks, PendSV performs later |
| Timers (`timer.c`) | sorted skip lists, `parent.flag`, ticks | start, stop, control, check, soft timers | `rt_thread_timeout` is one callback |
| IPC base (`ipc.c`) | `suspend_thread` of each object | suspend in FIFO or priority order, resume one, resume all | threads, timers |
| Semaphore (`ipc.c`) | `value`, wait list | take, release, reset, delete | IPC base |
| Mutex (`ipc.c`) | `owner`, `hold`, `original_priority`, wait list | take, release, delete | IPC base, thread priorities |
| Event (`ipc.c`) | `set`, wait list, `event_set`/`event_info` of threads | send, recv, reset, delete | IPC base |
| Mailbox (`ipc.c`) | ring, `entry`, offsets, two wait lists | send, recv, reset, delete | IPC base |
| Message queue (`ipc.c`) | chains of used and free messages, wait list | send, urgent, recv, reset, delete | IPC base |
| Memory pool (`mempool.c`) | free chain, counters, wait list | alloc, free, delete | threads, timers |
| Heap (`mem.c`, `memheap.c`, `slab.c`) | block headers | malloc, realloc, free | a semaphore guards each |
| Objects, devices (`object.c`, `device.c`) | containers, open flags and counts | init, detach, find; open, close | every object |
| Services (`kservice.c`, `components.c`), modules (`module.c`) | - | string helpers, printing, start-up; ELF loading | - |
| Drivers framework, POSIX, DFS, network, shell, BSP (`components/`, `bsp/`) | - | - | built on the above, partly vendored |

**What is hard.** All kernel data is shared between threads and interrupt
handlers, and protected only by switching interrupts off for short sections. A
function that needs several sections, or that tests a value before a section and
uses it inside, can be interrupted in between. A context switch is requested in
one place and performed later, by PendSV. A thread may be woken by a release, by
its timer, by a reset or by a delete, and all of these race. A thread woken from
a mailbox, a message queue or a pool re-tests the condition it waited for. Ticks
are compared across the wrap of their counter. Flags of timers are changed
outside sections, and a message slot is in no list while it is copied.
`PROJECT.json` lists each hazard at its line.

**What makes each part correct.** Scheduler: queues, bitmap and thread states
agree; the highest ready thread runs as soon as no reschedule is due; a switch
saves and loads the right contexts; the lock holds; equals share the processor.
Threads: a timer never fires on a thread that is not suspended; a deleted thread
never returns; nothing referenced is freed. Semaphore: tokens are conserved,
nobody waits beside a token, FIFO waiters are served. Mailbox: a bounded FIFO
without lost wake-ups. Pool: blocks are conserved, no lost wake-ups. Timers: the
list is in the order of the timeouts, each timer fires at its tick, a running
timer can be stopped, the check ends. Mutex: one owner, who is as urgent as
those who wait for it; every raise of a priority is undone. Event: nobody waits
for bits that are there, bits that are cleared are given once. Message queue: a
bounded queue with an urgent end; no slot is lost between the sections of a
call, no lost wake-ups.

## 2. Modules

| Module | Models | State and actions |
|---|---|---|
| `RtList` | `rtservice.h` | a list is the sequence of its nodes |
| `Scheduler` | `scheduler.c`, `thread.c`, `idle.c`, `clock.c`, `irq.c`, `context_gcc.S` | one variable per kernel global or thread field, named as in the code; `pc`/`tgt` say where a thread is in a call of several sections; `irq` is the stack of active handlers |
| `Ipc` | first part of `ipc.c`, `rt_thread_resume`, `rt_thread_timeout` | thread fields a wait touches; operators on wait lists |
| `Semaphore`, `Mailbox`, `Mempool`, `Event`, `MessageQueue` | the objects, each one object and its users | one action per section of each function |
| `Mutex` | several mutexes and their users | the same, with `current_priority` of the threads |
| `EventQueue` | a message queue and an event used by the same threads | composition: extends `MessageQueue`, instantiates `Event`; both work on the same `stat`, `error`, `timer` |
| `Timer` | `timer.c`, the tick counter | fields of the timers, one action per part of a call; each turn of the loop of `rt_timer_check` is a step, in which a callback may start, stop or change a timer |
| `BoundedFifo`, `UrgentFifo` | what a mailbox and a message queue promise | abstract queues, the targets of the refinements |
| `MC*` | - | instances for TLC |
| `RtListProofs`, `SchedulerProofs`, `SemaphoreProofs`, `MempoolProofs`, `MutexProofs`, `MailboxProofs`, `TimerProofs`, `EventQueueProofs` | - | theorems |

Conventions. **A section with interrupts off is one step.** A function with one
section is one action; with several, an action each (`Resume0..2`,
`Delete1..3`, `ResumeAllTest`/`ResumeAllNext`), and handlers may run between
them. In `Scheduler` only the innermost handler runs, then PendSV, then the
thread whose context is loaded (`hw`). In the IPC modules scheduling is left
open: any ready thread may run next, which covers every order the scheduler
could choose.

Definitions named *Mutant* in their comment are wrong variants of the one after
them. They are used in no specification; replacing the right definition by one
makes the run in `PROJECT.json` fail, which shows the property depends on it.

**Abstractions.** Priorities use the layout for at most 32 (`number_mask` is a
set of bits, stack checks and hooks are left out). Which timers are due is open
in `Scheduler` (`TimerFire` fires any running timer during a tick). Times are
"zero", "ticks", "forever"; a resumed thread has some or none of its ticks left.
A token, mail or block is an identity. Failing non-blocking calls that change
nothing are stuttering steps. Taking a thread off a *wait list* is modelled in
the IPC modules and not in `Scheduler`. `IdleReap` unlinks and frees in one
step: between the two the code holds the only pointer. A wild resume in
`Mempool` (see finding 4) is modelled by its benign outcome, that the status
found there is not SUSPEND; what else it may do is not modelled. The ghosts
`credit` (`Semaphore`), `stale` (`Scheduler`), `left` and `orphans` (`Timer`),
`held` and `lowered` (`Mutex`) and the record `delivered` (`Mailbox`) only
observe; the one exception is the discipline of nested mutexes, which is a guard
on `held`. Values that nothing reads any more are kept at a fixed one, so that
states that differ in nothing else are one: `timeout_tick` of a timer that is
not linked, the fields of a timer that does not exist, the message in a free
slot, `event_set` outside a wait. The timer list has one level, the value of
`RT_TIMER_SKIP_LIST_LEVEL` in `rtdef.h`. The write-back of a flag that is
changed with interrupts enabled is two steps, read and write (`ControlRead`,
`ControlWrite`); the one at the end of `rt_timer_stop` is one step
(`StopClear`): a callback that starts the timer between its load and its store
loses ACTIVATED as one that starts it before does, and a mode set just there is
lost as if a thread had set the old one afterwards, which the model can do. The
tick is steps too: another handler may come between the count of the time slice
(`IrqTick`) and the `rt_thread_yield` that follows it (`IrqYield`), which is then
about the thread that is current by that time. Event sends, resets and
initialisations come from anywhere, interrupt handlers included; a handler inside
a call of the message queue keeps every thread from moving.

**Disciplines.** The kernel does not defend itself against every use of its
interfaces. `Next` contains the uses it supports; the ones that break it are
separate actions and specifications, or excluded and listed as hazards:

- `Scheduler`: no two unfinished calls are about the same thread (`Free`), but
  that any call may come between the test of `rt_thread_suspend` and its
  section (`Suspend0`, `Suspend1`). The section is followed on a thread that is
  alive; if the thread has ended in between, the section would unlink it from
  the defunct list or write into a freed object, and the model stops following
  the caller. A thread is deleted only after its startup and with its timer stopped
  (`Delete1`; `DeleteUnstarted` and `DeleteTimed` are the others);
  `rt_thread_resume` with interrupts on is not called for a thread in a timed
  wait; a thread does not exit with the scheduler locked; idle is not
  suspended, deleted or given another priority.
- IPC objects: nobody enters a call on an object that is being deleted
  (`Usable`), and it is deleted only while no waiter's timer runs
  (`DeleteBegin` in `DeleteSpec` drops this). For mailbox and pool, also while
  no resumed thread has still to re-test; for the message queue, also while no
  send or receive is between its sections.
- `Timer`: at most one thread is in a call for a timer. Callbacks may start, stop
  or change every timer at any moment, also one that a thread is in a call for;
  they delete none. Each callback makes at most one call. A timer that a callback
  starts inside a thread's `rt_timer_start` is linked a second time by the code,
  which corrupts the list: the model does not follow the thread to that point
  (`StartArm`, `StartInsert` wait until the timer has fired or was stopped).
  `init_tick` is not 0: a periodic timer of 0 ticks, or a one-shot one that its
  callback starts, keeps `rt_timer_check` busy for ever. One-shot timers of 0
  ticks that no callback starts are harmless and are excluded with these, the
  timer of a thread in `rt_thread_delay(0)` (`thread.c:436`) among them; its
  callback, `rt_thread_timeout`, starts no timer.
- `Mutex`: a thread releases its mutexes in the reverse of the order it got
  them, the use `original_priority` is made for. A mutex is deleted by its owner, or while it is
  free, and only while the owner has inherited nothing through it.

## 3. Runs

| Run | Result | Instance | Shows |
|---|---|---|---|
| `scheduler` | pass, 692 k states | idle, one allocated and one static thread with cleanup; 3 priorities; slice of 1 tick; 2 nested interrupts; lock depth 1 | all safety properties of section 1 |
| `round_robin` | pass, 117 k states | 2 equal threads and idle; slice of 1 tick; lock depth 1 | `RoundRobin` |
| `semaphore` | pass, 2.8 k states | 3 threads, value up to 2, FIFO | conservation, no idle token, every waiter served |
| `mailbox` | pass, 185 k states | 3 threads on 2 priorities, PRIO, 2 slots, 2 mails | wake-ups, order, refinement of `BoundedFifo` |
| `mempool` | pass, 93 k states | 3 threads, 2 blocks, count up to 4 | block and wake-up balance, also with the wrong count of finding 4 |
| `timer` | pass, 453 k states | 3 timers (one-shot, periodic, changing), 10 ticks, `init_tick` 1 and 2, one thread in a call, 1 tick late | order across the wrap, punctuality, stopping, end of the check |
| `mutex` | pass, 243 k states | 3 threads on 3 priorities, 2 mutexes, PRIO, hold up to 2 | ownership, inheritance and its undoing |
| `event_queue` | pass, 314 k states | 2 threads, 1 handler; 2 messages, 2 slots; 2 bits; FIFO | slots, wake-ups, refinement of `UrgentFifo`, delivery of events |
| `delete_unstarted`, `delete_timed`, `semaphore_delete`, `mempool_timeout` | violation | smallest instances of the same modules | findings 1 to 4 |

**Bounds and why they suffice.** Three threads give one that acts, one it acts
on and a third that interferes; with one fewer, a preemption between the
sections of a call on another thread cannot meet a third party. Two nested
interrupts are needed for a handler to interrupt the tick between its yield and
its timer check, and for two switch requests before one PendSV. Two slots, mails
and blocks let the ring wrap and be partly full. With `RT_TICK_MAX` = 9 the
counter wraps every 10 ticks and half the range is 4, more than an `init_tick`
of 2 and a delay (`MaxLate`) of 1 together; every timer is then started at every
distance from the wrap, and linked late as well as in time. `MaxCalls` = 1
thread inside a call meets the tick with the callbacks of all three timers; two
such threads deal with different timers and meet only in the list. Two mutexes
give nested ownership, a chain of waits and the deadlock of opposite orders;
three priorities, a middle thread that must not run before a boosted low one.
Two bits tell AND from OR, and clearing one from clearing both. A third thread
in `event_queue` is left to `mailbox` and `mempool`, which share the wait
protocol. `MaxHold`, `MaxLock`, `MaxIrq`, `MaxValue`, `MaxCount` are bounds on
counters of 8 to 32 bits in the code; overflow is therefore not examined (see
the hazards). `InitTick` is 1: every tick uses up a slice, which is the case that
moves a thread; a slice that is partly used is left to the proofs, which have none
of these limits: constants are arbitrary there. `RoundRobin`, a liveness property,
is therefore shown for slices of one tick only.

**Fairness.** `RoundRobin` assumes that the tick recurs, that handlers end, that
PendSV and a thread inside a kernel call are not interrupted for ever, and that
whoever locks the scheduler unlocks it. The hardware timer and an interrupt load
below 100 % justify the first three; the last is what a critical section means.
Strong fairness is needed for `IrqTick`, `InterruptLeave`, `PendSV` and
`FinishCall` because other interrupts disable them for a while again and again.
`WaiterServed` assumes that the semaphore keeps being released and that a ready
thread goes on; no fairness is put on new takes or on timeouts.

Deadlock is checked in every run but `mutex`: no reachable state is stuck. With
mutexes, threads that lock two in opposite order do wait for each other for
ever, and the kernel promises nothing else.

**What the timer and mutex properties leave out, on purpose.**
`LinkedCanBeStopped` has three exceptions, in which the code leaves a timer
linked without ACTIVATED, so that `rt_timer_stop` refuses it: a timer that its
own callback has started and `rt_timer_check` does not start again
(`timer.c:535` clears the flag after the callback); one that a callback starts
between the section of `rt_timer_stop` and its last line (436-439); one that a
callback starts between the read and the write of a `rt_timer_control` that
found the flag off (470-474). The ghost `orphans` holds exactly these: a timer
leaves it when it fires, is stopped, deleted or started anew, and the property
also says that an orphan is linked and has no flag once the call is over, so the
exception covers no healthy timer. `FreedUnreferenced` excepts a
`rt_thread_suspend` between its test of READY (`thread.c:563`) and its section
(572): the thread it has found ready may exit and be freed by idle in between,
and TLC reaches that state. `Inherited` excepts waiters that own a mutex
themselves (a raise is not passed on along a chain of owners) and owners that
have released an inner mutex (they fall back to the priority of the moment they
took it). Without these exceptions TLC finds a violation, as it does for a FIFO
mutex after a hand-over. The sources promise none of them.

## 4. Findings

1. **Deleting a thread that was never started** (`delete_unstarted`,
   `scheduler.c:347`). `number_mask` is not initialised before
   `rt_thread_startup`; `rt_schedule_remove_thread` clears those bits in the
   bitmap, and a ready thread of another priority is never selected again.
2. **Deleting a thread in a timed wait** (`delete_timed`, `thread.c:348`). A
   timeout between `rt_schedule_remove_thread` and `rt_timer_detach` puts the
   thread back in a ready queue; it is then closed and linked in a second list.
3. **Deleting a semaphore with timed waiters** (`semaphore_delete`,
   `ipc.c:175`). `rt_ipc_list_resume_all` tests for emptiness outside its
   section; all IPC objects share it.
4. **A timeout in `rt_mp_alloc`** (`mempool_timeout`, `mempool.c:438`) leaves
   `suspend_thread_count` too high; a later `rt_mp_free` resumes the head of an
   empty list.

## 5. Proofs

Each component's theorems hold for every value of its constants that satisfies
the ASSUME of its module: any finite set of threads, timers or blocks, any
priorities, both flags, any size. A module of proofs has one lemma per action,
and under it one step per conjunct of the inductive invariant that the action
can disturb; the theorems at its end combine them.

### Lists

`RtListProofs` states what the operators of `RtList` do to membership, length,
distinctness and order (`Before`) of a list, once for all modules. The search
for a place (`rt_ipc_list_suspend`, `rt_timer_start`) is a CHOOSE in the model;
`FirstPlace` shows that there is such a place, from the fact that a set of
numbers has a smallest element.

### Scheduler

`SchedulerProofs`: for every instance satisfying
`SchedulerAssumption` (idle and main are different threads, idle has the lowest
priority, a time slice is positive), `Spec` implies each property of the
`scheduler` run:

| Theorem | Property |
|---|---|
| `Invariance` | `SchedulerInv` |
| `TypeCorrect`, `QueuesSound`, `GroupSound`, `SwitchCorrect`, `TimersSound` | conjuncts of `SchedulerInv` |
| `FreeingSound`, `DeletionSound` | `FreedUnreferenced`, `DeletedStaysOut`, consequences of it |
| `LockSound` | `LockKeepsProcessor`, an action property |
| `HighestRuns` | `RunningIsHighest`, inductive relative to `SchedulerInv` |

The properties are not inductive by themselves. `SchedulerInv` adds: a thread
that has been started has the mask of its priority (`MaskInv`), without which
the bitmap could be cleared wrongly as in finding 1; what the unfinished calls
still rely on (`CallInv`: nothing for a suspend between its test and its
section, which tolerates every status of a live thread; the target of a resume is suspended, untimed and in
no queue, the target of a delete is out of its queue and has no call of its
own, and nobody else deals with either); that a thread that has closed
itself leaves the processor before it can be freed (`CurrentInv`); that the
defunct list holds closed threads once (`DefunctInv`); and that idle is always ready
(`IdleInv`), so `rt_schedule` always finds a thread. There is one lemma per action;
the steps shared by all calls of `rt_schedule` and of insert and remove are lemmas
of their own. For `HighestRuns`, each action either leaves a reschedule
due, or leaves the top of the queues alone, or is itself a `rt_schedule`.

### Semaphore, memory pool, mailbox

| Module | Theorem | Property |
|---|---|---|
| `SemaphoreProofs` | `TypeCorrect`, `Tokens`, `NoTokenIdle`, `Queued`, `LoopResumesThreads` | `TypeOK`, `TokensConserved`, `NoIdleToken`, `WaitersQueued`, `ResumesThreads` |
| `MempoolProofs` | `TypeCorrect`, `Conserved`, `Queued`, `WakeupKept` | `TypeOK`, `BlocksConserved`, `WaitersQueued`, `NoLostWakeup` |
| `MailboxProofs` | `TypeCorrect`, `Queued`, `WakeupKept` | `TypeOK`, `WaitersQueued`, `NoLostWakeup` |
| | `Order` | `NoOvertaking`, an action property |
| | `Refinement` | `RefinesFifo`: the mailbox implements `BoundedFifo` |

The inductive invariants (`SemaphoreInv`, `MempoolInv`, `MailboxInv`) add two
things to the properties. `DeleteInv`: a deletion under way is alone, no
waiter's timer runs, and between the test of `rt_ipc_list_resume_all` and its
turn the list does not become empty; without it the loop could take the list
head for a thread. `WaitInv`: what a waiter still has to do, and that nobody
waits on an object that is gone. The counting properties compare a counter
with the cardinality of a set of threads, which a step changes by at most one
element. For the refinement the mailbox also needs `RingInv`, that the write
offset is the read offset plus the number of mails, wrapped; then a send
appends to `Contents` and a receive takes its head. For `Order` the lists must
be known to be sorted (`OrderInv`).

### Mutex

`MutexProofs`: `TypeCorrect`, `Owned` (`Ownership`), `Restored`
(`PriorityRestored`), `Inheritance` (`Inherited`). The invariant `MutexInv` adds
that the `original_priority` of the outermost mutex a thread holds, or has been
handed over, is the thread's own priority (`OriginInv`), which is why releasing
in the reverse order restores it; that a waiter that holds nothing has no less
urgent one before it in the list (`OrderInv`), which is why the new owner after
a hand-over is as urgent as those who still wait; and where the calls are, what
is left of a mutex that is gone, and what a deletion has made sure of
(`CallInv`, `GoneInv`, `DeleteInv`).

### Timer

| Theorem | Property |
|---|---|
| `Inductive`, `Invariant` | `TimerInv`, timer by timer and as a conjunction |
| `TypeCorrect`, `Order`, `Stopped` | `TypeOK`, `Sorted`, `LinkedCanBeStopped` |
| `Punctual` | `OnTime`, an action property |
| `Ends` | `CheckEnds`, an action property |

The list is ordered by `timeout_tick` modulo `RT_TICK_MAX + 1`, which is no
order. The proof orders it by `left`, the ticks until each timeout, and shows
that the half-range comparisons agree with it (`PassesOrder`, `DueOrder`) as
long as two timeouts are less than half the range apart. `LeftInv` provides
that: a timer is linked at most `MaxLate` ticks after its timeout and the next
check takes it out, so `left` stays between `-MaxLate - 1` and `Half - MaxLate`;
it needs the assumption `init_tick + MaxLate < Half` of `TimerAssumption`, where
the code asserts `init_tick < RT_TICK_MAX / 2` only. A turn of the loop of
`rt_timer_check` is followed through the removal, the callback and the restart
with one predicate on the fields (`During`). `CallInv` says that a timer
that is linked while a call is about to clear its flag (`ClearComes`) is among
the orphans; with it `LinkedCanBeStopped` is inductive.
Together with `Ends`, which is a measure that falls with each turn, the loop of
`rt_timer_check` terminates.

### Event and message queue

`EventQueueProofs` proves every property of the `event_queue` run for the two
objects together, since they work on the same threads:

| Theorem | Property |
|---|---|
| `Calls`, `Pool` | the inductive invariants `CallInv` and `PoolInv` |
| `TypeCorrect` | `TypeOK` |
| `Bits` | `NoneWaitsInVain` |
| `Gifts` | `Delivered`, an action property |
| `Slots` | `SlotsConserved` |
| `Wakeups` | `NoLostWakeup` |
| `Refines` | `RefinesUrgentFifo`: the message queue implements `UrgentFifo` |

`CallInv` is about the threads: each is in a call of one object only, the
suspended ones are linked in that object's list, a deletion is alone
(`MqDeleteInv`, `EvDeleteInv`), and the event set satisfies no waiter
(`BitsInv`). A step of either object is described by the threads it resumes and
those it suspends (`MqMove`, `EvMove`), and one lemma for each says what that
leaves of the other object's part. `PoolInv` is about the slots: there are two
sequences, the queue and the free list, that the `next` fields link one by one
up to `RT_NULL` (`IsChain`), and every slot is in one of them or in the hands
of one call between its sections (`Placed`, `HandInv`). Without the hands the
slots are not conserved, which is why no property of the lists alone is
inductive. Each action's lemma says which slots it moves, and the refinement
follows from the same lemmas (`QueueStep`): a slot linked at an end is a message
sent, the head in the hands of a receiver is a message taken, and a slot in the
hands of a receiver is not written by anyone.

Two definitions walk: `Walked` over the waiters of an event, `Chain` over the
slots. They are recursive functions, and induction over data is done by hand:
the first turn at which a claim fails (`Smallest` of `RtListProofs`) is neither
the first nor one after a turn at which it holds. For the walk of
`rt_event_send` the claim (`WalkOK`) is that the waiters passed so far are
either resumed, with the bits they asked for, or are not satisfied by the bits
that remain; bits are only taken away on the way (`FewerBits`), so a waiter
passed over stays unsatisfied. For the chain, `ChainIs` shows that `Chain` finds
the sequence that the invariant speaks of.

### Only model-checked

Liveness (`RoundRobin`, `WaiterServed`), which is out of the prover's reach.
Every safety invariant, action property and refinement of the passing runs is
also proved.

## 6. Plan

Done: `RtList`, `Scheduler`, `Ipc`, all IPC objects (`Semaphore`, `Mutex`,
`Event`, `Mailbox` over `BoundedFifo`, `MessageQueue` over `UrgentFifo`),
`Mempool`, `Timer`, and proofs for all of them.

Next, in this order:

1. A composition of `Scheduler` with a blocking object, for calls made with the
   scheduler locked and for the priority changes of `Mutex`.
2. `mem.c` (splitting and coalescing against a reference partition of the heap),
   object containers, device open counts.
3. Completion, work queue, data queue and ring buffer of the driver framework.

## 7. Not modelled

Soft timers (`rt_soft_timer_check`, the timer thread): `RT_USING_TIMER_SOFT` is
commented out in `bsp/stm32f407VGT6/rtconfig.h`. `rt_tick_set`, which nothing in
the kernel calls: a jump of the tick breaks the order of the list by design.
`slab.c` (adapted from another system), `module.c` (ELF images), `kservice.c`
and `components.c` (string helpers, printing, start-up), file systems, network
stacks, GUI libraries, shell and board code: vendored or hardware I/O. They are
nearly all of the repository's lines; this project is about the kernel.
`PROJECT.json` gives the reason for each part.
