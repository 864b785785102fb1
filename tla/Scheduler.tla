----------------------------- MODULE Scheduler -----------------------------
(***************************************************************************)
(* The thread scheduler of the RT-Thread 2.1.0 kernel (scheduler.c,        *)
(* thread.c, idle.c, clock.c, irq.c) on a Cortex-M4 (context_gcc.S).       *)
(*                                                                         *)
(* A section of code that runs with interrupts disabled is one step.  A    *)
(* function that opens several such sections takes several steps, and the  *)
(* calling context remembers where it is: pc[t] and tgt[t] for a thread,   *)
(* one entry of irq per nested interrupt.  Only the innermost interrupt    *)
(* runs; threads run when there is none; PendSV, the lowest exception,     *)
(* runs between the two.                                                   *)
(*                                                                         *)
(* Next is the kernel used with the discipline its interfaces need; the    *)
(* two calls that break the ready queues although nothing forbids them     *)
(* (deleting a thread that was never started, deleting a thread whose      *)
(* timer is running) are actions of their own, used by the Undisciplined   *)
(* specifications only.                                                    *)
(***************************************************************************)
EXTENDS Naturals, Sequences, RtList

CONSTANTS
    Thread,         \* the thread objects
    NoThread,       \* RT_NULL, or a pointer to no thread
    Idle,           \* the idle thread
    Main,           \* the thread rt_application_init starts
    Static,         \* the thread objects of rt_thread_init; the others are allocated
    Cleanup,        \* the threads with a cleanup function
    PriorityMax,    \* RT_THREAD_PRIORITY_MAX
    InitPriority,   \* the priority each thread is created with
    InitTick,       \* the time slice, in ticks
    MaxLock,        \* bound: the depth of nested rt_enter_critical
    MaxIrq          \* bound: the depth of nested interrupts

Prio == 0 .. PriorityMax - 1

ASSUME SchedulerAssumption ==
    /\ NoThread \notin Thread
    /\ Idle \in Thread /\ Main \in Thread /\ Idle # Main
    /\ Static \subseteq Thread
    /\ Cleanup \subseteq Thread
    /\ PriorityMax \in Nat \ {0}
    /\ InitPriority \in [Thread -> Prio]
    /\ InitPriority[Idle] = PriorityMax - 1
    /\ InitTick \in Nat \ {0}
    /\ MaxLock \in Nat
    /\ MaxIrq \in Nat

VARIABLES
    stat,               \* rt_thread.stat; "none": no such object
    current_priority,   \* rt_thread.current_priority
    number_mask,        \* rt_thread.number_mask, the set of its bits
    remaining_tick,     \* rt_thread.remaining_tick
    timer,              \* is rt_thread.thread_timer in the timer list?
    priority_table,     \* rt_thread_priority_table
    ready_group,        \* rt_thread_ready_priority_group, the set of its bits
    current_thread,     \* rt_current_thread
    lock_nest,          \* rt_scheduler_lock_nest
    defunct,            \* rt_thread_defunct
    hw,                 \* the thread whose context the processor has loaded
    switch_flag,        \* rt_thread_switch_interrupt_flag (and PendSV pending)
    from_thread,        \* rt_interrupt_from_thread
    to_thread,          \* rt_interrupt_to_thread
    irq,                \* the nested interrupts; its length is rt_interrupt_nest
    pc,                 \* where each thread is inside a kernel call
    tgt,                \* the thread that call is about
    stale               \* ghost: CHANGE_PRIORITY since the last effective rt_schedule

tcb  == <<stat, current_priority, number_mask, remaining_tick, timer>>
rdy  == <<priority_table, ready_group>>
hwv  == <<hw, switch_flag, from_thread, to_thread>>
ctl  == <<pc, tgt>>
vars == <<tcb, rdy, hwv, ctl, current_thread, lock_nest, defunct, irq, stale>>

Stat    == {"none", "init", "ready", "suspend", "close"}
ThreadPc == {"run", "sched", "exit", "suspend1", "resume1", "resume2", "delete2",
             "delete3"}
IrqPc   == {"body", "sched", "yield", "ysched", "tcheck", "tfire"}
TickPc  == {"yield", "ysched", "tcheck", "tfire"}

-----------------------------------------------------------------------------
(* The ready queues: the table and the bitmap after a thread of priority p *)
(* and mask m leaves or joins them.                                        *)

TableRemove(tab, t, p) == [tab EXCEPT ![p] = ListRemove(@, t)]
TableInsert(tab, t, p) == [tab EXCEPT ![p] = InsertLast(@, t)]
(* Mutant: the bit is cleared although the queue holds another thread.     *)
GroupRemoveAlways(grp, tab, p, m) == grp \ m
GroupRemove(grp, tab, p, m) == IF tab[p] = <<>> THEN grp \ m ELSE grp
GroupInsert(grp, m) == grp \cup m

rt_schedule_insert_thread(t) ==
    /\ stat' = [stat EXCEPT ![t] = "ready"]
    /\ priority_table' = TableInsert(priority_table, t, current_priority[t])
    /\ ready_group' = GroupInsert(ready_group, number_mask[t])

(* Its callers set the status.                                             *)
rt_schedule_remove_thread(t) ==
    /\ priority_table' = TableRemove(priority_table, t, current_priority[t])
    /\ ready_group' = GroupRemove(ready_group, priority_table',
                                  current_priority[t], number_mask[t])

Highest(grp) == CHOOSE p \in grp : \A q \in grp : p <= q

(* The thread rt_schedule switches to.  An empty group, or an empty queue  *)
(* whose bit is set, yields a pointer to no thread.                        *)
NextThread(tab, grp) ==
    IF grp # {} /\ tab[Highest(grp)] # <<>> THEN Head(tab[Highest(grp)])
                                            ELSE NoThread

(* Mutant: a second switch before PendSV overwrites from_thread.           *)
rt_hw_context_switch_again(from, to) ==
    /\ from_thread' = from
    /\ to_thread'   = to
    /\ switch_flag' = TRUE
    /\ UNCHANGED hw

(* rt_hw_context_switch and rt_hw_context_switch_interrupt are one routine: *)
(* a switch that is already pending keeps its from_thread.                 *)
rt_hw_context_switch(from, to) ==
    /\ from_thread' = IF switch_flag THEN from_thread ELSE from
    /\ to_thread'   = to
    /\ switch_flag' = TRUE
    /\ UNCHANGED hw

(* Mutant: rt_scheduler_lock_nest is not looked at.                        *)
rt_schedule_unlocked(tab, grp) ==
    LET to == NextThread(tab, grp) IN
    /\ stale' = FALSE
    /\ IF to # current_thread
       THEN /\ current_thread' = to
            /\ rt_hw_context_switch(current_thread, to)
       ELSE UNCHANGED <<current_thread, hwv>>

rt_schedule_on(tab, grp) ==
    LET to == NextThread(tab, grp) IN
    IF lock_nest = 0
    THEN /\ stale' = FALSE
         /\ IF to # current_thread
            THEN /\ current_thread' = to
                 /\ rt_hw_context_switch(current_thread, to)
            ELSE UNCHANGED <<current_thread, hwv>>
    ELSE UNCHANGED <<stale, current_thread, hwv>>

rt_schedule == rt_schedule_on(priority_table, ready_group)

-----------------------------------------------------------------------------
(* Start: rt_application_init and rt_thread_idle_init have started Main    *)
(* and Idle, rt_system_scheduler_start has picked the first thread, and    *)
(* rt_hw_context_switch_to has pended the first PendSV.                    *)

InitTable ==
    [p \in Prio |->
        IF p = InitPriority[Main]
        THEN IF p = InitPriority[Idle] THEN <<Main, Idle>> ELSE <<Main>>
        ELSE IF p = InitPriority[Idle] THEN <<Idle>> ELSE <<>>]

Init ==
    /\ stat = [t \in Thread |-> IF t \in {Main, Idle} THEN "ready" ELSE "none"]
    /\ current_priority = InitPriority
    /\ number_mask = [t \in Thread |->
                        IF t \in {Main, Idle} THEN {InitPriority[t]} ELSE {}]
    /\ remaining_tick = [t \in Thread |-> InitTick]
    /\ timer = [t \in Thread |-> FALSE]
    /\ priority_table = InitTable
    /\ ready_group = {InitPriority[Main], InitPriority[Idle]}
    /\ current_thread = Main
    /\ lock_nest = 0
    /\ defunct = <<>>
    /\ hw = NoThread
    /\ switch_flag = TRUE
    /\ from_thread = NoThread
    /\ to_thread = Main
    /\ irq = <<>>
    /\ pc = [t \in Thread |-> "run"]
    /\ tgt = [t \in Thread |-> NoThread]
    /\ stale = FALSE

-----------------------------------------------------------------------------
(* Who may step.                                                           *)

(* Thread t executes: no interrupt is active and no switch is pending.     *)
Executing(t) == hw = t /\ irq = <<>> /\ ~switch_flag

(* t executes application code.                                            *)
Running(t) == Executing(t) /\ t # Idle /\ pc[t] = "run"

(* No resume or delete of t is under way.  A suspend that has tested the   *)
(* status of t, and not more, keeps nobody from t: neither t itself, nor   *)
(* another call, nor the idle thread.                                      *)
Free(t) == \A u \in Thread : tgt[u] = t => pc[u] = "suspend1"

InIrq(where) == irq # <<>> /\ irq[Len(irq)] = where
IrqGoto(where) == irq' = [irq EXCEPT ![Len(irq)] = where]

Goto(t, where) == pc' = [pc EXCEPT ![t] = where] /\ UNCHANGED tgt
GotoFor(t, where, u) ==
    /\ pc' = [pc EXCEPT ![t] = where]
    /\ tgt' = [tgt EXCEPT ![t] = u]

-----------------------------------------------------------------------------
(* PendSV_Handler: saves the context of from_thread (unless it is null, the *)
(* first time) and loads that of to_thread.                                *)
PendSV ==
    /\ irq = <<>> /\ switch_flag
    /\ switch_flag' = FALSE
    /\ hw' = to_thread
    /\ UNCHANGED <<from_thread, to_thread, tcb, rdy, ctl, current_thread,
                   lock_nest, defunct, irq, stale>>

(* The rt_schedule() at the end of a kernel call.  rt_thread_exit never    *)
(* returns from it.                                                        *)
CallSchedule(self) ==
    /\ Executing(self)
    /\ pc[self] \in {"sched", "exit"}
    /\ rt_schedule
    /\ Goto(self, IF pc[self] = "exit" THEN "exit" ELSE "run")
    /\ UNCHANGED <<tcb, rdy, lock_nest, defunct, irq>>

-----------------------------------------------------------------------------
(* Creating, starting, ending a thread.                                    *)

(* rt_thread_create and rt_thread_init.  Neither sets number_mask: in an   *)
(* allocated object it holds whatever the heap block held, in a static one *)
(* what it held before.                                                    *)
ThreadInit(self, t) ==
    /\ Running(self)
    /\ \/ t \notin Static /\ stat[t] = "none"
       \/ t \in Static /\ stat[t] \in {"none", "close"} /\ ~InList(defunct, t)
    /\ Free(t)
    /\ stat' = [stat EXCEPT ![t] = "init"]
    /\ current_priority' = [current_priority EXCEPT ![t] = InitPriority[t]]
    /\ remaining_tick' = [remaining_tick EXCEPT ![t] = InitTick]
    /\ timer' = [timer EXCEPT ![t] = FALSE]
    /\ \E m \in IF t \in Static THEN {number_mask[t]} ELSE SUBSET Prio :
         number_mask' = [number_mask EXCEPT ![t] = m]
    /\ pc' = [pc EXCEPT ![t] = "run"]
    /\ UNCHANGED <<tgt, rdy, hwv, current_thread, lock_nest, defunct, irq, stale>>

(* rt_thread_startup up to the check in rt_thread_resume.                  *)
Startup(self, t) ==
    /\ Running(self)
    /\ stat[t] = "init" /\ Free(t)
    /\ current_priority' = [current_priority EXCEPT ![t] = InitPriority[t]]
    /\ number_mask' = [number_mask EXCEPT ![t] = {InitPriority[t]}]
    /\ stat' = [stat EXCEPT ![t] = "suspend"]
    /\ GotoFor(self, "resume1", t)
    /\ UNCHANGED <<remaining_tick, timer, rdy, hwv, current_thread, lock_nest,
                   defunct, irq, stale>>

(* rt_thread_exit: the section with interrupts off.                        *)
Exit(self) ==
    /\ Running(self)
    /\ lock_nest = 0
    /\ rt_schedule_remove_thread(self)
    /\ stat' = [stat EXCEPT ![self] = "close"]
    /\ timer' = [timer EXCEPT ![self] = FALSE]
    /\ defunct' = IF self \in Static /\ self \notin Cleanup
                  THEN defunct ELSE InsertFirst(defunct, self)
    /\ Goto(self, "exit")
    /\ UNCHANGED <<current_priority, number_mask, remaining_tick, hwv,
                   current_thread, lock_nest, irq, stale>>

(* Mutant: the thread is left in its queue.                                *)
DeleteNoRemove(self, t) ==
    /\ Running(self)
    /\ t \notin {self, Idle} /\ Free(t) /\ tgt[t] = NoThread
    /\ GotoFor(self, "delete2", t)
    /\ UNCHANGED <<tcb, rdy, hwv, current_thread, lock_nest, defunct, irq, stale>>

(* rt_thread_delete and rt_thread_detach take three sections: the ready    *)
(* queue, the timer, the defunct list.                                     *)
DeleteRemove(self, t) ==
    /\ Running(self)
    /\ t \notin {self, Idle} /\ Free(t) /\ tgt[t] = NoThread
    /\ rt_schedule_remove_thread(t)
    /\ GotoFor(self, "delete2", t)
    /\ UNCHANGED <<tcb, hwv, current_thread, lock_nest, defunct, irq, stale>>

(* With the discipline: t was started, and is not in a timed wait.         *)
Delete1(self, t) ==
    /\ stat[t] \in {"ready", "suspend"} /\ ~timer[t]
    /\ DeleteRemove(self, t)

(* Without: t was created but not started.                                 *)
DeleteUnstarted(self, t) ==
    /\ stat[t] = "init"
    /\ DeleteRemove(self, t)

(* Without: t sleeps, or waits with a timeout.                             *)
DeleteTimed(self, t) ==
    /\ stat[t] = "suspend" /\ timer[t]
    /\ DeleteRemove(self, t)

Delete2(self) ==
    /\ Executing(self) /\ pc[self] = "delete2"
    /\ timer' = [timer EXCEPT ![tgt[self]] = FALSE]
    /\ Goto(self, "delete3")
    /\ UNCHANGED <<stat, current_priority, number_mask, remaining_tick, rdy,
                   hwv, current_thread, lock_nest, defunct, irq, stale>>

Delete3(self) ==
    /\ Executing(self) /\ pc[self] = "delete3"
    /\ stat' = [stat EXCEPT ![tgt[self]] = "close"]
    /\ defunct' = IF tgt[self] \in Static /\ tgt[self] \notin Cleanup
                  THEN defunct ELSE InsertFirst(defunct, tgt[self])
    /\ GotoFor(self, "run", NoThread)
    /\ UNCHANGED <<current_priority, number_mask, remaining_tick, timer, rdy,
                   hwv, current_thread, lock_nest, irq, stale>>

(* Mutant: the thread is freed but not unlinked.                           *)
IdleReapLinked ==
    /\ Executing(Idle) /\ pc[Idle] = "run"
    /\ defunct # <<>>
    /\ LET t == Head(defunct) IN
         stat' = IF t \in Static THEN stat ELSE [stat EXCEPT ![t] = "none"]
    /\ UNCHANGED <<current_priority, number_mask, remaining_tick, timer, rdy,
                   hwv, ctl, current_thread, lock_nest, defunct, irq, stale>>

(* rt_thread_idle_excute: one turn of its loop.  The idle thread unlinks   *)
(* the first defunct thread, and frees it unless it is static.             *)
IdleReap ==
    /\ Executing(Idle) /\ pc[Idle] = "run"
    /\ defunct # <<>>
    /\ LET t == Head(defunct) IN
         stat' = IF t \in Static THEN stat ELSE [stat EXCEPT ![t] = "none"]
    /\ defunct' = Tail(defunct)
    /\ UNCHANGED <<current_priority, number_mask, remaining_tick, timer, rdy,
                   hwv, ctl, current_thread, lock_nest, irq, stale>>

-----------------------------------------------------------------------------
(* Suspending and resuming.                                                *)

(* rt_thread_resume, called by a thread with interrupts enabled: the check, *)
(* the section that unlinks t from whatever list it is in (and leaves the  *)
(* bitmap alone), the section that inserts it.  The caller then calls      *)
(* rt_schedule.                                                            *)
Resume0(self, t) ==
    /\ Running(self)
    /\ stat[t] = "suspend" /\ ~timer[t] /\ Free(t)
    /\ GotoFor(self, "resume1", t)
    /\ UNCHANGED <<tcb, rdy, hwv, current_thread, lock_nest, defunct, irq, stale>>

Resume1(self) ==
    /\ Executing(self) /\ pc[self] = "resume1"
    /\ priority_table' = TableRemove(priority_table, tgt[self],
                                     current_priority[tgt[self]])
    /\ timer' = [timer EXCEPT ![tgt[self]] = FALSE]
    /\ Goto(self, "resume2")
    /\ UNCHANGED <<stat, current_priority, number_mask, remaining_tick,
                   ready_group, hwv, current_thread, lock_nest, defunct, irq,
                   stale>>

Resume2(self) ==
    /\ Executing(self) /\ pc[self] = "resume2"
    /\ rt_schedule_insert_thread(tgt[self])
    /\ GotoFor(self, "sched", NoThread)
    /\ UNCHANGED <<current_priority, number_mask, remaining_tick, timer, hwv,
                   current_thread, lock_nest, defunct, irq, stale>>

(* Mutants: the status is not checked; the timer is not stopped.           *)
ResumeUnchecked(t) ==
    /\ stat[t] \in {"ready", "suspend"} /\ Free(t)
    /\ rt_schedule_insert_thread(t)
    /\ timer' = [timer EXCEPT ![t] = FALSE]
    /\ UNCHANGED <<current_priority, number_mask, remaining_tick, hwv,
                   current_thread, lock_nest, defunct, stale>>

ResumeTimerOn(t) ==
    /\ stat[t] = "suspend" /\ Free(t)
    /\ rt_schedule_insert_thread(t)
    /\ UNCHANGED <<current_priority, number_mask, remaining_tick, timer, hwv,
                   current_thread, lock_nest, defunct, stale>>

(* rt_thread_resume inside a section of its caller, as every IPC release   *)
(* calls it: one step.                                                     *)
ResumeLocked(t) ==
    /\ stat[t] = "suspend" /\ Free(t)
    /\ rt_schedule_insert_thread(t)
    /\ timer' = [timer EXCEPT ![t] = FALSE]
    /\ UNCHANGED <<current_priority, number_mask, remaining_tick, hwv,
                   current_thread, lock_nest, defunct, stale>>

Wake(self, t) ==
    /\ Running(self)
    /\ ResumeLocked(t)
    /\ Goto(self, "sched")
    /\ UNCHANGED irq

(* rt_thread_suspend, called with interrupts enabled: the test of the      *)
(* status, then the section, which does not test it again.  Meanwhile t    *)
(* may run, sleep, exit and be freed.                                      *)
Suspend0(self, t) ==
    /\ Running(self)
    /\ t # Idle /\ stat[t] = "ready" /\ Free(t)
    /\ GotoFor(self, "suspend1", t)
    /\ UNCHANGED <<tcb, rdy, hwv, current_thread, lock_nest, defunct, irq, stale>>

(* The section, on a thread that is alive: what it does to a thread that   *)
(* has ended, to a freed object or to one that is not started again yet is *)
(* not followed.  A thread that suspends itself calls rt_schedule next.    *)
Suspend1(self) ==
    /\ Executing(self) /\ pc[self] = "suspend1"
    /\ stat[tgt[self]] \in {"ready", "suspend"}
    /\ stat' = [stat EXCEPT ![tgt[self]] = "suspend"]
    /\ rt_schedule_remove_thread(tgt[self])
    /\ timer' = [timer EXCEPT ![tgt[self]] = FALSE]
    /\ GotoFor(self, IF tgt[self] = self THEN "sched" ELSE "run", NoThread)
    /\ UNCHANGED <<current_priority, number_mask, remaining_tick, hwv,
                   current_thread, lock_nest, defunct, irq, stale>>

(* rt_thread_sleep, and the timed wait of every IPC call: suspend self,    *)
(* start the timer.  With the scheduler locked the thread goes on running, *)
(* and a second sleep finds it suspended: only the timer starts again.     *)
Sleep(self) ==
    /\ Running(self)
    /\ IF stat[self] = "ready"
       THEN /\ stat' = [stat EXCEPT ![self] = "suspend"]
            /\ rt_schedule_remove_thread(self)
       ELSE UNCHANGED <<stat, rdy>>
    /\ timer' = [timer EXCEPT ![self] = TRUE]
    /\ Goto(self, "sched")
    /\ UNCHANGED <<current_priority, number_mask, remaining_tick, hwv,
                   current_thread, lock_nest, defunct, irq, stale>>

-----------------------------------------------------------------------------
(* Yielding, priorities, the scheduler lock.                               *)

(* rt_thread_yield moves the current thread to the tail of its queue if    *)
(* the queue holds another (tlist.next # tlist.prev).                      *)
YieldMoves(t) ==
    /\ stat[t] = "ready"
    /\ Len(priority_table[current_priority[t]]) >= 2

(* Mutant: the thread goes back to the head of its queue.                  *)
YieldHead(t) ==
    [priority_table EXCEPT ![current_priority[t]] =
        InsertFirst(ListRemove(@, t), t)]

YieldTable(t) ==
    [priority_table EXCEPT ![current_priority[t]] =
        InsertLast(ListRemove(@, t), t)]

Yield(self) ==
    /\ Running(self)
    /\ YieldMoves(self)
    /\ priority_table' = YieldTable(self)
    /\ Goto(self, "sched")
    /\ UNCHANGED <<tcb, ready_group, hwv, current_thread, lock_nest, defunct,
                   irq, stale>>

(* rt_thread_control(CHANGE_PRIORITY): a ready thread changes queue.  No   *)
(* rt_schedule follows.                                                    *)
ChangePriority(self, t, p) ==
    /\ Running(self)
    /\ t # Idle /\ stat[t] \in {"init", "ready", "suspend"} /\ Free(t)
    /\ current_priority' = [current_priority EXCEPT ![t] = p]
    /\ number_mask' = [number_mask EXCEPT ![t] = {p}]
    /\ IF stat[t] = "ready"
       THEN LET tab == TableRemove(priority_table, t, current_priority[t])
                grp == GroupRemove(ready_group, tab, current_priority[t],
                                   number_mask[t])
            IN  /\ priority_table' = TableInsert(tab, t, p)
                /\ ready_group' = GroupInsert(grp, {p})
       ELSE UNCHANGED rdy
    /\ stale' = TRUE
    /\ UNCHANGED <<stat, remaining_tick, timer, hwv, ctl, current_thread,
                   lock_nest, defunct, irq>>

rt_enter_critical(self) ==
    /\ Running(self)
    /\ lock_nest < MaxLock
    /\ lock_nest' = lock_nest + 1
    /\ UNCHANGED <<tcb, rdy, hwv, ctl, current_thread, defunct, irq, stale>>

(* Mutant: the outermost exit does not reschedule.                         *)
ExitNoSchedule(self) ==
    /\ Running(self)
    /\ lock_nest' = IF lock_nest > 0 THEN lock_nest - 1 ELSE 0
    /\ UNCHANGED <<tcb, rdy, hwv, ctl, current_thread, defunct, irq, stale>>

(* The outermost exit calls rt_schedule; so does an exit without an enter. *)
rt_exit_critical(self) ==
    /\ Running(self)
    /\ lock_nest' = IF lock_nest > 0 THEN lock_nest - 1 ELSE 0
    /\ Goto(self, IF lock_nest <= 1 THEN "sched" ELSE "run")
    /\ UNCHANGED <<tcb, rdy, hwv, current_thread, defunct, irq, stale>>

-----------------------------------------------------------------------------
(* Interrupts.                                                             *)

(* rt_interrupt_enter.  rt_timer_check runs with interrupts disabled.      *)
InterruptEnter ==
    /\ Len(irq) < MaxIrq /\ ~InIrq("tfire")
    /\ irq' = Append(irq, "body")
    /\ UNCHANGED <<tcb, rdy, hwv, ctl, current_thread, lock_nest, defunct, stale>>

InterruptLeave ==
    /\ InIrq("body")
    /\ irq' = SubSeq(irq, 1, Len(irq) - 1)
    /\ UNCHANGED <<tcb, rdy, hwv, ctl, current_thread, lock_nest, defunct, stale>>

(* A handler releases an IPC object a thread waits on.                     *)
IrqWake(t) ==
    /\ InIrq("body")
    /\ ResumeLocked(t)
    /\ IrqGoto("sched")
    /\ UNCHANGED ctl

IrqSchedule ==
    /\ InIrq("sched") \/ InIrq("ysched")
    /\ rt_schedule
    /\ IrqGoto(IF InIrq("sched") THEN "body" ELSE "tcheck")
    /\ UNCHANGED <<tcb, rdy, ctl, lock_nest, defunct>>

(* Mutant: the time slice is not reloaded.                                 *)
TickNoReload(n) == n - 1

(* What a tick leaves of the time slice.                                   *)
TickDown(n) == IF n = 1 THEN InitTick ELSE n - 1

(* rt_tick_increase up to rt_timer_check: the time slice of the current    *)
(* thread.  The tick interrupt does not nest in itself.                    *)
IrqTick ==
    LET t == current_thread
    IN  /\ InIrq("body")
        /\ \A i \in 1 .. Len(irq) : irq[i] \notin TickPc
        /\ t # NoThread
        /\ remaining_tick' = [remaining_tick EXCEPT ![t] = TickDown(@)]
        /\ IrqGoto(IF remaining_tick[t] = 1 THEN "yield" ELSE "tcheck")
        /\ UNCHANGED <<stat, current_priority, number_mask, timer, rdy, hwv, ctl,
                       current_thread, lock_nest, defunct, stale>>

(* The rt_thread_yield of the tick, for the thread that is current by now: *)
(* another handler may have come in between.                               *)
IrqYield ==
    LET t == current_thread
    IN  /\ InIrq("yield") /\ t # NoThread
        /\ IF YieldMoves(t)
           THEN priority_table' = YieldTable(t) /\ IrqGoto("ysched")
           ELSE UNCHANGED priority_table /\ IrqGoto("tcheck")
        /\ UNCHANGED <<tcb, ready_group, hwv, ctl, current_thread, lock_nest, defunct,
                       stale>>

(* rt_timer_check disables interrupts, runs the callback of each timer     *)
(* that is due, and enables them again.  Which timers are due is left      *)
(* open here.                                                              *)
TimerCheck ==
    /\ InIrq("tcheck")
    /\ IrqGoto("tfire")
    /\ UNCHANGED <<tcb, rdy, hwv, ctl, current_thread, lock_nest, defunct, stale>>

(* rt_thread_timeout, the callback: insert the thread, then rt_schedule.   *)
TimerFire(t) ==
    /\ InIrq("tfire") /\ timer[t]
    /\ timer' = [timer EXCEPT ![t] = FALSE]
    /\ rt_schedule_insert_thread(t)
    /\ rt_schedule_on(priority_table', ready_group')
    /\ UNCHANGED <<current_priority, number_mask, remaining_tick, ctl,
                   lock_nest, defunct, irq>>

TimerDone ==
    /\ InIrq("tfire")
    /\ IrqGoto("body")
    /\ UNCHANGED <<tcb, rdy, hwv, ctl, current_thread, lock_nest, defunct, stale>>

-----------------------------------------------------------------------------
ThreadStep(self) ==
    \/ CallSchedule(self) \/ Exit(self) \/ Sleep(self) \/ Yield(self)
    \/ Delete2(self) \/ Delete3(self) \/ Resume1(self) \/ Resume2(self)
    \/ Suspend1(self)
    \/ rt_enter_critical(self) \/ rt_exit_critical(self)
    \/ \E t \in Thread :
         \/ ThreadInit(self, t) \/ Startup(self, t) \/ Delete1(self, t)
         \/ Resume0(self, t) \/ Wake(self, t) \/ Suspend0(self, t)
         \/ \E p \in Prio : ChangePriority(self, t, p)

Interrupt ==
    \/ InterruptEnter \/ InterruptLeave \/ IrqSchedule \/ IrqTick \/ IrqYield
    \/ TimerCheck \/ TimerDone
    \/ \E t \in Thread : IrqWake(t) \/ TimerFire(t)

Next ==
    \/ PendSV \/ IdleReap \/ Interrupt
    \/ \E self \in Thread : ThreadStep(self)

Spec == Init /\ [][Next]_vars

(* The same kernel, used without the discipline of Delete1.                *)
UnstartedSpec ==
    Init /\ [][Next \/ \E self, t \in Thread : DeleteUnstarted(self, t)]_vars

TimedSpec ==
    Init /\ [][Next \/ \E self, t \in Thread : DeleteTimed(self, t)]_vars

(* Fairness.  The tick interrupt recurs, handlers end, and interrupts do   *)
(* not use up the processor: PendSV, and the thread that is executing a    *)
(* kernel call, get their turn.  A thread that locked the scheduler        *)
(* unlocks it.                                                             *)
HandlerStep == IrqSchedule \/ IrqYield \/ TimerCheck \/ TimerDone
FinishCall(t) ==
    \/ CallSchedule(t) \/ Suspend1(t) \/ Resume1(t) \/ Resume2(t)
    \/ Delete2(t) \/ Delete3(t)
Unlock(t) == lock_nest > 0 /\ rt_exit_critical(t)

Fairness ==
    /\ WF_vars(InterruptEnter) /\ WF_vars(HandlerStep)
    /\ SF_vars(IrqTick) /\ SF_vars(InterruptLeave) /\ SF_vars(PendSV)
    /\ SF_vars(\E t \in Thread : FinishCall(t))
    /\ SF_vars(\E t \in Thread : Unlock(t))

FairSpec == Spec /\ Fairness

-----------------------------------------------------------------------------
(* Properties.                                                             *)

(* Every variable holds a value of the type its declaration in rtdef.h,    *)
(* scheduler.c or context_gcc.S gives it.                                  *)
TypeOK ==
    /\ stat \in [Thread -> Stat]
    /\ current_priority \in [Thread -> Prio]
    /\ number_mask \in [Thread -> SUBSET Prio]
    /\ remaining_tick \in [Thread -> 1 .. InitTick]
    /\ timer \in [Thread -> BOOLEAN]
    /\ priority_table \in [Prio -> Seq(Thread)]
    /\ ready_group \in SUBSET Prio
    /\ current_thread \in Thread
    /\ lock_nest \in 0 .. MaxLock
    /\ defunct \in Seq(Thread)
    /\ hw \in Thread \cup {NoThread}
    /\ switch_flag \in BOOLEAN
    /\ from_thread \in Thread \cup {NoThread}
    /\ to_thread \in Thread
    /\ irq \in Seq(IrqPc) /\ Len(irq) <= MaxIrq
    /\ pc \in [Thread -> ThreadPc]
    /\ tgt \in [Thread -> Thread \cup {NoThread}]
    /\ stale \in BOOLEAN

(* t has been taken off its queue by a delete that has not closed it yet.  *)
Unlinked(t) == \E u \in Thread : pc[u] \in {"delete2", "delete3"} /\ tgt[u] = t

(* A thread is linked in a ready queue exactly when it is READY (and not   *)
(* being deleted), in the queue of its current priority, and once.         *)
ReadyQueues ==
    \A p \in Prio :
      /\ NoRepeat(priority_table[p])
      /\ \A t \in Thread :
           InList(priority_table[p], t) <=>
             (stat[t] = "ready" /\ current_priority[t] = p /\ ~Unlinked(t))

(* The bitmap rt_schedule searches has the bit of exactly the priorities   *)
(* whose queue holds a thread.                                             *)
GroupExact == \A p \in Prio : p \in ready_group <=> priority_table[p] # <<>>

(* PendSV saves the context of the thread that is really executing and     *)
(* loads that of rt_current_thread, however many calls of                  *)
(* rt_hw_context_switch came before it.                                    *)
SwitchSound ==
    IF switch_flag THEN from_thread = hw /\ to_thread = current_thread
                   ELSE hw = current_thread

(* No rt_schedule is due: the scheduler is unlocked, no handler is about   *)
(* to call it, nor the thread that will execute next, and no priority      *)
(* changed since the last one.                                             *)
Settled ==
    /\ lock_nest = 0 /\ ~stale
    /\ switch_flag \/ pc[hw] \notin {"sched", "exit"}
    /\ \A i \in 1 .. Len(irq) : irq[i] \notin {"sched", "ysched"}

(* t is the first of the highest queue that holds a thread.                *)
AtTop(t, tab) ==
    \E p \in Prio :
      /\ tab[p] # <<>>
      /\ t = Head(tab[p])
      /\ \A q \in Prio : q < p => tab[q] = <<>>

(* Once no rt_schedule is due, rt_current_thread is the thread at the head *)
(* of the highest queue that holds one, judged by the queues and not by    *)
(* the bitmap: no path of the kernel forgets to reschedule.                *)
RunningIsHighest == Settled => AtTop(current_thread, priority_table)

(* The assertion of rt_thread_timeout: the thread whose timer expires is   *)
(* suspended.  No path that makes a thread ready or closes it leaves its   *)
(* timer running.                                                          *)
TimerOnlySuspended == \A t \in Thread : timer[t] => stat[t] = "suspend"

(* The idle thread frees an object nobody refers to: it is not executing,  *)
(* not about to, not the target of a resume or delete and in no list.  The *)
(* one exception is a rt_thread_suspend caught between its test and its    *)
(* section: the thread it found READY may have run, exited and been freed, *)
(* and the call still holds the pointer.                                   *)
FreedUnreferenced ==
    \A t \in Thread : stat[t] = "none" =>
      /\ t \notin {hw, current_thread} /\ ~timer[t] /\ Free(t)
      /\ ~InList(defunct, t)
      /\ \A p \in Prio : ~InList(priority_table[p], t)

(* A closed thread waits for the idle thread once; it never runs again.    *)
(* rt_thread_delete removes it from the thread queue for good.             *)
DeletedStaysOut ==
    \A t \in Thread : stat[t] = "close" =>
      \A p \in Prio : ~InList(priority_table[p], t)

(* While the scheduler is locked the processor stays with the thread that  *)
(* locked it, whatever handlers and timers make ready.                     *)
LockKeepsProcessor == [][lock_nest > 0 /\ lock_nest' > 0 => hw' = hw]_vars

(* Threads that stay at the highest ready priority share the processor:    *)
(* each of them becomes rt_current_thread again and again, by time slice   *)
(* alone (rt_tick_increase and rt_thread_yield), also when the scheduler   *)
(* is locked at the time of the tick.                                      *)
TopReady(t) ==
    /\ InList(priority_table[current_priority[t]], t)
    /\ \A p \in Prio : p < current_priority[t] => priority_table[p] = <<>>

RoundRobin ==
    \A t \in Thread : []<>(current_thread = t \/ ~TopReady(t) \/ stale)
=============================================================================
