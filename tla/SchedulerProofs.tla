-------------------------- MODULE SchedulerProofs --------------------------
(* Proofs about Scheduler, for every set of threads and every number of    *)
(* priorities.                                                             *)
EXTENDS Scheduler, RtListProofs, SequenceTheorems, WellFoundedInduction, TLAPS

-----------------------------------------------------------------------------
(* The ready queues.                                                       *)

(* Queues without repetition, and a bitmap that agrees with them.          *)
TableOK(tab, grp) ==
    /\ tab \in [Prio -> Seq(Thread)]
    /\ grp \in SUBSET Prio
    /\ \A p \in Prio : NoRepeat(tab[p])
    /\ \A p \in Prio : p \in grp <=> tab[p] # <<>>

(* rt_schedule_insert_thread adds t to one queue.                          *)
Inserted(new, tab, t, p) ==
    \A q \in Prio : \A x :
      InList(new[q], x) <=> InList(tab[q], x) \/ (q = p /\ x = t)

LEMMA InsertTable ==
    ASSUME NEW tab, NEW grp, TableOK(tab, grp),
           NEW t \in Thread, NEW p \in Prio, ~InList(tab[p], t),
           NEW new, new = TableInsert(tab, t, p)
    PROVE  TableOK(new, GroupInsert(grp, {p})) /\ Inserted(new, tab, t, p)
  <1>1. tab[p] \in Seq(Thread) /\ NoRepeat(tab[p])
    BY DEF TableOK
  <1>2. /\ InsertLast(tab[p], t) \in Seq(Thread)
        /\ InsertLast(tab[p], t) # <<>>
        /\ NoRepeat(InsertLast(tab[p], t))
        /\ \A x : InList(InsertLast(tab[p], t), x) <=> InList(tab[p], x) \/ x = t
    BY <1>1, InsertLastFacts
  <1>3. /\ new \in [Prio -> Seq(Thread)]
        /\ new[p] = InsertLast(tab[p], t)
        /\ \A q \in Prio : q # p => new[q] = tab[q]
    BY <1>2 DEF TableInsert, TableOK
  <1>4. TableOK(new, GroupInsert(grp, {p}))
    BY <1>2, <1>3 DEF TableOK, GroupInsert
  <1>5. Inserted(new, tab, t, p)
    BY <1>2, <1>3 DEF Inserted
  <1> QED BY <1>4, <1>5

(* rt_schedule_remove_thread takes t off one queue and leaves the head of  *)
(* a queue whose head is not t.                                            *)
Removed(new, tab, t, p) ==
    /\ \A q \in Prio : \A x :
         InList(new[q], x) <=> InList(tab[q], x) /\ ~(q = p /\ x = t)
    /\ \A q \in Prio : (tab[q] # <<>> /\ tab[q][1] # t) =>
         new[q] # <<>> /\ new[q][1] = tab[q][1]
    /\ \A q \in Prio : tab[q] = <<>> => new[q] = <<>>

LEMMA RemoveTable ==
    ASSUME NEW tab, NEW grp, TableOK(tab, grp), NEW t \in Thread, NEW p \in Prio,
           NEW new, new = TableRemove(tab, t, p)
    PROVE  /\ TableOK(new, GroupRemove(grp, new, p, {p}))
           /\ Removed(new, tab, t, p)
  <1> DEFINE r == ListRemove(tab[p], t)
  <1>1. tab[p] \in Seq(Thread) /\ NoRepeat(tab[p])
    BY DEF TableOK
  <1>2. /\ r \in Seq(Thread) /\ NoRepeat(r)
        /\ \A x : InList(r, x) <=> InList(tab[p], x) /\ x # t
        /\ (tab[p] # <<>> /\ tab[p][1] # t) => r # <<>> /\ r[1] = tab[p][1]
    BY <1>1, ListRemoveFacts
  <1>3. /\ new \in [Prio -> Seq(Thread)]
        /\ new[p] = r
        /\ \A q \in Prio : q # p => new[q] = tab[q]
    BY <1>2 DEF TableRemove, TableOK, r
  <1>4. tab[p] = <<>> => r = <<>>
    BY DEF ListRemove, InList
  <1> HIDE DEF r
  <1>5. TableOK(new, GroupRemove(grp, new, p, {p}))
    BY <1>2, <1>3, <1>4 DEF TableOK, GroupRemove
  <1>6. Removed(new, tab, t, p)
    BY <1>2, <1>3, <1>4 DEF Removed
  <1> QED BY <1>5, <1>6

(* rt_thread_yield permutes one queue.                                     *)
SameMembers(new, tab) ==
    \A q \in Prio : \A x : InList(new[q], x) <=> InList(tab[q], x)

LEMMA MoveTable ==
    ASSUME NEW tab, NEW grp, TableOK(tab, grp),
           NEW t \in Thread, NEW p \in Prio, InList(tab[p], t),
           NEW new, new = [tab EXCEPT ![p] = InsertLast(ListRemove(@, t), t)]
    PROVE  /\ TableOK(new, grp)
           /\ SameMembers(new, tab)
  <1> DEFINE r == ListRemove(tab[p], t)
             m == InsertLast(r, t)
  <1>1. tab[p] \in Seq(Thread) /\ NoRepeat(tab[p]) /\ tab[p] # <<>>
    BY DEF TableOK, InList
  <1>2. /\ r \in Seq(Thread) /\ NoRepeat(r)
        /\ \A x : InList(r, x) <=> InList(tab[p], x) /\ x # t
    BY <1>1, ListRemoveFacts
  <1> HIDE DEF r
  <1>3. /\ m \in Seq(Thread) /\ NoRepeat(m) /\ m # <<>>
        /\ \A x : InList(m, x) <=> InList(r, x) \/ x = t
    BY <1>2, InsertLastFacts
  <1>4. /\ new \in [Prio -> Seq(Thread)]
        /\ new[p] = m
        /\ \A q \in Prio : q # p => new[q] = tab[q]
    BY <1>3 DEF TableOK, r
  <1> HIDE DEF m
  <1>5. TableOK(new, grp)
    BY <1>1, <1>3, <1>4 DEF TableOK
  <1>6. SameMembers(new, tab)
    BY <1>2, <1>3, <1>4 DEF SameMembers
  <1> QED BY <1>5, <1>6

(* __rt_ffs: a group that is not empty has a highest priority.             *)
LEMMA HighestExists ==
    ASSUME NEW grp \in SUBSET Prio, grp # {}
    PROVE  Highest(grp) \in grp /\ \A q \in grp : Highest(grp) <= q
  <1>1. grp \subseteq Nat
    BY SchedulerAssumption DEF Prio
  <1>2. \E p \in grp : \A q \in grp : ~(<<q, p>> \in OpToRel(<, Nat))
    BY <1>1, NatLessThanWellFounded, WFMin
  <1>3. \A p, q \in grp : ~(<<q, p>> \in OpToRel(<, Nat)) => p <= q
    BY <1>1 DEF OpToRel
  <1>4. \E p \in grp : \A q \in grp : p <= q
    BY <1>2, <1>3
  <1> QED BY <1>4 DEF Highest

(* rt_schedule finds the head of the highest queue that holds a thread.    *)
LEMMA NextThreadFacts ==
    ASSUME NEW tab, NEW grp, TableOK(tab, grp),
           NEW i \in Prio, InList(tab[i], Idle)
    PROVE  /\ NextThread(tab, grp) \in Thread
           /\ \E p \in Prio : InList(tab[p], NextThread(tab, grp))
           /\ AtTop(NextThread(tab, grp), tab)
  <1>1. i \in grp
    BY DEF TableOK, InList
  <1> DEFINE h == Highest(grp)
  <1>2. h \in grp /\ \A q \in grp : h <= q
    BY <1>1, HighestExists DEF TableOK
  <1> HIDE DEF h
  <1>3. h \in Prio /\ tab[h] # <<>> /\ tab[h] \in Seq(Thread)
    BY <1>2 DEF TableOK
  <1>4. NextThread(tab, grp) = Head(tab[h])
    BY <1>1, <1>3 DEF NextThread, h
  <1>5. Head(tab[h]) \in Thread /\ InList(tab[h], Head(tab[h]))
    BY <1>3, EmptyList
  <1>6. \A q \in Prio : q < h => tab[q] = <<>>
    <2> SUFFICES ASSUME NEW q \in Prio, q < h, q \in grp PROVE FALSE
      BY DEF TableOK
    <2>1. q \in Nat /\ h \in Nat /\ h <= q
      BY <1>2, <1>3, SchedulerAssumption DEF Prio
    <2> QED BY <2>1
  <1> QED BY <1>3, <1>4, <1>5, <1>6 DEF AtTop

-----------------------------------------------------------------------------
(* The inductive invariant.  ReadyQueues and GroupExact are not inductive  *)
(* alone: that a thread is queued once needs the targets of calls under    *)
(* way to be what the calls found, that the bitmap is exact needs the mask *)
(* of every started thread, and that rt_schedule always finds a thread     *)
(* needs Idle to stay ready.                                               *)

Started == {"ready", "suspend"}

MaskInv == \A t \in Thread :
    stat[t] \in Started => number_mask[t] = {current_priority[t]}

(* What a call under way knows of its target.                              *)
CallShape == \A u \in Thread :
    pc[u] \in {"run", "sched", "exit"} <=> tgt[u] = NoThread

ResumeInv == \A u \in Thread :
    pc[u] \in {"resume1", "resume2"} =>
      stat[tgt[u]] = "suspend" /\ ~timer[tgt[u]]

DeleteInv == \A u \in Thread :
    pc[u] \in {"delete2", "delete3"} =>
      /\ stat[tgt[u]] \in Started /\ ~timer[tgt[u]]
      /\ tgt[tgt[u]] = NoThread /\ tgt[u] # current_thread

(* Only started threads are inside calls, one of them per target, and no   *)
(* other thread's call is about the current thread: but for suspends that  *)
(* have only tested the status of their target.                            *)
CallerInv == \A u \in Thread :
    /\ stat[u] \notin Started => tgt[u] = NoThread
    /\ pc[u] = "exit" => stat[u] \in {"close", "none"}

TargetInv ==
    /\ \A u \in Thread : tgt[u] = current_thread =>
         u = current_thread \/ pc[u] = "suspend1"
    /\ \A u, v \in Thread : tgt[u] # NoThread /\ tgt[u] = tgt[v] =>
         u = v \/ pc[u] = "suspend1" \/ pc[v] = "suspend1"

CallInv == CallShape /\ ResumeInv /\ DeleteInv /\ CallerInv /\ TargetInv

(* The current thread is started, unless it is leaving through             *)
(* rt_thread_exit; a thread that is switched to is ready.                  *)
CurrentInv ==
    /\ stat[current_thread] \in Started \cup {"close"}
    /\ stat[current_thread] = "close" => pc[current_thread] = "exit"
    /\ switch_flag => stat[current_thread] = "ready"
    /\ hw # NoThread => stat[hw] \in Started \cup {"close"}
    /\ lock_nest > 0 => ~switch_flag

DefunctInv ==
    /\ NoRepeat(defunct)
    /\ \A t \in Thread : InList(defunct, t) => stat[t] = "close"

IdleInv ==
    /\ stat[Idle] = "ready" /\ pc[Idle] = "run"
    /\ \A u \in Thread : tgt[u] # Idle

SchedulerInv ==
    /\ TypeOK /\ ReadyQueues /\ GroupExact /\ SwitchSound /\ TimerOnlySuspended
    /\ MaskInv /\ CallInv /\ CurrentInv /\ DefunctInv /\ IdleInv

USE SchedulerAssumption

(* The queues of a state that satisfies the invariant.                     *)
LEMMA InvTable ==
    ASSUME SchedulerInv
    PROVE  /\ TableOK(priority_table, ready_group)
           /\ current_priority[Idle] \in Prio
           /\ InList(priority_table[current_priority[Idle]], Idle)
           /\ ~Unlinked(Idle)
  <1>1. TableOK(priority_table, ready_group)
    BY DEF SchedulerInv, TypeOK, ReadyQueues, GroupExact, TableOK
  <1>2. current_priority[Idle] \in Prio
    BY DEF SchedulerInv, TypeOK
  <1>3. stat[Idle] = "ready" /\ ~Unlinked(Idle)
    BY DEF SchedulerInv, IdleInv, Unlinked
  <1> QED BY <1>1, <1>2, <1>3 DEF SchedulerInv, ReadyQueues

(* rt_list_remove of a suspended thread does not touch the queues.         *)
LEMMA RemoveSuspended ==
    ASSUME SchedulerInv, NEW t \in Thread, stat[t] # "ready"
    PROVE  TableRemove(priority_table, t, current_priority[t]) = priority_table
  <1>1. current_priority[t] \in Prio /\ priority_table \in [Prio -> Seq(Thread)]
    BY DEF SchedulerInv, TypeOK
  <1>2. ~InList(priority_table[current_priority[t]], t)
    BY <1>1 DEF SchedulerInv, ReadyQueues
  <1> QED BY <1>1, <1>2 DEF TableRemove, ListRemove

(* rt_schedule_insert_thread of a suspended thread.                        *)
LEMMA InsertStep ==
    ASSUME SchedulerInv, NEW t \in Thread, stat[t] = "suspend",
           rt_schedule_insert_thread(t)
    PROVE  /\ stat' = [stat EXCEPT ![t] = "ready"]
           /\ TableOK(priority_table', ready_group')
           /\ \A q \in Prio, x \in Thread : InList(priority_table'[q], x) <=>
                InList(priority_table[q], x) \/ (q = current_priority[t] /\ x = t)
  <1> DEFINE p == current_priority[t]
  <1>1. TableOK(priority_table, ready_group)
    BY InvTable
  <1>2. p \in Prio /\ number_mask[t] = {p}
    BY DEF SchedulerInv, TypeOK, MaskInv, Started
  <1>3. ~InList(priority_table[p], t)
    BY <1>2 DEF SchedulerInv, ReadyQueues
  <1>4. /\ priority_table' = TableInsert(priority_table, t, p)
        /\ ready_group' = GroupInsert(ready_group, {p})
    BY <1>2 DEF rt_schedule_insert_thread
  <1> HIDE DEF p
  <1>5. /\ TableOK(priority_table', ready_group')
        /\ Inserted(priority_table', priority_table, t, p)
    BY <1>1, <1>2, <1>3, <1>4, InsertTable
  <1> QED BY <1>5 DEF rt_schedule_insert_thread, p, Inserted

(* rt_schedule_remove_thread of a started thread.                          *)
LEMMA RemoveStep ==
    ASSUME SchedulerInv, NEW t \in Thread, stat[t] \in Started,
           rt_schedule_remove_thread(t)
    PROVE  /\ TableOK(priority_table', ready_group')
           /\ Removed(priority_table', priority_table, t, current_priority[t])
           /\ \A q \in Prio, x \in Thread : InList(priority_table'[q], x) <=>
                InList(priority_table[q], x) /\ x # t
  <1> DEFINE p == current_priority[t]
             new == TableRemove(priority_table, t, p)
  <1>1. TableOK(priority_table, ready_group)
    BY InvTable
  <1>2. p \in Prio /\ number_mask[t] = {p}
    BY DEF SchedulerInv, TypeOK, MaskInv
  <1>3. \A q \in Prio : q # p => ~InList(priority_table[q], t)
    BY DEF SchedulerInv, ReadyQueues
  <1>4. /\ priority_table' = new
        /\ ready_group' = GroupRemove(ready_group, new, p, {p})
    BY <1>2 DEF rt_schedule_remove_thread
  <1>5. /\ TableOK(new, GroupRemove(ready_group, new, p, {p}))
        /\ Removed(new, priority_table, t, p)
    BY <1>1, <1>2, RemoveTable
  <1> HIDE DEF p, new
  <1>6. \A q \in Prio, x \in Thread :
          InList(new[q], x) <=> InList(priority_table[q], x) /\ x # t
    BY <1>3, <1>5 DEF Removed
  <1> QED BY <1>4, <1>5, <1>6 DEF p

(* rt_schedule either changes nothing or pends a switch to a queued        *)
(* thread; unlocked, it leaves the current thread at the top.              *)
LEMMA ScheduleStep ==
    ASSUME SchedulerInv, NEW tab, NEW grp, TableOK(tab, grp),
           NEW i \in Prio, InList(tab[i], Idle),
           rt_schedule_on(tab, grp)
    PROVE  /\ current_thread' \in Thread
           /\ hw' = hw /\ switch_flag' \in BOOLEAN /\ to_thread' \in Thread
           /\ from_thread' \in Thread \cup {NoThread}
           /\ stale' \in BOOLEAN
           /\ SwitchSound'
           /\ \/ current_thread' = current_thread /\ switch_flag' = switch_flag
              \/ /\ switch_flag' = TRUE /\ lock_nest = 0
                 /\ \E p \in Prio : InList(tab[p], current_thread')
           /\ lock_nest = 0 => AtTop(current_thread', tab)
  <1> DEFINE to == NextThread(tab, grp)
  <1>1. to \in Thread /\ (\E p \in Prio : InList(tab[p], to)) /\ AtTop(to, tab)
    BY NextThreadFacts
  <1> HIDE DEF to
  <1>2. /\ current_thread \in Thread /\ to_thread \in Thread
        /\ from_thread \in Thread \cup {NoThread}
        /\ hw \in Thread \cup {NoThread}
        /\ switch_flag \in BOOLEAN /\ stale \in BOOLEAN
        /\ switch_flag => from_thread = hw /\ to_thread = current_thread
        /\ ~switch_flag => hw = current_thread
    BY DEF SchedulerInv, TypeOK, SwitchSound
  <1>3. CASE lock_nest = 0 /\ to # current_thread
    <2>1. /\ current_thread' = to /\ to_thread' = to /\ hw' = hw
          /\ from_thread' = IF switch_flag THEN from_thread ELSE current_thread
          /\ switch_flag' = TRUE /\ stale' = FALSE
      BY <1>3 DEF rt_schedule_on, rt_hw_context_switch, to
    <2>2. from_thread' = hw
      BY <1>2, <2>1
    <2>3. SwitchSound'
      BY <2>1, <2>2 DEF SwitchSound
    <2> QED BY <1>1, <1>2, <1>3, <2>1, <2>2, <2>3
  <1>4. CASE ~(lock_nest = 0 /\ to # current_thread)
    <2>1. /\ UNCHANGED <<current_thread, hw, switch_flag, from_thread, to_thread>>
          /\ stale' \in {FALSE, stale}
      BY <1>4 DEF rt_schedule_on, to, hwv
    <2>2. SwitchSound'
      BY <1>2, <2>1 DEF SwitchSound
    <2> QED BY <1>1, <1>2, <1>4, <2>1, <2>2
  <1> QED BY <1>3, <1>4

-----------------------------------------------------------------------------
(* The invariant is preserved: one lemma per action.                       *)

LEMMA InitInv ==
    ASSUME Init PROVE SchedulerInv
  <1> USE DEF Init, Started
  <1>1. PriorityMax - 1 \in Prio /\ InitPriority[Main] \in Prio
    BY DEF Prio
  <1>2. \A p \in Prio : InitTable[p] \in Seq(Thread)
    BY DEF InitTable
  <1>3. TypeOK
    <2>1. priority_table \in [Prio -> Seq(Thread)]
      BY <1>2 DEF InitTable
    <2>2. 0 \in 0 .. MaxLock /\ InitTick \in 1 .. InitTick
      OBVIOUS
    <2>3. /\ stat \in [Thread -> Stat] /\ current_priority \in [Thread -> Prio]
          /\ number_mask \in [Thread -> SUBSET Prio]
          /\ remaining_tick \in [Thread -> 1 .. InitTick]
      BY <2>2 DEF Stat
    <2>4. timer \in [Thread -> BOOLEAN] /\ switch_flag \in BOOLEAN /\ stale \in BOOLEAN
      OBVIOUS
    <2>5. /\ pc \in [Thread -> ThreadPc]
          /\ tgt \in [Thread -> Thread \cup {NoThread}]
      BY DEF ThreadPc
    <2>6. ready_group \in SUBSET Prio
      BY <1>1
    <2>7. irq \in Seq(IrqPc) /\ Len(irq) <= MaxIrq /\ defunct \in Seq(Thread)
      OBVIOUS
    <2> QED BY <2>1, <2>2, <2>3, <2>4, <2>5, <2>6, <2>7 DEF TypeOK
  <1>4. ~\E t \in Thread : Unlinked(t)
    BY DEF Unlinked
  <1>5. ReadyQueues
    <2> SUFFICES ASSUME NEW p \in Prio
                 PROVE  /\ NoRepeat(InitTable[p])
                        /\ \A t \in Thread : InList(InitTable[p], t) <=>
                             (t \in {Main, Idle} /\ InitPriority[t] = p)
      BY <1>4 DEF ReadyQueues
    <2> QED BY DEF InitTable, NoRepeat, InList
  <1>6. GroupExact
    BY DEF GroupExact, InitTable
  <1>7. SwitchSound /\ TimerOnlySuspended /\ MaskInv /\ CallInv /\ IdleInv
    BY DEF SwitchSound, TimerOnlySuspended, MaskInv, IdleInv, CallInv,
           CallShape, ResumeInv, DeleteInv, CallerInv, TargetInv
  <1>8. CurrentInv /\ DefunctInv
    BY DEF CurrentInv, DefunctInv, NoRepeat, InList
  <1> QED BY <1>3, <1>5, <1>6, <1>7, <1>8 DEF SchedulerInv

(* A step of a handler that changes only its own program counter.          *)
LEMMA IrqOnly ==
    ASSUME SchedulerInv, irq' \in Seq(IrqPc), Len(irq') <= MaxIrq,
           UNCHANGED <<tcb, rdy, hwv, ctl, current_thread, lock_nest, defunct, stale>>
    PROVE  SchedulerInv'
  <1> USE DEF tcb, rdy, hwv, ctl
  <1>1. TypeOK'
    BY DEF SchedulerInv, TypeOK
  <1>2. ReadyQueues' /\ GroupExact'
    BY DEF SchedulerInv, ReadyQueues, GroupExact, Unlinked
  <1>3. SwitchSound' /\ TimerOnlySuspended' /\ MaskInv'
    BY DEF SchedulerInv, SwitchSound, TimerOnlySuspended, MaskInv
  <1>4. CallInv' /\ CurrentInv' /\ DefunctInv' /\ IdleInv'
    BY DEF SchedulerInv, CurrentInv, DefunctInv, IdleInv, CallInv,
           CallShape, ResumeInv, DeleteInv, CallerInv, TargetInv
  <1> QED BY <1>1, <1>2, <1>3, <1>4 DEF SchedulerInv

LEMMA IrqGotoType ==
    ASSUME irq \in Seq(IrqPc), Len(irq) <= MaxIrq, irq # <<>>,
           NEW w \in IrqPc, IrqGoto(w)
    PROVE  irq' \in Seq(IrqPc) /\ Len(irq') <= MaxIrq
  BY DEF IrqGoto

LEMMA IrqTypes ==
    ASSUME SchedulerInv
    PROVE  irq \in Seq(IrqPc) /\ Len(irq) <= MaxIrq /\ Len(irq) \in Nat
  BY DEF SchedulerInv, TypeOK

LEMMA InterruptEnterInv ==
    ASSUME SchedulerInv, InterruptEnter PROVE SchedulerInv'
  <1>1. irq' \in Seq(IrqPc) /\ Len(irq') <= MaxIrq
    BY IrqTypes DEF InterruptEnter, IrqPc
  <1> QED BY <1>1, IrqOnly DEF InterruptEnter

LEMMA InterruptLeaveInv ==
    ASSUME SchedulerInv, InterruptLeave PROVE SchedulerInv'
  <1>1. irq # <<>>
    BY DEF InterruptLeave, InIrq
  <1>2. irq' \in Seq(IrqPc) /\ Len(irq') <= MaxIrq
    BY <1>1, IrqTypes DEF InterruptLeave
  <1> QED BY <1>2, IrqOnly DEF InterruptLeave

LEMMA TimerCheckInv ==
    ASSUME SchedulerInv, TimerCheck \/ TimerDone PROVE SchedulerInv'
  <1>1. irq # <<>>
    BY DEF TimerCheck, TimerDone, InIrq
  <1>2. irq' \in Seq(IrqPc) /\ Len(irq') <= MaxIrq
    BY <1>1, IrqTypes, IrqGotoType DEF TimerCheck, TimerDone, IrqPc
  <1> QED BY <1>2, IrqOnly DEF TimerCheck, TimerDone

LEMMA PendSVInv ==
    ASSUME SchedulerInv, PendSV PROVE SchedulerInv'
  <1> USE DEF PendSV, tcb, rdy, ctl
  <1>1. TypeOK'
    BY DEF SchedulerInv, TypeOK
  <1>2. ReadyQueues' /\ GroupExact'
    BY DEF SchedulerInv, ReadyQueues, GroupExact, Unlinked
  <1>3. to_thread = current_thread
    BY DEF SchedulerInv, SwitchSound
  <1>4. SwitchSound' /\ TimerOnlySuspended' /\ MaskInv'
    BY <1>3 DEF SchedulerInv, SwitchSound, TimerOnlySuspended, MaskInv
  <1>5. CallInv' /\ DefunctInv' /\ IdleInv'
    BY DEF SchedulerInv, DefunctInv, IdleInv, CallInv,
           CallShape, ResumeInv, DeleteInv, CallerInv, TargetInv
  <1>6. CurrentInv'
    BY <1>3 DEF SchedulerInv, CurrentInv
  <1> QED BY <1>1, <1>2, <1>4, <1>5, <1>6 DEF SchedulerInv

(* The executing thread is the current one; in application code it is      *)
(* started, and nobody is resuming or deleting it.                         *)
LEMMA ExecutingFacts ==
    ASSUME SchedulerInv, NEW self \in Thread, Executing(self)
    PROVE  self = current_thread /\ self = hw /\ ~switch_flag
  BY DEF SchedulerInv, SwitchSound, Executing

LEMMA RunningFacts ==
    ASSUME SchedulerInv, NEW self \in Thread, Running(self)
    PROVE  /\ self = current_thread /\ self = hw /\ ~switch_flag
           /\ self # Idle /\ pc[self] = "run" /\ tgt[self] = NoThread
           /\ stat[self] \in Started
           /\ Free(self) /\ ~Unlinked(self)
  <1>1. self = current_thread /\ self = hw /\ ~switch_flag
    BY ExecutingFacts DEF Running
  <1>2. self # Idle /\ pc[self] = "run"
    BY DEF Running
  <1>3. tgt[self] = NoThread
    BY <1>2 DEF SchedulerInv, CallInv, CallShape
  <1>4. stat[self] \in Started
    BY <1>1, <1>2 DEF SchedulerInv, CurrentInv
  <1>5. Free(self)
    BY <1>1, <1>3 DEF SchedulerInv, CallInv, TargetInv, Free
  <1> QED BY <1>1, <1>2, <1>3, <1>4, <1>5 DEF Free, Unlinked

(* A thread in a ready queue is nobody's target, but for suspends.         *)
LEMMA QueuedFree ==
    ASSUME SchedulerInv, NEW t \in Thread, NEW p \in Prio,
           InList(priority_table[p], t)
    PROVE  stat[t] = "ready" /\ Free(t)
  <1>1. stat[t] = "ready" /\ ~Unlinked(t)
    BY DEF SchedulerInv, ReadyQueues
  <1>2. ASSUME NEW u \in Thread, tgt[u] = t, pc[u] # "suspend1" PROVE FALSE
    <2>1. pc[u] \in {"resume1", "resume2", "delete2", "delete3"}
      BY <1>2 DEF SchedulerInv, CallInv, CallShape, TypeOK, ThreadPc
    <2>2. pc[u] \notin {"resume1", "resume2"}
      BY <1>1, <1>2 DEF SchedulerInv, CallInv, ResumeInv
    <2> QED BY <1>1, <1>2, <2>1, <2>2 DEF Unlinked
  <1> QED BY <1>1, <1>2 DEF Free

LEMMA CallScheduleInv ==
    ASSUME SchedulerInv, NEW self \in Thread, CallSchedule(self)
    PROVE  SchedulerInv'
  <1> USE DEF tcb, rdy
  <1>0. /\ UNCHANGED <<tcb, rdy, lock_nest, defunct, irq, tgt>>
        /\ pc' = [pc EXCEPT ![self] = IF pc[self] = "exit" THEN "exit" ELSE "run"]
        /\ pc[self] \in {"sched", "exit"}
        /\ rt_schedule_on(priority_table, ready_group)
    BY DEF CallSchedule, Goto, rt_schedule
  <1>1. self = current_thread /\ self = hw /\ ~switch_flag
    BY ExecutingFacts DEF CallSchedule
  <1>2. /\ current_thread' \in Thread
        /\ hw' = hw /\ switch_flag' \in BOOLEAN /\ to_thread' \in Thread
        /\ from_thread' \in Thread \cup {NoThread}
        /\ stale' \in BOOLEAN
        /\ SwitchSound'
        /\ \/ current_thread' = current_thread /\ switch_flag' = switch_flag
           \/ /\ switch_flag' = TRUE /\ lock_nest = 0
              /\ \E p \in Prio : InList(priority_table[p], current_thread')
    BY <1>0, InvTable, ScheduleStep
  <1>3. pc' \in [Thread -> ThreadPc] /\ \A u \in Thread : pc[u] # pc'[u] =>
            u = self /\ pc[u] = "sched" /\ pc'[u] = "run"
    BY <1>0 DEF SchedulerInv, TypeOK, ThreadPc
  <1>4. TypeOK'
    BY <1>0, <1>2, <1>3 DEF SchedulerInv, TypeOK
  <1>5. \A t \in Thread : Unlinked(t)' <=> Unlinked(t)
    BY <1>0, <1>3 DEF Unlinked
  <1>6. ReadyQueues' /\ GroupExact'
    BY <1>0, <1>5 DEF SchedulerInv, ReadyQueues, GroupExact
  <1>7. TimerOnlySuspended' /\ MaskInv' /\ DefunctInv'
    BY <1>0 DEF SchedulerInv, TimerOnlySuspended, MaskInv, DefunctInv
  <1>8. \/ current_thread' = current_thread /\ switch_flag' = FALSE
        \/ /\ switch_flag' = TRUE /\ lock_nest = 0
           /\ stat[current_thread'] = "ready"
           /\ \A u \in Thread : tgt[u] = current_thread' => pc[u] = "suspend1"
    BY <1>1, <1>2, QueuedFree DEF Free
  <1>9. CallShape' /\ ResumeInv' /\ CallerInv' /\ IdleInv'
    BY <1>0, <1>3 DEF SchedulerInv, CallInv, CallShape, ResumeInv, CallerInv, IdleInv
  <1>10. DeleteInv' /\ TargetInv'
    BY <1>0, <1>3, <1>8 DEF SchedulerInv, CallInv, DeleteInv, TargetInv
  <1>11. CurrentInv'
    <2>1. stat[current_thread'] \in Started \cup {"close"}
      BY <1>8 DEF SchedulerInv, CurrentInv, Started
    <2>2. stat[current_thread'] = "close" => pc'[current_thread'] = "exit"
      BY <1>0, <1>2, <1>3, <1>8 DEF SchedulerInv, CurrentInv
    <2> QED BY <1>0, <1>2, <1>8, <2>1, <2>2 DEF SchedulerInv, CurrentInv
  <1> QED BY <1>2, <1>4, <1>6, <1>7, <1>9, <1>10, <1>11 DEF SchedulerInv, CallInv

LEMMA IrqScheduleInv ==
    ASSUME SchedulerInv, IrqSchedule PROVE SchedulerInv'
  <1> USE DEF tcb, rdy, ctl
  <1>0. /\ UNCHANGED <<tcb, rdy, ctl, lock_nest, defunct>>
        /\ rt_schedule_on(priority_table, ready_group)
    BY DEF IrqSchedule, rt_schedule
  <1>1. irq' \in Seq(IrqPc) /\ Len(irq') <= MaxIrq
    BY IrqTypes, IrqGotoType DEF IrqSchedule, IrqPc, InIrq
  <1>2. /\ current_thread' \in Thread
        /\ hw' = hw /\ switch_flag' \in BOOLEAN /\ to_thread' \in Thread
        /\ from_thread' \in Thread \cup {NoThread}
        /\ stale' \in BOOLEAN
        /\ SwitchSound'
        /\ \/ current_thread' = current_thread /\ switch_flag' = switch_flag
           \/ /\ switch_flag' = TRUE /\ lock_nest = 0
              /\ \E p \in Prio : InList(priority_table[p], current_thread')
    BY <1>0, InvTable, ScheduleStep
  <1>3. TypeOK'
    BY <1>0, <1>1, <1>2 DEF SchedulerInv, TypeOK
  <1>4. ReadyQueues' /\ GroupExact' /\ TimerOnlySuspended' /\ MaskInv' /\ DefunctInv'
    BY <1>0 DEF SchedulerInv, ReadyQueues, GroupExact, Unlinked,
                TimerOnlySuspended, MaskInv, DefunctInv
  <1>5. \/ current_thread' = current_thread /\ switch_flag' = switch_flag
        \/ /\ switch_flag' = TRUE /\ lock_nest = 0
           /\ stat[current_thread'] = "ready"
           /\ \A u \in Thread : tgt[u] = current_thread' => pc[u] = "suspend1"
    BY <1>2, QueuedFree DEF Free
  <1>6. CallShape' /\ ResumeInv' /\ CallerInv' /\ IdleInv'
    BY <1>0 DEF SchedulerInv, CallInv, CallShape, ResumeInv, CallerInv, IdleInv
  <1>7. DeleteInv' /\ TargetInv'
    BY <1>0, <1>5 DEF SchedulerInv, CallInv, DeleteInv, TargetInv
  <1>8. CurrentInv'
    BY <1>0, <1>2, <1>5 DEF SchedulerInv, CurrentInv, Started
  <1> QED BY <1>2, <1>3, <1>4, <1>6, <1>7, <1>8 DEF SchedulerInv, CallInv

LEMMA IrqTickInv ==
    ASSUME SchedulerInv, IrqTick \/ IrqYield PROVE SchedulerInv'
  <1> USE DEF hwv, ctl, rdy, tcb
  <1> DEFINE t == current_thread
  <1>0. /\ UNCHANGED <<stat, current_priority, number_mask, timer, ready_group,
                       hwv, ctl, current_thread, lock_nest, defunct, stale>>
        /\ \/ remaining_tick' = [remaining_tick EXCEPT ![t] = TickDown(@)]
           \/ remaining_tick' = remaining_tick
        /\ \/ YieldMoves(t) /\ priority_table' = YieldTable(t)
           \/ priority_table' = priority_table
    BY DEF IrqTick, IrqYield
  <1>1. irq' \in Seq(IrqPc) /\ Len(irq') <= MaxIrq
    BY IrqTypes, IrqGotoType DEF IrqTick, IrqYield, IrqPc, InIrq
  <1>2. t \in Thread /\ current_priority[t] \in Prio
    BY DEF SchedulerInv, TypeOK
  <1>3. remaining_tick' \in [Thread -> 1 .. InitTick]
    <2>1. remaining_tick[t] \in 1 .. InitTick
      BY <1>2 DEF SchedulerInv, TypeOK
    <2>2. TickDown(remaining_tick[t]) \in 1 .. InitTick
      BY <2>1 DEF TickDown
    <2>3. remaining_tick \in [Thread -> 1 .. InitTick]
      BY DEF SchedulerInv, TypeOK
    <2>4. CASE remaining_tick' = [remaining_tick EXCEPT ![t] = TickDown(@)]
      BY <1>2, <2>2, <2>3, <2>4
    <2>5. CASE remaining_tick' = remaining_tick
      BY <2>3, <2>5
    <2> QED BY <1>0, <2>4, <2>5
  <1>4. YieldMoves(t) => InList(priority_table[current_priority[t]], t)
    <2>1. \A u \in Thread : pc[u] \in {"delete2", "delete3"} => tgt[u] # t
      BY DEF SchedulerInv, CallInv, DeleteInv
    <2>2. ~Unlinked(t)
      BY <2>1 DEF Unlinked
    <2> QED BY <1>2, <2>2 DEF SchedulerInv, ReadyQueues, YieldMoves
  <1>5. /\ TableOK(priority_table', ready_group')
        /\ \A q \in Prio, x \in Thread :
             InList(priority_table'[q], x) <=> InList(priority_table[q], x)
    <2>1. TableOK(priority_table, ready_group)
      BY InvTable
    <2>2. CASE YieldMoves(t) /\ priority_table' = YieldTable(t)
      <3>1. TableOK(priority_table', ready_group) /\ SameMembers(priority_table', priority_table)
        BY <1>2, <1>4, <2>1, <2>2, MoveTable DEF YieldTable
      <3> QED BY <1>0, <3>1 DEF SameMembers
    <2>3. CASE priority_table' = priority_table
      BY <1>0, <2>1, <2>3
    <2> QED BY <1>0, <2>2, <2>3
  <1> HIDE DEF t
  <1>6. TypeOK'
    BY <1>0, <1>1, <1>3, <1>5 DEF SchedulerInv, TypeOK, TableOK
  <1>7. ReadyQueues' /\ GroupExact'
    BY <1>0, <1>5 DEF SchedulerInv, ReadyQueues, GroupExact, TableOK, Unlinked
  <1>8. SwitchSound' /\ TimerOnlySuspended' /\ MaskInv' /\ DefunctInv' /\ IdleInv'
    BY <1>0 DEF SchedulerInv, SwitchSound, TimerOnlySuspended, MaskInv,
                DefunctInv, IdleInv
  <1>9. CallInv' /\ CurrentInv'
    BY <1>0 DEF SchedulerInv, CurrentInv, CallInv,
                CallShape, ResumeInv, DeleteInv, CallerInv, TargetInv
  <1> QED BY <1>6, <1>7, <1>8, <1>9 DEF SchedulerInv

(* The invariant after a suspended thread that no call is about has been   *)
(* put into its queue, whoever did it.                                     *)
LEMMA WokenInv ==
    ASSUME SchedulerInv, NEW t \in Thread, stat[t] = "suspend", Free(t),
           rt_schedule_insert_thread(t),
           timer' = [timer EXCEPT ![t] = FALSE],
           UNCHANGED <<current_priority, number_mask, remaining_tick, lock_nest,
                       defunct, tgt>>,
           pc' \in [Thread -> ThreadPc],
           \A u \in Thread : pc'[u] = pc[u] \/
              (pc[u] = "run" /\ pc'[u] = "sched" /\ u # Idle)
    PROVE  /\ stat' \in [Thread -> Stat] /\ timer' \in [Thread -> BOOLEAN]
           /\ TableOK(priority_table', ready_group')
           /\ ReadyQueues' /\ GroupExact' /\ TimerOnlySuspended' /\ MaskInv'
           /\ CallShape' /\ ResumeInv' /\ CallerInv' /\ DefunctInv' /\ IdleInv'
           /\ \A u \in Thread : pc[u] \in {"delete2", "delete3"} =>
                stat'[tgt[u]] \in Started /\ ~timer'[tgt[u]]
           /\ \A u \in Thread : u # t => stat'[u] = stat[u]
           /\ stat'[t] = "ready"
  <1>0. /\ stat' = [stat EXCEPT ![t] = "ready"]
        /\ TableOK(priority_table', ready_group')
        /\ \A q \in Prio, x \in Thread : InList(priority_table'[q], x) <=>
             InList(priority_table[q], x) \/ (q = current_priority[t] /\ x = t)
    BY InsertStep
  <1>1. /\ stat' \in [Thread -> Stat] /\ timer' \in [Thread -> BOOLEAN]
        /\ stat'[t] = "ready" /\ \A u \in Thread : u # t => stat'[u] = stat[u]
        /\ ~timer'[t] /\ \A u \in Thread : u # t => timer'[u] = timer[u]
    BY <1>0 DEF SchedulerInv, TypeOK, Stat
  <1>2. \A x \in Thread : Unlinked(x)' <=> Unlinked(x)
    BY DEF Unlinked
  <1>3. ~Unlinked(t) /\ \A u \in Thread : tgt[u] = t => pc[u] = "suspend1"
    BY DEF Unlinked, Free
  <1>4. ReadyQueues' /\ GroupExact'
    <2>1. \A p \in Prio, x \in Thread :
             InList(priority_table'[p], x) <=>
               (stat'[x] = "ready" /\ current_priority'[x] = p /\ ~Unlinked(x)')
      BY <1>0, <1>1, <1>2, <1>3 DEF SchedulerInv, ReadyQueues
    <2> QED BY <1>0, <2>1 DEF ReadyQueues, GroupExact, TableOK
  <1>5. TimerOnlySuspended' /\ MaskInv'
    BY <1>1 DEF SchedulerInv, TimerOnlySuspended, MaskInv, Started
  <1>6. CallShape' /\ CallerInv' /\ IdleInv'
    BY <1>1 DEF SchedulerInv, CallInv, CallShape, CallerInv, IdleInv, Started
  <1>7. \A u \in Thread : tgt[u] # NoThread =>
          tgt[u] \in Thread /\ (tgt[u] # t \/ pc[u] = "suspend1")
    BY <1>3 DEF SchedulerInv, TypeOK
  <1>8. \A u \in Thread : pc[u] \in {"resume1", "resume2", "delete2", "delete3"}
            => tgt[u] # NoThread
    BY DEF SchedulerInv, CallInv, CallShape
  <1>9. ResumeInv'
    BY <1>1, <1>7, <1>8 DEF SchedulerInv, CallInv, ResumeInv
  <1>10. \A u \in Thread : pc[u] \in {"delete2", "delete3"} =>
                stat'[tgt[u]] \in Started /\ ~timer'[tgt[u]]
    BY <1>1, <1>7, <1>8 DEF SchedulerInv, CallInv, DeleteInv
  <1>11. DefunctInv'
    BY <1>1 DEF SchedulerInv, DefunctInv
  <1> QED BY <1>0, <1>1, <1>4, <1>5, <1>6, <1>9, <1>10, <1>11

LEMMA WakeInv ==
    ASSUME SchedulerInv, NEW self \in Thread, NEW t \in Thread, Wake(self, t)
    PROVE  SchedulerInv'
  <1> USE DEF hwv
  <1>0. /\ stat[t] = "suspend" /\ Free(t) /\ rt_schedule_insert_thread(t)
        /\ timer' = [timer EXCEPT ![t] = FALSE]
        /\ UNCHANGED <<current_priority, number_mask, remaining_tick, hwv,
                       current_thread, lock_nest, defunct, stale, irq, tgt>>
        /\ pc' = [pc EXCEPT ![self] = "sched"]
    BY DEF Wake, ResumeLocked, Goto
  <1>1. self = current_thread /\ pc[self] = "run" /\ self # Idle
    BY RunningFacts DEF Wake
  <1>2. /\ pc' \in [Thread -> ThreadPc]
        /\ \A u \in Thread : pc'[u] = pc[u] \/
              (pc[u] = "run" /\ pc'[u] = "sched" /\ u # Idle)
    BY <1>0, <1>1 DEF SchedulerInv, TypeOK, ThreadPc
  <1>3. /\ stat' \in [Thread -> Stat] /\ timer' \in [Thread -> BOOLEAN]
        /\ TableOK(priority_table', ready_group')
        /\ ReadyQueues' /\ GroupExact' /\ TimerOnlySuspended' /\ MaskInv'
        /\ CallShape' /\ ResumeInv' /\ CallerInv' /\ DefunctInv' /\ IdleInv'
        /\ \A u \in Thread : pc[u] \in {"delete2", "delete3"} =>
             stat'[tgt[u]] \in Started /\ ~timer'[tgt[u]]
        /\ \A u \in Thread : u # t => stat'[u] = stat[u]
        /\ stat'[t] = "ready"
    BY <1>0, <1>2, WokenInv
  <1>4. TypeOK'
    BY <1>0, <1>2, <1>3 DEF SchedulerInv, TypeOK, TableOK
  <1>5. DeleteInv' /\ TargetInv'
    BY <1>0, <1>2, <1>3 DEF SchedulerInv, CallInv, DeleteInv, TargetInv
  <1>6. SwitchSound'
    BY <1>0 DEF SchedulerInv, SwitchSound
  <1>7. CurrentInv'
    BY <1>0, <1>2, <1>3 DEF SchedulerInv, TypeOK, CurrentInv, Started
  <1> QED BY <1>3, <1>4, <1>5, <1>6, <1>7 DEF SchedulerInv, CallInv

LEMMA IrqWakeInv ==
    ASSUME SchedulerInv, NEW t \in Thread, IrqWake(t) PROVE SchedulerInv'
  <1> USE DEF hwv, ctl
  <1>0. /\ stat[t] = "suspend" /\ Free(t) /\ rt_schedule_insert_thread(t)
        /\ timer' = [timer EXCEPT ![t] = FALSE]
        /\ UNCHANGED <<current_priority, number_mask, remaining_tick, hwv,
                       current_thread, lock_nest, defunct, stale, pc, tgt>>
    BY DEF IrqWake, ResumeLocked
  <1>1. irq' \in Seq(IrqPc) /\ Len(irq') <= MaxIrq
    BY IrqTypes, IrqGotoType DEF IrqWake, IrqPc, InIrq
  <1>2. /\ pc' \in [Thread -> ThreadPc]
        /\ \A u \in Thread : pc'[u] = pc[u] \/
              (pc[u] = "run" /\ pc'[u] = "sched" /\ u # Idle)
    BY <1>0 DEF SchedulerInv, TypeOK
  <1>3. /\ stat' \in [Thread -> Stat] /\ timer' \in [Thread -> BOOLEAN]
        /\ TableOK(priority_table', ready_group')
        /\ ReadyQueues' /\ GroupExact' /\ TimerOnlySuspended' /\ MaskInv'
        /\ CallShape' /\ ResumeInv' /\ CallerInv' /\ DefunctInv' /\ IdleInv'
        /\ \A u \in Thread : pc[u] \in {"delete2", "delete3"} =>
             stat'[tgt[u]] \in Started /\ ~timer'[tgt[u]]
        /\ \A u \in Thread : u # t => stat'[u] = stat[u]
        /\ stat'[t] = "ready"
    BY <1>0, <1>2, WokenInv
  <1>4. TypeOK'
    BY <1>0, <1>1, <1>2, <1>3 DEF SchedulerInv, TypeOK, TableOK
  <1>5. DeleteInv' /\ TargetInv'
    BY <1>0, <1>3 DEF SchedulerInv, CallInv, DeleteInv, TargetInv
  <1>6. SwitchSound'
    BY <1>0 DEF SchedulerInv, SwitchSound
  <1>7. CurrentInv'
    BY <1>0, <1>3 DEF SchedulerInv, TypeOK, CurrentInv, Started
  <1> QED BY <1>3, <1>4, <1>5, <1>6, <1>7 DEF SchedulerInv, CallInv

(* A thread whose timer runs is suspended, and nobody is resuming or       *)
(* deleting it.                                                            *)
LEMMA TimedFree ==
    ASSUME SchedulerInv, NEW t \in Thread, timer[t]
    PROVE  stat[t] = "suspend" /\ Free(t)
  <1>1. stat[t] = "suspend"
    BY DEF SchedulerInv, TimerOnlySuspended
  <1>2. ASSUME NEW u \in Thread, tgt[u] = t, pc[u] # "suspend1" PROVE FALSE
    <2>1. pc[u] \in {"resume1", "resume2", "delete2", "delete3"}
      BY <1>2 DEF SchedulerInv, CallInv, CallShape, TypeOK, ThreadPc
    <2>2. ~timer[tgt[u]]
      BY <2>1 DEF SchedulerInv, CallInv, ResumeInv, DeleteInv
    <2> QED BY <1>2, <2>2
  <1> QED BY <1>1, <1>2 DEF Free

LEMMA TimerFireInv ==
    ASSUME SchedulerInv, NEW t \in Thread, TimerFire(t) PROVE SchedulerInv'
  <1> USE DEF ctl
  <1>0. /\ timer[t] /\ rt_schedule_insert_thread(t)
        /\ timer' = [timer EXCEPT ![t] = FALSE]
        /\ rt_schedule_on(priority_table', ready_group')
        /\ UNCHANGED <<current_priority, number_mask, remaining_tick, pc, tgt,
                       lock_nest, defunct, irq>>
    BY DEF TimerFire
  <1>1. stat[t] = "suspend" /\ Free(t)
    BY <1>0, TimedFree
  <1>2. /\ pc' \in [Thread -> ThreadPc]
        /\ \A u \in Thread : pc'[u] = pc[u] \/
              (pc[u] = "run" /\ pc'[u] = "sched" /\ u # Idle)
    BY <1>0 DEF SchedulerInv, TypeOK
  <1>3. /\ stat' \in [Thread -> Stat] /\ timer' \in [Thread -> BOOLEAN]
        /\ TableOK(priority_table', ready_group')
        /\ ReadyQueues' /\ GroupExact' /\ TimerOnlySuspended' /\ MaskInv'
        /\ CallShape' /\ ResumeInv' /\ CallerInv' /\ DefunctInv' /\ IdleInv'
        /\ \A u \in Thread : pc[u] \in {"delete2", "delete3"} =>
             stat'[tgt[u]] \in Started /\ ~timer'[tgt[u]]
        /\ \A u \in Thread : u # t => stat'[u] = stat[u]
        /\ stat'[t] = "ready"
    BY <1>0, <1>1, <1>2, WokenInv
  <1>4. /\ current_priority[Idle] \in Prio
        /\ InList(priority_table'[current_priority[Idle]], Idle)
    <2>1. ~Unlinked(Idle)'
      BY <1>3 DEF IdleInv, Unlinked
    <2>2. current_priority'[Idle] \in Prio /\ stat'[Idle] = "ready"
      BY <1>0, <1>3, InvTable DEF IdleInv
    <2> QED BY <1>0, <1>3, <2>1, <2>2 DEF ReadyQueues
  <1>5. /\ current_thread' \in Thread
        /\ hw' = hw /\ switch_flag' \in BOOLEAN /\ to_thread' \in Thread
        /\ from_thread' \in Thread \cup {NoThread}
        /\ stale' \in BOOLEAN
        /\ SwitchSound'
        /\ \/ current_thread' = current_thread /\ switch_flag' = switch_flag
           \/ /\ switch_flag' = TRUE /\ lock_nest = 0
              /\ \E p \in Prio : InList(priority_table'[p], current_thread')
    BY <1>0, <1>3, <1>4, ScheduleStep
  <1>6. TypeOK'
    BY <1>0, <1>2, <1>3, <1>5 DEF SchedulerInv, TypeOK, TableOK
  <1>7. \/ current_thread' = current_thread /\ switch_flag' = switch_flag
        \/ /\ switch_flag' = TRUE /\ lock_nest = 0
           /\ stat'[current_thread'] = "ready"
           /\ \A u \in Thread : tgt[u] = current_thread' => pc[u] = "suspend1"
    <2>1. ASSUME NEW c \in Thread, NEW p \in Prio, InList(priority_table'[p], c)
          PROVE  stat'[c] = "ready" /\ \A u \in Thread : tgt[u] = c => pc[u] = "suspend1"
      <3>1. stat'[c] = "ready" /\ ~Unlinked(c)'
        BY <1>3, <2>1 DEF ReadyQueues
      <3>2. ASSUME NEW u \in Thread, tgt[u] = c, pc[u] # "suspend1" PROVE FALSE
        <4>1. pc[u] \in {"resume1", "resume2", "delete2", "delete3"}
          BY <3>2 DEF SchedulerInv, CallInv, CallShape, TypeOK, ThreadPc
        <4>2. pc[u] \notin {"resume1", "resume2"}
          BY <1>0, <1>3, <3>1, <3>2 DEF ResumeInv
        <4> QED BY <1>0, <3>1, <3>2, <4>1, <4>2 DEF Unlinked
      <3> QED BY <3>1, <3>2
    <2> QED BY <1>5, <2>1
  <1>8. DeleteInv' /\ TargetInv'
    BY <1>0, <1>3, <1>7 DEF SchedulerInv, CallInv, DeleteInv, TargetInv
  <1>9. CurrentInv'
    <2>1. \A u \in Thread : stat'[u] # stat[u] => u = t
      BY <1>3
    <2>2. /\ stat'[current_thread'] \in Started \cup {"close"}
          /\ stat'[current_thread'] = "close" => pc'[current_thread'] = "exit"
          /\ switch_flag' => stat'[current_thread'] = "ready"
      BY <1>0, <1>3, <1>5, <1>7 DEF SchedulerInv, CurrentInv, Started
    <2>3. hw' # NoThread => stat'[hw'] \in Started \cup {"close"}
      BY <1>3, <1>5 DEF SchedulerInv, TypeOK, CurrentInv, Started
    <2>4. lock_nest' > 0 => ~switch_flag'
      BY <1>0, <1>7 DEF SchedulerInv, CurrentInv
    <2> QED BY <2>2, <2>3, <2>4 DEF CurrentInv
  <1> QED BY <1>3, <1>5, <1>6, <1>8, <1>9 DEF SchedulerInv, CallInv

(* The scheduler lock.                                                     *)
LEMMA CriticalInv ==
    ASSUME SchedulerInv, NEW self \in Thread,
           rt_enter_critical(self) \/ rt_exit_critical(self)
    PROVE  SchedulerInv'
  <1> USE DEF tcb, rdy, hwv, ctl
  <1>0. /\ UNCHANGED <<tcb, rdy, hwv, current_thread, defunct, irq, tgt, stale>>
        /\ pc' \in {pc, [pc EXCEPT ![self] = "sched"], [pc EXCEPT ![self] = "run"]}
    BY DEF rt_enter_critical, rt_exit_critical, Goto
  <1>1. /\ self = current_thread /\ ~switch_flag /\ self # Idle
        /\ pc[self] = "run" /\ stat[self] \in Started
    BY RunningFacts DEF rt_enter_critical, rt_exit_critical
  <1>2. lock_nest' \in 0 .. MaxLock
    <2>1. lock_nest \in 0 .. MaxLock
      BY DEF SchedulerInv, TypeOK
    <2>2. \/ lock_nest < MaxLock /\ lock_nest' = lock_nest + 1
          \/ lock_nest' = IF lock_nest > 0 THEN lock_nest - 1 ELSE 0
      BY DEF rt_enter_critical, rt_exit_critical
    <2> QED BY <2>1, <2>2
  <1>3. /\ pc' \in [Thread -> ThreadPc]
        /\ \A u \in Thread : pc'[u] = pc[u] \/
              (u = self /\ pc[u] = "run" /\ pc'[u] = "sched")
    BY <1>0, <1>1 DEF SchedulerInv, TypeOK, ThreadPc
  <1>4. TypeOK'
    BY <1>0, <1>2, <1>3 DEF SchedulerInv, TypeOK
  <1>5. \A t \in Thread : Unlinked(t)' <=> Unlinked(t)
    BY <1>0, <1>3 DEF Unlinked
  <1>6. ReadyQueues' /\ GroupExact'
    BY <1>0, <1>5 DEF SchedulerInv, ReadyQueues, GroupExact
  <1>7. TimerOnlySuspended' /\ MaskInv' /\ DefunctInv' /\ SwitchSound'
    BY <1>0 DEF SchedulerInv, TimerOnlySuspended, MaskInv, DefunctInv, SwitchSound
  <1>8. CallShape' /\ ResumeInv' /\ CallerInv' /\ DeleteInv' /\ TargetInv'
    BY <1>0, <1>3 DEF SchedulerInv, CallInv, CallShape, ResumeInv, CallerInv,
                      DeleteInv, TargetInv
  <1>9. CurrentInv' /\ IdleInv'
    BY <1>0, <1>1, <1>3 DEF SchedulerInv, CurrentInv, IdleInv, Started
  <1> QED BY <1>4, <1>6, <1>7, <1>8, <1>9 DEF SchedulerInv, CallInv

(* The check of rt_thread_resume.                                          *)
LEMMA Resume0Inv ==
    ASSUME SchedulerInv, NEW self \in Thread, NEW t \in Thread, Resume0(self, t)
    PROVE  SchedulerInv'
  <1> USE DEF tcb, rdy, hwv
  <1>0. /\ UNCHANGED <<tcb, rdy, hwv, current_thread, lock_nest, defunct, irq, stale>>
        /\ pc' = [pc EXCEPT ![self] = "resume1"] /\ tgt' = [tgt EXCEPT ![self] = t]
        /\ stat[t] = "suspend" /\ ~timer[t] /\ Free(t)
    BY DEF Resume0, GotoFor
  <1>1. /\ self = current_thread /\ self # Idle /\ ~switch_flag
        /\ pc[self] = "run" /\ tgt[self] = NoThread /\ stat[self] \in Started
        /\ \A u \in Thread : tgt[u] = self => pc[u] = "suspend1"
    BY RunningFacts DEF Resume0, Free
  <1>2. t # Idle /\ \A u \in Thread : tgt[u] = t => pc[u] = "suspend1"
    BY <1>0 DEF SchedulerInv, IdleInv, Free
  <1>3. /\ pc' \in [Thread -> ThreadPc] /\ tgt' \in [Thread -> Thread \cup {NoThread}]
        /\ pc'[self] = "resume1" /\ tgt'[self] = t
        /\ \A u \in Thread : u # self => pc'[u] = pc[u] /\ tgt'[u] = tgt[u]
    BY <1>0 DEF SchedulerInv, TypeOK, ThreadPc
  <1>4. TypeOK'
    BY <1>0, <1>3 DEF SchedulerInv, TypeOK
  <1>5. \A x \in Thread : Unlinked(x)' <=> Unlinked(x)
    BY <1>1, <1>3 DEF Unlinked
  <1>6. ReadyQueues' /\ GroupExact'
    BY <1>0, <1>5 DEF SchedulerInv, ReadyQueues, GroupExact
  <1>7. TimerOnlySuspended' /\ MaskInv' /\ DefunctInv' /\ SwitchSound'
    BY <1>0 DEF SchedulerInv, TimerOnlySuspended, MaskInv, DefunctInv, SwitchSound
  <1>8. CallShape' /\ ResumeInv' /\ CallerInv'
    BY <1>0, <1>1, <1>3 DEF SchedulerInv, CallInv, CallShape, ResumeInv, CallerInv
  <1>9. DeleteInv'
    BY <1>0, <1>1, <1>3 DEF SchedulerInv, CallInv, DeleteInv
  <1>10. TargetInv'
    BY <1>0, <1>1, <1>2, <1>3 DEF SchedulerInv, CallInv, TargetInv
  <1>11. CurrentInv' /\ IdleInv'
    BY <1>0, <1>1, <1>2, <1>3 DEF SchedulerInv, CurrentInv, IdleInv, Started
  <1> QED BY <1>4, <1>6, <1>7, <1>8, <1>9, <1>10, <1>11 DEF SchedulerInv, CallInv

(* The sections of resume and delete that stop the timer of the target.    *)
LEMMA StopTimerInv ==
    ASSUME SchedulerInv, NEW self \in Thread, Resume1(self) \/ Delete2(self)
    PROVE  SchedulerInv'
  <1> USE DEF rdy, hwv
  <1>0. /\ UNCHANGED <<stat, current_priority, number_mask, remaining_tick, rdy,
                       hwv, current_thread, lock_nest, defunct, irq, stale, tgt>>
        /\ timer' = [timer EXCEPT ![tgt[self]] = FALSE]
        /\ \/ pc[self] = "resume1" /\ pc' = [pc EXCEPT ![self] = "resume2"]
           \/ pc[self] = "delete2" /\ pc' = [pc EXCEPT ![self] = "delete3"]
    <2>1. CASE Resume1(self)
      <3>p. pc[self] = "resume1"
        BY <2>1 DEF Resume1
      <3>1. tgt[self] \in Thread /\ stat[tgt[self]] = "suspend"
        <4>1. tgt[self] \in Thread
          BY <3>p DEF SchedulerInv, CallInv, CallShape, TypeOK
        <4>2. stat[tgt[self]] = "suspend"
          BY <3>p DEF SchedulerInv, CallInv, ResumeInv
        <4> QED BY <4>1, <4>2
      <3>2. priority_table' = priority_table
        BY <2>1, <3>1, RemoveSuspended DEF Resume1
      <3> QED BY <2>1, <3>2 DEF Resume1, Goto
    <2>2. CASE Delete2(self)
      BY <2>2 DEF Delete2, Goto
    <2> QED BY <2>1, <2>2
  <1>1. self = current_thread /\ ~switch_flag
    BY ExecutingFacts DEF Resume1, Delete2
  <1>2. /\ pc' \in [Thread -> ThreadPc]
        /\ \A u \in Thread : pc'[u] = pc[u] \/
             (u = self /\ \/ pc[u] = "resume1" /\ pc'[u] = "resume2"
                          \/ pc[u] = "delete2" /\ pc'[u] = "delete3")
    BY <1>0 DEF SchedulerInv, TypeOK, ThreadPc
  <1>3. /\ timer' \in [Thread -> BOOLEAN]
        /\ \A x \in Thread : timer'[x] => timer[x]
    BY <1>0 DEF SchedulerInv, TypeOK
  <1>4. TypeOK'
    BY <1>0, <1>2, <1>3 DEF SchedulerInv, TypeOK
  <1>5. \A x \in Thread : Unlinked(x)' <=> Unlinked(x)
    BY <1>0, <1>2 DEF Unlinked
  <1>6. ReadyQueues' /\ GroupExact'
    BY <1>0, <1>5 DEF SchedulerInv, ReadyQueues, GroupExact
  <1>7. TimerOnlySuspended' /\ MaskInv' /\ DefunctInv' /\ SwitchSound'
    BY <1>0, <1>3 DEF SchedulerInv, TimerOnlySuspended, MaskInv, DefunctInv, SwitchSound
  <1>8. CallShape' /\ CallerInv' /\ TargetInv' /\ IdleInv'
    BY <1>0, <1>2 DEF SchedulerInv, CallInv, CallShape, CallerInv, TargetInv, IdleInv
  <1>t. \A u \in Thread : pc[u] \in {"resume1", "resume2", "delete2", "delete3"} =>
            tgt[u] \in Thread
    BY DEF SchedulerInv, CallInv, CallShape, TypeOK
  <1>9. ResumeInv' /\ DeleteInv'
    BY <1>0, <1>2, <1>3, <1>t DEF SchedulerInv, CallInv, ResumeInv, DeleteInv
  <1>10. CurrentInv'
    BY <1>0, <1>1, <1>2 DEF SchedulerInv, CurrentInv
  <1> QED BY <1>4, <1>6, <1>7, <1>8, <1>9, <1>10 DEF SchedulerInv, CallInv

(* rt_thread_startup up to the check of rt_thread_resume.                  *)
LEMMA StartupInv ==
    ASSUME SchedulerInv, NEW self \in Thread, NEW t \in Thread, Startup(self, t)
    PROVE  SchedulerInv'
  <1> USE DEF rdy, hwv
  <1>0. /\ UNCHANGED <<remaining_tick, timer, rdy, hwv, current_thread, lock_nest,
                       defunct, irq, stale>>
        /\ pc' = [pc EXCEPT ![self] = "resume1"] /\ tgt' = [tgt EXCEPT ![self] = t]
        /\ stat[t] = "init" /\ stat' = [stat EXCEPT ![t] = "suspend"]
        /\ current_priority' = [current_priority EXCEPT ![t] = InitPriority[t]]
        /\ number_mask' = [number_mask EXCEPT ![t] = {InitPriority[t]}]
        /\ \A u \in Thread : tgt[u] = t => pc[u] = "suspend1"
    BY DEF Startup, GotoFor, Free
  <1>1. /\ self = current_thread /\ self # Idle /\ ~switch_flag
        /\ pc[self] = "run" /\ tgt[self] = NoThread /\ stat[self] \in Started
        /\ \A u \in Thread : tgt[u] = self => pc[u] = "suspend1"
    BY RunningFacts DEF Startup, Free
  <1>2. t # Idle /\ t # self /\ ~timer[t] /\ tgt[t] = NoThread /\ t # hw
    BY <1>0, <1>1 DEF SchedulerInv, IdleInv, TimerOnlySuspended, CallInv, CallerInv,
                      CurrentInv, Started
  <1>3. /\ pc' \in [Thread -> ThreadPc] /\ tgt' \in [Thread -> Thread \cup {NoThread}]
        /\ pc'[self] = "resume1" /\ tgt'[self] = t
        /\ \A u \in Thread : u # self => pc'[u] = pc[u] /\ tgt'[u] = tgt[u]
    BY <1>0 DEF SchedulerInv, TypeOK, ThreadPc
  <1>4. /\ stat' \in [Thread -> Stat] /\ current_priority' \in [Thread -> Prio]
        /\ number_mask' \in [Thread -> SUBSET Prio]
        /\ stat'[t] = "suspend" /\ number_mask'[t] = {current_priority'[t]}
        /\ \A u \in Thread : u # t => /\ stat'[u] = stat[u]
                                       /\ current_priority'[u] = current_priority[u]
                                       /\ number_mask'[u] = number_mask[u]
    BY <1>0 DEF SchedulerInv, TypeOK, Stat
  <1>5. TypeOK'
    BY <1>0, <1>3, <1>4 DEF SchedulerInv, TypeOK
  <1>6. \A x \in Thread : Unlinked(x)' <=> Unlinked(x)
    BY <1>1, <1>3 DEF Unlinked
  <1>7. ReadyQueues' /\ GroupExact'
    BY <1>0, <1>4, <1>6 DEF SchedulerInv, ReadyQueues, GroupExact
  <1>8. TimerOnlySuspended' /\ MaskInv' /\ SwitchSound'
    BY <1>0, <1>2, <1>4 DEF SchedulerInv, TimerOnlySuspended, MaskInv, SwitchSound
  <1>9. DefunctInv'
    BY <1>0, <1>4 DEF SchedulerInv, DefunctInv
  <1>10. CallShape' /\ CallerInv' /\ IdleInv'
    <2>1. pc[t] # "exit"
      BY <1>0, <1>1, <1>2 DEF SchedulerInv, CallInv, CallerInv, CurrentInv
    <2> QED BY <1>1, <1>2, <1>3, <1>4, <2>1 DEF SchedulerInv, CallInv, CallShape,
                                      CallerInv, IdleInv, Started
  <1>11. ResumeInv' /\ DeleteInv'
    BY <1>0, <1>1, <1>2, <1>3, <1>4 DEF SchedulerInv, CallInv, CallShape,
                                        ResumeInv, DeleteInv, Started
  <1>12. TargetInv'
    BY <1>0, <1>1, <1>2, <1>3 DEF SchedulerInv, CallInv, TargetInv
  <1>13. CurrentInv'
    BY <1>0, <1>1, <1>2, <1>3, <1>4 DEF SchedulerInv, CurrentInv, Started
  <1> QED BY <1>5, <1>7, <1>8, <1>9, <1>10, <1>11, <1>12, <1>13
          DEF SchedulerInv, CallInv

(* rt_thread_create and rt_thread_init.                                    *)
LEMMA ThreadInitInv ==
    ASSUME SchedulerInv, NEW self \in Thread, NEW t \in Thread, ThreadInit(self, t)
    PROVE  SchedulerInv'
  <1> USE DEF rdy, hwv
  <1>0. /\ UNCHANGED <<tgt, rdy, hwv, current_thread, lock_nest, defunct, irq, stale>>
        /\ pc' = [pc EXCEPT ![t] = "run"]
        /\ stat[t] \in {"none", "close"} /\ stat' = [stat EXCEPT ![t] = "init"]
        /\ ~(stat[t] = "close" /\ InList(defunct, t))
        /\ current_priority' = [current_priority EXCEPT ![t] = InitPriority[t]]
        /\ timer' = [timer EXCEPT ![t] = FALSE]
        /\ remaining_tick' = [remaining_tick EXCEPT ![t] = InitTick]
    BY DEF ThreadInit
  <1>m. \E m \in SUBSET Prio : number_mask' = [number_mask EXCEPT ![t] = m]
    BY DEF ThreadInit, SchedulerInv, TypeOK
  <1>1. /\ self = current_thread /\ self # Idle /\ ~switch_flag /\ self = hw
        /\ pc[self] = "run" /\ stat[self] \in Started
    BY RunningFacts DEF ThreadInit
  <1>2. /\ t # Idle /\ t # self /\ tgt[t] = NoThread
        /\ \A u \in Thread : tgt[u] = t => pc[u] = "suspend1"
    BY <1>0, <1>1 DEF SchedulerInv, IdleInv, CallInv, CallerInv, Started, Free, ThreadInit
  <1>3. /\ pc' \in [Thread -> ThreadPc] /\ pc'[t] = "run"
        /\ \A u \in Thread : u # t => pc'[u] = pc[u]
    BY <1>0 DEF SchedulerInv, TypeOK, ThreadPc
  <1>4. /\ stat' \in [Thread -> Stat] /\ current_priority' \in [Thread -> Prio]
        /\ number_mask' \in [Thread -> SUBSET Prio]
        /\ remaining_tick' \in [Thread -> 1 .. InitTick]
        /\ timer' \in [Thread -> BOOLEAN]
        /\ stat'[t] = "init" /\ ~timer'[t]
        /\ \A u \in Thread : u # t => /\ stat'[u] = stat[u] /\ timer'[u] = timer[u]
                                       /\ current_priority'[u] = current_priority[u]
                                       /\ number_mask'[u] = number_mask[u]
    <2>1. /\ stat' \in [Thread -> Stat] /\ current_priority' \in [Thread -> Prio]
          /\ stat'[t] = "init"
          /\ \A u \in Thread : u # t => /\ stat'[u] = stat[u]
                                         /\ current_priority'[u] = current_priority[u]
      BY <1>0 DEF SchedulerInv, TypeOK, Stat
    <2>2. InitTick \in 1 .. InitTick
      OBVIOUS
    <2>3. remaining_tick' \in [Thread -> 1 .. InitTick]
      BY <1>0, <2>2 DEF SchedulerInv, TypeOK
    <2>4. /\ timer' \in [Thread -> BOOLEAN] /\ ~timer'[t]
          /\ \A u \in Thread : u # t => timer'[u] = timer[u]
      BY <1>0 DEF SchedulerInv, TypeOK
    <2>5. /\ number_mask' \in [Thread -> SUBSET Prio]
          /\ \A u \in Thread : u # t => number_mask'[u] = number_mask[u]
      <3> PICK m \in SUBSET Prio : number_mask' = [number_mask EXCEPT ![t] = m]
        BY <1>m
      <3>1. number_mask \in [Thread -> SUBSET Prio]
        BY DEF SchedulerInv, TypeOK
      <3> QED BY <3>1
    <2> QED BY <2>1, <2>3, <2>4, <2>5
  <1>5. TypeOK'
    BY <1>0, <1>3, <1>4 DEF SchedulerInv, TypeOK
  <1>6. \A x \in Thread : Unlinked(x)' <=> Unlinked(x)
    <2>1. pc[t] \notin {"delete2", "delete3"}
      BY <1>2 DEF SchedulerInv, CallInv, CallShape
    <2> QED BY <1>0, <1>3, <2>1 DEF Unlinked
  <1>7. ReadyQueues' /\ GroupExact'
    BY <1>0, <1>4, <1>6 DEF SchedulerInv, ReadyQueues, GroupExact
  <1>8. TimerOnlySuspended' /\ MaskInv' /\ SwitchSound'
    BY <1>0, <1>4 DEF SchedulerInv, TimerOnlySuspended, MaskInv, SwitchSound, Started
  <1>9. DefunctInv'
    BY <1>0, <1>4 DEF SchedulerInv, DefunctInv
  <1>10. CallShape' /\ CallerInv' /\ IdleInv' /\ TargetInv'
    BY <1>0, <1>2, <1>3, <1>4 DEF SchedulerInv, CallInv, CallShape, CallerInv,
                                  IdleInv, TargetInv
  <1>t. \A u \in Thread : pc[u] \in {"resume1", "resume2", "delete2", "delete3"} =>
            tgt[u] \in Thread
    BY DEF SchedulerInv, CallInv, CallShape, TypeOK
  <1>11. ResumeInv' /\ DeleteInv'
    BY <1>0, <1>2, <1>3, <1>4, <1>t DEF SchedulerInv, CallInv, ResumeInv, DeleteInv
  <1>12. CurrentInv'
    BY <1>0, <1>1, <1>2, <1>3, <1>4 DEF SchedulerInv, CurrentInv
  <1> QED BY <1>5, <1>7, <1>8, <1>9, <1>10, <1>11, <1>12 DEF SchedulerInv, CallInv

(* The last section of delete and detach.                                  *)
LEMMA Delete3Inv ==
    ASSUME SchedulerInv, NEW self \in Thread, Delete3(self) PROVE SchedulerInv'
  <1> USE DEF rdy, hwv
  <1> DEFINE t == tgt[self]
  <1>0. /\ UNCHANGED <<current_priority, number_mask, remaining_tick, timer, rdy,
                       hwv, current_thread, lock_nest, irq, stale>>
        /\ pc[self] = "delete3"
        /\ pc' = [pc EXCEPT ![self] = "run"] /\ tgt' = [tgt EXCEPT ![self] = NoThread]
        /\ stat' = [stat EXCEPT ![t] = "close"]
        /\ defunct' \in {defunct, InsertFirst(defunct, t)}
    BY DEF Delete3, GotoFor
  <1>1. self = current_thread /\ ~switch_flag /\ self = hw
    BY ExecutingFacts DEF Delete3
  <1>2. /\ t \in Thread /\ stat[t] \in Started /\ ~timer[t]
        /\ tgt[t] = NoThread /\ t # current_thread /\ t # Idle
        /\ \A u \in Thread : tgt[u] = t => u = self \/ pc[u] = "suspend1"
        /\ self # Idle
    BY <1>0 DEF SchedulerInv, CallInv, CallShape, DeleteInv, TargetInv, IdleInv, TypeOK
  <1>u. Unlinked(t)
    BY <1>0 DEF Unlinked
  <1>s. stat[self] \in Started
    BY <1>0, <1>1 DEF SchedulerInv, CurrentInv
  <1> HIDE DEF t
  <1>3. /\ pc' \in [Thread -> ThreadPc] /\ tgt' \in [Thread -> Thread \cup {NoThread}]
        /\ pc'[self] = "run" /\ tgt'[self] = NoThread
        /\ \A u \in Thread : u # self => pc'[u] = pc[u] /\ tgt'[u] = tgt[u]
    BY <1>0 DEF SchedulerInv, TypeOK, ThreadPc
  <1>4. /\ stat' \in [Thread -> Stat] /\ stat'[t] = "close"
        /\ \A u \in Thread : u # t => stat'[u] = stat[u]
    BY <1>0, <1>2 DEF SchedulerInv, TypeOK, Stat
  <1>5. defunct' \in Seq(Thread) /\ DefunctInv'
    <2>1. defunct \in Seq(Thread) /\ NoRepeat(defunct) /\ ~InList(defunct, t)
      BY <1>2 DEF SchedulerInv, TypeOK, DefunctInv, Started
    <2>2. /\ InsertFirst(defunct, t) \in Seq(Thread) /\ NoRepeat(InsertFirst(defunct, t))
          /\ \A x : InList(InsertFirst(defunct, t), x) <=> InList(defunct, x) \/ x = t
      BY <1>2, <2>1, InsertFirstFacts
    <2>3. /\ defunct' \in Seq(Thread) /\ NoRepeat(defunct')
          /\ \A x \in Thread : InList(defunct', x) => InList(defunct, x) \/ x = t
      BY <1>0, <2>1, <2>2
    <2> QED BY <1>4, <2>3 DEF SchedulerInv, DefunctInv
  <1>6. TypeOK'
    BY <1>0, <1>3, <1>4, <1>5 DEF SchedulerInv, TypeOK
  <1>7. \A x \in Thread : x # t => (Unlinked(x)' <=> Unlinked(x))
    BY <1>0, <1>3, <1>2 DEF Unlinked, t
  <1>8. ReadyQueues' /\ GroupExact'
    <2>1. \A p \in Prio, x \in Thread :
             InList(priority_table'[p], x) <=>
               (stat'[x] = "ready" /\ current_priority'[x] = p /\ ~Unlinked(x)')
      BY <1>0, <1>2, <1>u, <1>4, <1>7 DEF SchedulerInv, ReadyQueues
    <2> QED BY <1>0, <2>1 DEF SchedulerInv, ReadyQueues, GroupExact
  <1>9. TimerOnlySuspended' /\ MaskInv' /\ SwitchSound'
    BY <1>0, <1>2, <1>4 DEF SchedulerInv, TimerOnlySuspended, MaskInv, SwitchSound, Started
  <1>10. CallShape' /\ CallerInv' /\ IdleInv' /\ TargetInv'
    BY <1>0, <1>2, <1>s, <1>3, <1>4 DEF SchedulerInv, CallInv, CallShape, CallerInv,
                                  IdleInv, TargetInv, Started
  <1>11. ResumeInv' /\ DeleteInv'
    <2>1. \A u \in Thread : pc'[u] \in {"resume1", "resume2", "delete2", "delete3"} =>
            u # self /\ tgt[u] \in Thread /\ tgt[u] # t /\ tgt[u] # NoThread
      <3> SUFFICES ASSUME NEW u \in Thread,
                          pc'[u] \in {"resume1", "resume2", "delete2", "delete3"}
                   PROVE  u # self /\ tgt[u] \in Thread /\ tgt[u] # t /\ tgt[u] # NoThread
        OBVIOUS
      <3>1. u # self /\ pc[u] = pc'[u] /\ tgt[u] # t
        BY <1>2, <1>3
      <3>2. tgt[u] \in Thread /\ tgt[u] # NoThread
        BY <3>1 DEF SchedulerInv, CallInv, CallShape, TypeOK
      <3> QED BY <3>1, <3>2
    <2> QED BY <1>0, <1>3, <1>4, <2>1 DEF SchedulerInv, CallInv, ResumeInv, DeleteInv
  <1>12. CurrentInv'
    BY <1>0, <1>1, <1>2, <1>s, <1>3, <1>4 DEF SchedulerInv, CurrentInv, Started
  <1> QED BY <1>5, <1>6, <1>8, <1>9, <1>10, <1>11, <1>12 DEF SchedulerInv, CallInv

(* One turn of the idle thread.                                            *)
LEMMA IdleReapInv ==
    ASSUME SchedulerInv, IdleReap PROVE SchedulerInv'
  <1> USE DEF rdy, hwv, ctl
  <1> DEFINE t == Head(defunct)
  <1>0. /\ UNCHANGED <<current_priority, number_mask, remaining_tick, timer, rdy,
                       hwv, ctl, current_thread, lock_nest, irq, stale>>
        /\ defunct # <<>> /\ defunct' = Tail(defunct)
        /\ stat' \in {stat, [stat EXCEPT ![t] = "none"]}
    BY DEF IdleReap
  <1>1. Idle = current_thread /\ ~switch_flag /\ Idle = hw
    BY ExecutingFacts DEF IdleReap
  <1>2. /\ t \in Thread /\ InList(defunct, t)
        /\ Tail(defunct) \in Seq(Thread) /\ NoRepeat(Tail(defunct))
        /\ \A x : InList(Tail(defunct), x) <=> InList(defunct, x) /\ x # t
    BY <1>0, TailFacts DEF SchedulerInv, TypeOK, DefunctInv
  <1> HIDE DEF t
  <1>3. stat[t] = "close" /\ t # Idle /\ tgt[t] = NoThread
    BY <1>2 DEF SchedulerInv, DefunctInv, IdleInv, CallInv, CallerInv, Started
  <1>4. /\ stat' \in [Thread -> Stat] /\ stat'[t] \in {"close", "none"}
        /\ \A u \in Thread : u # t => stat'[u] = stat[u]
    BY <1>0, <1>2, <1>3 DEF SchedulerInv, TypeOK, Stat
  <1>5. TypeOK'
    BY <1>0, <1>2, <1>4 DEF SchedulerInv, TypeOK
  <1>6. DefunctInv'
    BY <1>0, <1>2, <1>4 DEF SchedulerInv, DefunctInv
  <1>7. ReadyQueues' /\ GroupExact'
    BY <1>0, <1>3, <1>4 DEF SchedulerInv, ReadyQueues, GroupExact, Unlinked
  <1>8. TimerOnlySuspended' /\ MaskInv' /\ SwitchSound'
    BY <1>0, <1>3, <1>4 DEF SchedulerInv, TimerOnlySuspended, MaskInv, SwitchSound, Started
  <1>9. CallShape' /\ CallerInv' /\ IdleInv' /\ TargetInv'
    BY <1>0, <1>3, <1>4 DEF SchedulerInv, CallInv, CallShape, CallerInv,
                            IdleInv, TargetInv, Started
  <1>t. \A u \in Thread : pc[u] \in {"resume1", "resume2", "delete2", "delete3"} =>
            tgt[u] \in Thread
    BY DEF SchedulerInv, CallInv, CallShape, TypeOK
  <1>10. ResumeInv' /\ DeleteInv'
    BY <1>0, <1>3, <1>4, <1>t DEF SchedulerInv, CallInv, ResumeInv, DeleteInv, Started
  <1>11. CurrentInv'
    BY <1>0, <1>1, <1>3, <1>4 DEF SchedulerInv, CurrentInv
  <1> QED BY <1>5, <1>6, <1>7, <1>8, <1>9, <1>10, <1>11 DEF SchedulerInv, CallInv

(* The section of rt_thread_resume that inserts the thread.                *)
LEMMA Resume2Inv ==
    ASSUME SchedulerInv, NEW self \in Thread, Resume2(self) PROVE SchedulerInv'
  <1> USE DEF hwv
  <1> DEFINE t == tgt[self]
  <1>0. /\ UNCHANGED <<current_priority, number_mask, remaining_tick, timer, hwv,
                       current_thread, lock_nest, defunct, irq, stale>>
        /\ pc[self] = "resume2"
        /\ pc' = [pc EXCEPT ![self] = "sched"] /\ tgt' = [tgt EXCEPT ![self] = NoThread]
        /\ rt_schedule_insert_thread(t)
    BY DEF Resume2, GotoFor
  <1>1. self = current_thread /\ ~switch_flag /\ self = hw
    BY ExecutingFacts DEF Resume2
  <1>2. /\ t \in Thread /\ stat[t] = "suspend" /\ ~timer[t] /\ t # Idle
        /\ \A u \in Thread : tgt[u] = t => u = self \/ pc[u] = "suspend1"
        /\ self # Idle
    <2>1. t \in Thread /\ stat[t] = "suspend" /\ ~timer[t]
      <3>1. stat[t] = "suspend" /\ ~timer[t]
        BY <1>0 DEF SchedulerInv, CallInv, ResumeInv
      <3>2. tgt[self] # NoThread
        BY <1>0 DEF SchedulerInv, CallInv, CallShape
      <3>3. t \in Thread
        BY <3>2 DEF SchedulerInv, TypeOK
      <3> QED BY <3>1, <3>3
    <2>2. t # Idle /\ self # Idle
      BY <1>0 DEF SchedulerInv, IdleInv
    <2>3. \A u \in Thread : tgt[u] = t => u = self \/ pc[u] = "suspend1"
      BY <1>0, <2>1 DEF SchedulerInv, CallInv, TargetInv
    <2> QED BY <2>1, <2>2, <2>3
  <1>s. stat[self] \in Started
    BY <1>0, <1>1 DEF SchedulerInv, CurrentInv
  <1>u. ~Unlinked(t)
    BY <1>0, <1>2 DEF Unlinked
  <1> HIDE DEF t
  <1>3. /\ stat' = [stat EXCEPT ![t] = "ready"]
        /\ TableOK(priority_table', ready_group')
        /\ \A q \in Prio, x \in Thread : InList(priority_table'[q], x) <=>
             InList(priority_table[q], x) \/ (q = current_priority[t] /\ x = t)
    BY <1>0, <1>2, InsertStep
  <1>4. /\ pc' \in [Thread -> ThreadPc] /\ tgt' \in [Thread -> Thread \cup {NoThread}]
        /\ pc'[self] = "sched" /\ tgt'[self] = NoThread
        /\ \A u \in Thread : u # self => pc'[u] = pc[u] /\ tgt'[u] = tgt[u]
    BY <1>0 DEF SchedulerInv, TypeOK, ThreadPc
  <1>5. /\ stat' \in [Thread -> Stat] /\ stat'[t] = "ready"
        /\ \A u \in Thread : u # t => stat'[u] = stat[u]
    BY <1>2, <1>3 DEF SchedulerInv, TypeOK, Stat
  <1>6. TypeOK'
    BY <1>0, <1>3, <1>4, <1>5 DEF SchedulerInv, TypeOK, TableOK
  <1>7. \A x \in Thread : Unlinked(x)' <=> Unlinked(x)
    BY <1>0, <1>4 DEF Unlinked
  <1>8. ReadyQueues' /\ GroupExact'
    <2>1. \A p \in Prio, x \in Thread :
             InList(priority_table'[p], x) <=>
               (stat'[x] = "ready" /\ current_priority'[x] = p /\ ~Unlinked(x)')
      BY <1>0, <1>2, <1>u, <1>3, <1>5, <1>7 DEF SchedulerInv, ReadyQueues
    <2> QED BY <1>3, <2>1 DEF ReadyQueues, GroupExact, TableOK
  <1>9. TimerOnlySuspended' /\ MaskInv' /\ SwitchSound' /\ DefunctInv'
    BY <1>0, <1>2, <1>5 DEF SchedulerInv, TimerOnlySuspended, MaskInv, SwitchSound,
                            DefunctInv, Started
  <1>10. CallShape' /\ CallerInv' /\ IdleInv' /\ TargetInv'
    BY <1>0, <1>2, <1>s, <1>4, <1>5 DEF SchedulerInv, CallInv, CallShape, CallerInv,
                                  IdleInv, TargetInv, Started
  <1>11. ResumeInv' /\ DeleteInv'
    <2>1. \A u \in Thread : pc'[u] \in {"resume1", "resume2", "delete2", "delete3"} =>
            u # self /\ tgt[u] \in Thread /\ tgt[u] # t
      BY <1>2, <1>4 DEF SchedulerInv, CallInv, CallShape, TypeOK
    <2>2. \A u \in Thread : tgt[u] = NoThread => tgt'[u] = NoThread
      BY <1>4
    <2> QED BY <1>0, <1>4, <1>5, <2>1, <2>2 DEF SchedulerInv, CallInv, ResumeInv, DeleteInv
  <1>12. CurrentInv'
    BY <1>0, <1>1, <1>2, <1>s, <1>4, <1>5 DEF SchedulerInv, CurrentInv, Started
  <1> QED BY <1>6, <1>8, <1>9, <1>10, <1>11, <1>12 DEF SchedulerInv, CallInv

(* Moving to the tail of the own queue.                                    *)
LEMMA YieldInv ==
    ASSUME SchedulerInv, NEW self \in Thread, Yield(self) PROVE SchedulerInv'
  <1> USE DEF tcb, hwv
  <1> DEFINE p == current_priority[self]
  <1>0. /\ UNCHANGED <<tcb, ready_group, hwv, current_thread, lock_nest, defunct,
                       irq, stale, tgt>>
        /\ stat[self] = "ready"
        /\ priority_table' = YieldTable(self)
        /\ pc' = [pc EXCEPT ![self] = "sched"]
    BY DEF Yield, YieldMoves, Goto
  <1>1. /\ self = current_thread /\ ~switch_flag /\ self # Idle
        /\ pc[self] = "run" /\ ~Unlinked(self)
    BY RunningFacts DEF Yield
  <1>2. p \in Prio /\ InList(priority_table[p], self)
    BY <1>0, <1>1 DEF SchedulerInv, TypeOK, ReadyQueues
  <1>3. TableOK(priority_table', ready_group) /\ SameMembers(priority_table', priority_table)
    BY <1>0, <1>2, InvTable, MoveTable DEF YieldTable
  <1> HIDE DEF p
  <1>4. /\ pc' \in [Thread -> ThreadPc]
        /\ \A u \in Thread : pc'[u] = pc[u] \/
              (u = self /\ pc[u] = "run" /\ pc'[u] = "sched")
    BY <1>0, <1>1 DEF SchedulerInv, TypeOK, ThreadPc
  <1>5. TypeOK'
    BY <1>0, <1>3, <1>4 DEF SchedulerInv, TypeOK, TableOK
  <1>6. \A t \in Thread : Unlinked(t)' <=> Unlinked(t)
    BY <1>0, <1>4 DEF Unlinked
  <1>7. ReadyQueues' /\ GroupExact'
    BY <1>0, <1>3, <1>6 DEF SchedulerInv, ReadyQueues, GroupExact, TableOK, SameMembers
  <1>8. TimerOnlySuspended' /\ MaskInv' /\ DefunctInv' /\ SwitchSound'
    BY <1>0 DEF SchedulerInv, TimerOnlySuspended, MaskInv, DefunctInv, SwitchSound
  <1>9. CallShape' /\ ResumeInv' /\ CallerInv' /\ DeleteInv' /\ TargetInv'
    BY <1>0, <1>4 DEF SchedulerInv, CallInv, CallShape, ResumeInv, CallerInv,
                      DeleteInv, TargetInv
  <1>10. CurrentInv' /\ IdleInv'
    BY <1>0, <1>1, <1>4 DEF SchedulerInv, CurrentInv, IdleInv
  <1> QED BY <1>5, <1>7, <1>8, <1>9, <1>10 DEF SchedulerInv, CallInv

(* CHANGE_PRIORITY.                                                        *)
LEMMA ChangePriorityInv ==
    ASSUME SchedulerInv, NEW self \in Thread, NEW t \in Thread, NEW p \in Prio,
           ChangePriority(self, t, p)
    PROVE  SchedulerInv'
  <1> USE DEF hwv, ctl, rdy
  <1> DEFINE old == current_priority[t]
             tab == TableRemove(priority_table, t, old)
             grp == GroupRemove(ready_group, tab, old, number_mask[t])
  <1>0. /\ UNCHANGED <<stat, remaining_tick, timer, hwv, ctl, current_thread,
                       lock_nest, defunct, irq>>
        /\ stat[t] \in {"init", "ready", "suspend"}
        /\ current_priority' = [current_priority EXCEPT ![t] = p]
        /\ number_mask' = [number_mask EXCEPT ![t] = {p}]
        /\ stale' = TRUE
        /\ stat[t] = "ready" => /\ priority_table' = TableInsert(tab, t, p)
                                /\ ready_group' = GroupInsert(grp, {p})
        /\ stat[t] # "ready" => UNCHANGED rdy
        /\ ~Unlinked(t)
    BY DEF ChangePriority, Unlinked, Free
  <1>1. TableOK(priority_table, ready_group) /\ old \in Prio
    BY InvTable DEF SchedulerInv, TypeOK
  <1>2. /\ current_priority' \in [Thread -> Prio]
        /\ number_mask' \in [Thread -> SUBSET Prio]
        /\ current_priority'[t] = p /\ number_mask'[t] = {p}
        /\ \A u \in Thread : u # t => /\ current_priority'[u] = current_priority[u]
                                       /\ number_mask'[u] = number_mask[u]
    BY <1>0 DEF SchedulerInv, TypeOK
  <1>3. \A x \in Thread : Unlinked(x)' <=> Unlinked(x)
    BY <1>0 DEF Unlinked
  <1>4. TableOK(priority_table', ready_group') /\ ReadyQueues' /\ GroupExact'
    <2>1. CASE stat[t] = "ready"
      <3>1. number_mask[t] = {old}
        BY <2>1 DEF SchedulerInv, MaskInv, Started
      <3>2. TableOK(tab, grp) /\ Removed(tab, priority_table, t, old)
        BY <1>1, <3>1, RemoveTable
      <3>3. \A q \in Prio : q # old => ~InList(priority_table[q], t)
        BY DEF SchedulerInv, ReadyQueues
      <3> HIDE DEF tab, grp, old
      <3>4. \A q \in Prio, x \in Thread :
              InList(tab[q], x) <=> InList(priority_table[q], x) /\ x # t
        BY <3>2, <3>3 DEF Removed
      <3>i. ~InList(tab[p], t)
        BY <3>4
      <3>5. TableOK(priority_table', ready_group') /\ Inserted(priority_table', tab, t, p)
        BY <1>0, <2>1, <3>2, <3>i, InsertTable
      <3>6. \A q \in Prio, x \in Thread :
             InList(priority_table'[q], x) <=>
               (stat'[x] = "ready" /\ current_priority'[x] = q /\ ~Unlinked(x)')
        <4> TAKE q \in Prio, x \in Thread
        <4>1. CASE x = t
          BY <4>1, <1>0, <1>2, <1>3, <2>1, <3>4, <3>5 DEF Inserted
        <4>2. CASE x # t
          <5>1. InList(priority_table'[q], x) <=> InList(priority_table[q], x)
            BY <4>2, <3>4, <3>5 DEF Inserted
          <5>2. InList(priority_table[q], x) <=>
                  (stat[x] = "ready" /\ current_priority[x] = q /\ ~Unlinked(x))
            BY DEF SchedulerInv, ReadyQueues
          <5> QED BY <4>2, <5>1, <5>2, <1>0, <1>2, <1>3
        <4> QED BY <4>1, <4>2
      <3> QED BY <3>5, <3>6 DEF ReadyQueues, GroupExact, TableOK
    <2>2. CASE stat[t] # "ready"
      BY <1>0, <1>1, <1>2, <1>3, <2>2 DEF SchedulerInv, ReadyQueues, GroupExact
    <2> QED BY <2>1, <2>2
  <1> HIDE DEF tab, grp, old
  <1>5. TypeOK'
    BY <1>0, <1>2, <1>4 DEF SchedulerInv, TypeOK, TableOK
  <1>6. MaskInv'
    BY <1>0, <1>2 DEF SchedulerInv, MaskInv
  <1>7. TimerOnlySuspended' /\ SwitchSound' /\ DefunctInv' /\ IdleInv' /\ CurrentInv'
    BY <1>0 DEF SchedulerInv, TimerOnlySuspended, SwitchSound, DefunctInv,
                IdleInv, CurrentInv
  <1>8. CallInv'
    BY <1>0 DEF SchedulerInv, CallInv, CallShape, ResumeInv, DeleteInv,
                CallerInv, TargetInv
  <1> QED BY <1>4, <1>5, <1>6, <1>7, <1>8 DEF SchedulerInv

(* What is common to exit, delete, suspend and sleep: self, in application *)
(* code, takes a started thread t that no call is about off its queue.     *)
LEMMA TakenOff ==
    ASSUME SchedulerInv, NEW t \in Thread, stat[t] \in Started,
           rt_schedule_remove_thread(t),
           UNCHANGED current_priority,
           \A x \in Thread : x # t => stat'[x] = stat[x],
           \A x \in Thread : x # t => (Unlinked(x)' <=> Unlinked(x)),
           stat'[t] # "ready" \/ Unlinked(t)'
    PROVE  TableOK(priority_table', ready_group') /\ ReadyQueues' /\ GroupExact'
  <1>1. /\ TableOK(priority_table', ready_group')
        /\ \A q \in Prio, x \in Thread : InList(priority_table'[q], x) <=>
             InList(priority_table[q], x) /\ x # t
    BY RemoveStep
  <1>2. ASSUME NEW p \in Prio, NEW x \in Thread
        PROVE  InList(priority_table'[p], x) <=>
                 (stat'[x] = "ready" /\ current_priority'[x] = p /\ ~Unlinked(x)')
    <2>1. CASE x = t
      BY <1>1, <2>1
    <2>2. CASE x # t
      BY <1>1, <2>2 DEF SchedulerInv, ReadyQueues
    <2> QED BY <2>1, <2>2
  <1> QED BY <1>1, <1>2 DEF ReadyQueues, GroupExact, TableOK

LEMMA ExitInv ==
    ASSUME SchedulerInv, NEW self \in Thread, Exit(self) PROVE SchedulerInv'
  <1> USE DEF hwv
  <1>0. /\ UNCHANGED <<current_priority, number_mask, remaining_tick, hwv,
                       current_thread, lock_nest, irq, stale, tgt>>
        /\ rt_schedule_remove_thread(self)
        /\ stat' = [stat EXCEPT ![self] = "close"]
        /\ timer' = [timer EXCEPT ![self] = FALSE]
        /\ defunct' \in {defunct, InsertFirst(defunct, self)}
        /\ pc' = [pc EXCEPT ![self] = "exit"]
    BY DEF Exit, Goto
  <1>1. /\ self = current_thread /\ self = hw /\ ~switch_flag
        /\ self # Idle /\ pc[self] = "run" /\ tgt[self] = NoThread
        /\ stat[self] \in Started
        /\ \A u \in Thread : tgt[u] = self => pc[u] = "suspend1"
    BY RunningFacts DEF Exit, Free
  <1>2. /\ pc' \in [Thread -> ThreadPc] /\ pc'[self] = "exit"
        /\ \A u \in Thread : u # self => pc'[u] = pc[u]
    BY <1>0 DEF SchedulerInv, TypeOK, ThreadPc
  <1>3. /\ stat' \in [Thread -> Stat] /\ timer' \in [Thread -> BOOLEAN]
        /\ stat'[self] = "close" /\ ~timer'[self]
        /\ \A u \in Thread : u # self => stat'[u] = stat[u] /\ timer'[u] = timer[u]
    BY <1>0 DEF SchedulerInv, TypeOK, Stat
  <1>4. defunct' \in Seq(Thread) /\ DefunctInv'
    <2>1. defunct \in Seq(Thread) /\ NoRepeat(defunct) /\ ~InList(defunct, self)
      BY <1>1 DEF SchedulerInv, TypeOK, DefunctInv, Started
    <2>2. /\ InsertFirst(defunct, self) \in Seq(Thread)
          /\ NoRepeat(InsertFirst(defunct, self))
          /\ \A x : InList(InsertFirst(defunct, self), x) <=> InList(defunct, x) \/ x = self
      BY <2>1, InsertFirstFacts
    <2>3. /\ defunct' \in Seq(Thread) /\ NoRepeat(defunct')
          /\ \A x \in Thread : InList(defunct', x) => InList(defunct, x) \/ x = self
      BY <1>0, <2>1, <2>2
    <2> QED BY <1>3, <2>3 DEF SchedulerInv, DefunctInv
  <1>5. \A x \in Thread : Unlinked(x)' <=> Unlinked(x)
    BY <1>0, <1>1, <1>2 DEF Unlinked
  <1>6. TableOK(priority_table', ready_group') /\ ReadyQueues' /\ GroupExact'
    BY <1>0, <1>1, <1>3, <1>5, TakenOff
  <1>7. TypeOK'
    BY <1>0, <1>2, <1>3, <1>4, <1>6 DEF SchedulerInv, TypeOK, TableOK
  <1>8. TimerOnlySuspended' /\ MaskInv' /\ SwitchSound'
    BY <1>0, <1>3 DEF SchedulerInv, TimerOnlySuspended, MaskInv, SwitchSound, Started
  <1>9. CallShape' /\ CallerInv' /\ IdleInv' /\ TargetInv'
    BY <1>0, <1>1, <1>2, <1>3 DEF SchedulerInv, CallInv, CallShape, CallerInv,
                                  IdleInv, TargetInv
  <1>10. ResumeInv' /\ DeleteInv'
    <2>1. \A u \in Thread : pc'[u] \in {"resume1", "resume2", "delete2", "delete3"} =>
            pc'[u] = pc[u] /\ tgt[u] \in Thread /\ tgt[u] # self
      BY <1>1, <1>2 DEF SchedulerInv, CallInv, CallShape, TypeOK
    <2> QED BY <1>0, <1>3, <2>1 DEF SchedulerInv, CallInv, ResumeInv, DeleteInv
  <1>11. CurrentInv'
    BY <1>0, <1>1, <1>2, <1>3 DEF SchedulerInv, CurrentInv
  <1> QED BY <1>4, <1>6, <1>7, <1>8, <1>9, <1>10, <1>11 DEF SchedulerInv, CallInv

LEMMA Delete1Inv ==
    ASSUME SchedulerInv, NEW self \in Thread, NEW t \in Thread, Delete1(self, t)
    PROVE  SchedulerInv'
  <1> USE DEF tcb, hwv
  <1>0. /\ UNCHANGED <<tcb, hwv, current_thread, lock_nest, defunct, irq, stale>>
        /\ stat[t] \in Started /\ ~timer[t] /\ rt_schedule_remove_thread(t)
        /\ t # self /\ t # Idle /\ tgt[t] = NoThread
        /\ \A u \in Thread : tgt[u] = t => pc[u] = "suspend1"
        /\ pc' = [pc EXCEPT ![self] = "delete2"] /\ tgt' = [tgt EXCEPT ![self] = t]
    BY DEF Delete1, DeleteRemove, GotoFor, Free, Started
  <1>1. /\ self = current_thread /\ self # Idle /\ ~switch_flag
        /\ pc[self] = "run" /\ tgt[self] = NoThread /\ stat[self] \in Started
        /\ \A u \in Thread : tgt[u] = self => pc[u] = "suspend1"
    BY RunningFacts DEF Delete1, DeleteRemove, Free
  <1>2. /\ pc' \in [Thread -> ThreadPc] /\ tgt' \in [Thread -> Thread \cup {NoThread}]
        /\ pc'[self] = "delete2" /\ tgt'[self] = t
        /\ \A u \in Thread : u # self => pc'[u] = pc[u] /\ tgt'[u] = tgt[u]
    BY <1>0 DEF SchedulerInv, TypeOK, ThreadPc
  <1>3. Unlinked(t)' /\ \A x \in Thread : x # t => (Unlinked(x)' <=> Unlinked(x))
    BY <1>1, <1>2 DEF Unlinked
  <1>4. TableOK(priority_table', ready_group') /\ ReadyQueues' /\ GroupExact'
    BY <1>0, <1>3, TakenOff
  <1>5. TypeOK'
    BY <1>0, <1>2, <1>4 DEF SchedulerInv, TypeOK, TableOK
  <1>6. TimerOnlySuspended' /\ MaskInv' /\ DefunctInv' /\ SwitchSound'
    BY <1>0 DEF SchedulerInv, TimerOnlySuspended, MaskInv, DefunctInv, SwitchSound
  <1>7. CallShape' /\ ResumeInv' /\ CallerInv'
    BY <1>0, <1>1, <1>2 DEF SchedulerInv, CallInv, CallShape, ResumeInv, CallerInv
  <1>8. DeleteInv'
    BY <1>0, <1>1, <1>2 DEF SchedulerInv, CallInv, DeleteInv
  <1>9. TargetInv'
    BY <1>0, <1>1, <1>2 DEF SchedulerInv, CallInv, TargetInv
  <1>10. CurrentInv' /\ IdleInv'
    BY <1>0, <1>1, <1>2 DEF SchedulerInv, CurrentInv, IdleInv, Started
  <1> QED BY <1>4, <1>5, <1>6, <1>7, <1>8, <1>9, <1>10 DEF SchedulerInv, CallInv

(* The test of rt_thread_suspend.                                          *)
LEMMA Suspend0Inv ==
    ASSUME SchedulerInv, NEW self \in Thread, NEW t \in Thread, Suspend0(self, t)
    PROVE  SchedulerInv'
  <1> USE DEF tcb, rdy, hwv
  <1>0. /\ UNCHANGED <<tcb, rdy, hwv, current_thread, lock_nest, defunct, irq, stale>>
        /\ pc' = [pc EXCEPT ![self] = "suspend1"] /\ tgt' = [tgt EXCEPT ![self] = t]
        /\ t # Idle
    BY DEF Suspend0, GotoFor
  <1>1. /\ self = current_thread /\ self # Idle /\ ~switch_flag
        /\ pc[self] = "run" /\ tgt[self] = NoThread /\ stat[self] \in Started
    BY RunningFacts DEF Suspend0
  <1>2. /\ pc' \in [Thread -> ThreadPc] /\ tgt' \in [Thread -> Thread \cup {NoThread}]
        /\ pc'[self] = "suspend1" /\ tgt'[self] = t
        /\ \A u \in Thread : u # self => pc'[u] = pc[u] /\ tgt'[u] = tgt[u]
    BY <1>0 DEF SchedulerInv, TypeOK, ThreadPc
  <1>3. TypeOK'
    BY <1>0, <1>2 DEF SchedulerInv, TypeOK
  <1>4. \A x \in Thread : Unlinked(x)' <=> Unlinked(x)
    BY <1>1, <1>2 DEF Unlinked
  <1>5. ReadyQueues' /\ GroupExact'
    BY <1>0, <1>4 DEF SchedulerInv, ReadyQueues, GroupExact
  <1>6. TimerOnlySuspended' /\ MaskInv' /\ DefunctInv' /\ SwitchSound'
    BY <1>0 DEF SchedulerInv, TimerOnlySuspended, MaskInv, DefunctInv, SwitchSound
  <1>7. CallShape' /\ ResumeInv' /\ CallerInv'
    BY <1>0, <1>1, <1>2 DEF SchedulerInv, CallInv, CallShape, ResumeInv, CallerInv
  <1>8. DeleteInv'
    BY <1>0, <1>1, <1>2 DEF SchedulerInv, CallInv, DeleteInv
  <1>9. TargetInv'
    BY <1>0, <1>1, <1>2 DEF SchedulerInv, CallInv, TargetInv
  <1>10. CurrentInv' /\ IdleInv'
    BY <1>0, <1>1, <1>2 DEF SchedulerInv, CurrentInv, IdleInv, Started
  <1> QED BY <1>3, <1>5, <1>6, <1>7, <1>8, <1>9, <1>10 DEF SchedulerInv, CallInv

(* The section of rt_thread_suspend, whatever has become of the thread it  *)
(* is about, as long as it is alive.                                       *)
LEMMA Suspend1Inv ==
    ASSUME SchedulerInv, NEW self \in Thread, Suspend1(self) PROVE SchedulerInv'
  <1> USE DEF hwv
  <1> DEFINE t == tgt[self]
  <1>0. /\ UNCHANGED <<current_priority, number_mask, remaining_tick, hwv,
                       current_thread, lock_nest, defunct, irq, stale>>
        /\ pc[self] = "suspend1"
        /\ stat[t] \in Started /\ rt_schedule_remove_thread(t)
        /\ stat' = [stat EXCEPT ![t] = "suspend"]
        /\ timer' = [timer EXCEPT ![t] = FALSE]
        /\ pc' = [pc EXCEPT ![self] = IF t = self THEN "sched" ELSE "run"]
        /\ tgt' = [tgt EXCEPT ![self] = NoThread]
    BY DEF Suspend1, GotoFor, Started
  <1>1. self = current_thread /\ ~switch_flag
    BY ExecutingFacts DEF Suspend1
  <1>2. t \in Thread /\ t # Idle /\ self # Idle
    BY <1>0 DEF SchedulerInv, CallInv, CallShape, IdleInv, TypeOK
  <1> HIDE DEF t
  <1>3. /\ pc' \in [Thread -> ThreadPc] /\ tgt' \in [Thread -> Thread \cup {NoThread}]
        /\ pc'[self] \in {"run", "sched"} /\ tgt'[self] = NoThread
        /\ \A u \in Thread : u # self => pc'[u] = pc[u] /\ tgt'[u] = tgt[u]
    BY <1>0 DEF SchedulerInv, TypeOK, ThreadPc
  <1>4. /\ stat' \in [Thread -> Stat] /\ timer' \in [Thread -> BOOLEAN]
        /\ stat'[t] = "suspend" /\ ~timer'[t]
        /\ \A u \in Thread : u # t => stat'[u] = stat[u] /\ timer'[u] = timer[u]
    BY <1>0, <1>2 DEF SchedulerInv, TypeOK, Stat
  <1>5. \A x \in Thread : Unlinked(x)' <=> Unlinked(x)
    BY <1>0, <1>3 DEF Unlinked
  <1>6. TableOK(priority_table', ready_group') /\ ReadyQueues' /\ GroupExact'
    BY <1>0, <1>2, <1>4, <1>5, TakenOff
  <1>7. TypeOK'
    BY <1>0, <1>3, <1>4, <1>6 DEF SchedulerInv, TypeOK, TableOK
  <1>8. TimerOnlySuspended' /\ MaskInv' /\ SwitchSound' /\ DefunctInv'
    BY <1>0, <1>4 DEF SchedulerInv, TimerOnlySuspended, MaskInv, SwitchSound,
                      DefunctInv, Started
  <1>9. CallShape' /\ CallerInv'
    BY <1>0, <1>3, <1>4 DEF SchedulerInv, CallInv, CallShape, CallerInv, Started
  <1>10. TargetInv'
    <2>1. current_thread' = current_thread /\ current_thread # NoThread
      BY <1>0 DEF SchedulerInv, TypeOK
    <2> QED BY <1>3, <2>1 DEF SchedulerInv, CallInv, TargetInv
  <1>11. ResumeInv' /\ DeleteInv'
    <2>1. \A u \in Thread : pc'[u] \in {"resume1", "resume2", "delete2", "delete3"} =>
            u # self /\ pc'[u] = pc[u] /\ tgt'[u] = tgt[u] /\ tgt[u] \in Thread
      BY <1>3 DEF SchedulerInv, CallInv, CallShape, TypeOK
    <2>2. \A u \in Thread : tgt[u] = NoThread => tgt'[u] = NoThread
      BY <1>3
    <2> QED BY <1>0, <1>4, <2>1, <2>2 DEF SchedulerInv, CallInv, ResumeInv, DeleteInv,
                                          Started
  <1>12. CurrentInv'
    <2>1. stat[self] \in Started
      BY <1>0, <1>1 DEF SchedulerInv, CurrentInv
    <2>2. stat'[self] \in Started
      BY <1>4, <2>1 DEF Started
    <2>3. hw = self
      BY ExecutingFacts DEF Suspend1
    <2> QED BY <1>0, <1>1, <2>2, <2>3 DEF SchedulerInv, CurrentInv, Started
  <1>13. IdleInv'
    <2>1. stat'[Idle] = "ready" /\ pc'[Idle] = "run"
      BY <1>2, <1>3, <1>4 DEF SchedulerInv, IdleInv
    <2>2. \A u \in Thread : tgt'[u] # Idle
      BY <1>3 DEF SchedulerInv, IdleInv
    <2> QED BY <2>1, <2>2 DEF IdleInv
  <1> QED BY <1>6, <1>7, <1>8, <1>9, <1>10, <1>11, <1>12, <1>13 DEF SchedulerInv, CallInv

(* rt_thread_sleep, ready or (with the scheduler locked) suspended already. *)
LEMMA SleepInv ==
    ASSUME SchedulerInv, NEW self \in Thread, Sleep(self) PROVE SchedulerInv'
  <1> USE DEF hwv
  <1>0. /\ UNCHANGED <<current_priority, number_mask, remaining_tick, hwv,
                       current_thread, lock_nest, defunct, irq, stale, tgt>>
        /\ stat[self] = "ready" => /\ rt_schedule_remove_thread(self)
                                   /\ stat' = [stat EXCEPT ![self] = "suspend"]
        /\ stat[self] # "ready" => UNCHANGED <<stat, rdy>>
        /\ timer' = [timer EXCEPT ![self] = TRUE]
        /\ pc' = [pc EXCEPT ![self] = "sched"]
    BY DEF Sleep, Goto
  <1>1. /\ self = current_thread /\ self # Idle /\ ~switch_flag /\ pc[self] = "run"
        /\ stat[self] \in Started
        /\ \A u \in Thread : tgt[u] = self => pc[u] = "suspend1"
    BY RunningFacts DEF Sleep, Free
  <1>2. /\ pc' \in [Thread -> ThreadPc]
        /\ \A u \in Thread : pc'[u] = pc[u] \/
              (u = self /\ pc[u] = "run" /\ pc'[u] = "sched")
    BY <1>0, <1>1 DEF SchedulerInv, TypeOK, ThreadPc
  <1>3. /\ stat' \in [Thread -> Stat] /\ stat'[self] = "suspend"
        /\ \A u \in Thread : u # self => stat'[u] = stat[u]
    BY <1>0, <1>1 DEF SchedulerInv, TypeOK, Stat, Started
  <1>t. /\ timer' \in [Thread -> BOOLEAN]
        /\ \A u \in Thread : u # self => timer'[u] = timer[u]
    BY <1>0 DEF SchedulerInv, TypeOK
  <1>4. \A x \in Thread : Unlinked(x)' <=> Unlinked(x)
    BY <1>0, <1>2 DEF Unlinked
  <1>5. TableOK(priority_table', ready_group') /\ ReadyQueues' /\ GroupExact'
    <2>1. CASE stat[self] = "ready"
      BY <2>1, <1>0, <1>1, <1>3, <1>4, TakenOff
    <2>2. CASE stat[self] # "ready"
      <3>1. UNCHANGED <<stat, priority_table, ready_group>>
        BY <2>2, <1>0 DEF rdy
      <3> QED BY <3>1, <1>0, <1>4, InvTable DEF SchedulerInv, ReadyQueues, GroupExact
    <2> QED BY <2>1, <2>2
  <1>6. TypeOK'
    BY <1>0, <1>2, <1>3, <1>t, <1>5 DEF SchedulerInv, TypeOK, TableOK
  <1>7. TimerOnlySuspended' /\ MaskInv' /\ SwitchSound' /\ DefunctInv'
    BY <1>0, <1>1, <1>3, <1>t DEF SchedulerInv, TimerOnlySuspended, MaskInv,
                            SwitchSound, DefunctInv, Started
  <1>8. CallShape' /\ CallerInv' /\ TargetInv'
    BY <1>0, <1>1, <1>2, <1>3 DEF SchedulerInv, CallInv, CallShape, CallerInv,
                            TargetInv, Started
  <1>9. ResumeInv' /\ DeleteInv'
    <2>1. \A u \in Thread : pc'[u] \in {"resume1", "resume2", "delete2", "delete3"} =>
            pc'[u] = pc[u] /\ tgt[u] \in Thread /\ tgt[u] # self
      BY <1>1, <1>2 DEF SchedulerInv, CallInv, CallShape, TypeOK
    <2> QED BY <1>0, <1>3, <1>t, <2>1 DEF SchedulerInv, CallInv, ResumeInv, DeleteInv
  <1>10. IdleInv'
    BY <1>0, <1>1, <1>2, <1>3 DEF SchedulerInv, IdleInv
  <1>11. CurrentInv'
    <2>1. /\ stat'[current_thread] \in Started /\ stat'[current_thread] # "close"
          /\ current_thread' = current_thread /\ hw' = hw
          /\ switch_flag' = switch_flag /\ lock_nest' = lock_nest
      BY <1>0, <1>1, <1>3 DEF Started
    <2>2. \A u \in Thread : stat[u] \in Started \cup {"close"} =>
                             stat'[u] \in Started \cup {"close"}
      BY <1>3 DEF Started
    <2>3. hw' # NoThread => stat'[hw'] \in Started \cup {"close"}
      BY <2>1, <2>2 DEF SchedulerInv, CurrentInv, TypeOK
    <2> QED BY <1>1, <2>1, <2>3 DEF CurrentInv
  <1> QED BY <1>5, <1>6, <1>7, <1>8, <1>9, <1>10, <1>11 DEF SchedulerInv, CallInv

-----------------------------------------------------------------------------
LEMMA NextInv ==
    ASSUME SchedulerInv, [Next]_vars PROVE SchedulerInv'
  <1>1. CASE UNCHANGED vars
    <2> USE <1>1 DEF vars, tcb, rdy, hwv, ctl
    <2>1. TypeOK' /\ SwitchSound' /\ TimerOnlySuspended' /\ MaskInv' /\ DefunctInv'
      BY DEF SchedulerInv, TypeOK, SwitchSound, TimerOnlySuspended, MaskInv, DefunctInv
    <2>2. ReadyQueues' /\ GroupExact'
      BY DEF SchedulerInv, ReadyQueues, GroupExact, Unlinked
    <2>3. CallInv' /\ CurrentInv' /\ IdleInv'
      BY DEF SchedulerInv, CallInv, CallShape, ResumeInv, DeleteInv, CallerInv,
             TargetInv, CurrentInv, IdleInv
    <2> QED BY <2>1, <2>2, <2>3 DEF SchedulerInv
  <1>2. CASE PendSV \/ IdleReap
    BY <1>2, PendSVInv, IdleReapInv
  <1>3. CASE Interrupt
    BY <1>3, InterruptEnterInv, InterruptLeaveInv, IrqScheduleInv, IrqTickInv,
       TimerCheckInv, IrqWakeInv, TimerFireInv DEF Interrupt
  <1>4. ASSUME NEW self \in Thread, ThreadStep(self) PROVE SchedulerInv'
    <2>1. CASE \/ CallSchedule(self) \/ Exit(self) \/ Sleep(self) \/ Yield(self)
               \/ Delete2(self) \/ Delete3(self) \/ Resume1(self) \/ Resume2(self)
               \/ Suspend1(self) \/ rt_enter_critical(self) \/ rt_exit_critical(self)
      BY <2>1, CallScheduleInv, ExitInv, SleepInv, YieldInv, StopTimerInv,
         Delete3Inv, Resume2Inv, Suspend1Inv, CriticalInv
    <2>2. ASSUME NEW t \in Thread,
                 \/ ThreadInit(self, t) \/ Startup(self, t) \/ Delete1(self, t)
                 \/ Resume0(self, t) \/ Wake(self, t) \/ Suspend0(self, t)
                 \/ \E p \in Prio : ChangePriority(self, t, p)
          PROVE  SchedulerInv'
      BY <2>2, ThreadInitInv, StartupInv, Delete1Inv, Resume0Inv, WakeInv,
         Suspend0Inv, ChangePriorityInv
    <2> QED BY <1>4, <2>1, <2>2 DEF ThreadStep
  <1> QED BY <1>1, <1>2, <1>3, <1>4 DEF Next

(* The inductive invariant holds in every reachable state of the scheduler. *)
THEOREM Invariance == Spec => []SchedulerInv
  <1>1. Init => SchedulerInv
    BY InitInv
  <1>2. SchedulerInv /\ [Next]_vars => SchedulerInv'
    BY NextInv
  <1> QED BY <1>1, <1>2, PTL DEF Spec

(* Every field and kernel variable keeps its type, whatever interleaving of *)
(* threads and nested interrupts; rt_schedule always finds a thread.       *)
THEOREM TypeCorrect == Spec => []TypeOK
  <1>1. SchedulerInv => TypeOK
    BY DEF SchedulerInv
  <1> QED BY <1>1, Invariance, PTL

(* A thread is linked in the queue of its priority exactly when it is      *)
(* READY, and once.                                                        *)
THEOREM QueuesSound == Spec => []ReadyQueues
  <1>1. SchedulerInv => ReadyQueues
    BY DEF SchedulerInv
  <1> QED BY <1>1, Invariance, PTL

(* rt_thread_ready_priority_group agrees with the queues.                  *)
THEOREM GroupSound == Spec => []GroupExact
  <1>1. SchedulerInv => GroupExact
    BY DEF SchedulerInv
  <1> QED BY <1>1, Invariance, PTL

(* PendSV switches from the thread that executes to rt_current_thread.     *)
THEOREM SwitchCorrect == Spec => []SwitchSound
  <1>1. SchedulerInv => SwitchSound
    BY DEF SchedulerInv
  <1> QED BY <1>1, Invariance, PTL

(* The assertion of rt_thread_timeout never fails.                         *)
THEOREM TimersSound == Spec => []TimerOnlySuspended
  <1>1. SchedulerInv => TimerOnlySuspended
    BY DEF SchedulerInv
  <1> QED BY <1>1, Invariance, PTL

(* rt_thread_idle_excute frees no thread that anything still refers to,    *)
(* but for a rt_thread_suspend caught between its test and its section.    *)
THEOREM FreeingSound == Spec => []FreedUnreferenced
  <1>1. ASSUME SchedulerInv PROVE FreedUnreferenced
    <2> SUFFICES ASSUME NEW t \in Thread, stat[t] = "none"
                 PROVE  /\ t \notin {hw, current_thread} /\ ~timer[t] /\ Free(t)
                        /\ ~InList(defunct, t)
                        /\ \A p \in Prio : ~InList(priority_table[p], t)
      BY DEF FreedUnreferenced
    <2>1. t # hw /\ t # current_thread
      BY <1>1 DEF SchedulerInv, CurrentInv, Started
    <2>2. ~timer[t] /\ ~InList(defunct, t)
      BY <1>1 DEF SchedulerInv, TimerOnlySuspended, DefunctInv
    <2>3. ASSUME NEW u \in Thread, tgt[u] = t PROVE pc[u] = "suspend1"
      <3>1. t # NoThread
        OBVIOUS
      <3>2. pc[u] \in ThreadPc
        BY <1>1 DEF SchedulerInv, TypeOK
      <3> QED BY <1>1, <2>3, <3>1, <3>2 DEF SchedulerInv, CallInv, CallShape, ResumeInv,
                             DeleteInv, Started, ThreadPc
    <2>4. \A p \in Prio : ~InList(priority_table[p], t)
      BY <1>1 DEF SchedulerInv, ReadyQueues
    <2> QED BY <2>1, <2>2, <2>3, <2>4 DEF Free
  <1> QED BY <1>1, Invariance, PTL

(* A closed thread is in no ready queue, so it is never switched to again. *)
THEOREM DeletionSound == Spec => []DeletedStaysOut
  <1>1. SchedulerInv => DeletedStaysOut
    BY DEF SchedulerInv, ReadyQueues, DeletedStaysOut
  <1> QED BY <1>1, Invariance, PTL

(* Only PendSV loads a context, and no switch is pending while the         *)
(* scheduler is locked.                                                    *)
THEOREM LockSound == Spec => LockKeepsProcessor
  <1>1. ASSUME SchedulerInv, [Next]_vars
        PROVE  [lock_nest > 0 /\ lock_nest' > 0 => hw' = hw]_vars
    <2>1. CASE UNCHANGED vars
      BY <2>1
    <2>2. CASE PendSV
      <3>1. ~(lock_nest > 0)
        BY <1>1, <2>2 DEF SchedulerInv, CurrentInv, PendSV
      <3> QED BY <3>1
    <2>3. CASE IdleReap
      BY <2>3 DEF IdleReap, hwv
    <2>4. ASSUME rt_schedule \/ rt_schedule_on(priority_table', ready_group')
          PROVE  hw' = hw
      BY <2>4 DEF rt_schedule, rt_schedule_on, rt_hw_context_switch, hwv
    <2>5. CASE Interrupt
      BY <2>5, <2>4 DEF Interrupt, InterruptEnter, InterruptLeave, IrqSchedule, IrqTick,
         IrqYield, TimerCheck, TimerDone, IrqWake, TimerFire, ResumeLocked, hwv
    <2>6. ASSUME NEW self \in Thread, ThreadStep(self) PROVE hw' = hw
      <3>1. CASE \/ Exit(self) \/ Sleep(self) \/ Yield(self) \/ Delete2(self)
                 \/ Delete3(self) \/ Resume1(self) \/ Resume2(self) \/ Suspend1(self)
                 \/ rt_enter_critical(self) \/ rt_exit_critical(self)
        BY <3>1 DEF Exit, Sleep, Yield, Delete2, Delete3, Resume1, Resume2, Suspend1,
                    rt_enter_critical, rt_exit_critical, hwv
      <3>2. CASE CallSchedule(self)
        BY <3>2, <2>4 DEF CallSchedule
      <3>3. ASSUME NEW t \in Thread,
                   \/ ThreadInit(self, t) \/ Startup(self, t) \/ Delete1(self, t)
                   \/ Resume0(self, t) \/ Wake(self, t) \/ Suspend0(self, t)
                   \/ \E p \in Prio : ChangePriority(self, t, p)
            PROVE  hw' = hw
        BY <3>3 DEF ThreadInit, Startup, Delete1, DeleteRemove, Resume0, Wake,
                    Suspend0, ChangePriority, ResumeLocked, hwv
      <3> QED BY <2>6, <3>1, <3>2, <3>3 DEF ThreadStep
    <2> QED BY <1>1, <2>1, <2>2, <2>3, <2>5, <2>6 DEF Next
  <1> QED BY <1>1, Invariance, PTL DEF Spec, LockKeepsProcessor

-----------------------------------------------------------------------------
(* The highest-priority ready thread runs.  RunningIsHighest is inductive  *)
(* relative to SchedulerInv, and an action preserves it in one of four     *)
(* ways.                                                                   *)

(* 1. It leaves an rt_schedule to be called.                               *)
LEMMA DueTop ==
    ASSUME \/ pc'[hw'] \in {"sched", "exit"} /\ ~switch_flag'
           \/ stale'
           \/ ~(lock_nest' = 0)
           \/ \E i \in 1 .. Len(irq') : irq'[i] \in {"sched", "ysched"}
    PROVE  RunningIsHighest'
  BY DEF RunningIsHighest, Settled

(* 2. It touches neither the queues nor rt_current_thread, and settles     *)
(* nothing.                                                                *)
LEMMA QuietTop ==
    ASSUME RunningIsHighest, Settled' => Settled,
           UNCHANGED <<priority_table, current_thread>>
    PROVE  RunningIsHighest'
  BY DEF RunningIsHighest, AtTop

(* 3. It takes off its queue a thread that is not the current one.         *)
LEMMA RemoveTop ==
    ASSUME SchedulerInv, RunningIsHighest, Settled' => Settled,
           NEW t \in Thread, t # current_thread, stat[t] \in Started,
           rt_schedule_remove_thread(t), UNCHANGED current_thread
    PROVE  RunningIsHighest'
  <1> SUFFICES ASSUME Settled PROVE AtTop(current_thread, priority_table')
    BY DEF RunningIsHighest, AtTop
  <1>1. PICK p \in Prio :
          /\ priority_table[p] # <<>>
          /\ current_thread = Head(priority_table[p])
          /\ \A q \in Prio : q < p => priority_table[q] = <<>>
    BY DEF RunningIsHighest, AtTop
  <1>2. /\ TableOK(priority_table', ready_group')
        /\ Removed(priority_table', priority_table, t, current_priority[t])
    BY RemoveStep
  <1>3. priority_table[p] \in Seq(Thread) /\ priority_table[p][1] # t
    <2>1. priority_table[p] \in Seq(Thread)
      BY DEF SchedulerInv, TypeOK
    <2> QED BY <1>1, <2>1, EmptyList
  <1>4. priority_table'[p] # <<>> /\ priority_table'[p][1] = priority_table[p][1]
    BY <1>1, <1>2, <1>3 DEF Removed
  <1>5. priority_table'[p] \in Seq(Thread)
    BY <1>2 DEF TableOK
  <1>6. current_thread = Head(priority_table'[p])
    BY <1>1, <1>3, <1>4, <1>5
  <1>7. \A q \in Prio : q < p => priority_table'[q] = <<>>
    BY <1>1, <1>2 DEF Removed
  <1> QED BY <1>4, <1>6, <1>7 DEF AtTop

(* 4. It calls rt_schedule.                                                *)
LEMMA ScheduleTop ==
    ASSUME SchedulerInv, SchedulerInv',
           rt_schedule_on(priority_table', ready_group'), UNCHANGED lock_nest
    PROVE  RunningIsHighest'
  <1> SUFFICES ASSUME lock_nest = 0 PROVE AtTop(current_thread', priority_table')
    BY DEF RunningIsHighest, Settled
  <1>1. TableOK(priority_table', ready_group')
    BY DEF SchedulerInv, TypeOK, ReadyQueues, GroupExact, TableOK
  <1>2. /\ current_priority'[Idle] \in Prio
        /\ InList(priority_table'[current_priority'[Idle]], Idle)
    <2>1. current_priority'[Idle] \in Prio
      BY DEF SchedulerInv, TypeOK
    <2>2. stat'[Idle] = "ready" /\ ~Unlinked(Idle)'
      BY DEF SchedulerInv, IdleInv, Unlinked
    <2> QED BY <2>1, <2>2 DEF SchedulerInv, ReadyQueues
  <1> QED BY <1>1, <1>2, ScheduleStep

(* An interrupt that moves on without calling rt_schedule settles nothing. *)
LEMMA IrqSettles ==
    ASSUME SchedulerInv, irq # <<>>, irq[Len(irq)] \notin {"sched", "ysched"},
           NEW w, IrqGoto(w), UNCHANGED <<lock_nest, stale, switch_flag, pc, hw>>
    PROVE  Settled' => Settled
  <1>1. irq \in Seq(IrqPc)
    BY IrqTypes
  <1>2. /\ Len(irq') = Len(irq)
        /\ \A i \in 1 .. Len(irq) : i # Len(irq) => irq'[i] = irq[i]
    BY <1>1 DEF IrqGoto
  <1> QED BY <1>2 DEF Settled

LEMMA InterruptTop ==
    ASSUME SchedulerInv, SchedulerInv', RunningIsHighest, Interrupt
    PROVE  RunningIsHighest'
  <1> USE DEF hwv, ctl, rdy
  <1>0. irq \in Seq(IrqPc) /\ Len(irq) \in Nat
    BY IrqTypes
  <1>1. CASE InterruptEnter
    <2>1. /\ UNCHANGED <<lock_nest, stale, switch_flag, pc, hw>>
          /\ Len(irq') = Len(irq) + 1
          /\ \A i \in 1 .. Len(irq) : irq'[i] = irq[i]
      BY <1>0, <1>1 DEF InterruptEnter
    <2>2. Settled' => Settled
      BY <1>0, <2>1 DEF Settled
    <2> QED BY <1>1, <2>2, QuietTop DEF InterruptEnter
  <1>2. CASE InterruptLeave
    <2>1. /\ UNCHANGED <<lock_nest, stale, switch_flag, pc, hw>>
          /\ irq # <<>> /\ irq[Len(irq)] = "body"
          /\ irq' = SubSeq(irq, 1, Len(irq) - 1)
      BY <1>2 DEF InterruptLeave, InIrq
    <2>2. Len(irq) >= 1
      BY <1>0, <2>1
    <2>3. /\ Len(irq') = Len(irq) - 1
          /\ \A i \in 1 .. Len(irq) - 1 : irq'[i] = irq[i]
      <3> DEFINE n == Len(irq) - 1
      <3>1. n \in Nat /\ \A i \in 1 .. n : irq[i] \in IrqPc
        BY <1>0, <2>2
      <3> HIDE DEF n
      <3>2. /\ Len(SubSeq(irq, 1, n)) = IF 1 <= n THEN n - 1 + 1 ELSE 0
            /\ \A i \in 1 .. n - 1 + 1 : SubSeq(irq, 1, n)[i] = irq[1 + i - 1]
        BY <3>1, SubSeqProperties
      <3>3. irq' = SubSeq(irq, 1, n)
        BY <2>1 DEF n
      <3>4. n - 1 + 1 = n /\ \A i \in 1 .. n : 1 + i - 1 = i
        BY <3>1
      <3>5. Len(irq') = n /\ \A i \in 1 .. n : irq'[i] = irq[i]
        BY <3>1, <3>2, <3>3, <3>4
      <3> QED BY <3>5 DEF n
    <2>4. Settled' => Settled
      BY <1>0, <2>1, <2>2, <2>3 DEF Settled
    <2> QED BY <1>2, <2>4, QuietTop DEF InterruptLeave
  <1>3. CASE TimerCheck \/ TimerDone
    <2>1. Settled' => Settled
      BY <1>3, IrqSettles DEF TimerCheck, TimerDone, InIrq
    <2> QED BY <1>3, <2>1, QuietTop DEF TimerCheck, TimerDone
  <1>4. CASE IrqSchedule
    <2>1. rt_schedule_on(priority_table', ready_group') /\ UNCHANGED lock_nest
      BY <1>4 DEF IrqSchedule, rt_schedule
    <2> QED BY <2>1, ScheduleTop
  <1>5. ASSUME NEW w \in {"sched", "ysched"}, irq # <<>>, IrqGoto(w)
        PROVE  RunningIsHighest'
    <2>1. Len(irq) \in 1 .. Len(irq') /\ irq'[Len(irq)] = w
      BY <1>0, <1>5 DEF IrqGoto
    <2> QED BY <2>1, DueTop
  <1>6. CASE IrqTick \/ IrqYield
    <2>1. /\ irq # <<>> /\ irq[Len(irq)] \notin {"sched", "ysched"}
          /\ UNCHANGED <<lock_nest, stale, switch_flag, pc, hw, current_thread>>
          /\ \/ IrqGoto("ysched")
             \/ (IrqGoto("tcheck") \/ IrqGoto("yield")) /\ UNCHANGED priority_table
      BY <1>6 DEF IrqTick, IrqYield, InIrq
    <2>2. CASE IrqGoto("ysched")
      BY <2>1, <2>2, <1>5
    <2>3. CASE (IrqGoto("tcheck") \/ IrqGoto("yield")) /\ UNCHANGED priority_table
      <3>1. Settled' => Settled
        BY <2>1, <2>3, IrqSettles
      <3> QED BY <2>1, <2>3, <3>1, QuietTop
    <2> QED BY <2>1, <2>2, <2>3
  <1>7. ASSUME NEW t \in Thread, IrqWake(t) PROVE RunningIsHighest'
    BY <1>5, <1>7 DEF IrqWake, InIrq
  <1>8. ASSUME NEW t \in Thread, TimerFire(t) PROVE RunningIsHighest'
    BY <1>8, ScheduleTop DEF TimerFire
  <1> QED BY <1>1, <1>2, <1>3, <1>4, <1>6, <1>7, <1>8 DEF Interrupt

LEMMA ThreadTop ==
    ASSUME SchedulerInv, SchedulerInv', RunningIsHighest,
           NEW self \in Thread, ThreadStep(self)
    PROVE  RunningIsHighest'
  <1> USE DEF hwv, ctl, rdy, tcb
  <1>0. pc \in [Thread -> ThreadPc]
    BY DEF SchedulerInv, TypeOK
  <1>1. CASE CallSchedule(self)
    <2>1. rt_schedule_on(priority_table', ready_group') /\ UNCHANGED lock_nest
      BY <1>1 DEF CallSchedule, rt_schedule
    <2> QED BY <2>1, ScheduleTop
  <1>2. CASE Exit(self) \/ Sleep(self) \/ Yield(self) \/ Resume2(self)
             \/ \E t \in Thread : Wake(self, t)
    <2>1. /\ hw' = hw /\ switch_flag' = switch_flag /\ Executing(self)
          /\ pc' = [pc EXCEPT ![self] = "sched"] \/ pc' = [pc EXCEPT ![self] = "exit"]
      BY <1>2 DEF Exit, Sleep, Yield, Resume2, Wake, ResumeLocked, Running, Goto, GotoFor
    <2>2. pc'[hw'] \in {"sched", "exit"} /\ ~switch_flag'
      BY <1>0, <2>1 DEF Executing
    <2> QED BY <2>2, DueTop
  <1>3. CASE rt_enter_critical(self)
    <2>1. lock_nest \in Nat /\ lock_nest' = lock_nest + 1
      BY <1>3 DEF rt_enter_critical, SchedulerInv, TypeOK
    <2>2. ~(lock_nest' = 0)
      BY <2>1
    <2> QED BY <2>2, DueTop
  <1>4. CASE rt_exit_critical(self)
    <2>1. lock_nest \in Nat
      BY DEF SchedulerInv, TypeOK
    <2>2. CASE lock_nest <= 1
      <3>1. pc'[hw'] = "sched" /\ ~switch_flag'
        BY <1>0, <1>4, <2>2 DEF rt_exit_critical, Running, Executing, Goto
      <3> QED BY <3>1, DueTop
    <2>3. CASE ~(lock_nest <= 1)
      <3>1. ~(lock_nest' = 0)
        BY <1>4, <2>1, <2>3 DEF rt_exit_critical
      <3> QED BY <3>1, DueTop
    <2> QED BY <2>2, <2>3
  <1>5. CASE Delete2(self) \/ Delete3(self) \/ Resume1(self)
             \/ \E t \in Thread : Startup(self, t) \/ Resume0(self, t) \/ Suspend0(self, t)
    <2>1. /\ UNCHANGED <<lock_nest, stale, switch_flag, hw, irq, priority_table,
                         current_thread>>
          /\ Executing(self)
          /\ pc[self] \notin {"sched", "exit"}
      <3>1. CASE Resume1(self)
        <4>1. tgt[self] \in Thread /\ stat[tgt[self]] = "suspend"
          BY <3>1 DEF Resume1, SchedulerInv, CallInv, CallShape, ResumeInv, TypeOK
        <4>2. priority_table' = priority_table
          BY <3>1, <4>1, RemoveSuspended DEF Resume1
        <4> QED BY <3>1, <4>2 DEF Resume1
      <3> QED BY <1>5, <3>1 DEF Delete2, Delete3, Startup, Resume0, Suspend0, Running
    <2>2. Settled' => Settled
      BY <2>1 DEF Settled, Executing
    <2> QED BY <2>1, <2>2, QuietTop
  <1>6. ASSUME NEW t \in Thread, ThreadInit(self, t) PROVE RunningIsHighest'
    <2>1. /\ UNCHANGED <<lock_nest, stale, switch_flag, hw, irq, priority_table,
                         current_thread>>
          /\ hw = self /\ pc[self] = "run"
      BY <1>6 DEF ThreadInit, Running, Executing
    <2>2. Settled' => Settled
      BY <2>1 DEF Settled
    <2> QED BY <2>1, <2>2, QuietTop
  <1>7. ASSUME NEW t \in Thread, NEW p \in Prio, ChangePriority(self, t, p)
        PROVE  RunningIsHighest'
    <2>1. stale' = TRUE
      BY <1>7 DEF ChangePriority
    <2> QED BY <2>1, DueTop
  <1>8. ASSUME NEW t \in Thread, t # self, stat[t] \in Started, Executing(self),
               pc[self] \notin {"sched", "exit"}, rt_schedule_remove_thread(t),
               UNCHANGED <<lock_nest, stale, switch_flag, hw, irq, current_thread>>
        PROVE  RunningIsHighest'
    <2>1. self = current_thread /\ self = hw
      BY <1>8, ExecutingFacts
    <2>2. Settled' => Settled
      BY <1>8, <2>1 DEF Settled
    <2> QED BY <1>8, <2>1, <2>2, RemoveTop
  <1>9. ASSUME NEW t \in Thread, Delete1(self, t) PROVE RunningIsHighest'
    BY <1>8, <1>9 DEF Delete1, DeleteRemove, Started, Running
  <1>10. CASE Suspend1(self)
    <2>1. /\ UNCHANGED <<lock_nest, stale, switch_flag, hw, irq, current_thread>>
          /\ Executing(self) /\ pc[self] = "suspend1" /\ stat[tgt[self]] \in Started
          /\ rt_schedule_remove_thread(tgt[self])
          /\ tgt[self] = self => pc' = [pc EXCEPT ![self] = "sched"]
      BY <1>10 DEF Suspend1, GotoFor, Started
    <2>2. tgt[self] \in Thread
      BY <2>1 DEF SchedulerInv, CallInv, CallShape, TypeOK
    <2>3. CASE tgt[self] = self
      <3>1. pc'[hw'] = "sched" /\ ~switch_flag'
        BY <1>0, <2>1, <2>3 DEF Executing
      <3> QED BY <3>1, DueTop
    <2>4. CASE tgt[self] # self
      BY <1>8, <2>1, <2>2, <2>4
    <2> QED BY <2>3, <2>4
  <1> QED BY <1>1, <1>2, <1>3, <1>4, <1>5, <1>6, <1>7, <1>9, <1>10 DEF ThreadStep

(* Whenever no rt_schedule is due, rt_current_thread heads the highest     *)
(* queue that holds a thread: no path of the kernel forgets to reschedule, *)
(* for any number of threads and priorities.                               *)
THEOREM HighestRuns == Spec => []RunningIsHighest
  <1>1. ASSUME Init PROVE RunningIsHighest
    <2> DEFINE p == InitPriority[Main]
    <2>1. p \in Prio /\ InitPriority[Idle] = PriorityMax - 1
      OBVIOUS
    <2>2. \A q \in Prio : q < p => InitTable[q] = <<>>
      BY <2>1 DEF InitTable, Prio
    <2>3. InitTable[p] # <<>> /\ Head(InitTable[p]) = Main
      BY <2>1 DEF InitTable
    <2>4. AtTop(Main, InitTable)
      BY <2>1, <2>2, <2>3 DEF AtTop
    <2> QED BY <1>1, <2>4 DEF Init, RunningIsHighest
  <1>2. ASSUME SchedulerInv, SchedulerInv', RunningIsHighest, [Next]_vars
        PROVE  RunningIsHighest'
    <2>1. CASE UNCHANGED vars
      BY <1>2, <2>1 DEF RunningIsHighest, Settled, AtTop, vars, tcb, rdy, hwv, ctl
    <2>2. CASE PendSV
      <3>1. Settled' => Settled
        BY <2>2 DEF PendSV, Settled, ctl
      <3> QED BY <1>2, <2>2, <3>1, QuietTop DEF PendSV, rdy
    <2>3. CASE IdleReap
      <3>1. Settled' => Settled
        BY <2>3 DEF IdleReap, Settled, hwv, ctl
      <3> QED BY <1>2, <2>3, <3>1, QuietTop DEF IdleReap, rdy
    <2> QED BY <1>2, <2>1, <2>2, <2>3, InterruptTop, ThreadTop DEF Next
  <1> QED BY <1>1, <1>2, Invariance, PTL DEF Spec
=============================================================================
