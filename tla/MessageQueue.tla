---------------------------- MODULE MessageQueue ----------------------------
(***************************************************************************)
(* rt_mq of ipc.c: messages in slots of a pool, which are linked in a free *)
(* list and in the queue, or are in the hands of one call: a sender takes  *)
(* a slot in one section and links it in a second, a receiver unlinks it   *)
(* in one and gives it back in another, and the message is copied between  *)
(* them with interrupts enabled.                                           *)
(*                                                                         *)
(* Interrupt handlers call it too, without waiting; while one is in a call *)
(* no thread moves.  A send to a full queue returns -RT_EFULL and changes  *)
(* nothing, as does a receive from an empty one with no waiting time.      *)
(***************************************************************************)
EXTENDS Ipc

CONSTANTS
    Isr,        \* interrupt handlers that use the queue
    Message,    \* the messages
    NoMessage,  \* what an unused slot holds
    NoSlot,     \* RT_NULL
    Size        \* rt_messagequeue.max_msgs

ASSUME MessageQueueAssumption ==
    /\ Size \in Nat \ {0}
    /\ NoMessage \notin Message /\ NoSlot \notin Nat
    /\ Isr \cap Thread = {}

Context == Thread \cup Isr
Slot == 0 .. Size - 1

VARIABLES
    next,               \* of each slot: rt_mq_message.next
    data,               \* the message in it; nobody reads that of a free slot,
                        \* which is NoMessage here
    msg_queue_head, msg_queue_tail, msg_queue_free, entry,  \* of the queue
    suspend_thread,     \* the receivers that wait
    alive,              \* does the object exist?
    pc,                 \* where each context is in a call
    slot,               \* msg, the slot in its hands
    arg,                \* the message it sends
    left                \* the local timeout of rt_mq_recv

pool == <<next, data, msg_queue_head, msg_queue_tail, msg_queue_free, entry>>
local == <<pc, slot, arg, left>>
mqVars == <<pool, suspend_thread, alive, local>>
vars == <<ipcVars, mqVars>>

(* "send", "urgent": between the sections of a send; "recv": in the loop   *)
(* of rt_mq_recv, suspended or resumed; "copy": after the loop; "test",    *)
(* "next": in rt_ipc_list_resume_all.                                      *)
Pcs == {"run", "send", "urgent", "recv", "copy", "test", "next"}

Usable == alive /\ \A c \in Context : pc[c] \notin {"test", "next"}

(* A thread runs when no interrupt handler does.                           *)
Runs(c) == c \in Thread => \A i \in Isr : pc[i] = "run"

(* The loop of rt_mq_init links each slot before the one before it.        *)
NewPool ==
    /\ next' = [s \in Slot |-> IF s = 0 THEN NoSlot ELSE s - 1]
    /\ data' = [s \in Slot |-> NoMessage]
    /\ msg_queue_free' = Size - 1
    /\ msg_queue_head' = NoSlot /\ msg_queue_tail' = NoSlot
    /\ entry' = 0
    /\ suspend_thread' = <<>>
    /\ alive' = TRUE

MqInit ==
    /\ next = [s \in Slot |-> IF s = 0 THEN NoSlot ELSE s - 1]
    /\ data = [s \in Slot |-> NoMessage]
    /\ msg_queue_free = Size - 1
    /\ msg_queue_head = NoSlot /\ msg_queue_tail = NoSlot
    /\ entry = 0
    /\ suspend_thread = <<>>
    /\ alive = TRUE
    /\ pc = [c \in Context |-> "run"]
    /\ slot = [c \in Context |-> NoSlot]
    /\ arg = [c \in Context |-> NoMessage]
    /\ left = [c \in Context |-> "zero"]

At(c, where, s, m, time) ==
    /\ pc' = [pc EXCEPT ![c] = where]
    /\ slot' = [slot EXCEPT ![c] = s]
    /\ arg' = [arg EXCEPT ![c] = m]
    /\ left' = [left EXCEPT ![c] = time]

Return(c) == At(c, "run", NoSlot, NoMessage, "zero")

-----------------------------------------------------------------------------
(* rt_mq_send and rt_mq_urgent.                                            *)

(* The first section: a slot from the free list.                           *)
TakeSlot(c, m, where) ==
    /\ pc[c] = "run" /\ Usable /\ Runs(c)
    /\ msg_queue_free # NoSlot
    /\ msg_queue_free' = next[msg_queue_free]
    /\ At(c, where, msg_queue_free, m, "zero")
    /\ UNCHANGED <<ipcVars, next, data, msg_queue_head, msg_queue_tail, entry,
                   suspend_thread, alive>>

rt_mq_send(c, m) == TakeSlot(c, m, "send")
rt_mq_urgent(c, m) == TakeSlot(c, m, "urgent")

(* Mutant: no receiver is resumed.                                         *)
WakeNone == UNCHANGED <<ipcVars, suspend_thread>>

WakeReceiver ==
    IF suspend_thread # <<>>
    THEN rt_thread_resume(Head(suspend_thread)) /\ suspend_thread' = Tail(suspend_thread)
    ELSE UNCHANGED <<ipcVars, suspend_thread>>

(* The copy and the second section of rt_mq_send.                          *)
LinkLast(c) ==
    LET s == slot[c] IN
    /\ pc[c] = "send" /\ Runs(c)
    /\ data' = [data EXCEPT ![s] = arg[c]]
    /\ next' = [p \in Slot |-> IF p = s THEN NoSlot
                               ELSE IF p = msg_queue_tail THEN s ELSE next[p]]
    /\ msg_queue_tail' = s
    /\ msg_queue_head' = IF msg_queue_head = NoSlot THEN s ELSE msg_queue_head
    /\ entry' = entry + 1
    /\ WakeReceiver
    /\ Return(c)
    /\ UNCHANGED <<msg_queue_free, alive>>

(* Mutant: the tail is not set when the queue was empty.                   *)
LinkFirstNoTail(c) ==
    LET s == slot[c] IN
    /\ pc[c] = "urgent" /\ Runs(c)
    /\ data' = [data EXCEPT ![s] = arg[c]]
    /\ next' = [next EXCEPT ![s] = msg_queue_head]
    /\ msg_queue_head' = s
    /\ entry' = entry + 1
    /\ WakeReceiver
    /\ Return(c)
    /\ UNCHANGED <<msg_queue_tail, msg_queue_free, alive>>

(* The copy and the second section of rt_mq_urgent.                        *)
LinkFirst(c) ==
    LET s == slot[c] IN
    /\ pc[c] = "urgent" /\ Runs(c)
    /\ data' = [data EXCEPT ![s] = arg[c]]
    /\ next' = [next EXCEPT ![s] = msg_queue_head]
    /\ msg_queue_head' = s
    /\ msg_queue_tail' = IF msg_queue_tail = NoSlot THEN s ELSE msg_queue_tail
    /\ entry' = entry + 1
    /\ WakeReceiver
    /\ Return(c)
    /\ UNCHANGED <<msg_queue_free, alive>>

-----------------------------------------------------------------------------
(* rt_mq_recv.                                                             *)

(* Mutant: the slot is free before the message is copied.                  *)
TakeFirstFree(c) ==
    LET s == msg_queue_head IN
    /\ msg_queue_head' = next[s]
    /\ msg_queue_tail' = IF msg_queue_tail = s THEN NoSlot ELSE msg_queue_tail
    /\ entry' = entry - 1
    /\ next' = [next EXCEPT ![s] = msg_queue_free]
    /\ msg_queue_free' = s
    /\ At(c, "copy", s, NoMessage, "zero")
    /\ UNCHANGED <<ipcVars, data, suspend_thread>>

(* The rest of the section after the loop.                                 *)
TakeFirst(c) ==
    LET s == msg_queue_head IN
    /\ msg_queue_head' = next[s]
    /\ msg_queue_tail' = IF msg_queue_tail = s THEN NoSlot ELSE msg_queue_tail
    /\ entry' = entry - 1
    /\ At(c, "copy", s, NoMessage, "zero")
    /\ UNCHANGED <<ipcVars, next, data, msg_queue_free, suspend_thread>>

(* The loop from its test to the next suspension, one section.             *)
RecvLoop(c, time) ==
    \/ entry # 0 /\ TakeFirst(c)
    \/ /\ entry = 0 /\ time = "zero"
       /\ Return(c)
       /\ error' = [t \in Thread |-> IF t = c /\ pc[c] = "recv" THEN "ETIMEOUT" ELSE error[t]]
       /\ UNCHANGED <<stat, timer, wild, pool, suspend_thread>>
    \/ /\ entry = 0 /\ time # "zero"
       /\ SuspendSelf(c, time)
       /\ suspend_thread' = rt_ipc_list_suspend(suspend_thread, c)
       /\ At(c, "recv", NoSlot, NoMessage, time)
       /\ UNCHANGED pool

rt_mq_recv(c, time) ==
    /\ pc[c] = "run" /\ Usable /\ Runs(c)
    /\ c \in Isr => time = "zero"
    /\ RecvLoop(c, time)
    /\ UNCHANGED alive

(* A resumed thread runs again.                                            *)
Resumed(t) ==
    /\ pc[t] = "recv" /\ stat[t] = "ready" /\ Runs(t)
    /\ IF error[t] # "EOK"
       THEN Return(t) /\ UNCHANGED <<ipcVars, pool, suspend_thread>>
       ELSE \E time \in TimeLeft(left[t]) : RecvLoop(t, time)
    /\ UNCHANGED alive

Timeout(t) ==
    /\ pc[t] = "recv"
    /\ rt_thread_timeout(t)
    /\ suspend_thread' = ListRemove(suspend_thread, t)
    /\ UNCHANGED <<pool, alive, local>>

(* The copy and the last section: the slot goes back to the free list.     *)
FreeSlot(c) ==
    /\ pc[c] = "copy" /\ Runs(c)
    /\ next' = [next EXCEPT ![slot[c]] = msg_queue_free]
    /\ msg_queue_free' = slot[c]
    /\ data' = [data EXCEPT ![slot[c]] = NoMessage]
    /\ Return(c)
    /\ UNCHANGED <<ipcVars, msg_queue_head, msg_queue_tail, entry, suspend_thread, alive>>

-----------------------------------------------------------------------------
(* The slots linked from p on; more than Size when the links run in a      *)
(* circle.                                                                 *)
Chain(p) ==
    LET at[i \in 1 .. Size + 1] ==
          IF i = 1 THEN p ELSE IF at[i - 1] = NoSlot THEN NoSlot ELSE next[at[i - 1]]
        end == CHOOSE k \in 1 .. Size + 2 :
                 /\ \A i \in 1 .. k - 1 : at[i] # NoSlot
                 /\ k <= Size + 1 => at[k] = NoSlot
    IN  [i \in 1 .. end - 1 |-> at[i]]

(* rt_mq_control(RT_IPC_CMD_RESET): the waiters leave with an error, and   *)
(* the loop moves slot by slot to the free list, the last to its front.    *)
rt_mq_control ==
    LET q == Chain(msg_queue_head)
        n == Len(q) IN
    /\ Usable
    /\ ResumeAll(Linked(suspend_thread))
    /\ suspend_thread' = <<>>
    /\ next' = [s \in Slot |->
                  IF InList(q, s)
                  THEN LET i == CHOOSE i \in 1 .. n : q[i] = s
                       IN  IF i = 1 THEN msg_queue_free ELSE q[i - 1]
                  ELSE next[s]]
    /\ msg_queue_free' = IF n = 0 THEN msg_queue_free ELSE q[n]
    /\ msg_queue_tail' = IF InList(q, msg_queue_tail) THEN NoSlot ELSE msg_queue_tail
    /\ msg_queue_head' = NoSlot
    /\ entry' = 0
    /\ data' = [s \in Slot |-> IF InList(q, s) THEN NoMessage ELSE data[s]]
    /\ UNCHANGED <<alive, local>>

(* rt_mq_detach and rt_mq_delete.  The discipline: no call is under way    *)
(* but suspended ones, and those cannot time out.                          *)
rt_mq_delete(t) ==
    /\ pc[t] = "run" /\ Usable /\ Runs(t)
    /\ \A c \in Context : pc[c] \in {"run", "recv"}
    /\ \A u \in Thread : pc[u] = "recv" => stat[u] = "suspend" /\ ~timer[u]
    /\ At(t, "test", NoSlot, NoMessage, "zero")
    /\ UNCHANGED <<ipcVars, pool, suspend_thread, alive>>

(* Mutant: the list is not tested.                                         *)
ResumeAllNoTest(t) ==
    /\ pc[t] = "test" /\ Runs(t)
    /\ pc' = [pc EXCEPT ![t] = "next"]
    /\ UNCHANGED <<ipcVars, pool, suspend_thread, alive, slot, arg, left>>

(* The loop of rt_ipc_list_resume_all; its end is the end of the queue.    *)
ResumeAllTest(t) ==
    /\ pc[t] = "test" /\ Runs(t)
    /\ pc' = [pc EXCEPT ![t] = IF suspend_thread # <<>> THEN "next" ELSE "run"]
    /\ alive' = (suspend_thread # <<>>)
    /\ UNCHANGED <<ipcVars, pool, suspend_thread, slot, arg, left>>

ResumeAllNext(t) ==
    /\ pc[t] = "next" /\ Runs(t)
    /\ ResumeNext(suspend_thread)
    /\ suspend_thread' = ListRemove(suspend_thread, Head(suspend_thread))
    /\ pc' = [pc EXCEPT ![t] = "test"]
    /\ UNCHANGED <<pool, alive, slot, arg, left>>

(* rt_mq_init or rt_mq_create of a new queue in the place of the old.      *)
rt_mq_init == ~alive /\ NewPool /\ UNCHANGED <<ipcVars, local>>

(* What a context does on its own, and what happens to it.                 *)
MqStep(c) ==
    \/ \E m \in Message : rt_mq_send(c, m) \/ rt_mq_urgent(c, m)
    \/ \E time \in Times : rt_mq_recv(c, time)
    \/ LinkLast(c) \/ LinkFirst(c) \/ FreeSlot(c)
MqThreadStep(t) ==
    MqStep(t) \/ Resumed(t) \/ rt_mq_delete(t) \/ ResumeAllTest(t) \/ ResumeAllNext(t)
MqEnvironment == rt_mq_control \/ rt_mq_init

-----------------------------------------------------------------------------
MqTypeOK ==
    /\ next \in [Slot -> Slot \cup {NoSlot}]
    /\ data \in [Slot -> Message \cup {NoMessage}]
    /\ {msg_queue_head, msg_queue_tail, msg_queue_free} \subseteq Slot \cup {NoSlot}
    /\ entry \in 0 .. Size
    /\ suspend_thread \in Seq(Thread)
    /\ alive \in BOOLEAN
    /\ pc \in [Context -> Pcs]
    /\ slot \in [Context -> Slot \cup {NoSlot}]
    /\ arg \in [Context -> Message \cup {NoMessage}]
    /\ left \in [Context -> Times]

(* No slot is lost or linked twice, whatever comes between the sections:   *)
(* each is in the free list, in the queue, or in the hands of one call;    *)
(* entry counts the queue, and the tail is its last slot.                  *)
SlotsConserved ==
    LET q     == Chain(msg_queue_head)
        f     == Chain(msg_queue_free)
        hands == {c \in Context : slot[c] # NoSlot}
    IN  /\ Len(q) + Len(f) + Cardinality(hands) = Size
        /\ {q[i] : i \in 1 .. Len(q)} \cup {f[i] : i \in 1 .. Len(f)}
             \cup {slot[c] : c \in hands} = Slot
        /\ entry = Len(q)
        /\ msg_queue_tail = IF q = <<>> THEN NoSlot ELSE q[Len(q)]

(* While receivers wait, every message in the queue has a resumed receiver *)
(* on its way to it; and exactly the suspended receivers are linked.       *)
MqNoLostWakeup ==
    /\ suspend_thread # <<>> =>
         entry <= Cardinality({t \in Thread : pc[t] = "recv" /\ stat[t] = "ready"
                                                /\ error[t] = "EOK"})
    /\ NoRepeat(suspend_thread)
    /\ \A t \in Thread : InList(suspend_thread, t) <=> stat[t] = "suspend" /\ pc[t] = "recv"

(* The messages in the queue, and those that receivers are copying.        *)
Contents == LET q == Chain(msg_queue_head) IN [i \in 1 .. Len(q) |-> data[q[i]]]
InHand == [c \in Context |-> IF pc[c] = "copy" THEN data[slot[c]] ELSE NoMessage]

(* The slots implement a bounded queue with an urgent end: no message is   *)
(* lost, received twice, or overwritten while it is copied.                *)
Queue == INSTANCE UrgentFifo WITH queue <- Contents, inhand <- InHand
RefinesUrgentFifo == Queue!Spec
=============================================================================
