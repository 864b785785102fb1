------------------------------ MODULE Mailbox ------------------------------
(***************************************************************************)
(* rt_mb of ipc.c: a ring of mails, threads that wait to send and threads  *)
(* that wait to receive.                                                   *)
(*                                                                         *)
(* A thread that is resumed holds no claim on the slot or the mail it was  *)
(* resumed for: it tests the mailbox again, and waits again with the time  *)
(* it has left when another thread was faster.  A non-blocking call that   *)
(* fails changes nothing: it is a stuttering step.  Interrupt handlers     *)
(* send with no waiting time; that is rt_mb_send_wait(t, m, "zero").       *)
(***************************************************************************)
EXTENDS Ipc

CONSTANTS
    Mail,       \* the mails
    NoMail,     \* no mail
    NoThread,   \* no thread
    Size        \* rt_mailbox.size

ASSUME MailboxAssumption ==
    Size \in Nat \ {0} /\ NoMail \notin Mail /\ NoThread \notin Thread

VARIABLES
    msg_pool, in_offset, out_offset, entry,     \* the fields of rt_mailbox
    suspend_thread,         \* the receivers that wait
    suspend_sender_thread,  \* the senders that wait
    alive,                  \* does the object exist?
    pc,                     \* where each thread is in a call
    arg,                    \* the mail a sender sends
    left,                   \* the local timeout of rt_mb_send_wait and rt_mb_recv
    delivered               \* what rt_mb_recv stored last, and for which thread

ring == <<msg_pool, in_offset, out_offset, entry>>
lists == <<suspend_thread, suspend_sender_thread>>
local == <<pc, arg, left>>
vars == <<ipcVars, ring, lists, local, alive, delivered>>

(* "send", "recv": in the loop of a blocking call, suspended or resumed;   *)
(* "test1" .. "next2": in rt_ipc_list_resume_all, first list and second.   *)
Pcs == {"run", "send", "recv", "test1", "next1", "test2", "next2"}

Usable ==
    alive /\ \A t \in Thread : pc[t] \in {"run", "send", "recv"}

Init ==
    /\ IpcInit
    /\ msg_pool = [i \in 0 .. Size - 1 |-> NoMail]
    /\ in_offset = 0 /\ out_offset = 0 /\ entry = 0
    /\ suspend_thread = <<>> /\ suspend_sender_thread = <<>>
    /\ alive = TRUE
    /\ pc = [t \in Thread |-> "run"]
    /\ arg = [t \in Thread |-> NoMail]
    /\ left = [t \in Thread |-> "zero"]
    /\ delivered = <<NoThread, NoMail>>

(* Mutant: the offset wraps one slot late.                                 *)
AdvanceLate(i) == IF i + 1 > Size THEN 0 ELSE i + 1

(* ++ offset, wrapped.                                                     *)
Advance(i) == IF i + 1 >= Size THEN 0 ELSE i + 1

(* Mutant: the thread is unlinked but not made ready.                      *)
WakeNone(list) == UNCHANGED ipcVars

(* Resume the first thread of a list, if any.                              *)
WakeFirst(list) ==
    IF list # <<>> THEN rt_thread_resume(Head(list)) ELSE UNCHANGED ipcVars

(* Mutant: no receiver is resumed.                                         *)
PutSilent(m) ==
    /\ msg_pool' = [msg_pool EXCEPT ![in_offset] = m]
    /\ in_offset' = Advance(in_offset)
    /\ entry' = entry + 1
    /\ UNCHANGED <<ipcVars, lists, out_offset, delivered>>

(* The end of rt_mb_send_wait: store the mail, resume a receiver.          *)
Put(m) ==
    /\ msg_pool' = [msg_pool EXCEPT ![in_offset] = m]
    /\ in_offset' = Advance(in_offset)
    /\ entry' = entry + 1
    /\ WakeFirst(suspend_thread)
    /\ suspend_thread' = IF suspend_thread # <<>> THEN Tail(suspend_thread) ELSE <<>>
    /\ UNCHANGED <<out_offset, suspend_sender_thread, delivered>>

(* The end of rt_mb_recv: fetch the mail, resume a sender.                 *)
Get(t) ==
    /\ delivered' = <<t, msg_pool[out_offset]>>
    /\ out_offset' = Advance(out_offset)
    /\ entry' = entry - 1
    /\ WakeFirst(suspend_sender_thread)
    /\ suspend_sender_thread' =
         IF suspend_sender_thread # <<>> THEN Tail(suspend_sender_thread) ELSE <<>>
    /\ UNCHANGED <<msg_pool, in_offset, suspend_thread>>

Return(t) ==
    /\ pc' = [pc EXCEPT ![t] = "run"]
    /\ arg' = [arg EXCEPT ![t] = NoMail]
    /\ left' = [left EXCEPT ![t] = "zero"]

(* Wait in a call, with time ticks left.                                   *)
Wait(t, where, m, time) ==
    /\ SuspendSelf(t, time)
    /\ pc' = [pc EXCEPT ![t] = where]
    /\ arg' = [arg EXCEPT ![t] = m]
    /\ left' = [left EXCEPT ![t] = time]
    /\ UNCHANGED <<ring, delivered>>

(* The while loop of rt_mb_send_wait from its test to its next suspension, *)
(* one section; with no time left it returns -RT_EFULL.                    *)
SendLoop(t, m, time) ==
    \/ /\ entry # Size
       /\ Put(m) /\ Return(t)
    \/ /\ entry = Size /\ time = "zero"
       /\ Return(t)
       /\ UNCHANGED <<ipcVars, ring, lists, delivered>>
    \/ /\ entry = Size /\ time # "zero"
       /\ Wait(t, "send", m, time)
       /\ suspend_sender_thread' = rt_ipc_list_suspend(suspend_sender_thread, t)
       /\ UNCHANGED suspend_thread

(* The same of rt_mb_recv; with no time left it returns -RT_ETIMEOUT, and  *)
(* leaves that in the error of a thread that has waited.                   *)
RecvLoop(t, time) ==
    \/ /\ entry # 0
       /\ Get(t) /\ Return(t)
    \/ /\ entry = 0 /\ time = "zero"
       /\ Return(t)
       /\ error' = [error EXCEPT ![t] = IF pc[t] = "recv" THEN "ETIMEOUT" ELSE @]
       /\ UNCHANGED <<stat, timer, wild, ring, lists, delivered>>
    \/ /\ entry = 0 /\ time # "zero"
       /\ Wait(t, "recv", NoMail, time)
       /\ suspend_thread' = rt_ipc_list_suspend(suspend_thread, t)
       /\ UNCHANGED suspend_sender_thread

rt_mb_send_wait(t, m, time) ==
    /\ pc[t] = "run" /\ Usable
    /\ SendLoop(t, m, time)
    /\ UNCHANGED alive

rt_mb_recv(t, time) ==
    /\ pc[t] = "run" /\ Usable
    /\ RecvLoop(t, time)
    /\ UNCHANGED alive

(* A resumed thread runs again: it returns thread->error, or goes round    *)
(* its loop.                                                               *)
Resumed(t) ==
    /\ pc[t] \in {"send", "recv"} /\ stat[t] = "ready"
    /\ IF error[t] # "EOK"
       THEN Return(t) /\ UNCHANGED <<ipcVars, ring, lists, delivered>>
       ELSE \E time \in TimeLeft(left[t]) :
              \/ pc[t] = "send" /\ SendLoop(t, arg[t], time)
              \/ pc[t] = "recv" /\ RecvLoop(t, time)
    /\ UNCHANGED alive

Timeout(t) ==
    /\ rt_thread_timeout(t)
    /\ suspend_thread' = ListRemove(suspend_thread, t)
    /\ suspend_sender_thread' = ListRemove(suspend_sender_thread, t)
    /\ UNCHANGED <<ring, local, alive, delivered>>

(* Mutant: the output offset is not reset.                                 *)
ResetInOnly ==
    /\ Usable
    /\ ResumeAll(Linked(suspend_thread) \cup Linked(suspend_sender_thread))
    /\ suspend_thread' = <<>> /\ suspend_sender_thread' = <<>>
    /\ entry' = 0 /\ in_offset' = 0
    /\ UNCHANGED <<msg_pool, out_offset, local, alive, delivered>>

(* rt_mb_control(RT_IPC_CMD_RESET).                                        *)
rt_mb_control ==
    /\ Usable
    /\ ResumeAll(Linked(suspend_thread) \cup Linked(suspend_sender_thread))
    /\ suspend_thread' = <<>> /\ suspend_sender_thread' = <<>>
    /\ entry' = 0 /\ in_offset' = 0 /\ out_offset' = 0
    /\ UNCHANGED <<msg_pool, local, alive, delivered>>

(* rt_mb_detach and rt_mb_delete.  The discipline: no waiter can time out  *)
(* while the lists are emptied, and no resumed thread is still to look at  *)
(* the mailbox.                                                            *)
rt_mb_delete(t) ==
    /\ pc[t] = "run" /\ Usable
    /\ \A u \in Thread : ~timer[u] /\ (pc[u] # "run" => stat[u] = "suspend")
    /\ pc' = [pc EXCEPT ![t] = "test1"]
    /\ UNCHANGED <<ipcVars, ring, lists, arg, left, alive, delivered>>

(* The two loops of rt_ipc_list_resume_all.                                *)
ResumeAllTest(t) ==
    /\ \/ /\ pc[t] = "test1"
          /\ pc' = [pc EXCEPT ![t] = IF suspend_thread # <<>> THEN "next1" ELSE "test2"]
          /\ UNCHANGED alive
       \/ /\ pc[t] = "test2" /\ suspend_sender_thread # <<>>
          /\ pc' = [pc EXCEPT ![t] = "next2"]
          /\ UNCHANGED alive
       \/ /\ pc[t] = "test2" /\ suspend_sender_thread = <<>>
          /\ pc' = [pc EXCEPT ![t] = "run"]
          /\ alive' = FALSE
    /\ UNCHANGED <<ipcVars, ring, lists, arg, left, delivered>>

ResumeAllNext(t) ==
    /\ \/ /\ pc[t] = "next1"
          /\ ResumeNext(suspend_thread)
          /\ suspend_thread' = ListRemove(suspend_thread, Head(suspend_thread))
          /\ pc' = [pc EXCEPT ![t] = "test1"]
          /\ UNCHANGED suspend_sender_thread
       \/ /\ pc[t] = "next2"
          /\ ResumeNext(suspend_sender_thread)
          /\ suspend_sender_thread' =
               ListRemove(suspend_sender_thread, Head(suspend_sender_thread))
          /\ pc' = [pc EXCEPT ![t] = "test2"]
          /\ UNCHANGED suspend_thread
    /\ UNCHANGED <<ring, arg, left, alive, delivered>>

(* rt_mb_init or rt_mb_create of a new mailbox in the place of the old.    *)
rt_mb_init ==
    /\ ~alive
    /\ alive' = TRUE
    /\ entry' = 0 /\ in_offset' = 0 /\ out_offset' = 0
    /\ suspend_thread' = <<>> /\ suspend_sender_thread' = <<>>
    /\ UNCHANGED <<ipcVars, msg_pool, local, delivered>>

ThreadStep(t) ==
    \/ \E time \in Times : rt_mb_recv(t, time) \/ \E m \in Mail : rt_mb_send_wait(t, m, time)
    \/ Resumed(t) \/ Timeout(t)
    \/ rt_mb_delete(t) \/ ResumeAllTest(t) \/ ResumeAllNext(t)

Next ==
    \/ \E t \in Thread : ThreadStep(t)
    \/ rt_mb_control \/ rt_mb_init

Spec == Init /\ [][Next]_vars

-----------------------------------------------------------------------------
(* Every field has a value of its type.                                    *)
TypeOK ==
    /\ IpcTypeOK
    /\ msg_pool \in [0 .. Size - 1 -> Mail \cup {NoMail}]
    /\ in_offset \in 0 .. Size - 1 /\ out_offset \in 0 .. Size - 1
    /\ entry \in 0 .. Size
    /\ suspend_thread \in Seq(Thread) /\ suspend_sender_thread \in Seq(Thread)
    /\ alive \in BOOLEAN
    /\ pc \in [Thread -> Pcs]
    /\ arg \in [Thread -> Mail \cup {NoMail}]
    /\ left \in [Thread -> Times]
    /\ delivered \in (Thread \cup {NoThread}) \X (Mail \cup {NoMail})

(* Each list links exactly the threads suspended in its call, each once.   *)
WaitersQueued ==
    /\ NoRepeat(suspend_thread) /\ NoRepeat(suspend_sender_thread)
    /\ \A t \in Thread :
         /\ InList(suspend_thread, t) <=> stat[t] = "suspend" /\ pc[t] = "recv"
         /\ InList(suspend_sender_thread, t) <=> stat[t] = "suspend" /\ pc[t] = "send"
         /\ timer[t] => stat[t] = "suspend"

(* The threads resumed for a mail or a slot that have not run yet.         *)
Pending(where) ==
    {t \in Thread : pc[t] = where /\ stat[t] = "ready" /\ error[t] = "EOK"}

(* No wake-up is lost: while receivers wait, every mail has a resumed      *)
(* receiver on its way to it, and while senders wait, every free slot has  *)
(* a resumed sender, however often others overtake them.                   *)
NoLostWakeup ==
    /\ suspend_thread # <<>> => entry <= Cardinality(Pending("recv"))
    /\ suspend_sender_thread # <<>> => Size - entry <= Cardinality(Pending("send"))

(* No thread comes to stand before one that waits, in either list; with    *)
(* RT_IPC_FLAG_PRIO only a thread of higher priority does.  (A thread that *)
(* was resumed and finds its slot taken has left the list: it waits again  *)
(* at the tail.)                                                           *)
NoOvertaking ==
    [][\A t, u \in Thread :
         /\ ~Overtakes(u, t, suspend_thread, suspend_thread')
         /\ ~Overtakes(u, t, suspend_sender_thread, suspend_sender_thread')]_vars

(* The mails in the ring, oldest first.                                    *)
Contents == [i \in 1 .. entry |-> msg_pool[(out_offset + i - 1) % Size]]

(* The ring implements a bounded FIFO: no mail is lost, delivered twice,   *)
(* overtaken or overwritten.                                               *)
Fifo == INSTANCE BoundedFifo WITH queue <- Contents
RefinesFifo == Fifo!Spec
=============================================================================
