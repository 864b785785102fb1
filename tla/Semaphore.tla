----------------------------- MODULE Semaphore -----------------------------
(***************************************************************************)
(* rt_sem of ipc.c: one semaphore object, the threads that take it, and    *)
(* the threads and interrupt handlers that release it.                     *)
(*                                                                         *)
(* A trytake that finds no token returns -RT_ETIMEOUT and changes nothing: *)
(* it is a stuttering step.                                                *)
(***************************************************************************)
EXTENDS Ipc

CONSTANTS
    MaxValue    \* bound: the largest value (rt_uint16_t in the code)

ASSUME SemaphoreAssumption == MaxValue \in Nat

VARIABLES
    value,              \* rt_semaphore.value
    suspend_thread,     \* rt_semaphore.parent.suspend_thread
    alive,              \* does the object exist?
    pc,                 \* where each thread is in a call
    credit              \* ghost: tokens put in and not returned to a taker yet

vars == <<ipcVars, value, suspend_thread, alive, pc, credit>>

(* "wait": in rt_sem_take, suspended or resumed; "test", "next": in the    *)
(* loop of rt_ipc_list_resume_all.                                         *)
Pcs == {"run", "wait", "test", "next"}

(* Nobody is deleting the semaphore, and it exists.                        *)
Usable == alive /\ \A t \in Thread : pc[t] \notin {"test", "next"}

Goto(t, where) == pc' = [pc EXCEPT ![t] = where]

(* Threads a release has resumed whose take has not returned yet.          *)
Granted == {t \in Thread : pc[t] = "wait" /\ stat[t] = "ready" /\ error[t] = "EOK"}

Init ==
    /\ IpcInit
    /\ value \in 0 .. MaxValue
    /\ suspend_thread = <<>>
    /\ alive = TRUE
    /\ pc = [t \in Thread |-> "run"]
    /\ credit = value

(* Mutant: the value is not tested.                                        *)
TakeUntested(t, time) ==
    /\ pc[t] = "run" /\ Usable
    /\ value' = value - 1
    /\ credit' = credit - 1
    /\ UNCHANGED <<ipcVars, suspend_thread, alive, pc>>

(* rt_sem_take: the section with interrupts off.                           *)
rt_sem_take(t, time) ==
    /\ pc[t] = "run" /\ Usable
    /\ \/ /\ value > 0
          /\ value' = value - 1
          /\ credit' = credit - 1
          /\ UNCHANGED <<ipcVars, suspend_thread, pc>>
       \/ /\ value = 0 /\ time # "zero"
          /\ SuspendSelf(t, time)
          /\ suspend_thread' = rt_ipc_list_suspend(suspend_thread, t)
          /\ Goto(t, "wait")
          /\ UNCHANGED <<value, credit>>
    /\ UNCHANGED alive

(* The taker runs again and returns thread->error.                         *)
TakeReturn(t) ==
    /\ pc[t] = "wait" /\ stat[t] = "ready"
    /\ credit' = IF error[t] = "EOK" THEN credit - 1 ELSE credit
    /\ Goto(t, "run")
    /\ UNCHANGED <<ipcVars, value, suspend_thread, alive>>

Timeout(t) ==
    /\ rt_thread_timeout(t)
    /\ suspend_thread' = ListRemove(suspend_thread, t)
    /\ UNCHANGED <<value, alive, pc, credit>>

(* Mutant: the value is increased also when a thread is resumed.           *)
ReleaseTwice ==
    /\ Usable /\ value < MaxValue
    /\ IF suspend_thread # <<>>
       THEN /\ rt_thread_resume(Head(suspend_thread))
            /\ suspend_thread' = Tail(suspend_thread)
       ELSE UNCHANGED <<ipcVars, suspend_thread>>
    /\ value' = value + 1
    /\ credit' = credit + 1
    /\ UNCHANGED <<alive, pc>>

(* Mutant: the token is put back although a thread waits.                  *)
ReleaseNoWake ==
    /\ Usable /\ value < MaxValue
    /\ value' = value + 1
    /\ credit' = credit + 1
    /\ UNCHANGED <<ipcVars, suspend_thread, alive, pc>>

(* rt_sem_release, by a thread or an interrupt handler.                    *)
rt_sem_release ==
    /\ Usable /\ value < MaxValue
    /\ IF suspend_thread # <<>>
       THEN /\ rt_thread_resume(Head(suspend_thread))
            /\ suspend_thread' = Tail(suspend_thread)
            /\ UNCHANGED value
       ELSE /\ value' = value + 1
            /\ UNCHANGED <<ipcVars, suspend_thread>>
    /\ credit' = credit + 1
    /\ UNCHANGED <<alive, pc>>

(* rt_sem_control(RT_IPC_CMD_RESET).                                       *)
rt_sem_control(v) ==
    /\ Usable
    /\ ResumeAll(Linked(suspend_thread))
    /\ suspend_thread' = <<>>
    /\ value' = v
    /\ credit' = v + Cardinality(Granted)
    /\ UNCHANGED <<alive, pc>>

(* rt_sem_detach and rt_sem_delete enter rt_ipc_list_resume_all.           *)
DeleteBegin(t) ==
    /\ pc[t] = "run" /\ Usable
    /\ Goto(t, "test")
    /\ UNCHANGED <<ipcVars, value, suspend_thread, alive, credit>>

(* With the discipline the loop needs: no waiter can time out meanwhile.   *)
rt_sem_delete(t) ==
    /\ \A u \in Thread : ~timer[u]
    /\ DeleteBegin(t)

(* Mutant: the list is not tested.                                         *)
ResumeAllNoTest(t) ==
    /\ pc[t] = "test"
    /\ \/ Goto(t, "next") /\ UNCHANGED alive
       \/ Goto(t, "run") /\ alive' = FALSE
    /\ UNCHANGED <<ipcVars, value, suspend_thread, credit>>

(* Its loop: the test with interrupts enabled; the object is gone when the *)
(* loop ends.                                                              *)
ResumeAllTest(t) ==
    /\ pc[t] = "test"
    /\ \/ suspend_thread # <<>> /\ Goto(t, "next") /\ UNCHANGED alive
       \/ suspend_thread = <<>> /\ Goto(t, "run") /\ alive' = FALSE
    /\ UNCHANGED <<ipcVars, value, suspend_thread, credit>>

ResumeAllNext(t) ==
    /\ pc[t] = "next"
    /\ ResumeNext(suspend_thread)
    /\ suspend_thread' = IF suspend_thread # <<>> THEN Tail(suspend_thread) ELSE <<>>
    /\ Goto(t, "test")
    /\ UNCHANGED <<value, alive, credit>>

(* rt_sem_init or rt_sem_create of a new object in the place of the old.   *)
rt_sem_init(v) ==
    /\ ~alive
    /\ alive' = TRUE
    /\ value' = v
    /\ suspend_thread' = <<>>
    /\ credit' = v + Cardinality(Granted)
    /\ UNCHANGED <<ipcVars, pc>>

ThreadStep(t) ==
    \/ \E time \in Times : rt_sem_take(t, time)
    \/ TakeReturn(t) \/ Timeout(t)
    \/ rt_sem_delete(t) \/ ResumeAllTest(t) \/ ResumeAllNext(t)

Next ==
    \/ \E t \in Thread : ThreadStep(t)
    \/ rt_sem_release
    \/ \E v \in 0 .. MaxValue : rt_sem_control(v) \/ rt_sem_init(v)

Spec == Init /\ [][Next]_vars

(* The same semaphore, deleted while threads wait with a timeout.          *)
DeleteSpec == Init /\ [][Next \/ \E t \in Thread : DeleteBegin(t)]_vars

(* Fairness: a ready thread goes on, and the semaphore keeps being         *)
(* released.                                                               *)
FairSpec ==
    /\ Spec
    /\ WF_vars(rt_sem_release)
    /\ \A t \in Thread :
         WF_vars(TakeReturn(t) \/ ResumeAllTest(t) \/ ResumeAllNext(t))

-----------------------------------------------------------------------------
(* Every field has a value of its type; the value stays within the bound.  *)
TypeOK ==
    /\ IpcTypeOK
    /\ value \in 0 .. MaxValue
    /\ suspend_thread \in Seq(Thread)
    /\ alive \in BOOLEAN
    /\ pc \in [Thread -> Pcs]
    /\ credit \in Nat

(* No token is lost or made up, whatever release, timeout, reset and       *)
(* delete race for a waiter: each token put in is in the value, or belongs *)
(* to a resumed taker that will return RT_EOK, or was returned to one.     *)
TokensConserved == value + Cardinality(Granted) = credit

(* rt_sem_take and rt_sem_release leave no token lying next to a waiter.   *)
NoIdleToken == alive /\ value > 0 => suspend_thread = <<>>

(* The threads the list links are exactly the ones suspended in a take,    *)
(* each once: nobody waits where no release will find it.                  *)
WaitersQueued ==
    /\ NoRepeat(suspend_thread)
    /\ \A t \in Thread :
         /\ InList(suspend_thread, t) <=> stat[t] = "suspend"
         /\ stat[t] = "suspend" => pc[t] = "wait"
         /\ timer[t] => stat[t] = "suspend"

(* rt_ipc_list_resume_all resumes threads only ("get next suspend thread"): *)
(* it never takes the head of an empty list for one.                       *)
ResumesThreads == ~wild

(* With RT_IPC_FLAG_FIFO every taker that waits is served in the end,      *)
(* also while others keep taking.                                          *)
WaiterServed == \A t \in Thread : pc[t] = "wait" ~> pc[t] = "run"
=============================================================================
