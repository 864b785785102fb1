-------------------------------- MODULE Ipc --------------------------------
(***************************************************************************)
(* What the blocking objects of ipc.c and mempool.c share: how a thread    *)
(* waits on an object, is resumed, times out, or is thrown out when the    *)
(* object goes away.                                                       *)
(*                                                                         *)
(* A section with interrupts off is one step.  Which ready thread runs is  *)
(* left open, so every order the scheduler allows is covered; the call of  *)
(* rt_schedule after a section leaves no trace here.  An object's list is  *)
(* a variable of the object's module; the operators below are functions    *)
(* from lists to lists and actions on the fields of the threads.           *)
(***************************************************************************)
EXTENDS Integers, Sequences, FiniteSets, RtList

CONSTANTS
    Thread,     \* the threads that use the object
    Priority,   \* their init_priority; a small number is a high priority
    Flag        \* RT_IPC_FLAG_FIFO or RT_IPC_FLAG_PRIO

ASSUME IpcAssumption ==
    /\ IsFiniteSet(Thread)
    /\ Priority \in [Thread -> Nat]
    /\ Flag \in {"FIFO", "PRIO"}

VARIABLES
    stat,   \* rt_thread.stat
    error,  \* rt_thread.error
    timer,  \* is rt_thread.thread_timer running?
    wild    \* has rt_thread_resume been called on a list head for a thread?

ipcVars == <<stat, error, timer, wild>>

Errors == {"EOK", "ETIMEOUT", "ERROR"}
(* The time argument: 0, positive, RT_WAITING_FOREVER.                     *)
Times  == {"zero", "ticks", "forever"}

IpcTypeOK ==
    /\ stat \in [Thread -> {"ready", "suspend"}]
    /\ error \in [Thread -> Errors]
    /\ timer \in [Thread -> BOOLEAN]
    /\ wild \in BOOLEAN

IpcInit ==
    /\ stat = [t \in Thread |-> "ready"]
    /\ error = [t \in Thread |-> "EOK"]
    /\ timer = [t \in Thread |-> FALSE]
    /\ wild = FALSE

(* The place rt_ipc_list_suspend finds for t when prio gives the current   *)
(* priorities: before the first thread of lower priority, or at the end.   *)
Place(prio, list, t) ==
    CHOOSE k \in 1 .. Len(list) + 1 :
      /\ \A i \in 1 .. k - 1 : ~(prio[t] < prio[list[i]])
      /\ k <= Len(list) => prio[t] < prio[list[k]]

(* The list after rt_ipc_list_suspend.                                     *)
SuspendIn(prio, list, t) ==
    IF Flag = "FIFO"
    THEN InsertLast(list, t)
    ELSE InsertBefore(list, Place(prio, list, t), t)

(* Mutants: a thread goes before its equals; the newest waiter goes first. *)
SuspendBeforeEquals(list, t) ==
    SelectSeq(list, LAMBDA u : Priority[u] < Priority[t]) \o <<t>>
        \o SelectSeq(list, LAMBDA u : Priority[u] >= Priority[t])
SuspendFirst(list, t) == InsertFirst(list, t)

(* For threads that keep their priorities.                                 *)
rt_ipc_list_suspend(list, t) == SuspendIn(Priority, list, t)

(* The thread's side of it: rt_thread_suspend, and the timer of a wait     *)
(* that is not forever.                                                    *)
SuspendSelf(t, time) ==
    /\ stat' = [stat EXCEPT ![t] = "suspend"]
    /\ error' = [error EXCEPT ![t] = "EOK"]
    /\ timer' = [timer EXCEPT ![t] = (time = "ticks")]
    /\ UNCHANGED wild

(* What the ticks that passed leave of a timeout.                          *)
TimeLeft(time) == IF time = "ticks" THEN {"ticks", "zero"} ELSE {time}

(* Mutant: the timer of the resumed thread goes on running.                *)
ResumeNoStop(t) ==
    /\ stat' = [stat EXCEPT ![t] = "ready"]
    /\ UNCHANGED <<timer, error, wild>>

(* rt_thread_resume of a waiting thread.                                   *)
rt_thread_resume(t) ==
    /\ stat' = [stat EXCEPT ![t] = "ready"]
    /\ timer' = [timer EXCEPT ![t] = FALSE]
    /\ UNCHANGED <<error, wild>>

(* rt_ipc_list_resume_all inside a section of its caller (a RESET), on the *)
(* lists whose threads are S.                                              *)
ResumeAll(S) ==
    /\ stat' = [t \in Thread |-> IF t \in S THEN "ready" ELSE stat[t]]
    /\ error' = [t \in Thread |-> IF t \in S THEN "ERROR" ELSE error[t]]
    /\ timer' = [t \in Thread |-> timer[t] /\ t \notin S]
    /\ UNCHANGED wild

(* One turn of its loop with interrupts enabled, after the test that the   *)
(* list is not empty.  A list that is empty by now has its head taken for  *)
(* the node of a thread.                                                   *)
ResumeNext(list) ==
    IF list # <<>>
    THEN /\ stat' = [stat EXCEPT ![Head(list)] = "ready"]
         /\ error' = [error EXCEPT ![Head(list)] = "ERROR"]
         /\ timer' = [timer EXCEPT ![Head(list)] = FALSE]
         /\ UNCHANGED wild
    ELSE wild' = TRUE /\ UNCHANGED <<stat, error, timer>>

(* rt_thread_timeout, the callback of the thread's timer.                  *)
rt_thread_timeout(t) ==
    /\ timer[t]
    /\ stat' = [stat EXCEPT ![t] = "ready"]
    /\ error' = [error EXCEPT ![t] = "ETIMEOUT"]
    /\ timer' = [timer EXCEPT ![t] = FALSE]
    /\ UNCHANGED wild

Linked(list) == {t \in Thread : InList(list, t)}

(* For the properties: u comes to stand before a waiting t, which only     *)
(* RT_IPC_FLAG_PRIO and a higher priority allow.                           *)
Overtakes(u, t, list, new) ==
    /\ InList(list, t) /\ ~Before(list, u, t) /\ Before(new, u, t)
    /\ ~(Flag = "PRIO" /\ Priority[u] < Priority[t])
=============================================================================
