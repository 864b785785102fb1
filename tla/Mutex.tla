------------------------------- MODULE Mutex -------------------------------
(***************************************************************************)
(* rt_mutex of ipc.c: recursive mutexes with priority inheritance.         *)
(* Ownership is handed over: rt_mutex_release makes the first waiter the   *)
(* owner before that thread runs.                                          *)
(*                                                                         *)
(* The discipline: a thread gives up its mutexes in the reverse of the     *)
(* order it got them, which is what original_priority is made for.         *)
(***************************************************************************)
EXTENDS Ipc

CONSTANTS
    Mutex,      \* the mutexes
    NoMutex,    \* no mutex
    NoThread,   \* RT_NULL, as an owner
    NoPriority, \* 0xFF, the original_priority of a mutex nobody owns
    MaxHold     \* the bound of hold

ASSUME MutexAssumption ==
    /\ IsFiniteSet(Mutex) /\ NoMutex \notin Mutex
    /\ NoThread \notin Thread
    /\ MaxHold \in Nat \ {0}
    /\ NoPriority \in Nat /\ \A t \in Thread : Priority[t] < NoPriority

VARIABLES
    current_priority,                       \* rt_thread.current_priority
    value, owner, hold, original_priority,  \* the fields of each rt_mutex
    suspend_thread,                         \* its waiting threads
    exists,     \* is the mutex initialized?
    pc,         \* where each thread is: "wait" in rt_mutex_take, suspended
                \* or resumed; "test", "next" in rt_mutex_delete
    on,         \* the mutex of that call
    held,       \* history: what each thread knows it holds, oldest first
    lowered     \* history: threads whose priority an inner release lowered

mutexVars == <<value, owner, hold, original_priority>>
local == <<pc, on>>
history == <<held, lowered>>
vars == <<ipcVars, current_priority, mutexVars, suspend_thread, exists, local, history>>

Init ==
    /\ IpcInit
    /\ current_priority = Priority
    /\ value = [m \in Mutex |-> 1]
    /\ owner = [m \in Mutex |-> NoThread]
    /\ hold = [m \in Mutex |-> 0]
    /\ original_priority = [m \in Mutex |-> NoPriority]
    /\ suspend_thread = [m \in Mutex |-> <<>>]
    /\ exists = [m \in Mutex |-> TRUE]
    /\ pc = [t \in Thread |-> "run"]
    /\ on = [t \in Thread |-> NoMutex]
    /\ held = [t \in Thread |-> <<>>]
    /\ lowered = {}

(* No thread is deleting m.                                                *)
Usable(m) == exists[m] /\ \A u \in Thread : on[u] = m => pc[u] = "wait"

-----------------------------------------------------------------------------
(* rt_mutex_take.                                                          *)

TakeAgain(t, m) ==
    /\ owner[m] = t /\ hold[m] < MaxHold
    /\ hold' = [hold EXCEPT ![m] = @ + 1]
    /\ UNCHANGED <<value, owner, original_priority, held>>

TakeFree(t, m) ==
    /\ owner[m] # t /\ value[m] > 0
    /\ value' = [value EXCEPT ![m] = @ - 1]
    /\ owner' = [owner EXCEPT ![m] = t]
    /\ original_priority' = [original_priority EXCEPT ![m] = current_priority[t]]
    /\ hold' = [hold EXCEPT ![m] = @ + 1]
    /\ held' = [held EXCEPT ![t] = Append(@, m)]

(* Mutant: the owner is left as it is.                                     *)
InheritNone(t, m) == UNCHANGED current_priority

(* The owner gets the priority of a waiter that is more urgent.            *)
Inherit(t, m) ==
    current_priority' =
      [current_priority EXCEPT
         ![owner[m]] = IF current_priority[t] < @ THEN current_priority[t] ELSE @]

TakeWait(t, m, time) ==
    /\ owner[m] # t /\ value[m] = 0 /\ time # "zero"
    /\ Inherit(t, m)
    /\ suspend_thread' = [suspend_thread EXCEPT ![m] = SuspendIn(current_priority, @, t)]
    /\ SuspendSelf(t, time)
    /\ pc' = [pc EXCEPT ![t] = "wait"]
    /\ on' = [on EXCEPT ![t] = m]

(* The three ways on: the mutex is taken, the call returns -RT_ETIMEOUT at *)
(* once, or the thread is suspended.                                       *)
rt_mutex_take(t, m, time) ==
    /\ pc[t] = "run" /\ Usable(m)
    /\ \/ /\ TakeAgain(t, m) \/ TakeFree(t, m)
          /\ error' = [error EXCEPT ![t] = "EOK"]
          /\ UNCHANGED <<stat, timer, wild, current_priority, suspend_thread, local>>
       \/ /\ owner[m] # t /\ value[m] = 0 /\ time = "zero"
          /\ error' = [error EXCEPT ![t] = "ETIMEOUT"]
          /\ UNCHANGED <<stat, timer, wild, current_priority, mutexVars, suspend_thread,
                         local, held>>
       \/ TakeWait(t, m, time) /\ UNCHANGED <<mutexVars, held>>
    /\ UNCHANGED <<exists, lowered>>

(* The thread runs again: it owns the mutex, or returns thread->error.     *)
Resumed(t) ==
    /\ pc[t] = "wait" /\ stat[t] = "ready"
    /\ held' = [held EXCEPT ![t] = IF error[t] = "EOK" THEN Append(@, on[t]) ELSE @]
    /\ pc' = [pc EXCEPT ![t] = "run"]
    /\ on' = [on EXCEPT ![t] = NoMutex]
    /\ UNCHANGED <<ipcVars, current_priority, mutexVars, suspend_thread, exists, lowered>>

Timeout(t) ==
    /\ rt_thread_timeout(t)
    /\ suspend_thread' = [m \in Mutex |-> ListRemove(suspend_thread[m], t)]
    /\ UNCHANGED <<current_priority, mutexVars, exists, local, history>>

-----------------------------------------------------------------------------
(* rt_mutex_release.                                                       *)

(* Mutant: the owner keeps the priority it inherited.                      *)
RestoreNot(t, m) == UNCHANGED <<current_priority, lowered>>

(* The owner gets back its priority, if that is another.                   *)
Restore(t, m) ==
    /\ current_priority' = [current_priority EXCEPT ![t] = original_priority[m]]
    /\ lowered' = CASE held[t] = <<m>> -> lowered \ {t}
                    [] held[t] # <<m>> /\ current_priority[t] < original_priority[m] ->
                         lowered \cup {t}
                    [] OTHER -> lowered

(* Mutants: the timer of the new owner goes on running; value goes up as   *)
(* if the mutex were free.                                                 *)
HandOverTimed(m) ==
    LET w == Head(suspend_thread[m]) IN
    /\ owner' = [owner EXCEPT ![m] = w]
    /\ original_priority' = [original_priority EXCEPT ![m] = current_priority[w]]
    /\ suspend_thread' = [suspend_thread EXCEPT ![m] = Tail(@)]
    /\ ResumeNoStop(w)
    /\ UNCHANGED <<value, hold>>
HandOverFreed(m) ==
    LET w == Head(suspend_thread[m]) IN
    /\ owner' = [owner EXCEPT ![m] = w]
    /\ original_priority' = [original_priority EXCEPT ![m] = current_priority[w]]
    /\ suspend_thread' = [suspend_thread EXCEPT ![m] = Tail(@)]
    /\ rt_thread_resume(w)
    /\ value' = [value EXCEPT ![m] = @ + 1]
    /\ UNCHANGED hold

(* The first waiter becomes the owner; hold goes down to 0 and up to 1.    *)
HandOver(m) ==
    LET w == Head(suspend_thread[m]) IN
    /\ owner' = [owner EXCEPT ![m] = w]
    /\ original_priority' = [original_priority EXCEPT ![m] = current_priority[w]]
    /\ suspend_thread' = [suspend_thread EXCEPT ![m] = Tail(@)]
    /\ rt_thread_resume(w)
    /\ UNCHANGED <<value, hold>>

Free(m) ==
    /\ value' = [value EXCEPT ![m] = @ + 1]
    /\ owner' = [owner EXCEPT ![m] = NoThread]
    /\ original_priority' = [original_priority EXCEPT ![m] = NoPriority]
    /\ hold' = [hold EXCEPT ![m] = @ - 1]
    /\ UNCHANGED <<ipcVars, suspend_thread>>

rt_mutex_release(t, m) ==
    /\ pc[t] = "run" /\ Usable(m)
    /\ \/ /\ owner[m] # t
          /\ error' = [error EXCEPT ![t] = "ERROR"]
          /\ UNCHANGED <<stat, timer, wild, current_priority, mutexVars, suspend_thread,
                         history>>
       \/ /\ owner[m] = t /\ hold[m] > 1
          /\ hold' = [hold EXCEPT ![m] = @ - 1]
          /\ UNCHANGED <<ipcVars, current_priority, value, owner, original_priority,
                         suspend_thread, history>>
       \/ /\ owner[m] = t /\ hold[m] = 1
          /\ held[t][Len(held[t])] = m
          /\ Restore(t, m)
          /\ IF suspend_thread[m] # <<>> THEN HandOver(m) ELSE Free(m)
          /\ held' = [held EXCEPT ![t] = ListRemove(@, m)]
    /\ UNCHANGED <<exists, local>>

-----------------------------------------------------------------------------
(* rt_mutex_detach and rt_mutex_delete, by a thread that has locked the    *)
(* mutex, or that finds it free.  The discipline: the owner has inherited  *)
(* no priority through it (it would keep that for good), and no waiter can *)
(* time out while the list is emptied.                                     *)
rt_mutex_delete(t, m) ==
    /\ pc[t] = "run" /\ Usable(m)
    /\ \/ value[m] = 1
       \/ /\ owner[m] = t /\ held[t][Len(held[t])] = m
          /\ current_priority[t] = original_priority[m]
    /\ \A u \in Thread : on[u] = m => stat[u] = "suspend" /\ ~timer[u]
    /\ pc' = [pc EXCEPT ![t] = "test"]
    /\ on' = [on EXCEPT ![t] = m]
    /\ UNCHANGED <<ipcVars, current_priority, mutexVars, suspend_thread, exists, history>>

(* The loop of rt_ipc_list_resume_all; its end is the end of the mutex.    *)
ResumeAllTest(t) ==
    /\ pc[t] = "test"
    /\ \/ /\ suspend_thread[on[t]] # <<>>
          /\ pc' = [pc EXCEPT ![t] = "next"]
          /\ UNCHANGED <<on, exists, held>>
       \/ /\ suspend_thread[on[t]] = <<>>
          /\ pc' = [pc EXCEPT ![t] = "run"]
          /\ on' = [on EXCEPT ![t] = NoMutex]
          /\ exists' = [exists EXCEPT ![on[t]] = FALSE]
          /\ held' = [held EXCEPT ![t] = ListRemove(@, on[t])]
    /\ UNCHANGED <<ipcVars, current_priority, mutexVars, suspend_thread, lowered>>

ResumeAllNext(t) ==
    /\ pc[t] = "next"
    /\ ResumeNext(suspend_thread[on[t]])
    /\ suspend_thread' =
         [suspend_thread EXCEPT ![on[t]] = ListRemove(@, Head(@))]
    /\ pc' = [pc EXCEPT ![t] = "test"]
    /\ UNCHANGED <<current_priority, mutexVars, exists, on, history>>

(* rt_mutex_init and rt_mutex_create of a new mutex in its place.          *)
rt_mutex_init(m) ==
    /\ ~exists[m]
    /\ exists' = [exists EXCEPT ![m] = TRUE]
    /\ value' = [value EXCEPT ![m] = 1]
    /\ owner' = [owner EXCEPT ![m] = NoThread]
    /\ hold' = [hold EXCEPT ![m] = 0]
    /\ original_priority' = [original_priority EXCEPT ![m] = NoPriority]
    /\ suspend_thread' = [suspend_thread EXCEPT ![m] = <<>>]
    /\ UNCHANGED <<ipcVars, current_priority, local, history>>

Next ==
    \/ \E t \in Thread, m \in Mutex :
         \/ \E time \in Times : rt_mutex_take(t, m, time)
         \/ rt_mutex_release(t, m) \/ rt_mutex_delete(t, m)
    \/ \E t \in Thread : Resumed(t) \/ Timeout(t) \/ ResumeAllTest(t) \/ ResumeAllNext(t)
    \/ \E m \in Mutex : rt_mutex_init(m)

Spec == Init /\ [][Next]_vars

-----------------------------------------------------------------------------
(* Every field has a value of its type; no resume was made on a list head. *)
TypeOK ==
    /\ IpcTypeOK /\ ~wild
    /\ current_priority \in [Thread -> 0 .. NoPriority - 1]
    /\ value \in [Mutex -> 0 .. 1]
    /\ owner \in [Mutex -> Thread \cup {NoThread}]
    /\ hold \in [Mutex -> 0 .. MaxHold]
    /\ original_priority \in [Mutex -> 0 .. NoPriority]
    /\ suspend_thread \in [Mutex -> Seq(Thread)]
    /\ exists \in [Mutex -> BOOLEAN]
    /\ pc \in [Thread -> {"run", "wait", "test", "next"}]
    /\ on \in [Thread -> Mutex \cup {NoMutex}]
    /\ held \in [Thread -> Seq(Mutex)]
    /\ lowered \subseteq Thread

(* m has been handed over to t, which has not run since.                   *)
Granted(t, m) == pc[t] = "wait" /\ on[t] = m /\ stat[t] = "ready" /\ error[t] = "EOK"

(* Mutual exclusion as the threads see it: the owner of a mutex is the one *)
(* thread whose rt_mutex_take has returned RT_EOK, or is about to; a       *)
(* thread whose wait has failed owns nothing; nobody waits for a mutex     *)
(* that is free, and the list links exactly those who wait.                *)
Ownership ==
    \A m \in Mutex : exists[m] =>
      /\ value[m] = 1 <=> owner[m] = NoThread
      /\ value[m] = 1 <=> hold[m] = 0
      /\ value[m] = 1 => suspend_thread[m] = <<>> /\ original_priority[m] = NoPriority
      /\ NoRepeat(suspend_thread[m])
      /\ \A t \in Thread :
           /\ InList(held[t], m) \/ Granted(t, m) <=> owner[m] = t
           /\ InList(suspend_thread[m], t) <=>
                stat[t] = "suspend" /\ pc[t] = "wait" /\ on[t] = m

(* A thread that holds no mutex runs at its own priority, however its      *)
(* mutexes were nested, contended for, handed over or timed out on.        *)
PriorityRestored ==
    \A t \in Thread :
      held[t] = <<>> /\ ~(\E m \in Mutex : Granted(t, m))
        => current_priority[t] = Priority[t]

(* "Mutex objects use inherited priority to prevent priority reversion":   *)
(* with RT_IPC_FLAG_PRIO the owner of a mutex is at least as urgent as     *)
(* every thread waiting for it, also after a hand-over.  Two exceptions:   *)
(* a waiter that owns a mutex can be made more urgent while it waits, and  *)
(* an owner that releases an inner mutex loses what it inherited since.    *)
Inherited ==
    Flag = "PRIO" =>
      \A m \in Mutex : exists[m] =>
        \A i \in 1 .. Len(suspend_thread[m]) :
          LET w == suspend_thread[m][i] IN
          held[w] = <<>> /\ owner[m] \in Thread \ lowered
            => current_priority[owner[m]] <= current_priority[w]
=============================================================================
