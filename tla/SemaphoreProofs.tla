-------------------------- MODULE SemaphoreProofs --------------------------
(* Proofs about Semaphore, for every set of threads, every assignment of   *)
(* priorities, both flags and every bound of the value.                    *)
EXTENDS Semaphore, RtListProofs, FiniteSetTheorems, TLAPS

-----------------------------------------------------------------------------
(* The inductive invariant.  Three of the five invariants lean on what a   *)
(* deletion under way has made sure of: it is alone, no timer runs, so     *)
(* that nobody leaves the list between its test and its next turn.  That   *)
(* a timeout or a resumption grants what it should needs the error of      *)
(* every waiter to be RT_EOK until it is resumed.                          *)

DeleteInv ==
    \A t \in Thread : pc[t] \in {"test", "next"} =>
      /\ alive
      /\ \A u \in Thread : ~timer[u] /\ (pc[u] \in {"test", "next"} => u = t)
      /\ pc[t] = "next" => suspend_thread # <<>>

WaitInv ==
    /\ ~alive => suspend_thread = <<>>
    /\ \A t \in Thread : stat[t] = "suspend" => error[t] = "EOK"

SemaphoreInv ==
    /\ TypeOK
    /\ WaitersQueued
    /\ TokensConserved
    /\ NoIdleToken
    /\ ResumesThreads
    /\ DeleteInv
    /\ WaitInv

(* rt_ipc_list_suspend finds a place, and links t there.                   *)
LEMMA SuspendFacts ==
    ASSUME NEW list \in Seq(Thread), NEW t \in Thread,
           NoRepeat(list), ~InList(list, t)
    PROVE  LET r == rt_ipc_list_suspend(list, t) IN
           /\ r \in Seq(Thread) /\ r # <<>> /\ NoRepeat(r)
           /\ \A x : InList(r, x) <=> InList(list, x) \/ x = t
  <1>1. CASE Flag = "FIFO"
    BY <1>1, InsertLastFacts DEF rt_ipc_list_suspend, SuspendIn
  <1>2. CASE Flag # "FIFO"
    <2> DEFINE k == Place(Priority, list, t)
    <2>1. \E n \in 1 .. Len(list) + 1 :
             /\ \A i \in 1 .. n - 1 : ~(Priority[t] < Priority[list[i]])
             /\ n <= Len(list) => Priority[t] < Priority[list[n]]
      BY OrderedPlace
    <2>2. k \in 1 .. Len(list) + 1
      BY <2>1 DEF Place
    <2> HIDE DEF k
    <2>3. rt_ipc_list_suspend(list, t) = InsertBefore(list, k, t)
      BY <1>2 DEF rt_ipc_list_suspend, SuspendIn, k
    <2> QED BY <2>2, <2>3, InsertBeforeFacts
  <1> QED BY <1>1, <1>2

(* The resumed takers are finitely many.                                   *)
LEMMA GrantedFinite ==
    IsFiniteSet(Granted) /\ Cardinality(Granted) \in Nat
  <1>1. Granted \subseteq Thread
    BY DEF Granted
  <1> QED BY <1>1, IpcAssumption, FS_Subset, FS_CardinalityType

-----------------------------------------------------------------------------
(* Each action preserves the invariant.                                    *)

LEMMA InitInv == Init => SemaphoreInv
  <1> SUFFICES ASSUME Init PROVE SemaphoreInv
    OBVIOUS
  <1>1. TypeOK
    <2>1. IpcTypeOK
      BY Zenon DEF Init, IpcInit, IpcTypeOK, Errors
    <2>2. value \in 0 .. MaxValue /\ credit \in Nat /\ suspend_thread \in Seq(Thread)
      BY SemaphoreAssumption DEF Init
    <2>3. alive \in BOOLEAN /\ pc \in [Thread -> Pcs]
      BY DEF Init, Pcs
    <2> QED BY <2>1, <2>2, <2>3 DEF TypeOK
  <1>2. WaitersQueued
    BY DEF Init, IpcInit, WaitersQueued, NoRepeat, InList
  <1>3. TokensConserved
    <2>1. Granted = {}
      BY DEF Init, Granted
    <2> QED BY <2>1, <1>1, FS_EmptySet DEF Init, TokensConserved, TypeOK
  <1>4. NoIdleToken /\ ResumesThreads /\ WaitInv
    BY DEF Init, IpcInit, NoIdleToken, ResumesThreads, WaitInv
  <1>5. DeleteInv
    BY DEF Init, DeleteInv
  <1> QED BY <1>1, <1>2, <1>3, <1>4, <1>5 DEF SemaphoreInv

(* rt_sem_take with a token.                                               *)
LEMMA TakeToken ==
    ASSUME SemaphoreInv, value > 0,
           value' = value - 1, credit' = credit - 1,
           UNCHANGED <<ipcVars, suspend_thread, alive, pc>>
    PROVE  SemaphoreInv'
  <1> USE DEF SemaphoreInv
  <1>1. Granted' = Granted
    BY DEF Granted, ipcVars
  <1>2. TokensConserved'
    BY <1>1, GrantedFinite DEF TokensConserved, TypeOK
  <1>3. TypeOK'
    <2>1. credit - 1 \in Nat
      BY GrantedFinite, SemaphoreAssumption DEF TokensConserved, TypeOK
    <2> QED BY <2>1, SemaphoreAssumption DEF TypeOK, IpcTypeOK, ipcVars
  <1>4. WaitersQueued' /\ ResumesThreads' /\ DeleteInv' /\ WaitInv'
    BY DEF WaitersQueued, ResumesThreads, DeleteInv, WaitInv, ipcVars
  <1>5. NoIdleToken'
    BY SemaphoreAssumption DEF NoIdleToken, TypeOK
  <1> QED BY <1>2, <1>3, <1>4, <1>5

(* rt_sem_take without one: t goes to sleep.                               *)
LEMMA TakeSuspend ==
    ASSUME SemaphoreInv, NEW t \in Thread, NEW time \in Times,
           pc[t] = "run", Usable, value = 0,
           SuspendSelf(t, time),
           suspend_thread' = rt_ipc_list_suspend(suspend_thread, t),
           Goto(t, "wait"), UNCHANGED <<value, credit, alive>>
    PROVE  SemaphoreInv'
  <1> USE DEF SemaphoreInv
  <1>1. stat[t] # "suspend" /\ ~InList(suspend_thread, t)
    BY DEF WaitersQueued
  <1>2. /\ suspend_thread' \in Seq(Thread)
        /\ NoRepeat(suspend_thread')
        /\ \A x : InList(suspend_thread', x) <=> InList(suspend_thread, x) \/ x = t
    BY <1>1, SuspendFacts DEF TypeOK, WaitersQueued
  <1>3. TypeOK'
    BY <1>2 DEF TypeOK, IpcTypeOK, SuspendSelf, Goto, Errors, Pcs
  <1>4. WaitersQueued'
    BY <1>1, <1>2 DEF WaitersQueued, TypeOK, IpcTypeOK, SuspendSelf, Goto
  <1>5. TokensConserved'
    <2>1. Granted' = Granted
      BY DEF Granted, TypeOK, IpcTypeOK, SuspendSelf, Goto
    <2> QED BY <2>1 DEF TokensConserved
  <1>6. NoIdleToken' /\ ResumesThreads'
    BY DEF NoIdleToken, ResumesThreads, SuspendSelf
  <1>7. DeleteInv'
    BY DEF DeleteInv, Usable, Goto, TypeOK
  <1>8. WaitInv'
    BY DEF WaitInv, Usable, TypeOK, IpcTypeOK, SuspendSelf
  <1> QED BY <1>3, <1>4, <1>5, <1>6, <1>7, <1>8

LEMMA TakeInv ==
    ASSUME SemaphoreInv, NEW t \in Thread, NEW time \in Times, rt_sem_take(t, time)
    PROVE  SemaphoreInv'
  <1>1. CASE value > 0
    BY <1>1, TakeToken DEF rt_sem_take
  <1>2. CASE value = 0
    BY <1>2, TakeSuspend DEF rt_sem_take
  <1> QED BY <1>1, <1>2 DEF rt_sem_take

(* A taker that was granted a token uses it up by returning.               *)
LEMMA TakeReturnInv ==
    ASSUME SemaphoreInv, NEW t \in Thread, TakeReturn(t)
    PROVE  SemaphoreInv'
  <1> USE DEF SemaphoreInv, TakeReturn
  <1>1. Granted' = Granted \ {t}
    BY DEF Granted, Goto, ipcVars, TypeOK
  <1>2. credit' \in Nat /\ TokensConserved'
    <2>1. CASE error[t] = "EOK"
      <3>1. t \in Granted
        BY <2>1 DEF Granted
      <3>2. Cardinality(Granted') = Cardinality(Granted) - 1
        BY <1>1, <3>1, GrantedFinite, FS_RemoveElement
      <3>3. Cardinality(Granted') \in Nat
        BY <1>1, GrantedFinite, FS_RemoveElement, FS_CardinalityType
      <3> QED BY <2>1, <3>2, <3>3, GrantedFinite, SemaphoreAssumption
              DEF TokensConserved, TypeOK
    <2>2. CASE error[t] # "EOK"
      <3>1. Granted' = Granted
        BY <1>1, <2>2 DEF Granted
      <3> QED BY <2>2, <3>1 DEF TokensConserved, TypeOK
    <2> QED BY <2>1, <2>2
  <1>3. TypeOK'
    BY <1>2 DEF TypeOK, IpcTypeOK, Goto, Pcs, ipcVars
  <1>4. WaitersQueued'
    BY DEF WaitersQueued, TypeOK, Goto, ipcVars
  <1>5. NoIdleToken' /\ ResumesThreads' /\ WaitInv'
    BY DEF NoIdleToken, ResumesThreads, WaitInv, ipcVars
  <1>6. DeleteInv'
    BY DEF DeleteInv, Goto, TypeOK, ipcVars
  <1> QED BY <1>2, <1>3, <1>4, <1>5, <1>6

(* A timeout takes its thread off the list and grants it nothing.          *)
LEMMA TimeoutInv ==
    ASSUME SemaphoreInv, NEW t \in Thread, Timeout(t)
    PROVE  SemaphoreInv'
  <1> USE DEF SemaphoreInv, Timeout, rt_thread_timeout
  <1>1. stat[t] = "suspend" /\ \A u \in Thread : pc[u] \notin {"test", "next"}
    BY DEF WaitersQueued, DeleteInv
  <1>2. /\ suspend_thread' \in Seq(Thread)
        /\ NoRepeat(suspend_thread')
        /\ \A x : InList(suspend_thread', x) <=> InList(suspend_thread, x) /\ x # t
    BY ListRemoveFacts DEF TypeOK, WaitersQueued
  <1>3. suspend_thread = <<>> => suspend_thread' = <<>>
    BY DEF ListRemove, InList
  <1>4. TypeOK'
    BY <1>2 DEF TypeOK, IpcTypeOK, Errors
  <1>5. WaitersQueued'
    BY <1>2 DEF WaitersQueued, TypeOK, IpcTypeOK
  <1>6. TokensConserved'
    <2>1. Granted' = Granted
      BY <1>1 DEF Granted, TypeOK, IpcTypeOK
    <2> QED BY <2>1 DEF TokensConserved
  <1>7. NoIdleToken' /\ ResumesThreads'
    BY <1>3 DEF NoIdleToken, ResumesThreads
  <1>8. DeleteInv'
    BY <1>1 DEF DeleteInv
  <1>9. WaitInv'
    BY <1>3 DEF WaitInv, TypeOK, IpcTypeOK
  <1> QED BY <1>4, <1>5, <1>6, <1>7, <1>8, <1>9

(* A release grants its token to the first waiter, or puts it back.        *)
LEMMA ReleaseInv ==
    ASSUME SemaphoreInv, rt_sem_release
    PROVE  SemaphoreInv'
  <1> USE DEF SemaphoreInv, rt_sem_release
  <1>1. CASE suspend_thread = <<>>
    <2>1. Granted' = Granted
      BY <1>1 DEF Granted, ipcVars
    <2>2. TokensConserved'
      BY <1>1, <2>1, GrantedFinite DEF TokensConserved, TypeOK
    <2>3. TypeOK'
      BY <1>1, SemaphoreAssumption DEF TypeOK, IpcTypeOK, ipcVars
    <2>4. WaitersQueued' /\ ResumesThreads' /\ DeleteInv' /\ WaitInv'
      BY <1>1 DEF WaitersQueued, ResumesThreads, DeleteInv, WaitInv, ipcVars
    <2>5. NoIdleToken'
      BY <1>1 DEF NoIdleToken
    <2> QED BY <2>2, <2>3, <2>4, <2>5
  <1>2. CASE suspend_thread # <<>>
    <2> DEFINE h == Head(suspend_thread)
    <2>1. /\ h \in Thread /\ InList(suspend_thread, h)
          /\ suspend_thread' \in Seq(Thread)
          /\ NoRepeat(suspend_thread')
          /\ \A x : InList(suspend_thread', x) <=> InList(suspend_thread, x) /\ x # h
      <3>1. /\ suspend_thread \in Seq(Thread) /\ NoRepeat(suspend_thread)
            /\ suspend_thread' = Tail(suspend_thread)
        BY <1>2 DEF TypeOK, WaitersQueued
      <3> HIDE DEF SemaphoreInv, rt_sem_release
      <3> QED BY <1>2, <3>1, TailFacts
    <2>2. rt_thread_resume(h) /\ UNCHANGED <<value, alive, pc>> /\ credit' = credit + 1
      BY <1>2
    <2> HIDE DEF h
    <2> USE DEF rt_thread_resume
    <2>3. stat[h] = "suspend" /\ pc[h] = "wait" /\ error[h] = "EOK"
      BY <2>1 DEF WaitersQueued, WaitInv
    <2>4. TypeOK'
      BY <2>1, <2>2 DEF TypeOK, IpcTypeOK
    <2>5. WaitersQueued'
      BY <2>1, <2>2 DEF WaitersQueued, TypeOK, IpcTypeOK
    <2>6. TokensConserved'
      <3>1. Granted' = Granted \cup {h} /\ h \notin Granted
        BY <2>1, <2>2, <2>3 DEF Granted, TypeOK, IpcTypeOK
      <3>2. Cardinality(Granted') = Cardinality(Granted) + 1
        BY <3>1, GrantedFinite, FS_AddElement
      <3> QED BY <2>2, <3>2, GrantedFinite DEF TokensConserved, TypeOK
    <2>7. NoIdleToken' /\ ResumesThreads'
      BY <1>2, <2>2, SemaphoreAssumption DEF NoIdleToken, ResumesThreads, TypeOK, Usable
    <2>8. DeleteInv'
      BY <2>2 DEF DeleteInv, Usable
    <2>9. WaitInv'
      BY <2>1, <2>2 DEF WaitInv, TypeOK, IpcTypeOK, Usable
    <2> QED BY <2>4, <2>5, <2>6, <2>7, <2>8, <2>9
  <1> QED BY <1>1, <1>2

(* The empty list, and no more waiters.                                    *)
LEMMA NoWaiters ==
    /\ <<>> \in Seq(Thread) /\ NoRepeat(<<>>)
    /\ \A x : ~InList(<<>>, x)
  BY DEF NoRepeat, InList

(* A reset fails every waiter, and grants none of them a token.            *)
LEMMA ControlInv ==
    ASSUME SemaphoreInv, NEW v \in 0 .. MaxValue, rt_sem_control(v)
    PROVE  SemaphoreInv'
  <1> USE DEF SemaphoreInv, rt_sem_control, ResumeAll
  <1> DEFINE S == Linked(suspend_thread)
  <1>1. \A t \in Thread : t \in S <=> stat[t] = "suspend"
    BY DEF Linked, WaitersQueued
  <1> HIDE DEF S
  <1>2. /\ stat' = [t \in Thread |-> IF t \in S THEN "ready" ELSE stat[t]]
        /\ error' = [t \in Thread |-> IF t \in S THEN "ERROR" ELSE error[t]]
        /\ timer' = [t \in Thread |-> timer[t] /\ t \notin S]
    BY DEF S
  <1>3. Granted' = Granted
    BY <1>1, <1>2 DEF Granted, TypeOK
  <1>4. credit' \in Nat /\ TokensConserved'
    BY <1>3, GrantedFinite, SemaphoreAssumption DEF TokensConserved
  <1>5. TypeOK'
    <2>1. stat' \in [Thread -> {"ready", "suspend"}] /\ error' \in [Thread -> Errors]
      BY <1>2 DEF TypeOK, IpcTypeOK, Errors
    <2>2. timer' \in [Thread -> BOOLEAN]
      BY <1>2, Zenon
    <2> QED BY <1>4, <2>1, <2>2, NoWaiters DEF TypeOK, IpcTypeOK
  <1>6. WaitersQueued'
    BY <1>1, <1>2, NoWaiters DEF WaitersQueued, TypeOK, IpcTypeOK
  <1>7. NoIdleToken' /\ ResumesThreads'
    BY DEF NoIdleToken, ResumesThreads
  <1>8. DeleteInv'
    BY DEF DeleteInv, Usable
  <1>9. WaitInv'
    BY <1>1, <1>2 DEF WaitInv, TypeOK, IpcTypeOK
  <1> QED BY <1>4, <1>5, <1>6, <1>7, <1>8, <1>9

(* A new object takes the place of one that nobody waits on.               *)
LEMMA SemInitInv ==
    ASSUME SemaphoreInv, NEW v \in 0 .. MaxValue, rt_sem_init(v)
    PROVE  SemaphoreInv'
  <1> USE DEF SemaphoreInv, rt_sem_init
  <1>1. suspend_thread' = suspend_thread
    BY DEF WaitInv
  <1>2. Granted' = Granted
    BY DEF Granted, ipcVars
  <1>3. credit' \in Nat /\ TokensConserved'
    BY <1>2, GrantedFinite, SemaphoreAssumption DEF TokensConserved
  <1>4. TypeOK'
    BY <1>1, <1>3 DEF TypeOK, IpcTypeOK, ipcVars
  <1>5. WaitersQueued' /\ NoIdleToken' /\ ResumesThreads' /\ WaitInv'
    BY <1>1 DEF WaitersQueued, NoIdleToken, ResumesThreads, WaitInv, ipcVars
  <1>6. DeleteInv'
    BY DEF DeleteInv
  <1> QED BY <1>3, <1>4, <1>5, <1>6

LEMMA DeleteBeginInv ==
    ASSUME SemaphoreInv, NEW t \in Thread, rt_sem_delete(t)
    PROVE  SemaphoreInv'
  <1> USE DEF SemaphoreInv, rt_sem_delete, DeleteBegin
  <1>1. Granted' = Granted
    BY DEF Granted, ipcVars, Goto, TypeOK
  <1>2. TokensConserved'
    BY <1>1 DEF TokensConserved
  <1>3. TypeOK'
    BY DEF TypeOK, IpcTypeOK, ipcVars, Goto, Pcs
  <1>4. WaitersQueued' /\ NoIdleToken' /\ ResumesThreads' /\ WaitInv'
    BY DEF WaitersQueued, NoIdleToken, ResumesThreads, WaitInv, ipcVars, Goto, TypeOK
  <1>5. DeleteInv'
    BY DEF DeleteInv, Usable, ipcVars, Goto, TypeOK
  <1> QED BY <1>2, <1>3, <1>4, <1>5

LEMMA ResumeAllTestInv ==
    ASSUME SemaphoreInv, NEW t \in Thread, ResumeAllTest(t)
    PROVE  SemaphoreInv'
  <1> USE DEF SemaphoreInv, ResumeAllTest
  <1>1. Granted' = Granted
    BY DEF Granted, ipcVars, Goto, TypeOK
  <1>2. TokensConserved'
    BY <1>1 DEF TokensConserved
  <1>3. TypeOK'
    BY DEF TypeOK, IpcTypeOK, ipcVars, Goto, Pcs
  <1>4. WaitersQueued' /\ NoIdleToken' /\ ResumesThreads' /\ WaitInv'
    BY DEF WaitersQueued, NoIdleToken, ResumesThreads, WaitInv, ipcVars, Goto, TypeOK
  <1>5. DeleteInv'
    BY DEF DeleteInv, ipcVars, Goto, TypeOK
  <1> QED BY <1>2, <1>3, <1>4, <1>5

(* The loop takes the first waiter it has seen: nobody left in between.    *)
LEMMA ResumeAllNextInv ==
    ASSUME SemaphoreInv, NEW t \in Thread, ResumeAllNext(t)
    PROVE  SemaphoreInv'
  <1> USE DEF SemaphoreInv, ResumeAllNext
  <1> DEFINE h == Head(suspend_thread)
  <1>0. suspend_thread # <<>> /\ suspend_thread' = Tail(suspend_thread)
    BY DEF DeleteInv
  <1>1. /\ h \in Thread /\ InList(suspend_thread, h)
        /\ suspend_thread' \in Seq(Thread)
        /\ NoRepeat(suspend_thread')
        /\ \A x : InList(suspend_thread', x) <=> InList(suspend_thread, x) /\ x # h
    BY <1>0, TailFacts DEF TypeOK, WaitersQueued
  <1>2. /\ stat' = [stat EXCEPT ![h] = "ready"]
        /\ error' = [error EXCEPT ![h] = "ERROR"]
        /\ timer' = [timer EXCEPT ![h] = FALSE]
        /\ UNCHANGED wild
    BY <1>0 DEF ResumeNext
  <1> HIDE DEF h
  <1>3. stat[h] = "suspend" /\ pc[h] = "wait"
    BY <1>1 DEF WaitersQueued
  <1>4. TypeOK'
    BY <1>1, <1>2 DEF TypeOK, IpcTypeOK, Goto, Pcs, Errors
  <1>5. WaitersQueued'
    BY <1>1, <1>2 DEF WaitersQueued, TypeOK, IpcTypeOK, Goto
  <1>6. TokensConserved'
    <2>1. Granted' = Granted
      BY <1>1, <1>2, <1>3 DEF Granted, TypeOK, IpcTypeOK, Goto
    <2> QED BY <2>1 DEF TokensConserved
  <1>7. NoIdleToken' /\ ResumesThreads'
    BY <1>0, <1>2, SemaphoreAssumption DEF NoIdleToken, ResumesThreads, TypeOK, DeleteInv
  <1>8. DeleteInv'
    BY <1>1, <1>2 DEF DeleteInv, Goto, TypeOK, IpcTypeOK
  <1>9. WaitInv'
    BY <1>1, <1>2 DEF WaitInv, TypeOK, IpcTypeOK, DeleteInv
  <1> QED BY <1>4, <1>5, <1>6, <1>7, <1>8, <1>9

LEMMA NextInv == SemaphoreInv /\ [Next]_vars => SemaphoreInv'
  <1> SUFFICES ASSUME SemaphoreInv, [Next]_vars PROVE SemaphoreInv'
    OBVIOUS
  <1>1. ASSUME NEW t \in Thread, ThreadStep(t) PROVE SemaphoreInv'
    BY <1>1, TakeInv, TakeReturnInv, TimeoutInv, DeleteBeginInv, ResumeAllTestInv,
       ResumeAllNextInv DEF ThreadStep
  <1>2. CASE rt_sem_release
    BY <1>2, ReleaseInv
  <1>3. ASSUME NEW v \in 0 .. MaxValue, rt_sem_control(v) \/ rt_sem_init(v)
        PROVE  SemaphoreInv'
    BY <1>3, ControlInv, SemInitInv
  <1>4. CASE UNCHANGED vars
    <2>1. Granted' = Granted
      BY <1>4 DEF Granted, vars, ipcVars
    <2> QED BY <1>4, <2>1 DEF SemaphoreInv, vars, ipcVars, TypeOK, IpcTypeOK,
              WaitersQueued, TokensConserved, NoIdleToken, ResumesThreads, DeleteInv, WaitInv
  <1> QED BY <1>1, <1>2, <1>3, <1>4 DEF Next

(* SemaphoreInv holds in every reachable state of the semaphore. *)
THEOREM Inductive == Spec => []SemaphoreInv
  BY InitInv, NextInv, PTL DEF Spec

-----------------------------------------------------------------------------
(* Every field of the semaphore and of the threads that use it keeps a     *)
(* value of its type, and the value of the semaphore stays in its bound.   *)
THEOREM TypeCorrect == Spec => []TypeOK
  BY Inductive, PTL DEF SemaphoreInv

(* No token is lost or made up, whatever release, timeout, reset and       *)
(* delete race for a waiter: rt_sem_release either grants its token or     *)
(* puts it back, and rt_thread_timeout and a reset grant nothing.          *)
THEOREM Tokens == Spec => []TokensConserved
  BY Inductive, PTL DEF SemaphoreInv

(* rt_sem_take and rt_sem_release leave no token next to a waiter.         *)
THEOREM NoTokenIdle == Spec => []NoIdleToken
  BY Inductive, PTL DEF SemaphoreInv

(* The list of the semaphore links exactly the threads suspended in        *)
(* rt_sem_take, each once.                                                 *)
THEOREM Queued == Spec => []WaitersQueued
  BY Inductive, PTL DEF SemaphoreInv

(* rt_ipc_list_resume_all, which tests its list with interrupts enabled,   *)
(* never resumes a list head, if no waiter can time out meanwhile.         *)
THEOREM LoopResumesThreads == Spec => []ResumesThreads
  BY Inductive, PTL DEF SemaphoreInv
=============================================================================
