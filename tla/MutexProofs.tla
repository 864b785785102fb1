---------------------------- MODULE MutexProofs ----------------------------
(* Proofs about Mutex, for every set of threads and of mutexes, every      *)
(* assignment of priorities, both flags and every bound of hold.           *)
EXTENDS Mutex, RtListProofs, FiniteSetTheorems, TLAPS

-----------------------------------------------------------------------------
(* The inductive invariant.                                                *)

(* What a thread in a call knows of it: a thread waits only for a mutex it *)
(* does not hold, and returns RT_EOK if rt_mutex_release resumes it.       *)
CallInv ==
    \A t \in Thread :
      /\ pc[t] = "run" <=> on[t] = NoMutex
      /\ stat[t] = "suspend" => pc[t] = "wait" /\ error[t] = "EOK"
      /\ timer[t] => stat[t] = "suspend"
      /\ pc[t] = "wait" => ~InList(held[t], on[t])
      /\ NoRepeat(held[t])

(* Nobody waits for, holds or was handed over a mutex that is gone.        *)
GoneInv ==
    \A m \in Mutex : ~exists[m] =>
      /\ suspend_thread[m] = <<>>
      /\ \A t \in Thread :
           /\ ~InList(held[t], m)
           /\ on[t] = m => pc[t] = "wait" /\ stat[t] # "suspend" /\ error[t] # "EOK"

(* What a deletion under way has made sure of: no other call changes the   *)
(* mutex or its list, and the deleter has inherited nothing through it.    *)
DeleteInv ==
    \A t \in Thread : pc[t] \in {"test", "next"} =>
      /\ owner[on[t]] \in {t, NoThread}
      /\ owner[on[t]] = t => held[t][Len(held[t])] = on[t]
      /\ held[t] = <<on[t]>> => current_priority[t] = Priority[t]
      /\ pc[t] = "next" => suspend_thread[on[t]] # <<>>
      /\ \A u \in Thread \ {t} : on[u] = on[t] =>
           /\ pc[u] = "wait" /\ ~timer[u]
           /\ stat[u] = "suspend" \/ error[u] # "EOK"

(* original_priority of the outermost mutex a thread holds is the          *)
(* thread's own priority, so that the last release restores that.          *)
OriginInv ==
    /\ \A t \in Thread :
         /\ held[t] # <<>> => original_priority[held[t][1]] = Priority[t]
         /\ \A m \in Mutex :
              held[t] = <<>> /\ Granted(t, m) => original_priority[m] = Priority[t]
    /\ \A m \in Mutex :
         exists[m] /\ owner[m] # NoThread => original_priority[m] < NoPriority

(* Inherited, with the waiters as members of the list.                     *)
InheritInv ==
    Flag = "PRIO" =>
      \A m \in Mutex : exists[m] =>
        \A w \in Thread :
          /\ InList(suspend_thread[m], w) /\ held[w] = <<>>
          /\ owner[m] \in Thread \ lowered
          => current_priority[owner[m]] <= current_priority[w]

(* A waiter that holds nothing has no less urgent one before it.           *)
OrderInv ==
    Flag = "PRIO" =>
      \A m \in Mutex : \A u, w \in Thread :
        Before(suspend_thread[m], u, w) /\ held[w] = <<>>
          => current_priority[u] <= current_priority[w]

MutexInv ==
    /\ TypeOK
    /\ Ownership
    /\ PriorityRestored
    /\ InheritInv
    /\ CallInv
    /\ GoneInv
    /\ DeleteInv
    /\ OriginInv
    /\ OrderInv

-----------------------------------------------------------------------------
(* What the history of a thread looks like after it gave up its last       *)
(* mutex.                                                                  *)
LEMMA LastRemoved ==
    ASSUME NEW T, NEW s \in Seq(T), NoRepeat(s), s # <<>>, NEW e, s[Len(s)] = e
    PROVE  /\ s = <<e>> => ListRemove(s, e) = <<>>
           /\ s # <<e>> => ListRemove(s, e) # <<>> /\ ListRemove(s, e)[1] = s[1]
  <1>1. Len(s) \in Nat /\ Len(s) >= 1 /\ InList(s, e)
    BY DEF InList
  <1>2. ListRemove(s, e) \in Seq(T) /\ Len(ListRemove(s, e)) = Len(s) - 1
    BY <1>1, ListRemoveFacts, ListRemoveLength
  <1>3. ASSUME s = <<e>> PROVE ListRemove(s, e) = <<>>
    <2>1. Len(s) = 1
      BY <1>3
    <2>2. Len(ListRemove(s, e)) = 0
      BY <1>2, <2>1
    <2> QED BY <1>2, <2>2
  <1>4. ASSUME s # <<e>> PROVE ListRemove(s, e) # <<>> /\ ListRemove(s, e)[1] = s[1]
    <2>1. Len(s) # 1
      <3> SUFFICES ASSUME Len(s) = 1 PROVE FALSE
        OBVIOUS
      <3>1. s = <<s[1]>>
        OBVIOUS
      <3> QED BY <3>1, <1>4
    <2>2. s[1] # e
      <3>1. 1 \in 1 .. Len(s) /\ Len(s) \in 1 .. Len(s) /\ 1 # Len(s)
        BY <1>1, <2>1
      <3> QED BY <3>1 DEF NoRepeat
    <2> QED BY <2>2, ListRemoveFacts
  <1> QED BY <1>3, <1>4

(* And after it got one more.                                              *)
LEMMA AppendFacts ==
    ASSUME NEW T, NEW s \in Seq(T), NoRepeat(s), NEW e \in T, ~InList(s, e)
    PROVE  /\ Append(s, e) \in Seq(T) /\ NoRepeat(Append(s, e)) /\ Append(s, e) # <<>>
           /\ \A x : InList(Append(s, e), x) <=> InList(s, x) \/ x = e
           /\ s = <<>> => Append(s, e)[1] = e
           /\ s # <<>> => Append(s, e)[1] = s[1]
  <1> DEFINE r == Append(s, e)
  <1>1. r = InsertLast(s, e)
    BY DEF InsertLast
  <1>2. s = <<>> => r[1] = e
    OBVIOUS
  <1> HIDE DEF r
  <1>3. /\ r \in Seq(T) /\ NoRepeat(r) /\ r # <<>>
        /\ \A x : InList(r, x) <=> InList(s, x) \/ x = e
        /\ s # <<>> => r[1] = s[1]
    BY <1>1, InsertLastFacts
  <1> QED BY <1>2, <1>3, Zenon DEF r

(* InheritInv is Inherited.                                                *)
LEMMA InheritedLinked == TypeOK /\ InheritInv => Inherited
  <1> SUFFICES ASSUME TypeOK, InheritInv PROVE Inherited
    OBVIOUS
  <1>1. \A m \in Mutex : \A i \in 1 .. Len(suspend_thread[m]) :
          suspend_thread[m][i] \in Thread /\ InList(suspend_thread[m], suspend_thread[m][i])
    BY DEF TypeOK, InList
  <1> QED BY <1>1 DEF Inherited, InheritInv

LEMMA NoNodes ==
    /\ <<>> \in Seq(Thread) /\ <<>> \in Seq(Mutex) /\ NoRepeat(<<>>)
    /\ \A x : ~InList(<<>>, x)
    /\ \A u, w : ~Before(<<>>, u, w)
  BY DEF NoRepeat, InList, Before

LEMMA InitInv == Init => MutexInv
  <1> SUFFICES ASSUME Init PROVE MutexInv
    OBVIOUS
  <1> USE DEF Init, IpcInit
  <1>1. TypeOK
    <2>1. IpcTypeOK /\ ~wild
      BY Zenon DEF IpcTypeOK, Errors
    <2>2. current_priority \in [Thread -> 0 .. NoPriority - 1]
      <3>1. \A t \in Thread : Priority[t] \in 0 .. NoPriority - 1
        BY IpcAssumption, MutexAssumption
      <3> QED BY <3>1, IpcAssumption
    <2>3. value \in [Mutex -> 0 .. 1] /\ hold \in [Mutex -> 0 .. MaxHold]
          /\ original_priority \in [Mutex -> 0 .. NoPriority]
      BY MutexAssumption
    <2>4. owner \in [Mutex -> Thread \cup {NoThread}]
          /\ exists \in [Mutex -> BOOLEAN]
      BY Zenon
    <2>5. pc \in [Thread -> {"run", "wait", "test", "next"}]
          /\ on \in [Thread -> Mutex \cup {NoMutex}]
          /\ lowered \subseteq Thread
      OBVIOUS
    <2>6. suspend_thread \in [Mutex -> Seq(Thread)] /\ held \in [Thread -> Seq(Mutex)]
      BY NoNodes
    <2> QED BY <2>1, <2>2, <2>3, <2>4, <2>5, <2>6 DEF TypeOK
  <1>2. Ownership
    BY NoNodes, MutexAssumption DEF Ownership, Granted
  <1>3. PriorityRestored
    BY DEF PriorityRestored
  <1>4. InheritInv
    BY NoNodes DEF InheritInv
  <1>5. CallInv
    BY NoNodes DEF CallInv
  <1>6. GoneInv /\ DeleteInv
    BY DEF GoneInv, DeleteInv
  <1>7. OriginInv
    BY DEF OriginInv, Granted
  <1>8. OrderInv
    BY NoNodes DEF OrderInv
  <1> QED BY <1>1, <1>2, <1>3, <1>4, <1>5, <1>6, <1>7, <1>8 DEF MutexInv

-----------------------------------------------------------------------------
(* Each action preserves the invariant.  First the calls that change only  *)
(* the error of their thread or the hold of a mutex: a take that fails at  *)
(* once, the take of a mutex the thread owns, a release by a thread that   *)
(* is not the owner, and a release that is not the last.                   *)
LEMMA HoldOnlyInv ==
    ASSUME MutexInv, NEW t \in Thread, NEW e \in Errors, pc[t] = "run",
           error' = [error EXCEPT ![t] = e],
           hold' \in [Mutex -> 0 .. MaxHold],
           \A m \in Mutex : hold'[m] = 0 <=> hold[m] = 0,
           UNCHANGED <<stat, timer, wild, current_priority, value, owner,
                       original_priority, suspend_thread, exists, local, history>>
    PROVE  MutexInv'
  <1> USE DEF MutexInv, local, history
  <1>1. TypeOK'
    BY DEF TypeOK, IpcTypeOK
  <1>2. \A u \in Thread, m \in Mutex : Granted(u, m)' <=> Granted(u, m)
    BY DEF Granted, TypeOK, IpcTypeOK
  <1>3. Ownership'
    BY <1>2 DEF Ownership
  <1>4. PriorityRestored' /\ OriginInv'
    BY <1>2 DEF PriorityRestored, OriginInv
  <1>5. InheritInv'
    BY DEF InheritInv
  <1>6. CallInv' /\ OrderInv'
    BY DEF CallInv, OrderInv, TypeOK, IpcTypeOK
  <1>7. GoneInv'
    BY DEF GoneInv, TypeOK, IpcTypeOK, CallInv
  <1>8. DeleteInv'
    BY DEF DeleteInv, TypeOK, IpcTypeOK, CallInv
  <1> QED BY <1>1, <1>3, <1>4, <1>5, <1>6, <1>7, <1>8

(* Somebody uses m: no deletion of it is under way.                        *)
LEMMA UsableFacts ==
    ASSUME MutexInv, NEW m \in Mutex, Usable(m)
    PROVE  exists[m] /\ \A u \in Thread : pc[u] \in {"test", "next"} => on[u] # m
  BY DEF Usable

(* The take of a free mutex.                                               *)
LEMMA TakeFreeInv ==
    ASSUME MutexInv, NEW t \in Thread, NEW m \in Mutex, pc[t] = "run", Usable(m),
           TakeFree(t, m), error' = [error EXCEPT ![t] = "EOK"],
           UNCHANGED <<stat, timer, wild, current_priority, suspend_thread, local,
                       exists, lowered>>
    PROVE  MutexInv'
  <1> USE DEF MutexInv, local, TakeFree
  <1>0. /\ exists[m] /\ value[m] = 1 /\ hold[m] = 0 /\ owner[m] = NoThread
        /\ suspend_thread[m] = <<>>
        /\ \A u \in Thread : ~InList(held[u], m) /\ ~Granted(u, m)
        /\ \A u \in Thread : pc[u] \in {"test", "next"} => on[u] # m
    <2>1. exists[m] /\ value[m] = 1
      BY DEF Usable, TypeOK
    <2>2. /\ hold[m] = 0 /\ owner[m] = NoThread /\ suspend_thread[m] = <<>>
      BY <2>1 DEF Ownership
    <2>3. \A u \in Thread : ~InList(held[u], m) /\ ~Granted(u, m)
      BY <2>1, <2>2, MutexAssumption DEF Ownership
    <2> QED BY <2>1, <2>2, <2>3, UsableFacts
  <1> DEFINE h == Append(held[t], m)
  <1>1. /\ h \in Seq(Mutex) /\ NoRepeat(h) /\ h # <<>>
        /\ \A x : InList(h, x) <=> InList(held[t], x) \/ x = m
        /\ held[t] = <<>> => h[1] = m
        /\ held[t] # <<>> => h[1] = held[t][1]
    <2>1. held[t] \in Seq(Mutex) /\ NoRepeat(held[t]) /\ ~InList(held[t], m)
      BY <1>0 DEF TypeOK, CallInv
    <2> HIDE DEF MutexInv, TakeFree
    <2> QED BY <2>1, AppendFacts
  <1> HIDE DEF h
  <1>2. /\ held' = [held EXCEPT ![t] = h]
        /\ value' = [value EXCEPT ![m] = 0] /\ hold' = [hold EXCEPT ![m] = 1]
        /\ owner' = [owner EXCEPT ![m] = t]
        /\ original_priority' = [original_priority EXCEPT ![m] = current_priority[t]]
    BY <1>0 DEF h, TypeOK
  <1> HIDE DEF TakeFree
  <1>3. TypeOK'
    <2>1. hold' \in [Mutex -> 0 .. MaxHold] /\ value' \in [Mutex -> 0 .. 1]
      BY <1>2, MutexAssumption DEF TypeOK
    <2>2. original_priority' \in [Mutex -> 0 .. NoPriority]
      BY <1>2, MutexAssumption DEF TypeOK
    <2>3. held' \in [Thread -> Seq(Mutex)]
      BY <1>1, <1>2 DEF TypeOK
    <2> QED BY <1>2, <2>1, <2>2, <2>3 DEF TypeOK, IpcTypeOK, Errors
  <1>4. \A u \in Thread, n \in Mutex : Granted(u, n)' <=> Granted(u, n)
    BY DEF Granted, TypeOK, IpcTypeOK
  <1>5. \A u \in Thread, n \in Mutex :
          InList(held'[u], n) <=> InList(held[u], n) \/ (u = t /\ n = m)
    BY <1>1, <1>2 DEF TypeOK
  <1>6. Ownership'
    BY <1>0, <1>2, <1>4, <1>5, MutexAssumption DEF Ownership, TypeOK, IpcTypeOK
  <1>7. PriorityRestored'
    BY <1>1, <1>2, <1>4 DEF PriorityRestored, TypeOK
  <1>8. InheritInv'
    <2> SUFFICES ASSUME Flag = "PRIO", NEW n \in Mutex, exists'[n], NEW w \in Thread,
                        InList(suspend_thread'[n], w), held'[w] = <<>>,
                        owner'[n] \in Thread \ lowered'
                 PROVE  current_priority'[owner'[n]] <= current_priority'[w]
      BY DEF InheritInv
    <2>1. n # m
      BY <1>0, NoNodes
    <2>2. held[w] = <<>> /\ owner'[n] = owner[n]
      BY <1>1, <1>2, <2>1 DEF TypeOK
    <2> QED BY <2>2 DEF InheritInv
  <1>9. CallInv'
    BY <1>1, <1>2 DEF CallInv, TypeOK, IpcTypeOK
  <1>10. GoneInv'
    BY <1>0, <1>2, <1>5 DEF GoneInv, TypeOK, IpcTypeOK, CallInv
  <1>11. DeleteInv'
    <2>1. \A u \in Thread : pc[u] \in {"test", "next"} =>
            on[u] \in Mutex /\ on[u] # m /\ u # t
      BY <1>0 DEF TypeOK, CallInv
    <2>2. \A u \in Thread : pc[u] \in {"test", "next"} =>
            held'[u] = held[u] /\ owner'[on[u]] = owner[on[u]]
      BY <1>2, <2>1 DEF TypeOK
    <2>3. \A u \in Thread : on[u] \in Mutex => error'[u] = error[u]
      BY MutexAssumption DEF CallInv, TypeOK, IpcTypeOK
    <2> QED BY <2>1, <2>2, <2>3 DEF DeleteInv
  <1>12. OriginInv'
    <2>1. ASSUME NEW u \in Thread, held'[u] # <<>>
          PROVE  original_priority'[held'[u][1]] = Priority[u]
      <3>1. CASE u = t /\ held[t] = <<>>
        <4>1. current_priority[t] = Priority[t]
          BY <3>1 DEF PriorityRestored, Granted
        <4> QED BY <1>1, <1>2, <3>1, <4>1 DEF TypeOK
      <3>2. CASE held[u] # <<>>
        <4>1. held'[u][1] = held[u][1]
          BY <1>1, <1>2, <3>2 DEF TypeOK
        <4>2. held[u][1] \in Mutex /\ InList(held[u], held[u][1])
          BY <3>2, EmptyList DEF TypeOK
        <4>3. held[u][1] # m
          BY <1>0, <4>2
        <4> QED BY <1>2, <3>2, <4>1, <4>2, <4>3 DEF OriginInv, TypeOK
      <3> QED BY <1>2, <2>1, <3>1, <3>2 DEF TypeOK
    <2>2. ASSUME NEW u \in Thread, NEW n \in Mutex, held'[u] = <<>>, Granted(u, n)'
          PROVE  original_priority'[n] = Priority[u]
      BY <1>0, <1>1, <1>2, <1>4, <2>2 DEF OriginInv, TypeOK
    <2>3. \A n \in Mutex :
            exists'[n] /\ owner'[n] # NoThread => original_priority'[n] < NoPriority
      BY <1>2, MutexAssumption DEF OriginInv, TypeOK
    <2> QED BY <2>1, <2>2, <2>3 DEF OriginInv
  <1>13. OrderInv'
    BY <1>1, <1>2 DEF OrderInv, TypeOK
  <1> QED BY <1>3, <1>6, <1>7, <1>8, <1>9, <1>10, <1>11, <1>12, <1>13

(* rt_ipc_list_suspend with the current priorities: t is linked, before    *)
(* the less urgent threads if the flag is RT_IPC_FLAG_PRIO.                *)
LEMMA SuspendFacts ==
    ASSUME NEW prio \in [Thread -> Int], NEW list \in Seq(Thread), NEW t \in Thread,
           NoRepeat(list), ~InList(list, t)
    PROVE  /\ SuspendIn(prio, list, t) \in Seq(Thread)
           /\ NoRepeat(SuspendIn(prio, list, t))
           /\ SuspendIn(prio, list, t) # <<>>
           /\ \A x : InList(SuspendIn(prio, list, t), x) <=> InList(list, x) \/ x = t
           /\ Flag = "PRIO" => \A u, w \in Thread :
                Before(SuspendIn(prio, list, t), u, w) =>
                  \/ Before(list, u, w)
                  \/ u = t /\ \E v \in Thread :
                       prio[t] < prio[v] /\ (v = w \/ Before(list, v, w))
                  \/ w = t /\ prio[u] <= prio[t]
  <1>1. CASE Flag = "FIFO"
    BY <1>1, InsertLastFacts DEF SuspendIn
  <1>2. CASE Flag = "PRIO"
    <2> DEFINE k == Place(prio, list, t)
    <2>1. \E n \in 1 .. Len(list) + 1 :
             /\ \A i \in 1 .. n - 1 : ~(prio[t] < prio[list[i]])
             /\ n <= Len(list) => prio[t] < prio[list[n]]
      BY OrderedPlace
    <2>2. /\ k \in 1 .. Len(list) + 1
          /\ \A i \in 1 .. k - 1 : ~(prio[t] < prio[list[i]])
          /\ k <= Len(list) => prio[t] < prio[list[k]]
      BY <2>1 DEF Place
    <2> HIDE DEF k
    <2>3. SuspendIn(prio, list, t) = InsertBefore(list, k, t)
      BY <1>2 DEF SuspendIn, k
    <2>4. \A u, w \in Thread : Before(InsertBefore(list, k, t), u, w) =>
             \/ Before(list, u, w)
             \/ u = t /\ \E v \in Thread :
                  prio[t] < prio[v] /\ (v = w \/ Before(list, v, w))
             \/ w = t /\ prio[u] <= prio[t]
      BY <2>2, PlacedOrder
    <2> DEFINE r == InsertBefore(list, k, t)
    <2>5. /\ r \in Seq(Thread) /\ NoRepeat(r) /\ r # <<>>
          /\ \A x : InList(r, x) <=> InList(list, x) \/ x = t
      BY <2>2, InsertBeforeFacts
    <2> HIDE DEF r
    <2>6. SuspendIn(prio, list, t) = r
      BY <2>3 DEF r
    <2> QED BY <2>4, <2>5, <2>6 DEF r
  <1> QED BY <1>1, <1>2, IpcAssumption

(* A take that has to wait raises the owner to the priority of the waiter. *)
LEMMA TakeWaitInv ==
    ASSUME MutexInv, NEW t \in Thread, NEW m \in Mutex, NEW time \in Times,
           pc[t] = "run", Usable(m), TakeWait(t, m, time),
           UNCHANGED <<mutexVars, held, exists, lowered>>
    PROVE  MutexInv'
  <1> USE DEF MutexInv, mutexVars
  <1> DEFINE o == owner[m]
             p == IF current_priority[t] < current_priority[o]
                  THEN current_priority[t] ELSE current_priority[o]
             list == SuspendIn(current_priority, suspend_thread[m], t)
  <1>0. /\ exists[m] /\ o \in Thread /\ o # t
        /\ InList(held[o], m) \/ Granted(o, m)
        /\ ~InList(held[t], m) /\ on[t] = NoMutex
        /\ \A u \in Thread : pc[u] \in {"test", "next"} => on[u] # m
    <2>1. exists[m] /\ value[m] = 0 /\ o # t
      BY DEF Usable, TakeWait
    <2>2. o \in Thread
      BY <2>1 DEF Ownership, TypeOK
    <2>3. /\ InList(held[o], m) \/ Granted(o, m)
          /\ ~InList(held[t], m)
      BY <2>1, <2>2 DEF Ownership
    <2> QED BY <2>1, <2>2, <2>3, UsableFacts DEF CallInv
  <1>1. ~InList(suspend_thread[m], t) /\ stat[t] = "ready"
    BY <1>0 DEF Ownership, CallInv, TypeOK, IpcTypeOK
  <1>2. /\ list \in Seq(Thread) /\ NoRepeat(list) /\ list # <<>>
        /\ \A x : InList(list, x) <=> InList(suspend_thread[m], x) \/ x = t
        /\ Flag = "PRIO" => \A u, w \in Thread : Before(list, u, w) =>
             \/ Before(suspend_thread[m], u, w)
             \/ u = t /\ \E v \in Thread :
                  /\ current_priority[t] < current_priority[v]
                  /\ v = w \/ Before(suspend_thread[m], v, w)
             \/ w = t /\ current_priority[u] <= current_priority[t]
    <2>1. current_priority \in [Thread -> Int] /\ suspend_thread[m] \in Seq(Thread)
      BY MutexAssumption DEF TypeOK
    <2>2. NoRepeat(suspend_thread[m])
      BY <1>0 DEF Ownership
    <2> HIDE DEF MutexInv
    <2> QED BY <1>1, <2>1, <2>2, SuspendFacts
  <1>3. /\ p \in 0 .. NoPriority - 1
        /\ p <= current_priority[o] /\ p <= current_priority[t]
    BY <1>0, MutexAssumption DEF TypeOK
  <1> HIDE DEF list
  <1>4. /\ suspend_thread' = [suspend_thread EXCEPT ![m] = list]
        /\ current_priority' = [current_priority EXCEPT ![o] = p]
        /\ stat' = [stat EXCEPT ![t] = "suspend"]
        /\ error' = [error EXCEPT ![t] = "EOK"]
        /\ timer' = [timer EXCEPT ![t] = (time = "ticks")]
        /\ pc' = [pc EXCEPT ![t] = "wait"]
        /\ on' = [on EXCEPT ![t] = m]
        /\ UNCHANGED wild
    <2>1. current_priority' = [current_priority EXCEPT ![o] = p]
      BY <1>0 DEF TakeWait, Inherit, TypeOK
    <2> QED BY <2>1 DEF TakeWait, SuspendSelf, list
  <1> HIDE DEF p, o
  <1>5. TypeOK'
    <2>1. suspend_thread' \in [Mutex -> Seq(Thread)]
      BY <1>2, <1>4 DEF TypeOK
    <2>2. current_priority' \in [Thread -> 0 .. NoPriority - 1]
      BY <1>3, <1>4 DEF TypeOK
    <2>3. timer' \in [Thread -> BOOLEAN]
      BY <1>4 DEF TypeOK, IpcTypeOK
    <2> QED BY <1>4, <2>1, <2>2, <2>3 DEF TypeOK, IpcTypeOK, Errors
  <1>6. \A u \in Thread, n \in Mutex : Granted(u, n)' <=> Granted(u, n)
    BY <1>4 DEF Granted, TypeOK, IpcTypeOK
  <1>7. \A n \in Mutex : \A u \in Thread :
          InList(suspend_thread'[n], u) <=>
            InList(suspend_thread[n], u) \/ (n = m /\ u = t)
    BY <1>2, <1>4 DEF TypeOK
  <1>8. \A u \in Thread : current_priority'[u] =
          IF u = o THEN p ELSE current_priority[u]
    BY <1>4 DEF TypeOK
  <1>9. Ownership'
    <2> SUFFICES ASSUME NEW n \in Mutex, exists[n]
                 PROVE  /\ value[n] = 1 <=> owner[n] = NoThread
                        /\ value[n] = 1 <=> hold[n] = 0
                        /\ value[n] = 1 => suspend_thread'[n] = <<>>
                             /\ original_priority[n] = NoPriority
                        /\ NoRepeat(suspend_thread'[n])
                        /\ \A u \in Thread :
                             /\ InList(held[u], n) \/ Granted(u, n)' <=> owner[n] = u
                             /\ InList(suspend_thread'[n], u) <=>
                                  stat'[u] = "suspend" /\ pc'[u] = "wait" /\ on'[u] = n
      BY DEF Ownership
    <2>1. n = m => value[n] # 1
      BY <1>0, MutexAssumption DEF Ownership, o
    <2>2. n # m => suspend_thread'[n] = suspend_thread[n]
      BY <1>4 DEF TypeOK
    <2>3. NoRepeat(suspend_thread'[n])
      BY <1>2, <1>4, <2>2 DEF Ownership, TypeOK
    <2>4. \A u \in Thread : InList(suspend_thread'[n], u) <=>
            stat'[u] = "suspend" /\ pc'[u] = "wait" /\ on'[u] = n
      BY <1>0, <1>4, <1>7, MutexAssumption DEF Ownership, TypeOK, IpcTypeOK
    <2> QED BY <1>6, <2>1, <2>2, <2>3, <2>4 DEF Ownership
  <1>10. PriorityRestored'
    <2> SUFFICES ASSUME NEW u \in Thread, held[u] = <<>>,
                        \A n \in Mutex : ~Granted(u, n)
                 PROVE  current_priority'[u] = Priority[u]
      BY <1>6 DEF PriorityRestored
    <2>1. u # o
      BY <1>0, NoNodes
    <2> QED BY <1>8, <2>1 DEF PriorityRestored
  <1>11. InheritInv'
    <2> SUFFICES ASSUME Flag = "PRIO", NEW n \in Mutex, exists[n], NEW w \in Thread,
                        InList(suspend_thread'[n], w), held[w] = <<>>,
                        owner[n] \in Thread \ lowered
                 PROVE  current_priority'[owner[n]] <= current_priority'[w]
      BY DEF InheritInv
    <2>0. current_priority[owner[n]] \in Int /\ current_priority[w] \in Int /\ p \in Int
          /\ current_priority[o] \in Int
      BY <1>0, <1>3, MutexAssumption DEF TypeOK
    <2>1. w # o
      <3>1. CASE n = m /\ w = t
        BY <1>0, <3>1
      <3>2. CASE InList(suspend_thread[n], w)
        BY <1>0, <3>2, NoNodes DEF Ownership, Granted
      <3> QED BY <1>7, <3>1, <3>2
    <2>2. CASE n = m /\ w = t
      <3>1. owner[n] = o
        BY <2>2 DEF o
      <3> QED BY <1>3, <1>8, <2>1, <2>2, <3>1
    <2>3. CASE InList(suspend_thread[n], w)
      <3>1. current_priority[owner[n]] <= current_priority[w]
        BY <2>3 DEF InheritInv
      <3> QED BY <1>3, <1>8, <2>0, <2>1, <3>1
    <2> QED BY <1>7, <2>2, <2>3
  <1>12. CallInv'
    BY <1>0, <1>4, MutexAssumption DEF CallInv, TypeOK, IpcTypeOK
  <1>13. GoneInv'
    BY <1>0, <1>4 DEF GoneInv, TypeOK, IpcTypeOK
  <1>14. DeleteInv'
    <2>1. \A u \in Thread : pc'[u] \in {"test", "next"} =>
            pc[u] = pc'[u] /\ u # t /\ on'[u] = on[u] /\ on[u] # m /\ on[u] \in Mutex
      BY <1>0, <1>4 DEF TypeOK, CallInv
    <2>2. \A u \in Thread : pc'[u] \in {"test", "next"} /\ held[u] = <<on[u]>> => u # o
      <3> SUFFICES ASSUME pc'[o] \in {"test", "next"}, held[o] = <<on[o]>> PROVE FALSE
        OBVIOUS
      <3>1. on[o] # m /\ ~Granted(o, m)
        BY <1>0, <2>1 DEF Granted
      <3>2. InList(held[o], m)
        BY <1>0, <3>1
      <3> QED BY <3>1, <3>2 DEF InList
    <2>3. \A u \in Thread : pc'[u] \in {"test", "next"} =>
            suspend_thread'[on[u]] = suspend_thread[on[u]]
      BY <1>4, <2>1 DEF TypeOK
    <2>4. \A u \in Thread \ {t} : /\ on'[u] = on[u] /\ pc'[u] = pc[u]
                                  /\ timer'[u] = timer[u] /\ stat'[u] = stat[u]
                                  /\ error'[u] = error[u]
      BY <1>4 DEF TypeOK, IpcTypeOK
    <2>5. on'[t] = m
      BY <1>4 DEF TypeOK
    <2> QED BY <1>8, <2>1, <2>2, <2>3, <2>4, <2>5 DEF DeleteInv
  <1>15. OriginInv'
    BY <1>6 DEF OriginInv
  <1>16. OrderInv'
    <2> SUFFICES ASSUME Flag = "PRIO", NEW n \in Mutex, NEW u \in Thread, NEW w \in Thread,
                        Before(suspend_thread'[n], u, w), held[w] = <<>>
                 PROVE  current_priority'[u] <= current_priority'[w]
      BY DEF OrderInv
    <2>0. \A x \in Thread : current_priority[x] \in Int /\ current_priority'[x] \in Int
                           /\ current_priority'[x] <= current_priority[x]
      <3>1. \A x \in Thread : current_priority[x] \in Int
        BY MutexAssumption DEF TypeOK
      <3>2. p \in Int
        BY <1>3, MutexAssumption
      <3> QED BY <1>0, <1>3, <1>8, <3>1, <3>2
    <2>1. current_priority[u] <= current_priority[w]
      <3>1. CASE n # m
        <4>1. suspend_thread'[n] = suspend_thread[n]
          BY <1>4, <3>1 DEF TypeOK
        <4> QED BY <4>1 DEF OrderInv
      <3>2. CASE n = m
        <4>1. suspend_thread'[n] = list
          BY <1>4, <3>2 DEF TypeOK
        <4>2. CASE Before(suspend_thread[m], u, w)
          BY <4>2 DEF OrderInv
        <4>3. CASE u = t /\ \E v \in Thread :
                  /\ current_priority[t] < current_priority[v]
                  /\ v = w \/ Before(suspend_thread[m], v, w)
          <5> PICK v \in Thread : /\ current_priority[t] < current_priority[v]
                                  /\ v = w \/ Before(suspend_thread[m], v, w)
            BY <4>3
          <5>1. current_priority[v] <= current_priority[w]
            BY <2>0 DEF OrderInv
          <5> QED BY <2>0, <4>3, <5>1
        <4> QED BY <1>2, <4>1, <4>2, <4>3
      <3> QED BY <3>1, <3>2
    <2>2. w # o
      <3>1. InList(suspend_thread'[n], w)
        BY DEF Before, InList
      <3>2. CASE n = m /\ w = t
        BY <1>0, <3>2
      <3>3. CASE InList(suspend_thread[n], w)
        <4>1. exists[n]
          BY <3>3, NoNodes DEF GoneInv
        <4> QED BY <1>0, <3>3, <4>1, NoNodes DEF Ownership, Granted
      <3> QED BY <1>7, <3>1, <3>2, <3>3
    <2> QED BY <1>8, <2>0, <2>1, <2>2
  <1> QED BY <1>5, <1>9, <1>10, <1>11, <1>12, <1>13, <1>14, <1>15, <1>16

LEMMA TakeInv ==
    ASSUME MutexInv, NEW t \in Thread, NEW m \in Mutex, NEW time \in Times,
           rt_mutex_take(t, m, time)
    PROVE  MutexInv'
  <1> USE DEF rt_mutex_take
  <1>1. CASE /\ TakeAgain(t, m)
             /\ error' = [error EXCEPT ![t] = "EOK"]
             /\ UNCHANGED <<stat, timer, wild, current_priority, suspend_thread, local>>
    <2>1. hold' \in [Mutex -> 0 .. MaxHold]
      BY <1>1, MutexAssumption DEF TakeAgain, MutexInv, TypeOK
    <2>2. hold[m] # 0
      BY <1>1, MutexAssumption DEF TakeAgain, MutexInv, Ownership, Usable
    <2>3. \A n \in Mutex : hold'[n] = 0 <=> hold[n] = 0
      BY <1>1, <2>2, MutexAssumption DEF TakeAgain, MutexInv, TypeOK
    <2> QED BY <1>1, <2>1, <2>3, HoldOnlyInv DEF TakeAgain, Errors, history
  <1>2. CASE /\ TakeFree(t, m)
             /\ error' = [error EXCEPT ![t] = "EOK"]
             /\ UNCHANGED <<stat, timer, wild, current_priority, suspend_thread, local>>
    BY <1>2, TakeFreeInv
  <1>3. CASE /\ error' = [error EXCEPT ![t] = "ETIMEOUT"]
             /\ UNCHANGED <<stat, timer, wild, current_priority, mutexVars,
                            suspend_thread, local, held>>
    <2>1. hold' = hold /\ hold \in [Mutex -> 0 .. MaxHold]
      BY <1>3 DEF mutexVars, MutexInv, TypeOK
    <2> QED BY <1>3, <2>1, HoldOnlyInv DEF mutexVars, Errors, history
  <1>4. CASE TakeWait(t, m, time) /\ UNCHANGED <<mutexVars, held>>
    BY <1>4, TakeWaitInv
  <1> QED BY <1>1, <1>2, <1>3, <1>4

(* The thread a mutex was handed over to finds out.                        *)
LEMMA ResumedInv ==
    ASSUME MutexInv, NEW t \in Thread, Resumed(t)
    PROVE  MutexInv'
  <1> USE DEF MutexInv, ipcVars, mutexVars
  <1> DEFINE m == on[t]
             h == IF error[t] = "EOK" THEN Append(held[t], m) ELSE held[t]
  <1>0. /\ pc[t] = "wait" /\ stat[t] = "ready" /\ m \in Mutex /\ ~InList(held[t], m)
        /\ error[t] = "EOK" <=> Granted(t, m)
    BY DEF Resumed, CallInv, TypeOK, Granted
  <1>1. /\ h \in Seq(Mutex) /\ NoRepeat(h)
        /\ \A x : InList(h, x) <=> InList(held[t], x) \/ (x = m /\ Granted(t, m))
        /\ (held[t] = <<>> /\ Granted(t, m)) => h # <<>> /\ h[1] = m
        /\ held[t] # <<>> => h # <<>> /\ h[1] = held[t][1]
        /\ ~Granted(t, m) => h = held[t]
    <2>1. held[t] \in Seq(Mutex) /\ NoRepeat(held[t])
      BY DEF TypeOK, CallInv
    <2> HIDE DEF m, MutexInv
    <2>2. CASE Granted(t, m)
      <3>1. h = Append(held[t], m)
        BY <1>0, <2>2
      <3> HIDE DEF h
      <3> QED BY <1>0, <2>1, <2>2, <3>1, AppendFacts
    <2>3. CASE ~Granted(t, m)
      BY <1>0, <2>1, <2>3
    <2> QED BY <2>2, <2>3
  <1>2. /\ held' = [held EXCEPT ![t] = h]
        /\ pc' = [pc EXCEPT ![t] = "run"] /\ on' = [on EXCEPT ![t] = NoMutex]
        /\ UNCHANGED <<stat, error, timer, wild, current_priority, value, owner, hold,
                       original_priority, suspend_thread, exists, lowered>>
    BY DEF Resumed
  <1> HIDE DEF h, m
  <1>3. TypeOK'
    BY <1>1, <1>2 DEF TypeOK, IpcTypeOK
  <1>4. \A u \in Thread, n \in Mutex :
          /\ Granted(u, n)' <=> Granted(u, n) /\ u # t
          /\ Granted(t, n) => n = m
    BY <1>2, MutexAssumption DEF Granted, TypeOK, m
  <1>5. \A u \in Thread : /\ u # t => held'[u] = held[u]
                          /\ u = t => held'[u] = h
    BY <1>2 DEF TypeOK
  <1>6. \A u \in Thread, n \in Mutex :
          (InList(held'[u], n) \/ Granted(u, n)') <=> (InList(held[u], n) \/ Granted(u, n))
    BY <1>1, <1>4, <1>5
  <1>7. Ownership'
    <2>1. \A n \in Mutex, u \in Thread :
            (stat'[u] = "suspend" /\ pc'[u] = "wait" /\ on'[u] = n) <=>
            (stat[u] = "suspend" /\ pc[u] = "wait" /\ on[u] = n)
      BY <1>0, <1>2 DEF TypeOK
    <2> QED BY <1>2, <1>6, <2>1 DEF Ownership
  <1>8. PriorityRestored'
    BY <1>0, <1>1, <1>2, <1>4, <1>5 DEF PriorityRestored
  <1>9. InheritInv'
    BY <1>1, <1>2, <1>5 DEF InheritInv
  <1>10. \A u \in Thread : /\ u # t => pc'[u] = pc[u] /\ on'[u] = on[u]
                           /\ u = t => pc'[u] = "run" /\ on'[u] = NoMutex
    BY <1>2 DEF TypeOK
  <1>11. CallInv' /\ GoneInv'
    <2>1. CallInv'
      BY <1>0, <1>1, <1>2, <1>5, <1>10 DEF CallInv
    <2>2. \A n \in Mutex : ~exists[n] => \A u \in Thread : ~InList(held'[u], n)
      <3>1. ~exists[m] => ~Granted(t, m)
        BY <1>0 DEF GoneInv, Granted, m
      <3> QED BY <1>1, <1>5, <3>1 DEF GoneInv
    <2>3. NoMutex \notin Mutex
      BY MutexAssumption
    <2> QED BY <1>2, <1>10, <2>1, <2>2, <2>3 DEF GoneInv
  <1>12. DeleteInv'
    BY <1>0, <1>2, <1>5, MutexAssumption DEF DeleteInv, TypeOK, CallInv
  <1>13. OriginInv'
    <2>1. \A u \in Thread : held'[u] # <<>> =>
            original_priority[held'[u][1]] = Priority[u]
      BY <1>0, <1>1, <1>5 DEF OriginInv
    <2> QED BY <1>2, <1>4, <1>5, <2>1 DEF OriginInv
  <1>14. OrderInv'
    BY <1>1, <1>2, <1>5 DEF OrderInv
  <1> QED BY <1>3, <1>7, <1>8, <1>9, <1>10, <1>11, <1>12, <1>13, <1>14

(* A timeout takes its thread off the one list that links it.              *)
LEMMA TimeoutInv ==
    ASSUME MutexInv, NEW t \in Thread, Timeout(t)
    PROVE  MutexInv'
  <1> USE DEF MutexInv, mutexVars, local, history
  <1>0. /\ timer[t] /\ stat[t] = "suspend" /\ pc[t] = "wait" /\ on[t] \in Mutex
        /\ exists[on[t]]
        /\ \A u \in Thread : pc[u] \in {"test", "next"} => on[u] # on[t] /\ u # t
    <2>1. timer[t] /\ stat[t] = "suspend" /\ pc[t] = "wait" /\ on[t] \in Mutex
      BY DEF Timeout, rt_thread_timeout, CallInv, TypeOK
    <2>2. exists[on[t]]
      BY <2>1 DEF GoneInv
    <2> QED BY <2>1, <2>2 DEF DeleteInv
  <1>1. /\ stat' = [stat EXCEPT ![t] = "ready"]
        /\ error' = [error EXCEPT ![t] = "ETIMEOUT"]
        /\ timer' = [timer EXCEPT ![t] = FALSE]
        /\ suspend_thread' = [m \in Mutex |-> ListRemove(suspend_thread[m], t)]
        /\ UNCHANGED <<wild, current_priority, value, owner, hold, original_priority,
                       exists, pc, on, held, lowered>>
    BY DEF Timeout, rt_thread_timeout
  <1>2. ASSUME NEW m \in Mutex
        PROVE  /\ suspend_thread'[m] \in Seq(Thread) /\ NoRepeat(suspend_thread'[m])
               /\ \A x : InList(suspend_thread'[m], x) <=>
                          InList(suspend_thread[m], x) /\ x # t
               /\ \A u, w : Before(suspend_thread'[m], u, w) =>
                              Before(suspend_thread[m], u, w)
               /\ ~InList(suspend_thread[m], t) => suspend_thread'[m] = suspend_thread[m]
    <2>1. suspend_thread[m] \in Seq(Thread) /\ NoRepeat(suspend_thread[m])
      BY NoNodes DEF TypeOK, Ownership, GoneInv
    <2>2. suspend_thread'[m] = ListRemove(suspend_thread[m], t)
      BY <1>1
    <2> HIDE DEF MutexInv
    <2> QED BY <2>1, <2>2, ListRemoveFacts, ListRemoveLength, RemoveOrder
  <1>3. TypeOK'
    <2>1. suspend_thread' \in [Mutex -> Seq(Thread)]
      BY <1>1, <1>2
    <2> QED BY <1>1, <2>1 DEF TypeOK, IpcTypeOK, Errors
  <1>4. \A u \in Thread, n \in Mutex : Granted(u, n)' <=> Granted(u, n)
    BY <1>0, <1>1 DEF Granted, TypeOK, IpcTypeOK
  <1>5. \A m \in Mutex : suspend_thread[m] = <<>> => suspend_thread'[m] = <<>>
    BY <1>2, NoNodes
  <1>6. Ownership'
    BY <1>1, <1>2, <1>4, <1>5 DEF Ownership, TypeOK, IpcTypeOK
  <1>7. PriorityRestored' /\ OriginInv'
    BY <1>1, <1>4 DEF PriorityRestored, OriginInv
  <1>8. InheritInv'
    BY <1>1, <1>2 DEF InheritInv
  <1>9. CallInv'
    BY <1>1 DEF CallInv, TypeOK, IpcTypeOK
  <1>10. GoneInv'
    BY <1>0, <1>1, <1>5 DEF GoneInv, TypeOK, IpcTypeOK
  <1>11. DeleteInv'
    <2>1. \A u \in Thread : pc[u] \in {"test", "next"} =>
            /\ on[u] \in Mutex
            /\ suspend_thread'[on[u]] = suspend_thread[on[u]]
      <3> SUFFICES ASSUME NEW u \in Thread, pc[u] \in {"test", "next"}
                   PROVE  on[u] \in Mutex /\ suspend_thread'[on[u]] = suspend_thread[on[u]]
        OBVIOUS
      <3>1. on[u] \in Mutex /\ exists[on[u]]
        BY DEF TypeOK, CallInv, GoneInv
      <3>2. ~InList(suspend_thread[on[u]], t)
        BY <1>0, <3>1 DEF Ownership
      <3> QED BY <1>2, <3>1, <3>2
    <2>2. \A u \in Thread \ {t} :
            stat'[u] = stat[u] /\ error'[u] = error[u] /\ timer'[u] = timer[u]
      BY <1>1 DEF TypeOK, IpcTypeOK
    <2> QED BY <1>0, <1>1, <2>1, <2>2 DEF DeleteInv
  <1>12. OrderInv'
    BY <1>1, <1>2 DEF OrderInv
  <1> QED BY <1>3, <1>6, <1>7, <1>8, <1>9, <1>10, <1>11, <1>12
-----------------------------------------------------------------------------
(* rt_mutex_release.                                                       *)

(* The first waiter is linked before every other one.                      *)
LEMMA HeadFirst ==
    ASSUME NEW T, NEW s \in Seq(T), s # <<>>, NEW x, InList(Tail(s), x)
    PROVE  Before(s, Head(s), x)
  <1> DEFINE r == Tail(s)
  <1>1. /\ Len(r) = Len(s) - 1 /\ Len(s) \in Nat /\ Head(s) = s[1]
        /\ \A i \in 1 .. Len(r) : r[i] = s[i + 1]
    OBVIOUS
  <1>2. PICK i \in 1 .. Len(r) : r[i] = x
    BY DEF InList
  <1> HIDE DEF r
  <1>3. 1 \in 1 .. Len(s) /\ i + 1 \in 1 .. Len(s) /\ 1 < i + 1
    BY <1>1
  <1> QED BY <1>1, <1>2, <1>3 DEF Before

(* The owner's last release: what becomes of its priority and its history. *)
LEMMA RestoreFacts ==
    ASSUME MutexInv, NEW t \in Thread, NEW m \in Mutex, exists[m], owner[m] = t,
           pc[t] = "run", held[t][Len(held[t])] = m, Restore(t, m),
           held' = [held EXCEPT ![t] = ListRemove(@, m)]
    PROVE  /\ held' \in [Thread -> Seq(Mutex)] /\ NoRepeat(held'[t])
           /\ \A u \in Thread : u # t => held'[u] = held[u]
           /\ \A u \in Thread : \A n \in Mutex :
                InList(held'[u], n) <=> InList(held[u], n) /\ ~(u = t /\ n = m)
           /\ held'[t] # <<>> => held[t] # <<>> /\ held'[t][1] = held[t][1]
           /\ \A u \in Thread : ~InList(held'[u], m)
           /\ current_priority' \in [Thread -> 0 .. NoPriority - 1]
           /\ \A u \in Thread : u # t => current_priority'[u] = current_priority[u]
           /\ held'[t] = <<>> => current_priority'[t] = Priority[t]
           /\ lowered' \subseteq Thread
           /\ \A u \in Thread \ lowered' : (u # t \/ held'[t] # <<>>) =>
                u \notin lowered /\ current_priority'[u] <= current_priority[u]
  <1> USE DEF MutexInv
  <1> DEFINE h == ListRemove(held[t], m)
  <1>1. /\ \A u \in Thread : InList(held[u], m) => u = t
        /\ InList(held[t], m)
    BY MutexAssumption DEF Ownership, Granted
  <1>2. held[t] \in Seq(Mutex) /\ NoRepeat(held[t]) /\ held[t] # <<>>
    BY <1>1, NoNodes DEF TypeOK, CallInv
  <1>3. /\ h \in Seq(Mutex) /\ NoRepeat(h)
        /\ \A x : InList(h, x) <=> InList(held[t], x) /\ x # m
        /\ held[t] = <<m>> => h = <<>>
        /\ held[t] # <<m>> => h # <<>> /\ h[1] = held[t][1]
    <2> HIDE DEF MutexInv
    <2>1. /\ h \in Seq(Mutex) /\ NoRepeat(h)
          /\ \A x : InList(h, x) <=> InList(held[t], x) /\ x # m
      BY <1>2, ListRemoveFacts
    <2>2. /\ held[t] = <<m>> => h = <<>>
          /\ held[t] # <<m>> => h # <<>> /\ h[1] = held[t][1]
      BY <1>2, LastRemoved, Zenon
    <2> QED BY <2>1, <2>2
  <1> HIDE DEF h
  <1>4. held' = [held EXCEPT ![t] = h] /\ held \in [Thread -> Seq(Mutex)]
    BY DEF h, TypeOK
  <1>5. /\ held' \in [Thread -> Seq(Mutex)] /\ held'[t] = h
        /\ \A u \in Thread : u # t => held'[u] = held[u]
    BY <1>3, <1>4
  <1>6. original_priority[m] \in 0 .. NoPriority - 1
    <2>1. original_priority[m] < NoPriority /\ original_priority[m] \in 0 .. NoPriority
      BY MutexAssumption DEF OriginInv, TypeOK
    <2> QED BY <2>1, MutexAssumption
  <1>7. /\ current_priority' \in [Thread -> 0 .. NoPriority - 1]
        /\ current_priority'[t] = original_priority[m]
        /\ \A u \in Thread : u # t => current_priority'[u] = current_priority[u]
    BY <1>6 DEF Restore, TypeOK
  <1>8. held[t] = <<m>> => original_priority[m] = Priority[t]
    <2>1. held[t] = <<m>> => held[t][1] = m
      OBVIOUS
    <2> QED BY <1>2, <2>1 DEF OriginInv
  <1>9. \A u \in Thread : current_priority[u] \in Int
    BY MutexAssumption DEF TypeOK
  <1>10. original_priority[m] \in Int
    BY <1>6, MutexAssumption
  <1>11. /\ NoRepeat(held'[t]) /\ \A u \in Thread : ~InList(held'[u], m)
         /\ \A u \in Thread : \A n \in Mutex :
              InList(held'[u], n) <=> InList(held[u], n) /\ ~(u = t /\ n = m)
    BY <1>1, <1>3, <1>5
  <1>12. CASE held[t] = <<m>>
    <2>1. lowered' = lowered \ {t}
      BY <1>12 DEF Restore
    <2>2. h = <<>>
      BY <1>3, <1>12
    <2>3. lowered' \subseteq Thread
      BY <2>1 DEF TypeOK
    <2>4. \A u \in Thread \ lowered' : u # t =>
             u \notin lowered /\ current_priority'[u] <= current_priority[u]
      BY <1>7, <1>9, <2>1
    <2> QED BY <1>5, <1>7, <1>8, <1>12, <2>2, <2>3, <2>4, <1>11
  <1>13. CASE held[t] # <<m>>
    <2>1. lowered' = IF current_priority[t] < original_priority[m]
                     THEN lowered \cup {t} ELSE lowered
      BY <1>13 DEF Restore
    <2>2. h # <<>> /\ h[1] = held[t][1]
      BY <1>3, <1>13
    <2>3. lowered' \subseteq Thread
      BY <2>1 DEF TypeOK
    <2>4. \A u \in Thread \ lowered' :
             u \notin lowered /\ current_priority'[u] <= current_priority[u]
      BY <1>7, <1>9, <1>10, <2>1
    <2> QED BY <1>2, <1>5, <1>7, <1>11, <2>2, <2>3, <2>4
  <1> QED BY <1>12, <1>13

(* The last release of a mutex nobody waits for.                           *)
LEMMA ReleaseFreeInv ==
    ASSUME MutexInv, NEW t \in Thread, NEW m \in Mutex, pc[t] = "run", Usable(m),
           owner[m] = t, hold[m] = 1, held[t][Len(held[t])] = m, Restore(t, m),
           suspend_thread[m] = <<>>, Free(m),
           held' = [held EXCEPT ![t] = ListRemove(@, m)], UNCHANGED <<exists, local>>
    PROVE  MutexInv'
  <1> USE DEF MutexInv, local, ipcVars
  <1>0. /\ exists[m] /\ value[m] = 0
        /\ \A u \in Thread : pc[u] \in {"test", "next"} => on[u] # m /\ u # t
        /\ \A u \in Thread : ~Granted(u, m)
        /\ \A n \in Mutex : ~Granted(t, n)
    <2>1. exists[m] /\ \A u \in Thread : pc[u] \in {"test", "next"} => on[u] # m
      BY UsableFacts
    <2>2. value[m] = 0
      BY <2>1, MutexAssumption DEF Ownership, TypeOK
    <2>3. \A u \in Thread : ~Granted(u, m)
      BY <2>1 DEF Ownership, Granted
    <2> QED BY <2>1, <2>2, <2>3 DEF Granted
  <1>1. /\ held' \in [Thread -> Seq(Mutex)] /\ NoRepeat(held'[t])
        /\ \A u \in Thread : u # t => held'[u] = held[u]
        /\ \A u \in Thread : \A n \in Mutex :
             InList(held'[u], n) <=> InList(held[u], n) /\ ~(u = t /\ n = m)
        /\ held'[t] # <<>> => held[t] # <<>> /\ held'[t][1] = held[t][1]
        /\ \A u \in Thread : ~InList(held'[u], m)
        /\ current_priority' \in [Thread -> 0 .. NoPriority - 1]
        /\ \A u \in Thread : u # t => current_priority'[u] = current_priority[u]
        /\ held'[t] = <<>> => current_priority'[t] = Priority[t]
        /\ lowered' \subseteq Thread
        /\ \A u \in Thread \ lowered' : (u # t \/ held'[t] # <<>>) =>
             u \notin lowered /\ current_priority'[u] <= current_priority[u]
    <2> HIDE DEF MutexInv
    <2> QED BY <1>0, RestoreFacts
  <1>2. /\ value' = [value EXCEPT ![m] = 1] /\ hold' = [hold EXCEPT ![m] = 0]
        /\ owner' = [owner EXCEPT ![m] = NoThread]
        /\ original_priority' = [original_priority EXCEPT ![m] = NoPriority]
        /\ UNCHANGED <<stat, error, timer, wild, suspend_thread, exists, pc, on>>
    BY <1>0 DEF Free, TypeOK
  <1>3. TypeOK'
    <2>1. hold' \in [Mutex -> 0 .. MaxHold] /\ value' \in [Mutex -> 0 .. 1]
      BY <1>2, MutexAssumption DEF TypeOK
    <2>2. original_priority' \in [Mutex -> 0 .. NoPriority]
      BY <1>2, MutexAssumption DEF TypeOK
    <2> QED BY <1>1, <1>2, <2>1, <2>2 DEF TypeOK, IpcTypeOK
  <1>4. \A u \in Thread, n \in Mutex : Granted(u, n)' <=> Granted(u, n)
    BY <1>2 DEF Granted
  <1>5. \A n \in Mutex :
          /\ n = m => value'[n] = 1 /\ hold'[n] = 0 /\ owner'[n] = NoThread
                      /\ original_priority'[n] = NoPriority
          /\ n # m => value'[n] = value[n] /\ hold'[n] = hold[n] /\ owner'[n] = owner[n]
                      /\ original_priority'[n] = original_priority[n]
    BY <1>2 DEF TypeOK
  <1>6. Ownership'
    <2> SUFFICES ASSUME NEW n \in Mutex, exists[n]
                 PROVE  /\ value'[n] = 1 <=> owner'[n] = NoThread
                        /\ value'[n] = 1 <=> hold'[n] = 0
                        /\ value'[n] = 1 => suspend_thread[n] = <<>>
                             /\ original_priority'[n] = NoPriority
                        /\ NoRepeat(suspend_thread[n])
                        /\ \A u \in Thread :
                             /\ InList(held'[u], n) \/ Granted(u, n)' <=> owner'[n] = u
                             /\ InList(suspend_thread[n], u) <=>
                                  stat[u] = "suspend" /\ pc[u] = "wait" /\ on[u] = n
      BY <1>2 DEF Ownership
    <2>1. CASE n = m
      BY <1>0, <1>1, <1>4, <1>5, <2>1, MutexAssumption DEF Ownership
    <2>2. CASE n # m
      BY <1>1, <1>4, <1>5, <2>2 DEF Ownership
    <2> QED BY <2>1, <2>2
  <1>7. PriorityRestored'
    BY <1>0, <1>1, <1>4 DEF PriorityRestored
  <1>8. \A n \in Mutex : \A u \in Thread : InList(suspend_thread[n], u) => u # t /\ exists[n]
    BY NoNodes DEF GoneInv, Ownership
  <1>9. InheritInv'
    <2> SUFFICES ASSUME Flag = "PRIO", NEW n \in Mutex, exists[n], NEW w \in Thread,
                        InList(suspend_thread[n], w), held'[w] = <<>>,
                        owner'[n] \in Thread \ lowered'
                 PROVE  current_priority'[owner'[n]] <= current_priority'[w]
      BY <1>2 DEF InheritInv
    <2>1. w # t /\ n # m
      BY <1>5, <1>8, MutexAssumption
    <2>2. owner[n] = t => held'[t] # <<>>
      <3> SUFFICES ASSUME owner[n] = t PROVE held'[t] # <<>>
        OBVIOUS
      <3>1. InList(held[t], n)
        BY <1>0 DEF Ownership
      <3> QED BY <1>1, <2>1, <3>1, NoNodes
    <2>3. owner'[n] = owner[n] /\ held[w] = <<>> /\ current_priority'[w] = current_priority[w]
      BY <1>1, <1>5, <2>1
    <2>4. owner[n] \notin lowered /\ current_priority'[owner[n]] <= current_priority[owner[n]]
      BY <1>1, <2>2, <2>3
    <2>5. current_priority[owner[n]] <= current_priority[w]
      BY <2>3, <2>4 DEF InheritInv
    <2>6. /\ current_priority[owner[n]] \in Int /\ current_priority'[owner[n]] \in Int
          /\ current_priority[w] \in Int
      BY <1>1, <2>3, MutexAssumption DEF TypeOK
    <2> QED BY <2>3, <2>4, <2>5, <2>6
  <1>10. CallInv'
    <2>1. \A u \in Thread : pc[u] = "wait" => ~InList(held'[u], on[u])
      <3>1. \A u \in Thread : pc[u] = "wait" => on[u] \in Mutex
        BY DEF CallInv, TypeOK
      <3> QED BY <1>1, <3>1 DEF CallInv
    <2>2. \A u \in Thread : NoRepeat(held'[u])
      BY <1>1 DEF CallInv
    <2> QED BY <1>2, <2>1, <2>2 DEF CallInv
  <1>11. GoneInv'
    BY <1>1, <1>2 DEF GoneInv
  <1>12. DeleteInv'
    <2>1. \A u \in Thread : pc[u] \in {"test", "next"} =>
            /\ held'[u] = held[u] /\ current_priority'[u] = current_priority[u]
            /\ owner'[on[u]] = owner[on[u]]
      <3>1. \A u \in Thread : pc[u] \in {"test", "next"} => on[u] \in Mutex
        BY DEF TypeOK, CallInv
      <3> QED BY <1>0, <1>1, <1>5, <3>1
    <2> QED BY <1>2, <2>1 DEF DeleteInv
  <1>13. OriginInv'
    <2>1. ASSUME NEW u \in Thread, held'[u] # <<>>
          PROVE  original_priority'[held'[u][1]] = Priority[u]
      <3>1. held[u] # <<>> /\ held'[u][1] = held[u][1]
        BY <1>1, <2>1
      <3>2. held'[u] \in Seq(Mutex)
        BY <1>1
      <3>3. held'[u][1] \in Mutex /\ InList(held'[u], held'[u][1])
        BY <2>1, <3>2, EmptyList
      <3>4. held'[u][1] # m
        BY <1>1, <3>3
      <3> QED BY <1>5, <3>1, <3>3, <3>4 DEF OriginInv
    <2>2. ASSUME NEW u \in Thread, NEW n \in Mutex, held'[u] = <<>>, Granted(u, n)'
          PROVE  original_priority'[n] = Priority[u]
      <3>1. u # t /\ n # m /\ Granted(u, n)
        BY <1>0, <1>4, <2>2
      <3> QED BY <1>1, <1>5, <2>2, <3>1 DEF OriginInv
    <2>3. \A n \in Mutex :
            exists'[n] /\ owner'[n] # NoThread => original_priority'[n] < NoPriority
      BY <1>2, <1>5 DEF OriginInv
    <2> QED BY <2>1, <2>2, <2>3 DEF OriginInv
  <1>14. OrderInv'
    <2> SUFFICES ASSUME Flag = "PRIO", NEW n \in Mutex, NEW u \in Thread, NEW w \in Thread,
                        Before(suspend_thread[n], u, w), held'[w] = <<>>
                 PROVE  current_priority'[u] <= current_priority'[w]
      BY <1>2 DEF OrderInv
    <2>1. u # t /\ w # t
      BY <1>8 DEF Before, InList
    <2> QED BY <1>1, <2>1 DEF OrderInv
  <1> QED BY <1>3, <1>6, <1>7, <1>9, <1>10, <1>11, <1>12, <1>13, <1>14
(* The last release of a mutex that others wait for: the first of them     *)
(* owns it from now on.                                                    *)
LEMMA ReleaseHandOverInv ==
    ASSUME MutexInv, NEW t \in Thread, NEW m \in Mutex, pc[t] = "run", Usable(m),
           owner[m] = t, hold[m] = 1, held[t][Len(held[t])] = m, Restore(t, m),
           suspend_thread[m] # <<>>, HandOver(m),
           held' = [held EXCEPT ![t] = ListRemove(@, m)], UNCHANGED <<exists, local>>
    PROVE  MutexInv'
  <1> USE DEF MutexInv, local
  <1> DEFINE s == suspend_thread[m]
             w == Head(s)
             r == Tail(s)
  <1>0. /\ exists[m] /\ value[m] = 0
        /\ \A u \in Thread : pc[u] \in {"test", "next"} => on[u] # m /\ u # t
        /\ \A u \in Thread : ~Granted(u, m)
        /\ \A n \in Mutex : ~Granted(t, n)
        /\ s \in Seq(Thread) /\ NoRepeat(s)
    <2>1. exists[m] /\ \A u \in Thread : pc[u] \in {"test", "next"} => on[u] # m
      BY UsableFacts
    <2>2. value[m] = 0
      BY <2>1, MutexAssumption DEF Ownership, TypeOK
    <2>3. \A u \in Thread : ~Granted(u, m)
      BY <2>1 DEF Ownership, Granted
    <2>4. s \in Seq(Thread) /\ NoRepeat(s)
      BY <2>1 DEF Ownership, TypeOK
    <2> QED BY <2>1, <2>2, <2>3, <2>4 DEF Granted
  <1>1. /\ held' \in [Thread -> Seq(Mutex)] /\ NoRepeat(held'[t])
        /\ \A u \in Thread : u # t => held'[u] = held[u]
        /\ \A u \in Thread : \A n \in Mutex :
             InList(held'[u], n) <=> InList(held[u], n) /\ ~(u = t /\ n = m)
        /\ held'[t] # <<>> => held[t] # <<>> /\ held'[t][1] = held[t][1]
        /\ \A u \in Thread : ~InList(held'[u], m)
        /\ current_priority' \in [Thread -> 0 .. NoPriority - 1]
        /\ \A u \in Thread : u # t => current_priority'[u] = current_priority[u]
        /\ held'[t] = <<>> => current_priority'[t] = Priority[t]
        /\ lowered' \subseteq Thread
        /\ \A u \in Thread \ lowered' : (u # t \/ held'[t] # <<>>) =>
             u \notin lowered /\ current_priority'[u] <= current_priority[u]
    <2> HIDE DEF MutexInv
    <2> QED BY <1>0, RestoreFacts
  <1>2. /\ w \in Thread /\ InList(s, w) /\ r \in Seq(Thread) /\ NoRepeat(r)
        /\ \A x : InList(r, x) <=> InList(s, x) /\ x # w
        /\ \A x : InList(r, x) => Before(s, w, x)
        /\ \A u, x : Before(r, u, x) => Before(s, u, x)
    <2> HIDE DEF MutexInv, s
    <2>1. s # <<>>
      BY DEF s
    <2> QED BY <1>0, <2>1, TailFacts, HeadFirst, TailOrder
  <1>3. /\ owner' = [owner EXCEPT ![m] = w]
        /\ original_priority' = [original_priority EXCEPT ![m] = current_priority[w]]
        /\ suspend_thread' = [suspend_thread EXCEPT ![m] = r]
        /\ stat' = [stat EXCEPT ![w] = "ready"]
        /\ timer' = [timer EXCEPT ![w] = FALSE]
        /\ UNCHANGED <<error, wild, value, hold, exists, pc, on>>
    BY DEF HandOver, rt_thread_resume
  <1> HIDE DEF w, r
  <1>4. /\ stat[w] = "suspend" /\ pc[w] = "wait" /\ on[w] = m /\ error[w] = "EOK" /\ w # t
        /\ \A n \in Mutex : ~Granted(w, n)
    BY <1>0, <1>2 DEF Ownership, CallInv, Granted
  <1>5. \A n \in Mutex :
          /\ n = m => /\ owner'[n] = w /\ suspend_thread'[n] = r
                      /\ original_priority'[n] = current_priority[w]
          /\ n # m => /\ owner'[n] = owner[n] /\ suspend_thread'[n] = suspend_thread[n]
                      /\ original_priority'[n] = original_priority[n]
    BY <1>3 DEF TypeOK
  <1>6. \A u \in Thread :
          /\ u = w => stat'[u] = "ready" /\ ~timer'[u]
          /\ u # w => stat'[u] = stat[u] /\ timer'[u] = timer[u]
    BY <1>3 DEF TypeOK, IpcTypeOK
  <1>7. \A u \in Thread, n \in Mutex :
          Granted(u, n)' <=> Granted(u, n) \/ (u = w /\ n = m)
    BY <1>3, <1>4, <1>6 DEF Granted
  <1>8. TypeOK'
    <2>1. current_priority[w] \in 0 .. NoPriority
      BY <1>2, MutexAssumption DEF TypeOK
    <2>2. original_priority' \in [Mutex -> 0 .. NoPriority]
      BY <1>3, <2>1 DEF TypeOK
    <2>3. suspend_thread' \in [Mutex -> Seq(Thread)]
      BY <1>2, <1>3 DEF TypeOK
    <2>4. owner' \in [Mutex -> Thread \cup {NoThread}]
      BY <1>2, <1>3 DEF TypeOK
    <2>5. stat' \in [Thread -> {"ready", "suspend"}] /\ timer' \in [Thread -> BOOLEAN]
      BY <1>3 DEF TypeOK, IpcTypeOK
    <2>6. IpcTypeOK' /\ ~wild'
      BY <1>3, <2>5 DEF TypeOK, IpcTypeOK
    <2>7. /\ value' \in [Mutex -> 0 .. 1] /\ hold' \in [Mutex -> 0 .. MaxHold]
          /\ exists' \in [Mutex -> BOOLEAN]
          /\ pc' \in [Thread -> {"run", "wait", "test", "next"}]
          /\ on' \in [Thread -> Mutex \cup {NoMutex}]
      BY <1>3 DEF TypeOK
    <2> QED BY <1>1, <2>2, <2>3, <2>4, <2>6, <2>7 DEF TypeOK
  <1>9. Ownership'
    <2> SUFFICES ASSUME NEW n \in Mutex, exists[n]
                 PROVE  /\ value[n] = 1 <=> owner'[n] = NoThread
                        /\ value[n] = 1 <=> hold[n] = 0
                        /\ value[n] = 1 => suspend_thread'[n] = <<>>
                             /\ original_priority'[n] = NoPriority
                        /\ NoRepeat(suspend_thread'[n])
                        /\ \A u \in Thread :
                             /\ InList(held'[u], n) \/ Granted(u, n)' <=> owner'[n] = u
                             /\ InList(suspend_thread'[n], u) <=>
                                  stat'[u] = "suspend" /\ pc[u] = "wait" /\ on[u] = n
      BY <1>3 DEF Ownership
    <2>1. CASE n = m
      <3>1. value[n] # 1 /\ owner'[n] # NoThread /\ hold[n] # 0
        BY <1>0, <1>2, <1>5, <2>1, MutexAssumption
      <3>2. NoRepeat(suspend_thread'[n])
        BY <1>2, <1>5, <2>1
      <3>3. \A u \in Thread : InList(held'[u], n) \/ Granted(u, n)' <=> owner'[n] = u
        BY <1>0, <1>1, <1>5, <1>7, <2>1
      <3>4. \A u \in Thread : InList(suspend_thread'[n], u) <=>
              stat'[u] = "suspend" /\ pc[u] = "wait" /\ on[u] = n
        BY <1>2, <1>5, <1>6, <2>1 DEF Ownership
      <3> QED BY <3>1, <3>2, <3>3, <3>4
    <2>2. CASE n # m
      <3>1. \A u \in Thread :
              (stat'[u] = "suspend" /\ pc[u] = "wait" /\ on[u] = n) <=>
              (stat[u] = "suspend" /\ pc[u] = "wait" /\ on[u] = n)
        BY <1>4, <1>6, <2>2
      <3> QED BY <1>1, <1>5, <1>7, <2>2, <3>1 DEF Ownership
    <2> QED BY <2>1, <2>2
  <1>10. PriorityRestored'
    BY <1>1, <1>7 DEF PriorityRestored
  <1>11. \A n \in Mutex : \A u \in Thread :
           InList(suspend_thread'[n], u) => u # t /\ InList(suspend_thread[n], u)
    <2>1. \A n \in Mutex : \A u \in Thread :
            InList(suspend_thread'[n], u) => InList(suspend_thread[n], u)
      BY <1>2, <1>5
    <2>2. \A n \in Mutex : \A u \in Thread : InList(suspend_thread[n], u) => u # t
      BY NoNodes DEF GoneInv, Ownership
    <2> QED BY <2>1, <2>2
  <1>12. InheritInv'
    <2> SUFFICES ASSUME Flag = "PRIO", NEW n \in Mutex, exists[n], NEW x \in Thread,
                        InList(suspend_thread'[n], x), held'[x] = <<>>,
                        owner'[n] \in Thread \ lowered'
                 PROVE  current_priority'[owner'[n]] <= current_priority'[x]
      BY <1>3 DEF InheritInv
    <2>1. x # t /\ InList(suspend_thread[n], x)
      BY <1>11
    <2>2. held[x] = <<>> /\ current_priority'[x] = current_priority[x]
      BY <1>1, <2>1
    <2>3. CASE n = m
      <3>1. owner'[n] = w /\ Before(suspend_thread[m], w, x)
        BY <1>2, <1>5, <2>3
      <3>2. current_priority[w] <= current_priority[x]
        BY <1>2, <2>2, <3>1 DEF OrderInv
      <3> QED BY <1>1, <1>2, <1>4, <2>2, <3>1, <3>2
    <2>4. CASE n # m
      <3>1. owner'[n] = owner[n]
        BY <1>5, <2>4
      <3>2. owner[n] = t => held'[t] # <<>>
        <4> SUFFICES ASSUME owner[n] = t PROVE held'[t] # <<>>
          OBVIOUS
        <4>1. InList(held[t], n)
          BY <1>0 DEF Ownership
        <4> QED BY <1>1, <2>4, <4>1, NoNodes
      <3>3. /\ owner[n] \notin lowered
            /\ current_priority'[owner[n]] <= current_priority[owner[n]]
        BY <1>1, <3>1, <3>2
      <3>4. current_priority[owner[n]] <= current_priority[x]
        BY <2>1, <2>2, <3>1, <3>3 DEF InheritInv
      <3>5. /\ current_priority[owner[n]] \in Int /\ current_priority'[owner[n]] \in Int
            /\ current_priority[x] \in Int
        BY <1>1, <3>1, MutexAssumption DEF TypeOK
      <3> QED BY <2>2, <3>1, <3>3, <3>4, <3>5
    <2> QED BY <2>3, <2>4
  <1>13. CallInv'
    <2>1. \A u \in Thread : pc[u] = "wait" => ~InList(held'[u], on[u])
      <3>1. \A u \in Thread : pc[u] = "wait" => on[u] \in Mutex
        BY DEF CallInv, TypeOK
      <3> QED BY <1>1, <3>1 DEF CallInv
    <2>2. \A u \in Thread : NoRepeat(held'[u])
      BY <1>1 DEF CallInv
    <2>3. \A u \in Thread : /\ stat'[u] = "suspend" => stat[u] = "suspend"
                            /\ timer'[u] => timer[u] /\ u # w
      BY <1>6
    <2> QED BY <1>3, <1>6, <2>1, <2>2, <2>3 DEF CallInv
  <1>14. GoneInv'
    <2>1. \A n \in Mutex : ~exists[n] => n # m /\ suspend_thread'[n] = suspend_thread[n]
      BY <1>0, <1>5
    <2> QED BY <1>1, <1>3, <1>4, <1>6, <2>1 DEF GoneInv
  <1>15. DeleteInv'
    <2>1. \A u \in Thread : pc[u] \in {"test", "next"} => on[u] \in Mutex /\ on[u] # m
      BY <1>0 DEF TypeOK, CallInv
    <2>2. \A u \in Thread : pc[u] \in {"test", "next"} =>
            /\ held'[u] = held[u] /\ current_priority'[u] = current_priority[u]
            /\ owner'[on[u]] = owner[on[u]] /\ suspend_thread'[on[u]] = suspend_thread[on[u]]
      BY <1>0, <1>1, <1>5, <2>1
    <2> QED BY <1>3, <1>4, <1>6, <2>1, <2>2 DEF DeleteInv
  <1>16. OriginInv'
    <2>1. ASSUME NEW u \in Thread, held'[u] # <<>>
          PROVE  original_priority'[held'[u][1]] = Priority[u]
      <3>1. held[u] # <<>> /\ held'[u][1] = held[u][1]
        BY <1>1, <2>1
      <3>2. held'[u] \in Seq(Mutex)
        BY <1>1
      <3>3. held'[u][1] \in Mutex /\ InList(held'[u], held'[u][1])
        BY <2>1, <3>2, EmptyList
      <3>4. held'[u][1] # m
        BY <1>1, <3>3
      <3> QED BY <1>5, <3>1, <3>3, <3>4 DEF OriginInv
    <2>2. ASSUME NEW u \in Thread, NEW n \in Mutex, held'[u] = <<>>, Granted(u, n)'
          PROVE  original_priority'[n] = Priority[u]
      <3>1. CASE u = w /\ n = m
        <4>1. held[w] = <<>>
          BY <1>1, <1>4, <2>2, <3>1
        <4>2. current_priority[w] = Priority[w]
          BY <1>2, <1>4, <4>1 DEF PriorityRestored
        <4> QED BY <1>5, <3>1, <4>2
      <3>2. CASE Granted(u, n)
        <4>1. u # t /\ n # m
          BY <1>0, <3>2
        <4> QED BY <1>1, <1>5, <2>2, <3>2, <4>1 DEF OriginInv
      <3> QED BY <1>7, <2>2, <3>1, <3>2
    <2>3. \A n \in Mutex :
            exists'[n] /\ owner'[n] # NoThread => original_priority'[n] < NoPriority
      <3>1. current_priority[w] < NoPriority
        BY <1>2, MutexAssumption DEF TypeOK
      <3> QED BY <1>3, <1>5, <3>1 DEF OriginInv
    <2> QED BY <2>1, <2>2, <2>3 DEF OriginInv
  <1>17. OrderInv'
    <2> SUFFICES ASSUME Flag = "PRIO", NEW n \in Mutex, NEW u \in Thread, NEW x \in Thread,
                        Before(suspend_thread'[n], u, x), held'[x] = <<>>
                 PROVE  current_priority'[u] <= current_priority'[x]
      BY DEF OrderInv
    <2>1. u # t /\ x # t
      BY <1>11 DEF Before, InList
    <2>2. Before(suspend_thread[n], u, x)
      BY <1>2, <1>5
    <2> QED BY <1>1, <2>1, <2>2 DEF OrderInv
  <1> QED BY <1>8, <1>9, <1>10, <1>12, <1>13, <1>14, <1>15, <1>16, <1>17

LEMMA ReleaseInv ==
    ASSUME MutexInv, NEW t \in Thread, NEW m \in Mutex, rt_mutex_release(t, m)
    PROVE  MutexInv'
  <1> USE DEF rt_mutex_release
  <1>1. CASE /\ owner[m] # t
             /\ error' = [error EXCEPT ![t] = "ERROR"]
             /\ UNCHANGED <<stat, timer, wild, current_priority, mutexVars,
                            suspend_thread, history>>
    <2>1. hold' = hold /\ hold \in [Mutex -> 0 .. MaxHold]
      BY <1>1 DEF mutexVars, MutexInv, TypeOK
    <2> QED BY <1>1, <2>1, HoldOnlyInv DEF mutexVars, Errors
  <1>2. CASE /\ owner[m] = t /\ hold[m] > 1
             /\ hold' = [hold EXCEPT ![m] = @ - 1]
             /\ UNCHANGED <<ipcVars, current_priority, value, owner,
                            original_priority, suspend_thread, history>>
    <2>1. hold' \in [Mutex -> 0 .. MaxHold]
      BY <1>2, MutexAssumption DEF MutexInv, TypeOK
    <2>2. \A n \in Mutex : hold'[n] = 0 <=> hold[n] = 0
      BY <1>2, MutexAssumption DEF MutexInv, TypeOK
    <2>3. error' = [error EXCEPT ![t] = error[t]] /\ error[t] \in Errors
      BY <1>2 DEF ipcVars, MutexInv, TypeOK, IpcTypeOK
    <2> QED BY <1>2, <2>1, <2>2, <2>3, HoldOnlyInv DEF ipcVars
  <1>3. CASE /\ owner[m] = t /\ hold[m] = 1
             /\ held[t][Len(held[t])] = m
             /\ Restore(t, m)
             /\ IF suspend_thread[m] # <<>> THEN HandOver(m) ELSE Free(m)
             /\ held' = [held EXCEPT ![t] = ListRemove(@, m)]
    <2>1. CASE suspend_thread[m] # <<>>
      BY <1>3, <2>1, ReleaseHandOverInv
    <2>2. CASE suspend_thread[m] = <<>>
      BY <1>3, <2>2, ReleaseFreeInv
    <2> QED BY <2>1, <2>2
  <1> QED BY <1>1, <1>2, <1>3
-----------------------------------------------------------------------------
(* Deletion.                                                               *)

LEMMA DeleteBeginInv ==
    ASSUME MutexInv, NEW t \in Thread, NEW m \in Mutex, rt_mutex_delete(t, m)
    PROVE  MutexInv'
  <1> USE DEF MutexInv, ipcVars, mutexVars, history
  <1>0. /\ pc[t] = "run" /\ on[t] = NoMutex /\ NoMutex # m /\ exists[m]
        /\ stat[t] # "suspend"
        /\ \A u \in Thread : on[u] = m => pc[u] = "wait" /\ stat[u] = "suspend" /\ ~timer[u]
    BY MutexAssumption DEF rt_mutex_delete, Usable, CallInv
  <1>1. /\ pc' = [pc EXCEPT ![t] = "test"] /\ on' = [on EXCEPT ![t] = m]
        /\ UNCHANGED <<stat, error, timer, wild, current_priority, value, owner, hold,
                       original_priority, suspend_thread, exists, held, lowered>>
    BY DEF rt_mutex_delete
  <1>2. \A u \in Thread : /\ u # t => pc'[u] = pc[u] /\ on'[u] = on[u]
                          /\ u = t => pc'[u] = "test" /\ on'[u] = m
    BY <1>1 DEF TypeOK
  <1>3. TypeOK'
    BY <1>1 DEF TypeOK, IpcTypeOK
  <1>4. \A u \in Thread, n \in Mutex :
          /\ Granted(u, n)' <=> Granted(u, n)
          /\ (stat'[u] = "suspend" /\ pc'[u] = "wait" /\ on'[u] = n) <=>
             (stat[u] = "suspend" /\ pc[u] = "wait" /\ on[u] = n)
    BY <1>0, <1>1, <1>2 DEF Granted
  <1>5. Ownership'
    BY <1>1, <1>4 DEF Ownership
  <1>6. PriorityRestored' /\ OriginInv'
    BY <1>1, <1>4 DEF PriorityRestored, OriginInv
  <1>7. InheritInv' /\ OrderInv'
    BY <1>1 DEF InheritInv, OrderInv
  <1>8. CallInv'
    BY <1>0, <1>1, <1>2 DEF CallInv
  <1>9. GoneInv'
    BY <1>0, <1>1, <1>2 DEF GoneInv
  <1>10. /\ owner[m] \in {t, NoThread}
         /\ owner[m] = t => held[t][Len(held[t])] = m
         /\ held[t] = <<m>> => current_priority[t] = Priority[t]
    <2>1. CASE value[m] = 1
      <3>1. owner[m] = NoThread /\ owner[m] # t
        BY <1>0, <2>1, MutexAssumption DEF Ownership
      <3>2. held[t] # <<m>>
        <4> SUFFICES ASSUME held[t] = <<m>> PROVE FALSE
          OBVIOUS
        <4>1. InList(held[t], m)
          BY DEF InList
        <4> QED BY <1>0, <3>1, <4>1 DEF Ownership
      <3> QED BY <3>1, <3>2
    <2>2. CASE /\ owner[m] = t /\ held[t][Len(held[t])] = m
               /\ current_priority[t] = original_priority[m]
      <3>1. held[t] = <<m>> => held[t] # <<>> /\ held[t][1] = m
        OBVIOUS
      <3> QED BY <2>2, <3>1 DEF OriginInv
    <2> QED BY <2>1, <2>2 DEF rt_mutex_delete
  <1>11. DeleteInv'
    <2>1. \A u \in Thread : pc[u] \in {"test", "next"} => on[u] # m
      BY <1>0
    <2>2. \A u \in Thread : u # t /\ on'[u] = m =>
            pc[u] = "wait" /\ stat[u] = "suspend" /\ ~timer[u]
      BY <1>0, <1>2
    <2>3. ASSUME NEW u \in Thread, u # t, pc[u] \in {"test", "next"}
          PROVE  /\ owner[on[u]] \in {u, NoThread}
                 /\ owner[on[u]] = u => held[u][Len(held[u])] = on[u]
                 /\ held[u] = <<on[u]>> => current_priority[u] = Priority[u]
                 /\ pc[u] = "next" => suspend_thread[on[u]] # <<>>
                 /\ \A x \in Thread \ {u} : on'[x] = on[u] =>
                      /\ pc'[x] = "wait" /\ ~timer[x]
                      /\ stat[x] = "suspend" \/ error[x] # "EOK"
      BY <1>2, <2>1, <2>3 DEF DeleteInv
    <2> QED BY <1>1, <1>2, <1>10, <2>2, <2>3 DEF DeleteInv
  <1> QED BY <1>3, <1>5, <1>6, <1>7, <1>8, <1>9, <1>11

(* What a deleter knows of its mutex.                                      *)
LEMMA DeleterFacts ==
    ASSUME MutexInv, NEW t \in Thread, pc[t] \in {"test", "next"}
    PROVE  /\ on[t] \in Mutex /\ exists[on[t]] /\ on[t] # NoMutex
           /\ stat[t] # "suspend" /\ \A n \in Mutex : ~Granted(t, n)
           /\ \A u \in Thread \ {t} : pc[u] \in {"test", "next"} => on[u] # on[t]
           /\ \A n \in Mutex : ~InList(suspend_thread[n], t)
  <1> USE DEF MutexInv
  <1>1. on[t] \in Mutex /\ on[t] # NoMutex
    BY DEF TypeOK, CallInv
  <1>2. exists[on[t]] /\ stat[t] # "suspend"
    BY <1>1 DEF GoneInv, CallInv
  <1>3. \A u \in Thread \ {t} : pc[u] \in {"test", "next"} => on[u] # on[t]
    BY DEF DeleteInv
  <1>4. \A n \in Mutex : ~InList(suspend_thread[n], t)
    BY <1>2, NoNodes DEF Ownership, GoneInv
  <1> QED BY <1>1, <1>2, <1>3, <1>4 DEF Granted

LEMMA TestNotEmptyInv ==
    ASSUME MutexInv, NEW t \in Thread, pc[t] = "test", suspend_thread[on[t]] # <<>>,
           pc' = [pc EXCEPT ![t] = "next"],
           UNCHANGED <<on, exists, held, ipcVars, current_priority, mutexVars,
                       suspend_thread, lowered>>
    PROVE  MutexInv'
  <1> USE DEF MutexInv, ipcVars, mutexVars
  <1>1. \A u \in Thread : /\ u # t => pc'[u] = pc[u]
                          /\ u = t => pc'[u] = "next"
    BY DEF TypeOK
  <1>2. TypeOK'
    BY DEF TypeOK, IpcTypeOK
  <1>3. \A u \in Thread, n \in Mutex :
          /\ Granted(u, n)' <=> Granted(u, n)
          /\ (stat'[u] = "suspend" /\ pc'[u] = "wait" /\ on'[u] = n) <=>
             (stat[u] = "suspend" /\ pc[u] = "wait" /\ on[u] = n)
    BY <1>1 DEF Granted
  <1>4. Ownership'
    BY <1>3 DEF Ownership
  <1>5. PriorityRestored' /\ OriginInv'
    BY <1>3 DEF PriorityRestored, OriginInv
  <1>6. InheritInv' /\ OrderInv'
    BY DEF InheritInv, OrderInv
  <1>7. CallInv'
    BY <1>1 DEF CallInv
  <1>8. GoneInv'
    BY <1>1 DEF GoneInv
  <1>9. DeleteInv'
    BY <1>1 DEF DeleteInv
  <1> QED BY <1>2, <1>4, <1>5, <1>6, <1>7, <1>8, <1>9

(* The end of a mutex.                                                     *)
LEMMA TestEmptyInv ==
    ASSUME MutexInv, NEW t \in Thread, pc[t] = "test", suspend_thread[on[t]] = <<>>,
           pc' = [pc EXCEPT ![t] = "run"], on' = [on EXCEPT ![t] = NoMutex],
           exists' = [exists EXCEPT ![on[t]] = FALSE],
           held' = [held EXCEPT ![t] = ListRemove(@, on[t])],
           UNCHANGED <<ipcVars, current_priority, mutexVars, suspend_thread, lowered>>
    PROVE  MutexInv'
  <1> USE DEF MutexInv, ipcVars, mutexVars
  <1> DEFINE m == on[t]
             h == ListRemove(held[t], m)
  <1>0. /\ m \in Mutex /\ exists[m] /\ m # NoMutex
        /\ stat[t] # "suspend" /\ \A n \in Mutex : ~Granted(t, n)
        /\ \A u \in Thread \ {t} : pc[u] \in {"test", "next"} => on[u] # m
        /\ \A n \in Mutex : ~InList(suspend_thread[n], t)
    BY DeleterFacts
  <1>1. /\ h \in Seq(Mutex) /\ NoRepeat(h)
        /\ \A x : InList(h, x) <=> InList(held[t], x) /\ x # m
        /\ h = <<>> => held[t] = <<>> \/ held[t] = <<m>>
        /\ h # <<>> => held[t] # <<>> /\ h[1] = held[t][1]
    <2>1. held[t] \in Seq(Mutex) /\ NoRepeat(held[t])
      BY DEF TypeOK, CallInv
    <2>2. InList(held[t], m) => held[t][Len(held[t])] = m
      BY <1>0 DEF Ownership, DeleteInv
    <2> HIDE DEF MutexInv, m
    <2>3. /\ h \in Seq(Mutex) /\ NoRepeat(h)
          /\ \A x : InList(h, x) <=> InList(held[t], x) /\ x # m
      BY <2>1, ListRemoveFacts
    <2>4. CASE InList(held[t], m)
      <3>1. held[t] # <<>>
        BY <2>4, NoNodes
      <3>2. /\ held[t] = <<m>> => h = <<>>
            /\ held[t] # <<m>> => h # <<>> /\ h[1] = held[t][1]
        BY <2>1, <2>2, <2>4, <3>1, LastRemoved, Zenon
      <3> HIDE DEF h
      <3> QED BY <2>3, <3>1, <3>2
    <2>5. CASE ~InList(held[t], m)
      <3>1. h = held[t]
        BY <2>5 DEF ListRemove
      <3> HIDE DEF h
      <3> QED BY <2>3, <3>1
    <2> QED BY <2>4, <2>5
  <1>2. /\ held' = [held EXCEPT ![t] = h] /\ exists' = [exists EXCEPT ![m] = FALSE]
        /\ UNCHANGED <<stat, error, timer, wild, current_priority, value, owner, hold,
                       original_priority, suspend_thread, lowered>>
        /\ suspend_thread[m] = <<>>
    OBVIOUS
  <1> HIDE DEF h
  <1>3. \A u \in Thread :
          /\ u # t => pc'[u] = pc[u] /\ on'[u] = on[u] /\ held'[u] = held[u]
          /\ u = t => pc'[u] = "run" /\ on'[u] = NoMutex /\ held'[u] = h
    BY <1>2 DEF TypeOK
  <1>4. \A n \in Mutex : /\ n # m => exists'[n] = exists[n]
                         /\ n = m => ~exists'[n]
    BY <1>0, <1>2 DEF TypeOK
  <1>5. TypeOK'
    <2>1. held' \in [Thread -> Seq(Mutex)]
      BY <1>1, <1>2 DEF TypeOK
    <2>2. exists' \in [Mutex -> BOOLEAN]
      BY <1>2, Zenon DEF TypeOK
    <2>3. /\ pc' \in [Thread -> {"run", "wait", "test", "next"}]
          /\ on' \in [Thread -> Mutex \cup {NoMutex}]
      BY DEF TypeOK
    <2> QED BY <1>2, <2>1, <2>2, <2>3 DEF TypeOK, IpcTypeOK
  <1>6. \A u \in Thread, n \in Mutex :
          /\ Granted(u, n)' <=> Granted(u, n)
          /\ (stat'[u] = "suspend" /\ pc'[u] = "wait" /\ on'[u] = n) <=>
             (stat[u] = "suspend" /\ pc[u] = "wait" /\ on[u] = n)
    BY <1>0, <1>2, <1>3 DEF Granted
  <1>7. \A u \in Thread, n \in Mutex : n # m => (InList(held'[u], n) <=> InList(held[u], n))
    BY <1>1, <1>3
  <1>8. Ownership'
    <2> SUFFICES ASSUME NEW n \in Mutex, exists'[n]
                 PROVE  /\ value[n] = 1 <=> owner[n] = NoThread
                        /\ value[n] = 1 <=> hold[n] = 0
                        /\ value[n] = 1 => suspend_thread[n] = <<>>
                             /\ original_priority[n] = NoPriority
                        /\ NoRepeat(suspend_thread[n])
                        /\ \A u \in Thread :
                             /\ InList(held'[u], n) \/ Granted(u, n)' <=> owner[n] = u
                             /\ InList(suspend_thread[n], u) <=>
                                  stat'[u] = "suspend" /\ pc'[u] = "wait" /\ on'[u] = n
      BY <1>2 DEF Ownership
    <2>1. n # m /\ exists[n]
      BY <1>4
    <2> QED BY <1>6, <1>7, <2>1 DEF Ownership
  <1>9. PriorityRestored'
    <2> SUFFICES ASSUME NEW u \in Thread, held'[u] = <<>>,
                        \A n \in Mutex : ~Granted(u, n)'
                 PROVE  current_priority[u] = Priority[u]
      BY <1>2 DEF PriorityRestored
    <2>1. CASE u = t
      BY <1>0, <1>1, <1>3, <2>1 DEF PriorityRestored, DeleteInv
    <2>2. CASE u # t
      BY <1>3, <1>6, <2>2 DEF PriorityRestored
    <2> QED BY <2>1, <2>2
  <1>10. InheritInv'
    <2> SUFFICES ASSUME Flag = "PRIO", NEW n \in Mutex, exists'[n], NEW w \in Thread,
                        InList(suspend_thread[n], w), held'[w] = <<>>,
                        owner[n] \in Thread \ lowered
                 PROVE  current_priority[owner[n]] <= current_priority[w]
      BY <1>2 DEF InheritInv
    <2>1. exists[n] /\ held[w] = <<>>
      BY <1>0, <1>3, <1>4
    <2> QED BY <2>1 DEF InheritInv
  <1>11. OrderInv'
    <2> SUFFICES ASSUME Flag = "PRIO", NEW n \in Mutex, NEW u \in Thread, NEW w \in Thread,
                        Before(suspend_thread[n], u, w), held'[w] = <<>>
                 PROVE  current_priority[u] <= current_priority[w]
      BY <1>2 DEF OrderInv
    <2>1. w # t
      BY <1>0 DEF Before, InList
    <2> QED BY <1>3, <2>1 DEF OrderInv
  <1>12. CallInv'
    <2>1. \A u \in Thread : /\ NoRepeat(held'[u])
                            /\ pc'[u] = "wait" => ~InList(held'[u], on'[u])
      BY <1>1, <1>3 DEF CallInv
    <2> QED BY <1>0, <1>2, <1>3, <2>1 DEF CallInv
  <1>13. GoneInv'
    <2>1. \A u \in Thread : ~InList(held'[u], m)
      <3>1. \A u \in Thread : u # t => ~InList(held[u], m)
        <4>1. owner[m] \in {t, NoThread}
          BY DEF DeleteInv
        <4> QED BY <1>0, <4>1, MutexAssumption DEF Ownership
      <3> QED BY <1>1, <1>3, <3>1
    <2>2. \A u \in Thread : on'[u] = m => pc'[u] = "wait" /\ stat[u] # "suspend"
                                           /\ error[u] # "EOK"
      <3> SUFFICES ASSUME NEW u \in Thread, on'[u] = m
                   PROVE  pc'[u] = "wait" /\ stat[u] # "suspend" /\ error[u] # "EOK"
        OBVIOUS
      <3>1. u # t /\ on[u] = m
        BY <1>0, <1>3
      <3>2. pc[u] = "wait" /\ (stat[u] = "suspend" \/ error[u] # "EOK")
        BY <3>1 DEF DeleteInv
      <3>3. stat[u] # "suspend"
        BY <1>0, <1>2, <3>1, <3>2, NoNodes DEF Ownership
      <3> QED BY <1>3, <3>1, <3>2, <3>3
    <2>3. ASSUME NEW n \in Mutex, n # m, ~exists'[n]
          PROVE  /\ suspend_thread[n] = <<>>
                 /\ \A u \in Thread :
                      /\ ~InList(held'[u], n)
                      /\ on'[u] = n => pc'[u] = "wait" /\ stat[u] # "suspend"
                                       /\ error[u] # "EOK"
      <3>1. ~exists[n] /\ n # NoMutex
        BY <1>4, <2>3, MutexAssumption
      <3> QED BY <1>3, <1>7, <2>3, <3>1 DEF GoneInv
    <2> QED BY <1>2, <2>1, <2>2, <2>3 DEF GoneInv
  <1>14. DeleteInv'
    <2> SUFFICES ASSUME NEW u \in Thread, pc'[u] \in {"test", "next"}
                 PROVE  /\ owner[on'[u]] \in {u, NoThread}
                        /\ owner[on'[u]] = u => held'[u][Len(held'[u])] = on'[u]
                        /\ held'[u] = <<on'[u]>> => current_priority[u] = Priority[u]
                        /\ pc'[u] = "next" => suspend_thread[on'[u]] # <<>>
                        /\ \A x \in Thread \ {u} : on'[x] = on'[u] =>
                             /\ pc'[x] = "wait" /\ ~timer[x]
                             /\ stat[x] = "suspend" \/ error[x] # "EOK"
      BY <1>2 DEF DeleteInv
    <2>1. u # t /\ pc'[u] = pc[u] /\ on'[u] = on[u] /\ held'[u] = held[u] /\ on[u] # NoMutex
      BY <1>3 DEF CallInv
    <2>2. \A x \in Thread : on'[x] = on[u] => x # t
      BY <1>3, <2>1
    <2> QED BY <1>3, <2>1, <2>2 DEF DeleteInv
  <1>15. OriginInv'
    <2>1. ASSUME NEW u \in Thread, held'[u] # <<>>
          PROVE  original_priority[held'[u][1]] = Priority[u]
      <3>1. held[u] # <<>> /\ held'[u][1] = held[u][1]
        BY <1>1, <1>3, <2>1
      <3> QED BY <3>1 DEF OriginInv
    <2>2. \A u \in Thread, n \in Mutex : held'[u] = <<>> /\ Granted(u, n)' =>
            original_priority[n] = Priority[u]
      BY <1>0, <1>3, <1>6 DEF OriginInv
    <2>3. \A n \in Mutex :
            exists'[n] /\ owner[n] # NoThread => original_priority[n] < NoPriority
      BY <1>4 DEF OriginInv
    <2> QED BY <1>2, <2>1, <2>2, <2>3 DEF OriginInv
  <1> QED BY <1>5, <1>8, <1>9, <1>10, <1>11, <1>12, <1>13, <1>14, <1>15
(* One waiter is thrown out.                                               *)
LEMMA ResumeNextInv ==
    ASSUME MutexInv, NEW t \in Thread, ResumeAllNext(t)
    PROVE  MutexInv'
  <1> USE DEF MutexInv, mutexVars, history
  <1> DEFINE m == on[t]
             s == suspend_thread[m]
             w == Head(s)
             r == ListRemove(s, w)
  <1>0. /\ pc[t] = "next" /\ m \in Mutex /\ exists[m] /\ s # <<>>
        /\ stat[t] # "suspend" /\ \A n \in Mutex : ~Granted(t, n)
        /\ \A u \in Thread \ {t} : pc[u] \in {"test", "next"} => on[u] # m
        /\ ~InList(s, t)
    BY DeleterFacts DEF ResumeAllNext, DeleteInv
  <1>1. s \in Seq(Thread) /\ NoRepeat(s)
    BY <1>0 DEF TypeOK, Ownership
  <1>2. /\ w \in Thread /\ InList(s, w) /\ r \in Seq(Thread) /\ NoRepeat(r)
        /\ \A x : InList(r, x) <=> InList(s, x) /\ x # w
        /\ \A u, x : Before(r, u, x) => Before(s, u, x)
    <2> HIDE DEF MutexInv, s
    <2>1. w \in Thread /\ InList(s, w)
      BY <1>0, <1>1, EmptyList
    <2> HIDE DEF w
    <2> QED BY <1>1, <2>1, ListRemoveFacts, RemoveOrder
  <1>3. /\ stat' = [stat EXCEPT ![w] = "ready"]
        /\ error' = [error EXCEPT ![w] = "ERROR"]
        /\ timer' = [timer EXCEPT ![w] = FALSE]
        /\ suspend_thread' = [suspend_thread EXCEPT ![m] = r]
        /\ pc' = [pc EXCEPT ![t] = "test"]
        /\ UNCHANGED <<wild, current_priority, value, owner, hold, original_priority,
                       exists, on, held, lowered>>
    BY <1>0 DEF ResumeAllNext, ResumeNext
  <1> HIDE DEF r, w
  <1>4. /\ stat[w] = "suspend" /\ pc[w] = "wait" /\ on[w] = m /\ w # t
        /\ value[m] # 1
    BY <1>0, <1>2 DEF Ownership
  <1>5. \A u \in Thread :
          /\ u = w => stat'[u] = "ready" /\ ~timer'[u] /\ error'[u] = "ERROR"
          /\ u # w => stat'[u] = stat[u] /\ timer'[u] = timer[u] /\ error'[u] = error[u]
          /\ u = t => pc'[u] = "test"
          /\ u # t => pc'[u] = pc[u]
    BY <1>3 DEF TypeOK, IpcTypeOK
  <1>6. \A n \in Mutex : /\ n = m => suspend_thread'[n] = r
                         /\ n # m => suspend_thread'[n] = suspend_thread[n]
    BY <1>3 DEF TypeOK
  <1>7. TypeOK'
    <2>1. suspend_thread' \in [Mutex -> Seq(Thread)]
      BY <1>2, <1>3 DEF TypeOK
    <2>2. IpcTypeOK' /\ ~wild'
      BY <1>3 DEF TypeOK, IpcTypeOK, Errors
    <2>3. /\ exists' \in [Mutex -> BOOLEAN]
          /\ pc' \in [Thread -> {"run", "wait", "test", "next"}]
      BY <1>3 DEF TypeOK
    <2> QED BY <1>3, <2>1, <2>2, <2>3 DEF TypeOK
  <1>8. \A u \in Thread, n \in Mutex : Granted(u, n)' <=> Granted(u, n)
    <2> SUFFICES ASSUME NEW u \in Thread, NEW n \in Mutex
                 PROVE  Granted(u, n)' <=> Granted(u, n)
      OBVIOUS
    <2>1. u = w => ~Granted(u, n) /\ ~Granted(u, n)'
      BY <1>4, <1>5 DEF Granted
    <2>2. u = t => ~Granted(u, n) /\ ~Granted(u, n)'
      BY <1>0, <1>5 DEF Granted
    <2>3. u # w /\ u # t => (Granted(u, n)' <=> Granted(u, n))
      BY <1>3, <1>5 DEF Granted
    <2> QED BY <2>1, <2>2, <2>3
  <1>9. \A n \in Mutex : \A u \in Thread :
          InList(suspend_thread'[n], u) <=> InList(suspend_thread[n], u) /\ ~(n = m /\ u = w)
    BY <1>2, <1>6
  <1>10. Ownership'
    <2> SUFFICES ASSUME NEW n \in Mutex, exists[n]
                 PROVE  /\ value[n] = 1 <=> owner[n] = NoThread
                        /\ value[n] = 1 <=> hold[n] = 0
                        /\ value[n] = 1 => suspend_thread'[n] = <<>>
                             /\ original_priority[n] = NoPriority
                        /\ NoRepeat(suspend_thread'[n])
                        /\ \A u \in Thread :
                             /\ InList(held[u], n) \/ Granted(u, n)' <=> owner[n] = u
                             /\ InList(suspend_thread'[n], u) <=>
                                  stat'[u] = "suspend" /\ pc'[u] = "wait" /\ on[u] = n
      BY <1>3 DEF Ownership
    <2>1. value[n] = 1 => suspend_thread'[n] = <<>>
      BY <1>4, <1>6 DEF Ownership
    <2>2. NoRepeat(suspend_thread'[n])
      BY <1>2, <1>6 DEF Ownership
    <2>3. \A u \in Thread : InList(suspend_thread'[n], u) <=>
            stat'[u] = "suspend" /\ pc'[u] = "wait" /\ on[u] = n
      BY <1>0, <1>4, <1>5, <1>9 DEF Ownership
    <2> QED BY <1>8, <2>1, <2>2, <2>3 DEF Ownership
  <1>11. PriorityRestored' /\ OriginInv'
    BY <1>3, <1>8 DEF PriorityRestored, OriginInv
  <1>12. InheritInv'
    BY <1>3, <1>9 DEF InheritInv
  <1>13. OrderInv'
    <2>1. \A n \in Mutex : \A u, x \in Thread :
            Before(suspend_thread'[n], u, x) => Before(suspend_thread[n], u, x)
      BY <1>2, <1>6
    <2> QED BY <1>3, <2>1 DEF OrderInv
  <1>14. CallInv'
    <2>1. \A u \in Thread : /\ stat'[u] = "suspend" => stat[u] = "suspend" /\ u # w
                            /\ timer'[u] => timer[u] /\ u # w
      BY <1>5
    <2>2. \A u \in Thread : /\ pc'[u] = "run" <=> pc[u] = "run"
                            /\ pc'[u] = "wait" <=> pc[u] = "wait"
      BY <1>0, <1>5
    <2> QED BY <1>3, <1>5, <2>1, <2>2 DEF CallInv
  <1>15. GoneInv'
    <2>1. \A n \in Mutex : ~exists[n] => n # m /\ suspend_thread'[n] = suspend_thread[n]
      BY <1>0, <1>6
    <2>2. \A n \in Mutex, u \in Thread : ~exists[n] /\ on[u] = n => u # w /\ u # t
      BY <1>0, <1>4
    <2> QED BY <1>3, <1>5, <2>1, <2>2 DEF GoneInv
  <1>16. DeleteInv'
    <2> SUFFICES ASSUME NEW u \in Thread, pc'[u] \in {"test", "next"}
                 PROVE  /\ owner[on[u]] \in {u, NoThread}
                        /\ owner[on[u]] = u => held[u][Len(held[u])] = on[u]
                        /\ held[u] = <<on[u]>> => current_priority[u] = Priority[u]
                        /\ pc'[u] = "next" => suspend_thread'[on[u]] # <<>>
                        /\ \A x \in Thread \ {u} : on[x] = on[u] =>
                             /\ pc'[x] = "wait" /\ ~timer'[x]
                             /\ stat'[x] = "suspend" \/ error'[x] # "EOK"
      BY <1>3 DEF DeleteInv
    <2>0. pc[u] \in {"test", "next"}
      BY <1>0, <1>5
    <2>1. pc'[u] = "next" => suspend_thread'[on[u]] # <<>>
      <3> SUFFICES ASSUME pc'[u] = "next" PROVE suspend_thread'[on[u]] # <<>>
        OBVIOUS
      <3>1. u # t /\ on[u] # m /\ on[u] \in Mutex /\ pc[u] = "next"
        BY <1>0, <1>5, <2>0, DeleterFacts
      <3> QED BY <1>6, <3>1 DEF DeleteInv
    <2>2. \A x \in Thread \ {u} : on[x] = on[u] =>
            /\ pc'[x] = "wait" /\ ~timer'[x]
            /\ stat'[x] = "suspend" \/ error'[x] # "EOK"
      <3> SUFFICES ASSUME NEW x \in Thread \ {u}, on[x] = on[u]
                   PROVE  /\ pc'[x] = "wait" /\ ~timer'[x]
                          /\ stat'[x] = "suspend" \/ error'[x] # "EOK"
        OBVIOUS
      <3>1. /\ pc[x] = "wait" /\ ~timer[x]
            /\ stat[x] = "suspend" \/ error[x] # "EOK"
        BY <2>0 DEF DeleteInv
      <3> QED BY <1>0, <1>5, <3>1
    <2> QED BY <2>0, <2>1, <2>2 DEF DeleteInv
  <1> QED BY <1>7, <1>10, <1>11, <1>12, <1>13, <1>14, <1>15, <1>16

LEMMA CreateInv ==
    ASSUME MutexInv, NEW m \in Mutex, rt_mutex_init(m)
    PROVE  MutexInv'
  <1> USE DEF MutexInv, ipcVars, local, history
  <1>0. /\ ~exists[m] /\ suspend_thread[m] = <<>>
        /\ \A u \in Thread : /\ ~InList(held[u], m) /\ ~Granted(u, m)
                             /\ on[u] = m => pc[u] = "wait" /\ stat[u] # "suspend"
    BY DEF rt_mutex_init, GoneInv, Granted
  <1>1. /\ exists' = [exists EXCEPT ![m] = TRUE]
        /\ value' = [value EXCEPT ![m] = 1]
        /\ owner' = [owner EXCEPT ![m] = NoThread]
        /\ hold' = [hold EXCEPT ![m] = 0]
        /\ original_priority' = [original_priority EXCEPT ![m] = NoPriority]
        /\ suspend_thread' = suspend_thread
        /\ UNCHANGED <<stat, error, timer, wild, current_priority, pc, on, held, lowered>>
    BY <1>0 DEF rt_mutex_init, TypeOK
  <1>2. \A n \in Mutex :
          /\ n = m => /\ value'[n] = 1 /\ hold'[n] = 0 /\ owner'[n] = NoThread
                      /\ original_priority'[n] = NoPriority /\ exists'[n]
          /\ n # m => /\ value'[n] = value[n] /\ hold'[n] = hold[n]
                      /\ owner'[n] = owner[n] /\ exists'[n] = exists[n]
                      /\ original_priority'[n] = original_priority[n]
    BY <1>1 DEF TypeOK
  <1>3. TypeOK'
    <2>1. hold' \in [Mutex -> 0 .. MaxHold] /\ value' \in [Mutex -> 0 .. 1]
      BY <1>1, MutexAssumption DEF TypeOK
    <2>2. original_priority' \in [Mutex -> 0 .. NoPriority]
      BY <1>1, MutexAssumption DEF TypeOK
    <2>3. exists' \in [Mutex -> BOOLEAN]
      BY <1>1, Zenon DEF TypeOK
    <2>4. owner' \in [Mutex -> Thread \cup {NoThread}]
      BY <1>1 DEF TypeOK
    <2> QED BY <1>1, <2>1, <2>2, <2>3, <2>4 DEF TypeOK, IpcTypeOK
  <1>4. \A u \in Thread, n \in Mutex : Granted(u, n)' <=> Granted(u, n)
    BY <1>1 DEF Granted
  <1>5. Ownership'
    <2> SUFFICES ASSUME NEW n \in Mutex, exists'[n]
                 PROVE  /\ value'[n] = 1 <=> owner'[n] = NoThread
                        /\ value'[n] = 1 <=> hold'[n] = 0
                        /\ value'[n] = 1 => suspend_thread[n] = <<>>
                             /\ original_priority'[n] = NoPriority
                        /\ NoRepeat(suspend_thread[n])
                        /\ \A u \in Thread :
                             /\ InList(held[u], n) \/ Granted(u, n)' <=> owner'[n] = u
                             /\ InList(suspend_thread[n], u) <=>
                                  stat[u] = "suspend" /\ pc[u] = "wait" /\ on[u] = n
      BY <1>1 DEF Ownership
    <2>1. CASE n = m
      BY <1>0, <1>2, <1>4, <2>1, NoNodes, MutexAssumption
    <2>2. CASE n # m
      BY <1>2, <1>4, <2>2 DEF Ownership
    <2> QED BY <2>1, <2>2
  <1>6. PriorityRestored' /\ CallInv' /\ OrderInv'
    BY <1>1, <1>4 DEF PriorityRestored, CallInv, OrderInv
  <1>7. InheritInv'
    BY <1>0, <1>1, <1>2, NoNodes DEF InheritInv
  <1>8. GoneInv'
    BY <1>1, <1>2 DEF GoneInv
  <1>9. DeleteInv'
    <2>1. \A u \in Thread : pc[u] \in {"test", "next"} => owner'[on[u]] = owner[on[u]]
      <3>1. \A u \in Thread : pc[u] \in {"test", "next"} => on[u] \in Mutex /\ on[u] # m
        BY <1>0, DeleterFacts
      <3> QED BY <1>2, <3>1
    <2> QED BY <1>1, <2>1 DEF DeleteInv
  <1>10. OriginInv'
    <2>1. ASSUME NEW u \in Thread, held[u] # <<>>
          PROVE  original_priority'[held[u][1]] = Priority[u]
      <3>1. held[u] \in Seq(Mutex)
        BY DEF TypeOK
      <3>2. held[u][1] \in Mutex /\ InList(held[u], held[u][1])
        BY <2>1, <3>1, EmptyList
      <3>3. held[u][1] # m
        BY <1>0, <3>2
      <3> QED BY <1>2, <2>1, <3>2, <3>3 DEF OriginInv
    <2>2. \A u \in Thread, n \in Mutex : held[u] = <<>> /\ Granted(u, n)' =>
            original_priority'[n] = Priority[u]
      BY <1>0, <1>2, <1>4 DEF OriginInv
    <2>3. \A n \in Mutex :
            exists'[n] /\ owner'[n] # NoThread => original_priority'[n] < NoPriority
      BY <1>2 DEF OriginInv
    <2> QED BY <1>1, <2>1, <2>2, <2>3 DEF OriginInv
  <1> QED BY <1>3, <1>5, <1>6, <1>7, <1>8, <1>9, <1>10

LEMMA NextInv == MutexInv /\ [Next]_vars => MutexInv'
  <1> SUFFICES ASSUME MutexInv, [Next]_vars PROVE MutexInv'
    OBVIOUS
  <1>1. ASSUME NEW t \in Thread, NEW m \in Mutex, NEW time \in Times,
               rt_mutex_take(t, m, time)
        PROVE  MutexInv'
    BY <1>1, TakeInv
  <1>2. ASSUME NEW t \in Thread, NEW m \in Mutex, rt_mutex_release(t, m)
        PROVE  MutexInv'
    BY <1>2, ReleaseInv
  <1>3. ASSUME NEW t \in Thread, NEW m \in Mutex, rt_mutex_delete(t, m)
        PROVE  MutexInv'
    BY <1>3, DeleteBeginInv
  <1>4. ASSUME NEW t \in Thread, Resumed(t) PROVE MutexInv'
    BY <1>4, ResumedInv
  <1>5. ASSUME NEW t \in Thread, Timeout(t) PROVE MutexInv'
    BY <1>5, TimeoutInv
  <1>6. ASSUME NEW t \in Thread, ResumeAllTest(t) PROVE MutexInv'
    BY <1>6, TestNotEmptyInv, TestEmptyInv DEF ResumeAllTest
  <1>7. ASSUME NEW t \in Thread, ResumeAllNext(t) PROVE MutexInv'
    BY <1>7, ResumeNextInv
  <1>8. ASSUME NEW m \in Mutex, rt_mutex_init(m) PROVE MutexInv'
    BY <1>8, CreateInv
  <1>9. CASE UNCHANGED vars
    <2> USE <1>9 DEF vars, ipcVars, mutexVars, local, history, MutexInv
    <2>1. TypeOK'
      BY DEF TypeOK, IpcTypeOK
    <2>2. \A u \in Thread, n \in Mutex : Granted(u, n)' <=> Granted(u, n)
      BY DEF Granted
    <2>3. Ownership' /\ PriorityRestored' /\ OriginInv'
      BY <2>2 DEF Ownership, PriorityRestored, OriginInv
    <2>4. InheritInv' /\ OrderInv' /\ CallInv'
      BY DEF InheritInv, OrderInv, CallInv
    <2>5. GoneInv' /\ DeleteInv'
      BY DEF GoneInv, DeleteInv
    <2> QED BY <2>1, <2>3, <2>4, <2>5
  <1> QED BY <1>1, <1>2, <1>3, <1>4, <1>5, <1>6, <1>7, <1>8, <1>9 DEF Next

-----------------------------------------------------------------------------
(* MutexInv holds in every reachable state of the mutexes.                 *)
THEOREM Inductive == Spec => []MutexInv
  BY InitInv, NextInv, PTL DEF Spec

(* Every field of the mutexes and of the waiting threads keeps its type,   *)
(* and the loop of a deletion resumes threads only.                        *)
THEOREM TypeCorrect == Spec => []TypeOK
  <1>1. MutexInv => TypeOK
    BY DEF MutexInv
  <1> QED BY <1>1, Inductive, PTL

(* Mutual exclusion: through takes, recursive takes, hand-overs, timeouts  *)
(* and deletions the owner field names the one thread that has the mutex,  *)
(* and a mutex that is free has no waiter.                                 *)
THEOREM Owned == Spec => []Ownership
  <1>1. MutexInv => Ownership
    BY DEF MutexInv
  <1> QED BY <1>1, Inductive, PTL

(* A thread that has given up its last mutex runs at its own priority.     *)
THEOREM Restored == Spec => []PriorityRestored
  <1>1. MutexInv => PriorityRestored
    BY DEF MutexInv
  <1> QED BY <1>1, Inductive, PTL

(* The owner of a mutex is at least as urgent as those that wait for it.   *)
THEOREM Inheritance == Spec => []Inherited
  <1>1. MutexInv => Inherited
    BY InheritedLinked DEF MutexInv
  <1> QED BY <1>1, Inductive, PTL
=============================================================================
