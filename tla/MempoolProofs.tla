--------------------------- MODULE MempoolProofs ---------------------------
(* Proofs about Mempool, for every set of threads and of blocks.           *)
EXTENDS Mempool, RtListProofs, FiniteSetTheorems, TLAPS

-----------------------------------------------------------------------------
(* The chain of blocks.                                                    *)

(* A list without repetition is no longer than the set it is drawn from,   *)
(* and one of that length holds every element.                             *)
LEMMA ListOfSet ==
    ASSUME NEW S, IsFiniteSet(S), NEW s \in Seq(S), NoRepeat(s)
    PROVE  /\ Len(s) <= Cardinality(S) /\ Cardinality(S) \in Nat
           /\ Len(s) = Cardinality(S) => \A x \in S : InList(s, x)
  <1> DEFINE D == 1 .. Len(s)
  <1>1. s \in [D -> S] /\ Len(s) \in Nat
    OBVIOUS
  <1>2. IsFiniteSet(D) /\ Cardinality(D) = Len(s)
    <2>1. /\ IsFiniteSet(D)
          /\ Cardinality(D) = IF 1 > Len(s) THEN 0 ELSE Len(s) - 1 + 1
      BY <1>1, FS_Interval
    <2> QED BY <1>1, <2>1
  <1> HIDE DEF D
  <1>3. s \in Injection(D, S)
    BY <1>1 DEF Injection, IsInjective, NoRepeat, D
  <1>4. Cardinality(D) <= Cardinality(S)
        /\ (Cardinality(D) = Cardinality(S) <=> s \in Surjection(D, S))
    BY <1>3, FS_Injection
  <1>5. s \in Surjection(D, S) => \A x \in S : InList(s, x)
    BY DEF Surjection, InList, D
  <1> QED BY <1>2, <1>4, <1>5, FS_CardinalityType

(* rt_mp_init chains every block once.                                     *)
LEMMA FirstChainFacts ==
    /\ FirstChain \in Seq(Block) /\ NoRepeat(FirstChain)
    /\ Len(FirstChain) = Cardinality(Block) /\ Cardinality(Block) \in Nat
    /\ \A x \in Block : InList(FirstChain, x)
  <1> DEFINE n == Cardinality(Block)
  <1>1. n \in Nat /\ ExistsBijection(1 .. n, Block)
    BY MempoolAssumption, FS_CardinalityType
  <1> HIDE DEF n
  <1>2. PICK f : f \in Bijection(1 .. n, Block)
    BY <1>1 DEF ExistsBijection
  <1>3. f \in [1 .. n -> Block] /\ IsInjective(f)
    BY <1>2 DEF Bijection, Injection
  <1>4. f \in Chains
    <2>1. Len(f) = n
      BY <1>1, <1>3
    <2> QED BY <1>3, <2>1 DEF Chains, NoRepeat, IsInjective, n
  <1>5. FirstChain \in [1 .. n -> Block] /\ NoRepeat(FirstChain)
    BY <1>4 DEF FirstChain, Chains, n
  <1>6. FirstChain \in Seq(Block) /\ Len(FirstChain) = n
    BY <1>1, <1>5
  <1> QED BY <1>1, <1>5, <1>6, ListOfSet, MempoolAssumption DEF n

-----------------------------------------------------------------------------
(* The inductive invariant.  A deletion under way is alone and no timer    *)
(* runs, so that nobody leaves the list between its test and its turn; no  *)
(* thread is resumed for a block of a pool that goes away or is gone; and  *)
(* every waiter would return RT_EOK if it were resumed by rt_mp_free.      *)

DeleteInv ==
    \A t \in Thread : pc[t] \in {"test", "next"} =>
      /\ alive
      /\ \A u \in Thread : ~timer[u] /\ (pc[u] \in {"test", "next"} => u = t)
      /\ pc[t] = "next" => suspend_thread # <<>>

WaitInv ==
    /\ ~alive => suspend_thread = <<>>
    /\ \A t \in Thread : stat[t] = "suspend" => error[t] = "EOK"
    /\ \A t \in Pending : Usable

MempoolInv ==
    /\ TypeOK
    /\ BlocksConserved
    /\ WaitersQueued
    /\ NoLostWakeup
    /\ DeleteInv
    /\ WaitInv

(* The resumed threads are finitely many.                                  *)
LEMMA PendingFinite ==
    /\ IsFiniteSet(Pending) /\ Cardinality(Pending) \in Nat
    /\ IsFiniteSet(Pending') /\ Cardinality(Pending') \in Nat
  <1>1. Pending \subseteq Thread /\ Pending' \subseteq Thread
    BY DEF Pending
  <1> QED BY <1>1, IpcAssumption, FS_Subset, FS_CardinalityType

LEMMA EmptyWaitList ==
    /\ <<>> \in Seq(Thread) /\ NoRepeat(<<>>) /\ Len(<<>>) = 0
    /\ \A x : ~InList(<<>>, x)
  BY DEF NoRepeat, InList

LEMMA InitInv == Init => MempoolInv
  <1> SUFFICES ASSUME Init PROVE MempoolInv
    OBVIOUS
  <1>1. TypeOK
    <2>1. IpcTypeOK
      BY Zenon DEF Init, IpcInit, IpcTypeOK, Errors
    <2>2. /\ block_list \in Seq(Block) /\ block_free_count \in 0 .. Cardinality(Block)
          /\ suspend_thread_count \in 0 .. MaxCount
      BY FirstChainFacts, MempoolAssumption DEF Init
    <2>3. suspend_thread \in Seq(Thread)
      BY EmptyWaitList DEF Init
    <2>4. /\ alive \in BOOLEAN /\ pc \in [Thread -> Pcs] /\ left \in [Thread -> Times]
          /\ holder \in [Block -> Thread \cup {NoThread}]
      BY DEF Init, Pcs, Times
    <2> QED BY <2>1, <2>2, <2>3, <2>4 DEF TypeOK
  <1>2. BlocksConserved
    BY FirstChainFacts DEF Init, BlocksConserved
  <1>3. WaitersQueued /\ NoLostWakeup
    BY EmptyWaitList DEF Init, IpcInit, WaitersQueued, NoLostWakeup
  <1>4. DeleteInv /\ WaitInv
    BY DEF Init, IpcInit, DeleteInv, WaitInv, Pending
  <1> QED BY <1>1, <1>2, <1>3, <1>4 DEF MempoolInv

-----------------------------------------------------------------------------
(* Each action preserves the invariant.  rt_mp_alloc first: t, called or   *)
(* resumed, goes round its loop.                                           *)

MayAlloc(t) ==
    /\ Usable
    /\ pc[t] = "run" \/ t \in Pending

(* It takes the first block of the chain.                                  *)
LEMMA TakeBlockInv ==
    ASSUME MempoolInv, NEW t \in Thread, MayAlloc(t),
           block_free_count # 0, TakeBlock(t), Return(t),
           UNCHANGED <<ipcVars, wait, alive>>
    PROVE  MempoolInv'
  <1> USE DEF MempoolInv
  <1> DEFINE h == Head(block_list)
  <1>1. /\ h \in Block /\ InList(block_list, h)
        /\ Tail(block_list) \in Seq(Block) /\ NoRepeat(Tail(block_list))
        /\ \A x : InList(Tail(block_list), x) <=> InList(block_list, x) /\ x # h
        /\ Len(Tail(block_list)) = Len(block_list) - 1
    <2>1. block_list \in Seq(Block) /\ NoRepeat(block_list) /\ block_list # <<>>
      BY DEF BlocksConserved, TypeOK
    <2> HIDE DEF MempoolInv
    <2>2. Len(Tail(block_list)) = Len(block_list) - 1
      BY <2>1
    <2> QED BY <2>1, <2>2, TailFacts
  <1>2. /\ block_list' = Tail(block_list)
        /\ block_free_count' = block_free_count - 1
        /\ holder' = [holder EXCEPT ![h] = t]
        /\ pc' = [pc EXCEPT ![t] = "run"] /\ left' = [left EXCEPT ![t] = "zero"]
        /\ UNCHANGED <<stat, error, timer, wild, suspend_thread, suspend_thread_count, alive>>
    BY DEF TakeBlock, Return, ipcVars, wait
  <1> HIDE DEF h
  <1>3. Pending' = Pending \ {t}
    BY <1>2 DEF Pending, TypeOK
  <1>4. TypeOK'
    <2>1. block_free_count' \in 0 .. Cardinality(Block)
      BY <1>2, FirstChainFacts DEF TypeOK
    <2>2. /\ pc' \in [Thread -> Pcs] /\ left' \in [Thread -> Times]
          /\ holder' \in [Block -> Thread \cup {NoThread}]
      BY <1>1, <1>2 DEF TypeOK, Pcs, Times
    <2> QED BY <1>1, <1>2, <2>1, <2>2 DEF TypeOK, IpcTypeOK
  <1>5. BlocksConserved'
    <2>1. \A x \in Block : holder'[x] = IF x = h THEN t ELSE holder[x]
      BY <1>1, <1>2 DEF TypeOK
    <2>2. \A x \in Block : InList(block_list', x) <=> holder'[x] = NoThread
      BY <1>1, <1>2, <2>1, MempoolAssumption DEF BlocksConserved
    <2> QED BY <1>1, <1>2, <2>2 DEF BlocksConserved
  <1>6. WaitersQueued'
    BY <1>2 DEF WaitersQueued, TypeOK, MayAlloc, Pending
  <1>7. NoLostWakeup'
    <2> SUFFICES ASSUME suspend_thread # <<>>
                 PROVE  block_free_count' <= Cardinality(Pending')
      BY <1>2 DEF NoLostWakeup
    <2>1. block_free_count <= Cardinality(Pending) /\ block_free_count \in Int
      BY FirstChainFacts DEF NoLostWakeup, TypeOK
    <2>2. Cardinality(Pending') =
            IF t \in Pending THEN Cardinality(Pending) - 1 ELSE Cardinality(Pending)
      BY <1>3, PendingFinite, FS_RemoveElement
    <2> QED BY <1>2, <2>1, <2>2, PendingFinite
  <1>8. DeleteInv'
    BY <1>2 DEF DeleteInv, TypeOK
  <1>9. WaitInv'
    BY <1>2, <1>3 DEF WaitInv, TypeOK, Usable
  <1> QED BY <1>4, <1>5, <1>6, <1>7, <1>8, <1>9

(* It returns, because no block is free and no time is left.               *)
LEMMA AllocFailsInv ==
    ASSUME MempoolInv, NEW t \in Thread, MayAlloc(t),
           block_free_count = 0, Return(t),
           error' = [error EXCEPT ![t] = "ETIMEOUT"],
           UNCHANGED <<stat, timer, wild, pool, wait, holder, alive>>
    PROVE  MempoolInv'
  <1> USE DEF MempoolInv, Return, pool, wait
  <1>1. Pending' \subseteq Pending
    BY DEF Pending, TypeOK, IpcTypeOK
  <1>2. TypeOK'
    BY DEF TypeOK, IpcTypeOK, Pcs, Times, Errors
  <1>3. BlocksConserved'
    BY DEF BlocksConserved
  <1>4. WaitersQueued'
    BY DEF WaitersQueued, TypeOK, MayAlloc, Pending
  <1>5. NoLostWakeup'
    BY PendingFinite DEF NoLostWakeup
  <1>6. DeleteInv'
    BY DEF DeleteInv, TypeOK
  <1>7. WaitInv'
    <2>1. stat[t] # "suspend"
      BY DEF WaitersQueued, MayAlloc, Pending
    <2> QED BY <1>1, <2>1 DEF WaitInv, TypeOK, IpcTypeOK, Usable
  <1> QED BY <1>2, <1>3, <1>4, <1>5, <1>6, <1>7

(* It goes to sleep.                                                       *)
LEMMA AllocWaitsInv ==
    ASSUME MempoolInv, NEW t \in Thread, NEW time \in Times, MayAlloc(t),
           block_free_count = 0, suspend_thread_count < MaxCount,
           SuspendSelf(t, time), Enqueue(t),
           pc' = [pc EXCEPT ![t] = "alloc"], left' = [left EXCEPT ![t] = time],
           UNCHANGED <<pool, holder, alive>>
    PROVE  MempoolInv'
  <1> USE DEF MempoolInv, SuspendSelf, Enqueue, pool
  <1>1. stat[t] # "suspend" /\ ~InList(suspend_thread, t)
    BY DEF WaitersQueued, MayAlloc, Pending
  <1>2. /\ suspend_thread' \in Seq(Thread) /\ NoRepeat(suspend_thread')
        /\ \A x : InList(suspend_thread', x) <=> InList(suspend_thread, x) \/ x = t
        /\ Len(suspend_thread') = Len(suspend_thread) + 1
    <2>1. suspend_thread \in Seq(Thread) /\ NoRepeat(suspend_thread)
      BY DEF TypeOK, WaitersQueued
    <2>2. Len(InsertFirst(suspend_thread, t)) = Len(suspend_thread) + 1
      BY <2>1 DEF InsertFirst
    <2> QED BY <1>1, <2>1, <2>2, InsertFirstFacts
  <1>3. Pending' \subseteq Pending
    BY DEF Pending, TypeOK, IpcTypeOK
  <1>4. TypeOK'
    <2>1. suspend_thread_count' \in 0 .. MaxCount
      BY MempoolAssumption DEF TypeOK
    <2> QED BY <1>2, <2>1 DEF TypeOK, IpcTypeOK, Pcs, Errors
  <1>5. BlocksConserved'
    BY DEF BlocksConserved
  <1>6. WaitersQueued'
    <2>1. Len(suspend_thread') <= suspend_thread_count'
      BY <1>2, MempoolAssumption DEF WaitersQueued, TypeOK
    <2> QED BY <1>1, <1>2, <2>1 DEF WaitersQueued, TypeOK, IpcTypeOK
  <1>7. NoLostWakeup'
    BY PendingFinite DEF NoLostWakeup
  <1>8. DeleteInv'
    BY DEF DeleteInv, MayAlloc, Usable, TypeOK
  <1>9. WaitInv'
    BY <1>3 DEF WaitInv, TypeOK, IpcTypeOK, Usable, MayAlloc
  <1> QED BY <1>4, <1>5, <1>6, <1>7, <1>8, <1>9

LEMMA AllocLoopInv ==
    ASSUME MempoolInv, NEW t \in Thread, NEW time \in Times, MayAlloc(t),
           AllocLoop(t, time), UNCHANGED alive
    PROVE  MempoolInv'
  <1>1. CASE block_free_count # 0
    BY <1>1, TakeBlockInv DEF AllocLoop
  <1>2. CASE block_free_count = 0 /\ time = "zero"
    BY <1>2, AllocFailsInv DEF AllocLoop
  <1>3. CASE block_free_count = 0 /\ time # "zero"
    BY <1>3, AllocWaitsInv DEF AllocLoop
  <1> QED BY <1>1, <1>2, <1>3

LEMMA AllocInv ==
    ASSUME MempoolInv, NEW t \in Thread, NEW time \in Times, rt_mp_alloc(t, time)
    PROVE  MempoolInv'
  BY AllocLoopInv DEF rt_mp_alloc, MayAlloc

LEMMA ResumedInv ==
    ASSUME MempoolInv, NEW t \in Thread, Resumed(t)
    PROVE  MempoolInv'
  <1>1. CASE error[t] = "EOK"
    <2>1. t \in Pending
      BY <1>1 DEF Resumed, Pending
    <2>2. MayAlloc(t)
      BY <2>1 DEF MayAlloc, MempoolInv, WaitInv
    <2>3. PICK time \in TimeLeft(left[t]) : AllocLoop(t, time)
      BY <1>1 DEF Resumed
    <2>4. time \in Times
      BY DEF TimeLeft, Times, MempoolInv, TypeOK
    <2> QED BY <2>2, <2>3, <2>4, AllocLoopInv DEF Resumed
  <1>2. CASE error[t] # "EOK"
    <2> USE DEF MempoolInv, Return, Resumed, ipcVars, pool, wait
    <2>1. Pending' = Pending
      BY <1>2 DEF Pending, TypeOK
    <2>2. TypeOK'
      BY <1>2 DEF TypeOK, IpcTypeOK, Pcs, Times
    <2>3. BlocksConserved' /\ NoLostWakeup'
      BY <1>2, <2>1 DEF BlocksConserved, NoLostWakeup
    <2>4. WaitersQueued'
      BY <1>2 DEF WaitersQueued, TypeOK
    <2>5. DeleteInv'
      BY <1>2 DEF DeleteInv, TypeOK
    <2>6. WaitInv'
      BY <1>2, <2>1 DEF WaitInv, Usable, TypeOK
    <2> QED BY <2>2, <2>3, <2>4, <2>5, <2>6
  <1> QED BY <1>1, <1>2

(* A timeout takes its thread off the list and leaves the counter.         *)
LEMMA TimeoutInv ==
    ASSUME MempoolInv, NEW t \in Thread, Timeout(t)
    PROVE  MempoolInv'
  <1> USE DEF MempoolInv, Timeout, rt_thread_timeout, pool
  <1>1. stat[t] = "suspend" /\ \A u \in Thread : pc[u] \notin {"test", "next"}
    BY DEF WaitersQueued, DeleteInv
  <1>2. /\ suspend_thread' \in Seq(Thread) /\ NoRepeat(suspend_thread')
        /\ \A x : InList(suspend_thread', x) <=> InList(suspend_thread, x) /\ x # t
        /\ Len(suspend_thread') = Len(suspend_thread) - 1
        /\ suspend_thread # <<>> /\ Len(suspend_thread) \in Nat
    <2>1. /\ suspend_thread \in Seq(Thread) /\ NoRepeat(suspend_thread)
          /\ InList(suspend_thread, t)
      BY <1>1 DEF TypeOK, WaitersQueued
    <2> QED BY <2>1, ListRemoveFacts, ListRemoveLength, EmptyList
  <1>3. Pending' = Pending
    BY <1>1 DEF Pending, TypeOK, IpcTypeOK
  <1>4. TypeOK'
    BY <1>2 DEF TypeOK, IpcTypeOK, Errors
  <1>5. BlocksConserved'
    BY DEF BlocksConserved
  <1>6. WaitersQueued'
    <2>1. Len(suspend_thread') <= suspend_thread_count'
      BY <1>2, MempoolAssumption DEF WaitersQueued, TypeOK
    <2> QED BY <1>2, <2>1 DEF WaitersQueued, TypeOK, IpcTypeOK
  <1>7. NoLostWakeup'
    BY <1>2, <1>3 DEF NoLostWakeup
  <1>8. DeleteInv'
    BY <1>1 DEF DeleteInv
  <1>9. WaitInv'
    BY <1>2, <1>3 DEF WaitInv, TypeOK, IpcTypeOK, Usable
  <1> QED BY <1>4, <1>5, <1>6, <1>7, <1>8, <1>9

(* rt_mp_free puts the block at the head of the chain.                     *)
LEMMA FreeBlock ==
    ASSUME MempoolInv, NEW x \in Block, rt_mp_free(x)
    PROVE  /\ block_list' \in Seq(Block)
           /\ block_free_count' = block_free_count + 1
           /\ block_free_count' \in 0 .. Cardinality(Block)
           /\ holder' \in [Block -> Thread \cup {NoThread}]
           /\ BlocksConserved'
  <1> USE DEF MempoolInv, rt_mp_free
  <1>1. block_list \in Seq(Block) /\ NoRepeat(block_list) /\ ~InList(block_list, x)
    BY DEF TypeOK, BlocksConserved
  <1>2. block_list' = InsertFirst(block_list, x)
    OBVIOUS
  <1>3. /\ block_list' \in Seq(Block) /\ NoRepeat(block_list')
        /\ \A y : InList(block_list', y) <=> InList(block_list, y) \/ y = x
        /\ Len(block_list') = Len(block_list) + 1
    <2> HIDE DEF MempoolInv, rt_mp_free
    <2>1. Len(InsertFirst(block_list, x)) = Len(block_list) + 1
      BY <1>1 DEF InsertFirst
    <2> QED BY <1>1, <1>2, <2>1, InsertFirstFacts
  <1>4. /\ block_free_count' = block_free_count + 1
        /\ holder' = [holder EXCEPT ![x] = NoThread]
    OBVIOUS
  <1>5. Len(block_list') <= Cardinality(Block) /\ Cardinality(Block) \in Nat
    BY <1>3, ListOfSet, MempoolAssumption
  <1>6. block_free_count' = Len(block_list')
    BY <1>3, <1>4 DEF BlocksConserved
  <1>7. block_free_count' \in 0 .. Cardinality(Block)
    BY <1>3, <1>5, <1>6
  <1>8. holder' \in [Block -> Thread \cup {NoThread}]
    BY <1>4 DEF TypeOK
  <1>9. \A y \in Block : InList(block_list', y) <=> holder'[y] = NoThread
    BY <1>3, <1>4 DEF TypeOK, BlocksConserved
  <1> QED BY <1>3, <1>4, <1>6, <1>7, <1>8, <1>9 DEF BlocksConserved

(* It resumes the first waiter; a counter that timeouts left too large     *)
(* makes it resume the list head, which disturbs none of the pool.         *)
LEMMA FreeInv ==
    ASSUME MempoolInv, NEW x \in Block, rt_mp_free(x)
    PROVE  MempoolInv'
  <1> USE DEF MempoolInv
  <1>1. /\ block_list' \in Seq(Block)
        /\ block_free_count' = block_free_count + 1
        /\ block_free_count' \in 0 .. Cardinality(Block)
        /\ holder' \in [Block -> Thread \cup {NoThread}]
        /\ BlocksConserved'
    BY FreeBlock
  <1>2. Usable /\ UNCHANGED <<alive, pc, left>>
    BY DEF rt_mp_free
  <1>3. CASE suspend_thread = <<>>
    <2>1. /\ UNCHANGED <<stat, error, timer, suspend_thread>>
          /\ wild' \in BOOLEAN
          /\ suspend_thread_count' \in 0 .. MaxCount
      <3>1. suspend_thread_count \in Nat /\ suspend_thread_count <= MaxCount
        BY MempoolAssumption DEF TypeOK
      <3>2. CASE suspend_thread_count > 0
        <4>1. /\ UNCHANGED <<stat, error, timer, suspend_thread>>
              /\ wild' = TRUE
              /\ suspend_thread_count' = suspend_thread_count - 1
          BY <1>3, <3>2 DEF rt_mp_free
        <4> QED BY <3>1, <3>2, <4>1, MempoolAssumption
      <3>3. CASE ~(suspend_thread_count > 0)
        <4>1. UNCHANGED <<ipcVars, wait>>
          BY <3>3 DEF rt_mp_free
        <4> QED BY <4>1 DEF ipcVars, wait, TypeOK, IpcTypeOK
      <3> QED BY <3>2, <3>3
    <2>2. Pending' = Pending
      BY <1>2, <2>1 DEF Pending
    <2>3. TypeOK'
      BY <1>1, <1>2, <2>1 DEF TypeOK, IpcTypeOK
    <2>4. WaitersQueued' /\ NoLostWakeup'
      BY <1>2, <1>3, <2>1, EmptyWaitList, MempoolAssumption
         DEF WaitersQueued, NoLostWakeup
    <2>5. DeleteInv' /\ WaitInv'
      BY <1>2, <2>1, <2>2 DEF DeleteInv, WaitInv, Usable
    <2> QED BY <1>1, <2>3, <2>4, <2>5
  <1>4. CASE suspend_thread # <<>>
    <2> DEFINE h == Head(suspend_thread)
    <2>1. suspend_thread \in Seq(Thread) /\ NoRepeat(suspend_thread)
      BY DEF TypeOK, WaitersQueued
    <2>2. /\ Len(suspend_thread) \in Nat /\ Len(suspend_thread) >= 1
          /\ Len(Tail(suspend_thread)) = Len(suspend_thread) - 1
      <3> HIDE DEF MempoolInv
      <3> QED BY <1>4, <2>1
    <2>3. suspend_thread_count > 0
      BY <2>2, MempoolAssumption DEF WaitersQueued, TypeOK
    <2>4. /\ rt_thread_resume(h)
          /\ suspend_thread' = Tail(suspend_thread)
          /\ suspend_thread_count' = suspend_thread_count - 1
      BY <1>4, <2>3 DEF rt_mp_free
    <2>5. /\ h \in Thread /\ InList(suspend_thread, h)
          /\ suspend_thread' \in Seq(Thread)
          /\ NoRepeat(suspend_thread')
          /\ \A y : InList(suspend_thread', y) <=> InList(suspend_thread, y) /\ y # h
      <3> HIDE DEF MempoolInv
      <3> QED BY <1>4, <2>1, <2>4, TailFacts
    <2> HIDE DEF h
    <2> USE DEF rt_thread_resume
    <2>6. stat[h] = "suspend" /\ pc[h] = "alloc" /\ error[h] = "EOK"
      BY <2>5 DEF WaitersQueued, WaitInv
    <2>7. Pending' = Pending \cup {h} /\ h \notin Pending
      BY <1>2, <2>4, <2>5, <2>6 DEF Pending, TypeOK, IpcTypeOK
    <2>8. TypeOK'
      <3>1. suspend_thread_count' \in 0 .. MaxCount
        BY <2>3, <2>4, MempoolAssumption DEF TypeOK
      <3> QED BY <1>1, <1>2, <2>4, <2>5, <3>1 DEF TypeOK, IpcTypeOK
    <2>9. WaitersQueued'
      <3>1. Len(suspend_thread') <= suspend_thread_count'
        BY <2>2, <2>4, MempoolAssumption DEF WaitersQueued, TypeOK
      <3> QED BY <1>2, <2>4, <2>5, <3>1 DEF WaitersQueued, TypeOK, IpcTypeOK
    <2>10. NoLostWakeup'
      <3>1. Cardinality(Pending') = Cardinality(Pending) + 1
        BY <2>7, PendingFinite, FS_AddElement
      <3>2. block_free_count <= Cardinality(Pending) /\ block_free_count \in Int
        BY <1>4, FirstChainFacts DEF NoLostWakeup, TypeOK
      <3> QED BY <1>1, <3>1, <3>2, PendingFinite DEF NoLostWakeup
    <2>11. DeleteInv'
      BY <1>2 DEF DeleteInv, Usable
    <2>12. WaitInv'
      BY <1>2, <2>4, <2>5 DEF WaitInv, TypeOK, IpcTypeOK, Usable
    <2> QED BY <1>1, <2>8, <2>9, <2>10, <2>11, <2>12
  <1> QED BY <1>3, <1>4

LEMMA DeleteBeginInv ==
    ASSUME MempoolInv, NEW t \in Thread, rt_mp_delete(t)
    PROVE  MempoolInv'
  <1> USE DEF MempoolInv, rt_mp_delete, pool, wait, ipcVars
  <1>1. Pending' = {}
    BY DEF Pending, TypeOK
  <1>2. TypeOK'
    BY DEF TypeOK, IpcTypeOK, Pcs
  <1>3. BlocksConserved' /\ WaitersQueued'
    BY DEF BlocksConserved, WaitersQueued, TypeOK
  <1>4. NoLostWakeup'
    <2>1. Pending = {}
      BY DEF Pending
    <2> QED BY <1>1, <2>1 DEF NoLostWakeup
  <1>5. DeleteInv'
    BY DEF DeleteInv, Usable, TypeOK
  <1>6. WaitInv'
    BY <1>1 DEF WaitInv
  <1> QED BY <1>2, <1>3, <1>4, <1>5, <1>6

LEMMA DeleteTestInv ==
    ASSUME MempoolInv, NEW t \in Thread, DeleteTest(t)
    PROVE  MempoolInv'
  <1> USE DEF MempoolInv, DeleteTest, pool, wait, ipcVars
  <1>1. Pending' = Pending /\ Pending = {}
    <2>1. \A u \in Pending : FALSE
      BY DEF WaitInv, Usable
    <2> QED BY <2>1 DEF Pending, TypeOK
  <1>2. TypeOK'
    BY DEF TypeOK, IpcTypeOK, Pcs
  <1>3. BlocksConserved' /\ WaitersQueued'
    BY DEF BlocksConserved, WaitersQueued, TypeOK
  <1>4. NoLostWakeup'
    BY <1>1 DEF NoLostWakeup
  <1>5. DeleteInv'
    BY DEF DeleteInv, TypeOK
  <1>6. WaitInv'
    BY <1>1 DEF WaitInv
  <1> QED BY <1>2, <1>3, <1>4, <1>5, <1>6

(* The loop takes the first waiter it has seen: nobody left in between.    *)
LEMMA DeleteNextInv ==
    ASSUME MempoolInv, NEW t \in Thread, DeleteNext(t)
    PROVE  MempoolInv'
  <1> USE DEF MempoolInv, DeleteNext, pool
  <1> DEFINE h == Head(suspend_thread)
  <1>0. /\ suspend_thread # <<>> /\ suspend_thread' = ListRemove(suspend_thread, h)
        /\ alive
    BY DEF DeleteInv
  <1>1. /\ suspend_thread \in Seq(Thread) /\ NoRepeat(suspend_thread)
        /\ suspend_thread_count \in 0 .. MaxCount
    BY DEF TypeOK, WaitersQueued
  <1>2. h \in Thread /\ InList(suspend_thread, h)
    BY <1>0, <1>1, EmptyList
  <1>3. /\ stat' = [stat EXCEPT ![h] = "ready"]
        /\ error' = [error EXCEPT ![h] = "ERROR"]
        /\ timer' = [timer EXCEPT ![h] = FALSE]
        /\ UNCHANGED wild
    BY <1>0 DEF ResumeNext
  <1> HIDE DEF h
  <1>4. /\ suspend_thread' \in Seq(Thread) /\ NoRepeat(suspend_thread')
        /\ \A x : InList(suspend_thread', x) <=> InList(suspend_thread, x) /\ x # h
        /\ Len(suspend_thread') = Len(suspend_thread) - 1
        /\ Len(suspend_thread) \in Nat /\ Len(suspend_thread) > 0
    <2> HIDE DEF MempoolInv, DeleteNext
    <2>1. Len(suspend_thread) \in Nat /\ Len(suspend_thread) > 0
      BY <1>0, <1>1
    <2> QED BY <1>0, <1>1, <1>2, <2>1, ListRemoveFacts, ListRemoveLength
  <1>5. stat[h] = "suspend" /\ pc[h] = "alloc"
    BY <1>2 DEF WaitersQueued
  <1>6. Pending' = Pending /\ Pending = {}
    <2>1. \A u \in Pending : FALSE
      BY DEF WaitInv, Usable
    <2> QED BY <1>2, <1>3, <1>5, <2>1 DEF Pending, TypeOK, IpcTypeOK
  <1>7. /\ suspend_thread_count' \in 0 .. MaxCount
        /\ Len(suspend_thread') <= suspend_thread_count'
    BY <1>1, <1>4, MempoolAssumption DEF WaitersQueued
  <1>8. TypeOK'
    BY <1>2, <1>3, <1>4, <1>7 DEF TypeOK, IpcTypeOK, Pcs, Errors
  <1>9. BlocksConserved'
    BY DEF BlocksConserved
  <1>10. WaitersQueued'
    BY <1>2, <1>3, <1>4, <1>7 DEF WaitersQueued, TypeOK, IpcTypeOK
  <1>11. NoLostWakeup'
    BY <1>0, <1>6 DEF NoLostWakeup
  <1>12. DeleteInv'
    BY <1>2, <1>3 DEF DeleteInv, TypeOK, IpcTypeOK
  <1>13. WaitInv'
    BY <1>0, <1>2, <1>3, <1>6 DEF WaitInv, TypeOK, IpcTypeOK
  <1> QED BY <1>8, <1>9, <1>10, <1>11, <1>12, <1>13

(* A new pool takes the place of one that nobody waits on.                 *)
LEMMA MpInitInv ==
    ASSUME MempoolInv, rt_mp_init
    PROVE  MempoolInv'
  <1> USE DEF MempoolInv, rt_mp_init, ipcVars
  <1>1. suspend_thread' = suspend_thread /\ suspend_thread' = <<>>
    BY DEF WaitInv
  <1>2. Pending' = Pending
    BY DEF Pending
  <1>3. TypeOK'
    <2>1. /\ block_list' \in Seq(Block) /\ block_free_count' \in 0 .. Cardinality(Block)
          /\ suspend_thread_count' \in 0 .. MaxCount
      BY FirstChainFacts, MempoolAssumption
    <2>2. holder' \in [Block -> Thread \cup {NoThread}]
      OBVIOUS
    <2> QED BY <1>1, <2>1, <2>2 DEF TypeOK, IpcTypeOK
  <1>4. BlocksConserved'
    BY FirstChainFacts DEF BlocksConserved
  <1>5. WaitersQueued' /\ NoLostWakeup'
    BY <1>1, EmptyWaitList DEF WaitersQueued, NoLostWakeup
  <1>6. DeleteInv'
    BY DEF DeleteInv
  <1>7. WaitInv'
    BY <1>1, <1>2 DEF WaitInv, Usable
  <1> QED BY <1>3, <1>4, <1>5, <1>6, <1>7

LEMMA NextInv == MempoolInv /\ [Next]_vars => MempoolInv'
  <1> SUFFICES ASSUME MempoolInv, [Next]_vars PROVE MempoolInv'
    OBVIOUS
  <1>1. ASSUME NEW t \in Thread, ThreadStep(t) PROVE MempoolInv'
    BY <1>1, AllocInv, ResumedInv, TimeoutInv, DeleteBeginInv, DeleteTestInv,
       DeleteNextInv DEF ThreadStep
  <1>2. ASSUME NEW x \in Block, rt_mp_free(x) PROVE MempoolInv'
    BY <1>2, FreeInv
  <1>3. CASE rt_mp_init
    BY <1>3, MpInitInv
  <1>4. CASE UNCHANGED vars
    <2> USE <1>4 DEF vars, ipcVars, pool, wait
    <2>1. Pending' = Pending /\ Usable' = Usable
      BY DEF Pending, Usable
    <2> QED BY <2>1 DEF MempoolInv, TypeOK, IpcTypeOK, BlocksConserved, WaitersQueued,
              NoLostWakeup, DeleteInv, WaitInv
  <1> QED BY <1>1, <1>2, <1>3, <1>4 DEF Next

(* MempoolInv holds in every reachable state of the memory pool. *)
THEOREM Inductive == Spec => []MempoolInv
  BY InitInv, NextInv, PTL DEF Spec

-----------------------------------------------------------------------------
(* Every field of the pool and of the threads that use it keeps a value of *)
(* its type: block_free_count and suspend_thread_count stay in range.      *)
THEOREM TypeCorrect == Spec => []TypeOK
  BY Inductive, PTL DEF MempoolInv

(* Every block is in the chain once or has one holder, and                 *)
(* block_free_count is the length of the chain: rt_mp_alloc never takes    *)
(* from an empty chain, rt_mp_free never loses or doubles a block.         *)
THEOREM Conserved == Spec => []BlocksConserved
  BY Inductive, PTL DEF MempoolInv

(* The list of the pool links exactly the threads suspended in             *)
(* rt_mp_alloc, each once, and suspend_thread_count counts at least them.  *)
THEOREM Queued == Spec => []WaitersQueued
  BY Inductive, PTL DEF MempoolInv

(* No wake-up of rt_mp_free is lost, however many threads overtake the     *)
(* resumed one: while threads wait, every free block has a resumed thread  *)
(* on its way to it.                                                       *)
THEOREM WakeupKept == Spec => []NoLostWakeup
  BY Inductive, PTL DEF MempoolInv
=============================================================================
