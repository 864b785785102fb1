------------------------------ MODULE Mempool ------------------------------
(***************************************************************************)
(* rt_mempool of mempool.c: blocks of one size, handed out by rt_mp_alloc, *)
(* which waits for one if it may, and given back by rt_mp_free.  As with a *)
(* mailbox, a resumed thread tests the pool again.                         *)
(***************************************************************************)
EXTENDS Ipc

CONSTANTS
    Block,      \* the blocks of the pool
    NoThread,   \* nobody
    MaxCount    \* bound: the largest suspend_thread_count

ASSUME MempoolAssumption ==
    /\ IsFiniteSet(Block) /\ Block # {}
    /\ NoThread \notin Thread
    /\ MaxCount \in Nat

VARIABLES
    block_list,             \* rt_mempool.block_list, the chain of free blocks
    block_free_count,       \* rt_mempool.block_free_count
    suspend_thread,         \* rt_mempool.suspend_thread
    suspend_thread_count,   \* rt_mempool.suspend_thread_count
    alive,                  \* does the pool exist?
    pc,                     \* where each thread is in a call
    left,                   \* the local time of rt_mp_alloc
    holder                  \* who has each block; NoThread: the pool

pool == <<block_list, block_free_count>>
wait == <<suspend_thread, suspend_thread_count>>
vars == <<ipcVars, pool, wait, alive, pc, left, holder>>

(* "alloc": in the loop of rt_mp_alloc, suspended or resumed; "test",      *)
(* "next": in the loop of rt_mp_detach or rt_mp_delete.                    *)
Pcs == {"run", "alloc", "test", "next"}

Usable == alive /\ \A t \in Thread : pc[t] \in {"run", "alloc"}

(* The chain rt_mp_init builds: every block once.                          *)
Chains == {s \in [1 .. Cardinality(Block) -> Block] : NoRepeat(s)}
FirstChain == CHOOSE s \in Chains : TRUE

Init ==
    /\ IpcInit
    /\ block_list = FirstChain
    /\ block_free_count = Cardinality(Block)
    /\ suspend_thread = <<>> /\ suspend_thread_count = 0
    /\ alive = TRUE
    /\ pc = [t \in Thread |-> "run"]
    /\ left = [t \in Thread |-> "zero"]
    /\ holder = [x \in Block |-> NoThread]

Return(t) ==
    /\ pc' = [pc EXCEPT ![t] = "run"]
    /\ left' = [left EXCEPT ![t] = "zero"]

(* Mutant: the free counter is not decreased.                              *)
TakeUncounted(t) ==
    /\ block_list' = Tail(block_list)
    /\ holder' = [holder EXCEPT ![Head(block_list)] = t]
    /\ UNCHANGED block_free_count

(* The end of rt_mp_alloc: t takes the first free block.                   *)
TakeBlock(t) ==
    /\ block_free_count' = block_free_count - 1
    /\ block_list' = Tail(block_list)
    /\ holder' = [holder EXCEPT ![Head(block_list)] = t]

(* Mutant: the thread is counted but linked nowhere.                       *)
CountOnly(t) ==
    /\ suspend_thread_count' = suspend_thread_count + 1
    /\ UNCHANGED suspend_thread

(* Mutant: the waiter is not counted.                                      *)
LinkOnly(t) ==
    /\ suspend_thread' = InsertFirst(suspend_thread, t)
    /\ UNCHANGED suspend_thread_count

(* The newest waiter stands first.                                         *)
Enqueue(t) ==
    /\ suspend_thread' = InsertFirst(suspend_thread, t)
    /\ suspend_thread_count' = suspend_thread_count + 1

(* The while loop of rt_mp_alloc from its test to its next suspension.     *)
AllocLoop(t, time) ==
    \/ /\ block_free_count # 0
       /\ TakeBlock(t) /\ Return(t)
       /\ UNCHANGED <<ipcVars, wait>>
    \/ /\ block_free_count = 0 /\ time = "zero"
       /\ Return(t)
       /\ error' = [error EXCEPT ![t] = "ETIMEOUT"]
       /\ UNCHANGED <<stat, timer, wild, pool, wait, holder>>
    \/ /\ block_free_count = 0 /\ time # "zero"
       /\ suspend_thread_count < MaxCount
       /\ SuspendSelf(t, time)
       /\ Enqueue(t)
       /\ pc' = [pc EXCEPT ![t] = "alloc"]
       /\ left' = [left EXCEPT ![t] = time]
       /\ UNCHANGED <<pool, holder>>

rt_mp_alloc(t, time) ==
    /\ pc[t] = "run" /\ Usable
    /\ AllocLoop(t, time)
    /\ UNCHANGED alive

(* A resumed thread runs again.                                            *)
Resumed(t) ==
    /\ pc[t] = "alloc" /\ stat[t] = "ready"
    /\ IF error[t] # "EOK"
       THEN Return(t) /\ UNCHANGED <<ipcVars, pool, wait, holder>>
       ELSE \E time \in TimeLeft(left[t]) : AllocLoop(t, time)
    /\ UNCHANGED alive

Timeout(t) ==
    /\ rt_thread_timeout(t)
    /\ suspend_thread' = ListRemove(suspend_thread, t)
    /\ UNCHANGED <<pool, suspend_thread_count, alive, pc, left, holder>>

(* Mutant: the block is given back and nobody is resumed.                  *)
FreeSilent(x) ==
    /\ Usable /\ holder[x] # NoThread
    /\ holder' = [holder EXCEPT ![x] = NoThread]
    /\ block_free_count' = block_free_count + 1
    /\ block_list' = InsertFirst(block_list, x)
    /\ UNCHANGED <<ipcVars, wait, alive, pc, left>>

(* rt_mp_free of a block, by whoever holds it or got it from the holder.   *)
(* The counter alone decides whether a thread is resumed: when it is not   *)
(* zero and the list is empty, the list head is taken for a thread.  What  *)
(* that writes is outside the pool.  The error of a waiting thread, which  *)
(* the code sets to RT_EOK here, is RT_EOK already.                        *)
rt_mp_free(x) ==
    /\ Usable /\ holder[x] # NoThread
    /\ holder' = [holder EXCEPT ![x] = NoThread]
    /\ block_free_count' = block_free_count + 1
    /\ block_list' = InsertFirst(block_list, x)
    /\ IF suspend_thread_count > 0
       THEN /\ suspend_thread_count' = suspend_thread_count - 1
            /\ IF suspend_thread # <<>>
               THEN /\ rt_thread_resume(Head(suspend_thread))
                    /\ suspend_thread' = Tail(suspend_thread)
               ELSE /\ wild' = TRUE
                    /\ UNCHANGED <<stat, error, timer, suspend_thread>>
       ELSE UNCHANGED <<ipcVars, wait>>
    /\ UNCHANGED <<alive, pc, left>>

(* rt_mp_detach and rt_mp_delete: the loop that resumes every waiter.  The *)
(* discipline is that of a mailbox.                                        *)
rt_mp_delete(t) ==
    /\ pc[t] = "run" /\ Usable
    /\ \A u \in Thread : ~timer[u] /\ (pc[u] # "run" => stat[u] = "suspend")
    /\ pc' = [pc EXCEPT ![t] = "test"]
    /\ UNCHANGED <<ipcVars, pool, wait, alive, left, holder>>

DeleteTest(t) ==
    /\ pc[t] = "test"
    /\ \/ /\ suspend_thread # <<>>
          /\ pc' = [pc EXCEPT ![t] = "next"]
          /\ UNCHANGED alive
       \/ /\ suspend_thread = <<>>
          /\ pc' = [pc EXCEPT ![t] = "run"]
          /\ alive' = FALSE
    /\ UNCHANGED <<ipcVars, pool, wait, left, holder>>

DeleteNext(t) ==
    /\ pc[t] = "next"
    /\ ResumeNext(suspend_thread)
    /\ suspend_thread' = ListRemove(suspend_thread, Head(suspend_thread))
    /\ suspend_thread_count' = suspend_thread_count - 1
    /\ pc' = [pc EXCEPT ![t] = "test"]
    /\ UNCHANGED <<pool, alive, left, holder>>

(* rt_mp_init or rt_mp_create of a new pool in the place of the old.       *)
rt_mp_init ==
    /\ ~alive
    /\ alive' = TRUE
    /\ block_list' = FirstChain
    /\ block_free_count' = Cardinality(Block)
    /\ suspend_thread' = <<>> /\ suspend_thread_count' = 0
    /\ holder' = [x \in Block |-> NoThread]
    /\ UNCHANGED <<ipcVars, pc, left>>

ThreadStep(t) ==
    \/ \E time \in Times : rt_mp_alloc(t, time)
    \/ Resumed(t) \/ Timeout(t)
    \/ rt_mp_delete(t) \/ DeleteTest(t) \/ DeleteNext(t)

Next ==
    \/ \E t \in Thread : ThreadStep(t)
    \/ \E x \in Block : rt_mp_free(x)
    \/ rt_mp_init

Spec == Init /\ [][Next]_vars

-----------------------------------------------------------------------------
(* Every field has a value of its type.                                    *)
TypeOK ==
    /\ IpcTypeOK
    /\ block_list \in Seq(Block)
    /\ block_free_count \in 0 .. Cardinality(Block)
    /\ suspend_thread \in Seq(Thread)
    /\ suspend_thread_count \in 0 .. MaxCount
    /\ alive \in BOOLEAN
    /\ pc \in [Thread -> Pcs]
    /\ left \in [Thread -> Times]
    /\ holder \in [Block -> Thread \cup {NoThread}]

(* Every block is free once or held once, and the counter rt_mp_alloc      *)
(* looks at is the length of the chain it takes from: the assertion        *)
(* block_ptr != RT_NULL holds.                                             *)
BlocksConserved ==
    /\ NoRepeat(block_list)
    /\ \A x \in Block : InList(block_list, x) <=> holder[x] = NoThread
    /\ block_free_count = Len(block_list)

(* The list links exactly the threads suspended in rt_mp_alloc, each once, *)
(* and each is counted, so that rt_mp_free finds it.                       *)
WaitersQueued ==
    /\ NoRepeat(suspend_thread)
    /\ \A t \in Thread :
         /\ InList(suspend_thread, t) <=> stat[t] = "suspend"
         /\ stat[t] = "suspend" => pc[t] = "alloc"
         /\ timer[t] => stat[t] = "suspend"
    /\ Len(suspend_thread) <= suspend_thread_count

(* The threads resumed for a block that have not run yet.                  *)
Pending ==
    {t \in Thread : pc[t] = "alloc" /\ stat[t] = "ready" /\ error[t] = "EOK"}

(* No wake-up is lost: while threads wait, every free block has a resumed  *)
(* thread on its way to it.                                                *)
NoLostWakeup == suspend_thread # <<>> => block_free_count <= Cardinality(Pending)

(* suspend_thread_count is the "numbers of thread pended on this resource" *)
(* (rtdef.h): at most the threads that are inside rt_mp_alloc.             *)
CountsPended ==
    suspend_thread_count <= Cardinality({t \in Thread : pc[t] = "alloc"})
=============================================================================
