--------------------------- MODULE MailboxProofs ---------------------------
(* Proofs about Mailbox, for every set of threads and of mails, every      *)
(* assignment of priorities, both flags and every size of the ring.        *)
EXTENDS Mailbox, RtListProofs, FiniteSetTheorems, TLAPS

-----------------------------------------------------------------------------
(* The inductive invariant.                                                *)

Deleting == {"test1", "next1", "test2", "next2"}

(* A deletion under way is alone and no timer runs, so that nobody leaves  *)
(* a list between its test and its turn; once the receivers are resumed    *)
(* none comes back.                                                        *)
DeleteInv ==
    \A t \in Thread : pc[t] \in Deleting =>
      /\ alive
      /\ \A u \in Thread : ~timer[u] /\ (pc[u] \in Deleting => u = t)
      /\ pc[t] = "next1" => suspend_thread # <<>>
      /\ pc[t] = "next2" => suspend_sender_thread # <<>>
      /\ pc[t] \in {"test2", "next2"} => suspend_thread = <<>>

(* Nobody waits on a mailbox that is gone; a waiter has a mail to send and *)
(* returns RT_EOK if it is resumed by a call; a thread resumed by a call   *)
(* finds the mailbox in use.                                               *)
WaitInv ==
    /\ ~alive => suspend_thread = <<>> /\ suspend_sender_thread = <<>>
    /\ \A t \in Thread :
         /\ stat[t] = "suspend" => pc[t] \in {"send", "recv"} /\ error[t] = "EOK"
         /\ pc[t] = "send" => arg[t] \in Mail
         /\ t \in Pending("send") \cup Pending("recv") => Usable

(* The mails lie between the offsets, wrapped.                             *)
RingInv == in_offset = (out_offset + entry) % Size

MailboxInv ==
    /\ TypeOK
    /\ WaitersQueued
    /\ NoLostWakeup
    /\ DeleteInv
    /\ WaitInv
    /\ RingInv

(* With RT_IPC_FLAG_PRIO a list is sorted by priority.                     *)
Ordered(list) ==
    Flag = "PRIO" =>
      \A u, t \in Thread : Before(list, u, t) => Priority[u] <= Priority[t]
OrderInv == Ordered(suspend_thread) /\ Ordered(suspend_sender_thread)

-----------------------------------------------------------------------------
(* The ring.                                                               *)

(* What % does to a sum of an offset and a number of mails.                *)
LEMMA Wrapped ==
    ASSUME NEW x \in Nat, x < Size + Size
    PROVE  /\ x < Size => x % Size = x
           /\ x >= Size => x % Size = x - Size
           /\ x % Size \in 0 .. Size - 1
  <1>1. Size \in Nat /\ Size > 0
    BY MailboxAssumption
  <1>2. x < Size => x % Size = x
    BY <1>1
  <1>3. x >= Size => x % Size = x - Size
    BY <1>1
  <1> QED BY <1>1, <1>2, <1>3

(* Advance is the successor, wrapped.                                      *)
LEMMA Advanced ==
    ASSUME NEW i \in 0 .. Size - 1
    PROVE  /\ Advance(i) \in 0 .. Size - 1
           /\ i + 1 < Size => Advance(i) = i + 1
           /\ i + 1 >= Size => Advance(i) = 0 /\ i + 1 = Size
  BY MailboxAssumption DEF Advance

RingOK ==
    /\ msg_pool \in [0 .. Size - 1 -> Mail \cup {NoMail}]
    /\ in_offset \in 0 .. Size - 1 /\ out_offset \in 0 .. Size - 1
    /\ entry \in 0 .. Size
    /\ RingInv

(* The place of the i-th mail.                                             *)
Slot(i) == (out_offset + i - 1) % Size

ContentsOK ==
    /\ Contents \in Seq(Mail \cup {NoMail}) /\ Len(Contents) = entry
    /\ \A i \in 1 .. entry : Contents[i] = msg_pool[Slot(i)]

LEMMA ContentsFacts == RingOK => ContentsOK
  <1> SUFFICES ASSUME RingOK PROVE ContentsOK
    OBVIOUS
  <1>1. entry \in Nat /\ entry <= Size /\ Size \in Nat
    BY MailboxAssumption DEF RingOK
  <1>2. \A i \in 1 .. entry : Slot(i) \in 0 .. Size - 1
    <2> SUFFICES ASSUME NEW i \in 1 .. entry PROVE Slot(i) \in 0 .. Size - 1
      OBVIOUS
    <2> DEFINE x == out_offset + i - 1
    <2>1. x \in Nat /\ x < Size + Size
      BY <1>1 DEF RingOK
    <2> HIDE DEF x
    <2>2. x % Size \in 0 .. Size - 1
      BY <2>1, Wrapped
    <2> QED BY <2>2 DEF x, Slot
  <1>3. \A i \in 1 .. entry : msg_pool[Slot(i)] \in Mail \cup {NoMail}
    BY <1>2 DEF RingOK
  <1>4. Contents = [i \in 1 .. entry |-> msg_pool[Slot(i)]]
    BY DEF Contents, Slot
  <1> QED BY <1>1, <1>3, <1>4 DEF ContentsOK

LEMMA NextContentsFacts == RingOK' => ContentsOK'
  BY ContentsFacts, PTL

(* A mail is stored behind the last one.                                   *)
LEMMA PutRing ==
    ASSUME RingOK, entry # Size, NEW m \in Mail,
           msg_pool' = [msg_pool EXCEPT ![in_offset] = m],
           in_offset' = Advance(in_offset), entry' = entry + 1, out_offset' = out_offset
    PROVE  RingOK' /\ Contents' = Append(Contents, m) /\ Len(Contents) < Size
  <1>0. /\ Size \in Nat /\ Size > 0 /\ entry \in Nat /\ entry < Size
        /\ out_offset \in Nat /\ out_offset < Size
        /\ in_offset \in Nat /\ in_offset < Size
    BY MailboxAssumption DEF RingOK
  <1>1. in_offset = IF out_offset + entry < Size THEN out_offset + entry
                    ELSE out_offset + entry - Size
    BY <1>0, Wrapped DEF RingOK, RingInv
  <1>2. in_offset' = (out_offset' + entry') % Size
    <2> DEFINE x == out_offset + entry + 1
    <2>1. x \in Nat /\ x < Size + Size
      BY <1>0
    <2>2. (x < Size => x % Size = x) /\ (x >= Size => x % Size = x - Size)
      <3> HIDE DEF x
      <3> QED BY <2>1, Wrapped
    <2>3. x = out_offset' + entry'
      BY <1>0
    <2>4. /\ in_offset + 1 < Size => in_offset' = in_offset + 1
          /\ in_offset + 1 >= Size => in_offset' = 0 /\ in_offset + 1 = Size
      BY Advanced DEF RingOK
    <2> QED BY <1>0, <1>1, <2>2, <2>3, <2>4
  <1>3. RingOK'
    <2>1. msg_pool' \in [0 .. Size - 1 -> Mail \cup {NoMail}]
      BY DEF RingOK
    <2>2. in_offset' \in 0 .. Size - 1
      BY Advanced DEF RingOK
    <2>3. entry' \in 0 .. Size
      BY <1>0
    <2> QED BY <1>2, <2>1, <2>2, <2>3 DEF RingOK, RingInv
  <1>4. /\ Contents \in Seq(Mail \cup {NoMail}) /\ Len(Contents) = entry
        /\ \A i \in 1 .. entry : Contents[i] = msg_pool[Slot(i)]
    BY ContentsFacts DEF ContentsOK
  <1>5. /\ Contents' \in Seq(Mail \cup {NoMail}) /\ Len(Contents') = entry + 1
        /\ \A i \in 1 .. entry + 1 : Contents'[i] = msg_pool'[Slot(i)]
    <2>1. Contents' \in Seq(Mail \cup {NoMail}) /\ Len(Contents') = entry'
          /\ \A i \in 1 .. entry' : Contents'[i] = msg_pool'[Slot(i)']
      BY <1>3, NextContentsFacts DEF ContentsOK
    <2> QED BY <2>1 DEF Slot
  <1>6. Contents'[entry + 1] = m
    <2>1. Slot(entry + 1) = in_offset
      <3>1. out_offset + (entry + 1) - 1 = out_offset + entry
        BY <1>0
      <3> QED BY <3>1 DEF Slot, RingOK, RingInv
    <2>2. entry + 1 \in 1 .. entry + 1
      BY <1>0
    <2> QED BY <1>5, <2>1, <2>2 DEF RingOK
  <1>7. ASSUME NEW i \in 1 .. entry PROVE Contents'[i] = Contents[i]
    <2> DEFINE x == out_offset + i - 1
    <2>1. x \in Nat /\ x < Size + Size /\ i \in 1 .. entry + 1
      BY <1>0
    <2>2. /\ x < Size => x % Size = x
          /\ x >= Size => x % Size = x - Size
          /\ x % Size \in 0 .. Size - 1
      <3> HIDE DEF x
      <3> QED BY <2>1, Wrapped
    <2>3. x % Size # in_offset
      BY <1>0, <1>1, <2>1, <2>2
    <2>4. msg_pool'[x % Size] = msg_pool[x % Size]
      BY <2>2, <2>3 DEF RingOK
    <2>5. Slot(i) = x % Size
      BY DEF Slot
    <2> QED BY <1>4, <1>5, <2>1, <2>4, <2>5
  <1> DEFINE r == Append(Contents, m)
  <1>8. /\ r \in Seq(Mail \cup {NoMail}) /\ Len(r) = entry + 1
        /\ r[entry + 1] = m /\ \A i \in 1 .. entry : r[i] = Contents[i]
    BY <1>0, <1>4
  <1>9. \A i \in 1 .. Len(Contents') : Contents'[i] = r[i]
    <2> HIDE DEF r
    <2>1. \A i \in 1 .. entry + 1 : i = entry + 1 \/ i \in 1 .. entry
      BY <1>0
    <2> QED BY <1>5, <1>6, <1>7, <1>8, <2>1
  <1>10. Contents' = r
    <2> HIDE DEF r
    <2> QED BY <1>5, <1>8, <1>9, SeqEqual
  <1> QED BY <1>0, <1>3, <1>4, <1>10

(* The first mail is fetched.                                              *)
LEMMA GetRing ==
    ASSUME RingOK, entry # 0, out_offset' = Advance(out_offset), entry' = entry - 1,
           UNCHANGED <<msg_pool, in_offset>>
    PROVE  /\ RingOK' /\ Contents' = Tail(Contents)
           /\ Contents # <<>> /\ Head(Contents) = msg_pool[out_offset]
           /\ msg_pool[out_offset] \in Mail \cup {NoMail}
  <1>0. /\ Size \in Nat /\ Size > 0 /\ entry \in Nat /\ entry <= Size /\ entry > 0
        /\ out_offset \in Nat /\ out_offset < Size
        /\ in_offset \in Nat /\ in_offset < Size
    BY MailboxAssumption DEF RingOK
  <1>1. in_offset = IF out_offset + entry < Size THEN out_offset + entry
                    ELSE out_offset + entry - Size
    BY <1>0, Wrapped DEF RingOK, RingInv
  <1>2. /\ out_offset + 1 < Size => out_offset' = out_offset + 1
        /\ out_offset + 1 >= Size => out_offset' = 0 /\ out_offset + 1 = Size
        /\ out_offset' \in 0 .. Size - 1
    BY Advanced DEF RingOK
  <1>3. in_offset = (out_offset' + entry') % Size
    <2> DEFINE x == out_offset' + entry'
    <2>1. x \in Nat /\ x < Size + Size
      BY <1>0, <1>2
    <2>2. (x < Size => x % Size = x) /\ (x >= Size => x % Size = x - Size)
      <3> HIDE DEF x
      <3> QED BY <2>1, Wrapped
    <2> QED BY <1>0, <1>1, <1>2, <2>2
  <1>4. RingOK'
    <2>1. entry' \in 0 .. Size
      BY <1>0
    <2> QED BY <1>2, <1>3, <2>1 DEF RingOK, RingInv
  <1>5. /\ Contents \in Seq(Mail \cup {NoMail}) /\ Len(Contents) = entry
        /\ \A i \in 1 .. entry : Contents[i] = msg_pool[Slot(i)]
    BY ContentsFacts DEF ContentsOK
  <1>6. /\ Contents' \in Seq(Mail \cup {NoMail}) /\ Len(Contents') = entry - 1
        /\ \A i \in 1 .. entry - 1 : Contents'[i] = msg_pool[Slot(i)']
    <2>1. Contents' \in Seq(Mail \cup {NoMail}) /\ Len(Contents') = entry'
          /\ \A i \in 1 .. entry' : Contents'[i] = msg_pool'[Slot(i)']
      BY <1>4, NextContentsFacts DEF ContentsOK
    <2> QED BY <2>1
  <1>7. ASSUME NEW i \in 1 .. entry - 1 PROVE Contents'[i] = Contents[i + 1]
    <2> DEFINE x == out_offset + (i + 1) - 1
               y == out_offset' + i - 1
    <2>1. /\ x \in Nat /\ x < Size + Size /\ y \in Nat /\ y < Size + Size
          /\ i + 1 \in 1 .. entry
      BY <1>0, <1>2
    <2>2. /\ x < Size => x % Size = x
          /\ x >= Size => x % Size = x - Size
      <3> HIDE DEF x
      <3> QED BY <2>1, Wrapped
    <2>3. /\ y < Size => y % Size = y
          /\ y >= Size => y % Size = y - Size
      <3> HIDE DEF y
      <3> QED BY <2>1, Wrapped
    <2>4. x % Size = y % Size
      BY <1>0, <1>2, <2>1, <2>2, <2>3
    <2>5. Slot(i + 1) = x % Size /\ Slot(i)' = y % Size
      BY DEF Slot
    <2> QED BY <1>5, <1>6, <2>1, <2>4, <2>5
  <1>8. Slot(1) = out_offset
    <2>1. out_offset + 1 - 1 = out_offset
      BY <1>0
    <2> QED BY <1>0, <2>1, Wrapped DEF Slot
  <1>9. Contents # <<>> /\ Head(Contents) = msg_pool[out_offset]
    <2>1. 1 \in 1 .. entry
      BY <1>0
    <2> QED BY <1>0, <1>5, <1>8, <2>1
  <1> DEFINE r == Tail(Contents)
  <1>10. /\ r \in Seq(Mail \cup {NoMail}) /\ Len(r) = entry - 1
         /\ \A i \in 1 .. entry - 1 : r[i] = Contents[i + 1]
    BY <1>0, <1>5, <1>9
  <1>11. Contents' = r
    <2> HIDE DEF r
    <2> QED BY <1>6, <1>7, <1>10, SeqEqual
  <1> QED BY <1>0, <1>4, <1>9, <1>11 DEF RingOK

(* An empty ring.                                                          *)
LEMMA EmptyRing == RingOK /\ entry = 0 => Contents = <<>>
  BY ContentsFacts DEF ContentsOK

-----------------------------------------------------------------------------
(* The lists.                                                              *)

LEMMA NoNodes ==
    /\ <<>> \in Seq(Thread) /\ NoRepeat(<<>>)
    /\ \A x : ~InList(<<>>, x)
    /\ \A u, t : ~Before(<<>>, u, t)
  BY DEF NoRepeat, InList, Before

(* rt_ipc_list_suspend links t; the other threads keep their order, and    *)
(* only a thread that is less urgent comes to stand behind t.              *)
LEMMA SuspendFacts ==
    ASSUME NEW list \in Seq(Thread), NEW t \in Thread, NoRepeat(list), ~InList(list, t)
    PROVE  /\ rt_ipc_list_suspend(list, t) \in Seq(Thread)
           /\ NoRepeat(rt_ipc_list_suspend(list, t))
           /\ \A x : InList(rt_ipc_list_suspend(list, t), x) <=> InList(list, x) \/ x = t
           /\ \A u, w \in Thread :
                Before(rt_ipc_list_suspend(list, t), u, w) =>
                  \/ Before(list, u, w)
                  \/ w = t /\ (Flag = "PRIO" => Priority[u] <= Priority[t])
                  \/ /\ Flag = "PRIO" /\ u = t
                     /\ \E v \in Thread : /\ Priority[t] < Priority[v]
                                          /\ v = w \/ Before(list, v, w)
  <1>0. Priority \in [Thread -> Int]
    BY IpcAssumption
  <1>1. CASE Flag = "FIFO"
    <2> DEFINE r == InsertLast(list, t)
    <2>1. rt_ipc_list_suspend(list, t) = r
      BY <1>1 DEF rt_ipc_list_suspend, SuspendIn
    <2>2. \A u, w \in Thread : Before(r, u, w) => Before(list, u, w) \/ w = t
      BY InsertLastOrder
    <2>3. /\ r \in Seq(Thread) /\ NoRepeat(r)
          /\ \A x : InList(r, x) <=> InList(list, x) \/ x = t
      BY InsertLastFacts
    <2> HIDE DEF r
    <2> QED BY <1>1, <2>1, <2>2, <2>3
  <1>2. CASE Flag = "PRIO"
    <2> DEFINE k == Place(Priority, list, t)
    <2>1. \E n \in 1 .. Len(list) + 1 :
             /\ \A i \in 1 .. n - 1 : ~(Priority[t] < Priority[list[i]])
             /\ n <= Len(list) => Priority[t] < Priority[list[n]]
      BY OrderedPlace
    <2>2. /\ k \in 1 .. Len(list) + 1
          /\ \A i \in 1 .. k - 1 : ~(Priority[t] < Priority[list[i]])
          /\ k <= Len(list) => Priority[t] < Priority[list[k]]
      BY <2>1 DEF Place
    <2> HIDE DEF k
    <2> DEFINE r == InsertBefore(list, k, t)
    <2>3. rt_ipc_list_suspend(list, t) = r
      BY <1>2 DEF rt_ipc_list_suspend, SuspendIn, k
    <2>4. \A u, w \in Thread : Before(r, u, w) =>
             \/ Before(list, u, w)
             \/ u = t /\ \E v \in Thread :
                  Priority[t] < Priority[v] /\ (v = w \/ Before(list, v, w))
             \/ w = t /\ Priority[u] <= Priority[t]
      BY <1>0, <2>2, PlacedOrder
    <2>5. /\ r \in Seq(Thread) /\ NoRepeat(r)
          /\ \A x : InList(r, x) <=> InList(list, x) \/ x = t
      BY <2>2, InsertBeforeFacts
    <2> HIDE DEF r
    <2> QED BY <1>2, <2>3, <2>4, <2>5
  <1> QED BY <1>1, <1>2, IpcAssumption

(* The first thread of a list, if there is one, is unlinked and made       *)
(* ready: the threads W.                                                   *)
Woken(W, list, r) ==
    /\ \A u \in Thread : InList(r, u) <=> InList(list, u) /\ u \notin W
    /\ \A u \in W : InList(list, u)
    /\ \A u \in Thread : /\ u \in W => stat'[u] = "ready" /\ ~timer'[u]
                         /\ u \notin W => stat'[u] = stat[u] /\ timer'[u] = timer[u]
    /\ list # <<>> => \E h \in Thread : W = {h}

LEMMA WakeFacts ==
    ASSUME IpcTypeOK, NEW list \in Seq(Thread), NoRepeat(list), WakeFirst(list),
           NEW r, r = IF list # <<>> THEN Tail(list) ELSE <<>>
    PROVE  /\ r \in Seq(Thread) /\ NoRepeat(r) /\ (r # <<>> => list # <<>>)
           /\ IpcTypeOK' /\ UNCHANGED <<error, wild>>
           /\ \E W \in SUBSET Thread : Woken(W, list, r)
  <1>1. CASE list = <<>>
    <2>1. r = <<>> /\ UNCHANGED <<stat, error, timer, wild>>
      BY <1>1 DEF WakeFirst, ipcVars
    <2>2. IpcTypeOK'
      BY <2>1 DEF IpcTypeOK
    <2>3. {} \in SUBSET Thread /\ Woken({}, list, r)
      BY <1>1, <2>1, NoNodes DEF Woken
    <2> QED BY <1>1, <2>1, <2>2, <2>3, NoNodes
  <1>2. CASE list # <<>>
    <2> DEFINE h == Head(list)
    <2>1. r = Tail(list) /\ rt_thread_resume(h)
      BY <1>2 DEF WakeFirst
    <2>2. /\ h \in Thread /\ InList(list, h) /\ r \in Seq(Thread) /\ NoRepeat(r)
          /\ \A x : InList(r, x) <=> InList(list, x) /\ x # h
      BY <1>2, <2>1, TailFacts
    <2> HIDE DEF h
    <2>3. /\ stat' = [stat EXCEPT ![h] = "ready"] /\ timer' = [timer EXCEPT ![h] = FALSE]
          /\ UNCHANGED <<error, wild>>
      BY <2>1 DEF rt_thread_resume
    <2>4. IpcTypeOK'
      BY <2>2, <2>3 DEF IpcTypeOK
    <2>5. \A u \in Thread : /\ u = h => stat'[u] = "ready" /\ ~timer'[u]
                            /\ u # h => stat'[u] = stat[u] /\ timer'[u] = timer[u]
      BY <2>3 DEF IpcTypeOK
    <2> DEFINE W == {h}
    <2>6. /\ W \in SUBSET Thread /\ \A u : u \in W <=> u = h
          /\ \E x \in Thread : W = {x}
      BY <2>2
    <2> HIDE DEF W
    <2>7. Woken(W, list, r)
      BY <2>2, <2>5, <2>6 DEF Woken
    <2> QED BY <1>2, <2>2, <2>3, <2>4, <2>6, <2>7
  <1> QED BY <1>1, <1>2

(* The resumed threads are finitely many.                                  *)
LEMMA PendingFinite ==
    \A where : /\ IsFiniteSet(Pending(where)) /\ Cardinality(Pending(where)) \in Nat
               /\ IsFiniteSet(Pending(where)') /\ Cardinality(Pending(where)') \in Nat
  <1> TAKE where
  <1>1. Pending(where) \subseteq Thread /\ Pending(where)' \subseteq Thread
    BY DEF Pending
  <1> QED BY <1>1, IpcAssumption, FS_Subset, FS_CardinalityType

LEMMA InitInv == Init => MailboxInv
  <1> SUFFICES ASSUME Init PROVE MailboxInv
    OBVIOUS
  <1> USE DEF Init, IpcInit
  <1>0. Size \in Nat /\ Size > 0
    BY MailboxAssumption
  <1>1. TypeOK
    <2>1. IpcTypeOK
      BY Zenon DEF IpcTypeOK, Errors
    <2>2. /\ msg_pool \in [0 .. Size - 1 -> Mail \cup {NoMail}]
          /\ in_offset \in 0 .. Size - 1 /\ out_offset \in 0 .. Size - 1
          /\ entry \in 0 .. Size
      BY <1>0
    <2>3. suspend_thread \in Seq(Thread) /\ suspend_sender_thread \in Seq(Thread)
      BY NoNodes
    <2>4. /\ alive \in BOOLEAN /\ pc \in [Thread -> Pcs] /\ left \in [Thread -> Times]
          /\ arg \in [Thread -> Mail \cup {NoMail}]
          /\ delivered \in (Thread \cup {NoThread}) \X (Mail \cup {NoMail})
      BY DEF Pcs, Times
    <2> QED BY <2>1, <2>2, <2>3, <2>4 DEF TypeOK
  <1>2. WaitersQueued /\ NoLostWakeup
    BY NoNodes DEF WaitersQueued, NoLostWakeup
  <1>3. DeleteInv /\ WaitInv
    BY DEF DeleteInv, WaitInv, Pending, Deleting
  <1>4. RingInv
    BY <1>0, Wrapped DEF RingInv
  <1> QED BY <1>1, <1>2, <1>3, <1>4 DEF MailboxInv

-----------------------------------------------------------------------------
(* Each action preserves the invariant.  A thread in rt_mb_send_wait, just *)
(* called or resumed, stores its mail.                                     *)
LEMMA PutInv ==
    ASSUME MailboxInv, NEW t \in Thread, NEW m \in Mail, Usable,
           pc[t] = "run" \/ t \in Pending("send"),
           entry # Size, Put(m), Return(t), UNCHANGED alive
    PROVE  MailboxInv'
  <1> USE DEF MailboxInv
  <1>0. /\ stat[t] # "suspend" /\ pc[t] \in {"run", "send"} /\ alive
        /\ \A u \in Thread : pc[u] \in {"run", "send", "recv"}
    BY DEF WaitInv, Pending, Usable
  <1>1. RingOK'
    <2>1. RingOK
      BY DEF RingOK, TypeOK
    <2> QED BY <2>1, PutRing DEF Put
  <1>2. suspend_thread \in Seq(Thread) /\ NoRepeat(suspend_thread) /\ IpcTypeOK
    BY DEF TypeOK, WaitersQueued
  <1>3. /\ WakeFirst(suspend_thread)
        /\ suspend_thread' = IF suspend_thread # <<>> THEN Tail(suspend_thread) ELSE <<>>
        /\ UNCHANGED <<suspend_sender_thread, delivered>> /\ entry' = entry + 1
    BY DEF Put
  <1>4. /\ suspend_thread' \in Seq(Thread) /\ NoRepeat(suspend_thread')
        /\ suspend_thread' # <<>> => suspend_thread # <<>>
        /\ IpcTypeOK' /\ UNCHANGED <<error, wild>>
    <2> HIDE DEF MailboxInv
    <2> QED BY <1>2, <1>3, WakeFacts
  <1>5. PICK W \in SUBSET Thread : Woken(W, suspend_thread, suspend_thread')
    <2> HIDE DEF MailboxInv
    <2> QED BY <1>2, <1>3, WakeFacts
  <1>6. \A u \in W : u # t /\ stat[u] = "suspend" /\ pc[u] = "recv" /\ error[u] = "EOK"
    BY <1>0, <1>5 DEF WaitersQueued, WaitInv, Woken
  <1>7. /\ pc' \in [Thread -> Pcs] /\ arg' \in [Thread -> Mail \cup {NoMail}]
        /\ left' \in [Thread -> Times]
        /\ \A u \in Thread : /\ u = t => pc'[u] = "run"
                             /\ u # t => pc'[u] = pc[u] /\ arg'[u] = arg[u]
    BY DEF Return, TypeOK, Pcs, Times
  <1>8. TypeOK'
    BY <1>1, <1>3, <1>4, <1>7 DEF TypeOK, RingOK
  <1>9. /\ Pending("recv")' = Pending("recv") \cup W /\ W \cap Pending("recv") = {}
        /\ Pending("send")' = Pending("send") \ {t}
    BY <1>0, <1>4, <1>5, <1>6, <1>7 DEF Pending, Woken
  <1>10. WaitersQueued'
    <2>1. \A u \in Thread :
            /\ InList(suspend_thread', u) <=> stat'[u] = "suspend" /\ pc'[u] = "recv"
            /\ InList(suspend_sender_thread', u) <=> stat'[u] = "suspend" /\ pc'[u] = "send"
            /\ timer'[u] => stat'[u] = "suspend"
      BY <1>0, <1>3, <1>5, <1>6, <1>7 DEF WaitersQueued, Woken
    <2> QED BY <1>3, <1>4, <2>1 DEF WaitersQueued
  <1>11. NoLostWakeup'
    <2>0. entry \in Int /\ Size \in Int
      BY MailboxAssumption DEF TypeOK
    <2>1. ASSUME suspend_thread' # <<>>
          PROVE  entry' <= Cardinality(Pending("recv")')
      <3>1. PICK h \in Thread : W = {h}
        BY <1>4, <1>5, <2>1 DEF Woken
      <3>2. Cardinality(Pending("recv")') = Cardinality(Pending("recv")) + 1
        BY <1>9, <3>1, PendingFinite, FS_AddElement
      <3>3. entry <= Cardinality(Pending("recv"))
        BY <1>4, <2>1 DEF NoLostWakeup
      <3> QED BY <1>3, <2>0, <3>2, <3>3, PendingFinite
    <2>2. ASSUME suspend_sender_thread' # <<>>
          PROVE  Size - entry' <= Cardinality(Pending("send")')
      <3>1. Cardinality(Pending("send")') =
              IF t \in Pending("send") THEN Cardinality(Pending("send")) - 1
              ELSE Cardinality(Pending("send"))
        BY <1>9, PendingFinite, FS_RemoveElement
      <3>2. Size - entry <= Cardinality(Pending("send"))
        BY <1>3, <2>2 DEF NoLostWakeup
      <3> QED BY <1>3, <2>0, <3>1, <3>2, PendingFinite
    <2> QED BY <2>1, <2>2 DEF NoLostWakeup
  <1>12. DeleteInv'
    BY <1>0, <1>7 DEF DeleteInv, Deleting
  <1>13. WaitInv'
    <2>1. Usable'
      BY <1>0, <1>7 DEF Usable
    <2>2. \A u \in Thread :
            stat'[u] = "suspend" => stat[u] = "suspend" /\ u # t
      BY <1>0, <1>5 DEF Woken
    <2>3. \A u \in Thread : pc'[u] = "send" => u # t /\ pc[u] = "send" /\ arg'[u] = arg[u]
      BY <1>7
    <2> QED BY <1>0, <1>4, <1>7, <2>1, <2>2, <2>3 DEF WaitInv
  <1> QED BY <1>1, <1>8, <1>10, <1>11, <1>12, <1>13 DEF RingOK

(* A thread in rt_mb_recv fetches a mail.                                  *)
LEMMA GetInv ==
    ASSUME MailboxInv, NEW t \in Thread, Usable,
           pc[t] = "run" \/ t \in Pending("recv"),
           entry # 0, Get(t), Return(t), UNCHANGED alive
    PROVE  MailboxInv'
  <1> USE DEF MailboxInv
  <1>0. /\ stat[t] # "suspend" /\ pc[t] \in {"run", "recv"} /\ alive
        /\ \A u \in Thread : pc[u] \in {"run", "send", "recv"}
    BY DEF WaitInv, Pending, Usable
  <1>1. /\ RingOK'
        /\ delivered' \in (Thread \cup {NoThread}) \X (Mail \cup {NoMail})
    <2>1. RingOK
      BY DEF RingOK, TypeOK
    <2>2. RingOK' /\ msg_pool[out_offset] \in Mail \cup {NoMail}
      BY <2>1, GetRing DEF Get
    <2> QED BY <2>2 DEF Get
  <1>2. suspend_sender_thread \in Seq(Thread) /\ NoRepeat(suspend_sender_thread) /\ IpcTypeOK
    BY DEF TypeOK, WaitersQueued
  <1>3. /\ WakeFirst(suspend_sender_thread)
        /\ suspend_sender_thread' = IF suspend_sender_thread # <<>> THEN Tail(suspend_sender_thread) ELSE <<>>
        /\ UNCHANGED suspend_thread /\ entry' = entry - 1
    BY DEF Get
  <1>4. /\ suspend_sender_thread' \in Seq(Thread) /\ NoRepeat(suspend_sender_thread')
        /\ suspend_sender_thread' # <<>> => suspend_sender_thread # <<>>
        /\ IpcTypeOK' /\ UNCHANGED <<error, wild>>
    <2> HIDE DEF MailboxInv
    <2> QED BY <1>2, <1>3, WakeFacts
  <1>5. PICK W \in SUBSET Thread : Woken(W, suspend_sender_thread, suspend_sender_thread')
    <2> HIDE DEF MailboxInv
    <2> QED BY <1>2, <1>3, WakeFacts
  <1>6. \A u \in W : u # t /\ stat[u] = "suspend" /\ pc[u] = "send" /\ error[u] = "EOK"
    BY <1>0, <1>5 DEF WaitersQueued, WaitInv, Woken
  <1>7. /\ pc' \in [Thread -> Pcs] /\ arg' \in [Thread -> Mail \cup {NoMail}]
        /\ left' \in [Thread -> Times]
        /\ \A u \in Thread : /\ u = t => pc'[u] = "run"
                             /\ u # t => pc'[u] = pc[u] /\ arg'[u] = arg[u]
    BY DEF Return, TypeOK, Pcs, Times
  <1>8. TypeOK'
    BY <1>1, <1>3, <1>4, <1>7 DEF TypeOK, RingOK
  <1>9. /\ Pending("send")' = Pending("send") \cup W /\ W \cap Pending("send") = {}
        /\ Pending("recv")' = Pending("recv") \ {t}
    BY <1>0, <1>4, <1>5, <1>6, <1>7 DEF Pending, Woken
  <1>10. WaitersQueued'
    <2>1. \A u \in Thread :
            /\ InList(suspend_sender_thread', u) <=> stat'[u] = "suspend" /\ pc'[u] = "send"
            /\ InList(suspend_thread', u) <=> stat'[u] = "suspend" /\ pc'[u] = "recv"
            /\ timer'[u] => stat'[u] = "suspend"
      BY <1>0, <1>3, <1>5, <1>6, <1>7 DEF WaitersQueued, Woken
    <2> QED BY <1>3, <1>4, <2>1 DEF WaitersQueued
  <1>11. NoLostWakeup'
    <2>0. entry \in Int /\ Size \in Int
      BY MailboxAssumption DEF TypeOK
    <2>1. ASSUME suspend_sender_thread' # <<>>
          PROVE  Size - entry' <= Cardinality(Pending("send")')
      <3>1. PICK h \in Thread : W = {h}
        BY <1>4, <1>5, <2>1 DEF Woken
      <3>2. Cardinality(Pending("send")') = Cardinality(Pending("send")) + 1
        BY <1>9, <3>1, PendingFinite, FS_AddElement
      <3>3. Size - entry <= Cardinality(Pending("send"))
        BY <1>4, <2>1 DEF NoLostWakeup
      <3> QED BY <1>3, <2>0, <3>2, <3>3, PendingFinite
    <2>2. ASSUME suspend_thread' # <<>>
          PROVE  entry' <= Cardinality(Pending("recv")')
      <3>1. Cardinality(Pending("recv")') =
              IF t \in Pending("recv") THEN Cardinality(Pending("recv")) - 1
              ELSE Cardinality(Pending("recv"))
        BY <1>9, PendingFinite, FS_RemoveElement
      <3>2. entry <= Cardinality(Pending("recv"))
        BY <1>3, <2>2 DEF NoLostWakeup
      <3> QED BY <1>3, <2>0, <3>1, <3>2, PendingFinite
    <2> QED BY <2>1, <2>2 DEF NoLostWakeup
  <1>12. DeleteInv'
    BY <1>0, <1>7 DEF DeleteInv, Deleting
  <1>13. WaitInv'
    <2>1. Usable'
      BY <1>0, <1>7 DEF Usable
    <2>2. \A u \in Thread :
            stat'[u] = "suspend" => stat[u] = "suspend" /\ u # t
      BY <1>0, <1>5 DEF Woken
    <2>3. \A u \in Thread : pc'[u] = "send" => u # t /\ pc[u] = "send" /\ arg'[u] = arg[u]
      BY <1>7
    <2> QED BY <1>0, <1>4, <1>7, <2>1, <2>2, <2>3 DEF WaitInv
  <1> QED BY <1>1, <1>8, <1>10, <1>11, <1>12, <1>13 DEF RingOK

(* A call returns and changes nothing but its thread: it has no time left  *)
(* and the mailbox is full or empty, or its wait has failed.               *)
LEMMA ReturnInv ==
    ASSUME MailboxInv, NEW t \in Thread, NEW e \in Errors,
           stat[t] # "suspend", pc[t] \in {"run", "send", "recv"},
           t \in Pending("send") => entry = Size, t \in Pending("recv") => entry = 0,
           Return(t), error' = [error EXCEPT ![t] = e],
           UNCHANGED <<stat, timer, wild, ring, lists, delivered, alive>>
    PROVE  MailboxInv'
  <1> USE DEF MailboxInv, ring, lists
  <1>1. /\ pc' \in [Thread -> Pcs] /\ arg' \in [Thread -> Mail \cup {NoMail}]
        /\ left' \in [Thread -> Times] /\ error' \in [Thread -> Errors]
        /\ \A u \in Thread :
             /\ u = t => pc'[u] = "run"
             /\ u # t => pc'[u] = pc[u] /\ arg'[u] = arg[u] /\ error'[u] = error[u]
    BY DEF Return, TypeOK, IpcTypeOK, Pcs, Times
  <1>2. TypeOK'
    BY <1>1 DEF TypeOK, IpcTypeOK
  <1>3. \A w \in {"send", "recv"} : Pending(w)' = Pending(w) \ {t}
    BY <1>1 DEF Pending
  <1>4. WaitersQueued'
    BY <1>1 DEF WaitersQueued
  <1>5. NoLostWakeup'
    <2>0. entry \in Int /\ Size \in Int
      BY MailboxAssumption DEF TypeOK
    <2>1. ASSUME suspend_thread # <<>> PROVE entry <= Cardinality(Pending("recv")')
      <3>1. CASE t \in Pending("recv")
        BY <2>0, <3>1, PendingFinite
      <3>2. CASE t \notin Pending("recv")
        <4>1. Pending("recv")' = Pending("recv")
          BY <1>3, <3>2
        <4> QED BY <2>1, <4>1 DEF NoLostWakeup
      <3> QED BY <3>1, <3>2
    <2>2. ASSUME suspend_sender_thread # <<>>
          PROVE  Size - entry <= Cardinality(Pending("send")')
      <3>1. CASE t \in Pending("send")
        BY <2>0, <3>1, PendingFinite
      <3>2. CASE t \notin Pending("send")
        <4>1. Pending("send")' = Pending("send")
          BY <1>3, <3>2
        <4> QED BY <2>2, <4>1 DEF NoLostWakeup
      <3> QED BY <3>1, <3>2
    <2> QED BY <2>1, <2>2 DEF NoLostWakeup
  <1>6. DeleteInv'
    BY <1>1 DEF DeleteInv, Deleting
  <1>7. WaitInv'
    <2>1. Usable => Usable'
      BY <1>1 DEF Usable
    <2>2. \A u \in Thread : u \in Pending("send")' \cup Pending("recv")' => Usable'
      BY <1>3, <2>1 DEF WaitInv
    <2>3. \A u \in Thread : pc'[u] = "send" => arg'[u] \in Mail
      BY <1>1 DEF WaitInv
    <2>4. \A u \in Thread : stat'[u] = "suspend" =>
            pc'[u] \in {"send", "recv"} /\ error'[u] = "EOK"
      BY <1>1 DEF WaitInv
    <2> QED BY <2>2, <2>3, <2>4 DEF WaitInv
  <1>8. RingInv'
    BY DEF RingInv
  <1> QED BY <1>2, <1>4, <1>5, <1>6, <1>7, <1>8

(* A sender waits for a slot of a full mailbox.                            *)
LEMMA SendWaitsInv ==
    ASSUME MailboxInv, NEW t \in Thread, NEW m \in Mail, NEW time \in Times, Usable,
           pc[t] = "run" \/ t \in Pending("send"),
           entry = Size, Wait(t, "send", m, time),
           suspend_sender_thread' = rt_ipc_list_suspend(suspend_sender_thread, t),
           UNCHANGED <<suspend_thread, alive>>
    PROVE  MailboxInv'
  <1> USE DEF MailboxInv, ring
  <1>0. /\ stat[t] # "suspend" /\ pc[t] \in {"run", "send"} /\ alive
        /\ \A u \in Thread : pc[u] \in {"run", "send", "recv"}
    BY DEF WaitInv, Pending, Usable
  <1>1. /\ suspend_sender_thread' \in Seq(Thread) /\ NoRepeat(suspend_sender_thread')
        /\ \A x : InList(suspend_sender_thread', x) <=>
                    InList(suspend_sender_thread, x) \/ x = t
    <2>1. /\ suspend_sender_thread \in Seq(Thread) /\ NoRepeat(suspend_sender_thread)
          /\ ~InList(suspend_sender_thread, t)
      BY <1>0 DEF TypeOK, WaitersQueued
    <2> HIDE DEF MailboxInv
    <2> QED BY <2>1, SuspendFacts
  <1>2. /\ IpcTypeOK' /\ pc' \in [Thread -> Pcs] /\ left' \in [Thread -> Times]
        /\ arg' \in [Thread -> Mail \cup {NoMail}]
    BY DEF Wait, SuspendSelf, TypeOK, IpcTypeOK, Pcs, Errors
  <1>3. \A u \in Thread :
          /\ u = t => /\ stat'[u] = "suspend" /\ error'[u] = "EOK" /\ pc'[u] = "send"
                      /\ arg'[u] = m
          /\ u # t => /\ stat'[u] = stat[u] /\ error'[u] = error[u] /\ pc'[u] = pc[u]
                      /\ arg'[u] = arg[u] /\ timer'[u] = timer[u]
    BY DEF Wait, SuspendSelf, TypeOK, IpcTypeOK
  <1>4. TypeOK'
    BY <1>1, <1>2 DEF TypeOK, Wait
  <1>5. \A w \in {"send", "recv"} : Pending(w)' = Pending(w) \ {t}
    BY <1>3 DEF Pending
  <1>6. WaitersQueued'
    <2>1. \A u \in Thread :
            /\ InList(suspend_thread, u) <=> stat'[u] = "suspend" /\ pc'[u] = "recv"
            /\ InList(suspend_sender_thread', u) <=> stat'[u] = "suspend" /\ pc'[u] = "send"
            /\ timer'[u] => stat'[u] = "suspend"
      BY <1>0, <1>1, <1>3 DEF WaitersQueued
    <2> QED BY <1>1, <2>1 DEF WaitersQueued
  <1>7. NoLostWakeup'
    <2>1. Pending("recv")' = Pending("recv")
      BY <1>0, <1>5 DEF Pending
    <2>2. Size - entry' = 0 /\ entry' = entry
      BY MailboxAssumption DEF Wait
    <2> QED BY <2>1, <2>2, PendingFinite DEF NoLostWakeup
  <1>8. DeleteInv'
    BY <1>0, <1>3 DEF DeleteInv, Deleting
  <1>9. WaitInv'
    <2>1. Usable'
      BY <1>0, <1>3 DEF Usable
    <2>2. \A u \in Thread : /\ pc'[u] = "send" => arg'[u] \in Mail
                            /\ stat'[u] = "suspend" =>
                                 pc'[u] \in {"send", "recv"} /\ error'[u] = "EOK"
      BY <1>3 DEF WaitInv
    <2> QED BY <1>0, <2>1, <2>2 DEF WaitInv
  <1>10. RingInv'
    BY DEF RingInv, Wait
  <1> QED BY <1>4, <1>6, <1>7, <1>8, <1>9, <1>10

(* A receiver waits for a mail of an empty mailbox.                        *)
LEMMA RecvWaitsInv ==
    ASSUME MailboxInv, NEW t \in Thread, NEW time \in Times, Usable,
           pc[t] = "run" \/ t \in Pending("recv"),
           entry = 0, Wait(t, "recv", NoMail, time),
           suspend_thread' = rt_ipc_list_suspend(suspend_thread, t),
           UNCHANGED <<suspend_sender_thread, alive>>
    PROVE  MailboxInv'
  <1> USE DEF MailboxInv, ring
  <1>0. /\ stat[t] # "suspend" /\ pc[t] \in {"run", "recv"} /\ alive
        /\ \A u \in Thread : pc[u] \in {"run", "send", "recv"}
    BY DEF WaitInv, Pending, Usable
  <1>1. /\ suspend_thread' \in Seq(Thread) /\ NoRepeat(suspend_thread')
        /\ \A x : InList(suspend_thread', x) <=>
                    InList(suspend_thread, x) \/ x = t
    <2>1. /\ suspend_thread \in Seq(Thread) /\ NoRepeat(suspend_thread)
          /\ ~InList(suspend_thread, t)
      BY <1>0 DEF TypeOK, WaitersQueued
    <2> HIDE DEF MailboxInv
    <2> QED BY <2>1, SuspendFacts
  <1>2. /\ IpcTypeOK' /\ pc' \in [Thread -> Pcs] /\ left' \in [Thread -> Times]
        /\ arg' \in [Thread -> Mail \cup {NoMail}]
    BY DEF Wait, SuspendSelf, TypeOK, IpcTypeOK, Pcs, Errors
  <1>3. \A u \in Thread :
          /\ u = t => /\ stat'[u] = "suspend" /\ error'[u] = "EOK" /\ pc'[u] = "recv"
                      /\ arg'[u] = NoMail
          /\ u # t => /\ stat'[u] = stat[u] /\ error'[u] = error[u] /\ pc'[u] = pc[u]
                      /\ arg'[u] = arg[u] /\ timer'[u] = timer[u]
    BY DEF Wait, SuspendSelf, TypeOK, IpcTypeOK
  <1>4. TypeOK'
    BY <1>1, <1>2 DEF TypeOK, Wait
  <1>5. \A w \in {"send", "recv"} : Pending(w)' = Pending(w) \ {t}
    BY <1>3 DEF Pending
  <1>6. WaitersQueued'
    <2>1. \A u \in Thread :
            /\ InList(suspend_sender_thread, u) <=> stat'[u] = "suspend" /\ pc'[u] = "send"
            /\ InList(suspend_thread', u) <=> stat'[u] = "suspend" /\ pc'[u] = "recv"
            /\ timer'[u] => stat'[u] = "suspend"
      BY <1>0, <1>1, <1>3 DEF WaitersQueued
    <2> QED BY <1>1, <2>1 DEF WaitersQueued
  <1>7. NoLostWakeup'
    <2>1. Pending("send")' = Pending("send")
      BY <1>0, <1>5 DEF Pending
    <2>2. entry' = 0
      BY MailboxAssumption DEF Wait
    <2>3. entry' = entry /\ 0 <= Cardinality(Pending("recv")')
      BY PendingFinite DEF Wait
    <2> QED BY <2>1, <2>2, <2>3 DEF NoLostWakeup
  <1>8. DeleteInv'
    BY <1>0, <1>3 DEF DeleteInv, Deleting
  <1>9. WaitInv'
    <2>1. Usable'
      BY <1>0, <1>3 DEF Usable
    <2>2. \A u \in Thread : /\ pc'[u] = "send" => arg'[u] \in Mail
                            /\ stat'[u] = "suspend" =>
                                 pc'[u] \in {"send", "recv"} /\ error'[u] = "EOK"
      BY <1>3 DEF WaitInv
    <2> QED BY <1>0, <2>1, <2>2 DEF WaitInv
  <1>10. RingInv'
    BY DEF RingInv, Wait
  <1> QED BY <1>4, <1>6, <1>7, <1>8, <1>9, <1>10
LEMMA SendLoopInv ==
    ASSUME MailboxInv, NEW t \in Thread, NEW m \in Mail, NEW time \in Times, Usable,
           pc[t] = "run" \/ t \in Pending("send"), SendLoop(t, m, time), UNCHANGED alive
    PROVE  MailboxInv'
  <1>0. stat[t] # "suspend" /\ pc[t] \in {"run", "send"}
    BY DEF MailboxInv, WaitInv, Pending
  <1>1. CASE entry # Size
    BY <1>1, PutInv DEF SendLoop
  <1>2. CASE entry = Size /\ time = "zero"
    <2>1. Return(t) /\ UNCHANGED <<ipcVars, ring, lists, delivered>>
      BY <1>2 DEF SendLoop
    <2>2. error' = [error EXCEPT ![t] = error[t]] /\ error[t] \in Errors
      BY <2>1 DEF ipcVars, MailboxInv, TypeOK, IpcTypeOK
    <2>3. t \notin Pending("recv")
      BY <1>0 DEF Pending
    <2> QED BY <1>0, <1>2, <2>1, <2>2, <2>3, ReturnInv DEF ipcVars
  <1>3. CASE entry = Size /\ time # "zero"
    BY <1>3, SendWaitsInv DEF SendLoop
  <1> QED BY <1>1, <1>2, <1>3

LEMMA RecvLoopInv ==
    ASSUME MailboxInv, NEW t \in Thread, NEW time \in Times, Usable,
           pc[t] = "run" \/ t \in Pending("recv"), RecvLoop(t, time), UNCHANGED alive
    PROVE  MailboxInv'
  <1>0. stat[t] # "suspend" /\ pc[t] \in {"run", "recv"}
    BY DEF MailboxInv, WaitInv, Pending
  <1>1. CASE entry # 0
    BY <1>1, GetInv DEF RecvLoop
  <1>2. CASE entry = 0 /\ time = "zero"
    <2> DEFINE e == IF pc[t] = "recv" THEN "ETIMEOUT" ELSE error[t]
    <2>1. /\ Return(t) /\ UNCHANGED <<stat, timer, wild, ring, lists, delivered>>
          /\ error' = [error EXCEPT ![t] = e]
      BY <1>2 DEF RecvLoop
    <2>2. e \in Errors
      BY DEF MailboxInv, TypeOK, IpcTypeOK, Errors
    <2>3. t \notin Pending("send")
      BY <1>0 DEF Pending
    <2> HIDE DEF e
    <2> QED BY <1>0, <1>2, <2>1, <2>2, <2>3, ReturnInv
  <1>3. CASE entry = 0 /\ time # "zero"
    BY <1>3, RecvWaitsInv DEF RecvLoop
  <1> QED BY <1>1, <1>2, <1>3

LEMMA ResumedInv ==
    ASSUME MailboxInv, NEW t \in Thread, Resumed(t)
    PROVE  MailboxInv'
  <1>0. /\ pc[t] \in {"send", "recv"} /\ stat[t] = "ready" /\ UNCHANGED alive
    BY DEF Resumed
  <1>1. CASE error[t] # "EOK"
    <2>1. Return(t) /\ UNCHANGED <<ipcVars, ring, lists, delivered>>
      BY <1>1 DEF Resumed
    <2>2. error' = [error EXCEPT ![t] = error[t]] /\ error[t] \in Errors
      BY <2>1 DEF ipcVars, MailboxInv, TypeOK, IpcTypeOK
    <2>3. t \notin Pending("recv") /\ t \notin Pending("send")
      BY <1>1 DEF Pending
    <2> QED BY <1>0, <2>1, <2>2, <2>3, ReturnInv DEF ipcVars
  <1>2. CASE error[t] = "EOK"
    <2>1. PICK time \in TimeLeft(left[t]) :
            \/ pc[t] = "send" /\ SendLoop(t, arg[t], time)
            \/ pc[t] = "recv" /\ RecvLoop(t, time)
      BY <1>2 DEF Resumed
    <2>2. time \in Times
      BY DEF TimeLeft, Times, MailboxInv, TypeOK
    <2>3. t \in Pending(pc[t]) /\ Usable
      BY <1>0, <1>2 DEF Pending, MailboxInv, WaitInv
    <2>4. CASE pc[t] = "send" /\ SendLoop(t, arg[t], time)
      <3>1. arg[t] \in Mail
        BY <2>4 DEF MailboxInv, WaitInv
      <3> QED BY <1>0, <2>2, <2>3, <2>4, <3>1, SendLoopInv
    <2>5. CASE pc[t] = "recv" /\ RecvLoop(t, time)
      BY <1>0, <2>2, <2>3, <2>5, RecvLoopInv
    <2> QED BY <2>1, <2>4, <2>5
  <1> QED BY <1>1, <1>2

(* A timeout takes its thread off the list that links it.                  *)
LEMMA TimeoutInv ==
    ASSUME MailboxInv, NEW t \in Thread, Timeout(t)
    PROVE  MailboxInv'
  <1> USE DEF MailboxInv, ring, local
  <1>0. /\ stat[t] = "suspend" /\ \A u \in Thread : pc[u] \notin Deleting
    BY DEF Timeout, rt_thread_timeout, WaitersQueued, DeleteInv
  <1>1. ASSUME NEW list \in Seq(Thread), NoRepeat(list)
        PROVE  /\ ListRemove(list, t) \in Seq(Thread) /\ NoRepeat(ListRemove(list, t))
               /\ \A x : InList(ListRemove(list, t), x) <=> InList(list, x) /\ x # t
               /\ list = <<>> => ListRemove(list, t) = <<>>
    <2>1. list = <<>> => ListRemove(list, t) = <<>>
      BY NoNodes DEF ListRemove
    <2> QED BY <1>1, <2>1, ListRemoveFacts
  <1>2. /\ suspend_thread' = ListRemove(suspend_thread, t)
        /\ suspend_sender_thread' = ListRemove(suspend_sender_thread, t)
        /\ suspend_thread \in Seq(Thread) /\ NoRepeat(suspend_thread)
        /\ suspend_sender_thread \in Seq(Thread) /\ NoRepeat(suspend_sender_thread)
    BY DEF Timeout, TypeOK, WaitersQueued
  <1>3. /\ suspend_thread' \in Seq(Thread) /\ NoRepeat(suspend_thread')
        /\ \A x : InList(suspend_thread', x) <=> InList(suspend_thread, x) /\ x # t
        /\ suspend_thread = <<>> => suspend_thread' = <<>>
    <2> HIDE DEF MailboxInv
    <2> QED BY <1>1, <1>2
  <1>4. /\ suspend_sender_thread' \in Seq(Thread) /\ NoRepeat(suspend_sender_thread')
        /\ \A x : InList(suspend_sender_thread', x) <=>
                    InList(suspend_sender_thread, x) /\ x # t
        /\ suspend_sender_thread = <<>> => suspend_sender_thread' = <<>>
    <2> HIDE DEF MailboxInv
    <2> QED BY <1>1, <1>2
  <1>5. /\ IpcTypeOK'
        /\ \A u \in Thread :
             /\ u = t => stat'[u] = "ready" /\ error'[u] = "ETIMEOUT" /\ ~timer'[u]
             /\ u # t => stat'[u] = stat[u] /\ error'[u] = error[u] /\ timer'[u] = timer[u]
        /\ UNCHANGED <<msg_pool, in_offset, out_offset, entry, pc, arg, left, alive,
                       delivered>>
    BY DEF Timeout, rt_thread_timeout, TypeOK, IpcTypeOK, Errors
  <1>6. TypeOK'
    BY <1>3, <1>4, <1>5 DEF TypeOK
  <1>7. \A w : Pending(w)' = Pending(w)
    BY <1>0, <1>5 DEF Pending
  <1>8. WaitersQueued'
    BY <1>3, <1>4, <1>5 DEF WaitersQueued
  <1>9. NoLostWakeup'
    BY <1>3, <1>4, <1>5, <1>7 DEF NoLostWakeup
  <1>10. DeleteInv'
    BY <1>0, <1>5 DEF DeleteInv
  <1>11. WaitInv'
    BY <1>3, <1>4, <1>5, <1>7 DEF WaitInv, Usable
  <1>12. RingInv'
    BY <1>5 DEF RingInv
  <1> QED BY <1>6, <1>8, <1>9, <1>10, <1>11, <1>12

(* An empty ring starts again at its first slot.                           *)
LEMMA ResetRing ==
    ASSUME TypeOK, entry' = 0, in_offset' = 0, out_offset' = 0, UNCHANGED msg_pool
    PROVE  RingOK'
  <1>1. Size \in Nat /\ Size > 0
    BY MailboxAssumption
  <1>2. RingInv'
    BY <1>1, Wrapped DEF RingInv
  <1> QED BY <1>1, <1>2 DEF RingOK, TypeOK

(* A reset throws every waiter out.                                        *)
LEMMA ResetInv ==
    ASSUME MailboxInv, rt_mb_control
    PROVE  MailboxInv'
  <1> USE DEF MailboxInv, local
  <1> DEFINE S == Linked(suspend_thread) \cup Linked(suspend_sender_thread)
  <1>0. \A u \in Thread : u \in S <=> stat[u] = "suspend"
    BY DEF Linked, WaitersQueued, WaitInv
  <1>1. /\ ResumeAll(S) /\ suspend_thread' = <<>> /\ suspend_sender_thread' = <<>>
        /\ Usable /\ UNCHANGED <<pc, arg, left, alive, delivered>>
    BY DEF rt_mb_control
  <1>2. RingOK'
    BY ResetRing DEF rt_mb_control
  <1> HIDE DEF S
  <1>3. /\ IpcTypeOK'
        /\ \A u \in Thread :
             /\ u \in S => stat'[u] = "ready" /\ error'[u] = "ERROR"
             /\ u \notin S => stat'[u] = stat[u] /\ error'[u] = error[u]
             /\ timer'[u] => timer[u] /\ u \notin S
    <2>1. stat' \in [Thread -> {"ready", "suspend"}] /\ error' \in [Thread -> Errors]
      BY <1>1 DEF ResumeAll, TypeOK, IpcTypeOK, Errors
    <2>2. timer' \in [Thread -> BOOLEAN]
      BY <1>1, Zenon DEF ResumeAll
    <2>3. \A u \in Thread :
            /\ u \in S => stat'[u] = "ready" /\ error'[u] = "ERROR"
            /\ u \notin S => stat'[u] = stat[u] /\ error'[u] = error[u]
      BY <1>1 DEF ResumeAll
    <2>4. \A u \in Thread : timer'[u] => timer[u] /\ u \notin S
      BY <1>1, Zenon DEF ResumeAll
    <2> QED BY <1>1, <2>1, <2>2, <2>3, <2>4 DEF ResumeAll, TypeOK, IpcTypeOK
  <1>4. TypeOK'
    BY <1>1, <1>2, <1>3, NoNodes DEF TypeOK, RingOK
  <1>5. \A u \in Thread : stat'[u] # "suspend" /\ ~timer'[u]
    BY <1>0, <1>3 DEF WaitersQueued, TypeOK, IpcTypeOK
  <1>6. WaitersQueued' /\ NoLostWakeup'
    BY <1>1, <1>5, NoNodes DEF WaitersQueued, NoLostWakeup
  <1>7. DeleteInv'
    BY <1>1 DEF DeleteInv, Deleting, Usable
  <1>8. WaitInv'
    BY <1>1, <1>5 DEF WaitInv, Usable
  <1> QED BY <1>2, <1>4, <1>6, <1>7, <1>8 DEF RingOK

LEMMA DeleteBeginInv ==
    ASSUME MailboxInv, NEW t \in Thread, rt_mb_delete(t)
    PROVE  MailboxInv'
  <1> USE DEF MailboxInv, ipcVars, ring, lists
  <1>0. /\ pc[t] = "run" /\ alive /\ \A u \in Thread : pc[u] \in {"run", "send", "recv"}
        /\ \A u \in Thread : ~timer[u] /\ (pc[u] # "run" => stat[u] = "suspend")
        /\ UNCHANGED <<stat, error, timer, wild, msg_pool, in_offset, out_offset, entry,
                       suspend_thread, suspend_sender_thread, arg, left, alive, delivered>>
    BY DEF rt_mb_delete, Usable
  <1>1. /\ pc' \in [Thread -> Pcs]
        /\ \A u \in Thread : /\ u = t => pc'[u] = "test1"
                             /\ u # t => pc'[u] = pc[u]
    BY DEF rt_mb_delete, TypeOK, Pcs
  <1>2. TypeOK'
    BY <1>0, <1>1 DEF TypeOK, IpcTypeOK
  <1>3. \A w \in {"send", "recv"} : Pending(w)' = {} /\ Pending(w) = {}
    BY <1>0, <1>1 DEF Pending
  <1>4. WaitersQueued'
    BY <1>0, <1>1 DEF WaitersQueued, WaitInv
  <1>5. NoLostWakeup'
    BY <1>0, <1>3 DEF NoLostWakeup
  <1>6. DeleteInv'
    BY <1>0, <1>1 DEF DeleteInv, Deleting
  <1>7. WaitInv'
    BY <1>0, <1>1, <1>3 DEF WaitInv
  <1>8. RingInv'
    BY <1>0 DEF RingInv
  <1> QED BY <1>2, <1>4, <1>5, <1>6, <1>7, <1>8

(* While a deletion is under way no thread is on its way to the mailbox.   *)
LEMMA DeleterAlone ==
    ASSUME MailboxInv, NEW t \in Thread, pc[t] \in Deleting
    PROVE  /\ alive /\ stat[t] # "suspend" /\ ~Usable
           /\ \A u \in Thread : ~timer[u] /\ (pc[u] \in Deleting => u = t)
           /\ \A w \in {"send", "recv"} : Pending(w) = {}
  <1> USE DEF MailboxInv
  <1>1. ~Usable
    BY DEF Usable, Deleting
  <1>2. \A w \in {"send", "recv"} : Pending(w) = {}
    <2>1. \A u \in Thread : u \notin Pending("send") /\ u \notin Pending("recv")
      BY <1>1 DEF WaitInv
    <2> QED BY <2>1 DEF Pending
  <1> QED BY <1>1, <1>2 DEF DeleteInv, WaitInv, Deleting

LEMMA DeleteTestInv ==
    ASSUME MailboxInv, NEW t \in Thread, ResumeAllTest(t)
    PROVE  MailboxInv'
  <1> USE DEF MailboxInv, ipcVars, ring, lists
  <1>0. /\ pc[t] \in {"test1", "test2"} /\ pc[t] \in Deleting
        /\ UNCHANGED <<stat, error, timer, wild, msg_pool, in_offset, out_offset, entry,
                       suspend_thread, suspend_sender_thread, arg, left, delivered>>
    BY DEF ResumeAllTest, Deleting
  <1>1. PICK p \in {"next1", "test2", "next2", "run"} :
          /\ pc' = [pc EXCEPT ![t] = p]
          /\ p = "next1" => suspend_thread # <<>> /\ alive' = alive
          /\ p = "test2" => suspend_thread = <<>> /\ alive' = alive
          /\ p = "next2" => suspend_sender_thread # <<>> /\ pc[t] = "test2" /\ alive' = alive
          /\ p = "run" => suspend_sender_thread = <<>> /\ pc[t] = "test2" /\ alive' = FALSE
    BY DEF ResumeAllTest
  <1>2. /\ pc' \in [Thread -> Pcs]
        /\ \A u \in Thread : /\ u = t => pc'[u] = p
                             /\ u # t => pc'[u] = pc[u]
    BY <1>1 DEF TypeOK, Pcs
  <1>3. /\ alive /\ stat[t] # "suspend"
        /\ \A u \in Thread : ~timer[u] /\ (pc[u] \in Deleting => u = t)
        /\ \A w \in {"send", "recv"} : Pending(w) = {}
    BY <1>0, DeleterAlone
  <1>4. alive' \in BOOLEAN /\ (p = "run" <=> ~alive')
    BY <1>1, <1>3
  <1>5. TypeOK'
    BY <1>0, <1>2, <1>4 DEF TypeOK, IpcTypeOK
  <1>6. \A w \in {"send", "recv"} : Pending(w)' = {}
    BY <1>0, <1>2, <1>3 DEF Pending
  <1>7. WaitersQueued'
    BY <1>0, <1>1, <1>2 DEF WaitersQueued
  <1>8. NoLostWakeup'
    BY <1>0, <1>3, <1>6 DEF NoLostWakeup
  <1>9. pc[t] = "test2" => suspend_thread = <<>>
    BY DEF DeleteInv, Deleting
  <1>10. DeleteInv'
    BY <1>0, <1>1, <1>2, <1>3, <1>4, <1>9 DEF DeleteInv, Deleting
  <1>11. WaitInv'
    <2>1. \A u \in Thread : u \notin Pending("send")' /\ u \notin Pending("recv")'
      BY <1>6
    <2>2. ~alive' => suspend_thread' = <<>> /\ suspend_sender_thread' = <<>>
      BY <1>0, <1>1, <1>4, <1>9
    <2>3. \A u \in Thread : /\ stat'[u] = "suspend" =>
                                 pc'[u] \in {"send", "recv"} /\ error'[u] = "EOK"
                            /\ pc'[u] = "send" => arg'[u] \in Mail
      BY <1>0, <1>1, <1>2, <1>3 DEF WaitInv
    <2> QED BY <2>1, <2>2, <2>3 DEF WaitInv
  <1>12. RingInv'
    BY <1>0 DEF RingInv
  <1> QED BY <1>5, <1>7, <1>8, <1>10, <1>11, <1>12
(* The loop takes the first waiter it has seen: nobody left in between.    *)
LEMMA ThrowOut ==
    ASSUME IpcTypeOK, NEW list \in Seq(Thread), NoRepeat(list), list # <<>>,
           ResumeNext(list)
    PROVE  /\ IpcTypeOK' /\ ListRemove(list, Head(list)) \in Seq(Thread)
           /\ NoRepeat(ListRemove(list, Head(list)))
           /\ \E h \in Thread :
                /\ h = Head(list) /\ InList(list, h)
                /\ \A x : InList(ListRemove(list, h), x) <=> InList(list, x) /\ x # h
                /\ stat' = [stat EXCEPT ![h] = "ready"]
                /\ error' = [error EXCEPT ![h] = "ERROR"]
                /\ timer' = [timer EXCEPT ![h] = FALSE]
  <1> DEFINE h == Head(list)
  <1>1. h \in Thread /\ InList(list, h)
    BY EmptyList
  <1>2. /\ stat' = [stat EXCEPT ![h] = "ready"]
        /\ error' = [error EXCEPT ![h] = "ERROR"]
        /\ timer' = [timer EXCEPT ![h] = FALSE] /\ UNCHANGED wild
    BY DEF ResumeNext
  <1> HIDE DEF h
  <1>3. IpcTypeOK'
    BY <1>1, <1>2 DEF IpcTypeOK, Errors
  <1>4. /\ ListRemove(list, h) \in Seq(Thread) /\ NoRepeat(ListRemove(list, h))
        /\ \A x : InList(ListRemove(list, h), x) <=> InList(list, x) /\ x # h
    BY <1>1, ListRemoveFacts
  <1> QED BY <1>1, <1>2, <1>3, <1>4 DEF h

LEMMA ThrowReceiverInv ==
    ASSUME MailboxInv, NEW t \in Thread, pc[t] = "next1", ResumeNext(suspend_thread),
           suspend_thread' = ListRemove(suspend_thread, Head(suspend_thread)),
           pc' = [pc EXCEPT ![t] = "test1"],
           UNCHANGED <<suspend_sender_thread, ring, arg, left, alive, delivered>>
    PROVE  MailboxInv'
  <1> USE DEF MailboxInv, ring
  <1>0. pc[t] \in Deleting /\ suspend_thread # <<>>
    BY DEF DeleteInv, Deleting
  <1>1. /\ alive /\ stat[t] # "suspend"
        /\ \A u \in Thread : ~timer[u] /\ (pc[u] \in Deleting => u = t)
        /\ \A w \in {"send", "recv"} : Pending(w) = {}
    BY <1>0, DeleterAlone
  <1>2. IpcTypeOK /\ suspend_thread \in Seq(Thread) /\ NoRepeat(suspend_thread)
    BY DEF TypeOK, WaitersQueued
  <1>3. /\ IpcTypeOK' /\ suspend_thread' \in Seq(Thread) /\ NoRepeat(suspend_thread')
        /\ \E h \in Thread :
             /\ InList(suspend_thread, h)
             /\ \A x : InList(suspend_thread', x) <=> InList(suspend_thread, x) /\ x # h
             /\ stat' = [stat EXCEPT ![h] = "ready"]
             /\ error' = [error EXCEPT ![h] = "ERROR"]
             /\ timer' = [timer EXCEPT ![h] = FALSE]
    <2> HIDE DEF MailboxInv
    <2> QED BY <1>0, <1>2, ThrowOut, Zenon
  <1>4. PICK h \in Thread :
             /\ InList(suspend_thread, h)
             /\ \A x : InList(suspend_thread', x) <=> InList(suspend_thread, x) /\ x # h
             /\ stat' = [stat EXCEPT ![h] = "ready"]
             /\ error' = [error EXCEPT ![h] = "ERROR"]
             /\ timer' = [timer EXCEPT ![h] = FALSE]
    BY <1>3
  <1>5. stat[h] = "suspend" /\ pc[h] = "recv" /\ h # t
    BY <1>1, <1>4 DEF WaitersQueued
  <1>6. /\ pc' \in [Thread -> Pcs]
        /\ \A u \in Thread :
             /\ u = h => stat'[u] = "ready" /\ error'[u] = "ERROR"
             /\ u # h => stat'[u] = stat[u] /\ error'[u] = error[u]
             /\ ~timer'[u]
             /\ u = t => pc'[u] = "test1"
             /\ u # t => pc'[u] = pc[u]
    BY <1>1, <1>4 DEF TypeOK, IpcTypeOK, Pcs
  <1>7. TypeOK'
    BY <1>3, <1>6 DEF TypeOK
  <1>8. \A w \in {"send", "recv"} : Pending(w)' = {}
    BY <1>1, <1>5, <1>6 DEF Pending
  <1>9. WaitersQueued'
    <2>1. \A u \in Thread :
            /\ InList(suspend_thread', u) <=> stat'[u] = "suspend" /\ pc'[u] = "recv"
            /\ InList(suspend_sender_thread', u) <=> stat'[u] = "suspend" /\ pc'[u] = "send"
            /\ timer'[u] => stat'[u] = "suspend"
      BY <1>1, <1>4, <1>5, <1>6 DEF WaitersQueued
    <2> QED BY <1>3, <2>1 DEF WaitersQueued
  <1>10. NoLostWakeup'
    BY <1>0, <1>1, <1>8 DEF NoLostWakeup
  <1>11. DeleteInv'
    BY <1>1, <1>6 DEF DeleteInv, Deleting
  <1>12. WaitInv'
    <2>1. \A u \in Thread : u \notin Pending("send")' /\ u \notin Pending("recv")'
      BY <1>8
    <2>2. \A u \in Thread : /\ stat'[u] = "suspend" =>
                                 pc'[u] \in {"send", "recv"} /\ error'[u] = "EOK"
                            /\ pc'[u] = "send" => arg'[u] \in Mail
      BY <1>1, <1>5, <1>6 DEF WaitInv
    <2> QED BY <1>1, <2>1, <2>2 DEF WaitInv
  <1>13. RingInv'
    BY DEF RingInv
  <1> QED BY <1>7, <1>9, <1>10, <1>11, <1>12, <1>13

LEMMA ThrowSenderInv ==
    ASSUME MailboxInv, NEW t \in Thread, pc[t] = "next2", ResumeNext(suspend_sender_thread),
           suspend_sender_thread' = ListRemove(suspend_sender_thread, Head(suspend_sender_thread)),
           pc' = [pc EXCEPT ![t] = "test2"],
           UNCHANGED <<suspend_thread, ring, arg, left, alive, delivered>>
    PROVE  MailboxInv'
  <1> USE DEF MailboxInv, ring
  <1>0. pc[t] \in Deleting /\ suspend_sender_thread # <<>> /\ suspend_thread = <<>>
    BY DEF DeleteInv, Deleting
  <1>1. /\ alive /\ stat[t] # "suspend"
        /\ \A u \in Thread : ~timer[u] /\ (pc[u] \in Deleting => u = t)
        /\ \A w \in {"send", "recv"} : Pending(w) = {}
    BY <1>0, DeleterAlone
  <1>2. IpcTypeOK /\ suspend_sender_thread \in Seq(Thread) /\ NoRepeat(suspend_sender_thread)
    BY DEF TypeOK, WaitersQueued
  <1>3. /\ IpcTypeOK' /\ suspend_sender_thread' \in Seq(Thread) /\ NoRepeat(suspend_sender_thread')
        /\ \E h \in Thread :
             /\ InList(suspend_sender_thread, h)
             /\ \A x : InList(suspend_sender_thread', x) <=> InList(suspend_sender_thread, x) /\ x # h
             /\ stat' = [stat EXCEPT ![h] = "ready"]
             /\ error' = [error EXCEPT ![h] = "ERROR"]
             /\ timer' = [timer EXCEPT ![h] = FALSE]
    <2> HIDE DEF MailboxInv
    <2> QED BY <1>0, <1>2, ThrowOut, Zenon
  <1>4. PICK h \in Thread :
             /\ InList(suspend_sender_thread, h)
             /\ \A x : InList(suspend_sender_thread', x) <=> InList(suspend_sender_thread, x) /\ x # h
             /\ stat' = [stat EXCEPT ![h] = "ready"]
             /\ error' = [error EXCEPT ![h] = "ERROR"]
             /\ timer' = [timer EXCEPT ![h] = FALSE]
    BY <1>3
  <1>5. stat[h] = "suspend" /\ pc[h] = "send" /\ h # t
    BY <1>1, <1>4 DEF WaitersQueued
  <1>6. /\ pc' \in [Thread -> Pcs]
        /\ \A u \in Thread :
             /\ u = h => stat'[u] = "ready" /\ error'[u] = "ERROR"
             /\ u # h => stat'[u] = stat[u] /\ error'[u] = error[u]
             /\ ~timer'[u]
             /\ u = t => pc'[u] = "test2"
             /\ u # t => pc'[u] = pc[u]
    BY <1>1, <1>4 DEF TypeOK, IpcTypeOK, Pcs
  <1>7. TypeOK'
    BY <1>3, <1>6 DEF TypeOK
  <1>8. \A w \in {"send", "recv"} : Pending(w)' = {}
    BY <1>1, <1>5, <1>6 DEF Pending
  <1>9. WaitersQueued'
    <2>1. \A u \in Thread :
            /\ InList(suspend_thread', u) <=> stat'[u] = "suspend" /\ pc'[u] = "recv"
            /\ InList(suspend_sender_thread', u) <=> stat'[u] = "suspend" /\ pc'[u] = "send"
            /\ timer'[u] => stat'[u] = "suspend"
      BY <1>1, <1>4, <1>5, <1>6 DEF WaitersQueued
    <2> QED BY <1>3, <2>1 DEF WaitersQueued
  <1>10. NoLostWakeup'
    BY <1>0, <1>1, <1>8 DEF NoLostWakeup
  <1>11. DeleteInv'
    BY <1>0, <1>1, <1>6 DEF DeleteInv, Deleting
  <1>12. WaitInv'
    <2>1. \A u \in Thread : u \notin Pending("send")' /\ u \notin Pending("recv")'
      BY <1>8
    <2>2. \A u \in Thread : /\ stat'[u] = "suspend" =>
                                 pc'[u] \in {"send", "recv"} /\ error'[u] = "EOK"
                            /\ pc'[u] = "send" => arg'[u] \in Mail
      BY <1>1, <1>5, <1>6 DEF WaitInv
    <2> QED BY <1>1, <2>1, <2>2 DEF WaitInv
  <1>13. RingInv'
    BY DEF RingInv
  <1> QED BY <1>7, <1>9, <1>10, <1>11, <1>12, <1>13

(* A new mailbox takes the place of one that nobody waits on.              *)
LEMMA CreateInv ==
    ASSUME MailboxInv, rt_mb_init
    PROVE  MailboxInv'
  <1> USE DEF MailboxInv, ipcVars, local
  <1>0. /\ ~alive /\ alive' = TRUE /\ suspend_thread' = <<>> /\ suspend_sender_thread' = <<>>
        /\ suspend_thread = <<>> /\ suspend_sender_thread = <<>>
        /\ UNCHANGED <<stat, error, timer, wild, pc, arg, left, delivered>>
    BY DEF rt_mb_init, WaitInv
  <1>1. RingOK'
    BY ResetRing DEF rt_mb_init
  <1>2. TypeOK'
    BY <1>0, <1>1, NoNodes DEF TypeOK, IpcTypeOK, RingOK
  <1>3. WaitersQueued' /\ NoLostWakeup'
    BY <1>0, NoNodes DEF WaitersQueued, NoLostWakeup
  <1>4. DeleteInv'
    BY <1>0 DEF DeleteInv
  <1>5. WaitInv'
    <2>1. \A w : Pending(w)' = Pending(w)
      BY <1>0 DEF Pending
    <2>2. \A u \in Thread : u \notin Pending("send") /\ u \notin Pending("recv")
      BY <1>0 DEF WaitInv, Usable
    <2> QED BY <1>0, <2>1, <2>2 DEF WaitInv
  <1> QED BY <1>1, <1>2, <1>3, <1>4, <1>5 DEF RingOK

LEMMA ThreadStepInv ==
    ASSUME MailboxInv, NEW t \in Thread, ThreadStep(t)
    PROVE  MailboxInv'
  <1>1. ASSUME NEW time \in Times, rt_mb_recv(t, time) PROVE MailboxInv'
    BY <1>1, RecvLoopInv DEF rt_mb_recv
  <1>2. ASSUME NEW time \in Times, NEW m \in Mail, rt_mb_send_wait(t, m, time)
        PROVE  MailboxInv'
    BY <1>2, SendLoopInv DEF rt_mb_send_wait
  <1>3. CASE ResumeAllNext(t)
    BY <1>3, ThrowReceiverInv, ThrowSenderInv DEF ResumeAllNext
  <1> QED BY <1>1, <1>2, <1>3, ResumedInv, TimeoutInv, DeleteBeginInv, DeleteTestInv
         DEF ThreadStep

LEMMA NextInv == MailboxInv /\ [Next]_vars => MailboxInv'
  <1> SUFFICES ASSUME MailboxInv, [Next]_vars PROVE MailboxInv'
    OBVIOUS
  <1>1. CASE UNCHANGED vars
    <2> USE <1>1 DEF vars, ipcVars, ring, lists, local
    <2>1. \A w : Pending(w)' = Pending(w)
      BY DEF Pending
    <2> QED BY <2>1 DEF MailboxInv, TypeOK, IpcTypeOK, WaitersQueued, NoLostWakeup,
              DeleteInv, WaitInv, Usable, RingInv
  <1> QED BY <1>1, ThreadStepInv, ResetInv, CreateInv DEF Next

-----------------------------------------------------------------------------
(* MailboxInv holds in every reachable state of the mailbox.               *)
THEOREM Inductive == Spec => []MailboxInv
  BY InitInv, NextInv, PTL DEF Spec

(* Every field of the mailbox and of the threads that use it keeps a value *)
(* of its type: the offsets stay in the ring, entry never passes size.     *)
THEOREM TypeCorrect == Spec => []TypeOK
  <1>1. MailboxInv => TypeOK
    BY DEF MailboxInv
  <1> QED BY <1>1, Inductive, PTL

(* Each list of the mailbox links exactly the threads suspended in its     *)
(* call, each once, through sends, receives, timeouts, resets and deletion. *)
THEOREM Queued == Spec => []WaitersQueued
  <1>1. MailboxInv => WaitersQueued
    BY DEF MailboxInv
  <1> QED BY <1>1, Inductive, PTL

(* While threads wait in rt_mb_recv every mail has a resumed receiver on   *)
(* its way to it, while threads wait in rt_mb_send_wait every free slot    *)
(* has a resumed sender, whoever overtakes them.                           *)
THEOREM WakeupKept == Spec => []NoLostWakeup
  <1>1. MailboxInv => NoLostWakeup
    BY DEF MailboxInv
  <1> QED BY <1>1, Inductive, PTL
-----------------------------------------------------------------------------
(* The order of service.                                                   *)

(* What a step may do to a list: leave it or empty it, unlink a thread, or *)
(* link one that is not in it.                                             *)
Move(list, new) ==
    \/ new = list \/ new = <<>>
    \/ list # <<>> /\ new = Tail(list)
    \/ \E t : new = ListRemove(list, t)
    \/ \E t \in Thread : ~InList(list, t) /\ new = rt_ipc_list_suspend(list, t)

LEMMA MoveFacts ==
    ASSUME NEW list \in Seq(Thread), NoRepeat(list), Ordered(list),
           NEW new, Move(list, new)
    PROVE  Ordered(new) /\ \A t, u \in Thread : ~Overtakes(u, t, list, new)
  <1>0. \A u \in Thread : Priority[u] \in Nat
    BY IpcAssumption
  <1>1. CASE \A u, t \in Thread : Before(new, u, t) => Before(list, u, t)
    BY <1>1 DEF Ordered, Overtakes
  <1>2. CASE new = list \/ new = <<>>
    BY <1>1, <1>2, NoNodes
  <1>3. CASE list # <<>> /\ new = Tail(list)
    <2>1. \A u, t \in Thread : Before(new, u, t) => Before(list, u, t)
      BY <1>3, TailOrder
    <2> QED BY <1>1, <2>1
  <1>4. CASE \E t : new = ListRemove(list, t)
    <2>1. \A u, t \in Thread : Before(new, u, t) => Before(list, u, t)
      BY <1>4, RemoveOrder
    <2> QED BY <1>1, <2>1
  <1>5. ASSUME NEW x \in Thread, ~InList(list, x), new = rt_ipc_list_suspend(list, x)
        PROVE  Ordered(new) /\ \A t, u \in Thread : ~Overtakes(u, t, list, new)
    <2>1. \A u, t \in Thread : Before(new, u, t) =>
             \/ Before(list, u, t)
             \/ t = x /\ (Flag = "PRIO" => Priority[u] <= Priority[x])
             \/ /\ Flag = "PRIO" /\ u = x
                /\ \E v \in Thread : Priority[x] < Priority[v] /\ (v = t \/ Before(list, v, t))
      BY <1>5, SuspendFacts
    <2>2. \A u, t \in Thread : Before(new, u, t) =>
             \/ Before(list, u, t)
             \/ t = x /\ (Flag = "PRIO" => Priority[u] <= Priority[x])
             \/ Flag = "PRIO" /\ Priority[u] < Priority[t]
      <3> SUFFICES ASSUME NEW t \in Thread, Flag = "PRIO",
                          NEW v \in Thread, Priority[x] < Priority[v],
                          v = t \/ Before(list, v, t)
                   PROVE  Priority[x] < Priority[t]
        BY <2>1
      <3>1. Priority[v] <= Priority[t]
        BY <1>0 DEF Ordered
      <3> QED BY <1>0, <3>1
    <2>3. Ordered(new)
      BY <1>0, <2>2 DEF Ordered
    <2>4. \A t, u \in Thread : ~Overtakes(u, t, list, new)
      BY <1>5, <2>2 DEF Overtakes
    <2> QED BY <2>3, <2>4
  <1> QED BY <1>2, <1>3, <1>4, <1>5 DEF Move

(* Every step moves the lists this way.                                    *)
LEMMA Moves ==
    MailboxInv /\ [Next]_vars =>
      Move(suspend_thread, suspend_thread') /\ Move(suspend_sender_thread, suspend_sender_thread')
  <1> SUFFICES ASSUME MailboxInv, [Next]_vars
               PROVE  /\ Move(suspend_thread, suspend_thread')
                      /\ Move(suspend_sender_thread, suspend_sender_thread')
    OBVIOUS
  <1> DEFINE M == /\ Move(suspend_thread, suspend_thread')
                  /\ Move(suspend_sender_thread, suspend_sender_thread')
  <1>1. CASE UNCHANGED lists
    BY <1>1 DEF lists, Move
  <1>2. \A t \in Thread : pc[t] = "run" \/ stat[t] = "ready" =>
          ~InList(suspend_thread, t) /\ ~InList(suspend_sender_thread, t)
    BY DEF MailboxInv, WaitersQueued
  <1>3. ASSUME NEW t \in Thread, pc[t] = "run" \/ stat[t] = "ready",
               NEW m, NEW time, SendLoop(t, m, time)
        PROVE  M
    <2>1. CASE Put(m)
      BY <2>1 DEF Put, Move
    <2>2. CASE UNCHANGED lists
      BY <1>1, <2>2
    <2>3. CASE /\ suspend_sender_thread' = rt_ipc_list_suspend(suspend_sender_thread, t)
               /\ UNCHANGED suspend_thread
      BY <1>2, <1>3, <2>3 DEF Move
    <2> QED BY <1>3, <2>1, <2>2, <2>3 DEF SendLoop
  <1>4. ASSUME NEW t \in Thread, pc[t] = "run" \/ stat[t] = "ready",
               NEW time, RecvLoop(t, time)
        PROVE  M
    <2>1. CASE Get(t)
      BY <2>1 DEF Get, Move
    <2>2. CASE UNCHANGED lists
      BY <1>1, <2>2
    <2>3. CASE /\ suspend_thread' = rt_ipc_list_suspend(suspend_thread, t)
               /\ UNCHANGED suspend_sender_thread
      BY <1>2, <1>4, <2>3 DEF Move
    <2> QED BY <1>4, <2>1, <2>2, <2>3 DEF RecvLoop
  <1>5. ASSUME NEW t \in Thread, Resumed(t) PROVE M
    <2>1. CASE UNCHANGED lists
      BY <1>1, <2>1
    <2>2. CASE \E time : SendLoop(t, arg[t], time) \/ RecvLoop(t, time)
      BY <1>3, <1>4, <1>5, <2>2 DEF Resumed
    <2> QED BY <1>5, <2>1, <2>2 DEF Resumed
  <1>6. ASSUME NEW t \in Thread, Timeout(t) PROVE M
    BY <1>6 DEF Timeout, Move
  <1>7. ASSUME NEW t \in Thread, ResumeAllNext(t) PROVE M
    BY <1>7 DEF ResumeAllNext, Move
  <1>8. ASSUME NEW t \in Thread, rt_mb_delete(t) \/ ResumeAllTest(t) PROVE M
    <2>1. UNCHANGED lists
      BY <1>8 DEF rt_mb_delete, ResumeAllTest
    <2> QED BY <1>1, <2>1
  <1>9. CASE rt_mb_control \/ rt_mb_init
    BY <1>9 DEF rt_mb_control, rt_mb_init, Move
  <1>10. ASSUME NEW t \in Thread, ThreadStep(t) PROVE M
    <2>1. ASSUME NEW time, rt_mb_recv(t, time) PROVE M
      BY <1>4, <2>1 DEF rt_mb_recv
    <2>2. ASSUME NEW time, NEW m, rt_mb_send_wait(t, m, time) PROVE M
      BY <1>3, <2>2 DEF rt_mb_send_wait
    <2> HIDE DEF M
    <2> QED BY <1>5, <1>6, <1>7, <1>8, <1>10, <2>1, <2>2 DEF ThreadStep
  <1>11. CASE UNCHANGED vars
    BY <1>1, <1>11 DEF vars
  <1> QED BY <1>9, <1>10, <1>11 DEF Next

(* With RT_IPC_FLAG_PRIO the lists stay sorted, which is what keeps a      *)
(* newcomer behind those that are at least as urgent.                      *)
THEOREM Sorted == Spec => []OrderInv
  <1>1. Init => OrderInv
    BY NoNodes DEF Init, OrderInv, Ordered
  <1>2. MailboxInv /\ OrderInv /\ [Next]_vars => OrderInv'
    <2> SUFFICES ASSUME MailboxInv, OrderInv, [Next]_vars PROVE OrderInv'
      OBVIOUS
    <2>1. /\ suspend_thread \in Seq(Thread) /\ NoRepeat(suspend_thread)
          /\ suspend_sender_thread \in Seq(Thread) /\ NoRepeat(suspend_sender_thread)
      BY DEF MailboxInv, TypeOK, WaitersQueued
    <2>2. /\ Ordered(suspend_thread) /\ Move(suspend_thread, suspend_thread')
          /\ Ordered(suspend_sender_thread)
          /\ Move(suspend_sender_thread, suspend_sender_thread')
      BY Moves DEF OrderInv
    <2>3. Ordered(suspend_thread') /\ Ordered(suspend_sender_thread')
      BY <2>1, <2>2, MoveFacts
    <2> QED BY <2>3 DEF OrderInv, Ordered
  <1> QED BY <1>1, <1>2, Inductive, PTL DEF Spec

(* Nobody comes to stand before a thread that waits, in either list of the *)
(* mailbox, unless the flag is RT_IPC_FLAG_PRIO and it is more urgent.     *)
THEOREM Order == Spec => NoOvertaking
  <1>1. MailboxInv /\ OrderInv /\ [Next]_vars =>
          [\A t, u \in Thread :
             /\ ~Overtakes(u, t, suspend_thread, suspend_thread')
             /\ ~Overtakes(u, t, suspend_sender_thread, suspend_sender_thread')]_vars
    <2> SUFFICES ASSUME MailboxInv, OrderInv, [Next]_vars
                 PROVE  \A t, u \in Thread :
                          /\ ~Overtakes(u, t, suspend_thread, suspend_thread')
                          /\ ~Overtakes(u, t, suspend_sender_thread, suspend_sender_thread')
      OBVIOUS
    <2>1. /\ suspend_thread \in Seq(Thread) /\ NoRepeat(suspend_thread)
          /\ suspend_sender_thread \in Seq(Thread) /\ NoRepeat(suspend_sender_thread)
      BY DEF MailboxInv, TypeOK, WaitersQueued
    <2>2. /\ Ordered(suspend_thread) /\ Move(suspend_thread, suspend_thread')
          /\ Ordered(suspend_sender_thread)
          /\ Move(suspend_sender_thread, suspend_sender_thread')
      BY Moves DEF OrderInv
    <2> QED BY <2>1, <2>2, MoveFacts
  <1> QED BY <1>1, Inductive, Sorted, PTL DEF Spec, NoOvertaking

-----------------------------------------------------------------------------
(* The mailbox implements the bounded queue.  A step of rt_mb_send_wait    *)
(* that stores a mail is a Send, one of rt_mb_recv that fetches one is a   *)
(* Receive, a reset, and a new mailbox, is a Reset; no other step changes  *)
(* the contents of the ring.                                               *)
LEMMA SameContents ==
    ASSUME UNCHANGED <<ring, delivered>>
    PROVE  UNCHANGED <<Contents, delivered>>
  BY DEF ring, Contents

LEMMA SendStep ==
    ASSUME MailboxInv, NEW t \in Thread, NEW m \in Mail, NEW time, SendLoop(t, m, time)
    PROVE  Fifo!Next \/ UNCHANGED <<Contents, delivered>>
  <1>1. CASE entry # Size /\ Put(m)
    <2>1. RingOK
      BY DEF MailboxInv, TypeOK, RingOK
    <2>2. Contents' = Append(Contents, m) /\ Len(Contents) < Size
      BY <1>1, <2>1, PutRing DEF Put
    <2>3. Fifo!Send(m)
      BY <1>1, <2>2 DEF Fifo!Send, Put
    <2> QED BY <2>3 DEF Fifo!Next
  <1>2. CASE UNCHANGED <<ring, delivered>>
    BY <1>2, SameContents
  <1> QED BY <1>1, <1>2 DEF SendLoop, Wait

LEMMA ReceiveStep ==
    ASSUME MailboxInv, NEW t \in Thread, NEW time, RecvLoop(t, time)
    PROVE  Fifo!Next \/ UNCHANGED <<Contents, delivered>>
  <1>1. CASE entry # 0 /\ Get(t)
    <2>1. RingOK
      BY DEF MailboxInv, TypeOK, RingOK
    <2>2. /\ Contents' = Tail(Contents) /\ Contents # <<>>
          /\ Head(Contents) = msg_pool[out_offset]
      BY <1>1, <2>1, GetRing DEF Get
    <2>3. Fifo!Receive(t)
      BY <1>1, <2>2 DEF Fifo!Receive, Get
    <2> QED BY <2>3 DEF Fifo!Next
  <1>2. CASE UNCHANGED <<ring, delivered>>
    BY <1>2, SameContents
  <1> QED BY <1>1, <1>2 DEF RecvLoop, Wait

LEMMA ResetStep ==
    ASSUME MailboxInv, rt_mb_control \/ rt_mb_init
    PROVE  Fifo!Next
  <1>1. RingOK' /\ entry' = 0 /\ UNCHANGED delivered
    BY ResetRing DEF MailboxInv, rt_mb_control, rt_mb_init
  <1>2. Contents' = <<>>
    <2>1. RingOK' /\ (entry = 0)' => (Contents = <<>>)'
      BY EmptyRing, PTL
    <2> QED BY <1>1, <2>1
  <1> QED BY <1>1, <1>2 DEF Fifo!Reset, Fifo!Next

(* No mail is lost, delivered twice, overtaken or overwritten: for every   *)
(* size the ring, its offsets and its counter are a bounded FIFO queue.    *)
THEOREM Refinement == Spec => RefinesFifo
  <1>1. Init => Fifo!Init
    <2> SUFFICES ASSUME Init PROVE Fifo!Init
      OBVIOUS
    <2>1. RingOK /\ entry = 0
      BY InitInv DEF Init, MailboxInv, TypeOK, RingOK
    <2> QED BY <2>1, EmptyRing DEF Init, Fifo!Init
  <1>2. MailboxInv /\ [Next]_vars => [Fifo!Next]_<<Contents, delivered>>
    <2> SUFFICES ASSUME MailboxInv, [Next]_vars
                 PROVE  Fifo!Next \/ UNCHANGED <<Contents, delivered>>
      OBVIOUS
    <2>1. ASSUME NEW t \in Thread, ThreadStep(t)
          PROVE  Fifo!Next \/ UNCHANGED <<Contents, delivered>>
      <3>1. ASSUME NEW time, rt_mb_recv(t, time)
            PROVE  Fifo!Next \/ UNCHANGED <<Contents, delivered>>
        BY <3>1, ReceiveStep DEF rt_mb_recv
      <3>2. ASSUME NEW time, NEW m \in Mail, rt_mb_send_wait(t, m, time)
            PROVE  Fifo!Next \/ UNCHANGED <<Contents, delivered>>
        BY <3>2, SendStep DEF rt_mb_send_wait
      <3>3. CASE Resumed(t)
        <4>1. pc[t] = "send" => arg[t] \in Mail
          BY DEF MailboxInv, WaitInv
        <4>2. CASE UNCHANGED <<ring, delivered>>
          BY <4>2, SameContents
        <4>3. CASE \E time : \/ pc[t] = "send" /\ SendLoop(t, arg[t], time)
                             \/ pc[t] = "recv" /\ RecvLoop(t, time)
          BY <4>1, <4>3, SendStep, ReceiveStep
        <4> QED BY <3>3, <4>2, <4>3 DEF Resumed
      <3>4. CASE Timeout(t) \/ rt_mb_delete(t) \/ ResumeAllTest(t) \/ ResumeAllNext(t)
        <4>1. UNCHANGED <<ring, delivered>>
          BY <3>4 DEF Timeout, rt_mb_delete, ResumeAllTest, ResumeAllNext
        <4> QED BY <4>1, SameContents
      <3> QED BY <2>1, <3>1, <3>2, <3>3, <3>4 DEF ThreadStep
    <2>2. CASE UNCHANGED vars
      BY <2>2, SameContents DEF vars
    <2> QED BY <2>1, <2>2, ResetStep DEF Next
  <1> QED BY <1>1, <1>2, Inductive, PTL DEF Spec, RefinesFifo, Fifo!Spec
=============================================================================
