-------------------------- MODULE EventQueueProofs --------------------------
(* Proofs about EventQueue, for every set of threads, interrupt handlers,  *)
(* messages and event bits, every assignment of priorities, both flags and *)
(* every number of slots.                                                  *)
EXTENDS EventQueue, RtListProofs, FiniteSetTheorems, TLAPS

-----------------------------------------------------------------------------
(* The lists of the event are lists as those of the queue are.             *)
LEMMA EvLists ==
    /\ \A s, x : Ev!InList(s, x) <=> InList(s, x)
    /\ \A s : Ev!NoRepeat(s) <=> NoRepeat(s)
    /\ \A s, x : Ev!ListRemove(s, x) = ListRemove(s, x)
    /\ \A s, x, y : Ev!Before(s, x, y) <=> Before(s, x, y)
  BY DEF Ev!InList, InList, Ev!NoRepeat, NoRepeat, Ev!ListRemove, ListRemove, Ev!Before, Before

LEMMA EvSuspendList == \A s, x : Ev!rt_ipc_list_suspend(s, x) = rt_ipc_list_suspend(s, x)
  BY DEF Ev!rt_ipc_list_suspend, rt_ipc_list_suspend, Ev!SuspendIn, SuspendIn, Ev!InsertLast,
     InsertLast, Ev!InsertBefore, InsertBefore, Ev!Place, Place

(* The walk of rt_event_send.                                              *)

(* g is the walk from the event set s over the first n waiters.            *)
WalkStart(s) == [set |-> s, got |-> ev_event_set, list |-> ev_list, woken |-> {}]
WalkTo(s, n, g) ==
    g = [i \in 0 .. n |-> IF i = 0 THEN WalkStart(s) ELSE Ev!Walk(g[i - 1], ev_list[i])]

LEMMA WalkExists ==
    ASSUME NEW s, NEW n \in Nat
    PROVE  \E g : WalkTo(s, n, g)
  <1> DEFINE Bad == {k \in Nat : ~(\E g : WalkTo(s, k, g))}
  <1> SUFFICES ASSUME Bad # {}  PROVE FALSE
    OBVIOUS
  <1>1. PICK k \in Bad : \A i \in Bad : k <= i
    BY Smallest
  <1>2. CASE k = 0
    <2> DEFINE g == [i \in 0 .. 0 |-> WalkStart(s)]
    <2>1. g = [i \in 0 .. 0 |-> IF i = 0 THEN WalkStart(s) ELSE Ev!Walk(g[i - 1], ev_list[i])]
      OBVIOUS
    <2> QED  BY <1>2, <2>1 DEF WalkTo
  <1>3. CASE k # 0
    <2>1. k \in Nat /\ k - 1 \in Nat /\ ~(k <= k - 1)
      BY <1>3
    <2>2. k - 1 \notin Bad
      BY <1>1, <2>1
    <2>3. PICK g : WalkTo(s, k - 1, g)
      BY <2>1, <2>2
    <2> DEFINE h == [i \in 0 .. k |-> IF i = k THEN Ev!Walk(g[k - 1], ev_list[k]) ELSE g[i]]
    <2> HIDE DEF Bad
    <2>4. \A i \in 0 .. k - 1 : h[i] = g[i]
      BY <2>1
    <2>5. \A i \in 0 .. k - 1 :
            g[i] = IF i = 0 THEN WalkStart(s) ELSE Ev!Walk(g[i - 1], ev_list[i])
      BY <2>3 DEF WalkTo
    <2>6. ASSUME NEW i \in 0 .. k
          PROVE  h[i] = IF i = 0 THEN WalkStart(s) ELSE Ev!Walk(h[i - 1], ev_list[i])
      <3>1. CASE i = k
        <4>1. h[i] = Ev!Walk(g[k - 1], ev_list[k])
          BY <3>1
        <4>2. h[k - 1] = g[k - 1] /\ i # 0
          BY <1>3, <2>1, <2>4, <3>1
        <4> HIDE DEF h
        <4> QED  BY <3>1, <4>1, <4>2
      <3>2. CASE i # k
        <4>1. i \in 0 .. k - 1 /\ (i # 0 => i - 1 \in 0 .. k - 1)
          BY <2>1, <3>2
        <4>2. h[i] = g[i] /\ (i # 0 => h[i - 1] = g[i - 1])
          BY <2>4, <4>1
        <4> HIDE DEF h
        <4> QED  BY <2>5, <4>1, <4>2
      <3> QED  BY <3>1, <3>2
    <2>7. h = [i \in 0 .. k |->
                 IF i = 0 THEN WalkStart(s) ELSE Ev!Walk(h[i - 1], ev_list[i])]
      <3> DEFINE r == [i \in 0 .. k |->
                         IF i = 0 THEN WalkStart(s) ELSE Ev!Walk(h[i - 1], ev_list[i])]
      <3>1. DOMAIN h = 0 .. k /\ DOMAIN r = 0 .. k /\ h = [i \in DOMAIN h |-> h[i]]
        OBVIOUS
      <3>2. \A i \in 0 .. k : h[i] = r[i]
        <4> HIDE DEF h
        <4> QED  BY <2>6
      <3> QED  BY <3>1, <3>2
    <2>8. WalkTo(s, k, h)
      <3> HIDE DEF h
      <3> QED  BY <2>7 DEF WalkTo
    <2> QED  BY <2>1, <2>8 DEF Bad
  <1> QED  BY <1>2, <1>3

(* The walk, turn by turn.                                                 *)
Turns(s) == CHOOSE g : WalkTo(s, Len(ev_list), g)

LEMMA WalkTurns ==
    ASSUME NEW s, ev_list \in Seq(Thread)
    PROVE  /\ Ev!Walked(s) = Turns(s)[Len(ev_list)]
           /\ Turns(s)[0] = WalkStart(s)
           /\ \A i \in 1 .. Len(ev_list) :
                Turns(s)[i] = Ev!Walk(Turns(s)[i - 1], ev_list[i])
  <1>1. Ev!Walked(s) = Turns(s)[Len(ev_list)]
    BY DEF Ev!Walked, Turns, WalkTo, WalkStart
  <1>2. Len(ev_list) \in Nat
    OBVIOUS
  <1>3. WalkTo(s, Len(ev_list), Turns(s))
    BY <1>2, WalkExists DEF Turns
  <1> DEFINE g == Turns(s)
             n == Len(ev_list)
  <1> HIDE DEF g, n
  <1>4. g = [i \in 0 .. n |-> IF i = 0 THEN WalkStart(s) ELSE Ev!Walk(g[i - 1], ev_list[i])]
    BY <1>3 DEF WalkTo, g, n
  <1>5. n \in Nat
    BY <1>2 DEF n
  <1>6. \A i \in 0 .. n :
          g[i] = IF i = 0 THEN WalkStart(s) ELSE Ev!Walk(g[i - 1], ev_list[i])
    BY <1>4
  <1>7. g[0] = WalkStart(s) /\ \A i \in 1 .. n : g[i] = Ev!Walk(g[i - 1], ev_list[i])
    BY <1>5, <1>6
  <1> QED  BY <1>1, <1>7 DEF g, n

(* What is known of the walk after i turns, and of the bits it gave away.  *)
WalkList(w, i) ==
    /\ w.list \in Seq(Thread) /\ NoRepeat(w.list)
    /\ \A x : InList(w.list, x) <=> InList(ev_list, x) /\ x \notin w.woken
    /\ \A x \in w.woken : \E j \in 1 .. i : ev_list[j] = x
WalkBits(s, w, i) ==
    /\ w.set \subseteq s
    /\ w.got \in [Thread -> SUBSET Bit]
    /\ \A x \in Thread \ w.woken : w.got[x] = ev_event_set[x]
    /\ \A j \in 1 .. i : ev_list[j] \notin w.woken =>
         ~Ev!Satisfied(w.set, ev_event_set[ev_list[j]], ev_option[ev_list[j]])
WalkGifts(w) ==
    \A x \in w.woken :
      /\ Ev!Satisfied(w.got[x], ev_event_set[x], ev_option[x])
      /\ w.got[x] \subseteq ev_event_set[x]
      /\ \A b \in w.got[x] : \/ b \in w.set
                             \/ \E u \in w.woken : Ev!IsClear(ev_option[u]) /\ b \in w.got[u]
      /\ Ev!IsClear(ev_option[x]) =>
           /\ w.got[x] \cap w.set = {}
           /\ \A u \in w.woken : Before(ev_list, x, u) => w.got[x] \cap w.got[u] = {}
WalkOK(s, w, i) == WalkList(w, i) /\ WalkBits(s, w, i) /\ WalkGifts(w)

(* A thread that more bits do not satisfy, fewer do not satisfy either.    *)
LEMMA FewerBits ==
    ASSUME NEW p, NEW q, p \subseteq q, NEW a, NEW o, ~Ev!Satisfied(q, a, o)
    PROVE  ~Ev!Satisfied(p, a, o)
  BY DEF Ev!Satisfied

(* The waiters as rt_event_send finds them.                                *)
Waiters ==
    /\ ev_list \in Seq(Thread) /\ NoRepeat(ev_list)
    /\ ev_event_set \in [Thread -> SUBSET Bit]
    /\ ev_option \in [Thread -> Ev!Options]

LEMMA WalkTurn ==
    ASSUME Waiters, NEW s \in SUBSET Bit, NEW i \in 1 .. Len(ev_list), NEW w,
           WalkOK(s, w, i - 1)
    PROVE  WalkOK(s, Ev!Walk(w, ev_list[i]), i)
  <1> DEFINE t == ev_list[i]
             a == ev_event_set[t]
             o == ev_option[t]
             G == IF Ev!IsAnd(o) THEN a ELSE a \cap w.set
             N == IF Ev!IsClear(o) THEN w.set \ G ELSE w.set
             got == [w.got EXCEPT ![t] = G]
             v == Ev!Walk(w, t)
  <1>1. /\ t \in Thread /\ a \in SUBSET Bit /\ i \in Nat /\ Len(ev_list) \in Nat
        /\ ev_list \in Seq(Thread) /\ NoRepeat(ev_list)
    BY DEF Waiters
  <1>2. \A j \in 1 .. i : j = i \/ j \in 1 .. i - 1
    BY <1>1
  <1>3. CASE ~Ev!Satisfied(w.set, a, o)
    <2>1. v = w
      BY <1>3 DEF Ev!Walk
    <2> HIDE DEF v
    <2>2. WalkList(w, i)
      <3>1. \A j \in 1 .. i - 1 : j \in 1 .. i
        BY <1>1
      <3> QED  BY <3>1 DEF WalkOK, WalkList
    <2>3. WalkBits(s, w, i)
      BY <1>2, <1>3 DEF WalkOK, WalkBits
    <2> QED  BY <2>1, <2>2, <2>3 DEF WalkOK, v
  <1>4. CASE Ev!Satisfied(w.set, a, o)
    <2>1. v = [set |-> N, got |-> got, list |-> ListRemove(w.list, t),
               woken |-> w.woken \cup {t}]
      BY <1>4, EvLists DEF Ev!Walk
    <2> HIDE DEF v
    <2>2. /\ v.set = N /\ v.got = got /\ v.list = ListRemove(w.list, t)
          /\ v.woken = w.woken \cup {t}
      <3> HIDE DEF N, got, t
      <3> QED  BY <2>1
    <2>3. G \subseteq a /\ G \subseteq w.set
      BY <1>4 DEF Ev!Satisfied
    <2>4. Ev!Satisfied(G, a, o)
      BY <1>4 DEF Ev!Satisfied
    <2>5. /\ N \subseteq w.set
          /\ Ev!IsClear(o) => G \cap N = {}
          /\ \A b \in w.set : b \in N \/ (Ev!IsClear(o) /\ b \in G)
          /\ ~Ev!IsClear(o) => N = w.set
      OBVIOUS
    <2> HIDE DEF N, G
    <2>6. w.got \in [Thread -> SUBSET Bit]
      BY DEF WalkOK, WalkBits
    <2>7. /\ got \in [Thread -> SUBSET Bit] /\ got[t] = G
          /\ \A x \in Thread : x # t => got[x] = w.got[x]
      BY <1>1, <2>3, <2>6
    <2> HIDE DEF got
    <2>8. t \notin w.woken
      <3> SUFFICES ASSUME t \in w.woken  PROVE FALSE
        OBVIOUS
      <3>1. PICK j \in 1 .. i - 1 : ev_list[j] = t
        BY DEF WalkOK, WalkList
      <3>2. j \in 1 .. Len(ev_list) /\ j # i
        BY <1>1
      <3> QED  BY <1>1, <3>1, <3>2 DEF NoRepeat
    <2>9. \A x \in w.woken : x \in Thread /\ x # t /\ InList(ev_list, x)
      <3>1. \A j \in 1 .. i - 1 : ev_list[j] \in Thread /\ j \in 1 .. Len(ev_list)
        BY <1>1
      <3> QED  BY <2>8, <3>1 DEF WalkOK, WalkList, InList
    <2>10. WalkList(v, i)
      <3>1. /\ w.list \in Seq(Thread) /\ NoRepeat(w.list)
            /\ \A x : InList(w.list, x) <=> InList(ev_list, x) /\ x \notin w.woken
            /\ \A x \in w.woken : \E j \in 1 .. i - 1 : ev_list[j] = x
        BY DEF WalkOK, WalkList
      <3> DEFINE l == w.list
      <3>2. /\ ListRemove(w.list, t) \in Seq(Thread) /\ NoRepeat(ListRemove(w.list, t))
            /\ \A x : InList(ListRemove(w.list, t), x) <=> InList(w.list, x) /\ x # t
        <4> HIDE DEF l, t
        <4>1. /\ ListRemove(l, t) \in Seq(Thread) /\ NoRepeat(ListRemove(l, t))
              /\ \A x : InList(ListRemove(l, t), x) <=> InList(l, x) /\ x # t
          BY <3>1, ListRemoveFacts DEF l
        <4> QED  BY <4>1 DEF l
      <3>3. \A x \in w.woken \cup {t} : \E j \in 1 .. i : ev_list[j] = x
        <4>1. \A j \in 1 .. i - 1 : j \in 1 .. i
          BY <1>1
        <4>2. i \in 1 .. i
          BY <1>1
        <4> QED  BY <3>1, <4>1, <4>2
      <3> HIDE DEF t
      <3> QED  BY <2>2, <3>1, <3>2, <3>3 DEF WalkList
    <2>11. WalkBits(s, v, i)
      <3>1. v.set \subseteq s
        BY <2>2, <2>5 DEF WalkOK, WalkBits
      <3>2. \A x \in Thread \ v.woken : v.got[x] = ev_event_set[x]
        BY <2>2, <2>7 DEF WalkOK, WalkBits
      <3>3. ASSUME NEW j \in 1 .. i, ev_list[j] \notin v.woken
            PROVE  ~Ev!Satisfied(v.set, ev_event_set[ev_list[j]], ev_option[ev_list[j]])
        <4>1. j \in 1 .. i - 1 /\ ev_list[j] \notin w.woken
          BY <1>2, <2>2, <3>3
        <4>2. ~Ev!Satisfied(w.set, ev_event_set[ev_list[j]], ev_option[ev_list[j]])
          BY <4>1 DEF WalkOK, WalkBits
        <4> QED  BY <2>2, <2>5, <4>2, FewerBits
      <3> QED  BY <2>2, <2>7, <3>1, <3>2, <3>3 DEF WalkBits
    <2>12. WalkGifts(v)
      <3>1. \A x \in v.woken : x = t \/ x \in w.woken
        BY <2>2
      <3>2. \A x \in w.woken : v.got[x] = w.got[x]
        BY <2>2, <2>7, <2>9
      <3>3. v.got[t] = G /\ v.set = N
        BY <2>2, <2>7
      <3>4. ASSUME NEW x \in w.woken
            PROVE  /\ Ev!Satisfied(v.got[x], ev_event_set[x], ev_option[x])
                   /\ v.got[x] \subseteq ev_event_set[x]
                   /\ \A b \in v.got[x] :
                        \/ b \in v.set
                        \/ \E u \in v.woken : Ev!IsClear(ev_option[u]) /\ b \in v.got[u]
                   /\ Ev!IsClear(ev_option[x]) =>
                        /\ v.got[x] \cap v.set = {}
                        /\ \A u \in v.woken :
                             Before(ev_list, x, u) => v.got[x] \cap v.got[u] = {}
        <4>1. /\ Ev!Satisfied(w.got[x], ev_event_set[x], ev_option[x])
              /\ w.got[x] \subseteq ev_event_set[x]
              /\ \A b \in w.got[x] :
                   \/ b \in w.set
                   \/ \E u \in w.woken : Ev!IsClear(ev_option[u]) /\ b \in w.got[u]
              /\ Ev!IsClear(ev_option[x]) =>
                   /\ w.got[x] \cap w.set = {}
                   /\ \A u \in w.woken :
                        Before(ev_list, x, u) => w.got[x] \cap w.got[u] = {}
          BY DEF WalkOK, WalkGifts
        <4>2. v.got[x] = w.got[x]
          BY <3>2
        <4>3. \A b \in w.set :
                b \in v.set \/ \E u \in v.woken : Ev!IsClear(ev_option[u]) /\ b \in v.got[u]
          BY <2>2, <2>5, <3>3
        <4>4. \A b \in v.got[x] :
                b \in v.set \/ \E u \in v.woken : Ev!IsClear(ev_option[u]) /\ b \in v.got[u]
          BY <2>2, <3>2, <4>1, <4>2, <4>3
        <4>5. Ev!IsClear(ev_option[x]) =>
                /\ v.got[x] \cap v.set = {}
                /\ \A u \in v.woken :
                     Before(ev_list, x, u) => v.got[x] \cap v.got[u] = {}
          BY <2>3, <2>5, <3>1, <3>2, <3>3, <4>1, <4>2
        <4> QED  BY <4>1, <4>2, <4>4, <4>5
      <3>5. /\ Ev!Satisfied(v.got[t], ev_event_set[t], ev_option[t])
            /\ v.got[t] \subseteq ev_event_set[t]
            /\ \A b \in v.got[t] :
                 \/ b \in v.set
                 \/ \E u \in v.woken : Ev!IsClear(ev_option[u]) /\ b \in v.got[u]
            /\ Ev!IsClear(ev_option[t]) =>
                 /\ v.got[t] \cap v.set = {}
                 /\ \A u \in v.woken :
                      Before(ev_list, t, u) => v.got[t] \cap v.got[u] = {}
        <4>1. ASSUME NEW u \in v.woken
              PROVE  ~Before(ev_list, t, u)
          <5> SUFFICES ASSUME Before(ev_list, t, u)  PROVE FALSE
            OBVIOUS
          <5>1. PICK k \in 1 .. Len(ev_list), m \in 1 .. Len(ev_list) :
                  k < m /\ ev_list[k] = t /\ ev_list[m] = u
            BY DEF Before
          <5>2. k = i
            BY <1>1, <5>1 DEF NoRepeat
          <5>3. PICK j \in 1 .. i : ev_list[j] = u
            BY <2>10 DEF WalkList
          <5>4. j \in 1 .. Len(ev_list)
            BY <1>1
          <5>5. j = m
            BY <1>1, <5>1, <5>3, <5>4 DEF NoRepeat
          <5> QED  BY <1>1, <5>1, <5>2, <5>5
        <4>2. \A b \in v.got[t] :
                 \/ b \in v.set
                 \/ \E u \in v.woken : Ev!IsClear(ev_option[u]) /\ b \in v.got[u]
          BY <2>2, <2>3, <2>5, <3>3
        <4> QED  BY <2>3, <2>4, <2>5, <3>3, <4>1, <4>2
      <3> QED  BY <3>1, <3>4, <3>5 DEF WalkGifts
    <2> QED  BY <2>10, <2>11, <2>12 DEF WalkOK, v
  <1> QED  BY <1>3, <1>4

(* The end of the walk.                                                    *)
LEMMA WalkEnd ==
    ASSUME Waiters, NEW s \in SUBSET Bit
    PROVE  WalkOK(s, Ev!Walked(s), Len(ev_list))
  <1> DEFINE n == Len(ev_list)
             g == Turns(s)
             Bad == {k \in 0 .. n : ~WalkOK(s, g[k], k)}
  <1>1. /\ ev_list \in Seq(Thread) /\ n \in Nat /\ NoRepeat(ev_list)
        /\ ev_event_set \in [Thread -> SUBSET Bit]
    BY DEF Waiters
  <1>2. /\ Ev!Walked(s) = g[n] /\ g[0] = WalkStart(s)
        /\ \A i \in 1 .. n : g[i] = Ev!Walk(g[i - 1], ev_list[i])
    BY <1>1, WalkTurns
  <1> HIDE DEF g, n
  <1>3. Bad = {}
    <2> SUFFICES ASSUME Bad # {}  PROVE FALSE
      OBVIOUS
    <2>1. Bad \subseteq Nat
      BY <1>1
    <2>2. PICK k \in Bad : \A i \in Bad : k <= i
      BY <2>1, Smallest
    <2>3. CASE k = 0
      <3> DEFINE w == WalkStart(s)
      <3>1. w.set = s /\ w.got = ev_event_set /\ w.list = ev_list /\ w.woken = {}
        BY DEF WalkStart
      <3> HIDE DEF w
      <3>2. WalkOK(s, w, 0)
        BY <1>1, <3>1 DEF WalkOK, WalkList, WalkBits, WalkGifts
      <3> QED  BY <1>2, <2>2, <2>3, <3>2 DEF w
    <2>4. CASE k # 0
      <3>1. k \in 1 .. n /\ k - 1 \in 0 .. n /\ ~(k <= k - 1)
        BY <1>1, <2>4
      <3>2. WalkOK(s, g[k - 1], k - 1)
        BY <2>2, <3>1
      <3>3. WalkOK(s, Ev!Walk(g[k - 1], ev_list[k]), k)
        BY <3>1, <3>2, WalkTurn DEF n
      <3> QED  BY <1>2, <2>2, <3>1, <3>3
    <2> QED  BY <2>3, <2>4
  <1>4. n \in 0 .. n
    BY <1>1
  <1>5. WalkOK(s, g[n], n)
    BY <1>3, <1>4
  <1> QED  BY <1>2, <1>5 DEF n

-----------------------------------------------------------------------------
(* The inductive invariant of the calls.                                   *)

Deleting == {"test", "next"}
Hands == {"send", "urgent", "copy"}

CallTypeOK ==
    /\ IpcTypeOK /\ ~wild
    /\ suspend_thread \in Seq(Thread) /\ alive \in BOOLEAN
    /\ pc \in [Context -> Pcs] /\ left \in [Context -> Times]
    /\ arg \in [Context -> Message \cup {NoMessage}]
    /\ Ev!EvTypeOK

(* A suspended thread is linked in the list of the object it waits for.    *)
Queued ==
    /\ NoRepeat(suspend_thread) /\ NoRepeat(ev_list)
    /\ \A t \in Thread :
         /\ InList(suspend_thread, t) <=> stat[t] = "suspend" /\ pc[t] = "recv"
         /\ InList(ev_list, t) <=> stat[t] = "suspend" /\ ev_pc[t] = "wait"

(* A thread is in a call of one object; it is suspended in a wait, and     *)
(* only then may its timer run.                                            *)
OneCall ==
    \A t \in Thread :
      /\ pc[t] = "run" \/ ev_pc[t] = "run"
      /\ stat[t] = "suspend" => (pc[t] = "recv" \/ ev_pc[t] = "wait") /\ error[t] = "EOK"
      /\ timer[t] => stat[t] = "suspend"

(* Interrupt handlers do not wait, and senders have a message.             *)
Senders ==
    /\ \A i \in Isr : pc[i] \in {"run"} \cup Hands
    /\ \A c \in Context : pc[c] \in {"send", "urgent"} => arg[c] \in Message

(* A deletion is alone: nobody holds a slot, and the waiters are resumed   *)
(* by nothing else and leave with an error.                                *)
MqGoing == ~alive \/ \E t \in Thread : pc[t] \in Deleting
MqDeleteInv ==
    /\ \A t \in Thread : pc[t] \in Deleting =>
         /\ alive
         /\ \A u \in Thread : pc[u] \in Deleting => u = t
         /\ pc[t] = "next" => suspend_thread # <<>>
    /\ MqGoing =>
         /\ \A c \in Context : pc[c] \notin Hands
         /\ \A u \in Thread : pc[u] = "recv" =>
              ~timer[u] /\ (stat[u] = "ready" => error[u] # "EOK")
    /\ ~alive => suspend_thread = <<>>

EvDeleteInv ==
    /\ \A t \in Thread : ev_pc[t] \in Deleting =>
         /\ ev_alive
         /\ \A u \in Thread : (ev_pc[u] \in Deleting => u = t) /\ (ev_pc[u] = "wait" => ~timer[u])
         /\ ev_pc[t] = "next" => ev_list # <<>>
    /\ ~ev_alive => ev_list = <<>>

(* The event set satisfies no waiter.                                      *)
BitsInv ==
    \A t \in Thread : InList(ev_list, t) =>
      /\ ev_event_set[t] = ev_asked[t]
      /\ ~Ev!Satisfied(ev_set, ev_asked[t], ev_option[t])

CallInv ==
    /\ CallTypeOK
    /\ Queued
    /\ OneCall
    /\ Senders
    /\ MqDeleteInv
    /\ EvDeleteInv
    /\ BitsInv

-----------------------------------------------------------------------------
(* The lists and the threads.                                              *)

LEMMA NoNodes ==
    /\ <<>> \in Seq(Thread) /\ NoRepeat(<<>>)
    /\ \A x : ~InList(<<>>, x)
  BY DEF NoRepeat, InList

(* The list after the threads W were unlinked and the threads S linked.    *)
ListStep(list, new, W, S) ==
    /\ new \in Seq(Thread) /\ NoRepeat(new)
    /\ \A x : InList(new, x) <=> (InList(list, x) /\ x \notin W) \/ x \in S

LEMMA SuspendList ==
    ASSUME NEW list \in Seq(Thread), NEW t \in Thread, NoRepeat(list), ~InList(list, t)
    PROVE  ListStep(list, rt_ipc_list_suspend(list, t), {}, {t})
  <1>1. CASE Flag = "FIFO"
    <2> DEFINE r == InsertLast(list, t)
    <2>1. rt_ipc_list_suspend(list, t) = r
      BY <1>1 DEF rt_ipc_list_suspend, SuspendIn
    <2>2. /\ r \in Seq(Thread) /\ NoRepeat(r)
          /\ \A x : InList(r, x) <=> InList(list, x) \/ x = t
      BY InsertLastFacts
    <2> HIDE DEF r
    <2> QED  BY <2>1, <2>2 DEF ListStep
  <1>2. CASE Flag = "PRIO"
    <2> DEFINE k == Place(Priority, list, t)
    <2>1. k \in 1 .. Len(list) + 1
      <3>1. \E n \in 1 .. Len(list) + 1 :
               /\ \A i \in 1 .. n - 1 : ~(Priority[t] < Priority[list[i]])
               /\ n <= Len(list) => Priority[t] < Priority[list[n]]
        BY OrderedPlace
      <3> QED  BY <3>1 DEF Place
    <2> HIDE DEF k
    <2> DEFINE r == InsertBefore(list, k, t)
    <2>2. rt_ipc_list_suspend(list, t) = r
      BY <1>2 DEF rt_ipc_list_suspend, SuspendIn, k
    <2>3. /\ r \in Seq(Thread) /\ NoRepeat(r)
          /\ \A x : InList(r, x) <=> InList(list, x) \/ x = t
      BY <2>1, InsertBeforeFacts
    <2> HIDE DEF r
    <2> QED  BY <2>2, <2>3 DEF ListStep
  <1> QED  BY <1>1, <1>2, IpcAssumption

LEMMA RemoveList ==
    ASSUME NEW list \in Seq(Thread), NEW t, NoRepeat(list)
    PROVE  ListStep(list, ListRemove(list, t), {t}, {})
  <1> DEFINE r == ListRemove(list, t)
  <1>1. /\ r \in Seq(Thread) /\ NoRepeat(r)
        /\ \A x : InList(r, x) <=> InList(list, x) /\ x # t
    BY ListRemoveFacts
  <1> HIDE DEF r
  <1>2. ListStep(list, r, {t}, {})
    BY <1>1 DEF ListStep
  <1> QED  BY <1>2 DEF r

LEMMA TailList ==
    ASSUME NEW list \in Seq(Thread), NoRepeat(list), list # <<>>
    PROVE  /\ Head(list) \in Thread /\ InList(list, Head(list))
           /\ ListStep(list, Tail(list), {Head(list)}, {})
  <1> DEFINE r == Tail(list)
             h == Head(list)
  <1>1. /\ h \in Thread /\ InList(list, h) /\ r \in Seq(Thread) /\ NoRepeat(r)
        /\ \A x : InList(r, x) <=> InList(list, x) /\ x # h
    BY TailFacts
  <1> HIDE DEF r, h
  <1>2. ListStep(list, r, {h}, {})
    BY <1>1 DEF ListStep
  <1> QED  BY <1>1, <1>2 DEF r, h

LEMMA EmptiedList ==
    ASSUME NEW list \in Seq(Thread)
    PROVE  ListStep(list, <<>>, Linked(list), {})
  <1>1. \A x : InList(list, x) => x \in Thread
    BY DEF InList
  <1> QED  BY <1>1, NoNodes DEF ListStep, Linked

LEMMA SameList ==
    ASSUME NEW list \in Seq(Thread), NoRepeat(list)
    PROVE  ListStep(list, list, {}, {})
  BY DEF ListStep

(* The threads W are resumed, the threads S suspended; errors change only  *)
(* for the threads of W, of S, and those that run.                         *)
Threads(W, S) ==
    /\ IpcTypeOK' /\ wild' = wild
    /\ \A u \in Thread :
         /\ u \in W => stat'[u] = "ready" /\ ~timer'[u]
         /\ u \in S => stat'[u] = "suspend" /\ error'[u] = "EOK"
         /\ u \notin W \cup S => stat'[u] = stat[u] /\ timer'[u] = timer[u]
         /\ u \notin W \cup S /\ error'[u] # error[u] => stat[u] = "ready"

LEMMA SuspendThreads ==
    ASSUME IpcTypeOK, NEW t \in Thread, NEW time, SuspendSelf(t, time)
    PROVE  Threads({}, {t})
  <1>1. /\ stat \in [Thread -> {"ready", "suspend"}] /\ error \in [Thread -> Errors]
        /\ timer \in [Thread -> BOOLEAN] /\ wild \in BOOLEAN
        /\ stat' = [stat EXCEPT ![t] = "suspend"] /\ error' = [error EXCEPT ![t] = "EOK"]
        /\ timer' = [timer EXCEPT ![t] = (time = "ticks")] /\ wild' = wild
    BY DEF IpcTypeOK, SuspendSelf
  <1>2. stat' \in [Thread -> {"ready", "suspend"}] /\ error' \in [Thread -> Errors]
    BY <1>1 DEF Errors
  <1>3. timer' \in [Thread -> BOOLEAN] /\ wild' \in BOOLEAN
    BY <1>1, Zenon
  <1>4. \A u \in Thread :
          /\ u = t => stat'[u] = "suspend" /\ error'[u] = "EOK"
          /\ u # t => stat'[u] = stat[u] /\ timer'[u] = timer[u] /\ error'[u] = error[u]
    BY <1>1
  <1> QED  BY <1>1, <1>2, <1>3, <1>4 DEF Threads, IpcTypeOK

LEMMA ResumeThreads ==
    ASSUME IpcTypeOK, NEW t \in Thread, stat' = [stat EXCEPT ![t] = "ready"],
           timer' = [timer EXCEPT ![t] = FALSE], wild' = wild,
           error' = error \/ \E e \in Errors : error' = [error EXCEPT ![t] = e]
    PROVE  Threads({t}, {})
  <1>1. /\ stat \in [Thread -> {"ready", "suspend"}] /\ error \in [Thread -> Errors]
        /\ timer \in [Thread -> BOOLEAN] /\ wild \in BOOLEAN
    BY DEF IpcTypeOK
  <1>2. stat' \in [Thread -> {"ready", "suspend"}] /\ error' \in [Thread -> Errors]
    BY <1>1
  <1>3. timer' \in [Thread -> BOOLEAN] /\ wild' \in BOOLEAN
    BY <1>1, Zenon
  <1>4. \A u \in Thread :
          /\ u = t => stat'[u] = "ready" /\ ~timer'[u]
          /\ u # t => stat'[u] = stat[u] /\ timer'[u] = timer[u] /\ error'[u] = error[u]
    BY <1>1
  <1> QED  BY <1>1, <1>2, <1>3, <1>4 DEF Threads, IpcTypeOK

LEMMA AllThreads ==
    ASSUME IpcTypeOK, NEW W \in SUBSET Thread,
           stat' = [t \in Thread |-> IF t \in W THEN "ready" ELSE stat[t]],
           timer' = [t \in Thread |-> timer[t] /\ t \notin W], wild' = wild,
           \/ error' = error
           \/ error' = [t \in Thread |-> IF t \in W THEN "ERROR" ELSE error[t]]
    PROVE  Threads(W, {})
  <1>1. /\ stat \in [Thread -> {"ready", "suspend"}] /\ error \in [Thread -> Errors]
        /\ timer \in [Thread -> BOOLEAN] /\ wild \in BOOLEAN
    BY DEF IpcTypeOK
  <1>2. stat' \in [Thread -> {"ready", "suspend"}] /\ error' \in [Thread -> Errors]
    BY <1>1 DEF Errors
  <1>3. timer' \in [Thread -> BOOLEAN] /\ wild' \in BOOLEAN
    BY <1>1, Zenon
  <1>4. \A u \in Thread :
          /\ u \in W => stat'[u] = "ready"
          /\ u \notin W => stat'[u] = stat[u] /\ error'[u] = error[u]
    BY <1>1
  <1>5. \A u \in Thread : timer'[u] = (timer[u] /\ u \notin W)
    BY <1>1
  <1>6. \A u \in Thread : (u \in W => ~timer'[u]) /\ (u \notin W => timer'[u] = timer[u])
    BY <1>1, <1>5, Zenon
  <1> QED  BY <1>1, <1>2, <1>3, <1>4, <1>6 DEF Threads, IpcTypeOK

LEMMA SameThreads ==
    ASSUME IpcTypeOK, UNCHANGED <<stat, timer, wild>>,
           \/ error' = error
           \/ \E t \in Thread, e \in Errors :
                /\ stat[t] = "ready"
                /\ \/ error' = [error EXCEPT ![t] = e]
                   \/ error' = [u \in Thread |-> IF u = t THEN e ELSE error[u]]
    PROVE  Threads({}, {})
  <1>1. error' \in [Thread -> Errors] /\ \A u \in Thread : error'[u] # error[u] => stat[u] = "ready"
    BY DEF IpcTypeOK
  <1> QED  BY <1>1 DEF IpcTypeOK, Threads

-----------------------------------------------------------------------------
(* Steps of the queue.  W are the threads resumed, S those suspended; only *)
(* threads that run move.                                                  *)
MqMove(W, S) ==
    /\ W \subseteq Thread /\ S \subseteq Thread /\ W \cap S = {}
    /\ Threads(W, S)
    /\ ListStep(suspend_thread, suspend_thread', W, S)
    /\ \A u \in W : InList(suspend_thread, u)
    /\ \A u \in Thread :
         /\ u \in S => pc'[u] = "recv"
         /\ pc'[u] = "recv" => u \in S \/ pc[u] = "recv"
         /\ pc'[u] # pc[u] \/ u \in S => stat[u] = "ready" /\ ev_pc[u] = "run"
    /\ UNCHANGED evVars

LEMMA MqMoves ==
    ASSUME CallInv, NEW W, NEW S, MqMove(W, S)
    PROVE  Queued' /\ OneCall' /\ EvDeleteInv' /\ BitsInv' /\ Ev!EvTypeOK' /\ IpcTypeOK' /\ ~wild'
  <1>1. /\ W \subseteq Thread /\ S \subseteq Thread /\ W \cap S = {}
        /\ \A u \in Thread :
             /\ u \in W => stat'[u] = "ready" /\ ~timer'[u]
             /\ u \in S => stat'[u] = "suspend" /\ error'[u] = "EOK"
             /\ u \notin W \cup S => stat'[u] = stat[u] /\ timer'[u] = timer[u]
             /\ u \notin W \cup S /\ error'[u] # error[u] => stat[u] = "ready"
        /\ suspend_thread' \in Seq(Thread) /\ NoRepeat(suspend_thread')
        /\ \A x : InList(suspend_thread', x) <=>
                    (InList(suspend_thread, x) /\ x \notin W) \/ x \in S
        /\ \A u \in W : InList(suspend_thread, u)
        /\ \A u \in Thread :
             /\ u \in S => pc'[u] = "recv"
             /\ pc'[u] = "recv" => u \in S \/ pc[u] = "recv"
             /\ pc'[u] # pc[u] \/ u \in S => stat[u] = "ready" /\ ev_pc[u] = "run"
        /\ IpcTypeOK' /\ wild' = wild
    BY DEF MqMove, Threads, ListStep
  <1>2. UNCHANGED <<ev_set, ev_list, ev_event_set, ev_asked, ev_option, ev_alive, ev_pc>>
    BY DEF MqMove, evVars
  <1>3. /\ NoRepeat(ev_list)
        /\ \A t \in Thread :
             /\ InList(suspend_thread, t) <=> stat[t] = "suspend" /\ pc[t] = "recv"
             /\ InList(ev_list, t) <=> stat[t] = "suspend" /\ ev_pc[t] = "wait"
        /\ \A t \in Thread :
             /\ pc[t] = "run" \/ ev_pc[t] = "run"
             /\ stat[t] = "suspend" => (pc[t] = "recv" \/ ev_pc[t] = "wait") /\ error[t] = "EOK"
             /\ timer[t] => stat[t] = "suspend"
        /\ ~wild /\ Ev!EvTypeOK
    BY DEF CallInv, Queued, OneCall, CallTypeOK
  <1>4. ASSUME NEW t \in Thread
        PROVE  /\ InList(suspend_thread', t) <=> stat'[t] = "suspend" /\ pc'[t] = "recv"
               /\ InList(ev_list, t) <=> stat'[t] = "suspend" /\ ev_pc[t] = "wait"
               /\ pc'[t] = "run" \/ ev_pc[t] = "run"
               /\ stat'[t] = "suspend" => (pc'[t] = "recv" \/ ev_pc[t] = "wait") /\ error'[t] = "EOK"
               /\ timer'[t] => stat'[t] = "suspend"
               /\ ev_pc[t] = "wait" => timer'[t] = timer[t]
    <2>1. CASE t \in W
      BY <1>1, <1>3, <2>1
    <2>2. CASE t \in S
      BY <1>1, <1>3, <2>2
    <2>3. CASE t \notin W \cup S
      BY <1>1, <1>3, <2>3
    <2> QED  BY <2>1, <2>2, <2>3
  <1>5. Queued' /\ OneCall'
    BY <1>1, <1>2, <1>3, <1>4 DEF Queued, OneCall
  <1>6. EvDeleteInv'
    BY <1>2, <1>4 DEF CallInv, EvDeleteInv
  <1>7. BitsInv' /\ Ev!EvTypeOK'
    BY <1>2, <1>3 DEF CallInv, BitsInv, Ev!EvTypeOK, Ev!Satisfied
  <1> QED  BY <1>1, <1>3, <1>5, <1>6, <1>7

(* Nothing is said of a queue that stays in use.                           *)
LEMMA StaysUsable ==
    ASSUME alive', \A t \in Thread : pc'[t] \notin Deleting
    PROVE  MqDeleteInv'
  BY DEF MqDeleteInv, MqGoing

LEMMA AtFacts ==
    ASSUME CallInv, NEW c \in Context, NEW where \in Pcs, NEW s, NEW time \in Times,
           NEW m \in Message \cup {NoMessage}, At(c, where, s, m, time),
           c \in Isr => where \in {"run"} \cup Hands,
           where \in {"send", "urgent"} => m \in Message
    PROVE  /\ pc' \in [Context -> Pcs] /\ left' \in [Context -> Times]
           /\ arg' \in [Context -> Message \cup {NoMessage}]
           /\ pc'[c] = where /\ \A d \in Context : d # c => pc'[d] = pc[d]
           /\ Senders'
  <1>1. /\ pc \in [Context -> Pcs] /\ left \in [Context -> Times]
        /\ arg \in [Context -> Message \cup {NoMessage}]
    BY DEF CallInv, CallTypeOK
  <1>2. /\ pc' = [pc EXCEPT ![c] = where] /\ arg' = [arg EXCEPT ![c] = m]
        /\ left' = [left EXCEPT ![c] = time]
    BY DEF At
  <1>3. /\ pc'[c] = where /\ \A d \in Context : d # c => pc'[d] = pc[d]
        /\ arg'[c] = m /\ \A d \in Context : d # c => arg'[d] = arg[d]
    BY <1>1, <1>2
  <1>4. \A i \in Isr : i \in Context
    BY DEF Context
  <1>5. Senders'
    BY <1>3, <1>4 DEF Senders, CallInv
  <1> QED  BY <1>1, <1>2, <1>3, <1>5

LEMMA Ready ==
    ASSUME CallInv, NEW t \in Thread, ev_pc[t] = "run", pc[t] # "recv"
    PROVE  stat[t] = "ready"
  BY DEF CallInv, CallTypeOK, IpcTypeOK, OneCall

LEMMA ThreadIsContext == \A t \in Thread : t \in Context /\ t \notin Isr
  BY MessageQueueAssumption DEF Context

(* A step of the queue keeps the invariant.                                *)
LEMMA MqStepInv ==
    ASSUME CallInv, NEW W, NEW S, MqMove(W, S), MqDeleteInv', Senders',
           pc' \in [Context -> Pcs], left' \in [Context -> Times],
           arg' \in [Context -> Message \cup {NoMessage}], alive' \in BOOLEAN
    PROVE  CallInv'
  <1>1. suspend_thread' \in Seq(Thread)
    BY DEF MqMove, ListStep
  <1>2. CallTypeOK'
    BY <1>1, MqMoves DEF CallTypeOK
  <1> QED  BY <1>2, MqMoves DEF CallInv

(* A step of c in which no thread is suspended or resumed.                 *)
Runner(c) == c \in Thread => ev_pc[c] = "run" /\ stat[c] = "ready"

LEMMA Moving ==
    ASSUME CallInv, NEW c \in Context, Runner(c), Threads({}, {}),
           pc'[c] # "recv", \A d \in Context : d # c => pc'[d] = pc[d],
           UNCHANGED suspend_thread, UNCHANGED evVars
    PROVE  MqMove({}, {})
  <1>1. ListStep(suspend_thread, suspend_thread', {}, {})
    BY SameList DEF CallInv, CallTypeOK, Queued
  <1>2. \A u \in Thread : pc'[u] # pc[u] => u = c
    BY ThreadIsContext
  <1>3. \A u \in Thread :
          /\ pc'[u] = "recv" => pc[u] = "recv"
          /\ pc'[u] # pc[u] => stat[u] = "ready" /\ ev_pc[u] = "run"
    BY <1>2 DEF Runner
  <1> QED  BY <1>1, <1>3 DEF MqMove

LEMMA InUse ==
    /\ Usable <=> alive /\ \A c \in Context : pc[c] \notin Deleting
    /\ CallInv => (Usable <=> ~MqGoing)
  <1>1. Usable <=> alive /\ \A c \in Context : pc[c] \notin Deleting
    BY DEF Usable, Deleting
  <1>2. ASSUME CallInv  PROVE Usable <=> ~MqGoing
    <2>1. \A i \in Isr : pc[i] \notin Deleting
      BY <1>2 DEF CallInv, Senders, Deleting, Hands
    <2> QED  BY <1>1, <2>1 DEF MqGoing, Context
  <1> QED  BY <1>1, <1>2

(* A context that holds a slot, or was resumed without an error, finds the *)
(* queue in use.                                                           *)
LEMMA HandsInUse ==
    ASSUME CallInv, NEW c \in Context,
           \/ pc[c] \in Hands
           \/ c \in Thread /\ pc[c] = "recv" /\ stat[c] = "ready" /\ error[c] = "EOK"
           \/ c \in Thread /\ pc[c] = "recv" /\ timer[c]
    PROVE  Usable
  BY InUse DEF CallInv, MqDeleteInv

(* A step of c, with the queue in use, to a place that is not a deletion.  *)
LEMMA UsableStep ==
    ASSUME CallInv, Usable, NEW c \in Context, pc'[c] \notin Deleting,
           \A d \in Context : d # c => pc'[d] = pc[d], alive' = alive
    PROVE  MqDeleteInv' /\ alive' \in BOOLEAN
  <1>1. alive' /\ \A t \in Thread : pc'[t] \notin Deleting
    BY InUse, ThreadIsContext
  <1> QED  BY <1>1, StaysUsable

LEMMA SameIpc == ASSUME CallInv, UNCHANGED ipcVars PROVE Threads({}, {})
  BY SameThreads DEF CallInv, CallTypeOK, ipcVars

LEMMA TakeSlotInv ==
    ASSUME CallInv, NEW c \in Context, Runner(c), NEW m \in Message,
           NEW where \in {"send", "urgent"}, TakeSlot(c, m, where), UNCHANGED evVars
    PROVE  CallInv'
  <1>1. /\ pc[c] = "run" /\ Usable /\ At(c, where, msg_queue_free, m, "zero")
        /\ UNCHANGED <<ipcVars, suspend_thread, alive>>
    BY DEF TakeSlot
  <1>2. /\ pc' \in [Context -> Pcs] /\ left' \in [Context -> Times]
        /\ arg' \in [Context -> Message \cup {NoMessage}]
        /\ pc'[c] = where /\ \A d \in Context : d # c => pc'[d] = pc[d]
        /\ Senders'
    BY <1>1, AtFacts DEF Pcs, Times, Hands
  <1>3. MqMove({}, {})
    BY <1>1, <1>2, Moving, SameIpc
  <1>4. MqDeleteInv' /\ alive' \in BOOLEAN
    BY <1>1, <1>2, UsableStep DEF Deleting
  <1> QED  BY <1>2, <1>3, <1>4, MqStepInv

LEMMA WakeMove ==
    ASSUME CallInv, NEW c \in Context, Runner(c), WakeReceiver, pc[c] # "recv",
           pc'[c] = "run", \A d \in Context : d # c => pc'[d] = pc[d], UNCHANGED evVars
    PROVE  \E W \in SUBSET Thread :
             /\ MqMove(W, {}) /\ error' = error
             /\ suspend_thread = <<>> => W = {} /\ suspend_thread' = <<>>
             /\ suspend_thread # <<>> => \E h \in Thread : W = {h}
  <1>1. CASE suspend_thread = <<>>
    <2>1. UNCHANGED <<ipcVars, suspend_thread>>
      BY <1>1 DEF WakeReceiver
    <2>2. MqMove({}, {})
      BY <2>1, SameIpc, Moving
    <2> QED  BY <1>1, <2>1, <2>2 DEF ipcVars
  <1>2. CASE suspend_thread # <<>>
    <2> DEFINE h == Head(suspend_thread)
    <2>1. rt_thread_resume(h) /\ suspend_thread' = Tail(suspend_thread)
      BY <1>2 DEF WakeReceiver
    <2>2. /\ h \in Thread /\ InList(suspend_thread, h)
          /\ ListStep(suspend_thread, suspend_thread', {h}, {})
      BY <1>2, <2>1, TailList DEF CallInv, CallTypeOK, Queued
    <2> HIDE DEF h
    <2>3. Threads({h}, {}) /\ error' = error
      <3>1. IpcTypeOK
        BY DEF CallInv, CallTypeOK
      <3>2. /\ stat' = [stat EXCEPT ![h] = "ready"] /\ timer' = [timer EXCEPT ![h] = FALSE]
            /\ wild' = wild /\ error' = error
        BY <2>1 DEF rt_thread_resume
      <3> QED  BY <2>2, <3>1, <3>2, ResumeThreads
    <2>4. \A u \in Thread : pc'[u] # pc[u] => u = c
      BY ThreadIsContext
    <2>5. MqMove({h}, {})
      <3>1. \A u \in Thread :
              /\ pc'[u] = "recv" => pc[u] = "recv"
              /\ pc'[u] # pc[u] => stat[u] = "ready" /\ ev_pc[u] = "run"
        BY <2>4 DEF Runner
      <3> QED  BY <2>2, <2>3, <3>1 DEF MqMove
    <2> QED  BY <1>2, <2>2, <2>3, <2>5
  <1> QED  BY <1>1, <1>2

LEMMA LinkInv ==
    ASSUME CallInv, NEW c \in Context, Runner(c), LinkLast(c) \/ LinkFirst(c), UNCHANGED evVars
    PROVE  CallInv'
  <1>1. /\ pc[c] \in Hands /\ Return(c) /\ WakeReceiver /\ alive' = alive
    BY DEF LinkLast, LinkFirst, Hands
  <1>2. Usable
    BY <1>1, HandsInUse
  <1>3. /\ pc' \in [Context -> Pcs] /\ left' \in [Context -> Times]
        /\ arg' \in [Context -> Message \cup {NoMessage}]
        /\ pc'[c] = "run" /\ \A d \in Context : d # c => pc'[d] = pc[d]
        /\ Senders'
    BY <1>1, AtFacts DEF Return, Pcs, Times, Hands
  <1>4. \E W \in SUBSET Thread : MqMove(W, {})
    <2>1. pc[c] # "recv"
      BY <1>1 DEF Hands
    <2> QED  BY <1>1, <1>3, <2>1, WakeMove
  <1>5. MqDeleteInv' /\ alive' \in BOOLEAN
    BY <1>1, <1>2, <1>3, UsableStep DEF Deleting
  <1> QED  BY <1>3, <1>4, <1>5, MqStepInv

LEMMA FreeSlotInv ==
    ASSUME CallInv, NEW c \in Context, Runner(c), FreeSlot(c), UNCHANGED evVars
    PROVE  CallInv'
  <1>1. /\ pc[c] \in Hands /\ Return(c) /\ alive' = alive
        /\ UNCHANGED <<ipcVars, suspend_thread>>
    BY DEF FreeSlot, Hands
  <1>2. Usable
    BY <1>1, HandsInUse
  <1>3. /\ pc' \in [Context -> Pcs] /\ left' \in [Context -> Times]
        /\ arg' \in [Context -> Message \cup {NoMessage}]
        /\ pc'[c] = "run" /\ \A d \in Context : d # c => pc'[d] = pc[d]
        /\ Senders'
    BY <1>1, AtFacts DEF Return, Pcs, Times, Hands
  <1>4. MqMove({}, {})
    BY <1>1, <1>3, Moving, SameIpc
  <1>5. MqDeleteInv' /\ alive' \in BOOLEAN
    BY <1>1, <1>2, <1>3, UsableStep DEF Deleting
  <1> QED  BY <1>3, <1>4, <1>5, MqStepInv

(* The loop of rt_mq_recv, entered with the queue in use.                  *)
LEMMA RecvLoopInv ==
    ASSUME CallInv, Usable, NEW c \in Context, Runner(c), NEW time \in Times,
           c \in Isr => time = "zero", RecvLoop(c, time), alive' = alive, UNCHANGED evVars
    PROVE  CallInv'
  <1>0. IpcTypeOK
    BY DEF CallInv, CallTypeOK
  <1>1. CASE entry # 0 /\ TakeFirst(c)
    <2>1. /\ At(c, "copy", msg_queue_head, NoMessage, "zero")
          /\ UNCHANGED <<ipcVars, suspend_thread>>
      BY <1>1 DEF TakeFirst
    <2>2. /\ pc' \in [Context -> Pcs] /\ left' \in [Context -> Times]
          /\ arg' \in [Context -> Message \cup {NoMessage}]
          /\ pc'[c] = "copy" /\ \A d \in Context : d # c => pc'[d] = pc[d]
          /\ Senders'
      BY <2>1, AtFacts DEF Pcs, Times, Hands
    <2>3. MqMove({}, {})
      BY <2>1, <2>2, Moving, SameIpc
    <2>4. MqDeleteInv' /\ alive' \in BOOLEAN
      BY <2>2, UsableStep DEF Deleting
    <2> QED  BY <2>2, <2>3, <2>4, MqStepInv
  <1>2. CASE /\ entry = 0 /\ time = "zero"
             /\ Return(c)
             /\ error' = [t \in Thread |->
                            IF t = c /\ pc[c] = "recv" THEN "ETIMEOUT" ELSE error[t]]
             /\ UNCHANGED <<stat, timer, wild, pool, suspend_thread>>
    <2>1. /\ pc' \in [Context -> Pcs] /\ left' \in [Context -> Times]
          /\ arg' \in [Context -> Message \cup {NoMessage}]
          /\ pc'[c] = "run" /\ \A d \in Context : d # c => pc'[d] = pc[d]
          /\ Senders'
      BY <1>2, AtFacts DEF Return, Pcs, Times, Hands
    <2>2. Threads({}, {})
      <3>1. \/ error' = error
            \/ /\ c \in Thread
               /\ error' = [u \in Thread |-> IF u = c THEN "ETIMEOUT" ELSE error[u]]
        BY <1>0, <1>2 DEF IpcTypeOK
      <3>2. c \in Thread => stat[c] = "ready"
        BY DEF Runner
      <3>3. "ETIMEOUT" \in Errors
        BY DEF Errors
      <3> QED  BY <1>0, <1>2, <3>1, <3>2, <3>3, SameThreads
    <2>3. MqMove({}, {})
      BY <1>2, <2>1, <2>2, Moving
    <2>4. MqDeleteInv' /\ alive' \in BOOLEAN
      BY <2>1, UsableStep DEF Deleting
    <2> QED  BY <2>1, <2>3, <2>4, MqStepInv
  <1>3. CASE /\ entry = 0 /\ time # "zero"
             /\ SuspendSelf(c, time)
             /\ suspend_thread' = rt_ipc_list_suspend(suspend_thread, c)
             /\ At(c, "recv", NoSlot, NoMessage, time)
             /\ UNCHANGED pool
    <2>1. c \in Thread /\ ev_pc[c] = "run" /\ stat[c] = "ready"
      BY <1>3 DEF Context, Runner
    <2>2. /\ pc' \in [Context -> Pcs] /\ left' \in [Context -> Times]
          /\ arg' \in [Context -> Message \cup {NoMessage}]
          /\ pc'[c] = "recv" /\ \A d \in Context : d # c => pc'[d] = pc[d]
          /\ Senders'
      BY <1>3, <2>1, AtFacts, ThreadIsContext DEF Pcs
    <2>3. ListStep(suspend_thread, suspend_thread', {}, {c})
      BY <1>3, <2>1, SuspendList DEF CallInv, CallTypeOK, Queued
    <2>4. Threads({}, {c})
      BY <1>0, <1>3, <2>1, SuspendThreads
    <2>5. MqMove({}, {c})
      <3>1. \A u \in Thread : u # c => pc'[u] = pc[u]
        BY <2>2, ThreadIsContext
      <3> QED  BY <2>1, <2>2, <2>3, <2>4, <3>1 DEF MqMove
    <2>6. MqDeleteInv' /\ alive' \in BOOLEAN
      BY <2>2, UsableStep DEF Deleting
    <2> QED  BY <2>2, <2>5, <2>6, MqStepInv
  <1> QED  BY <1>1, <1>2, <1>3 DEF RecvLoop

LEMMA TimeLeftTimes == \A time \in Times : TimeLeft(time) \subseteq Times
  BY DEF TimeLeft, Times

LEMMA ResumedInv ==
    ASSUME CallInv, NEW t \in Thread, ev_pc[t] = "run", Resumed(t), UNCHANGED evVars
    PROVE  CallInv'
  <1>1. /\ pc[t] = "recv" /\ stat[t] = "ready" /\ alive' = alive /\ t \in Context /\ t \notin Isr
        /\ Runner(t)
    BY ThreadIsContext DEF Resumed, Runner
  <1>2. CASE error[t] = "EOK"
    <2>1. Usable
      BY <1>1, <1>2, HandsInUse
    <2>2. PICK time \in TimeLeft(left[t]) : RecvLoop(t, time)
      BY <1>2 DEF Resumed
    <2>3. time \in Times
      BY <1>1, TimeLeftTimes DEF CallInv, CallTypeOK
    <2> QED  BY <1>1, <2>1, <2>2, <2>3, RecvLoopInv
  <1>3. CASE error[t] # "EOK"
    <2>1. Return(t) /\ UNCHANGED <<ipcVars, pool, suspend_thread>>
      BY <1>3 DEF Resumed
    <2>2. /\ pc' \in [Context -> Pcs] /\ left' \in [Context -> Times]
          /\ arg' \in [Context -> Message \cup {NoMessage}]
          /\ pc'[t] = "run" /\ \A d \in Context : d # t => pc'[d] = pc[d]
          /\ Senders'
      BY <1>1, <2>1, AtFacts DEF Return, Pcs, Times, Hands
    <2>3. MqMove({}, {})
      BY <1>1, <2>1, <2>2, Moving, SameIpc
    <2>4. MqDeleteInv'
      <3>1. \A u \in Thread : (u = t => pc'[u] = "run") /\ (u # t => pc'[u] = pc[u])
        BY <2>2, ThreadIsContext
      <3>2. UNCHANGED <<alive, suspend_thread, stat, error, timer>>
        BY <1>1, <2>1 DEF ipcVars
      <3>3. /\ MqGoing' => MqGoing
            /\ \A u \in Thread : pc'[u] \in Deleting => pc[u] = pc'[u]
            /\ \A c \in Context : pc'[c] \in Hands => pc[c] \in Hands
            /\ \A u \in Thread : pc'[u] = "recv" => pc[u] = "recv"
        BY <1>1, <2>2, <3>1 DEF MqGoing, Deleting, Hands
      <3> QED  BY <3>2, <3>3 DEF CallInv, MqDeleteInv
    <2>5. alive' \in BOOLEAN
      BY <1>1 DEF CallInv, CallTypeOK
    <2> QED  BY <2>2, <2>3, <2>4, <2>5, MqStepInv
  <1> QED  BY <1>2, <1>3

LEMMA TimeoutInv ==
    ASSUME CallInv, NEW t \in Thread, Timeout(t), UNCHANGED evVars
    PROVE  CallInv'
  <1>1. /\ pc[t] = "recv" /\ timer[t] /\ rt_thread_timeout(t) /\ t \in Context
        /\ UNCHANGED <<alive, pc, slot, arg, left>>
        /\ suspend_thread' = ListRemove(suspend_thread, t)
    BY ThreadIsContext DEF Timeout, rt_thread_timeout, local
  <1>2. stat[t] = "suspend" /\ InList(suspend_thread, t)
    BY <1>1 DEF CallInv, OneCall, Queued
  <1>3. ListStep(suspend_thread, suspend_thread', {t}, {})
    BY <1>1, RemoveList DEF CallInv, CallTypeOK, Queued
  <1>4. Threads({t}, {})
    <2>1. /\ IpcTypeOK /\ stat' = [stat EXCEPT ![t] = "ready"]
          /\ timer' = [timer EXCEPT ![t] = FALSE] /\ wild' = wild
          /\ error' = [error EXCEPT ![t] = "ETIMEOUT"] /\ "ETIMEOUT" \in Errors
      BY <1>1 DEF rt_thread_timeout, CallInv, CallTypeOK, Errors
    <2> QED  BY <2>1, ResumeThreads
  <1>5. MqMove({t}, {})
    BY <1>1, <1>2, <1>3, <1>4 DEF MqMove
  <1>6. Usable
    BY <1>1, HandsInUse
  <1>7. MqDeleteInv'
    <2>1. alive' /\ \A u \in Thread : pc'[u] \notin Deleting
      BY <1>1, <1>6, InUse, ThreadIsContext
    <2> QED  BY <2>1, StaysUsable
  <1>8. /\ pc' \in [Context -> Pcs] /\ left' \in [Context -> Times]
        /\ arg' \in [Context -> Message \cup {NoMessage}] /\ alive' \in BOOLEAN
        /\ Senders'
    BY <1>1 DEF CallInv, CallTypeOK, Senders
  <1> QED  BY <1>5, <1>7, <1>8, MqStepInv

LEMMA ControlInv ==
    ASSUME CallInv, rt_mq_control, UNCHANGED evVars
    PROVE  CallInv'
  <1> DEFINE W == Linked(suspend_thread)
  <1>1. /\ Usable /\ ResumeAll(W) /\ suspend_thread' = <<>>
        /\ UNCHANGED <<alive, pc, slot, arg, left>>
    BY DEF rt_mq_control, local
  <1>2. /\ W \in SUBSET Thread /\ \A u \in W : InList(suspend_thread, u)
        /\ ListStep(suspend_thread, suspend_thread', W, {})
    BY <1>1, EmptiedList DEF Linked, CallInv, CallTypeOK
  <1> HIDE DEF W
  <1>3. Threads(W, {})
    <2>1. /\ IpcTypeOK /\ wild' = wild
          /\ stat' = [t \in Thread |-> IF t \in W THEN "ready" ELSE stat[t]]
          /\ timer' = [t \in Thread |-> timer[t] /\ t \notin W]
          /\ error' = [t \in Thread |-> IF t \in W THEN "ERROR" ELSE error[t]]
      BY <1>1 DEF ResumeAll, CallInv, CallTypeOK
    <2> QED  BY <1>2, <2>1, AllThreads
  <1>4. MqMove(W, {})
    BY <1>1, <1>2, <1>3 DEF MqMove
  <1>5. MqDeleteInv'
    <2>1. alive' /\ \A u \in Thread : pc'[u] \notin Deleting
      BY <1>1, InUse, ThreadIsContext
    <2> QED  BY <2>1, StaysUsable
  <1>6. /\ pc' \in [Context -> Pcs] /\ left' \in [Context -> Times]
        /\ arg' \in [Context -> Message \cup {NoMessage}] /\ alive' \in BOOLEAN
        /\ Senders'
    BY <1>1 DEF CallInv, CallTypeOK, Senders
  <1> QED  BY <1>4, <1>5, <1>6, MqStepInv

LEMMA DeleteInv ==
    ASSUME CallInv, NEW t \in Thread, ev_pc[t] = "run", rt_mq_delete(t), UNCHANGED evVars
    PROVE  CallInv'
  <1>1. /\ pc[t] = "run" /\ Usable /\ t \in Context /\ t \notin Isr
        /\ \A c \in Context : pc[c] \in {"run", "recv"}
        /\ \A u \in Thread : pc[u] = "recv" => stat[u] = "suspend" /\ ~timer[u]
        /\ At(t, "test", NoSlot, NoMessage, "zero")
        /\ UNCHANGED <<ipcVars, suspend_thread, alive>>
    BY ThreadIsContext DEF rt_mq_delete
  <1>2. Runner(t)
    BY <1>1, Ready DEF Runner
  <1>3. /\ pc' \in [Context -> Pcs] /\ left' \in [Context -> Times]
        /\ arg' \in [Context -> Message \cup {NoMessage}]
        /\ pc'[t] = "test" /\ \A d \in Context : d # t => pc'[d] = pc[d]
        /\ Senders'
    BY <1>1, AtFacts DEF Pcs, Times, Hands
  <1>4. MqMove({}, {})
    BY <1>1, <1>2, <1>3, Moving, SameIpc
  <1>5. MqDeleteInv'
    <2>1. \A c \in Context : c = t \/ pc'[c] \in {"run", "recv"}
      BY <1>1, <1>3
    <2>2. \A c \in Context : pc'[c] \notin Hands /\ (pc'[c] \in Deleting => c = t)
      BY <1>3, <2>1 DEF Hands, Deleting
    <2>3. \A u \in Thread : pc'[u] = "recv" => pc[u] = "recv"
      BY <1>3, ThreadIsContext
    <2>4. alive' /\ UNCHANGED <<stat, timer>>
      BY <1>1 DEF Usable, ipcVars
    <2> QED  BY <1>1, <1>3, <2>2, <2>3, <2>4, ThreadIsContext DEF MqDeleteInv
  <1>6. alive' \in BOOLEAN
    BY <1>1 DEF CallInv, CallTypeOK
  <1> QED  BY <1>3, <1>4, <1>5, <1>6, MqStepInv

(* A turn of the deletion of t, which goes from p to q.                    *)
LEMMA TurnFacts ==
    ASSUME CallInv, NEW t \in Thread, pc[t] \in Deleting, NEW q \in Deleting \cup {"run"},
           pc' = [pc EXCEPT ![t] = q], UNCHANGED <<arg, left>>
    PROVE  /\ pc' \in [Context -> Pcs] /\ left' \in [Context -> Times]
           /\ arg' \in [Context -> Message \cup {NoMessage}]
           /\ pc'[t] = q /\ \A d \in Context : d # t => pc'[d] = pc[d]
           /\ Senders' /\ ev_pc[t] = "run" /\ stat[t] = "ready"
           /\ alive /\ \A c \in Context : pc'[c] \notin Hands
           /\ \A u \in Thread : pc'[u] \in Deleting => u = t
  <1>1. /\ pc \in [Context -> Pcs] /\ left \in [Context -> Times]
        /\ arg \in [Context -> Message \cup {NoMessage}] /\ t \in Context /\ t \notin Isr
    BY ThreadIsContext DEF CallInv, CallTypeOK
  <1>2. q \in Pcs /\ q \notin Hands /\ q # "recv"
    BY DEF Pcs, Deleting, Hands
  <1>3. /\ pc' \in [Context -> Pcs]
        /\ pc'[t] = q /\ \A d \in Context : d # t => pc'[d] = pc[d]
    BY <1>1, <1>2
  <1>4. ev_pc[t] = "run" /\ stat[t] = "ready"
    <2>1. pc[t] # "run" /\ pc[t] # "recv"
      BY DEF Deleting
    <2>2. ev_pc[t] = "run"
      BY <2>1 DEF CallInv, OneCall
    <2> QED  BY <2>1, <2>2, Ready
  <1>5. alive /\ \A u \in Thread : pc[u] \in Deleting => u = t
    BY DEF CallInv, MqDeleteInv
  <1>6. \A c \in Context : pc[c] \notin Hands
    BY DEF CallInv, MqDeleteInv, MqGoing
  <1>7. Senders'
    <2>1. \A i \in Isr : i \in Context /\ i # t
      BY <1>1 DEF Context
    <2>2. \A c \in Context : pc'[c] \in {"send", "urgent"} => pc'[c] \in Hands
      BY DEF Hands
    <2>3. \A c \in Context : pc'[c] \notin Hands
      BY <1>2, <1>3, <1>6
    <2> QED  BY <1>3, <2>1, <2>2, <2>3 DEF Senders, CallInv
  <1> QED  BY <1>1, <1>2, <1>3, <1>4, <1>5, <1>6, <1>7, ThreadIsContext

LEMMA ResumeAllTestInv ==
    ASSUME CallInv, NEW t \in Thread, ResumeAllTest(t), UNCHANGED evVars
    PROVE  CallInv'
  <1> DEFINE q == IF suspend_thread # <<>> THEN "next" ELSE "run"
  <1>1. /\ pc[t] \in Deleting /\ pc' = [pc EXCEPT ![t] = q]
        /\ alive' = (suspend_thread # <<>>) /\ UNCHANGED <<arg, left>>
        /\ UNCHANGED <<ipcVars, suspend_thread>>
    BY DEF ResumeAllTest, Deleting
  <1>2. /\ q \in Deleting \cup {"run"}
        /\ suspend_thread # <<>> => q = "next"
        /\ suspend_thread = <<>> => q = "run"
    BY DEF Deleting
  <1> HIDE DEF q
  <1>3. /\ pc' \in [Context -> Pcs] /\ left' \in [Context -> Times]
        /\ arg' \in [Context -> Message \cup {NoMessage}]
        /\ pc'[t] = q /\ \A d \in Context : d # t => pc'[d] = pc[d]
        /\ Senders' /\ ev_pc[t] = "run" /\ stat[t] = "ready"
        /\ alive /\ \A c \in Context : pc'[c] \notin Hands
        /\ \A u \in Thread : pc'[u] \in Deleting => u = t
    BY <1>1, <1>2, TurnFacts
  <1>4. t \in Context /\ q # "recv" /\ Runner(t)
    BY <1>2, <1>3, ThreadIsContext DEF Runner
  <1>5. MqMove({}, {})
    BY <1>1, <1>3, <1>4, Moving, SameIpc
  <1>6. MqDeleteInv'
    <2>1. MqGoing
      BY <1>1 DEF MqGoing
    <2>2. \A u \in Thread : pc'[u] = "recv" => pc[u] = "recv"
      BY <1>3, <1>4, ThreadIsContext
    <2>3. UNCHANGED <<stat, error, timer>>
      BY <1>1 DEF ipcVars
    <2>4. \A u \in Thread : pc'[u] = "recv" =>
            ~timer'[u] /\ (stat'[u] = "ready" => error'[u] # "EOK")
      BY <2>1, <2>2, <2>3 DEF CallInv, MqDeleteInv
    <2>5. \A u \in Thread : pc'[u] \in Deleting =>
            /\ alive' /\ \A v \in Thread : pc'[v] \in Deleting => v = u
            /\ suspend_thread' # <<>>
      BY <1>1, <1>2, <1>3 DEF Deleting
    <2> QED  BY <1>1, <1>3, <2>4, <2>5 DEF MqDeleteInv
  <1>7. alive' \in BOOLEAN
    BY <1>1
  <1> QED  BY <1>3, <1>5, <1>6, <1>7, MqStepInv

LEMMA ResumeAllNextInv ==
    ASSUME CallInv, NEW t \in Thread, ResumeAllNext(t), UNCHANGED evVars
    PROVE  CallInv'
  <1> DEFINE h == Head(suspend_thread)
  <1>1. /\ pc[t] \in Deleting /\ pc[t] = "next" /\ pc' = [pc EXCEPT ![t] = "test"]
        /\ "test" \in Deleting \cup {"run"}
        /\ UNCHANGED <<arg, left>> /\ alive' = alive
        /\ ResumeNext(suspend_thread) /\ suspend_thread' = ListRemove(suspend_thread, h)
    BY DEF ResumeAllNext, Deleting
  <1>2. suspend_thread # <<>> /\ suspend_thread \in Seq(Thread) /\ NoRepeat(suspend_thread)
    BY <1>1 DEF CallInv, MqDeleteInv, CallTypeOK, Queued
  <1>3. /\ IpcTypeOK /\ stat' = [stat EXCEPT ![h] = "ready"]
        /\ timer' = [timer EXCEPT ![h] = FALSE] /\ wild' = wild
        /\ error' = [error EXCEPT ![h] = "ERROR"] /\ "ERROR" \in Errors
    BY <1>1, <1>2 DEF ResumeNext, CallInv, CallTypeOK, Errors
  <1>4. h \in Thread /\ InList(suspend_thread, h)
    BY <1>2, TailList
  <1> HIDE DEF h
  <1>5. ListStep(suspend_thread, suspend_thread', {h}, {})
    BY <1>1, <1>2, RemoveList
  <1>6. Threads({h}, {})
    BY <1>3, <1>4, ResumeThreads
  <1>7. /\ pc' \in [Context -> Pcs] /\ left' \in [Context -> Times]
        /\ arg' \in [Context -> Message \cup {NoMessage}]
        /\ pc'[t] = "test" /\ \A d \in Context : d # t => pc'[d] = pc[d]
        /\ Senders' /\ ev_pc[t] = "run" /\ stat[t] = "ready"
        /\ alive /\ \A c \in Context : pc'[c] \notin Hands
        /\ \A u \in Thread : pc'[u] \in Deleting => u = t
    BY <1>1, TurnFacts
  <1>8. \A u \in Thread : u # t => pc'[u] = pc[u]
    BY <1>7, ThreadIsContext
  <1>9. MqMove({h}, {})
    BY <1>4, <1>5, <1>6, <1>7, <1>8 DEF MqMove
  <1>10. MqDeleteInv'
    <2>1. MqGoing
      BY <1>1 DEF MqGoing
    <2>2. \A u \in Thread : pc'[u] = "recv" => pc[u] = "recv"
      BY <1>7, <1>8
    <2>3. \A u \in Thread :
            /\ u = h => ~timer'[u] /\ error'[u] = "ERROR"
            /\ u # h => timer'[u] = timer[u] /\ error'[u] = error[u] /\ stat'[u] = stat[u]
      BY <1>3, <1>4 DEF IpcTypeOK
    <2>4. \A u \in Thread : pc'[u] = "recv" =>
            ~timer'[u] /\ (stat'[u] = "ready" => error'[u] # "EOK")
      BY <2>1, <2>2, <2>3 DEF CallInv, MqDeleteInv
    <2> QED  BY <1>1, <1>7, <2>4 DEF MqDeleteInv
  <1>11. alive' \in BOOLEAN
    BY <1>1 DEF CallInv, CallTypeOK
  <1> QED  BY <1>7, <1>9, <1>10, <1>11, MqStepInv

LEMMA MqInitInv ==
    ASSUME CallInv, rt_mq_init, UNCHANGED evVars
    PROVE  CallInv'
  <1>1. /\ ~alive /\ alive' = TRUE /\ suspend_thread' = <<>>
        /\ UNCHANGED <<ipcVars, pc, slot, arg, left>>
    BY DEF rt_mq_init, NewPool, local
  <1>2. suspend_thread = <<>> /\ \A t \in Thread : pc'[t] \notin Deleting
    BY <1>1 DEF CallInv, MqDeleteInv
  <1>3. ListStep(suspend_thread, suspend_thread', {}, {})
    BY <1>1, <1>2, NoNodes DEF ListStep
  <1>4. MqMove({}, {})
    BY <1>1, <1>3, SameIpc DEF MqMove
  <1>5. MqDeleteInv'
    BY <1>1, <1>2, StaysUsable
  <1>6. /\ pc' \in [Context -> Pcs] /\ left' \in [Context -> Times]
        /\ arg' \in [Context -> Message \cup {NoMessage}] /\ alive' \in BOOLEAN
        /\ Senders'
    BY <1>1 DEF CallInv, CallTypeOK, Senders
  <1> QED  BY <1>4, <1>5, <1>6, MqStepInv

LEMMA MqStepKeeps ==
    ASSUME CallInv, NEW c \in Context, c \in Thread => ev_pc[c] = "run", MqStep(c),
           UNCHANGED evVars
    PROVE  CallInv'
  <1>1. pc[c] # "recv" => Runner(c)
    BY Ready DEF Runner
  <1>2. CASE \E m \in Message : rt_mq_send(c, m) \/ rt_mq_urgent(c, m)
    <2>1. PICK m \in Message : rt_mq_send(c, m) \/ rt_mq_urgent(c, m)
      BY <1>2
    <2>2. PICK where \in {"send", "urgent"} : TakeSlot(c, m, where)
      BY <2>1 DEF rt_mq_send, rt_mq_urgent
    <2>3. Runner(c)
      BY <1>1, <2>2 DEF TakeSlot
    <2> QED  BY <2>2, <2>3, TakeSlotInv
  <1>3. CASE \E time \in Times : rt_mq_recv(c, time)
    <2>1. PICK time \in Times : rt_mq_recv(c, time)
      BY <1>3
    <2>2. /\ pc[c] = "run" /\ Usable /\ RecvLoop(c, time) /\ (c \in Isr => time = "zero")
          /\ alive' = alive
      BY <2>1 DEF rt_mq_recv
    <2>3. Runner(c)
      BY <1>1, <2>2
    <2> QED  BY <2>2, <2>3, RecvLoopInv
  <1>4. CASE LinkLast(c) \/ LinkFirst(c)
    <2>1. pc[c] # "recv"
      BY <1>4 DEF LinkLast, LinkFirst
    <2> QED  BY <1>1, <1>4, <2>1, LinkInv
  <1>5. CASE FreeSlot(c)
    <2>1. pc[c] # "recv"
      BY <1>5 DEF FreeSlot
    <2> QED  BY <1>1, <1>5, <2>1, FreeSlotInv
  <1> QED  BY <1>2, <1>3, <1>4, <1>5 DEF MqStep

LEMMA MqNextInv == ASSUME CallInv, MqNext PROVE CallInv'
  <1>0. UNCHANGED evVars
    BY DEF MqNext
  <1>1. ASSUME NEW t \in Thread, ev_pc[t] = "run", MqThreadStep(t)  PROVE CallInv'
    <2>1. t \in Context
      BY ThreadIsContext
    <2> QED  BY <1>0, <1>1, <2>1, MqStepKeeps, ResumedInv, DeleteInv, ResumeAllTestInv,
                ResumeAllNextInv DEF MqThreadStep
  <1>2. ASSUME NEW i \in Isr, MqStep(i)  PROVE CallInv'
    <2>1. i \in Context /\ i \notin Thread
      BY MessageQueueAssumption DEF Context
    <2> QED  BY <1>0, <1>2, <2>1, MqStepKeeps
  <1>3. ASSUME NEW t \in Thread, Timeout(t)  PROVE CallInv'
    BY <1>0, <1>3, TimeoutInv
  <1>4. ASSUME MqEnvironment  PROVE CallInv'
    BY <1>0, <1>4, ControlInv, MqInitInv DEF MqEnvironment
  <1> QED  BY <1>1, <1>2, <1>3, <1>4 DEF MqNext

-----------------------------------------------------------------------------
(* Steps of the event.                                                     *)
EvMove(W, S) ==
    /\ W \subseteq Thread /\ S \subseteq Thread /\ W \cap S = {}
    /\ Threads(W, S)
    /\ ListStep(ev_list, ev_list', W, S)
    /\ \A u \in W : InList(ev_list, u)
    /\ \A u \in Thread :
         /\ u \in S => ev_pc'[u] = "wait"
         /\ ev_pc'[u] = "wait" => u \in S \/ ev_pc[u] = "wait"
         /\ ev_pc'[u] # ev_pc[u] \/ u \in S => stat[u] = "ready" /\ pc[u] = "run"
         /\ error'[u] # error[u] => pc[u] = "run"
    /\ UNCHANGED mqVars

LEMMA MqSame ==
    ASSUME UNCHANGED mqVars
    PROVE  /\ UNCHANGED <<next, data, msg_queue_head, msg_queue_tail, msg_queue_free, entry>>
           /\ UNCHANGED <<suspend_thread, alive, pc, slot, arg, left>>
  BY DEF mqVars, pool, local

LEMMA EvMoves ==
    ASSUME CallInv, NEW W, NEW S, EvMove(W, S)
    PROVE  Queued' /\ OneCall' /\ MqDeleteInv' /\ Senders' /\ IpcTypeOK' /\ ~wild'
  <1>1. /\ W \subseteq Thread /\ S \subseteq Thread /\ W \cap S = {}
        /\ \A u \in Thread :
             /\ u \in W => stat'[u] = "ready" /\ ~timer'[u]
             /\ u \in S => stat'[u] = "suspend" /\ error'[u] = "EOK"
             /\ u \notin W \cup S => stat'[u] = stat[u] /\ timer'[u] = timer[u]
             /\ u \notin W \cup S /\ error'[u] # error[u] => stat[u] = "ready"
        /\ ev_list' \in Seq(Thread) /\ NoRepeat(ev_list')
        /\ \A x : InList(ev_list', x) <=> (InList(ev_list, x) /\ x \notin W) \/ x \in S
        /\ \A u \in W : InList(ev_list, u)
        /\ \A u \in Thread :
             /\ u \in S => ev_pc'[u] = "wait"
             /\ ev_pc'[u] = "wait" => u \in S \/ ev_pc[u] = "wait"
             /\ ev_pc'[u] # ev_pc[u] \/ u \in S => stat[u] = "ready" /\ pc[u] = "run"
             /\ error'[u] # error[u] => pc[u] = "run"
        /\ IpcTypeOK' /\ wild' = wild
    BY DEF EvMove, Threads, ListStep
  <1>2. UNCHANGED <<suspend_thread, alive, pc, slot, arg, left>>
    BY MqSame DEF EvMove
  <1>3. /\ NoRepeat(suspend_thread)
        /\ \A t \in Thread :
             /\ InList(suspend_thread, t) <=> stat[t] = "suspend" /\ pc[t] = "recv"
             /\ InList(ev_list, t) <=> stat[t] = "suspend" /\ ev_pc[t] = "wait"
        /\ \A t \in Thread :
             /\ pc[t] = "run" \/ ev_pc[t] = "run"
             /\ stat[t] = "suspend" => (pc[t] = "recv" \/ ev_pc[t] = "wait") /\ error[t] = "EOK"
             /\ timer[t] => stat[t] = "suspend"
        /\ ~wild
    BY DEF CallInv, Queued, OneCall, CallTypeOK
  <1>4. ASSUME NEW t \in Thread
        PROVE  /\ InList(ev_list', t) <=> stat'[t] = "suspend" /\ ev_pc'[t] = "wait"
               /\ InList(suspend_thread, t) <=> stat'[t] = "suspend" /\ pc[t] = "recv"
               /\ pc[t] = "run" \/ ev_pc'[t] = "run"
               /\ stat'[t] = "suspend" => (pc[t] = "recv" \/ ev_pc'[t] = "wait") /\ error'[t] = "EOK"
               /\ timer'[t] => stat'[t] = "suspend"
               /\ pc[t] = "recv" => /\ timer'[t] = timer[t] /\ stat'[t] = stat[t]
                                    /\ error'[t] = error[t]
    <2>1. CASE t \in W
      BY <1>1, <1>3, <2>1
    <2>2. CASE t \in S
      BY <1>1, <1>3, <2>2
    <2>3. CASE t \notin W \cup S
      BY <1>1, <1>3, <2>3
    <2> QED  BY <2>1, <2>2, <2>3
  <1>5. Queued' /\ OneCall'
    BY <1>1, <1>2, <1>3, <1>4 DEF Queued, OneCall
  <1>6. MqDeleteInv'
    BY <1>2, <1>4 DEF CallInv, MqDeleteInv, MqGoing
  <1>7. Senders'
    BY <1>2 DEF CallInv, Senders
  <1> QED  BY <1>1, <1>3, <1>5, <1>6, <1>7

LEMMA EvStepInv ==
    ASSUME CallInv, NEW W, NEW S, EvMove(W, S), EvDeleteInv', BitsInv', Ev!EvTypeOK'
    PROVE  CallInv'
  <1>1. CallTypeOK'
    <2>1. UNCHANGED <<suspend_thread, alive, pc, slot, arg, left>>
      BY MqSame DEF EvMove
    <2> QED  BY <2>1, EvMoves DEF CallTypeOK, CallInv
  <1> QED  BY <1>1, EvMoves DEF CallInv

LEMMA EvInUse == Ev!Usable <=> ev_alive /\ \A t \in Thread : ev_pc[t] \in {"run", "wait"}
  BY DEF Ev!Usable

LEMMA EvStaysUsable ==
    ASSUME ev_alive', \A t \in Thread : ev_pc'[t] \notin Deleting
    PROVE  EvDeleteInv'
  BY DEF EvDeleteInv

EvFields ==
    /\ ev_set \subseteq Bit /\ ev_list \in Seq(Thread)
    /\ ev_event_set \in [Thread -> SUBSET Bit] /\ ev_asked \in [Thread -> SUBSET Bit]
    /\ ev_option \in [Thread -> Ev!Options] /\ ev_alive \in BOOLEAN
    /\ ev_pc \in [Thread -> {"run", "wait", "test", "next"}]

LEMMA EvFieldsFacts ==
    ASSUME CallInv  PROVE EvFields /\ NoRepeat(ev_list) /\ IpcTypeOK
  BY DEF CallInv, CallTypeOK, Ev!EvTypeOK, EvFields, Queued

LEMMA EvIpc ==
    /\ Ev!ipcVars = ipcVars
    /\ \A t, time : Ev!SuspendSelf(t, time) <=> SuspendSelf(t, time)
    /\ \A t : Ev!rt_thread_timeout(t) <=> rt_thread_timeout(t)
    /\ \A list : Ev!ResumeNext(list) <=> ResumeNext(list)
    /\ \A S : Ev!ResumeAll(S) <=> ResumeAll(S)
    /\ \A list : Ev!Linked(list) = Linked(list)
    /\ Ev!Times = Times
  <1>1. \A list : Ev!Linked(list) = Linked(list)
    BY EvLists DEF Ev!Linked, Linked
  <1>2. /\ \A t, time : Ev!SuspendSelf(t, time) <=> SuspendSelf(t, time)
        /\ \A t : Ev!rt_thread_timeout(t) <=> rt_thread_timeout(t)
        /\ \A list : Ev!ResumeNext(list) <=> ResumeNext(list)
        /\ \A S : Ev!ResumeAll(S) <=> ResumeAll(S)
    BY Zenon DEF Ev!SuspendSelf, SuspendSelf, Ev!rt_thread_timeout, rt_thread_timeout,
       Ev!ResumeNext, ResumeNext, Ev!ResumeAll, ResumeAll
  <1> QED  BY <1>1, <1>2 DEF Ev!ipcVars, ipcVars, Ev!Times, Times

(* A thread that runs starts or ends a call of the event.                  *)
LEMMA EvMoving ==
    ASSUME CallInv, NEW t \in Thread, pc[t] = "run", stat[t] = "ready", Threads({}, {}),
           ev_pc'[t] # "wait" \/ ev_pc'[t] = ev_pc[t],
           \A u \in Thread : u # t => ev_pc'[u] = ev_pc[u],
           \A u \in Thread : u # t => error'[u] = error[u],
           UNCHANGED ev_list, UNCHANGED mqVars
    PROVE  EvMove({}, {})
  <1>1. ListStep(ev_list, ev_list', {}, {})
    BY EvFieldsFacts, SameList DEF EvFields
  <1> QED  BY <1>1 DEF EvMove

LEMMA EvReady ==
    ASSUME CallInv, NEW t \in Thread, pc[t] = "run", ev_pc[t] # "wait"
    PROVE  stat[t] = "ready"
  BY DEF CallInv, CallTypeOK, IpcTypeOK, OneCall

LEMMA EvRecvInv ==
    ASSUME CallInv, NEW t \in Thread, pc[t] = "run", NEW s \in Ev!Sets, NEW o \in Ev!Options,
           NEW time \in Times, Ev!rt_event_recv(t, s, o, time), UNCHANGED mqVars
    PROVE  CallInv'
  <1>1. /\ ev_pc[t] = "run" /\ Ev!Usable /\ ev_alive' = ev_alive /\ s \in SUBSET Bit
    BY DEF Ev!rt_event_recv, Ev!Sets
  <1>2. stat[t] = "ready" /\ EvFields /\ NoRepeat(ev_list) /\ IpcTypeOK
    BY <1>1, EvReady, EvFieldsFacts
  <1>3. CASE /\ Ev!Satisfied(ev_set, s, o)
             /\ ev_set' = IF Ev!IsClear(o) THEN ev_set \ s ELSE ev_set
             /\ error' = [error EXCEPT ![t] = "EOK"]
             /\ UNCHANGED <<stat, timer, wild, ev_list, Ev!local, ev_pc>>
    <2>1. Threads({}, {}) /\ \A u \in Thread : u # t => error'[u] = error[u]
      <3>1. "EOK" \in Errors
        BY DEF Errors
      <3>2. \A u \in Thread : u # t => error'[u] = error[u]
        BY <1>2, <1>3 DEF IpcTypeOK
      <3> QED  BY <1>2, <1>3, <3>1, <3>2, SameThreads
    <2>2. EvMove({}, {})
      BY <1>2, <1>3, <2>1, EvMoving
    <2>3. EvDeleteInv'
      BY <1>1, <1>3, EvInUse, EvStaysUsable DEF Deleting
    <2>4. UNCHANGED <<ev_event_set, ev_asked, ev_option, ev_pc, ev_list>> /\ ev_set' \subseteq ev_set
      BY <1>3 DEF Ev!local
    <2>5. BitsInv'
      <3>1. \A u \in Thread : InList(ev_list, u) =>
              /\ ev_event_set[u] = ev_asked[u]
              /\ ~Ev!Satisfied(ev_set', ev_asked[u], ev_option[u])
        BY <2>4, FewerBits DEF CallInv, BitsInv
      <3> QED  BY <2>4, <3>1 DEF BitsInv, Ev!Satisfied
    <2>6. Ev!EvTypeOK'
      BY <1>1, <1>2, <2>4 DEF EvFields, Ev!EvTypeOK
    <2> QED  BY <2>2, <2>3, <2>5, <2>6, EvStepInv
  <1>4. CASE /\ ~Ev!Satisfied(ev_set, s, o) /\ time = "zero"
             /\ error' = [error EXCEPT ![t] = "ETIMEOUT"]
             /\ UNCHANGED <<stat, timer, wild, ev_set, ev_list, Ev!local, ev_pc>>
    <2>1. Threads({}, {}) /\ \A u \in Thread : u # t => error'[u] = error[u]
      <3>1. "ETIMEOUT" \in Errors
        BY DEF Errors
      <3>2. \A u \in Thread : u # t => error'[u] = error[u]
        BY <1>2, <1>4 DEF IpcTypeOK
      <3> QED  BY <1>2, <1>4, <3>1, <3>2, SameThreads
    <2>2. EvMove({}, {})
      BY <1>2, <1>4, <2>1, EvMoving
    <2>3. EvDeleteInv'
      BY <1>1, <1>4, EvInUse, EvStaysUsable DEF Deleting
    <2>4. UNCHANGED <<ev_set, ev_event_set, ev_asked, ev_option, ev_pc, ev_list>>
      BY <1>4 DEF Ev!local
    <2>5. BitsInv'
      BY <2>4 DEF CallInv, BitsInv, Ev!Satisfied
    <2>6. Ev!EvTypeOK'
      BY <1>1, <1>2, <2>4 DEF EvFields, Ev!EvTypeOK
    <2> QED  BY <2>2, <2>3, <2>5, <2>6, EvStepInv
  <1>5. CASE /\ ~Ev!Satisfied(ev_set, s, o) /\ time # "zero"
             /\ ev_event_set' = [ev_event_set EXCEPT ![t] = s]
             /\ ev_asked' = [ev_asked EXCEPT ![t] = s]
             /\ ev_option' = [ev_option EXCEPT ![t] = o]
             /\ ev_list' = Ev!rt_ipc_list_suspend(ev_list, t)
             /\ Ev!SuspendSelf(t, time)
             /\ ev_pc' = [ev_pc EXCEPT ![t] = "wait"]
             /\ UNCHANGED ev_set
    <2>1. SuspendSelf(t, time) /\ ev_list' = rt_ipc_list_suspend(ev_list, t)
      BY <1>5, EvIpc, EvSuspendList
    <2>2. Threads({}, {t})
      BY <1>2, <2>1, SuspendThreads
    <2>3. ~InList(ev_list, t)
      BY <1>1 DEF CallInv, Queued
    <2>4. ListStep(ev_list, ev_list', {}, {t})
      BY <1>2, <2>1, <2>3, SuspendList DEF EvFields
    <2>5. /\ ev_pc' \in [Thread -> {"run", "wait", "test", "next"}]
          /\ ev_pc'[t] = "wait" /\ \A u \in Thread : u # t => ev_pc'[u] = ev_pc[u]
      BY <1>2, <1>5 DEF EvFields
    <2>6. EvMove({}, {t})
      <3>1. \A u \in Thread : u # t => error'[u] = error[u]
        BY <1>2, <2>1 DEF IpcTypeOK, SuspendSelf
      <3> QED  BY <1>2, <2>2, <2>4, <2>5, <3>1 DEF EvMove
    <2>7. EvDeleteInv'
      <3>1. \A u \in Thread : ev_pc'[u] \notin Deleting
        BY <1>1, <2>5, EvInUse DEF Deleting
      <3> QED  BY <1>1, <3>1, EvInUse, EvStaysUsable
    <2>8. /\ ev_event_set' \in [Thread -> SUBSET Bit] /\ ev_asked' \in [Thread -> SUBSET Bit]
          /\ ev_option' \in [Thread -> Ev!Options]
      BY <1>1, <1>2, <1>5 DEF EvFields
    <2>9. /\ ev_event_set'[t] = s /\ ev_asked'[t] = s /\ ev_option'[t] = o
          /\ \A u \in Thread : u # t => /\ ev_event_set'[u] = ev_event_set[u]
                                        /\ ev_asked'[u] = ev_asked[u]
                                        /\ ev_option'[u] = ev_option[u]
      BY <1>2, <1>5 DEF EvFields
    <2>10. BitsInv'
      <3>1. \A u \in Thread : InList(ev_list', u) => u = t \/ InList(ev_list, u)
        BY <2>4 DEF ListStep
      <3>2. \A u \in Thread : InList(ev_list', u) =>
              /\ ev_event_set'[u] = ev_asked'[u]
              /\ ~Ev!Satisfied(ev_set, ev_asked'[u], ev_option'[u])
        <4> SUFFICES ASSUME NEW u \in Thread, InList(ev_list', u)
                     PROVE  /\ ev_event_set'[u] = ev_asked'[u]
                            /\ ~Ev!Satisfied(ev_set, ev_asked'[u], ev_option'[u])
          OBVIOUS
        <4>1. CASE u = t
          BY <1>5, <2>9, <4>1
        <4>2. CASE u # t
          <5>1. InList(ev_list, u)
            BY <3>1, <4>2
          <5> QED  BY <2>9, <4>2, <5>1 DEF CallInv, BitsInv
        <4> QED  BY <4>1, <4>2
      <3> QED  BY <1>5, <3>2 DEF BitsInv, Ev!Satisfied
    <2>11. Ev!EvTypeOK'
      BY <1>1, <1>2, <1>5, <2>4, <2>5, <2>8 DEF EvFields, Ev!EvTypeOK, ListStep
    <2> QED  BY <2>6, <2>7, <2>10, <2>11, EvStepInv
  <1> QED  BY <1>3, <1>4, <1>5 DEF Ev!rt_event_recv

LEMMA EvResumedInv ==
    ASSUME CallInv, NEW t \in Thread, pc[t] = "run", Ev!Resumed(t), UNCHANGED mqVars
    PROVE  CallInv'
  <1>1. /\ ev_pc[t] = "wait" /\ stat[t] = "ready"
        /\ ev_pc' = [ev_pc EXCEPT ![t] = "run"]
        /\ ev_event_set' = [ev_event_set EXCEPT ![t] = {}]
        /\ ev_asked' = [ev_asked EXCEPT ![t] = {}]
        /\ ev_option' = [ev_option EXCEPT ![t] = Ev!NoOption]
        /\ UNCHANGED ipcVars /\ UNCHANGED <<ev_set, ev_list, ev_alive>>
    BY DEF Ev!Resumed, Ev!ipcVars, ipcVars
  <1>2. EvFields /\ IpcTypeOK
    BY EvFieldsFacts
  <1>3. /\ ev_pc' \in [Thread -> {"run", "wait", "test", "next"}]
        /\ ev_pc'[t] = "run" /\ \A u \in Thread : u # t => ev_pc'[u] = ev_pc[u]
    BY <1>1, <1>2 DEF EvFields
  <1>4. EvMove({}, {})
    <2>1. Threads({}, {}) /\ error' = error
      BY <1>1, SameIpc DEF ipcVars
    <2> QED  BY <1>1, <1>3, <2>1, EvMoving
  <1>5. EvDeleteInv'
    <2>1. \A u \in Thread : /\ ev_pc'[u] \in Deleting => ev_pc[u] = ev_pc'[u]
                            /\ ev_pc'[u] = "wait" => ev_pc[u] = "wait"
      BY <1>3 DEF Deleting
    <2>2. UNCHANGED timer
      BY <1>1 DEF ipcVars
    <2> QED  BY <1>1, <2>1, <2>2 DEF CallInv, EvDeleteInv
  <1>6. ~InList(ev_list, t)
    BY <1>1, <1>2 DEF CallInv, Queued
  <1>7. \A u \in Thread : u # t => /\ ev_event_set'[u] = ev_event_set[u]
                                   /\ ev_asked'[u] = ev_asked[u]
                                   /\ ev_option'[u] = ev_option[u]
    BY <1>1, <1>2 DEF EvFields
  <1>8. BitsInv'
    <2>1. \A u \in Thread : InList(ev_list, u) =>
            /\ ev_event_set'[u] = ev_asked'[u]
            /\ ~Ev!Satisfied(ev_set, ev_asked'[u], ev_option'[u])
      BY <1>6, <1>7 DEF CallInv, BitsInv
    <2> QED  BY <1>1, <2>1 DEF BitsInv, Ev!Satisfied
  <1>9. Ev!EvTypeOK'
    <2>1. Ev!NoOption \in Ev!Options
      BY DEF Ev!NoOption, Ev!Options
    <2>2. /\ ev_event_set' \in [Thread -> SUBSET Bit] /\ ev_asked' \in [Thread -> SUBSET Bit]
          /\ ev_option' \in [Thread -> Ev!Options]
      BY <1>1, <1>2, <2>1 DEF EvFields
    <2> QED  BY <1>1, <1>2, <1>3, <2>2 DEF EvFields, Ev!EvTypeOK
  <1> QED  BY <1>4, <1>5, <1>8, <1>9, EvStepInv

(* Bits and arguments as they were, and no new waiter.                     *)
LEMMA SameBits ==
    ASSUME CallInv, UNCHANGED <<ev_set, ev_event_set, ev_asked, ev_option>>,
           \A u \in Thread : InList(ev_list', u) => InList(ev_list, u)
    PROVE  BitsInv'
  BY DEF CallInv, BitsInv, Ev!Satisfied

LEMMA EvTimeoutInv ==
    ASSUME CallInv, NEW t \in Thread, Ev!Timeout(t), UNCHANGED mqVars
    PROVE  CallInv'
  <1>1. /\ ev_pc[t] = "wait" /\ timer[t] /\ rt_thread_timeout(t)
        /\ UNCHANGED <<ev_set, ev_event_set, ev_asked, ev_option, ev_alive, ev_pc>>
        /\ ev_list' = ListRemove(ev_list, t)
    BY EvIpc, EvLists DEF Ev!Timeout, rt_thread_timeout, Ev!local
  <1>2. stat[t] = "suspend" /\ InList(ev_list, t) /\ EvFields /\ NoRepeat(ev_list)
    BY <1>1, EvFieldsFacts DEF CallInv, OneCall, Queued
  <1>3. ListStep(ev_list, ev_list', {t}, {})
    BY <1>1, <1>2, RemoveList DEF EvFields
  <1>4. /\ IpcTypeOK /\ stat' = [stat EXCEPT ![t] = "ready"]
        /\ timer' = [timer EXCEPT ![t] = FALSE] /\ wild' = wild
        /\ error' = [error EXCEPT ![t] = "ETIMEOUT"] /\ "ETIMEOUT" \in Errors
    BY <1>1 DEF rt_thread_timeout, CallInv, CallTypeOK, Errors
  <1>5. Threads({t}, {})
    BY <1>4, ResumeThreads
  <1>6. EvMove({t}, {})
    <2>1. \A u \in Thread : error'[u] # error[u] => pc[u] = "run"
      BY <1>1, <1>4 DEF IpcTypeOK, CallInv, OneCall
    <2> QED  BY <1>1, <1>2, <1>3, <1>5, <2>1 DEF EvMove
  <1>7. EvDeleteInv'
    <2>1. \A u \in Thread : ev_pc[u] \notin Deleting
      BY <1>1 DEF CallInv, EvDeleteInv
    <2>2. ev_alive
      BY <1>2, NoNodes DEF CallInv, EvDeleteInv
    <2> QED  BY <1>1, <2>1, <2>2, EvStaysUsable
  <1>8. BitsInv'
    BY <1>1, <1>3, SameBits DEF ListStep
  <1>9. Ev!EvTypeOK'
    BY <1>1, <1>2, <1>3 DEF EvFields, Ev!EvTypeOK, ListStep
  <1> QED  BY <1>6, <1>7, <1>8, <1>9, EvStepInv

(* rt_event_send resumes the threads of the walk.                          *)
LEMMA SendFacts ==
    ASSUME CallInv, NEW s \in Ev!Sets, Ev!rt_event_send(s)
    PROVE  \E w : /\ WalkOK(ev_set \cup s, w, Len(ev_list)) /\ ev_set \cup s \in SUBSET Bit
                  /\ ev_set' = w.set /\ ev_event_set' = w.got /\ ev_list' = w.list
                  /\ w.woken \in SUBSET Thread /\ \A u \in w.woken : InList(ev_list, u)
                  /\ Threads(w.woken, {}) /\ error' = error
                  /\ UNCHANGED <<ev_asked, ev_option, ev_alive, ev_pc>>
                  /\ Ev!Usable
  <1> DEFINE w == Ev!Walked(ev_set \cup s)
             W == w.woken
  <1>1. /\ Ev!Usable /\ ev_set' = w.set /\ ev_event_set' = w.got /\ ev_list' = w.list
        /\ stat' = [t \in Thread |-> IF t \in W THEN "ready" ELSE stat[t]]
        /\ timer' = [t \in Thread |-> timer[t] /\ t \notin W]
        /\ UNCHANGED <<error, wild, ev_asked, ev_option, ev_alive, ev_pc>>
    BY DEF Ev!rt_event_send
  <1>2. Waiters /\ ev_set \cup s \in SUBSET Bit /\ ev_list \in Seq(Thread) /\ IpcTypeOK
    BY EvFieldsFacts DEF EvFields, Waiters, Ev!Sets
  <1>3. WalkOK(ev_set \cup s, w, Len(ev_list))
    BY <1>2, WalkEnd
  <1> HIDE DEF w
  <1>4. \A u \in W : InList(ev_list, u)
    BY <1>3 DEF WalkOK, WalkList, InList
  <1>5. W \in SUBSET Thread
    BY <1>2, <1>4 DEF InList
  <1> HIDE DEF W
  <1>6. Threads(W, {})
    BY <1>1, <1>2, <1>5, AllThreads
  <1> QED  BY <1>1, <1>2, <1>3, <1>4, <1>5, <1>6 DEF W

LEMMA EvSendInv ==
    ASSUME CallInv, NEW s \in Ev!Sets, Ev!rt_event_send(s), UNCHANGED mqVars
    PROVE  CallInv'
  <1>1. PICK w : /\ WalkOK(ev_set \cup s, w, Len(ev_list)) /\ ev_set \cup s \in SUBSET Bit
                 /\ ev_set' = w.set /\ ev_event_set' = w.got /\ ev_list' = w.list
                 /\ w.woken \in SUBSET Thread /\ \A u \in w.woken : InList(ev_list, u)
                 /\ Threads(w.woken, {}) /\ error' = error
                 /\ UNCHANGED <<ev_asked, ev_option, ev_alive, ev_pc>>
                 /\ Ev!Usable
    BY SendFacts
  <1>2. EvFields /\ NoRepeat(ev_list) /\ IpcTypeOK
    BY EvFieldsFacts
  <1>3. ListStep(ev_list, ev_list', w.woken, {})
    BY <1>1 DEF WalkOK, WalkList, ListStep
  <1>4. EvMove(w.woken, {})
    BY <1>1, <1>3 DEF EvMove
  <1>5. EvDeleteInv'
    BY <1>1, EvInUse, EvStaysUsable DEF Deleting
  <1>6. BitsInv'
    <2> SUFFICES ASSUME NEW t \in Thread, InList(ev_list', t)
                 PROVE  /\ ev_event_set'[t] = ev_asked[t]
                        /\ ~Ev!Satisfied(ev_set', ev_asked[t], ev_option[t])
      BY <1>1 DEF BitsInv, Ev!Satisfied
    <2>1. InList(ev_list, t) /\ t \notin w.woken
      BY <1>3 DEF ListStep
    <2>2. PICK j \in 1 .. Len(ev_list) : ev_list[j] = t
      BY <2>1 DEF InList
    <2>3. ev_event_set[t] = ev_asked[t]
      BY <2>1 DEF CallInv, BitsInv
    <2>4. ev_event_set'[t] = ev_event_set[t] /\ ~Ev!Satisfied(w.set, ev_event_set[t], ev_option[t])
      BY <1>1, <2>1, <2>2 DEF WalkOK, WalkBits
    <2> QED  BY <1>1, <2>3, <2>4
  <1>7. Ev!EvTypeOK'
    <2>1. ev_set' \subseteq Bit /\ ev_event_set' \in [Thread -> SUBSET Bit]
      BY <1>1 DEF WalkOK, WalkBits
    <2> QED  BY <1>1, <1>2, <1>3, <2>1 DEF EvFields, Ev!EvTypeOK, ListStep
  <1> QED  BY <1>4, <1>5, <1>6, <1>7, EvStepInv

LEMMA EvControlInv ==
    ASSUME CallInv, Ev!rt_event_control, UNCHANGED mqVars
    PROVE  CallInv'
  <1> DEFINE W == Linked(ev_list)
  <1>1. /\ Ev!Usable /\ ResumeAll(W) /\ ev_list' = <<>> /\ ev_set' = {}
        /\ UNCHANGED <<ev_event_set, ev_asked, ev_option, ev_alive, ev_pc>>
    BY EvIpc DEF Ev!rt_event_control, Ev!local
  <1>2. EvFields /\ NoRepeat(ev_list) /\ IpcTypeOK
    BY EvFieldsFacts
  <1>3. /\ W \in SUBSET Thread /\ \A u \in W : InList(ev_list, u)
        /\ ListStep(ev_list, ev_list', W, {})
    BY <1>1, <1>2, EmptiedList DEF Linked, EvFields
  <1> HIDE DEF W
  <1>4. /\ wild' = wild
        /\ stat' = [t \in Thread |-> IF t \in W THEN "ready" ELSE stat[t]]
        /\ timer' = [t \in Thread |-> timer[t] /\ t \notin W]
        /\ error' = [t \in Thread |-> IF t \in W THEN "ERROR" ELSE error[t]]
    BY <1>1 DEF ResumeAll
  <1>5. Threads(W, {})
    BY <1>2, <1>3, <1>4, AllThreads
  <1>6. \A u \in Thread : error'[u] # error[u] => pc[u] = "run"
    <2>1. \A u \in W : pc[u] = "run"
      BY <1>3 DEF CallInv, Queued, OneCall
    <2> QED  BY <1>4, <2>1
  <1>7. EvMove(W, {})
    BY <1>1, <1>3, <1>5, <1>6 DEF EvMove
  <1>8. EvDeleteInv'
    BY <1>1, EvInUse, EvStaysUsable DEF Deleting
  <1>9. BitsInv'
    BY <1>1, NoNodes DEF BitsInv
  <1>10. Ev!EvTypeOK'
    BY <1>1, <1>2, NoNodes DEF EvFields, Ev!EvTypeOK
  <1> QED  BY <1>7, <1>8, <1>9, <1>10, EvStepInv

LEMMA EvDeleteStartInv ==
    ASSUME CallInv, NEW t \in Thread, pc[t] = "run", Ev!rt_event_delete(t), UNCHANGED mqVars
    PROVE  CallInv'
  <1>1. /\ ev_pc[t] = "run" /\ Ev!Usable
        /\ \A u \in Thread : ev_pc[u] = "wait" => ~timer[u]
        /\ ev_pc' = [ev_pc EXCEPT ![t] = "test"]
        /\ UNCHANGED ipcVars
        /\ UNCHANGED <<ev_set, ev_list, ev_event_set, ev_asked, ev_option, ev_alive>>
    BY DEF Ev!rt_event_delete, Ev!ipcVars, ipcVars, Ev!local
  <1>2. EvFields /\ stat[t] = "ready"
    BY <1>1, EvFieldsFacts, EvReady
  <1>3. /\ ev_pc' \in [Thread -> {"run", "wait", "test", "next"}]
        /\ ev_pc'[t] = "test" /\ \A u \in Thread : u # t => ev_pc'[u] = ev_pc[u]
    BY <1>1, <1>2 DEF EvFields
  <1>4. EvMove({}, {})
    <2>1. Threads({}, {}) /\ error' = error
      BY <1>1, SameIpc DEF ipcVars
    <2> QED  BY <1>1, <1>2, <1>3, <2>1, EvMoving
  <1>5. EvDeleteInv'
    <2>1. \A u \in Thread : u # t => ev_pc'[u] \in {"run", "wait"}
      BY <1>1, <1>3, EvInUse
    <2>2. \A u \in Thread : /\ ev_pc'[u] \in Deleting => u = t
                            /\ ev_pc'[u] = "wait" => ev_pc[u] = "wait"
      BY <1>3, <2>1 DEF Deleting
    <2>3. UNCHANGED timer /\ ev_alive
      BY <1>1, EvInUse DEF ipcVars
    <2> QED  BY <1>1, <1>3, <2>2, <2>3 DEF EvDeleteInv
  <1>6. BitsInv'
    BY <1>1, SameBits
  <1>7. Ev!EvTypeOK'
    BY <1>1, <1>2, <1>3 DEF EvFields, Ev!EvTypeOK
  <1> QED  BY <1>4, <1>5, <1>6, <1>7, EvStepInv

LEMMA EvTestInv ==
    ASSUME CallInv, NEW t \in Thread, pc[t] = "run", Ev!ResumeAllTest(t), UNCHANGED mqVars
    PROVE  CallInv'
  <1> DEFINE q == IF ev_list # <<>> THEN "next" ELSE "run"
  <1>1. /\ ev_pc[t] = "test" /\ ev_pc' = [ev_pc EXCEPT ![t] = q]
        /\ ev_alive' = (ev_list # <<>>)
        /\ UNCHANGED ipcVars
        /\ UNCHANGED <<ev_set, ev_list, ev_event_set, ev_asked, ev_option>>
    BY DEF Ev!ResumeAllTest, Ev!ipcVars, ipcVars, Ev!local
  <1>2. EvFields /\ stat[t] = "ready"
    BY <1>1, EvFieldsFacts, EvReady
  <1>3. /\ q \in {"run", "wait", "test", "next"} /\ q # "wait"
        /\ q \in Deleting <=> ev_list # <<>>
    BY DEF Deleting
  <1> HIDE DEF q
  <1>4. /\ ev_pc' \in [Thread -> {"run", "wait", "test", "next"}]
        /\ ev_pc'[t] = q /\ \A u \in Thread : u # t => ev_pc'[u] = ev_pc[u]
    BY <1>1, <1>2, <1>3 DEF EvFields
  <1>5. EvMove({}, {})
    <2>1. Threads({}, {}) /\ error' = error
      BY <1>1, SameIpc DEF ipcVars
    <2> QED  BY <1>1, <1>2, <1>3, <1>4, <2>1, EvMoving
  <1>6. EvDeleteInv'
    <2>1. \A u \in Thread : (ev_pc[u] \in Deleting => u = t) /\ (ev_pc[u] = "wait" => ~timer[u])
      BY <1>1 DEF CallInv, EvDeleteInv, Deleting
    <2>2. \A u \in Thread : /\ ev_pc'[u] \in Deleting => u = t /\ ev_list # <<>>
                            /\ ev_pc'[u] = "wait" => ev_pc[u] = "wait"
      BY <1>3, <1>4, <2>1
    <2>3. UNCHANGED timer
      BY <1>1 DEF ipcVars
    <2> QED  BY <1>1, <2>1, <2>2, <2>3 DEF EvDeleteInv
  <1>7. BitsInv'
    BY <1>1, SameBits
  <1>8. Ev!EvTypeOK'
    BY <1>1, <1>2, <1>4 DEF EvFields, Ev!EvTypeOK
  <1> QED  BY <1>5, <1>6, <1>7, <1>8, EvStepInv

LEMMA EvTurnInv ==
    ASSUME CallInv, NEW t \in Thread, pc[t] = "run", Ev!ResumeAllNext(t), UNCHANGED mqVars
    PROVE  CallInv'
  <1> DEFINE h == Head(ev_list)
  <1>1. /\ ev_pc[t] = "next" /\ ev_pc' = [ev_pc EXCEPT ![t] = "test"]
        /\ ResumeNext(ev_list) /\ ev_list' = ListRemove(ev_list, h)
        /\ UNCHANGED <<ev_set, ev_event_set, ev_asked, ev_option, ev_alive>>
    BY EvIpc, EvLists DEF Ev!ResumeAllNext, Ev!local
  <1>2. EvFields /\ stat[t] = "ready" /\ NoRepeat(ev_list) /\ IpcTypeOK
    BY <1>1, EvFieldsFacts, EvReady
  <1>3. /\ ev_list # <<>> /\ ev_alive
        /\ \A u \in Thread : (ev_pc[u] \in Deleting => u = t) /\ (ev_pc[u] = "wait" => ~timer[u])
    BY <1>1 DEF CallInv, EvDeleteInv, Deleting
  <1>4. /\ stat' = [stat EXCEPT ![h] = "ready"]
        /\ timer' = [timer EXCEPT ![h] = FALSE] /\ wild' = wild
        /\ error' = [error EXCEPT ![h] = "ERROR"] /\ "ERROR" \in Errors
    BY <1>1, <1>3 DEF ResumeNext, Errors
  <1>5. h \in Thread /\ InList(ev_list, h)
    BY <1>2, <1>3, TailList DEF EvFields
  <1> HIDE DEF h
  <1>6. ListStep(ev_list, ev_list', {h}, {})
    BY <1>1, <1>2, RemoveList DEF EvFields
  <1>7. Threads({h}, {})
    BY <1>2, <1>4, <1>5, ResumeThreads
  <1>8. /\ ev_pc' \in [Thread -> {"run", "wait", "test", "next"}]
        /\ ev_pc'[t] = "test" /\ \A u \in Thread : u # t => ev_pc'[u] = ev_pc[u]
    BY <1>1, <1>2 DEF EvFields
  <1>9. EvMove({h}, {})
    <2>1. pc[h] = "run"
      BY <1>5 DEF CallInv, Queued, OneCall
    <2>2. \A u \in Thread : error'[u] # error[u] => pc[u] = "run"
      BY <1>2, <1>4, <2>1 DEF IpcTypeOK
    <2> QED  BY <1>2, <1>5, <1>6, <1>7, <1>8, <2>2 DEF EvMove
  <1>10. EvDeleteInv'
    <2>1. \A u \in Thread : timer'[u] => timer[u]
      BY <1>2, <1>4 DEF IpcTypeOK
    <2>2. \A u \in Thread : /\ ev_pc'[u] \in Deleting => u = t
                            /\ ev_pc'[u] = "wait" => ev_pc[u] = "wait"
      BY <1>3, <1>8
    <2> QED  BY <1>1, <1>3, <1>8, <2>1, <2>2 DEF EvDeleteInv
  <1>11. BitsInv'
    BY <1>1, <1>6, SameBits DEF ListStep
  <1>12. Ev!EvTypeOK'
    BY <1>1, <1>2, <1>6, <1>8 DEF EvFields, Ev!EvTypeOK, ListStep
  <1> QED  BY <1>9, <1>10, <1>11, <1>12, EvStepInv

LEMMA EvInitInv ==
    ASSUME CallInv, Ev!rt_event_init, UNCHANGED mqVars
    PROVE  CallInv'
  <1>1. /\ ~ev_alive /\ ev_alive' = TRUE /\ ev_set' = {} /\ ev_list' = <<>>
        /\ UNCHANGED ipcVars /\ UNCHANGED <<ev_event_set, ev_asked, ev_option, ev_pc>>
    BY DEF Ev!rt_event_init, Ev!ipcVars, ipcVars, Ev!local
  <1>2. ev_list = <<>> /\ \A t \in Thread : ev_pc'[t] \notin Deleting
    BY <1>1 DEF CallInv, EvDeleteInv
  <1>3. EvFields
    BY EvFieldsFacts
  <1>4. EvMove({}, {})
    <2>1. ListStep(ev_list, ev_list', {}, {})
      BY <1>1, <1>2, NoNodes DEF ListStep
    <2> QED  BY <1>1, <2>1, SameIpc DEF EvMove, ipcVars
  <1>5. EvDeleteInv'
    BY <1>1, <1>2, EvStaysUsable
  <1>6. BitsInv'
    BY <1>1, NoNodes DEF BitsInv
  <1>7. Ev!EvTypeOK'
    BY <1>1, <1>3, NoNodes DEF EvFields, Ev!EvTypeOK
  <1> QED  BY <1>4, <1>5, <1>6, <1>7, EvStepInv

LEMMA EvNextInv == ASSUME CallInv, EvNext PROVE CallInv'
  <1>0. UNCHANGED mqVars
    BY DEF EvNext
  <1>1. ASSUME NEW t \in Thread, pc[t] = "run", Ev!EvThreadStep(t)  PROVE CallInv'
    <2>1. Ev!Times = Times
      BY EvIpc
    <2> QED  BY <1>0, <1>1, <2>1, EvRecvInv, EvResumedInv, EvDeleteStartInv, EvTestInv, EvTurnInv
             DEF Ev!EvThreadStep
  <1>2. ASSUME NEW t \in Thread, Ev!Timeout(t)  PROVE CallInv'
    BY <1>0, <1>2, EvTimeoutInv
  <1>3. ASSUME Ev!EvEnvironment  PROVE CallInv'
    BY <1>0, <1>3, EvSendInv, EvControlInv, EvInitInv DEF Ev!EvEnvironment
  <1> QED  BY <1>1, <1>2, <1>3 DEF EvNext

-----------------------------------------------------------------------------
LEMMA InitCalls == Init => CallInv
  <1> SUFFICES ASSUME Init  PROVE CallInv
    OBVIOUS
  <1> USE DEF Init, IpcInit, MqInit, Ev!EvInit
  <1>1. IpcTypeOK /\ ~wild
    BY Zenon DEF IpcTypeOK, Errors
  <1>2. Ev!EvTypeOK
    <2>1. Ev!NoOption \in Ev!Options
      BY DEF Ev!NoOption, Ev!Options
    <2> QED  BY <2>1, NoNodes DEF Ev!EvTypeOK
  <1>3. CallTypeOK
    BY <1>1, <1>2, NoNodes DEF CallTypeOK, Pcs, Times
  <1>4. \A t \in Thread : t \in Context
    BY ThreadIsContext
  <1>5. Queued /\ OneCall /\ MqDeleteInv /\ EvDeleteInv /\ BitsInv
    <2>1. \A t \in Thread : /\ pc[t] = "run" /\ ev_pc[t] = "run" /\ stat[t] = "ready"
                            /\ ~timer[t]
      BY <1>4
    <2>2. alive /\ ev_alive /\ suspend_thread = <<>> /\ ev_list = <<>>
      OBVIOUS
    <2>3. \A c \in Context : pc[c] \notin Hands
      BY DEF Hands
    <2> QED  BY <2>1, <2>2, <2>3, NoNodes
             DEF Queued, OneCall, MqDeleteInv, MqGoing, EvDeleteInv, BitsInv, Deleting
  <1>6. Senders
    BY DEF Senders, Context
  <1> QED  BY <1>3, <1>5, <1>6 DEF CallInv

LEMMA CallStutter == CallInv /\ UNCHANGED allVars => CallInv'
  <1> SUFFICES ASSUME CallInv, UNCHANGED allVars  PROVE CallInv'
    OBVIOUS
  <1>1. /\ UNCHANGED <<ipcVars, mqVars>> /\ UNCHANGED evVars
    BY DEF allVars, vars
  <1>2. UNCHANGED <<suspend_thread, alive, pc, slot, arg, left>>
    BY <1>1, MqSame
  <1>3. UNCHANGED <<stat, error, timer, wild>>
    BY <1>1 DEF ipcVars
  <1>4. UNCHANGED <<ev_set, ev_list, ev_event_set, ev_asked, ev_option, ev_alive, ev_pc>>
    BY <1>1 DEF evVars
  <1>5. CallTypeOK' /\ Queued' /\ OneCall'
    BY <1>2, <1>3, <1>4 DEF CallInv, CallTypeOK, IpcTypeOK, Ev!EvTypeOK, Queued, OneCall
  <1>6. Senders' /\ MqDeleteInv' /\ EvDeleteInv'
    BY <1>2, <1>3, <1>4 DEF CallInv, Senders, MqDeleteInv, MqGoing, EvDeleteInv
  <1>7. BitsInv'
    BY <1>4 DEF CallInv, BitsInv, Ev!Satisfied
  <1> QED  BY <1>5, <1>6, <1>7 DEF CallInv

LEMMA CallStep == CallInv /\ [Next]_allVars => CallInv'
  BY MqNextInv, EvNextInv, CallStutter DEF Next

(* What the calls of the two objects keep: each suspended thread waits in  *)
(* one of them and is linked there, a deletion is alone, and the event set *)
(* satisfies no waiter.                                                    *)
THEOREM Calls == Spec => []CallInv
  BY InitCalls, CallStep, PTL DEF Spec

(* No thread waits for event bits that are there, though the walk of       *)
(* rt_event_send clears bits on its way and timeouts, resets and deletions *)
(* come between.                                                           *)
THEOREM Bits == Spec => []NoneWaitsInVain
  <1>1. CallInv => NoneWaitsInVain
    BY EvLists DEF CallInv, BitsInv, Queued, NoneWaitsInVain, Ev!NoneWaitsInVain
  <1> QED  BY <1>1, Calls, PTL

-----------------------------------------------------------------------------
(* What a step gives to the threads it resumes.                            *)
DeliveredStep ==
    /\ \A t \in Ev!Woken :
         /\ (Ev!Satisfied(ev_event_set'[t], ev_asked[t], ev_option[t])
                /\ ev_event_set'[t] \subseteq ev_asked[t])
         /\ ev_event_set'[t] \subseteq ev_set' \cup UNION {ev_event_set'[u] : u \in Ev!Takers}
    /\ \A t \in Ev!Takers :
         /\ ev_event_set'[t] \cap ev_set' = {}
         /\ \A u \in Ev!Woken :
              Ev!Before(ev_list, t, u) => ev_event_set'[t] \cap ev_event_set'[u] = {}

LEMMA NoneWoken == Ev!Woken = {} => DeliveredStep
  BY DEF DeliveredStep, Ev!Takers

(* A thread resumed by a step leaves the list.                             *)
LEMMA WokenLeave ==
    ASSUME CallInv, CallInv', NEW t \in Ev!Woken
    PROVE  /\ t \in Thread /\ ev_pc[t] = "wait" /\ error'[t] = "EOK"
           /\ InList(ev_list, t) /\ ~InList(ev_list', t)
  BY DEF Ev!Woken, CallInv, Queued

LEMMA SendDelivers ==
    ASSUME CallInv, CallInv', NEW s \in Ev!Sets, Ev!rt_event_send(s)
    PROVE  DeliveredStep
  <1>1. PICK w : /\ WalkOK(ev_set \cup s, w, Len(ev_list)) /\ ev_set \cup s \in SUBSET Bit
                 /\ ev_set' = w.set /\ ev_event_set' = w.got /\ ev_list' = w.list
                 /\ w.woken \in SUBSET Thread /\ \A u \in w.woken : InList(ev_list, u)
                 /\ Threads(w.woken, {}) /\ error' = error
                 /\ UNCHANGED <<ev_asked, ev_option, ev_alive, ev_pc>>
                 /\ Ev!Usable
    BY SendFacts
  <1>2. Ev!Woken = w.woken
    <2>1. \A t \in Ev!Woken : t \in w.woken
      BY <1>1, WokenLeave DEF WalkOK, WalkList
    <2>2. \A t \in w.woken : t \in Thread /\ stat[t] = "suspend" /\ ev_pc[t] = "wait" /\ error[t] = "EOK"
      BY <1>1 DEF CallInv, Queued, OneCall
    <2>3. \A t \in w.woken : stat'[t] = "ready"
      BY <1>1 DEF Threads
    <2> QED  BY <1>1, <2>1, <2>2, <2>3 DEF Ev!Woken
  <1>3. \A t \in w.woken : ev_asked[t] = ev_event_set[t]
    BY <1>1 DEF CallInv, BitsInv
  <1>4. WalkGifts(w)
    BY <1>1 DEF WalkOK
  <1>5. \A t : t \in Ev!Takers <=> t \in w.woken /\ Ev!IsClear(ev_option[t])
    BY <1>2 DEF Ev!Takers
  <1>6. ASSUME NEW t \in w.woken
        PROVE  /\ Ev!Satisfied(w.got[t], ev_asked[t], ev_option[t])
               /\ w.got[t] \subseteq ev_asked[t]
               /\ w.got[t] \subseteq w.set \cup UNION {w.got[u] : u \in Ev!Takers}
    <2>1. /\ Ev!Satisfied(w.got[t], ev_event_set[t], ev_option[t])
          /\ w.got[t] \subseteq ev_event_set[t]
          /\ \A b \in w.got[t] : \/ b \in w.set
                                 \/ \E u \in w.woken : Ev!IsClear(ev_option[u]) /\ b \in w.got[u]
      BY <1>4 DEF WalkGifts
    <2>2. \A b \in w.got[t] : b \in w.set \cup UNION {w.got[u] : u \in Ev!Takers}
      BY <1>5, <2>1
    <2> QED  BY <1>3, <2>1, <2>2
  <1>7. ASSUME NEW t \in w.woken, Ev!IsClear(ev_option[t])
        PROVE  /\ w.got[t] \cap w.set = {}
               /\ \A u \in w.woken : Ev!Before(ev_list, t, u) => w.got[t] \cap w.got[u] = {}
    BY <1>4, <1>7, EvLists DEF WalkGifts
  <1> QED  BY <1>1, <1>2, <1>5, <1>6, <1>7 DEF DeliveredStep

LEMMA EvStepDelivers ==
    ASSUME CallInv, CallInv', EvNext
    PROVE  DeliveredStep
  <1>1. CASE \A t \in Thread : InList(ev_list, t) => InList(ev_list', t)
    BY <1>1, WokenLeave, NoneWoken
  <1>2. ASSUME NEW t \in Thread, Ev!EvThreadStep(t)  PROVE DeliveredStep
    <2>1. ASSUME NEW s \in Ev!Sets, NEW o \in Ev!Options, NEW time \in Ev!Times,
                 Ev!rt_event_recv(t, s, o, time)
          PROVE  DeliveredStep
      <3>1. \A u \in Thread : u # t => stat'[u] = stat[u]
        BY <2>1 DEF Ev!rt_event_recv, Ev!SuspendSelf, CallInv, CallTypeOK, IpcTypeOK
      <3>2. ev_pc[t] = "run"
        BY <2>1 DEF Ev!rt_event_recv
      <3>3. Ev!Woken = {}
        BY <3>1, <3>2 DEF Ev!Woken
      <3> QED  BY <3>3, NoneWoken
    <2>2. CASE Ev!Resumed(t) \/ Ev!rt_event_delete(t) \/ Ev!ResumeAllTest(t)
      BY <1>1, <2>2 DEF Ev!Resumed, Ev!rt_event_delete, Ev!ResumeAllTest
    <2>3. CASE Ev!ResumeAllNext(t)
      <3>1. ev_list # <<>> /\ ev_list \in Seq(Thread) /\ NoRepeat(ev_list)
        BY <2>3, EvFieldsFacts DEF Ev!ResumeAllNext, CallInv, EvDeleteInv, EvFields, Deleting
      <3>2. /\ error' = [error EXCEPT ![Head(ev_list)] = "ERROR"]
            /\ ev_list' = ListRemove(ev_list, Head(ev_list))
        BY <2>3, <3>1, EvLists DEF Ev!ResumeAllNext, Ev!ResumeNext
      <3> DEFINE h == Head(ev_list)
      <3>3. h \in Thread /\ error'[h] = "ERROR"
        BY <3>1, <3>2, TailList DEF CallInv, CallTypeOK, IpcTypeOK
      <3>4. \A x : InList(ev_list, x) /\ x # h => InList(ev_list', x)
        <4> HIDE DEF h
        <4>1. ev_list' = ListRemove(ev_list, h)
          BY <3>2 DEF h
        <4> QED  BY <3>1, <4>1, RemoveList DEF ListStep
      <3> HIDE DEF h
      <3> QED  BY <3>3, <3>4, WokenLeave, NoneWoken
    <2> QED  BY <1>2, <2>1, <2>2, <2>3 DEF Ev!EvThreadStep
  <1>3. ASSUME NEW t \in Thread, Ev!Timeout(t)  PROVE DeliveredStep
    <2>1. /\ error' = [error EXCEPT ![t] = "ETIMEOUT"] /\ ev_list' = ListRemove(ev_list, t)
      BY <1>3, EvLists DEF Ev!Timeout, Ev!rt_thread_timeout
    <2>2. error'[t] = "ETIMEOUT"
      BY <2>1 DEF CallInv, CallTypeOK, IpcTypeOK
    <2>3. \A x : InList(ev_list, x) /\ x # t => InList(ev_list', x)
      BY <2>1, EvFieldsFacts, RemoveList DEF ListStep, EvFields
    <2> QED  BY <2>2, <2>3, WokenLeave, NoneWoken
  <1>4. ASSUME NEW s \in Ev!Sets, Ev!rt_event_send(s)  PROVE DeliveredStep
    BY <1>4, SendDelivers
  <1>5. CASE Ev!rt_event_control
    <2>1. error' = [t \in Thread |-> IF t \in Ev!Linked(ev_list) THEN "ERROR" ELSE error[t]]
      BY <1>5 DEF Ev!rt_event_control, Ev!ResumeAll
    <2>2. \A t \in Thread : InList(ev_list, t) => error'[t] = "ERROR"
      BY <2>1, EvLists DEF Ev!Linked
    <2> QED  BY <2>2, WokenLeave, NoneWoken
  <1>6. CASE Ev!rt_event_init
    <2>1. stat' = stat
      BY <1>6 DEF Ev!rt_event_init, Ev!ipcVars
    <2>2. Ev!Woken = {}
      BY <2>1 DEF Ev!Woken
    <2> QED  BY <2>2, NoneWoken
  <1> QED  BY <1>2, <1>3, <1>4, <1>5, <1>6 DEF EvNext, Ev!EvEnvironment

LEMMA StepDelivers ==
    CallInv /\ CallInv' /\ [Next]_allVars => [DeliveredStep]_(Ev!vars)
  <1>1. CallInv /\ CallInv' /\ MqNext => DeliveredStep
    <2> SUFFICES ASSUME CallInv, CallInv', MqNext  PROVE DeliveredStep
      OBVIOUS
    <2>1. ev_list' = ev_list
      BY DEF MqNext, evVars
    <2> QED  BY <2>1, WokenLeave, NoneWoken
  <1>2. UNCHANGED allVars => UNCHANGED Ev!vars
    BY DEF allVars, vars, evVars, ipcVars, Ev!vars, Ev!ipcVars, Ev!evVars, Ev!local
  <1> QED  BY <1>1, <1>2, EvStepDelivers DEF Next

(* A step that resumes waiters of the event gives each what it asked for,  *)
(* and what a thread with RT_EVENT_FLAG_CLEAR got is neither left in the   *)
(* event nor given to a thread behind it, for any number of waiters.       *)
THEOREM Gifts == Spec => Delivered
  <1>1. Spec => [][DeliveredStep]_(Ev!vars)
    BY Calls, StepDelivers, PTL DEF Spec
  <1> QED  BY <1>1, PTL DEF Delivered, Ev!Delivered, DeliveredStep

-----------------------------------------------------------------------------
(* The links.                                                              *)

(* q are the slots linked from p on, when nx are the next fields.          *)
IsChain(nx, q, p) ==
    /\ q \in Seq(Slot)
    /\ p = IF q = <<>> THEN NoSlot ELSE q[1]
    /\ \A i \in 1 .. Len(q) : nx[q[i]] = IF i = Len(q) THEN NoSlot ELSE q[i + 1]

(* The walk over at most Size + 1 links that Chain makes.                  *)
Links(p, g) ==
    g = [i \in 1 .. Size + 1 |->
           IF i = 1 THEN p ELSE IF g[i - 1] = NoSlot THEN NoSlot ELSE next[g[i - 1]]]
ChainEnd(g) ==
    CHOOSE k \in 1 .. Size + 2 :
      /\ \A i \in 1 .. k - 1 : g[i] # NoSlot
      /\ k <= Size + 1 => g[k] = NoSlot

LEMMA SlotFacts ==
    /\ Size \in Nat /\ Size > 0 /\ NoSlot \notin Slot
    /\ Slot \subseteq Nat /\ NoMessage \notin Message
  BY MessageQueueAssumption DEF Slot

LEMMA LinksWalk ==
    ASSUME NEW p, NEW q, IsChain(next, q, p), Len(q) <= Size
    PROVE  Links(p, [i \in 1 .. Size + 1 |-> IF i <= Len(q) THEN q[i] ELSE NoSlot])
  <1> DEFINE n == Len(q)
             g == [i \in 1 .. Size + 1 |-> IF i <= n THEN q[i] ELSE NoSlot]
  <1>1. /\ q \in Seq(Slot) /\ n \in Nat /\ Size \in Nat /\ n <= Size
        /\ p = IF q = <<>> THEN NoSlot ELSE q[1]
        /\ \A i \in 1 .. n : next[q[i]] = IF i = n THEN NoSlot ELSE q[i + 1]
        /\ \A i \in 1 .. n : q[i] # NoSlot
    BY SlotFacts DEF IsChain
  <1>2. q = <<>> <=> n = 0
    BY <1>1
  <1> HIDE DEF n
  <1>3. \A i \in 1 .. Size + 1 : /\ i <= n => g[i] = q[i]
                                 /\ ~(i <= n) => g[i] = NoSlot
    OBVIOUS
  <1> HIDE DEF g
  <1>4. ASSUME NEW i \in 1 .. Size + 1
        PROVE  g[i] = IF i = 1 THEN p ELSE IF g[i - 1] = NoSlot THEN NoSlot ELSE next[g[i - 1]]
    <2>1. CASE i = 1
      BY <1>1, <1>2, <1>3, <2>1
    <2>2. CASE i # 1
      <3>1. i - 1 \in 1 .. Size + 1
        BY <1>1, <2>2
      <3>2. CASE i - 1 <= n
        <4>1. i - 1 \in 1 .. n /\ (i - 1) + 1 = i
          BY <1>1, <3>1, <3>2
        <4>2. g[i - 1] = q[i - 1] /\ g[i - 1] # NoSlot
          BY <1>1, <1>3, <3>1, <3>2, <4>1
        <4>3. next[q[i - 1]] = IF i - 1 = n THEN NoSlot ELSE q[i]
          BY <1>1, <4>1
        <4>4. g[i] = IF i - 1 = n THEN NoSlot ELSE q[i]
          BY <1>1, <1>3, <3>2
        <4> QED  BY <2>2, <4>2, <4>3, <4>4
      <3>3. CASE ~(i - 1 <= n)
        BY <1>1, <1>3, <2>2, <3>1, <3>3
      <3> QED  BY <3>2, <3>3
    <2> QED  BY <2>1, <2>2
  <1>5. g = [i \in 1 .. Size + 1 |->
               IF i = 1 THEN p ELSE IF g[i - 1] = NoSlot THEN NoSlot ELSE next[g[i - 1]]]
    <2> DEFINE h == [i \in 1 .. Size + 1 |->
               IF i = 1 THEN p ELSE IF g[i - 1] = NoSlot THEN NoSlot ELSE next[g[i - 1]]]
    <2>1. \A i \in 1 .. Size + 1 : g[i] = h[i]
      BY <1>4
    <2>2. g = [i \in 1 .. Size + 1 |-> g[i]]
      BY DEF g
    <2>3. h = [i \in 1 .. Size + 1 |-> h[i]]
      OBVIOUS
    <2> HIDE DEF h
    <2>4. g = h
      BY <2>1, <2>2, <2>3
    <2> QED  BY <2>4 DEF h
  <1> QED  BY <1>5 DEF Links, g, n

LEMMA LinksUnique ==
    ASSUME NEW p, NEW g, NEW h, Links(p, g), Links(p, h)
    PROVE  g = h
  <1>1. Size \in Nat
    BY SlotFacts
  <1>2. /\ \A i \in 1 .. Size + 1 :
             g[i] = IF i = 1 THEN p ELSE IF g[i - 1] = NoSlot THEN NoSlot ELSE next[g[i - 1]]
        /\ \A i \in 1 .. Size + 1 :
             h[i] = IF i = 1 THEN p ELSE IF h[i - 1] = NoSlot THEN NoSlot ELSE next[h[i - 1]]
    BY DEF Links
  <1> DEFINE Bad == {i \in 1 .. Size + 1 : g[i] # h[i]}
  <1>3. Bad = {}
    <2> SUFFICES ASSUME Bad # {}  PROVE FALSE
      OBVIOUS
    <2>1. Bad \subseteq Nat
      BY <1>1
    <2>2. PICK k \in Bad : \A i \in Bad : k <= i
      BY <2>1, Smallest
    <2>3. CASE k = 1
      BY <1>2, <2>2, <2>3
    <2>4. CASE k # 1
      <3>1. k - 1 \in 1 .. Size + 1 /\ ~(k <= k - 1)
        BY <1>1, <2>4
      <3>2. g[k - 1] = h[k - 1]
        BY <2>2, <3>1
      <3> QED  BY <1>2, <2>2, <2>4, <3>1, <3>2
    <2> QED  BY <2>3, <2>4
  <1>4. g = [i \in 1 .. Size + 1 |-> g[i]] /\ h = [i \in 1 .. Size + 1 |-> h[i]]
    BY DEF Links
  <1> QED  BY <1>3, <1>4

LEMMA ChainIs ==
    ASSUME NEW p, NEW q, IsChain(next, q, p), Len(q) <= Size
    PROVE  Chain(p) = q
  <1> DEFINE n == Len(q)
             g == [i \in 1 .. Size + 1 |-> IF i <= n THEN q[i] ELSE NoSlot]
             h == CHOOSE x : Links(p, x)
  <1>1. Links(p, g)
    BY LinksWalk
  <1>2. h = g
    <2>1. Links(p, h)
      BY <1>1
    <2> HIDE DEF g, h
    <2> QED  BY <1>1, <2>1, LinksUnique
  <1>3. Chain(p) = [i \in 1 .. ChainEnd(h) - 1 |-> h[i]]
    BY DEF Chain, ChainEnd, Links, h
  <1>4. q \in Seq(Slot) /\ n \in Nat /\ n <= Size /\ Size \in Nat /\ \A i \in 1 .. n : q[i] # NoSlot
    BY SlotFacts DEF IsChain
  <1> HIDE DEF n
  <1>5. \A i \in 1 .. Size + 1 : /\ i <= n => g[i] = q[i]
                                 /\ ~(i <= n) => g[i] = NoSlot
    OBVIOUS
  <1> HIDE DEF g, h
  <1>6. ChainEnd(g) = n + 1
    <2> DEFINE E(k) == /\ \A i \in 1 .. k - 1 : g[i] # NoSlot
                       /\ k <= Size + 1 => g[k] = NoSlot
    <2>1. n + 1 \in 1 .. Size + 2 /\ E(n + 1)
      BY <1>4, <1>5
    <2>2. ASSUME NEW k \in 1 .. Size + 2, E(k)  PROVE k = n + 1
      <3>1. ~(k <= n)
        BY <1>4, <1>5, <2>2
      <3>2. ~(n + 1 <= k - 1)
        <4> SUFFICES ASSUME n + 1 <= k - 1  PROVE FALSE
          OBVIOUS
        <4>1. n + 1 \in 1 .. k - 1 /\ n + 1 \in 1 .. Size + 1
          BY <1>4
        <4>2. g[n + 1] # NoSlot
          BY <2>2, <4>1
        <4>3. ~(n + 1 <= n)
          BY <1>4
        <4> QED  BY <1>5, <4>1, <4>2, <4>3
      <3> QED  BY <1>4, <3>1, <3>2
    <2>3. ChainEnd(g) \in 1 .. Size + 2 /\ E(ChainEnd(g))
      BY <2>1 DEF ChainEnd
    <2> HIDE DEF E
    <2> QED  BY <2>2, <2>3
  <1>7. Chain(p) = [i \in 1 .. n |-> g[i]]
    <2>1. ChainEnd(g) - 1 = n
      BY <1>4, <1>6
    <2>2. Chain(p) = [i \in 1 .. ChainEnd(g) - 1 |-> g[i]]
      BY <1>2, <1>3
    <2> HIDE DEF Chain
    <2> QED  BY <2>1, <2>2
  <1>8. Chain(p) = [i \in 1 .. n |-> q[i]]
    <2>1. \A i \in 1 .. n : g[i] = q[i]
      BY <1>4, <1>5
    <2> QED  BY <1>7, <2>1
  <1>9. q = [i \in 1 .. n |-> q[i]]
    BY <1>4 DEF n
  <1> QED  BY <1>8, <1>9

(* Links of other slots do not matter.                                     *)
LEMMA ChainFrame ==
    ASSUME NEW nx, NEW ny, NEW q, NEW p, IsChain(nx, q, p),
           \A s \in Slot : InList(q, s) => ny[s] = nx[s]
    PROVE  IsChain(ny, q, p)
  <1>1. q \in Seq(Slot)
    BY DEF IsChain
  <1>2. \A i \in 1 .. Len(q) : q[i] \in Slot /\ InList(q, q[i])
    BY <1>1 DEF InList
  <1> QED  BY <1>1, <1>2 DEF IsChain

LEMMA ChainFirst ==
    ASSUME NEW nx, NEW q, NEW p, IsChain(nx, q, p)
    PROVE  /\ q \in Seq(Slot)
           /\ p = NoSlot <=> q = <<>>
           /\ q # <<>> => p = Head(q) /\ p \in Slot /\ InList(q, p)
  BY SlotFacts DEF IsChain, InList

(* The first slot is unlinked.                                             *)
LEMMA ChainTail ==
    ASSUME NEW nx, NEW q, NEW p, IsChain(nx, q, p), q # <<>>
    PROVE  IsChain(nx, Tail(q), nx[p])
  <1> DEFINE r == Tail(q)
  <1>1. /\ q \in Seq(Slot) /\ Len(q) \in Nat /\ Len(q) >= 1 /\ p = q[1]
        /\ \A i \in 1 .. Len(q) : nx[q[i]] = IF i = Len(q) THEN NoSlot ELSE q[i + 1]
    BY DEF IsChain
  <1>2. /\ r \in Seq(Slot) /\ Len(r) = Len(q) - 1
        /\ \A i \in 1 .. Len(r) : r[i] = q[i + 1]
        /\ r = <<>> <=> Len(r) = 0
    <2>1. q \in Seq(Slot) /\ q # <<>>
      BY <1>1
    <2>2. r \in Seq(Slot) /\ Len(r) = Len(q) - 1 /\ \A i \in 1 .. Len(r) : r[i] = q[i + 1]
      BY <2>1
    <2> HIDE DEF r
    <2> QED  BY <2>2
  <1> HIDE DEF r
  <1>3. nx[p] = IF r = <<>> THEN NoSlot ELSE r[1]
    <2>1. nx[p] = IF 1 = Len(q) THEN NoSlot ELSE q[2]
      <3>1. 1 \in 1 .. Len(q) /\ 1 + 1 = 2
        BY <1>1
      <3>2. nx[q[1]] = IF 1 = Len(q) THEN NoSlot ELSE q[1 + 1]
        BY <1>1, <3>1
      <3> QED  BY <1>1, <3>1, <3>2
    <2>2. 1 # Len(q) => r[1] = q[2]
      BY <1>1, <1>2
    <2> QED  BY <1>1, <1>2, <2>1, <2>2
  <1>4. ASSUME NEW i \in 1 .. Len(r)
        PROVE  nx[r[i]] = IF i = Len(r) THEN NoSlot ELSE r[i + 1]
    <2>1. i + 1 \in 1 .. Len(q) /\ r[i] = q[i + 1] /\ (i = Len(r) <=> i + 1 = Len(q))
      BY <1>1, <1>2
    <2>2. i # Len(r) => i + 1 \in 1 .. Len(r)
      BY <1>1, <1>2
    <2>3. i # Len(r) => r[i + 1] = q[i + 1 + 1]
      BY <1>2, <2>2
    <2> QED  BY <1>1, <2>1, <2>3
  <1> QED  BY <1>2, <1>3, <1>4 DEF IsChain, r

(* A slot is linked before the first.                                      *)
LEMMA ChainInsertFirst ==
    ASSUME NEW nx, NEW q, NEW p, IsChain(nx, q, p), NEW s \in Slot, nx[s] = p
    PROVE  IsChain(nx, InsertFirst(q, s), s)
  <1> DEFINE r == InsertFirst(q, s)
  <1>1. /\ q \in Seq(Slot) /\ Len(q) \in Nat /\ (q = <<>> <=> Len(q) = 0)
        /\ p = IF q = <<>> THEN NoSlot ELSE q[1]
        /\ \A i \in 1 .. Len(q) : nx[q[i]] = IF i = Len(q) THEN NoSlot ELSE q[i + 1]
    BY DEF IsChain
  <1>2. /\ r \in Seq(Slot) /\ Len(r) = Len(q) + 1 /\ r[1] = s
        /\ \A i \in 1 .. Len(q) : r[i + 1] = q[i]
        /\ r # <<>>
    BY <1>1 DEF InsertFirst
  <1> HIDE DEF r
  <1>3. ASSUME NEW i \in 1 .. Len(r)
        PROVE  nx[r[i]] = IF i = Len(r) THEN NoSlot ELSE r[i + 1]
    <2>1. CASE i = 1
      <3>1. q # <<>> => r[2] = q[1]
        BY <1>1, <1>2
      <3> QED  BY <1>1, <1>2, <2>1, <3>1
    <2>2. CASE i # 1
      <3>1. i - 1 \in 1 .. Len(q) /\ (i = Len(r) <=> i - 1 = Len(q)) /\ i - 1 + 1 = i
        BY <1>1, <1>2, <2>2
      <3>2. r[i] = q[i - 1]
        BY <1>2, <3>1
      <3>3. i # Len(r) => i \in 1 .. Len(q)
        BY <1>1, <1>2
      <3> QED  BY <1>1, <1>2, <3>1, <3>2, <3>3
    <2> QED  BY <2>1, <2>2
  <1> QED  BY <1>2, <1>3 DEF IsChain, r

(* A slot is linked behind the last.                                       *)
LEMMA ChainInsertLast ==
    ASSUME NEW nx, NEW ny, NEW q, NEW p, IsChain(nx, q, p), NEW s \in Slot,
           NoRepeat(q), ny[s] = NoSlot,
           q # <<>> => ny[q[Len(q)]] = s,
           \A x \in Slot : InList(q, x) /\ x # q[Len(q)] => ny[x] = nx[x]
    PROVE  /\ IsChain(ny, InsertLast(q, s), IF q = <<>> THEN s ELSE p)
           /\ InsertLast(q, s)[Len(InsertLast(q, s))] = s
           /\ Len(InsertLast(q, s)) = Len(q) + 1
  <1> DEFINE r == InsertLast(q, s)
  <1>1. /\ q \in Seq(Slot) /\ Len(q) \in Nat /\ (q = <<>> <=> Len(q) = 0)
        /\ p = IF q = <<>> THEN NoSlot ELSE q[1]
        /\ \A i \in 1 .. Len(q) : nx[q[i]] = IF i = Len(q) THEN NoSlot ELSE q[i + 1]
    BY DEF IsChain
  <1>2. /\ r \in Seq(Slot) /\ Len(r) = Len(q) + 1 /\ r[Len(q) + 1] = s
        /\ \A i \in 1 .. Len(q) : r[i] = q[i]
        /\ r # <<>>
    <2>1. q \in Seq(Slot)
      BY <1>1
    <2>2. /\ r \in Seq(Slot) /\ Len(r) = Len(q) + 1 /\ r[Len(q) + 1] = s
          /\ \A i \in 1 .. Len(q) : r[i] = q[i]
      BY <2>1 DEF InsertLast
    <2> HIDE DEF r
    <2> QED  BY <1>1, <2>2
  <1> HIDE DEF r
  <1>3. ASSUME NEW i \in 1 .. Len(r)
        PROVE  ny[r[i]] = IF i = Len(r) THEN NoSlot ELSE r[i + 1]
    <2>1. CASE i = Len(r)
      BY <1>1, <1>2, <2>1
    <2>2. CASE i = Len(q) /\ i # Len(r)
      <3>1. i \in 1 .. Len(q) /\ q # <<>>
        BY <1>1, <2>2
      <3> QED  BY <1>2, <2>2, <3>1
    <2>3. CASE i # Len(q) /\ i # Len(r)
      <3>1. i \in 1 .. Len(q) /\ i + 1 \in 1 .. Len(q) /\ Len(q) \in 1 .. Len(q)
        BY <1>1, <1>2, <2>3
      <3>2. q[i] # q[Len(q)] /\ q[i] \in Slot /\ InList(q, q[i])
        BY <1>1, <2>3, <3>1 DEF NoRepeat, InList
      <3> QED  BY <1>1, <1>2, <2>3, <3>1, <3>2
    <2> QED  BY <2>1, <2>2, <2>3
  <1>4. (IF q = <<>> THEN s ELSE p) = r[1]
    BY <1>1, <1>2
  <1> QED  BY <1>2, <1>3, <1>4 DEF IsChain, r

(* The loop of rt_mq_init links all slots, the last first.                 *)
NewLinks == [s \in Slot |-> IF s = 0 THEN NoSlot ELSE s - 1]
NewFree == [i \in 1 .. Size |-> Size - i]

LEMMA ChainNew ==
    /\ IsChain(NewLinks, NewFree, Size - 1) /\ Len(NewFree) = Size /\ NoRepeat(NewFree)
    /\ \A s \in Slot : InList(NewFree, s)
    /\ IsChain(NewLinks, <<>>, NoSlot)
  <1>0. Size \in Nat /\ Size > 0 /\ Slot = 0 .. Size - 1
    BY SlotFacts DEF Slot
  <1>1. NewFree \in Seq(Slot) /\ Len(NewFree) = Size
    <2>1. \A i \in 1 .. Size : Size - i \in Slot
      BY <1>0
    <2> QED  BY <1>0, <2>1 DEF NewFree
  <1>2. \A i \in 1 .. Size : NewFree[i] = Size - i
    BY DEF NewFree
  <1>3. \A s \in Slot : NewLinks[s] = IF s = 0 THEN NoSlot ELSE s - 1
    BY DEF NewLinks
  <1>4. NewFree # <<>>
    BY <1>0, <1>1
  <1> HIDE DEF NewFree, NewLinks
  <1>5. ASSUME NEW i \in 1 .. Size
        PROVE  NewLinks[NewFree[i]] = IF i = Size THEN NoSlot ELSE NewFree[i + 1]
    <2>1. Size - i \in Slot /\ NewFree[i] = Size - i /\ (Size - i = 0 <=> i = Size)
      BY <1>0, <1>2
    <2>2. i # Size => NewFree[i + 1] = Size - i - 1
      <3>1. i # Size => i + 1 \in 1 .. Size /\ Size - (i + 1) = Size - i - 1
        BY <1>0
      <3> QED  BY <1>2, <3>1
    <2> QED  BY <1>3, <2>1, <2>2
  <1>6. NoRepeat(NewFree)
    <2>1. \A i, j \in 1 .. Size : Size - i = Size - j => i = j
      BY <1>0
    <2> QED  BY <1>1, <1>2, <2>1 DEF NoRepeat
  <1>7. ASSUME NEW s \in Slot  PROVE InList(NewFree, s)
    <2>1. Size - s \in 1 .. Size /\ Size - (Size - s) = s
      BY <1>0
    <2> QED  BY <1>1, <1>2, <2>1 DEF InList
  <1>8. NewFree[1] = Size - 1
    BY <1>0, <1>2
  <1>9. IsChain(NewLinks, <<>>, NoSlot)
    <2>1. <<>> \in Seq(Slot) /\ Len(<<>>) = 0
      OBVIOUS
    <2> QED  BY <2>1 DEF IsChain
  <1> QED  BY <1>1, <1>4, <1>5, <1>6, <1>7, <1>8, <1>9 DEF IsChain

(* The slots of a in front of those of b, those of a from the last on.     *)
Moved(a, b) ==
    [i \in 1 .. Len(a) + Len(b) |-> IF i <= Len(a) THEN a[Len(a) + 1 - i] ELSE b[i - Len(a)]]

LEMMA MovedFacts ==
    ASSUME NEW a \in Seq(Slot), NEW b \in Seq(Slot), NoRepeat(a), NoRepeat(b),
           \A s : ~(InList(a, s) /\ InList(b, s))
    PROVE  /\ Moved(a, b) \in Seq(Slot) /\ Len(Moved(a, b)) = Len(a) + Len(b)
           /\ NoRepeat(Moved(a, b))
           /\ \A s : InList(Moved(a, b), s) <=> InList(a, s) \/ InList(b, s)
           /\ \A i \in 1 .. Len(a) : Moved(a, b)[i] = a[Len(a) + 1 - i]
           /\ \A i \in 1 .. Len(b) : Moved(a, b)[i + Len(a)] = b[i]
  <1> DEFINE n == Len(a)
             m == Len(b)
             g == Moved(a, b)
  <1>1. n \in Nat /\ m \in Nat
    OBVIOUS
  <1>2. /\ \A i \in 1 .. n : n + 1 - i \in 1 .. n /\ a[n + 1 - i] \in Slot
        /\ \A i \in 1 .. n + m : i \in 1 .. n \/ i - n \in 1 .. m
        /\ \A i \in 1 .. m : b[i] \in Slot
    <2>1. \A i \in 1 .. n : n + 1 - i \in 1 .. n
      BY <1>1
    <2>2. \A i \in 1 .. n + m : i \in 1 .. n \/ i - n \in 1 .. m
      BY <1>1
    <2>3. (\A i \in 1 .. n : a[i] \in Slot) /\ \A i \in 1 .. m : b[i] \in Slot
      OBVIOUS
    <2> HIDE DEF n, m
    <2> QED  BY <2>1, <2>2, <2>3
  <1>3. /\ g = [i \in 1 .. n + m |-> IF i <= n THEN a[n + 1 - i] ELSE b[i - n]]
        /\ n + m \in Nat
    BY <1>1 DEF Moved
  <1>4. \A i \in 1 .. n + m : /\ i \in 1 .. n => g[i] = a[n + 1 - i]
                              /\ i \notin 1 .. n => g[i] = b[i - n] /\ i - n \in 1 .. m
    <2> HIDE DEF g, n, m
    <2>1. \A i \in 1 .. n + m : i <= n <=> i \in 1 .. n
      BY <1>1
    <2> QED  BY <1>2, <1>3, <2>1
  <1>5. g \in Seq(Slot) /\ Len(g) = n + m
    <2> HIDE DEF g, n, m
    <2>1. \A i \in 1 .. n + m : g[i] \in Slot
      BY <1>2, <1>4
    <2>2. g = [i \in 1 .. n + m |-> g[i]]
      BY <1>3
    <2> DEFINE N == n + m
    <2>3. N \in Nat /\ g = [i \in 1 .. N |-> g[i]] /\ \A i \in 1 .. N : g[i] \in Slot
      BY <1>1, <2>1, <2>2
    <2> HIDE DEF N
    <2>4. g \in [1 .. N -> Slot] /\ DOMAIN g = 1 .. N
      BY <2>3
    <2>5. g \in Seq(Slot) /\ Len(g) = N
      BY <2>3, <2>4
    <2> QED  BY <2>5 DEF N
  <1>6. /\ \A i, j \in 1 .. n : a[i] = a[j] => i = j
        /\ \A i, j \in 1 .. m : b[i] = b[j] => i = j
        /\ \A i \in 1 .. n, j \in 1 .. m : a[i] # b[j]
    <2>1. \A i \in 1 .. n : InList(a, a[i])
      BY DEF InList
    <2>2. \A i \in 1 .. m : InList(b, b[i])
      BY DEF InList
    <2> QED  BY <2>1, <2>2 DEF NoRepeat
  <1>7. /\ \A i \in 1 .. n : i \in 1 .. n + m /\ g[i] = a[n + 1 - i]
        /\ \A i \in 1 .. m : i + n \in 1 .. n + m /\ g[i + n] = b[i]
    <2> HIDE DEF g, n, m
    <2>1. \A i \in 1 .. n : i \in 1 .. n + m
      BY <1>1
    <2>2. ASSUME NEW i \in 1 .. m  PROVE i + n \in 1 .. n + m /\ g[i + n] = b[i]
      <3> DEFINE k == i + n
      <3>1. k \in 1 .. n + m /\ k \notin 1 .. n /\ k - n = i
        BY <1>1
      <3> HIDE DEF k
      <3>2. g[k] = b[k - n]
        BY <1>4, <3>1
      <3> QED  BY <3>1, <3>2 DEF k
    <2> QED  BY <1>4, <2>1, <2>2
  <1>8. NoRepeat(g)
    <2> HIDE DEF g, n, m
    <2> SUFFICES ASSUME NEW i \in 1 .. n + m, NEW j \in 1 .. n + m, g[i] = g[j]  PROVE i = j
      BY <1>5 DEF NoRepeat
    <2>1. CASE i \in 1 .. n /\ j \in 1 .. n
      <3> DEFINE x == n + 1 - i
                 y == n + 1 - j
      <3>1. x \in 1 .. n /\ y \in 1 .. n /\ g[i] = a[x] /\ g[j] = a[y]
        BY <1>2, <1>4, <2>1
      <3>2. x = y
        <4> HIDE DEF x, y
        <4> QED  BY <1>6, <3>1
      <3> QED  BY <1>1, <3>2
    <2>2. CASE i \notin 1 .. n /\ j \notin 1 .. n
      <3>1. i - n = j - n
        BY <1>4, <1>6, <2>2
      <3> QED  BY <1>1, <3>1
    <2>3. ASSUME NEW u \in 1 .. n + m, NEW v \in 1 .. n + m, u \in 1 .. n, v \notin 1 .. n
          PROVE  g[u] # g[v]
      <3> DEFINE x == n + 1 - u
                 y == v - n
      <3>1. x \in 1 .. n /\ y \in 1 .. m /\ g[u] = a[x] /\ g[v] = b[y]
        BY <1>2, <1>4, <2>3
      <3> HIDE DEF x, y
      <3> QED  BY <1>6, <3>1
    <2> QED  BY <2>1, <2>2, <2>3
  <1>9. ASSUME NEW s  PROVE InList(g, s) <=> InList(a, s) \/ InList(b, s)
    <2>1. InList(g, s) => InList(a, s) \/ InList(b, s)
      <3> HIDE DEF g
      <3> SUFFICES ASSUME NEW i \in 1 .. n + m, g[i] = s  PROVE InList(a, s) \/ InList(b, s)
        BY <1>5 DEF InList
      <3> QED  BY <1>2, <1>4 DEF InList
    <2>2. InList(a, s) => InList(g, s)
      <3> HIDE DEF g
      <3> SUFFICES ASSUME NEW i \in 1 .. n, a[i] = s  PROVE InList(g, s)
        BY DEF InList
      <3>1. n + 1 - i \in 1 .. n /\ n + 1 - (n + 1 - i) = i
        BY <1>1
      <3>2. n + 1 - i \in 1 .. n + m /\ g[n + 1 - i] = s
        BY <1>7, <3>1
      <3> QED  BY <1>5, <3>2 DEF InList
    <2>3. InList(b, s) => InList(g, s)
      <3> HIDE DEF g
      <3> SUFFICES ASSUME NEW i \in 1 .. m, b[i] = s  PROVE InList(g, s)
        BY DEF InList
      <3> QED  BY <1>5, <1>7 DEF InList
    <2> QED  BY <2>1, <2>2, <2>3
  <1> QED  BY <1>5, <1>7, <1>8, <1>9

(* The loop of rt_mq_control moves the queue to the free list.             *)
LEMMA ChainMoved ==
    ASSUME NEW nx, NEW ny, NEW q, NEW f, NEW p, NEW r, IsChain(nx, q, p), IsChain(nx, f, r),
           NoRepeat(q), NoRepeat(f), \A s : ~(InList(q, s) /\ InList(f, s)),
           \A i \in 1 .. Len(q) : ny[q[i]] = IF i = 1 THEN r ELSE q[i - 1],
           \A s \in Slot : ~InList(q, s) => ny[s] = nx[s]
    PROVE  IsChain(ny, Moved(q, f), IF q = <<>> THEN r ELSE q[Len(q)])
  <1> DEFINE n == Len(q)
             m == Len(f)
             g == Moved(q, f)
  <1>1. /\ q \in Seq(Slot) /\ f \in Seq(Slot) /\ n \in Nat /\ m \in Nat
        /\ (q = <<>> <=> n = 0) /\ (f = <<>> <=> m = 0)
        /\ r = IF f = <<>> THEN NoSlot ELSE f[1]
        /\ \A i \in 1 .. m : nx[f[i]] = IF i = m THEN NoSlot ELSE f[i + 1]
    BY DEF IsChain
  <1>2. /\ g \in Seq(Slot) /\ Len(g) = n + m
        /\ \A i \in 1 .. n : g[i] = q[n + 1 - i]
        /\ \A i \in 1 .. m : g[i + n] = f[i]
    BY <1>1, MovedFacts
  <1>3. \A i \in 1 .. m : f[i] \in Slot /\ ~InList(q, f[i])
    <2>1. \A i \in 1 .. m : f[i] \in Slot /\ InList(f, f[i])
      BY <1>1 DEF InList
    <2> QED  BY <2>1
  <1>4. \A i \in 1 .. n : ny[q[i]] = IF i = 1 THEN r ELSE q[i - 1]
    OBVIOUS
  <1> HIDE DEF g, n, m
  <1>5. m > 0 => g[n + 1] = f[1] /\ r = f[1]
    <2> SUFFICES ASSUME m > 0  PROVE g[n + 1] = f[1] /\ r = f[1]
      OBVIOUS
    <2>1. 1 \in 1 .. m /\ 1 + n = n + 1 /\ f # <<>>
      BY <1>1
    <2> QED  BY <1>1, <1>2, <2>1
  <1>6. ASSUME NEW i \in 1 .. n + m
        PROVE  ny[g[i]] = IF i = n + m THEN NoSlot ELSE g[i + 1]
    <2>1. CASE i < n
      <3> DEFINE k == n + 1 - i
      <3>1. /\ k \in 1 .. n /\ k # 1 /\ i \in 1 .. n /\ i + 1 \in 1 .. n
            /\ n + 1 - (i + 1) = k - 1 /\ i # n + m
        BY <1>1, <2>1
      <3>2. g[i] = q[k]
        BY <1>2, <3>1
      <3> DEFINE j == i + 1
      <3>3. g[j] = q[k - 1]
        <4> HIDE DEF j, k
        <4> QED  BY <1>2, <3>1 DEF j
      <3> HIDE DEF k
      <3> QED  BY <1>4, <3>1, <3>2, <3>3
    <2>2. CASE i = n
      <3>1. n \in 1 .. n /\ n + 1 - n = 1 /\ 1 \in 1 .. n
        BY <1>1, <2>2
      <3>2. g[n] = q[1] /\ ny[q[1]] = r
        BY <1>2, <1>4, <3>1
      <3>3. n = n + m <=> ~(m > 0)
        BY <1>1
      <3>4. ~(m > 0) => r = NoSlot
        BY <1>1
      <3> QED  BY <1>5, <2>2, <3>2, <3>3, <3>4
    <2>3. CASE i > n
      <3> DEFINE k == i - n
      <3>1. k \in 1 .. m /\ k + n = i /\ (i = n + m <=> k = m)
        BY <1>1, <2>3
      <3>2. k # m => k + 1 \in 1 .. m /\ k + 1 + n = i + 1
        BY <1>1, <3>1
      <3> HIDE DEF k
      <3>3. g[i] = f[k] /\ (k # m => g[i + 1] = f[k + 1])
        <4>1. \A j \in 1 .. m : \A l : l = j + n => g[l] = f[j]
          BY <1>2
        <4> QED  BY <3>1, <3>2, <4>1
      <3>4. ny[f[k]] = nx[f[k]] /\ nx[f[k]] = IF k = m THEN NoSlot ELSE f[k + 1]
        BY <1>1, <1>3, <3>1
      <3> QED  BY <3>1, <3>3, <3>4
    <2> QED  BY <1>1, <2>1, <2>2, <2>3
  <1>7. (IF q = <<>> THEN r ELSE q[n]) = IF g = <<>> THEN NoSlot ELSE g[1]
    <2>1. CASE n > 0
      <3>1. 1 \in 1 .. n /\ n + 1 - 1 = n
        BY <1>1, <2>1
      <3>2. g[1] = q[n]
        BY <1>2, <3>1
      <3>3. g # <<>> /\ q # <<>>
        BY <1>1, <1>2, <2>1
      <3> QED  BY <3>2, <3>3
    <2>2. CASE n = 0 /\ m > 0
      <3>1. g # <<>>
        BY <1>1, <1>2, <2>2
      <3>2. g[1] = f[1] /\ r = f[1]
        BY <1>5, <2>2
      <3> QED  BY <1>1, <2>2, <3>1, <3>2
    <2>3. CASE n = 0 /\ m = 0
      <3>1. g = <<>>
        BY <1>2, <2>3
      <3> QED  BY <1>1, <2>3, <3>1
    <2> QED  BY <1>1, <2>1, <2>2, <2>3
  <1> QED  BY <1>2, <1>6, <1>7 DEF IsChain, g, n

-----------------------------------------------------------------------------
(* Where the slots are: in one of two lists, or in one hand.               *)
Holders(sl) == {c \in Context : sl[c] # NoSlot}
Placed(a, b, sl) ==
    /\ a \in Seq(Slot) /\ b \in Seq(Slot) /\ NoRepeat(a) /\ NoRepeat(b)
    /\ \A s : ~(InList(a, s) /\ InList(b, s))
    /\ sl \in [Context -> Slot \cup {NoSlot}]
    /\ \A c \in Context : sl[c] # NoSlot =>
         /\ ~InList(a, sl[c]) /\ ~InList(b, sl[c])
         /\ \A d \in Context : sl[d] = sl[c] => d = c
    /\ \A s \in Slot : InList(a, s) \/ InList(b, s) \/ \E c \in Context : sl[c] = s
    /\ IsFiniteSet(Holders(sl)) /\ Len(a) + Len(b) + Cardinality(Holders(sl)) = Size

LEMMA PlacedSwap == \A a, b, sl : Placed(a, b, sl) => Placed(b, a, sl)
  <1> SUFFICES ASSUME NEW a, NEW b, NEW sl, Placed(a, b, sl)  PROVE Placed(b, a, sl)
    OBVIOUS
  <1>1. Len(a) \in Nat /\ Len(b) \in Nat /\ Cardinality(Holders(sl)) \in Nat
    BY FS_CardinalityType DEF Placed
  <1>2. Len(b) + Len(a) + Cardinality(Holders(sl)) = Size
    BY <1>1 DEF Placed
  <1> QED  BY <1>2 DEF Placed

(* The first slot of a goes to the hands of c.                             *)
LEMMA ToHand ==
    ASSUME NEW a, NEW b, NEW sl, Placed(a, b, sl), a # <<>>, NEW c \in Context, sl[c] = NoSlot
    PROVE  Placed(Tail(a), b, [sl EXCEPT ![c] = Head(a)])
  <1> DEFINE s == Head(a)
             r == Tail(a)
             sn == [sl EXCEPT ![c] = s]
             H == Holders(sl)
             K == Holders(sn)
  <1>1. /\ a \in Seq(Slot) /\ b \in Seq(Slot) /\ NoRepeat(a) /\ NoRepeat(b)
        /\ \A x : ~(InList(a, x) /\ InList(b, x))
        /\ sl \in [Context -> Slot \cup {NoSlot}]
        /\ \A d \in Context : sl[d] # NoSlot =>
             /\ ~InList(a, sl[d]) /\ ~InList(b, sl[d])
             /\ \A e \in Context : sl[e] = sl[d] => e = d
        /\ \A x \in Slot : InList(a, x) \/ InList(b, x) \/ \E d \in Context : sl[d] = x
        /\ IsFiniteSet(H) /\ Len(a) + Len(b) + Cardinality(H) = Size
    BY DEF Placed
  <1>2. /\ s \in Slot /\ InList(a, s) /\ r \in Seq(Slot) /\ NoRepeat(r)
        /\ \A x : InList(r, x) <=> InList(a, x) /\ x # s
    BY <1>1, TailFacts
  <1>3. Len(r) = Len(a) - 1
    BY <1>1
  <1> HIDE DEF s, r
  <1>4. s # NoSlot
    BY <1>2, SlotFacts
  <1>5. /\ sn \in [Context -> Slot \cup {NoSlot}] /\ sn[c] = s
        /\ \A d \in Context : d # c => sn[d] = sl[d]
    BY <1>1, <1>2
  <1>6. K = H \cup {c} /\ c \notin H
    <2> HIDE DEF sn
    <2> QED  BY <1>4, <1>5 DEF Holders
  <1> HIDE DEF sn
  <1>7. IsFiniteSet(K) /\ Cardinality(K) = Cardinality(H) + 1
    <2> HIDE DEF H, K
    <2> QED  BY <1>1, <1>6, FS_AddElement
  <1>8. Cardinality(H) \in Nat /\ Len(a) \in Nat /\ Len(b) \in Nat
    BY <1>1, FS_CardinalityType
  <1>9. Len(r) + Len(b) + Cardinality(K) = Size
    BY <1>1, <1>3, <1>7, <1>8
  <1>10. ASSUME NEW d \in Context, sn[d] # NoSlot
         PROVE  /\ ~InList(r, sn[d]) /\ ~InList(b, sn[d])
                /\ \A e \in Context : sn[e] = sn[d] => e = d
    <2>1. CASE d = c
      BY <1>1, <1>2, <1>4, <1>5, <2>1
    <2>2. CASE d # c
      BY <1>1, <1>2, <1>4, <1>5, <1>10, <2>2
    <2> QED  BY <2>1, <2>2
  <1>11. ASSUME NEW x \in Slot
         PROVE  InList(r, x) \/ InList(b, x) \/ \E d \in Context : sn[d] = x
    <2>1. CASE \E d \in Context : sl[d] = x
      <3>1. PICK d \in Context : sl[d] = x
        BY <2>1
      <3>2. d # c
        BY <3>1, SlotFacts
      <3> QED  BY <1>5, <3>1, <3>2
    <2> QED  BY <1>1, <1>2, <1>5, <2>1
  <1> QED  BY <1>1, <1>2, <1>5, <1>7, <1>9, <1>10, <1>11 DEF Placed, sn, r, s

(* The slot in the hands of c goes to a, which becomes r.                  *)
LEMMA FromHand ==
    ASSUME NEW a, NEW b, NEW sl, Placed(a, b, sl), NEW c \in Context, sl[c] # NoSlot,
           NEW r \in {InsertFirst(a, sl[c]), InsertLast(a, sl[c])}
    PROVE  /\ Placed(r, b, [sl EXCEPT ![c] = NoSlot]) /\ Len(r) = Len(a) + 1
           /\ Len(a) < Size /\ sl[c] \in Slot
           /\ \A x : InList(r, x) <=> InList(a, x) \/ x = sl[c]
  <1> DEFINE s == sl[c]
             sn == [sl EXCEPT ![c] = NoSlot]
             H == Holders(sl)
             K == Holders(sn)
  <1>1. /\ a \in Seq(Slot) /\ b \in Seq(Slot) /\ NoRepeat(a) /\ NoRepeat(b)
        /\ \A x : ~(InList(a, x) /\ InList(b, x))
        /\ sl \in [Context -> Slot \cup {NoSlot}]
        /\ \A d \in Context : sl[d] # NoSlot =>
             /\ ~InList(a, sl[d]) /\ ~InList(b, sl[d])
             /\ \A e \in Context : sl[e] = sl[d] => e = d
        /\ \A x \in Slot : InList(a, x) \/ InList(b, x) \/ \E d \in Context : sl[d] = x
        /\ IsFiniteSet(H) /\ Len(a) + Len(b) + Cardinality(H) = Size
    BY DEF Placed
  <1>2. s \in Slot /\ ~InList(a, s) /\ ~InList(b, s) /\ s # NoSlot
    BY <1>1
  <1>3. r = InsertFirst(a, s) \/ r = InsertLast(a, s)
    OBVIOUS
  <1> HIDE DEF s
  <1>4. /\ r \in Seq(Slot) /\ NoRepeat(r)
        /\ \A x : InList(r, x) <=> InList(a, x) \/ x = s
    <2>1. a \in Seq(Slot) /\ NoRepeat(a)
      BY <1>1
    <2>2. /\ InsertFirst(a, s) \in Seq(Slot) /\ NoRepeat(InsertFirst(a, s))
          /\ \A x : InList(InsertFirst(a, s), x) <=> InList(a, x) \/ x = s
      BY <1>2, <2>1, InsertFirstFacts
    <2>3. /\ InsertLast(a, s) \in Seq(Slot) /\ NoRepeat(InsertLast(a, s))
          /\ \A x : InList(InsertLast(a, s), x) <=> InList(a, x) \/ x = s
      BY <1>2, <2>1, InsertLastFacts
    <2> QED  BY <1>3, <2>2, <2>3, Zenon
  <1>5. Len(r) = Len(a) + 1
    BY <1>1, <1>2, <1>3 DEF InsertFirst, InsertLast
  <1>6. /\ sn \in [Context -> Slot \cup {NoSlot}] /\ sn[c] = NoSlot
        /\ \A d \in Context : d # c => sn[d] = sl[d]
    BY <1>1
  <1>7. K = H \ {c} /\ c \in H
    <2> HIDE DEF sn
    <2> QED  BY <1>6 DEF Holders
  <1> HIDE DEF sn
  <1>8. IsFiniteSet(K) /\ Cardinality(K) = Cardinality(H) - 1
    <2> HIDE DEF H, K
    <2> QED  BY <1>1, <1>7, FS_RemoveElement
  <1>9. Cardinality(H) \in Nat /\ Len(a) \in Nat /\ Len(b) \in Nat /\ Cardinality(K) \in Nat
    BY <1>1, <1>8, FS_CardinalityType
  <1>10. Len(r) + Len(b) + Cardinality(K) = Size /\ Len(a) < Size
    BY <1>1, <1>5, <1>8, <1>9
  <1>11. ASSUME NEW d \in Context, sn[d] # NoSlot
         PROVE  /\ ~InList(r, sn[d]) /\ ~InList(b, sn[d])
                /\ \A e \in Context : sn[e] = sn[d] => e = d
    <2>1. d # c /\ sn[d] = sl[d] /\ sl[d] # NoSlot
      BY <1>6, <1>11
    <2>2. sl[d] # s
      BY <1>1, <2>1 DEF s
    <2> QED  BY <1>1, <1>4, <1>6, <2>1, <2>2
  <1>12. ASSUME NEW x \in Slot
         PROVE  InList(r, x) \/ InList(b, x) \/ \E d \in Context : sn[d] = x
    <2>1. CASE \E d \in Context : sl[d] = x
      <3>1. PICK d \in Context : sl[d] = x
        BY <2>1
      <3> QED  BY <1>4, <1>6, <3>1 DEF s
    <2> QED  BY <1>1, <1>4, <2>1
  <1>13. \A x : ~(InList(r, x) /\ InList(b, x))
    BY <1>1, <1>2, <1>4
  <1> QED  BY <1>1, <1>2, <1>4, <1>5, <1>6, <1>8, <1>10, <1>11, <1>12, <1>13 DEF Placed, sn, s

LEMMA AllMoved ==
    ASSUME NEW a, NEW b, NEW sl, Placed(a, b, sl)
    PROVE  Placed(<<>>, Moved(a, b), sl)
  <1> DEFINE g == Moved(a, b)
  <1>1. /\ a \in Seq(Slot) /\ b \in Seq(Slot) /\ NoRepeat(a) /\ NoRepeat(b)
        /\ \A x : ~(InList(a, x) /\ InList(b, x))
    BY DEF Placed
  <1>2. /\ g \in Seq(Slot) /\ Len(g) = Len(a) + Len(b) /\ NoRepeat(g)
        /\ \A s : InList(g, s) <=> InList(a, s) \/ InList(b, s)
    BY <1>1, MovedFacts
  <1> HIDE DEF g
  <1>3. <<>> \in Seq(Slot) /\ NoRepeat(<<>>) /\ Len(<<>>) = 0 /\ \A x : ~InList(<<>>, x)
    BY DEF NoRepeat, InList
  <1>4. Len(a) \in Nat /\ Len(b) \in Nat /\ Cardinality(Holders(sl)) \in Nat
    BY FS_CardinalityType DEF Placed
  <1>5. Len(<<>>) + Len(g) + Cardinality(Holders(sl)) = Size
    BY <1>2, <1>3, <1>4 DEF Placed
  <1> QED  BY <1>2, <1>3, <1>5 DEF Placed, g

LEMMA AllFree ==
    ASSUME NEW sl \in [Context -> Slot \cup {NoSlot}], \A c \in Context : sl[c] = NoSlot
    PROVE  Placed(<<>>, NewFree, sl)
  <1>1. <<>> \in Seq(Slot) /\ NoRepeat(<<>>) /\ Len(<<>>) = 0 /\ \A x : ~InList(<<>>, x)
    BY DEF NoRepeat, InList
  <1>2. Holders(sl) = {} /\ IsFiniteSet(Holders(sl)) /\ Cardinality(Holders(sl)) = 0
    <2>1. Holders(sl) = {}
      BY DEF Holders
    <2> QED  BY <2>1, FS_EmptySet
  <1>3. Len(<<>>) + Len(NewFree) + Cardinality(Holders(sl)) = Size
    BY <1>1, <1>2, ChainNew, SlotFacts
  <1> QED  BY <1>1, <1>2, <1>3, ChainNew DEF Placed, IsChain

-----------------------------------------------------------------------------
(* The inductive invariant of the pool: q is the queue, f the free list.   *)
PoolOf(nx, dt, head, tail, free, n, sl, q, f) ==
    /\ nx \in [Slot -> Slot \cup {NoSlot}] /\ dt \in [Slot -> Message \cup {NoMessage}]
    /\ IsChain(nx, q, head) /\ IsChain(nx, f, free)
    /\ Placed(q, f, sl)
    /\ tail = IF q = <<>> THEN NoSlot ELSE q[Len(q)]
    /\ n = Len(q)
    /\ \A s : InList(q, s) => dt[s] \in Message
PoolNow(q, f) ==
    PoolOf(next, data, msg_queue_head, msg_queue_tail, msg_queue_free, entry, slot, q, f)
PoolNew(q, f) ==
    PoolOf(next', data', msg_queue_head', msg_queue_tail', msg_queue_free', entry', slot', q, f)

(* A call holds a slot between its sections, and a message is in it while  *)
(* it is copied.                                                           *)
HandInv ==
    \A c \in Context : /\ slot[c] # NoSlot <=> pc[c] \in Hands
                       /\ pc[c] = "copy" => data[slot[c]] \in Message
PoolInv == HandInv /\ \E q, f : PoolNow(q, f)

LEMMA PoolTypes ==
    ASSUME NEW nx, NEW dt, NEW head, NEW tail, NEW free, NEW n, NEW sl, NEW q, NEW f,
           PoolOf(nx, dt, head, tail, free, n, sl, q, f)
    PROVE  /\ {head, tail, free} \subseteq Slot \cup {NoSlot}
           /\ n \in 0 .. Size /\ n = Len(q) /\ (n = 0 <=> q = <<>>)
           /\ Len(q) <= Size /\ Len(f) <= Size
           /\ sl \in [Context -> Slot \cup {NoSlot}]
           /\ q \in Seq(Slot) /\ f \in Seq(Slot)
  <1>1. q \in Seq(Slot) /\ f \in Seq(Slot) /\ n = Len(q) /\ sl \in [Context -> Slot \cup {NoSlot}]
    BY DEF PoolOf, Placed
  <1>2. (n = 0 <=> q = <<>>) /\ Len(q) \in Nat /\ Len(f) \in Nat
    BY <1>1
  <1>3. /\ head \in Slot \cup {NoSlot} /\ free \in Slot \cup {NoSlot}
    BY ChainFirst DEF PoolOf
  <1>4. tail \in Slot \cup {NoSlot}
    BY <1>1, <1>2 DEF PoolOf
  <1>5. Cardinality(Holders(sl)) \in Nat /\ Len(q) + Len(f) + Cardinality(Holders(sl)) = Size
    BY FS_CardinalityType DEF PoolOf, Placed
  <1>6. Len(q) <= Size /\ Len(f) <= Size
    BY <1>2, <1>5, SlotFacts
  <1> QED  BY <1>1, <1>2, <1>3, <1>4, <1>6, SlotFacts

(* The hands after a step of c.                                            *)
LEMMA HandStep ==
    ASSUME CallInv, HandInv, NEW q, NEW f, PoolNow(q, f), NEW c \in Context, NEW where, NEW s,
           NEW m, NEW time, At(c, where, s, m, time),
           s # NoSlot <=> where \in Hands, where = "copy" => data'[s] \in Message,
           \A d \in Context : d # c /\ pc[d] = "copy" => data'[slot[d]] = data[slot[d]]
    PROVE  HandInv'
  <1>1. pc \in [Context -> Pcs] /\ slot \in [Context -> Slot \cup {NoSlot}]
    BY PoolTypes DEF CallInv, CallTypeOK, PoolNow
  <1>2. pc' = [pc EXCEPT ![c] = where] /\ slot' = [slot EXCEPT ![c] = s]
    BY DEF At
  <1>3. /\ pc'[c] = where /\ slot'[c] = s
        /\ \A d \in Context : d # c => pc'[d] = pc[d] /\ slot'[d] = slot[d]
    BY <1>1, <1>2
  <1>4. ASSUME NEW d \in Context
        PROVE  /\ slot'[d] # NoSlot <=> pc'[d] \in Hands
               /\ pc'[d] = "copy" => data'[slot'[d]] \in Message
    <2>1. CASE d = c
      BY <1>3, <2>1
    <2>2. CASE d # c
      BY <1>3, <2>2 DEF HandInv
    <2> QED  BY <2>1, <2>2
  <1> QED  BY <1>4 DEF HandInv

LEMMA TakeSlotPool ==
    ASSUME CallInv, HandInv, NEW q, NEW f, PoolNow(q, f), NEW c \in Context, NEW m,
           NEW where \in {"send", "urgent"}, TakeSlot(c, m, where)
    PROVE  PoolNew(q, Tail(f)) /\ HandInv'
  <1>1. /\ pc[c] = "run" /\ msg_queue_free # NoSlot /\ msg_queue_free' = next[msg_queue_free]
        /\ At(c, where, msg_queue_free, m, "zero")
        /\ UNCHANGED <<next, data, msg_queue_head, msg_queue_tail, entry>>
    BY DEF TakeSlot
  <1>2. f # <<>> /\ msg_queue_free = Head(f) /\ IsChain(next, Tail(f), msg_queue_free')
    BY <1>1, ChainFirst, ChainTail DEF PoolNow, PoolOf
  <1>3. slot[c] = NoSlot
    BY <1>1 DEF HandInv, Hands
  <1>4. Placed(Tail(f), q, [slot EXCEPT ![c] = Head(f)])
    BY <1>2, <1>3, PlacedSwap, ToHand DEF PoolNow, PoolOf
  <1>5. Placed(q, Tail(f), slot')
    BY <1>1, <1>2, <1>4, PlacedSwap DEF At
  <1>6. HandInv'
    <2>1. msg_queue_free # NoSlot <=> where \in Hands
      BY <1>1 DEF Hands
    <2> QED  BY <1>1, <2>1, HandStep
  <1> QED  BY <1>1, <1>2, <1>5, <1>6 DEF PoolNow, PoolNew, PoolOf

(* A sender links its slot.                                                *)
LEMMA LinkFacts ==
    ASSUME CallInv, HandInv, NEW q, NEW f, PoolNow(q, f), NEW c \in Context,
           LinkLast(c) \/ LinkFirst(c)
    PROVE  /\ slot[c] \in Slot /\ ~InList(q, slot[c]) /\ ~InList(f, slot[c])
           /\ data' = [data EXCEPT ![slot[c]] = arg[c]] /\ arg[c] \in Message
           /\ data' \in [Slot -> Message \cup {NoMessage}]
           /\ slot' = [slot EXCEPT ![c] = NoSlot]
           /\ HandInv'
  <1>1. /\ pc[c] \in {"send", "urgent"} /\ data' = [data EXCEPT ![slot[c]] = arg[c]] /\ Return(c)
    BY DEF LinkLast, LinkFirst
  <1>2. slot[c] # NoSlot
    BY <1>1 DEF HandInv, Hands
  <1>3. /\ slot[c] \in Slot /\ ~InList(q, slot[c]) /\ ~InList(f, slot[c])
        /\ \A d \in Context : slot[d] = slot[c] => d = c
        /\ data \in [Slot -> Message \cup {NoMessage}]
        /\ slot \in [Context -> Slot \cup {NoSlot}]
    BY <1>2 DEF PoolNow, PoolOf, Placed
  <1>4. arg[c] \in Message
    BY <1>1 DEF CallInv, Senders
  <1>5. data' \in [Slot -> Message \cup {NoMessage}]
    BY <1>1, <1>3, <1>4
  <1>6. \A d \in Context : d # c /\ pc[d] = "copy" => data'[slot[d]] = data[slot[d]]
    <2> SUFFICES ASSUME NEW d \in Context, d # c, pc[d] = "copy"
                 PROVE  data'[slot[d]] = data[slot[d]]
      OBVIOUS
    <2>1. slot[d] # NoSlot
      BY DEF HandInv, Hands
    <2>2. slot[d] \in Slot /\ slot[d] # slot[c]
      BY <1>3, <2>1
    <2> QED  BY <1>1, <1>3, <2>2
  <1>7. HandInv'
    <2>1. NoSlot # NoSlot <=> "run" \in Hands
      BY DEF Hands
    <2> QED  BY <1>1, <1>6, <2>1, HandStep DEF Return
  <1> QED  BY <1>1, <1>3, <1>4, <1>5, <1>7 DEF Return, At

LEMMA LinkLastPool ==
    ASSUME CallInv, HandInv, NEW q, NEW f, PoolNow(q, f), NEW c \in Context, LinkLast(c)
    PROVE  /\ PoolNew(InsertLast(q, slot[c]), f) /\ HandInv'
           /\ \A s : InList(q, s) => data'[s] = data[s]
           /\ data'[slot[c]] = arg[c] /\ arg[c] \in Message /\ Len(q) < Size
  <1> DEFINE s == slot[c]
             r == InsertLast(q, s)
  <1>1. /\ s \in Slot /\ ~InList(q, s) /\ ~InList(f, s)
        /\ data' = [data EXCEPT ![s] = arg[c]] /\ arg[c] \in Message
        /\ data' \in [Slot -> Message \cup {NoMessage}]
        /\ slot' = [slot EXCEPT ![c] = NoSlot]
        /\ HandInv'
    BY LinkFacts
  <1>2. /\ next' = [p \in Slot |-> IF p = s THEN NoSlot
                                  ELSE IF p = msg_queue_tail THEN s ELSE next[p]]
        /\ msg_queue_tail' = s
        /\ msg_queue_head' = IF msg_queue_head = NoSlot THEN s ELSE msg_queue_head
        /\ entry' = entry + 1 /\ msg_queue_free' = msg_queue_free
    BY DEF LinkLast
  <1>3. /\ next \in [Slot -> Slot \cup {NoSlot}] /\ data \in [Slot -> Message \cup {NoMessage}]
        /\ IsChain(next, q, msg_queue_head) /\ IsChain(next, f, msg_queue_free)
        /\ Placed(q, f, slot) /\ q \in Seq(Slot) /\ NoRepeat(q)
        /\ \A x : ~(InList(q, x) /\ InList(f, x))
        /\ msg_queue_tail = IF q = <<>> THEN NoSlot ELSE q[Len(q)]
        /\ entry = Len(q) /\ \A x : InList(q, x) => data[x] \in Message
    BY DEF PoolNow, PoolOf, Placed
  <1>4. /\ Placed(r, f, slot') /\ Len(r) = Len(q) + 1 /\ Len(q) < Size
        /\ \A x : InList(r, x) <=> InList(q, x) \/ x = s
    <2>1. slot[c] # NoSlot
      BY <1>1, SlotFacts
    <2> QED  BY <1>1, <1>3, <2>1, FromHand
  <1>5. q # <<>> => q[Len(q)] \in Slot /\ InList(q, q[Len(q)])
    BY <1>3 DEF InList
  <1>6. \A x : InList(q, x) => data'[x] = data[x]
    BY <1>1, <1>3
  <1>7. data'[s] = arg[c]
    BY <1>1, <1>3
  <1> HIDE DEF s
  <1>8. /\ next' \in [Slot -> Slot \cup {NoSlot}] /\ next'[s] = NoSlot
        /\ q # <<>> => next'[q[Len(q)]] = s
        /\ \A x \in Slot : InList(q, x) /\ x # q[Len(q)] => next'[x] = next[x]
        /\ \A x \in Slot : InList(f, x) => next'[x] = next[x]
    <2>1. next' \in [Slot -> Slot \cup {NoSlot}]
      BY <1>1, <1>2, <1>3
    <2>2. \A x \in Slot : /\ x = s => next'[x] = NoSlot
                          /\ x # s /\ x = msg_queue_tail => next'[x] = s
                          /\ x # s /\ x # msg_queue_tail => next'[x] = next[x]
      BY <1>2
    <2>3. q = <<>> => \A x \in Slot : x # msg_queue_tail
      BY <1>3, SlotFacts
    <2>4. \A x \in Slot : InList(f, x) => x # s /\ x # msg_queue_tail
      BY <1>1, <1>3, <1>5, <2>3
    <2>5. \A x \in Slot : InList(q, x) /\ x # q[Len(q)] => x # s /\ x # msg_queue_tail
      BY <1>1, <1>3, <2>3
    <2>6. q # <<>> => q[Len(q)] # s /\ q[Len(q)] = msg_queue_tail
      BY <1>1, <1>3, <1>5
    <2> QED  BY <1>1, <1>5, <2>1, <2>2, <2>4, <2>5, <2>6
  <1>9. /\ IsChain(next', r, IF q = <<>> THEN s ELSE msg_queue_head)
        /\ r[Len(r)] = s
    BY <1>1, <1>3, <1>8, ChainInsertLast
  <1>10. msg_queue_head' = IF q = <<>> THEN s ELSE msg_queue_head
    BY <1>2, <1>3, ChainFirst
  <1>11. IsChain(next', f, msg_queue_free')
    BY <1>2, <1>3, <1>8, ChainFrame
  <1>12. r # <<>>
    BY <1>3, <1>4
  <1> HIDE DEF r
  <1>13. \A x : InList(r, x) => data'[x] \in Message
    BY <1>1, <1>3, <1>4, <1>6, <1>7
  <1>14. PoolNew(r, f)
    BY <1>1, <1>2, <1>3, <1>4, <1>8, <1>9, <1>10, <1>11, <1>12, <1>13 DEF PoolNew, PoolOf
  <1> QED  BY <1>1, <1>4, <1>6, <1>7, <1>14 DEF s, r

LEMMA LinkFirstPool ==
    ASSUME CallInv, HandInv, NEW q, NEW f, PoolNow(q, f), NEW c \in Context, LinkFirst(c)
    PROVE  /\ PoolNew(InsertFirst(q, slot[c]), f) /\ HandInv'
           /\ \A s : InList(q, s) => data'[s] = data[s]
           /\ data'[slot[c]] = arg[c] /\ arg[c] \in Message /\ Len(q) < Size
  <1> DEFINE s == slot[c]
             r == InsertFirst(q, s)
  <1>1. /\ s \in Slot /\ ~InList(q, s) /\ ~InList(f, s)
        /\ data' = [data EXCEPT ![s] = arg[c]] /\ arg[c] \in Message
        /\ data' \in [Slot -> Message \cup {NoMessage}]
        /\ slot' = [slot EXCEPT ![c] = NoSlot]
        /\ HandInv'
    BY LinkFacts
  <1>2. /\ next' = [next EXCEPT ![s] = msg_queue_head]
        /\ msg_queue_head' = s
        /\ msg_queue_tail' = IF msg_queue_tail = NoSlot THEN s ELSE msg_queue_tail
        /\ entry' = entry + 1 /\ msg_queue_free' = msg_queue_free
    BY DEF LinkFirst
  <1>3. /\ next \in [Slot -> Slot \cup {NoSlot}] /\ data \in [Slot -> Message \cup {NoMessage}]
        /\ IsChain(next, q, msg_queue_head) /\ IsChain(next, f, msg_queue_free)
        /\ Placed(q, f, slot) /\ q \in Seq(Slot) /\ NoRepeat(q)
        /\ msg_queue_tail = IF q = <<>> THEN NoSlot ELSE q[Len(q)]
        /\ entry = Len(q) /\ \A x : InList(q, x) => data[x] \in Message
    BY DEF PoolNow, PoolOf, Placed
  <1>4. /\ Placed(r, f, slot') /\ Len(r) = Len(q) + 1 /\ Len(q) < Size
        /\ \A x : InList(r, x) <=> InList(q, x) \/ x = s
    <2>1. slot[c] # NoSlot
      BY <1>1, SlotFacts
    <2> QED  BY <1>1, <1>3, <2>1, FromHand
  <1>5. \A x : InList(q, x) => data'[x] = data[x]
    BY <1>1, <1>3
  <1>6. data'[s] = arg[c]
    BY <1>1, <1>3
  <1>7. msg_queue_head \in Slot \cup {NoSlot}
    BY <1>3, ChainFirst
  <1>8. r # <<>> /\ r[Len(r)] = IF q = <<>> THEN s ELSE q[Len(q)]
    <2>1. /\ r \in Seq(Slot) /\ r[1] = s /\ \A i \in 1 .. Len(q) : r[i + 1] = q[i]
          /\ Len(q) \in Nat /\ (q = <<>> <=> Len(q) = 0)
      BY <1>1, <1>3 DEF InsertFirst
    <2> HIDE DEF r
    <2>2. CASE q = <<>>
      BY <1>4, <2>1, <2>2
    <2>3. CASE q # <<>>
      <3>1. Len(q) \in 1 .. Len(q)
        BY <2>1, <2>3
      <3>2. r[Len(q) + 1] = q[Len(q)]
        BY <2>1, <3>1
      <3> QED  BY <1>4, <2>1, <2>3, <3>2
    <2> QED  BY <2>2, <2>3
  <1>9. msg_queue_tail' = r[Len(r)]
    <2>1. q # <<>> => q[Len(q)] \in Slot
      BY <1>3
    <2>2. msg_queue_tail = NoSlot <=> q = <<>>
      BY <1>3, <2>1, SlotFacts
    <2> HIDE DEF r
    <2> QED  BY <1>2, <1>3, <1>8, <2>2
  <1> HIDE DEF s
  <1>10. /\ next' \in [Slot -> Slot \cup {NoSlot}] /\ next'[s] = msg_queue_head
         /\ \A x \in Slot : InList(q, x) \/ InList(f, x) => next'[x] = next[x]
    BY <1>1, <1>2, <1>3, <1>7
  <1>11. IsChain(next', q, msg_queue_head) /\ IsChain(next', f, msg_queue_free)
    BY <1>3, <1>10, ChainFrame
  <1>12. IsChain(next', r, msg_queue_head')
    BY <1>1, <1>2, <1>10, <1>11, ChainInsertFirst
  <1> HIDE DEF r
  <1>13. \A x : InList(r, x) => data'[x] \in Message
    BY <1>1, <1>3, <1>4, <1>5, <1>6
  <1>14. PoolNew(r, f)
    BY <1>1, <1>2, <1>3, <1>4, <1>8, <1>9, <1>10, <1>11, <1>12, <1>13 DEF PoolNew, PoolOf
  <1> QED  BY <1>1, <1>4, <1>5, <1>6, <1>14 DEF s, r

(* A receiver takes the first slot of the queue.                           *)
LEMMA TakeFirstPool ==
    ASSUME CallInv, HandInv, NEW q, NEW f, PoolNow(q, f), NEW c \in Context,
           pc[c] \notin Hands, entry # 0, TakeFirst(c)
    PROVE  /\ PoolNew(Tail(q), f) /\ HandInv' /\ q # <<>> /\ data' = data
           /\ slot[c] = NoSlot /\ slot' = [slot EXCEPT ![c] = Head(q)]
           /\ pc' = [pc EXCEPT ![c] = "copy"]
  <1> DEFINE s == msg_queue_head
             r == Tail(q)
  <1>1. /\ msg_queue_head' = next[s]
        /\ msg_queue_tail' = IF msg_queue_tail = s THEN NoSlot ELSE msg_queue_tail
        /\ entry' = entry - 1 /\ At(c, "copy", s, NoMessage, "zero")
        /\ UNCHANGED <<next, data, msg_queue_free>>
    BY DEF TakeFirst
  <1>2. /\ next \in [Slot -> Slot \cup {NoSlot}] /\ data \in [Slot -> Message \cup {NoMessage}]
        /\ IsChain(next, q, msg_queue_head) /\ IsChain(next, f, msg_queue_free)
        /\ Placed(q, f, slot) /\ q \in Seq(Slot) /\ NoRepeat(q)
        /\ msg_queue_tail = IF q = <<>> THEN NoSlot ELSE q[Len(q)]
        /\ entry = Len(q) /\ \A x : InList(q, x) => data[x] \in Message
    BY DEF PoolNow, PoolOf, Placed
  <1>3. q # <<>>
    BY <1>2
  <1>4. /\ s = Head(q) /\ s \in Slot /\ InList(q, s) /\ IsChain(next, r, msg_queue_head')
    BY <1>1, <1>2, <1>3, ChainFirst, ChainTail
  <1>5. slot[c] = NoSlot
    BY DEF HandInv
  <1>6. slot' = [slot EXCEPT ![c] = Head(q)] /\ pc' = [pc EXCEPT ![c] = "copy"]
    BY <1>1, <1>4 DEF At
  <1>7. Placed(r, f, slot')
    BY <1>2, <1>3, <1>5, <1>6, ToHand
  <1>8. /\ r \in Seq(Slot) /\ Len(r) = Len(q) - 1 /\ Len(q) \in Nat /\ Len(q) >= 1
        /\ \A i \in 1 .. Len(r) : r[i] = q[i + 1]
        /\ (r = <<>> <=> Len(r) = 0) /\ s = q[1]
    <2>1. /\ r \in Seq(Slot) /\ Len(r) = Len(q) - 1 /\ Len(q) \in Nat /\ Len(q) >= 1
          /\ \A i \in 1 .. Len(r) : r[i] = q[i + 1]
      BY <1>2, <1>3
    <2>2. s = q[1]
      BY <1>2, <1>3, <1>4
    <2> HIDE DEF r
    <2> QED  BY <2>1, <2>2
  <1>9. \A x : InList(r, x) => InList(q, x)
    BY <1>2, <1>3, TailFacts
  <1> HIDE DEF r
  <1>10. msg_queue_tail' = IF r = <<>> THEN NoSlot ELSE r[Len(r)]
    <2>1. CASE r = <<>>
      <3>1. Len(q) = 1
        BY <1>8, <2>1
      <3> QED  BY <1>1, <1>2, <1>3, <1>8, <2>1, <3>1
    <2>2. CASE r # <<>>
      <3>1. Len(r) \in 1 .. Len(r) /\ Len(r) + 1 = Len(q) /\ Len(q) # 1 /\ Len(q) \in 1 .. Len(q)
            /\ 1 \in 1 .. Len(q)
        BY <1>8, <2>2
      <3>2. r[Len(r)] = q[Len(q)]
        BY <1>8, <3>1
      <3>3. q[Len(q)] # s
        BY <1>2, <1>8, <3>1 DEF NoRepeat
      <3> QED  BY <1>1, <1>2, <1>3, <2>2, <3>2, <3>3
    <2> QED  BY <2>1, <2>2
  <1>11. HandInv'
    <2>1. s # NoSlot <=> "copy" \in Hands
      BY <1>4, SlotFacts DEF Hands
    <2>2. data'[s] \in Message
      BY <1>1, <1>2, <1>4
    <2> QED  BY <1>1, <2>1, <2>2, HandStep
  <1>12. PoolNew(r, f)
    BY <1>1, <1>2, <1>4, <1>7, <1>8, <1>9, <1>10 DEF PoolNew, PoolOf
  <1> QED  BY <1>1, <1>3, <1>5, <1>6, <1>11, <1>12 DEF r

(* A receiver gives its slot back.                                         *)
LEMMA FreeSlotPool ==
    ASSUME CallInv, HandInv, NEW q, NEW f, PoolNow(q, f), NEW c \in Context, FreeSlot(c)
    PROVE  /\ PoolNew(q, InsertFirst(f, slot[c])) /\ HandInv' /\ data[slot[c]] \in Message
           /\ pc' = [pc EXCEPT ![c] = "run"]
           /\ \A d \in Context : d # c /\ pc[d] = "copy" => data'[slot'[d]] = data[slot[d]]
           /\ \A s : InList(q, s) => data'[s] = data[s]
  <1> DEFINE s == slot[c]
             r == InsertFirst(f, s)
  <1>1. /\ pc[c] = "copy" /\ next' = [next EXCEPT ![s] = msg_queue_free] /\ msg_queue_free' = s
        /\ data' = [data EXCEPT ![s] = NoMessage] /\ Return(c)
        /\ UNCHANGED <<msg_queue_head, msg_queue_tail, entry>>
    BY DEF FreeSlot
  <1>2. s # NoSlot /\ data[s] \in Message
    BY <1>1 DEF HandInv, Hands
  <1>3. /\ next \in [Slot -> Slot \cup {NoSlot}] /\ data \in [Slot -> Message \cup {NoMessage}]
        /\ IsChain(next, q, msg_queue_head) /\ IsChain(next, f, msg_queue_free)
        /\ Placed(q, f, slot) /\ slot \in [Context -> Slot \cup {NoSlot}]
        /\ msg_queue_tail = IF q = <<>> THEN NoSlot ELSE q[Len(q)]
        /\ entry = Len(q) /\ \A x : InList(q, x) => data[x] \in Message
    BY DEF PoolNow, PoolOf, Placed
  <1>4. /\ s \in Slot /\ ~InList(q, s) /\ ~InList(f, s)
        /\ \A d \in Context : slot[d] = s => d = c
    BY <1>2, <1>3 DEF Placed
  <1>5. slot' = [slot EXCEPT ![c] = NoSlot] /\ pc' = [pc EXCEPT ![c] = "run"]
    BY <1>1 DEF Return, At
  <1>6. Placed(q, r, slot')
    <2>1. Placed(f, q, slot)
      BY <1>3, PlacedSwap
    <2>2. Placed(r, q, slot')
      BY <1>2, <1>5, <2>1, FromHand
    <2> QED  BY <2>2, PlacedSwap
  <1>7. msg_queue_free \in Slot \cup {NoSlot}
    BY <1>3, ChainFirst
  <1>8. \A d \in Context : d # c /\ pc[d] = "copy" =>
          data'[slot[d]] = data[slot[d]] /\ slot'[d] = slot[d]
    <2> SUFFICES ASSUME NEW d \in Context, d # c, pc[d] = "copy"
                 PROVE  data'[slot[d]] = data[slot[d]] /\ slot'[d] = slot[d]
      OBVIOUS
    <2>1. slot[d] # NoSlot
      BY DEF HandInv, Hands
    <2>2. slot[d] \in Slot /\ slot[d] # s
      BY <1>3, <1>4, <2>1
    <2> QED  BY <1>1, <1>3, <1>5, <2>2
  <1>9. HandInv'
    <2>1. NoSlot # NoSlot <=> "run" \in Hands
      BY DEF Hands
    <2> QED  BY <1>1, <1>8, <2>1, HandStep DEF Return
  <1>10. data' \in [Slot -> Message \cup {NoMessage}] /\ \A x : InList(q, x) => data'[x] = data[x]
    BY <1>1, <1>3, <1>4
  <1> HIDE DEF s
  <1>11. /\ next' \in [Slot -> Slot \cup {NoSlot}] /\ next'[s] = msg_queue_free
         /\ \A x \in Slot : InList(q, x) \/ InList(f, x) => next'[x] = next[x]
    BY <1>1, <1>3, <1>4, <1>7
  <1>12. IsChain(next', q, msg_queue_head) /\ IsChain(next', f, msg_queue_free)
    BY <1>3, <1>11, ChainFrame
  <1>13. IsChain(next', r, msg_queue_free')
    BY <1>1, <1>4, <1>11, <1>12, ChainInsertFirst
  <1> HIDE DEF r
  <1>14. PoolNew(q, r)
    BY <1>1, <1>3, <1>6, <1>10, <1>11, <1>12, <1>13 DEF PoolNew, PoolOf
  <1> QED  BY <1>2, <1>5, <1>8, <1>9, <1>10, <1>14 DEF s, r

(* Steps that leave the slots where they are.                              *)
LEMMA SamePool ==
    ASSUME HandInv, NEW q, NEW f, PoolNow(q, f), UNCHANGED pool, slot' = slot,
           \A c \in Context : pc'[c] # pc[c] => pc'[c] \notin Hands /\ pc[c] \notin Hands
    PROVE  PoolNew(q, f) /\ HandInv' /\ InHand' = InHand
  <1>1. UNCHANGED <<next, data, msg_queue_head, msg_queue_tail, msg_queue_free, entry>>
    BY DEF pool
  <1>2. PoolNew(q, f)
    BY <1>1 DEF PoolNow, PoolNew
  <1>3. \A c \in Context : pc'[c] = "copy" <=> pc[c] = "copy"
    BY DEF Hands
  <1>4. \A c \in Context : pc'[c] \in Hands <=> pc[c] \in Hands
    OBVIOUS
  <1>5. HandInv'
    BY <1>1, <1>3, <1>4 DEF HandInv
  <1>6. InHand' = InHand
    BY <1>1, <1>3 DEF InHand
  <1> QED  BY <1>2, <1>5, <1>6

LEMMA ReturnPool ==
    ASSUME CallInv, HandInv, NEW q, NEW f, PoolNow(q, f), NEW c \in Context, pc[c] \notin Hands,
           NEW where, where \notin Hands, NEW m, NEW time, At(c, where, NoSlot, m, time),
           UNCHANGED pool
    PROVE  PoolNew(q, f) /\ HandInv' /\ InHand' = InHand
  <1>1. slot[c] = NoSlot /\ slot \in [Context -> Slot \cup {NoSlot}] /\ pc \in [Context -> Pcs]
    BY DEF HandInv, PoolNow, PoolOf, Placed, CallInv, CallTypeOK
  <1>2. slot' = [slot EXCEPT ![c] = NoSlot] /\ pc' = [pc EXCEPT ![c] = where]
    BY DEF At
  <1>3. slot' = slot
    BY <1>1, <1>2
  <1>4. \A d \in Context : pc'[d] # pc[d] => pc'[d] \notin Hands /\ pc[d] \notin Hands
    BY <1>1, <1>2
  <1> QED  BY <1>3, <1>4, SamePool

(* rt_mq_control: every slot of the queue goes to the free list.           *)
LEMMA ControlPool ==
    ASSUME CallInv, HandInv, NEW q, NEW f, PoolNow(q, f), rt_mq_control
    PROVE  PoolNew(<<>>, Moved(q, f)) /\ HandInv' /\ InHand' = InHand
  <1> DEFINE n == Len(q)
  <1>1. /\ next \in [Slot -> Slot \cup {NoSlot}] /\ data \in [Slot -> Message \cup {NoMessage}]
        /\ IsChain(next, q, msg_queue_head) /\ IsChain(next, f, msg_queue_free)
        /\ Placed(q, f, slot) /\ q \in Seq(Slot) /\ f \in Seq(Slot) /\ NoRepeat(q) /\ NoRepeat(f)
        /\ \A s : ~(InList(q, s) /\ InList(f, s))
        /\ slot \in [Context -> Slot \cup {NoSlot}]
        /\ \A c \in Context : slot[c] # NoSlot => ~InList(q, slot[c])
        /\ msg_queue_tail = IF q = <<>> THEN NoSlot ELSE q[Len(q)]
        /\ entry = Len(q) /\ \A x : InList(q, x) => data[x] \in Message
    BY DEF PoolNow, PoolOf, Placed
  <1>2. Len(q) <= Size
    BY PoolTypes DEF PoolNow
  <1>3. Chain(msg_queue_head) = q
    BY <1>1, <1>2, ChainIs
  <1>4. /\ next' = [s \in Slot |->
                      IF InList(q, s)
                      THEN LET i == CHOOSE i \in 1 .. n : q[i] = s
                           IN  IF i = 1 THEN msg_queue_free ELSE q[i - 1]
                      ELSE next[s]]
        /\ msg_queue_free' = IF n = 0 THEN msg_queue_free ELSE q[n]
        /\ msg_queue_tail' = IF InList(q, msg_queue_tail) THEN NoSlot ELSE msg_queue_tail
        /\ msg_queue_head' = NoSlot
        /\ entry' = 0
        /\ data' = [s \in Slot |-> IF InList(q, s) THEN NoMessage ELSE data[s]]
        /\ UNCHANGED <<pc, slot, arg, left>>
    BY <1>3 DEF rt_mq_control, local
  <1>5. n \in Nat /\ (q = <<>> <=> n = 0) /\ \A i \in 1 .. n : q[i] \in Slot /\ InList(q, q[i])
    BY <1>1 DEF InList
  <1> DEFINE place(s) == CHOOSE i \in 1 .. n : q[i] = s
  <1>6. \A i \in 1 .. n : place(q[i]) = i
    <2> SUFFICES ASSUME NEW i \in 1 .. n  PROVE place(q[i]) = i
      OBVIOUS
    <2>1. \A j \in 1 .. n : q[j] = q[i] => j = i
      BY <1>1 DEF NoRepeat
    <2> QED  BY <2>1
  <1>7. /\ \A i \in 1 .. n : next'[q[i]] = IF i = 1 THEN msg_queue_free ELSE q[i - 1]
        /\ \A s \in Slot : ~InList(q, s) => next'[s] = next[s]
    <2>1. \A s \in Slot : InList(q, s) =>
            next'[s] = IF place(s) = 1 THEN msg_queue_free ELSE q[place(s) - 1]
      BY <1>4
    <2> HIDE DEF place
    <2>2. \A i \in 1 .. n : next'[q[i]] = IF i = 1 THEN msg_queue_free ELSE q[i - 1]
      BY <1>5, <1>6, <2>1
    <2>3. \A s \in Slot : ~InList(q, s) => next'[s] = next[s]
      BY <1>4
    <2> QED  BY <2>2, <2>3
  <1>8. next' \in [Slot -> Slot \cup {NoSlot}]
    <2>1. msg_queue_free \in Slot \cup {NoSlot}
      BY <1>1, ChainFirst
    <2>2. ASSUME NEW s \in Slot  PROVE next'[s] \in Slot \cup {NoSlot}
      <3>1. CASE ~InList(q, s)
        BY <1>1, <1>7, <3>1
      <3>2. CASE InList(q, s)
        <4>1. PICK i \in 1 .. n : q[i] = s
          BY <3>2 DEF InList
        <4>2. i # 1 => i - 1 \in 1 .. n
          BY <1>5
        <4> QED  BY <1>5, <1>7, <2>1, <4>1, <4>2
      <3> QED  BY <3>1, <3>2
    <2>3. next' = [s \in Slot |-> next'[s]]
      BY <1>4
    <2> QED  BY <2>2, <2>3
  <1>9. IsChain(next', Moved(q, f), IF q = <<>> THEN msg_queue_free ELSE q[Len(q)])
    BY <1>1, <1>7, ChainMoved
  <1>10. msg_queue_free' = IF q = <<>> THEN msg_queue_free ELSE q[Len(q)]
    BY <1>4, <1>5
  <1>11. msg_queue_tail' = NoSlot
    <2>1. q # <<>> => n \in 1 .. n
      BY <1>5
    <2> QED  BY <1>1, <1>4, <1>5, <2>1
  <1>12. Placed(<<>>, Moved(q, f), slot')
    BY <1>1, <1>4, AllMoved
  <1>13. /\ data' \in [Slot -> Message \cup {NoMessage}]
         /\ \A c \in Context : pc[c] = "copy" => data'[slot[c]] = data[slot[c]]
    <2>1. \A c \in Context : pc[c] = "copy" => slot[c] # NoSlot
      BY DEF HandInv, Hands
    <2> QED  BY <1>1, <1>4, <2>1
  <1>14. IsChain(next', <<>>, NoSlot) /\ \A s : ~InList(<<>>, s)
    <2>1. <<>> \in Seq(Slot) /\ Len(<<>>) = 0
      OBVIOUS
    <2> QED  BY <2>1 DEF IsChain, InList
  <1>15. PoolNew(<<>>, Moved(q, f))
    <2>1. Len(<<>>) = 0
      OBVIOUS
    <2> QED  BY <1>4, <1>8, <1>9, <1>10, <1>11, <1>12, <1>13, <1>14, <2>1 DEF PoolNew, PoolOf
  <1>16. HandInv' /\ InHand' = InHand
    BY <1>4, <1>13 DEF HandInv, InHand
  <1> QED  BY <1>15, <1>16

(* rt_mq_init: nobody holds a slot, and all are free.                      *)
LEMMA NewPoolIs ==
    ASSUME CallInv, HandInv, NEW q, NEW f, PoolNow(q, f), rt_mq_init
    PROVE  PoolNew(<<>>, NewFree) /\ HandInv' /\ InHand' = InHand
  <1>1. /\ ~alive /\ NewPool /\ UNCHANGED <<pc, slot, arg, left>>
    BY DEF rt_mq_init, local
  <1>2. \A c \in Context : pc[c] \notin Hands
    BY <1>1 DEF CallInv, MqDeleteInv, MqGoing
  <1>3. \A c \in Context : slot[c] = NoSlot
    BY <1>2 DEF HandInv
  <1>4. slot' \in [Context -> Slot \cup {NoSlot}] /\ \A c \in Context : slot'[c] = NoSlot
    BY <1>1, <1>3 DEF PoolNow, PoolOf, Placed
  <1>5. Placed(<<>>, NewFree, slot')
    BY <1>4, AllFree
  <1>6. /\ next' = NewLinks /\ data' = [s \in Slot |-> NoMessage]
        /\ msg_queue_head' = NoSlot /\ msg_queue_tail' = NoSlot /\ msg_queue_free' = Size - 1
        /\ entry' = 0
    BY <1>1 DEF NewPool, NewLinks
  <1>7. NewLinks \in [Slot -> Slot \cup {NoSlot}]
    <2>1. \A s \in Slot : s # 0 => s - 1 \in Slot
      BY SlotFacts DEF Slot
    <2> QED  BY <2>1 DEF NewLinks
  <1>8. (\A s : ~InList(<<>>, s)) /\ Len(<<>>) = 0
    BY DEF InList
  <1>9. PoolNew(<<>>, NewFree)
    BY <1>5, <1>6, <1>7, <1>8, ChainNew DEF PoolNew, PoolOf
  <1>10. \A c \in Context : pc[c] # "copy"
    BY <1>2 DEF Hands
  <1>11. HandInv' /\ InHand' = InHand
    BY <1>1, <1>2, <1>4, <1>10 DEF HandInv, InHand
  <1> QED  BY <1>9, <1>11

LEMMA InitPool == Init => HandInv /\ PoolNow(<<>>, NewFree)
  <1> SUFFICES ASSUME Init  PROVE HandInv /\ PoolNow(<<>>, NewFree)
    OBVIOUS
  <1>1. /\ next = NewLinks /\ data = [s \in Slot |-> NoMessage]
        /\ msg_queue_head = NoSlot /\ msg_queue_tail = NoSlot /\ msg_queue_free = Size - 1
        /\ entry = 0 /\ slot = [c \in Context |-> NoSlot] /\ pc = [c \in Context |-> "run"]
    BY DEF Init, MqInit, NewLinks
  <1>2. HandInv
    BY <1>1 DEF HandInv, Hands
  <1>3. Placed(<<>>, NewFree, slot)
    BY <1>1, AllFree
  <1>4. NewLinks \in [Slot -> Slot \cup {NoSlot}]
    <2>1. \A s \in Slot : s # 0 => s - 1 \in Slot
      BY SlotFacts DEF Slot
    <2> QED  BY <2>1 DEF NewLinks
  <1>5. (\A s : ~InList(<<>>, s)) /\ Len(<<>>) = 0
    BY DEF InList
  <1>6. PoolNow(<<>>, NewFree)
    BY <1>1, <1>3, <1>4, <1>5, ChainNew DEF PoolNow, PoolOf
  <1> QED  BY <1>2, <1>6

-----------------------------------------------------------------------------
(* What a step does to the messages.                                       *)
Msgs(d, q) == [i \in 1 .. Len(q) |-> d[q[i]]]

LEMMA MsgsAre ==
    ASSUME NEW d, NEW q \in Seq(Slot)
    PROVE  /\ Len(Msgs(d, q)) = Len(q) /\ (Msgs(d, q) = <<>> <=> q = <<>>)
           /\ Msgs(d, q) \in Seq({d[s] : s \in Slot})
  <1>1. \A i \in 1 .. Len(q) : d[q[i]] \in {d[s] : s \in Slot}
    OBVIOUS
  <1>2. Len(q) \in Nat /\ (q = <<>> <=> Len(q) = 0)
    OBVIOUS
  <1>3. Msgs(d, q) \in Seq({d[s] : s \in Slot}) /\ Len(Msgs(d, q)) = Len(q)
    BY <1>1, <1>2 DEF Msgs
  <1> HIDE DEF Msgs
  <1> QED  BY <1>2, <1>3

LEMMA MsgsSame ==
    ASSUME NEW d, NEW e, NEW q \in Seq(Slot), \A s : InList(q, s) => e[s] = d[s]
    PROVE  Msgs(e, q) = Msgs(d, q)
  <1>1. \A i \in 1 .. Len(q) : e[q[i]] = d[q[i]]
    BY DEF InList
  <1> QED  BY <1>1 DEF Msgs

LEMMA MsgsLast ==
    ASSUME NEW d, NEW q \in Seq(Slot), NEW s \in Slot
    PROVE  Msgs(d, InsertLast(q, s)) = Append(Msgs(d, q), d[s])
  <1> DEFINE r == InsertLast(q, s)
             a == Msgs(d, q)
             b == Msgs(d, r)
             n == Len(q)
  <1>1. /\ r \in Seq(Slot) /\ Len(r) = n + 1 /\ n \in Nat /\ r[n + 1] = s
        /\ \A i \in 1 .. n : r[i] = q[i]
    BY DEF InsertLast
  <1> HIDE DEF r
  <1>2. /\ a \in Seq({d[x] : x \in Slot}) /\ Len(a) = n /\ Len(b) = n + 1
        /\ b \in Seq({d[x] : x \in Slot})
    BY <1>1, MsgsAre
  <1>3. (\A i \in 1 .. n : a[i] = d[q[i]]) /\ \A i \in 1 .. n + 1 : b[i] = d[r[i]]
    BY <1>1 DEF Msgs
  <1> HIDE DEF a, b, n
  <1>4. \A i \in 1 .. n : b[i] = a[i]
    BY <1>1, <1>3
  <1>5. b[n + 1] = d[s]
    BY <1>1, <1>3
  <1>6. Append(a, d[s]) \in Seq({d[x] : x \in Slot}) /\ Len(Append(a, d[s])) = n + 1
        /\ Append(a, d[s])[n + 1] = d[s] /\ \A i \in 1 .. n : Append(a, d[s])[i] = a[i]
    BY <1>1, <1>2
  <1> DEFINE e == Append(a, d[s])
  <1> HIDE DEF e
  <1>7. \A i \in 1 .. n + 1 : b[i] = e[i]
    BY <1>1, <1>4, <1>5, <1>6 DEF e
  <1>8. b = e
    BY <1>1, <1>2, <1>6, <1>7 DEF e
  <1> QED  BY <1>8 DEF a, b, r, e

LEMMA MsgsFirst ==
    ASSUME NEW d, NEW q \in Seq(Slot), NEW s \in Slot
    PROVE  Msgs(d, InsertFirst(q, s)) = <<d[s]>> \o Msgs(d, q)
  <1> DEFINE r == InsertFirst(q, s)
             a == Msgs(d, q)
             b == Msgs(d, r)
             n == Len(q)
  <1>1. /\ r \in Seq(Slot) /\ Len(r) = n + 1 /\ n \in Nat /\ r[1] = s
        /\ \A i \in 1 .. n : r[i + 1] = q[i]
    BY DEF InsertFirst
  <1> HIDE DEF r
  <1>2. /\ a \in Seq({d[x] : x \in Slot}) /\ Len(a) = n /\ Len(b) = n + 1
        /\ b \in Seq({d[x] : x \in Slot})
    BY <1>1, MsgsAre
  <1>3. (\A i \in 1 .. n : a[i] = d[q[i]]) /\ \A i \in 1 .. n + 1 : b[i] = d[r[i]]
    BY <1>1 DEF Msgs
  <1> HIDE DEF a, b, n
  <1>4. \A i \in 1 .. n : b[i + 1] = a[i]
    BY <1>1, <1>3
  <1>5. b[1] = d[s]
    BY <1>1, <1>3
  <1> DEFINE e == <<d[s]>> \o a
  <1>6. e \in Seq({d[x] : x \in Slot}) /\ Len(e) = n + 1
        /\ e[1] = d[s] /\ \A i \in 1 .. n : e[i + 1] = a[i]
    BY <1>1, <1>2
  <1> HIDE DEF e
  <1>7. \A i \in 1 .. n + 1 : b[i] = e[i]
    <2> SUFFICES ASSUME NEW i \in 1 .. n + 1  PROVE b[i] = e[i]
      OBVIOUS
    <2>1. i = 1 \/ (i - 1 \in 1 .. n /\ (i - 1) + 1 = i)
      BY <1>1
    <2> QED  BY <1>4, <1>5, <1>6, <2>1
  <1>8. b = e
    BY <1>1, <1>2, <1>6, <1>7
  <1> QED  BY <1>8 DEF a, b, r, e

LEMMA MsgsTail ==
    ASSUME NEW d, NEW q \in Seq(Slot), q # <<>>
    PROVE  Msgs(d, Tail(q)) = Tail(Msgs(d, q)) /\ Head(Msgs(d, q)) = d[Head(q)]
  <1> DEFINE r == Tail(q)
             a == Msgs(d, q)
             b == Msgs(d, r)
             n == Len(q)
  <1>1. /\ r \in Seq(Slot) /\ Len(r) = n - 1 /\ n \in Nat /\ n >= 1 /\ Head(q) = q[1]
        /\ \A i \in 1 .. n - 1 : r[i] = q[i + 1]
    OBVIOUS
  <1> HIDE DEF r
  <1>2. /\ a \in Seq({d[x] : x \in Slot}) /\ Len(a) = n /\ Len(b) = n - 1 /\ a # <<>>
        /\ b \in Seq({d[x] : x \in Slot})
    BY <1>1, MsgsAre
  <1>3. (\A i \in 1 .. n : a[i] = d[q[i]]) /\ \A i \in 1 .. n - 1 : b[i] = d[r[i]]
    BY <1>1 DEF Msgs
  <1> HIDE DEF a, b, n
  <1>4. \A i \in 1 .. n - 1 : b[i] = a[i + 1]
    BY <1>1, <1>3
  <1> DEFINE e == Tail(a)
  <1>5. /\ e \in Seq({d[x] : x \in Slot}) /\ Len(e) = n - 1 /\ Head(a) = a[1]
        /\ \A i \in 1 .. n - 1 : e[i] = a[i + 1]
    BY <1>1, <1>2
  <1> HIDE DEF e
  <1>6. \A i \in 1 .. n - 1 : b[i] = e[i]
    BY <1>4, <1>5
  <1>7. b = e
    BY <1>1, <1>2, <1>5, <1>6
  <1>8. Head(a) = d[Head(q)]
    BY <1>1, <1>3, <1>5
  <1> QED  BY <1>7, <1>8 DEF a, b, r, e

(* What the abstract queue does, when q are the slots of the queue before  *)
(* the step and r those after it.                                          *)
QueueStep(q, r) ==
    LET a == Msgs(data, q)
        b == Msgs(data', r) IN
    \/ \E m \in Message : Len(a) < Size /\ (b = Append(a, m) \/ b = <<m>> \o a) /\ InHand' = InHand
    \/ \E c \in Context : /\ a # <<>> /\ InHand[c] = NoMessage
                          /\ InHand' = [InHand EXCEPT ![c] = Head(a)] /\ b = Tail(a)
    \/ \E c \in Context : /\ InHand[c] # NoMessage
                          /\ InHand' = [InHand EXCEPT ![c] = NoMessage] /\ b = a
    \/ (b = a \/ b = <<>>) /\ InHand' = InHand

PoolStep(q) == HandInv' /\ \E r, g : PoolNew(r, g) /\ QueueStep(q, r)

LEMMA PoolLists ==
    ASSUME NEW q, NEW f, PoolNow(q, f)
    PROVE  q \in Seq(Slot) /\ f \in Seq(Slot) /\ slot \in [Context -> Slot \cup {NoSlot}]
  BY DEF PoolNow, PoolOf, Placed

LEMMA SameStep ==
    ASSUME NEW q, NEW f, PoolNew(q, f), HandInv', InHand' = InHand, data' = data
    PROVE  PoolStep(q)
  BY DEF PoolStep, QueueStep

LEMMA LinkStep ==
    ASSUME CallInv, HandInv, NEW q, NEW f, PoolNow(q, f), NEW c \in Context,
           LinkLast(c) \/ LinkFirst(c)
    PROVE  PoolStep(q)
  <1>0. q \in Seq(Slot) /\ slot \in [Context -> Slot \cup {NoSlot}] /\ pc \in [Context -> Pcs]
    BY PoolLists DEF CallInv, CallTypeOK
  <1>1. /\ slot[c] \in Slot /\ slot' = [slot EXCEPT ![c] = NoSlot]
        /\ data' = [data EXCEPT ![slot[c]] = arg[c]]
    BY LinkFacts
  <1>2. pc[c] \in {"send", "urgent"} /\ pc' = [pc EXCEPT ![c] = "run"]
    BY DEF LinkLast, LinkFirst, Return, At
  <1>3. InHand' = InHand
    <2>1. ASSUME NEW d \in Context
          PROVE  /\ pc'[d] = "copy" <=> pc[d] = "copy"
                 /\ pc[d] = "copy" => data'[slot'[d]] = data[slot[d]]
      <3>1. pc'[d] = "copy" <=> pc[d] = "copy"
        BY <1>0, <1>2
      <3>2. ASSUME pc[d] = "copy"  PROVE data'[slot'[d]] = data[slot[d]]
        <4>1. d # c /\ slot[d] # NoSlot
          BY <1>2, <3>2 DEF HandInv, Hands
        <4>2. slot'[d] = slot[d] /\ slot[d] # slot[c] /\ slot[d] \in Slot
          BY <1>0, <1>1, <4>1 DEF PoolNow, PoolOf, Placed
        <4>3. data \in [Slot -> Message \cup {NoMessage}]
          BY DEF PoolNow, PoolOf
        <4> QED  BY <1>1, <4>2, <4>3
      <3> QED  BY <3>1, <3>2
    <2> QED  BY <2>1 DEF InHand
  <1>4. Len(Msgs(data, q)) = Len(q)
    BY <1>0, MsgsAre
  <1>5. CASE LinkLast(c)
    <2>1. /\ PoolNew(InsertLast(q, slot[c]), f) /\ HandInv'
          /\ \A s : InList(q, s) => data'[s] = data[s]
          /\ data'[slot[c]] = arg[c] /\ arg[c] \in Message /\ Len(q) < Size
      BY <1>5, LinkLastPool
    <2>2. Msgs(data', InsertLast(q, slot[c])) = Append(Msgs(data', q), data'[slot[c]])
      BY <1>0, <1>1, MsgsLast
    <2>3. Msgs(data', q) = Msgs(data, q)
      BY <1>0, <2>1, MsgsSame
    <2>4. QueueStep(q, InsertLast(q, slot[c]))
      BY <1>3, <1>4, <2>1, <2>2, <2>3 DEF QueueStep
    <2> QED  BY <2>1, <2>4 DEF PoolStep
  <1>6. CASE LinkFirst(c)
    <2>1. /\ PoolNew(InsertFirst(q, slot[c]), f) /\ HandInv'
          /\ \A s : InList(q, s) => data'[s] = data[s]
          /\ data'[slot[c]] = arg[c] /\ arg[c] \in Message /\ Len(q) < Size
      BY <1>6, LinkFirstPool
    <2>2. Msgs(data', InsertFirst(q, slot[c])) = <<data'[slot[c]]>> \o Msgs(data', q)
      BY <1>0, <1>1, MsgsFirst
    <2>3. Msgs(data', q) = Msgs(data, q)
      BY <1>0, <2>1, MsgsSame
    <2>4. QueueStep(q, InsertFirst(q, slot[c]))
      BY <1>3, <1>4, <2>1, <2>2, <2>3 DEF QueueStep
    <2> QED  BY <2>1, <2>4 DEF PoolStep
  <1> QED  BY <1>5, <1>6

LEMMA TakeFirstStep ==
    ASSUME CallInv, HandInv, NEW q, NEW f, PoolNow(q, f), NEW c \in Context,
           pc[c] \notin Hands, entry # 0, TakeFirst(c)
    PROVE  PoolStep(q)
  <1>0. q \in Seq(Slot) /\ slot \in [Context -> Slot \cup {NoSlot}] /\ pc \in [Context -> Pcs]
    BY PoolLists DEF CallInv, CallTypeOK
  <1>1. /\ PoolNew(Tail(q), f) /\ HandInv' /\ q # <<>> /\ data' = data
        /\ slot[c] = NoSlot /\ slot' = [slot EXCEPT ![c] = Head(q)]
        /\ pc' = [pc EXCEPT ![c] = "copy"]
    BY TakeFirstPool
  <1>2. /\ Msgs(data, Tail(q)) = Tail(Msgs(data, q)) /\ Head(Msgs(data, q)) = data[Head(q)]
        /\ Msgs(data, q) # <<>>
    BY <1>0, <1>1, MsgsTail, MsgsAre
  <1>3. pc[c] # "copy"
    BY DEF Hands
  <1>4. InHand[c] = NoMessage
    BY <1>3 DEF InHand
  <1> DEFINE m == data[Head(q)]
  <1>5. InHand' = [InHand EXCEPT ![c] = m]
    <2>1. /\ pc'[c] = "copy" /\ slot'[c] = Head(q)
          /\ \A d \in Context : d # c => pc'[d] = pc[d] /\ slot'[d] = slot[d]
      BY <1>0, <1>1
    <2>2. \A d \in Context : InHand'[d] = IF d = c THEN m ELSE InHand[d]
      BY <1>1, <2>1 DEF InHand
    <2>3. /\ InHand' = [d \in Context |-> InHand'[d]]
          /\ [InHand EXCEPT ![c] = m] = [d \in Context |-> IF d = c THEN m ELSE InHand[d]]
      BY DEF InHand
    <2> HIDE DEF m
    <2> QED  BY <2>2, <2>3
  <1>6. QueueStep(q, Tail(q))
    BY <1>1, <1>2, <1>4, <1>5 DEF QueueStep
  <1> QED  BY <1>1, <1>6 DEF PoolStep

LEMMA FreeSlotStep ==
    ASSUME CallInv, HandInv, NEW q, NEW f, PoolNow(q, f), NEW c \in Context, FreeSlot(c)
    PROVE  PoolStep(q)
  <1>0. q \in Seq(Slot) /\ slot \in [Context -> Slot \cup {NoSlot}] /\ pc \in [Context -> Pcs]
    BY PoolLists DEF CallInv, CallTypeOK
  <1>1. /\ PoolNew(q, InsertFirst(f, slot[c])) /\ HandInv' /\ data[slot[c]] \in Message
        /\ pc' = [pc EXCEPT ![c] = "run"]
        /\ \A d \in Context : d # c /\ pc[d] = "copy" => data'[slot'[d]] = data[slot[d]]
        /\ \A s : InList(q, s) => data'[s] = data[s]
    BY FreeSlotPool
  <1>2. pc[c] = "copy"
    BY DEF FreeSlot
  <1>3. InHand[c] # NoMessage
    BY <1>1, <1>2, SlotFacts DEF InHand
  <1>4. InHand' = [InHand EXCEPT ![c] = NoMessage]
    <2>1. pc'[c] = "run" /\ \A d \in Context : d # c => pc'[d] = pc[d]
      BY <1>0, <1>1
    <2>2. \A d \in Context : InHand'[d] = IF d = c THEN NoMessage ELSE InHand[d]
      BY <1>1, <2>1 DEF InHand
    <2>3. /\ InHand' = [d \in Context |-> InHand'[d]]
          /\ [InHand EXCEPT ![c] = NoMessage]
               = [d \in Context |-> IF d = c THEN NoMessage ELSE InHand[d]]
      BY DEF InHand
    <2> QED  BY <2>2, <2>3
  <1>5. Msgs(data', q) = Msgs(data, q)
    BY <1>0, <1>1, MsgsSame
  <1>6. QueueStep(q, q)
    BY <1>3, <1>4, <1>5 DEF QueueStep
  <1> QED  BY <1>1, <1>6 DEF PoolStep

LEMMA EmptiedStep ==
    ASSUME NEW q, NEW f, PoolNew(<<>>, f), HandInv', InHand' = InHand
    PROVE  PoolStep(q)
  <1>1. Msgs(data', <<>>) = <<>>
    BY MsgsAre, <<>> \in Seq(Slot)
  <1> QED  BY <1>1 DEF PoolStep, QueueStep

LEMMA TakeSlotStep ==
    ASSUME CallInv, HandInv, NEW q, NEW f, PoolNow(q, f), NEW c \in Context,
           NEW m, NEW where \in {"send", "urgent"}, TakeSlot(c, m, where)
    PROVE  PoolStep(q)
  <1>0. slot \in [Context -> Slot \cup {NoSlot}] /\ pc \in [Context -> Pcs]
    BY PoolLists DEF CallInv, CallTypeOK
  <1>1. PoolNew(q, Tail(f)) /\ HandInv'
    BY TakeSlotPool
  <1>2. /\ pc[c] = "run" /\ data' = data /\ pc' = [pc EXCEPT ![c] = where]
        /\ slot' = [slot EXCEPT ![c] = msg_queue_free]
    BY DEF TakeSlot, At
  <1>3. InHand' = InHand
    <2>1. \A d \in Context : /\ pc'[d] = "copy" <=> pc[d] = "copy"
                             /\ pc[d] = "copy" => slot'[d] = slot[d]
      BY <1>0, <1>2
    <2> QED  BY <1>2, <2>1 DEF InHand
  <1> QED  BY <1>1, <1>2, <1>3, SameStep

LEMMA RecvLoopStep ==
    ASSUME CallInv, HandInv, NEW q, NEW f, PoolNow(q, f), NEW c \in Context,
           pc[c] \notin Hands, NEW time, RecvLoop(c, time)
    PROVE  PoolStep(q)
  <1>1. CASE entry # 0 /\ TakeFirst(c)
    BY <1>1, TakeFirstStep
  <1>2. CASE /\ UNCHANGED pool
             /\ Return(c) \/ At(c, "recv", NoSlot, NoMessage, time)
    <2>1. PICK where \in {"run", "recv"}, m \in {NoMessage}, x \in {"zero", time} :
            At(c, where, NoSlot, m, x)
      BY <1>2 DEF Return
    <2>2. where \notin Hands
      BY DEF Hands
    <2>3. PoolNew(q, f) /\ HandInv' /\ InHand' = InHand
      BY <1>2, <2>1, <2>2, ReturnPool
    <2>4. data' = data
      BY <1>2 DEF pool
    <2> QED  BY <2>3, <2>4, SameStep
  <1> QED  BY <1>1, <1>2 DEF RecvLoop

LEMMA MqStepPool ==
    ASSUME CallInv, HandInv, NEW q, NEW f, PoolNow(q, f), NEW c \in Context, MqStep(c)
    PROVE  PoolStep(q)
  <1>1. CASE \E m \in Message : rt_mq_send(c, m) \/ rt_mq_urgent(c, m)
    BY <1>1, TakeSlotStep DEF rt_mq_send, rt_mq_urgent
  <1>2. CASE \E time \in Times : rt_mq_recv(c, time)
    <2>1. PICK time \in Times : rt_mq_recv(c, time)
      BY <1>2
    <2>2. pc[c] \notin Hands /\ RecvLoop(c, time)
      BY <2>1 DEF rt_mq_recv, Hands
    <2> QED  BY <2>2, RecvLoopStep
  <1> QED  BY <1>1, <1>2, LinkStep, FreeSlotStep DEF MqStep

(* The deletion does not touch the slots.                                  *)
LEMMA DeletePool ==
    ASSUME CallInv, HandInv, NEW q, NEW f, PoolNow(q, f), NEW t \in Thread,
           rt_mq_delete(t) \/ ResumeAllTest(t) \/ ResumeAllNext(t)
    PROVE  PoolStep(q)
  <1>0. t \in Context /\ pc \in [Context -> Pcs]
    BY ThreadIsContext DEF CallInv, CallTypeOK
  <1>1. CASE rt_mq_delete(t)
    <2>1. /\ pc[t] \notin Hands /\ "test" \notin Hands /\ UNCHANGED pool
          /\ At(t, "test", NoSlot, NoMessage, "zero")
      BY <1>1 DEF rt_mq_delete, Hands
    <2>2. PoolNew(q, f) /\ HandInv' /\ InHand' = InHand
      BY <1>0, <2>1, ReturnPool
    <2> QED  BY <2>1, <2>2, SameStep DEF pool
  <1>2. CASE ResumeAllTest(t) \/ ResumeAllNext(t)
    <2>1. /\ UNCHANGED pool /\ slot' = slot /\ pc[t] \notin Hands
          /\ \E w \in {"run", "test", "next"} : pc' = [pc EXCEPT ![t] = w]
      BY <1>2 DEF ResumeAllTest, ResumeAllNext, Hands
    <2>2. \A c \in Context : pc'[c] # pc[c] => pc'[c] \notin Hands /\ pc[c] \notin Hands
      BY <1>0, <2>1 DEF Hands
    <2>3. PoolNew(q, f) /\ HandInv' /\ InHand' = InHand
      BY <2>1, <2>2, SamePool
    <2> QED  BY <2>1, <2>3, SameStep DEF pool
  <1> QED  BY <1>1, <1>2

LEMMA NextPool ==
    ASSUME CallInv, HandInv, NEW q, NEW f, PoolNow(q, f), [Next]_allVars
    PROVE  PoolStep(q)
  <1>1. ASSUME NEW t \in Thread, MqThreadStep(t)  PROVE PoolStep(q)
    <2>1. t \in Context
      BY ThreadIsContext
    <2>2. CASE Resumed(t)
      <3>1. pc[t] \notin Hands /\ "run" \notin Hands
        BY <2>2 DEF Resumed, Hands
      <3>2. CASE error[t] # "EOK"
        <4>1. At(t, "run", NoSlot, NoMessage, "zero") /\ UNCHANGED pool
          BY <2>2, <3>2 DEF Resumed, Return
        <4>2. PoolNew(q, f) /\ HandInv' /\ InHand' = InHand
          BY <2>1, <3>1, <4>1, ReturnPool
        <4> QED  BY <4>1, <4>2, SameStep DEF pool
      <3>3. CASE error[t] = "EOK"
        <4>1. PICK time \in TimeLeft(left[t]) : RecvLoop(t, time)
          BY <2>2, <3>3 DEF Resumed
        <4> QED  BY <2>1, <3>1, <4>1, RecvLoopStep
      <3> QED  BY <3>2, <3>3
    <2> QED  BY <1>1, <2>1, <2>2, MqStepPool, DeletePool DEF MqThreadStep
  <1>2. ASSUME NEW i \in Isr, MqStep(i)  PROVE PoolStep(q)
    <2>1. i \in Context
      BY DEF Context
    <2> QED  BY <1>2, <2>1, MqStepPool
  <1>3. ASSUME UNCHANGED <<pool, pc, slot>>  PROVE PoolStep(q)
    <2>1. PoolNew(q, f) /\ HandInv' /\ InHand' = InHand
      BY <1>3, SamePool
    <2> QED  BY <1>3, <2>1, SameStep DEF pool
  <1>4. ASSUME NEW t \in Thread, Timeout(t)  PROVE PoolStep(q)
    <2>1. UNCHANGED <<pool, pc, slot>>
      BY <1>4 DEF Timeout, local
    <2> QED  BY <1>3, <2>1
  <1>5. ASSUME MqEnvironment  PROVE PoolStep(q)
    <2>1. CASE rt_mq_control
      BY <2>1, ControlPool, EmptiedStep
    <2>2. CASE rt_mq_init
      BY <2>2, NewPoolIs, EmptiedStep
    <2> QED  BY <1>5, <2>1, <2>2 DEF MqEnvironment
  <1>6. CASE MqNext
    BY <1>1, <1>2, <1>4, <1>5, <1>6 DEF MqNext
  <1>7. CASE EvNext \/ UNCHANGED allVars
    <2>1. UNCHANGED mqVars
      BY <1>7 DEF EvNext, allVars, vars
    <2>2. UNCHANGED <<pool, pc, slot>>
      BY <2>1 DEF mqVars, local
    <2> QED  BY <1>3, <2>2
  <1> QED  BY <1>6, <1>7 DEF Next

LEMMA PoolNext == CallInv /\ PoolInv /\ [Next]_allVars => PoolInv'
  <1> SUFFICES ASSUME CallInv, PoolInv, [Next]_allVars  PROVE PoolInv'
    OBVIOUS
  <1>1. PICK q, f : PoolNow(q, f)
    BY DEF PoolInv
  <1>2. PoolStep(q)
    BY <1>1, NextPool DEF PoolInv
  <1>3. PICK r, g : PoolNew(r, g)
    BY <1>2 DEF PoolStep
  <1> QED  BY <1>2, <1>3 DEF PoolInv, PoolStep, PoolNew, PoolNow

(* The pool, for every Size and every number of threads and handlers:      *)
(* whatever comes between the sections of a send or a receive, the queue   *)
(* and the free list are chains that end, and with the hands of the calls  *)
(* they share the slots out.                                               *)
THEOREM Pool == Spec => []PoolInv
  <1>1. Init => PoolInv
    BY InitPool DEF PoolInv
  <1> QED  BY <1>1, Calls, PoolNext, PTL DEF Spec

(* Every field has a value of its type, and no list head was ever resumed  *)
(* for a thread (rt_ipc_list_resume_all tests the list before each turn).  *)
THEOREM TypeCorrect == Spec => []TypeOK
  <1>1. CallInv /\ PoolInv => TypeOK
    <2> SUFFICES ASSUME CallInv, PoolInv  PROVE TypeOK
      OBVIOUS
    <2>1. PICK q, f : PoolNow(q, f)
      BY DEF PoolInv
    <2>2. /\ {msg_queue_head, msg_queue_tail, msg_queue_free} \subseteq Slot \cup {NoSlot}
          /\ entry \in 0 .. Size
          /\ slot \in [Context -> Slot \cup {NoSlot}]
      BY <2>1, PoolTypes DEF PoolNow
    <2>3. /\ next \in [Slot -> Slot \cup {NoSlot}] /\ data \in [Slot -> Message \cup {NoMessage}]
      BY <2>1 DEF PoolNow, PoolOf
    <2>4. CallTypeOK
      BY DEF CallInv
    <2>5. MqTypeOK
      BY <2>2, <2>3, <2>4 DEF CallTypeOK, MqTypeOK
    <2> QED  BY <2>4, <2>5 DEF CallTypeOK, TypeOK
  <1> QED  BY <1>1, Calls, Pool, PTL

LEMMA Conserved == PoolInv => SlotsConserved
  <1> SUFFICES ASSUME PoolInv  PROVE SlotsConserved
    OBVIOUS
  <1>1. PICK q, f : PoolNow(q, f)
    BY DEF PoolInv
  <1>2. Len(q) <= Size /\ Len(f) <= Size
    BY <1>1, PoolTypes DEF PoolNow
  <1>3. Chain(msg_queue_head) = q /\ Chain(msg_queue_free) = f
    BY <1>1, <1>2, ChainIs DEF PoolNow, PoolOf
  <1>4. /\ Placed(q, f, slot) /\ entry = Len(q)
        /\ msg_queue_tail = IF q = <<>> THEN NoSlot ELSE q[Len(q)]
    BY <1>1 DEF PoolNow, PoolOf
  <1> DEFINE hands == {c \in Context : slot[c] # NoSlot}
  <1>5. Len(q) + Len(f) + Cardinality(hands) = Size
    BY <1>4 DEF Placed, Holders
  <1>6. {q[i] : i \in 1 .. Len(q)} \cup {f[i] : i \in 1 .. Len(f)}
          \cup {slot[c] : c \in hands} = Slot
    <2>1. /\ q \in Seq(Slot) /\ f \in Seq(Slot) /\ slot \in [Context -> Slot \cup {NoSlot}]
          /\ \A s \in Slot : InList(q, s) \/ InList(f, s) \/ \E c \in Context : slot[c] = s
      BY <1>4 DEF Placed
    <2>2. \A s \in Slot : \/ \E i \in 1 .. Len(q) : q[i] = s
                          \/ \E i \in 1 .. Len(f) : f[i] = s
                          \/ \E c \in hands : slot[c] = s
      BY <2>1, SlotFacts DEF InList
    <2>3. /\ \A i \in 1 .. Len(q) : q[i] \in Slot
          /\ \A i \in 1 .. Len(f) : f[i] \in Slot
          /\ \A c \in hands : slot[c] \in Slot
      BY <2>1
    <2> HIDE DEF hands
    <2> QED  BY <2>2, <2>3
  <1> HIDE DEF hands
  <1> QED  BY <1>3, <1>4, <1>5, <1>6 DEF SlotsConserved, hands

(* No slot is lost or linked twice, though interrupts come between the     *)
(* sections of rt_mq_send, rt_mq_urgent and rt_mq_recv, and rt_mq_control  *)
(* between any two of them; entry counts the queue and the tail is its     *)
(* last slot.                                                              *)
THEOREM Slots == Spec => []SlotsConserved
  BY Pool, Conserved, PTL

-----------------------------------------------------------------------------
(* The refinement.                                                         *)

LEMMA ContentsAre == \A q, f : PoolNow(q, f) => Contents = Msgs(data, q)
  <1> SUFFICES ASSUME NEW q, NEW f, PoolNow(q, f)  PROVE Contents = Msgs(data, q)
    OBVIOUS
  <1>1. Len(q) <= Size /\ IsChain(next, q, msg_queue_head)
    BY PoolTypes DEF PoolNow, PoolOf
  <1>2. Chain(msg_queue_head) = q
    BY <1>1, ChainIs
  <1> QED  BY <1>2 DEF Contents, Msgs

LEMMA ContentsNext == (\A q, f : PoolNow(q, f) => Contents = Msgs(data, q))'
  BY ContentsAre, PTL

LEMMA ContentsBecome == \A q, f : PoolNew(q, f) => Contents' = Msgs(data', q)
  BY ContentsNext DEF PoolNow, PoolNew, Msgs

LEMMA RefineStep == CallInv /\ PoolInv /\ [Next]_allVars => [Queue!Next]_<<Contents, InHand>>
  <1> SUFFICES ASSUME CallInv, PoolInv, [Next]_allVars
               PROVE  [Queue!Next]_<<Contents, InHand>>
    OBVIOUS
  <1>1. PICK q, f : PoolNow(q, f)
    BY DEF PoolInv
  <1>2. PoolStep(q)
    BY <1>1, NextPool DEF PoolInv
  <1>3. PICK r, g : PoolNew(r, g) /\ QueueStep(q, r)
    BY <1>2 DEF PoolStep
  <1>4. Contents = Msgs(data, q) /\ Contents' = Msgs(data', r)
    BY <1>1, <1>3, ContentsAre, ContentsBecome
  <1>5. \/ \E m \in Message : /\ Len(Contents) < Size /\ InHand' = InHand
                              /\ Contents' = Append(Contents, m) \/ Contents' = <<m>> \o Contents
        \/ \E c \in Context : /\ Contents # <<>> /\ InHand[c] = NoMessage
                              /\ InHand' = [InHand EXCEPT ![c] = Head(Contents)]
                              /\ Contents' = Tail(Contents)
        \/ \E c \in Context : /\ InHand[c] # NoMessage
                              /\ InHand' = [InHand EXCEPT ![c] = NoMessage] /\ Contents' = Contents
        \/ (Contents' = Contents \/ Contents' = <<>>) /\ InHand' = InHand
    <2> HIDE DEF Contents, Msgs, InHand
    <2> QED  BY <1>3, <1>4, Zenon DEF QueueStep
  <1>6. CASE \E m \in Message : /\ Len(Contents) < Size /\ InHand' = InHand
                                /\ Contents' = Append(Contents, m) \/ Contents' = <<m>> \o Contents
    BY <1>6, Zenon DEF Queue!Next, Queue!Send, Queue!Urgent
  <1>7. CASE \E c \in Context : /\ Contents # <<>> /\ InHand[c] = NoMessage
                                /\ InHand' = [InHand EXCEPT ![c] = Head(Contents)]
                                /\ Contents' = Tail(Contents)
    BY <1>7, Zenon DEF Queue!Next, Queue!Take
  <1>8. CASE \E c \in Context : /\ InHand[c] # NoMessage
                                /\ InHand' = [InHand EXCEPT ![c] = NoMessage]
                                /\ Contents' = Contents
    BY <1>8, Zenon DEF Queue!Next, Queue!Copied
  <1>9. CASE (Contents' = Contents \/ Contents' = <<>>) /\ InHand' = InHand
    BY <1>9, Zenon DEF Queue!Next, Queue!Reset
  <1> QED  BY <1>5, <1>6, <1>7, <1>8, <1>9

(* The slots, the links and the sections implement a bounded queue with an *)
(* urgent end: no message is lost, received twice or overwritten while it  *)
(* is copied with interrupts enabled, and a reset takes none out of a      *)
(* receiver's hands.                                                       *)
THEOREM Refines == Spec => RefinesUrgentFifo
  <1>1. Init => Queue!Init
    <2> SUFFICES ASSUME Init  PROVE Queue!Init
      OBVIOUS
    <2>1. Contents = Msgs(data, <<>>)
      BY InitPool, ContentsAre
    <2>2. Contents = <<>>
      BY <2>1, MsgsAre, <<>> \in Seq(Slot)
    <2>3. InHand = [c \in Context |-> NoMessage]
      BY DEF Init, MqInit, InHand
    <2> QED  BY <2>2, <2>3 DEF Queue!Init
  <1> QED  BY <1>1, Calls, Pool, RefineStep, PTL DEF Spec, RefinesUrgentFifo, Queue!Spec

-----------------------------------------------------------------------------
(* The receivers.                                                          *)

(* The receivers on their way to a message.                                *)
Coming == {t \in Thread : pc[t] = "recv" /\ stat[t] = "ready" /\ error[t] = "EOK"}
Enough == suspend_thread # <<>> => entry <= Cardinality(Coming)

LEMMA ComingFinite ==
    /\ IsFiniteSet(Coming) /\ Cardinality(Coming) \in Nat
    /\ IsFiniteSet(Coming') /\ Cardinality(Coming') \in Nat
  <1>1. Coming \subseteq Thread /\ Coming' \subseteq Thread
    BY DEF Coming
  <1>2. IsFiniteSet(Coming) /\ IsFiniteSet(Coming')
    BY <1>1, IpcAssumption, FS_Subset
  <1> QED  BY <1>2, FS_CardinalityType

Counts == entry \in Nat /\ entry' \in Nat

(* Nobody goes, nothing comes.                                             *)
LEMMA EnoughSame ==
    ASSUME Enough, Counts, Coming \subseteq Coming', entry' <= entry,
           suspend_thread' # <<>> => suspend_thread # <<>>
    PROVE  Enough'
  <1>1. Cardinality(Coming) <= Cardinality(Coming')
    BY ComingFinite, FS_Subset
  <1> QED  BY <1>1, ComingFinite DEF Enough, Counts

(* A receiver takes a message.                                             *)
LEMMA EnoughTaken ==
    ASSUME Enough, Counts, NEW c, Coming \ {c} \subseteq Coming', entry' = entry - 1,
           suspend_thread' = suspend_thread
    PROVE  Enough'
  <1>1. /\ IsFiniteSet(Coming \ {c})
        /\ Cardinality(Coming \ {c}) = IF c \in Coming THEN Cardinality(Coming) - 1
                                       ELSE Cardinality(Coming)
    BY ComingFinite, FS_RemoveElement
  <1>2. Cardinality(Coming \ {c}) <= Cardinality(Coming')
    BY ComingFinite, FS_Subset
  <1>3. Cardinality(Coming) - 1 <= Cardinality(Coming')
    BY <1>1, <1>2, ComingFinite
  <1> QED  BY <1>3, ComingFinite DEF Enough, Counts

(* A message comes, and a receiver with it.                                *)
LEMMA EnoughSent ==
    ASSUME Enough, Counts, NEW h, h \notin Coming, Coming \cup {h} \subseteq Coming',
           entry' = entry + 1, suspend_thread # <<>>
    PROVE  Enough'
  <1>1. Cardinality(Coming \cup {h}) = Cardinality(Coming) + 1
    BY ComingFinite, FS_AddElement
  <1>2. Cardinality(Coming \cup {h}) <= Cardinality(Coming')
    BY ComingFinite, FS_Subset
  <1> QED  BY <1>1, <1>2, ComingFinite DEF Enough, Counts

LEMMA EnoughNone ==
    ASSUME entry' = 0 \/ suspend_thread' = <<>>
    PROVE  Enough'
  BY ComingFinite DEF Enough

(* The threads keep what makes them come.                                  *)
LEMMA StayComing ==
    ASSUME NEW X, \A u \in Coming : u \notin X =>
                    pc'[u] = "recv" /\ stat'[u] = "ready" /\ error'[u] = "EOK"
    PROVE  Coming \ X \subseteq Coming'
  BY DEF Coming

LEMMA AtOthers ==
    ASSUME CallInv, NEW c \in Context, NEW where, NEW s, NEW m, NEW time, At(c, where, s, m, time)
    PROVE  pc'[c] = where /\ \A u \in Context : u # c => pc'[u] = pc[u]
  BY DEF At, CallInv, CallTypeOK

LEMMA ComingContext == \A u \in Coming : u \in Thread /\ u \in Context /\ pc[u] = "recv"
                                         /\ stat[u] = "ready" /\ error[u] = "EOK"
  BY ThreadIsContext DEF Coming

(* A step of c that changes no thread.                                     *)
LEMMA ComingAt ==
    ASSUME CallInv, NEW c \in Context, NEW where, NEW s, NEW m, NEW time,
           At(c, where, s, m, time), UNCHANGED ipcVars
    PROVE  Coming \ {c} \subseteq Coming'
  <1>1. \A u \in Context : u # c => pc'[u] = pc[u]
    BY AtOthers
  <1>2. UNCHANGED <<stat, error>>
    BY DEF ipcVars
  <1> QED  BY <1>1, <1>2, ComingContext, StayComing

LEMMA EnoughQuiet ==
    ASSUME CallInv, Enough, Counts, NEW c \in Context, c \notin Coming, NEW where, NEW s, NEW m,
           NEW time, At(c, where, s, m, time), UNCHANGED ipcVars, UNCHANGED suspend_thread,
           UNCHANGED entry
    PROVE  Enough'
  <1>1. Coming \subseteq Coming'
    BY ComingAt
  <1>2. entry' <= entry
    BY DEF Counts
  <1> QED  BY <1>1, <1>2, EnoughSame

LEMMA RecvLoopEnough ==
    ASSUME CallInv, Enough, Counts, NEW c \in Context, NEW time, RecvLoop(c, time)
    PROVE  Enough'
  <1>1. CASE entry # 0 /\ TakeFirst(c)
    <2>1. /\ At(c, "copy", msg_queue_head, NoMessage, "zero") /\ UNCHANGED ipcVars
          /\ entry' = entry - 1 /\ suspend_thread' = suspend_thread
      BY <1>1 DEF TakeFirst
    <2>2. Coming \ {c} \subseteq Coming'
      BY <2>1, ComingAt
    <2> QED  BY <2>1, <2>2, EnoughTaken
  <1>2. CASE entry = 0 /\ UNCHANGED pool
    BY <1>2, EnoughNone DEF pool
  <1> QED  BY <1>1, <1>2 DEF RecvLoop

LEMMA LinkEnough ==
    ASSUME CallInv, Enough, Counts, NEW c \in Context, LinkLast(c) \/ LinkFirst(c)
    PROVE  Enough'
  <1>1. /\ pc[c] \in {"send", "urgent"} /\ Return(c) /\ WakeReceiver /\ entry' = entry + 1
    BY DEF LinkLast, LinkFirst
  <1>2. \A u \in Context : u # c => pc'[u] = pc[u]
    BY <1>1, AtOthers DEF Return
  <1>3. c \notin Coming
    BY <1>1 DEF Coming
  <1>4. CASE suspend_thread = <<>>
    BY <1>1, <1>4, EnoughNone DEF WakeReceiver
  <1>5. CASE suspend_thread # <<>>
    <2> DEFINE h == Head(suspend_thread)
    <2>1. rt_thread_resume(h)
      BY <1>1, <1>5 DEF WakeReceiver
    <2>2. h \in Thread /\ InList(suspend_thread, h)
      <3>1. suspend_thread \in Seq(Thread) /\ NoRepeat(suspend_thread)
        BY DEF CallInv, CallTypeOK, Queued
      <3> QED  BY <1>5, <3>1, TailList
    <2> HIDE DEF h
    <2>3. stat[h] = "suspend" /\ pc[h] = "recv" /\ error[h] = "EOK" /\ h \in Context
      BY <2>2, ThreadIsContext DEF CallInv, Queued, OneCall
    <2>4. /\ stat'[h] = "ready" /\ error' = error
          /\ \A u \in Thread : u # h => stat'[u] = stat[u]
      BY <2>1, <2>2 DEF rt_thread_resume, CallInv, CallTypeOK, IpcTypeOK
    <2>5. h # c
      BY <1>1, <2>3
    <2>6. h \notin Coming
      BY <2>3 DEF Coming
    <2>7. h \in Coming'
      BY <1>2, <2>2, <2>3, <2>4, <2>5 DEF Coming
    <2>8. Coming \subseteq Coming'
      <3>1. \A u \in Coming : pc'[u] = "recv" /\ stat'[u] = "ready" /\ error'[u] = "EOK"
        BY <1>2, <1>3, <2>4, <2>6, ComingContext
      <3> QED  BY <3>1, StayComing
    <2> QED  BY <1>1, <1>5, <2>6, <2>7, <2>8, EnoughSent
  <1> QED  BY <1>4, <1>5

LEMMA MqStepEnough ==
    ASSUME CallInv, Enough, Counts, NEW c \in Context, MqStep(c)
    PROVE  Enough'
  <1>1. CASE \E m \in Message : rt_mq_send(c, m) \/ rt_mq_urgent(c, m)
    <2>1. PICK m \in Message, where \in {"send", "urgent"} : TakeSlot(c, m, where)
      BY <1>1 DEF rt_mq_send, rt_mq_urgent
    <2>2. /\ pc[c] = "run" /\ At(c, where, msg_queue_free, m, "zero")
          /\ UNCHANGED ipcVars /\ UNCHANGED suspend_thread /\ UNCHANGED entry
      BY <2>1 DEF TakeSlot
    <2>3. c \notin Coming
      BY <2>2 DEF Coming
    <2> QED  BY <2>2, <2>3, EnoughQuiet
  <1>2. CASE \E time \in Times : rt_mq_recv(c, time)
    BY <1>2, RecvLoopEnough DEF rt_mq_recv
  <1>3. CASE FreeSlot(c)
    <2>1. /\ pc[c] = "copy" /\ At(c, "run", NoSlot, NoMessage, "zero")
          /\ UNCHANGED ipcVars /\ UNCHANGED suspend_thread /\ UNCHANGED entry
      BY <1>3 DEF FreeSlot, Return
    <2>2. c \notin Coming
      BY <2>1 DEF Coming
    <2> QED  BY <2>1, <2>2, EnoughQuiet
  <1> QED  BY <1>1, <1>2, <1>3, LinkEnough DEF MqStep

(* A waiter is resumed with an error.                                      *)
LEMMA EnoughThrown ==
    ASSUME CallInv, Enough, Counts, NEW h \in Thread, stat[h] = "suspend",
           \A u \in Thread : u # h => stat'[u] = stat[u] /\ error'[u] = error[u],
           \A u \in Coming : pc'[u] = pc[u], UNCHANGED entry,
           suspend_thread' = ListRemove(suspend_thread, h)
    PROVE  Enough'
  <1>1. \A u \in Coming : u # h
    BY DEF Coming
  <1>2. Coming \subseteq Coming'
    <2>1. \A u \in Coming : pc'[u] = "recv" /\ stat'[u] = "ready" /\ error'[u] = "EOK"
      BY <1>1, ComingContext
    <2> QED  BY <2>1, StayComing
  <1>3. suspend_thread' # <<>> => suspend_thread # <<>>
    <2>1. suspend_thread \in Seq(Thread) /\ NoRepeat(suspend_thread)
      BY DEF CallInv, CallTypeOK, Queued
    <2>2. ListStep(suspend_thread, suspend_thread', {h}, {})
      BY <2>1, RemoveList
    <2>3. ASSUME suspend_thread = <<>>  PROVE suspend_thread' = <<>>
      <3>1. suspend_thread' \in Seq(Thread) /\ \A x : ~InList(suspend_thread', x)
        BY <2>2, <2>3, NoNodes DEF ListStep
      <3> DEFINE r == suspend_thread'
      <3>2. r \in Seq(Thread) /\ ~InList(r, r[1])
        BY <3>1
      <3> HIDE DEF r
      <3>3. r = <<>>
        BY <3>2 DEF InList
      <3> QED  BY <3>3 DEF r
    <2> QED  BY <2>3
  <1>4. entry' <= entry
    BY DEF Counts
  <1> QED  BY <1>2, <1>3, <1>4, EnoughSame

LEMMA ThreadStepEnough ==
    ASSUME CallInv, Enough, Counts, NEW t \in Thread, MqThreadStep(t)
    PROVE  Enough'
  <1>0. t \in Context /\ pc \in [Context -> Pcs] /\ IpcTypeOK
    BY ThreadIsContext DEF CallInv, CallTypeOK
  <1>1. CASE Resumed(t)
    <2>1. CASE error[t] # "EOK"
      <3>1. /\ At(t, "run", NoSlot, NoMessage, "zero")
            /\ UNCHANGED ipcVars /\ UNCHANGED suspend_thread /\ UNCHANGED entry
        BY <1>1, <2>1 DEF Resumed, Return, pool
      <3>2. t \notin Coming
        BY <2>1 DEF Coming
      <3> QED  BY <1>0, <3>1, <3>2, EnoughQuiet
    <2>2. CASE error[t] = "EOK"
      BY <1>0, <1>1, <2>2, RecvLoopEnough DEF Resumed
    <2> QED  BY <2>1, <2>2
  <1>2. CASE rt_mq_delete(t)
    <2>1. /\ At(t, "test", NoSlot, NoMessage, "zero") /\ pc[t] = "run"
          /\ UNCHANGED ipcVars /\ UNCHANGED suspend_thread /\ UNCHANGED entry
      BY <1>2 DEF rt_mq_delete, pool
    <2>2. t \notin Coming
      BY <2>1 DEF Coming
    <2> QED  BY <1>0, <2>1, <2>2, EnoughQuiet
  <1>3. ASSUME pc[t] # "recv", NEW where, pc' = [pc EXCEPT ![t] = where]
        PROVE  \A u \in Coming : pc'[u] = pc[u]
    BY <1>0, <1>3, ComingContext
  <1>4. CASE ResumeAllTest(t)
    <2>1. /\ UNCHANGED <<stat, error, suspend_thread, entry>> /\ pc[t] # "recv"
          /\ \E where \in {"next", "run"} : pc' = [pc EXCEPT ![t] = where]
      BY <1>4 DEF ResumeAllTest, pool, ipcVars
    <2>2. \A u \in Coming : pc'[u] = pc[u]
      BY <1>3, <2>1
    <2>3. Coming \subseteq Coming'
      BY <2>1, <2>2, ComingContext, StayComing
    <2>4. entry' <= entry
      BY <2>1 DEF Counts
    <2> QED  BY <2>1, <2>3, <2>4, EnoughSame
  <1>5. CASE ResumeAllNext(t)
    <2> DEFINE h == Head(suspend_thread)
    <2>1. /\ ResumeNext(suspend_thread) /\ suspend_thread' = ListRemove(suspend_thread, h)
          /\ UNCHANGED entry /\ pc[t] = "next" /\ pc' = [pc EXCEPT ![t] = "test"]
      BY <1>5 DEF ResumeAllNext, pool
    <2>2. suspend_thread # <<>> /\ suspend_thread \in Seq(Thread) /\ NoRepeat(suspend_thread)
      BY <2>1 DEF CallInv, MqDeleteInv, CallTypeOK, Queued, Deleting
    <2>3. h \in Thread /\ InList(suspend_thread, h)
      BY <2>2, TailList
    <2>4. stat' = [stat EXCEPT ![h] = "ready"] /\ error' = [error EXCEPT ![h] = "ERROR"]
      BY <2>1, <2>2 DEF ResumeNext
    <2> HIDE DEF h
    <2>5. stat[h] = "suspend"
      BY <2>3 DEF CallInv, Queued
    <2>6. \A u \in Thread : u # h => stat'[u] = stat[u] /\ error'[u] = error[u]
      BY <1>0, <2>4 DEF IpcTypeOK
    <2>7. \A u \in Coming : pc'[u] = pc[u]
      BY <1>3, <2>1
    <2> QED  BY <2>1, <2>3, <2>5, <2>6, <2>7, EnoughThrown
  <1> QED  BY <1>0, <1>1, <1>2, <1>4, <1>5, MqStepEnough DEF MqThreadStep

LEMMA TimeoutEnough ==
    ASSUME CallInv, Enough, Counts, NEW t \in Thread, Timeout(t)
    PROVE  Enough'
  <1>1. /\ timer[t] /\ stat' = [stat EXCEPT ![t] = "ready"]
        /\ error' = [error EXCEPT ![t] = "ETIMEOUT"]
        /\ UNCHANGED <<pc, entry>> /\ suspend_thread' = ListRemove(suspend_thread, t)
    BY DEF Timeout, rt_thread_timeout, pool, local
  <1>2. stat[t] = "suspend"
    BY <1>1 DEF CallInv, OneCall
  <1>3. \A u \in Thread : u # t => stat'[u] = stat[u] /\ error'[u] = error[u]
    BY <1>1 DEF CallInv, CallTypeOK, IpcTypeOK
  <1> QED  BY <1>1, <1>2, <1>3, EnoughThrown

(* Nothing the event does touches a receiver of the queue.                 *)
LEMMA EvSpares ==
    ASSUME CallInv, EvNext
    PROVE  \A u \in Coming : stat'[u] = "ready" /\ error'[u] = "EOK"
  <1> SUFFICES ASSUME NEW u \in Coming  PROVE stat'[u] = "ready" /\ error'[u] = "EOK"
    OBVIOUS
  <1>1. u \in Thread /\ pc[u] = "recv" /\ stat[u] = "ready" /\ error[u] = "EOK"
    BY ComingContext
  <1>2. ev_pc[u] = "run" /\ ~InList(ev_list, u) /\ IpcTypeOK
    BY <1>1 DEF CallInv, CallTypeOK, OneCall, Queued
  <1>3. /\ stat \in [Thread -> {"ready", "suspend"}] /\ error \in [Thread -> Errors]
    BY <1>2 DEF IpcTypeOK
  <1>4. ASSUME UNCHANGED ipcVars  PROVE stat'[u] = "ready" /\ error'[u] = "EOK"
    BY <1>1, <1>4 DEF ipcVars
  <1>5. ASSUME NEW t \in Thread, pc[t] = "run", Ev!EvThreadStep(t)
        PROVE  stat'[u] = "ready" /\ error'[u] = "EOK"
    <2>1. t # u
      BY <1>1, <1>5
    <2>2. CASE \E s \in Ev!Sets, o \in Ev!Options, time \in Ev!Times :
                 Ev!rt_event_recv(t, s, o, time)
      <3>1. /\ stat' = stat \/ stat' = [stat EXCEPT ![t] = "suspend"]
            /\ \E e \in Errors : error' = [error EXCEPT ![t] = e]
        <4>1. "EOK" \in Errors /\ "ETIMEOUT" \in Errors
          BY DEF Errors
        <4> QED  BY <2>2, <4>1 DEF Ev!rt_event_recv, Ev!SuspendSelf
      <3> QED  BY <1>1, <1>3, <2>1, <3>1
    <2>3. CASE Ev!Resumed(t) \/ Ev!rt_event_delete(t) \/ Ev!ResumeAllTest(t)
      <3>1. UNCHANGED ipcVars
        BY <2>3 DEF Ev!Resumed, Ev!rt_event_delete, Ev!ResumeAllTest, Ev!ipcVars, ipcVars
      <3> QED  BY <1>4, <3>1
    <2>4. CASE Ev!ResumeAllNext(t)
      <3> DEFINE h == Head(ev_list)
      <3>1. Ev!ResumeNext(ev_list) /\ ev_pc[t] = "next"
        BY <2>4 DEF Ev!ResumeAllNext
      <3>2. ev_list # <<>> /\ ev_list \in Seq(Thread) /\ NoRepeat(ev_list)
        BY <3>1, EvFieldsFacts DEF CallInv, EvDeleteInv, Deleting, EvFields
      <3>3. InList(ev_list, h)
        BY <3>2, TailList
      <3>4. stat' = [stat EXCEPT ![h] = "ready"] /\ error' = [error EXCEPT ![h] = "ERROR"]
        BY <3>1, <3>2 DEF Ev!ResumeNext
      <3> HIDE DEF h
      <3>5. h # u
        BY <1>2, <3>3
      <3> QED  BY <1>1, <1>3, <3>4, <3>5
    <2> QED  BY <1>5, <2>2, <2>3, <2>4 DEF Ev!EvThreadStep
  <1>6. ASSUME NEW t \in Thread, Ev!Timeout(t)  PROVE stat'[u] = "ready" /\ error'[u] = "EOK"
    <2>1. /\ ev_pc[t] = "wait" /\ stat' = [stat EXCEPT ![t] = "ready"]
          /\ error' = [error EXCEPT ![t] = "ETIMEOUT"]
      BY <1>6 DEF Ev!Timeout, Ev!rt_thread_timeout
    <2>2. t # u
      BY <1>2, <2>1
    <2> QED  BY <1>1, <1>3, <2>1, <2>2
  <1>7. ASSUME Ev!EvEnvironment  PROVE stat'[u] = "ready" /\ error'[u] = "EOK"
    <2>1. CASE \E s \in Ev!Sets : Ev!rt_event_send(s)
      <3>1. PICK s \in Ev!Sets : Ev!rt_event_send(s)
        BY <2>1
      <3> DEFINE W == Ev!Walked(ev_set \cup s).woken
      <3>2. error' = error /\ stat' = [t \in Thread |-> IF t \in W THEN "ready" ELSE stat[t]]
        BY <3>1 DEF Ev!rt_event_send
      <3> HIDE DEF W
      <3> QED  BY <1>1, <3>2
    <2>2. CASE Ev!rt_event_control
      <3>1. ResumeAll(Linked(ev_list))
        BY <2>2, EvIpc DEF Ev!rt_event_control
      <3>2. u \notin Linked(ev_list)
        BY <1>2 DEF Linked
      <3> QED  BY <1>1, <3>1, <3>2 DEF ResumeAll
    <2>3. CASE Ev!rt_event_init
      <3>1. UNCHANGED ipcVars
        BY <2>3 DEF Ev!rt_event_init, Ev!ipcVars, ipcVars
      <3> QED  BY <1>4, <3>1
    <2> QED  BY <1>7, <2>1, <2>2, <2>3 DEF Ev!EvEnvironment
  <1> QED  BY <1>5, <1>6, <1>7 DEF EvNext

LEMMA EnoughStep == CallInv /\ PoolInv /\ PoolInv' /\ Enough /\ [Next]_allVars => Enough'
  <1> SUFFICES ASSUME CallInv, PoolInv, PoolInv', Enough, [Next]_allVars  PROVE Enough'
    OBVIOUS
  <1>1. Counts
    <2>1. PICK q, f : PoolNow(q, f)
      BY DEF PoolInv
    <2>2. PICK r, g : PoolNew(r, g)
      BY DEF PoolInv, PoolNow, PoolNew
    <2>3. entry \in 0 .. Size /\ entry' \in 0 .. Size
      BY <2>1, <2>2, PoolTypes DEF PoolNow, PoolNew
    <2> QED  BY <2>3 DEF Counts
  <1>2. CASE MqNext
    <2>1. ASSUME NEW i \in Isr, MqStep(i)  PROVE Enough'
      <3>1. i \in Context
        BY DEF Context
      <3> QED  BY <1>1, <2>1, <3>1, MqStepEnough
    <2>2. ASSUME MqEnvironment  PROVE Enough'
      <3>1. suspend_thread' = <<>>
        BY <2>2 DEF MqEnvironment, rt_mq_control, rt_mq_init, NewPool
      <3> QED  BY <3>1, EnoughNone
    <2> QED  BY <1>1, <1>2, <2>1, <2>2, ThreadStepEnough, TimeoutEnough DEF MqNext
  <1>3. CASE EvNext \/ UNCHANGED allVars
    <2>1. UNCHANGED <<pc, entry, suspend_thread>>
      BY <1>3 DEF EvNext, allVars, vars, mqVars, pool, local
    <2>2. \A u \in Coming : stat'[u] = "ready" /\ error'[u] = "EOK"
      <3>1. CASE EvNext
        BY <3>1, EvSpares
      <3>2. CASE UNCHANGED allVars
        <4>1. UNCHANGED <<stat, error>>
          BY <3>2 DEF allVars, vars, ipcVars
        <4> QED  BY <4>1, ComingContext
      <3> QED  BY <1>3, <3>1, <3>2
    <2>3. Coming \subseteq Coming'
      BY <2>1, <2>2, ComingContext, StayComing
    <2>4. entry' <= entry
      BY <1>1, <2>1 DEF Counts
    <2> QED  BY <1>1, <2>1, <2>3, <2>4, EnoughSame
  <1> QED  BY <1>2, <1>3 DEF Next

(* While receivers wait, every message in the queue has a resumed receiver *)
(* on its way to it, though the receiver takes it in a section of its own, *)
(* others may come first and a timeout may come between; and a suspended   *)
(* thread is linked in the list of the one object it waits for.            *)
THEOREM Wakeups == Spec => []NoLostWakeup
  <1>1. Init => Enough
    BY ComingFinite DEF Init, MqInit, Enough
  <1>2. CallInv /\ Enough => NoLostWakeup
    BY DEF CallInv, Queued, OneCall, Enough, Coming, NoLostWakeup, MqNoLostWakeup
  <1>3. Spec => []Enough
    BY <1>1, Calls, Pool, EnoughStep, PTL DEF Spec
  <1> QED  BY <1>2, <1>3, Calls, PTL
=============================================================================
