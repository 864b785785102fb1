---------------------------- MODULE TimerProofs ----------------------------
(* Proofs about Timer, for every set of timers, every width of the tick,   *)
(* every time and mode the timers are given, any number of callers and     *)
(* every delay of a caller that leaves room for the half-range comparison. *)
EXTENDS Timer, RtListProofs, TLAPS

-----------------------------------------------------------------------------
(* Ticks.                                                                  *)

(* Half the range of a tick, and the room above MaxLate.                   *)
LEMMA Ranges ==
    /\ RT_TICK_MAX \in Nat /\ MaxLate \in Nat /\ Half \in Nat
    /\ Modulus \in Nat /\ Modulus > 0 /\ Modulus = RT_TICK_MAX + 1
    /\ Half + Half < Modulus
    /\ \A t \in Timer : \A i \in InitTicks[t] :
         i \in Nat /\ i > 0 /\ i + MaxLate < Half
  <1>1. /\ RT_TICK_MAX \in Nat /\ MaxLate \in Nat
        /\ InitTicks \in [Timer -> (SUBSET Nat) \ {{}}]
        /\ \A t \in Timer : \A i \in InitTicks[t] : i > 0 /\ i + MaxLate < Half
    BY TimerAssumption
  <1>2. Half \in Nat /\ Half + Half <= RT_TICK_MAX
    BY <1>1 DEF Half
  <1>3. \A t \in Timer : \A i \in InitTicks[t] : i \in Nat
    BY <1>1
  <1> QED  BY <1>1, <1>2, <1>3 DEF Modulus

(* A sum is wrapped once.                                                  *)
LEMMA Wrap ==
    ASSUME NEW M \in Nat, M > 0, NEW x \in Int
    PROVE  /\ x % M \in 0 .. M - 1
           /\ 0 <= x /\ x < M => x % M = x
           /\ -M <= x /\ x < 0 => x % M = x + M
           /\ M <= x /\ x < M + M => x % M = x - M
  OBVIOUS

(* Ticks wrap and differences wrap: the turns cancel.                      *)
LEMMA WrapDifference ==
    ASSUME NEW M \in Nat, M > 0, NEW now \in 0 .. M - 1,
           NEW a \in Int, -M <= a, a <= M, NEW b \in Int, -M <= b, b <= M,
           -M <= a - b, a - b < M
    PROVE  (((now + a) % M) - ((now + b) % M)) % M = (a - b) % M
  <1> DEFINE x == (now + a) % M
             y == (now + b) % M
             d == (a - b) % M
  <1>1. \/ x = now + a
        \/ x = now + a + M
        \/ x = now + a - M
    BY Wrap, now + a \in Int
  <1>2. \/ y = now + b
        \/ y = now + b + M
        \/ y = now + b - M
    BY Wrap, now + b \in Int
  <1>3. x \in 0 .. M - 1 /\ y \in 0 .. M - 1
    BY Wrap, now + a \in Int, now + b \in Int
  <1>4. (a - b >= 0 => d = a - b) /\ (a - b < 0 => d = a - b + M)
    BY Wrap, a - b \in Int
  <1>5. (x - y >= 0 => (x - y) % M = x - y) /\ (x - y < 0 => (x - y) % M = x - y + M)
    BY Wrap, x - y \in Int, <1>3
  <1> HIDE DEF x, y, d
  <1>6. (x - y) % M = d
    BY <1>1, <1>2, <1>3, <1>4, <1>5
  <1> QED  BY <1>6 DEF x, y, d

(* A tick passes and one tick less is left: the timeout stays.             *)
LEMMA WrapStep ==
    ASSUME NEW M \in Nat, M > 0, NEW now \in 0 .. M - 1,
           NEW a \in Int, -M < a, a < M
    PROVE  (((now + 1) % M) + (a - 1)) % M = (now + a) % M
  <1> DEFINE n == (now + 1) % M
             x == (now + a) % M
  <1>1. n = now + 1 \/ n = now + 1 - M
    BY Wrap, now + 1 \in Int
  <1>2. n \in 0 .. M - 1 /\ x \in 0 .. M - 1
    BY Wrap, now + a \in Int, now + 1 \in Int
  <1>3. \/ x = now + a
        \/ x = now + a + M
        \/ x = now + a - M
    BY Wrap, now + a \in Int
  <1>4. \/ (n + (a - 1)) % M = n + (a - 1)
        \/ (n + (a - 1)) % M = n + (a - 1) + M
        \/ (n + (a - 1)) % M = n + (a - 1) - M
    BY Wrap, <1>2, n + (a - 1) \in Int
  <1>5. (n + (a - 1)) % M \in 0 .. M - 1
    BY Wrap, <1>2, n + (a - 1) \in Int
  <1> HIDE DEF n, x
  <1>6. (n + (a - 1)) % M = x
    BY <1>1, <1>2, <1>3, <1>4, <1>5
  <1> QED  BY <1>6 DEF n, x

-----------------------------------------------------------------------------
(* The comparisons of timer.c.                                             *)

(* When two timeouts are less than half the range apart, the comparison of *)
(* rt_timer_start orders them as the ticks that are left.                  *)
LEMMA PassesOrder ==
    ASSUME NEW now \in 0 .. RT_TICK_MAX,
           NEW a \in Int, NEW b \in Int, -Half <= a - b, a - b < Half,
           -Half <= a, a < Half, -Half <= b, b < Half
    PROVE  Passes((now + a) % Modulus, (now + b) % Modulus) <=> a <= b
  <1>1. /\ Modulus \in Nat /\ Modulus > 0 /\ Half \in Nat
        /\ Half + Half < Modulus /\ now \in 0 .. Modulus - 1
    BY Ranges
  <1>2. (((now + a) % Modulus) - ((now + b) % Modulus)) % Modulus = (a - b) % Modulus
    <2> HIDE DEF Modulus, Half
    <2>1. /\ -Modulus <= a /\ a <= Modulus /\ -Modulus <= b /\ b <= Modulus
          /\ -Modulus <= a - b /\ a - b < Modulus
      BY <1>1
    <2> QED  BY <1>1, <2>1, WrapDifference
  <1>3. /\ a - b >= 0 => (a - b) % Modulus = a - b
        /\ a - b < 0 => (a - b) % Modulus = a - b + Modulus
    BY <1>1, Wrap, a - b \in Int
  <1>4. Minus((now + a) % Modulus, (now + b) % Modulus) = (a - b) % Modulus
    BY <1>2 DEF Minus
  <1> QED  BY <1>1, <1>3, <1>4 DEF Passes

(* A timer is due for rt_timer_check when no tick is left.                 *)
LEMMA DueOrder ==
    ASSUME NEW now \in 0 .. RT_TICK_MAX, NEW a \in Int, -Half < a, a <= Half
    PROVE  Minus(now, (now + a) % Modulus) < Half <=> a <= 0
  <1>1. /\ Modulus \in Nat /\ Modulus > 0 /\ Half \in Nat
        /\ Half + Half < Modulus /\ now \in 0 .. Modulus - 1
    BY Ranges
  <1>2. (((now + 0) % Modulus) - ((now + a) % Modulus)) % Modulus = (0 - a) % Modulus
    <2> HIDE DEF Modulus, Half
    <2>1. /\ -Modulus <= a /\ a <= Modulus /\ -Modulus <= 0 /\ 0 <= Modulus
          /\ -Modulus <= 0 - a /\ 0 - a < Modulus
      BY <1>1
    <2> QED  BY <1>1, <2>1, WrapDifference
  <1>3. (now + 0) % Modulus = now
    BY <1>1, Wrap, now + 0 \in Int
  <1>4. /\ a <= 0 => (0 - a) % Modulus = 0 - a
        /\ a > 0 => (0 - a) % Modulus = Modulus - a
    BY <1>1, Wrap, 0 - a \in Int
  <1>5. Minus(now, (now + a) % Modulus) = (0 - a) % Modulus
    BY <1>2, <1>3 DEF Minus
  <1> QED  BY <1>1, <1>4, <1>5
-----------------------------------------------------------------------------
(* The insertion of rt_timer_start.                                        *)

(* A list is ordered by numbers given to the timers.                       *)
Ordered(list, f) == \A u, w \in Timer : Before(list, u, w) => f[u] <= f[w]

(* k is where a timer with f[t] goes in an ordered list.                   *)
Place(list, f, t, k) ==
    /\ k \in 1 .. Len(list) + 1
    /\ \A i \in 1 .. k - 1 : ~(f[t] < f[list[i]])
    /\ k <= Len(list) => f[t] < f[list[k]]

(* The search of rt_timer_start by timeouts finds the place by ticks left. *)
LEMMA InsertPlace ==
    ASSUME NEW list \in Seq(Timer), NEW t \in Timer, NEW now \in 0 .. RT_TICK_MAX,
           NEW ticks, NEW f \in [Timer -> Int],
           \A u \in Timer : InList(list, u) \/ u = t =>
             /\ ticks[u] = (now + f[u]) % Modulus
             /\ -Half <= f[u] /\ f[u] < Half
             /\ -Half <= f[u] - f[t] /\ f[u] - f[t] < Half
    PROVE  \E k : Place(list, f, t, k) /\ Insert(list, ticks, t) = InsertBefore(list, k, t)
  <1> DEFINE P(n) == /\ \A i \in 1 .. n - 1 : Passes(ticks[list[i]], ticks[t])
                     /\ n <= Len(list) => ~Passes(ticks[list[n]], ticks[t])
             k == CHOOSE n \in 1 .. Len(list) + 1 : P(n)
             S == {i \in 1 .. Len(list) : ~Passes(ticks[list[i]], ticks[t])}
  <1>1. \A i \in 1 .. Len(list) : Passes(ticks[list[i]], ticks[t]) <=> f[list[i]] <= f[t]
    <2> SUFFICES ASSUME NEW i \in 1 .. Len(list)
                 PROVE  Passes(ticks[list[i]], ticks[t]) <=> f[list[i]] <= f[t]
      OBVIOUS
    <2>1. list[i] \in Timer /\ InList(list, list[i])
      BY DEF InList
    <2>2. /\ ticks[list[i]] = (now + f[list[i]]) % Modulus
          /\ ticks[t] = (now + f[t]) % Modulus
      BY <2>1
    <2>3. /\ f[list[i]] \in Int /\ f[t] \in Int
          /\ -Half <= f[list[i]] /\ f[list[i]] < Half
          /\ -Half <= f[t] /\ f[t] < Half
          /\ -Half <= f[list[i]] - f[t] /\ f[list[i]] - f[t] < Half
      BY <2>1
    <2> HIDE DEF Passes, Half, Modulus
    <2>4. Passes((now + f[list[i]]) % Modulus, (now + f[t]) % Modulus)
            <=> f[list[i]] <= f[t]
      BY <2>3, PassesOrder
    <2> QED  BY <2>2, <2>4
  <1>2. \E n \in 1 .. Len(list) + 1 : P(n)
    <2>1. Len(list) \in Nat
      OBVIOUS
    <2>2. PICK n \in 1 .. Len(list) + 1 :
             /\ \A i \in 1 .. n - 1 : i \notin S
             /\ n <= Len(list) => n \in S
      BY <2>1, FirstPlace
    <2>3. \A i \in 1 .. n - 1 : i \in 1 .. Len(list)
      BY <2>1
    <2>4. n <= Len(list) => n \in 1 .. Len(list)
      BY <2>1
    <2> QED  BY <2>2, <2>3, <2>4
  <1>3. k \in 1 .. Len(list) + 1 /\ P(k)
    BY <1>2
  <1>4. Insert(list, ticks, t) = InsertBefore(list, k, t)
    BY DEF Insert
  <1> HIDE DEF k
  <1>5. Place(list, f, t, k)
    <2>1. \A i \in 1 .. Len(list) : list[i] \in Timer /\ f[list[i]] \in Int
      OBVIOUS
    <2>2. \A i \in 1 .. k - 1 : i \in 1 .. Len(list)
      BY <1>3
    <2>3. k <= Len(list) => k \in 1 .. Len(list)
      BY <1>3
    <2>4. \A i \in 1 .. k - 1 : ~(f[t] < f[list[i]])
      BY <1>1, <1>3, <2>1, <2>2
    <2>5. k <= Len(list) => f[t] < f[list[k]]
      BY <1>1, <1>3, <2>1, <2>3
    <2> QED  BY <1>3, <2>4, <2>5 DEF Place
  <1> QED  BY <1>4, <1>5

(* What the insertion keeps: t is linked once more, in the order of the    *)
(* ticks left, behind every timer with as many or fewer.                   *)
LEMMA PlaceKeepsOrder ==
    ASSUME NEW list \in Seq(Timer), NEW t \in Timer, NEW f \in [Timer -> Int],
           NEW k, Place(list, f, t, k), NoRepeat(list), ~InList(list, t),
           Ordered(list, f)
    PROVE  /\ InsertBefore(list, k, t) \in Seq(Timer)
           /\ NoRepeat(InsertBefore(list, k, t))
           /\ \A x : InList(InsertBefore(list, k, t), x) <=> InList(list, x) \/ x = t
           /\ Ordered(InsertBefore(list, k, t), f)
           /\ \A u \in Timer : InList(list, u) /\ f[u] <= f[t]
                => Before(InsertBefore(list, k, t), u, t)
  <1> DEFINE r == InsertBefore(list, k, t)
  <1>1. /\ k \in 1 .. Len(list) + 1
        /\ \A i \in 1 .. k - 1 : ~(f[t] < f[list[i]])
        /\ k <= Len(list) => f[t] < f[list[k]]
    BY DEF Place
  <1>2. /\ r \in Seq(Timer) /\ NoRepeat(r)
        /\ \A x : InList(r, x) <=> InList(list, x) \/ x = t
    BY <1>1, InsertBeforeFacts
  <1>3. \A i \in 1 .. k - 1 : Before(r, list[i], t)
    BY <1>1, InsertOrder
  <1>4. \A u, w \in Timer : Before(r, u, w) =>
             \/ Before(list, u, w)
             \/ u = t /\ \E v \in Timer : f[t] < f[v] /\ (v = w \/ Before(list, v, w))
             \/ w = t /\ f[u] <= f[t]
    BY <1>1, PlacedOrder
  <1> HIDE DEF r
  <1>5. ASSUME NEW u \in Timer, NEW w \in Timer, Before(r, u, w)
        PROVE  f[u] <= f[w]
    <2>1. CASE Before(list, u, w)
      BY <2>1 DEF Ordered
    <2>2. CASE u = t /\ \E v \in Timer : f[t] < f[v] /\ (v = w \/ Before(list, v, w))
      <3>1. PICK v \in Timer : f[t] < f[v] /\ (v = w \/ Before(list, v, w))
        BY <2>2
      <3>2. f[v] <= f[w]
        BY <3>1 DEF Ordered
      <3> QED  BY <2>2, <3>1, <3>2
    <2> QED  BY <1>4, <1>5, <2>1, <2>2
  <1>6. ASSUME NEW u \in Timer, InList(list, u), f[u] <= f[t]
        PROVE  Before(r, u, t)
    <2>1. PICK i \in 1 .. Len(list) : list[i] = u
      BY <1>6 DEF InList
    <2>2. CASE i \in 1 .. k - 1
      BY <1>3, <2>1, <2>2
    <2>3. CASE i \notin 1 .. k - 1
      <3>1. k \in 1 .. Len(list) /\ k <= i
        BY <1>1, <2>3
      <3>2. list[k] \in Timer /\ f[list[k]] \in Int /\ f[t] < f[list[k]]
        BY <1>1, <3>1
      <3>3. k = i \/ Before(list, list[k], u)
        BY <2>1, <3>1 DEF Before
      <3>4. f[list[k]] <= f[u]
        BY <2>1, <3>2, <3>3 DEF Ordered
      <3> QED  BY <1>6, <3>2, <3>4
    <2> QED  BY <2>2, <2>3
  <1> QED  BY <1>2, <1>5, <1>6 DEF r, Ordered
-----------------------------------------------------------------------------
(* The inductive invariant.                                                *)

Linked(t) == InList(rt_timer_list, t)

(* No timeout is so far away, or so long past, that a half-range           *)
(* comparison would mistake it: a timer is linked at most MaxLate ticks    *)
(* after its timeout, and the next check takes it out.                     *)
LeftInv ==
    \A t \in Timer : Counting(t) =>
      /\ left[t] + MaxLate < Half
      /\ left[t] >= -MaxLate - 1
      /\ pc[t] = "armed" \/ ~checking => left[t] >= -MaxLate

(* A timer that is linked while a call is about to clear its flag is one   *)
(* of the orphans; a call is for a timer that exists.                      *)
CallInv ==
    \A t \in Timer :
      /\ ClearComes(t) /\ Linked(t) => t \in orphans
      /\ ~exists[t] => pc[t] = "idle"

TimerInv ==
    /\ TypeOK
    /\ init_tick \in [Timer -> Nat]
    /\ Sorted
    /\ LinkedCanBeStopped
    /\ LeftInv
    /\ CallInv

(* The order by places in the list is the order of its timers.             *)
LEMMA SortedOrder ==
    ASSUME NEW list \in Seq(Timer), NEW f
    PROVE  Ordered(list, f) <=>
             \A i, j \in 1 .. Len(list) : i < j => f[list[i]] <= f[list[j]]
  <1>1. ASSUME Ordered(list, f), NEW i \in 1 .. Len(list), NEW j \in 1 .. Len(list), i < j
        PROVE  f[list[i]] <= f[list[j]]
    <2>1. list[i] \in Timer /\ list[j] \in Timer /\ Before(list, list[i], list[j])
      BY <1>1 DEF Before
    <2> QED  BY <1>1, <2>1 DEF Ordered
  <1>2. ASSUME \A i, j \in 1 .. Len(list) : i < j => f[list[i]] <= f[list[j]],
               NEW u \in Timer, NEW w \in Timer, Before(list, u, w)
        PROVE  f[u] <= f[w]
    BY <1>2 DEF Before
  <1> QED  BY <1>1, <1>2 DEF Ordered

(* Taking a timer out, and changing the ticks left of one that is out,     *)
(* keeps the order.                                                        *)
LEMMA RemoveKeepsOrder ==
    ASSUME NEW list \in Seq(Timer), NoRepeat(list), NEW t \in Timer,
           NEW f, Ordered(list, f), NEW g,
           \A u \in Timer : u # t => g[u] = f[u]
    PROVE  Ordered(ListRemove(list, t), g)
  <1> SUFFICES ASSUME NEW u \in Timer, NEW w \in Timer, Before(ListRemove(list, t), u, w)
               PROVE  g[u] <= g[w]
    BY DEF Ordered
  <1>1. Before(list, u, w)
    BY RemoveOrder
  <1>2. InList(ListRemove(list, t), u) /\ InList(ListRemove(list, t), w)
    BY DEF Before, InList
  <1>3. u # t /\ w # t
    BY <1>2, ListRemoveFacts
  <1> QED  BY <1>1, <1>3 DEF Ordered

-----------------------------------------------------------------------------
(* A turn of the loop of rt_timer_check.                                   *)

Fields ==
    [list : Seq(Timer), act : [Timer -> BOOLEAN], per : [Timer -> BOOLEAN],
     init : [Timer -> Nat], tick : [Timer -> 0 .. RT_TICK_MAX],
     left : [Timer -> Int], orphans : SUBSET Timer]

(* What holds of the fields while the callback of t runs.                  *)
TimesOK(s) ==
    /\ NoRepeat(s.list) /\ Ordered(s.list, s.left)
    /\ \A u \in Timer : s.init[u] \in InitTicks[u]
    /\ \A u \in Timer : pc[u] = "armed" \/ InList(s.list, u) =>
         /\ s.tick[u] = (rt_tick + s.left[u]) % Modulus
         /\ s.left[u] + MaxLate < Half
         /\ s.left[u] >= -MaxLate - 1
    /\ \A u \in Timer : pc[u] = "armed" => s.left[u] >= -MaxLate
LinksOK(s, t) ==
    /\ \A u \in Timer : InList(s.list, u) =>
         /\ exists[u] /\ (u = t \/ s.act[u] \/ u \in s.orphans)
         /\ ClearComes(u) => u \in s.orphans
    /\ \A u \in Timer : u \in s.orphans =>
         InList(s.list, u) /\ (s.act[u] => ClearComes(u))
    /\ \A u \in Timer : InList(s.list, u) /\ s.left[u] <= 0 => u # t /\ u \in DueTimers
During(s, t) == s \in Fields /\ TimesOK(s) /\ LinksOK(s, t)

(* The interrupt works for t, which is linked when its turn begins.        *)
Turn(t) ==
    t \in Timer /\ exists[t] /\ rt_tick \in 0 .. RT_TICK_MAX

(* The record of the fields, and what writing one of them does to it.      *)
Rec(list, act, per, init, tick, lft, orph) ==
    [list |-> list, act |-> act, per |-> per, init |-> init, tick |-> tick,
     left |-> lft, orphans |-> orph]
IsRec(s) == s = Rec(s.list, s.act, s.per, s.init, s.tick, s.left, s.orphans)

LEMMA WriteField ==
    ASSUME NEW s, IsRec(s), NEW v
    PROVE  /\ [s EXCEPT !.list = v] =
                Rec(v, s.act, s.per, s.init, s.tick, s.left, s.orphans)
           /\ [s EXCEPT !.act = v] =
                Rec(s.list, v, s.per, s.init, s.tick, s.left, s.orphans)
           /\ [s EXCEPT !.per = v] =
                Rec(s.list, s.act, v, s.init, s.tick, s.left, s.orphans)
           /\ [s EXCEPT !.init = v] =
                Rec(s.list, s.act, s.per, v, s.tick, s.left, s.orphans)
           /\ [s EXCEPT !.tick = v] =
                Rec(s.list, s.act, s.per, s.init, v, s.left, s.orphans)
           /\ [s EXCEPT !.left = v] =
                Rec(s.list, s.act, s.per, s.init, s.tick, v, s.orphans)
           /\ [s EXCEPT !.orphans = v] =
                Rec(s.list, s.act, s.per, s.init, s.tick, s.left, v)
  BY DEF Rec, IsRec

LEMMA ReadField ==
    ASSUME NEW l, NEW a, NEW p, NEW i, NEW k, NEW f, NEW o
    PROVE  /\ Rec(l, a, p, i, k, f, o).list = l /\ Rec(l, a, p, i, k, f, o).act = a
           /\ Rec(l, a, p, i, k, f, o).per = p /\ Rec(l, a, p, i, k, f, o).init = i
           /\ Rec(l, a, p, i, k, f, o).tick = k /\ Rec(l, a, p, i, k, f, o).left = f
           /\ Rec(l, a, p, i, k, f, o).orphans = o
           /\ IsRec(Rec(l, a, p, i, k, f, o))
  BY DEF Rec, IsRec

LEMMA FieldsRec ==
    ASSUME NEW s
    PROVE  s \in Fields <=>
             /\ IsRec(s)
             /\ s.list \in Seq(Timer) /\ s.act \in [Timer -> BOOLEAN]
             /\ s.per \in [Timer -> BOOLEAN] /\ s.init \in [Timer -> Nat]
             /\ s.tick \in [Timer -> 0 .. RT_TICK_MAX]
             /\ s.left \in [Timer -> Int] /\ s.orphans \subseteq Timer
  BY DEF Fields, Rec, IsRec

(* The fields that rt_timer_start writes.                                  *)
LEMMA StartFields ==
    ASSUME NEW s, IsRec(s), NEW u, NEW n, NEW ticks,
           ticks = [s.tick EXCEPT ![u] = (rt_tick + n) % Modulus]
    PROVE  StartIn(s, u, n) =
             Rec(Insert(ListRemove(s.list, u), ticks, u), [s.act EXCEPT ![u] = TRUE],
                 s.per, s.init, ticks, [s.left EXCEPT ![u] = n],
                 IF ClearComes(u) THEN s.orphans \cup {u} ELSE s.orphans \ {u})
  <1> DEFINE t1 == [s.tick EXCEPT ![u] = (rt_tick + n) % Modulus]
             l1 == Insert(ListRemove(s.list, u), t1, u)
             s1 == [s EXCEPT !.tick = t1]
             s2 == [s1 EXCEPT !.list = Insert(ListRemove(s1.list, u), t1, u)]
             s3 == [s2 EXCEPT !.act = [s2.act EXCEPT ![u] = TRUE]]
             s4 == [s3 EXCEPT !.left = [s3.left EXCEPT ![u] = n]]
             s5 == [s4 EXCEPT !.orphans = IF ClearComes(u) THEN s4.orphans \cup {u}
                                          ELSE s4.orphans \ {u}]
             o1 == IF ClearComes(u) THEN s.orphans \cup {u} ELSE s.orphans \ {u}
             a1 == [s.act EXCEPT ![u] = TRUE]
             f1 == [s.left EXCEPT ![u] = n]
  <1>1. StartIn(s, u, n) = s5
    BY DEF StartIn
  <1> HIDE DEF t1
  <1>2. s1 = Rec(s.list, s.act, s.per, s.init, t1, s.left, s.orphans)
    BY WriteField
  <1>3. /\ IsRec(s1) /\ s1.list = s.list /\ s1.act = s.act /\ s1.per = s.per
        /\ s1.init = s.init /\ s1.tick = t1 /\ s1.left = s.left /\ s1.orphans = s.orphans
    BY <1>2, ReadField
  <1> HIDE DEF s1, l1
  <1>4. s2 = [s1 EXCEPT !.list = l1]
    BY <1>3 DEF l1
  <1>5. [s1 EXCEPT !.list = l1] =
          Rec(l1, s1.act, s1.per, s1.init, s1.tick, s1.left, s1.orphans)
    BY <1>3, WriteField
  <1> HIDE DEF s2
  <1>6. /\ IsRec(s2) /\ s2.list = l1 /\ s2.act = s.act /\ s2.per = s.per
        /\ s2.init = s.init /\ s2.tick = t1 /\ s2.left = s.left /\ s2.orphans = s.orphans
    BY <1>3, <1>4, <1>5, ReadField
  <1> HIDE DEF a1
  <1>7. s3 = [s2 EXCEPT !.act = a1]
    BY <1>6 DEF a1
  <1>8. [s2 EXCEPT !.act = a1] =
          Rec(s2.list, a1, s2.per, s2.init, s2.tick, s2.left, s2.orphans)
    BY <1>6, WriteField
  <1> HIDE DEF s3
  <1>9. /\ IsRec(s3) /\ s3.list = l1 /\ s3.act = a1 /\ s3.per = s.per
        /\ s3.init = s.init /\ s3.tick = t1 /\ s3.left = s.left /\ s3.orphans = s.orphans
    BY <1>6, <1>7, <1>8, ReadField
  <1> HIDE DEF f1
  <1>10. s4 = [s3 EXCEPT !.left = f1]
    BY <1>9 DEF f1
  <1>11. [s3 EXCEPT !.left = f1] =
           Rec(s3.list, s3.act, s3.per, s3.init, s3.tick, f1, s3.orphans)
    BY <1>9, WriteField
  <1> HIDE DEF s4
  <1>12. /\ IsRec(s4) /\ s4.list = l1 /\ s4.act = a1 /\ s4.per = s.per
         /\ s4.init = s.init /\ s4.tick = t1 /\ s4.left = f1 /\ s4.orphans = s.orphans
    BY <1>9, <1>10, <1>11, ReadField
  <1> HIDE DEF o1
  <1>13. s5 = [s4 EXCEPT !.orphans = o1]
    BY <1>12 DEF o1
  <1> HIDE DEF s5
  <1>14. [s4 EXCEPT !.orphans = o1] =
           Rec(s4.list, s4.act, s4.per, s4.init, s4.tick, s4.left, o1)
    BY <1>12 DEF IsRec, Rec
  <1>15. s5 = Rec(l1, a1, s.per, s.init, t1, f1, o1)
    BY <1>12, <1>13, <1>14
  <1> QED  BY <1>1, <1>15 DEF l1, a1, f1, t1, o1

(* What _rt_timer_remove in the interrupt leaves of the timeout of u.      *)
Kept(f, u) == [f EXCEPT ![u] = IF pc[u] = "armed" THEN f[u] ELSE 0]

LEMMA KeptFacts ==
    ASSUME NEW f, NEW u \in Timer
    PROVE  /\ f \in [Timer -> Int] => Kept(f, u) \in [Timer -> Int]
           /\ f \in [Timer -> 0 .. RT_TICK_MAX] =>
                Kept(f, u) \in [Timer -> 0 .. RT_TICK_MAX]
           /\ f \in [Timer -> Int] \/ f \in [Timer -> 0 .. RT_TICK_MAX] =>
                \A x \in Timer : x # u \/ pc[x] = "armed" => Kept(f, u)[x] = f[x]
  <1>1. 0 \in Int /\ 0 \in 0 .. RT_TICK_MAX
    BY Ranges
  <1> QED  BY <1>1 DEF Kept

(* The fields that _rt_timer_remove writes in the interrupt.               *)
LEMMA RemovedFields ==
    ASSUME NEW s, IsRec(s), NEW u
    PROVE  Removed(s, u) =
             Rec(ListRemove(s.list, u), s.act, s.per, s.init,
                 Kept(s.tick, u), Kept(s.left, u), s.orphans \ {u})
  <1> DEFINE l1 == ListRemove(s.list, u)
             o1 == s.orphans \ {u}
             t1 == Kept(s.tick, u)
             f1 == Kept(s.left, u)
             s1 == [s EXCEPT !.list = l1]
             s2 == [s1 EXCEPT !.orphans = s1.orphans \ {u}]
             s3 == [s2 EXCEPT !.tick = Kept(s2.tick, u)]
             s4 == [s3 EXCEPT !.left = Kept(s3.left, u)]
  <1>1. Removed(s, u) = s4
    BY DEF Removed, Kept
  <1> HIDE DEF l1
  <1>2. s1 = Rec(l1, s.act, s.per, s.init, s.tick, s.left, s.orphans)
    BY WriteField
  <1>3. /\ IsRec(s1) /\ s1.list = l1 /\ s1.act = s.act /\ s1.per = s.per
        /\ s1.init = s.init /\ s1.tick = s.tick /\ s1.left = s.left
        /\ s1.orphans = s.orphans
    BY <1>2, ReadField
  <1> HIDE DEF s1, o1
  <1>4. s2 = [s1 EXCEPT !.orphans = o1]
    BY <1>3 DEF o1
  <1> HIDE DEF s2
  <1>5. [s1 EXCEPT !.orphans = o1] =
          Rec(s1.list, s1.act, s1.per, s1.init, s1.tick, s1.left, o1)
    BY <1>3 DEF IsRec, Rec
  <1>6. /\ IsRec(s2) /\ s2.list = l1 /\ s2.act = s.act /\ s2.per = s.per
        /\ s2.init = s.init /\ s2.tick = s.tick /\ s2.left = s.left /\ s2.orphans = o1
    BY <1>3, <1>4, <1>5, ReadField
  <1> HIDE DEF t1
  <1>7. s3 = [s2 EXCEPT !.tick = t1]
    BY <1>6 DEF t1
  <1>8. [s2 EXCEPT !.tick = t1] =
          Rec(s2.list, s2.act, s2.per, s2.init, t1, s2.left, s2.orphans)
    BY <1>6, WriteField
  <1> HIDE DEF s3
  <1>9. /\ IsRec(s3) /\ s3.list = l1 /\ s3.act = s.act /\ s3.per = s.per
        /\ s3.init = s.init /\ s3.tick = t1 /\ s3.left = s.left /\ s3.orphans = o1
    BY <1>6, <1>7, <1>8, ReadField
  <1> HIDE DEF f1
  <1>10. s4 = [s3 EXCEPT !.left = f1]
    BY <1>9 DEF f1
  <1>11. [s3 EXCEPT !.left = f1] =
           Rec(s3.list, s3.act, s3.per, s3.init, s3.tick, f1, s3.orphans)
    BY <1>9, WriteField
  <1> HIDE DEF s4
  <1>12. s4 = Rec(l1, s.act, s.per, s.init, t1, f1, o1)
    BY <1>9, <1>10, <1>11
  <1> QED  BY <1>1, <1>12 DEF l1, t1, f1, o1

(* A timer that a callback unlinks.                                        *)
LEMMA DuringRemoved ==
    ASSUME NEW s, NEW t, Turn(t), During(s, t), NEW u \in Timer
    PROVE  During(Removed(s, u), t) /\ ~InList(Removed(s, u).list, u)
  <1> DEFINE r == Removed(s, u)
  <1>1. /\ IsRec(s) /\ s.list \in Seq(Timer) /\ s.act \in [Timer -> BOOLEAN]
        /\ s.per \in [Timer -> BOOLEAN] /\ s.init \in [Timer -> Nat]
        /\ s.tick \in [Timer -> 0 .. RT_TICK_MAX]
        /\ s.left \in [Timer -> Int] /\ s.orphans \subseteq Timer
    BY FieldsRec DEF During
  <1>2. r = Rec(ListRemove(s.list, u), s.act, s.per, s.init,
                Kept(s.tick, u), Kept(s.left, u), s.orphans \ {u})
    BY <1>1, RemovedFields
  <1> HIDE DEF r
  <1>3. /\ IsRec(r) /\ r.list = ListRemove(s.list, u) /\ r.act = s.act /\ r.per = s.per
        /\ r.init = s.init /\ r.tick = Kept(s.tick, u)
        /\ r.left = Kept(s.left, u) /\ r.orphans = s.orphans \ {u}
    BY <1>2, ReadField
  <1>4. NoRepeat(s.list) /\ Ordered(s.list, s.left)
    BY DEF During, TimesOK
  <1>5. /\ r.list \in Seq(Timer) /\ NoRepeat(r.list)
        /\ \A x : InList(r.list, x) <=> InList(s.list, x) /\ x # u
    BY <1>1, <1>3, <1>4, ListRemoveFacts
  <1>6. /\ r.left \in [Timer -> Int] /\ r.tick \in [Timer -> 0 .. RT_TICK_MAX]
        /\ \A x \in Timer : x # u \/ pc[x] = "armed" =>
             r.left[x] = s.left[x] /\ r.tick[x] = s.tick[x]
    <2>1. /\ Kept(s.left, u) \in [Timer -> Int]
          /\ \A x \in Timer : x # u \/ pc[x] = "armed" => Kept(s.left, u)[x] = s.left[x]
      BY <1>1, KeptFacts
    <2>2. /\ Kept(s.tick, u) \in [Timer -> 0 .. RT_TICK_MAX]
          /\ \A x \in Timer : x # u \/ pc[x] = "armed" => Kept(s.tick, u)[x] = s.tick[x]
      BY <1>1, KeptFacts
    <2> QED  BY <1>3, <2>1, <2>2
  <1>7. Ordered(r.list, r.left)
    <2> DEFINE g == r.left
    <2>1. \A x \in Timer : x # u => g[x] = s.left[x]
      BY <1>6
    <2> HIDE DEF g
    <2>2. Ordered(ListRemove(s.list, u), g)
      BY <1>1, <1>4, <2>1, RemoveKeepsOrder
    <2> QED  BY <1>3, <2>2 DEF g
  <1>8. r \in Fields
    BY <1>1, <1>3, <1>5, <1>6, FieldsRec
  <1>9. TimesOK(r)
    <2>1. \A x \in Timer : pc[x] = "armed" \/ InList(r.list, x) =>
             /\ r.left[x] = s.left[x] /\ r.tick[x] = s.tick[x]
             /\ pc[x] = "armed" \/ InList(s.list, x)
      BY <1>5, <1>6
    <2> QED  BY <1>3, <1>5, <1>7, <2>1 DEF During, TimesOK
  <1>10. LinksOK(r, t)
    BY <1>3, <1>5, <1>6 DEF During, LinksOK
  <1> QED  BY <1>5, <1>8, <1>9, <1>10 DEF During, r

(* A timer that a callback, or the end of the loop's body, starts.         *)
LEMMA DuringStart ==
    ASSUME NEW s, NEW t, Turn(t), During(s, t), NEW u \in Timer,
           exists[u]
    PROVE  During(rt_timer_start(s, u), t) /\ rt_timer_start(s, u).act[u]
  <1> DEFINE n == s.init[u]
             ticks == [s.tick EXCEPT ![u] = (rt_tick + n) % Modulus]
             rest == ListRemove(s.list, u)
             f == [s.left EXCEPT ![u] = n]
             o == IF ClearComes(u) THEN s.orphans \cup {u} ELSE s.orphans \ {u}
             r == StartIn(s, u, n)
  <1>0. t \in Timer /\ rt_tick \in 0 .. RT_TICK_MAX
    BY DEF Turn
  <1>1. /\ IsRec(s) /\ s.list \in Seq(Timer) /\ s.act \in [Timer -> BOOLEAN]
        /\ s.per \in [Timer -> BOOLEAN] /\ s.init \in [Timer -> Nat]
        /\ s.tick \in [Timer -> 0 .. RT_TICK_MAX]
        /\ s.left \in [Timer -> Int] /\ s.orphans \subseteq Timer
    BY FieldsRec DEF During
  <1>2. n \in Nat /\ n > 0 /\ n + MaxLate < Half
    <2>1. n \in InitTicks[u]
      BY DEF During, TimesOK
    <2> QED  BY <2>1, Ranges
  <1>3. r = Rec(Insert(rest, ticks, u), [s.act EXCEPT ![u] = TRUE],
                s.per, s.init, ticks, f, o)
    BY <1>1, StartFields
  <1>a. /\ o \subseteq Timer /\ (u \in o <=> ClearComes(u))
        /\ \A x \in Timer : x # u => (x \in o <=> x \in s.orphans)
    BY <1>1
  <1> HIDE DEF r, n, ticks, rest, f, o
  <1>4. /\ IsRec(r) /\ r.list = Insert(rest, ticks, u)
        /\ r.act = [s.act EXCEPT ![u] = TRUE] /\ r.per = s.per
        /\ r.init = s.init /\ r.tick = ticks /\ r.left = f /\ r.orphans = o
    BY <1>3, ReadField
  <1>5. NoRepeat(s.list) /\ Ordered(s.list, s.left)
    BY DEF During, TimesOK
  <1>6. /\ rest \in Seq(Timer) /\ NoRepeat(rest)
        /\ \A x : InList(rest, x) <=> InList(s.list, x) /\ x # u
    BY <1>1, <1>5, ListRemoveFacts DEF rest
  <1>7. (rt_tick + n) % Modulus \in 0 .. RT_TICK_MAX
    BY <1>0, <1>2, Ranges, Wrap, rt_tick + n \in Int
  <1>8. /\ ticks \in [Timer -> 0 .. RT_TICK_MAX] /\ f \in [Timer -> Int]
        /\ ticks[u] = (rt_tick + n) % Modulus /\ f[u] = n
        /\ \A x \in Timer : x # u => ticks[x] = s.tick[x] /\ f[x] = s.left[x]
    BY <1>1, <1>2, <1>7 DEF ticks, f
  <1>9. Ordered(rest, f)
    BY <1>1, <1>5, <1>8, RemoveKeepsOrder DEF rest
  <1>10. \A x \in Timer : InList(rest, x) \/ x = u =>
           /\ ticks[x] = (rt_tick + f[x]) % Modulus
           /\ f[x] + MaxLate < Half /\ f[x] >= -MaxLate - 1
    <2>1. ASSUME NEW x \in Timer, InList(rest, x)
          PROVE  /\ ticks[x] = (rt_tick + f[x]) % Modulus
                 /\ f[x] + MaxLate < Half /\ f[x] >= -MaxLate - 1
      <3>1. InList(s.list, x) /\ x # u
        BY <1>6, <2>1
      <3> QED  BY <1>8, <3>1 DEF During, TimesOK
    <2> QED  BY <1>2, <1>8, <2>1, Ranges
  <1>11. \A x \in Timer : InList(rest, x) \/ x = u =>
           /\ ticks[x] = (rt_tick + f[x]) % Modulus
           /\ -Half <= f[x] /\ f[x] < Half
           /\ -Half <= f[x] - f[u] /\ f[x] - f[u] < Half
    <2> SUFFICES ASSUME NEW x \in Timer, InList(rest, x) \/ x = u
                 PROVE  /\ -Half <= f[x] /\ f[x] < Half
                        /\ -Half <= f[x] - f[u] /\ f[x] - f[u] < Half
      BY <1>10
    <2>1. /\ f[x] \in Int /\ f[u] = n /\ f[x] + MaxLate < Half /\ f[x] >= -MaxLate - 1
          /\ MaxLate \in Nat /\ Half \in Nat
      BY <1>8, <1>10, Ranges
    <2> QED  BY <1>2, <2>1
  <1>12. PICK k : Place(rest, f, u, k) /\ Insert(rest, ticks, u) = InsertBefore(rest, k, u)
    BY <1>0, <1>6, <1>8, <1>11, InsertPlace
  <1>13. ~InList(rest, u)
    BY <1>6
  <1>14. /\ r.list \in Seq(Timer) /\ NoRepeat(r.list)
         /\ \A x : InList(r.list, x) <=> InList(rest, x) \/ x = u
         /\ Ordered(r.list, f)
    <2>1. Place(rest, f, u, k) /\ rest \in Seq(Timer) /\ f \in [Timer -> Int]
      BY <1>6, <1>8, <1>12
    <2>2. /\ InsertBefore(rest, k, u) \in Seq(Timer)
          /\ NoRepeat(InsertBefore(rest, k, u))
          /\ \A x : InList(InsertBefore(rest, k, u), x) <=> InList(rest, x) \/ x = u
          /\ Ordered(InsertBefore(rest, k, u), f)
      BY <1>6, <1>9, <1>13, <2>1, PlaceKeepsOrder
    <2>3. r.list = InsertBefore(rest, k, u)
      BY <1>4, <1>12
    <2> QED  BY <2>2, <2>3
  <1>15. r.act[u] = TRUE /\ \A x \in Timer : x # u => r.act[x] = s.act[x]
    BY <1>1, <1>4, Zenon
  <1>16. r.act \in [Timer -> BOOLEAN]
    BY <1>1, <1>4
  <1>17. r \in Fields
    BY <1>1, <1>a, <1>4, <1>8, <1>14, <1>16, FieldsRec
  <1>18. TimesOK(r)
    <2>1. \A x \in Timer : r.init[x] \in InitTicks[x]
      BY <1>4 DEF During, TimesOK
    <2>2. \A x \in Timer : InList(r.list, x) =>
            /\ r.tick[x] = (rt_tick + r.left[x]) % Modulus
            /\ r.left[x] + MaxLate < Half /\ r.left[x] >= -MaxLate - 1
      BY <1>4, <1>10, <1>14
    <2>3. \A x \in Timer : pc[x] = "armed" =>
            /\ r.tick[x] = (rt_tick + r.left[x]) % Modulus
            /\ r.left[x] + MaxLate < Half /\ r.left[x] >= -MaxLate - 1
            /\ r.left[x] >= -MaxLate
      <3> SUFFICES ASSUME NEW x \in Timer, pc[x] = "armed"
                   PROVE  /\ r.tick[x] = (rt_tick + r.left[x]) % Modulus
                          /\ r.left[x] + MaxLate < Half /\ r.left[x] >= -MaxLate - 1
                          /\ r.left[x] >= -MaxLate
        OBVIOUS
      <3>1. CASE x = u
        BY <1>2, <1>4, <1>8, <3>1, Ranges
      <3>2. CASE x # u
        BY <1>4, <1>8, <3>2 DEF During, TimesOK
      <3> QED  BY <3>1, <3>2
    <2> QED  BY <1>4, <1>14, <2>1, <2>2, <2>3 DEF TimesOK
  <1>19. LinksOK(r, t)
    <2>1. \A x \in Timer : InList(r.list, x) =>
            /\ exists[x] /\ (x = t \/ r.act[x] \/ x \in r.orphans)
            /\ ClearComes(x) => x \in r.orphans
      BY <1>a, <1>4, <1>6, <1>14, <1>15 DEF During, LinksOK
    <2>2. \A x \in Timer : x \in r.orphans =>
            InList(r.list, x) /\ (r.act[x] => ClearComes(x))
      BY <1>a, <1>4, <1>6, <1>14, <1>15 DEF During, LinksOK
    <2>3. \A x \in Timer : InList(r.list, x) /\ r.left[x] <= 0 => x # t /\ x \in DueTimers
      <3> SUFFICES ASSUME NEW x \in Timer, InList(r.list, x), r.left[x] <= 0
                   PROVE  x # t /\ x \in DueTimers
        OBVIOUS
      <3>1. x # u
        BY <1>2, <1>4, <1>8
      <3>2. InList(s.list, x) /\ s.left[x] <= 0
        BY <1>4, <1>6, <1>8, <1>14, <3>1
      <3> QED  BY <3>2 DEF During, LinksOK
    <2> QED  BY <2>1, <2>2, <2>3 DEF LinksOK
  <1> QED  BY <1>4, <1>15, <1>17, <1>18, <1>19 DEF During, r, n, rt_timer_start
(* Writes that move no timer.                                              *)
LEMMA DuringWrite ==
    ASSUME NEW s, NEW t, During(s, t), NEW r, IsRec(r),
           r.list = s.list, r.tick = s.tick, r.left = s.left,
           r.act \in [Timer -> BOOLEAN], r.per \in [Timer -> BOOLEAN],
           r.init \in [Timer -> Nat], \A x \in Timer : r.init[x] \in InitTicks[x],
           \A x \in Timer : InList(s.list, x) =>
             r.act[x] = s.act[x] \/ (x = t /\ ~r.act[x]),
           s.orphans \subseteq r.orphans, r.orphans \subseteq Timer,
           \A x \in r.orphans : x \in s.orphans \/ (InList(s.list, x) /\ ~r.act[x])
    PROVE  During(r, t)
  <1>1. /\ s.list \in Seq(Timer) /\ s.tick \in [Timer -> 0 .. RT_TICK_MAX]
        /\ s.left \in [Timer -> Int]
    BY FieldsRec DEF During
  <1>2. r \in Fields
    BY <1>1, FieldsRec
  <1>3. TimesOK(r)
    BY DEF During, TimesOK
  <1>4. LinksOK(r, t)
    BY DEF During, LinksOK
  <1> QED  BY <1>2, <1>3, <1>4 DEF During

(* The flag of a timer that is not linked, or of t, is cleared.            *)
LEMMA DuringClear ==
    ASSUME NEW s, NEW t, During(s, t), NEW u \in Timer, ~InList(s.list, u) \/ u = t
    PROVE  /\ During([s EXCEPT !.act[u] = FALSE], t)
           /\ [s EXCEPT !.act[u] = FALSE].list = s.list
           /\ [s EXCEPT !.act[u] = FALSE].orphans = s.orphans
           /\ ~[s EXCEPT !.act[u] = FALSE].act[u]
  <1> DEFINE a1 == [s.act EXCEPT ![u] = FALSE]
             r == [s EXCEPT !.act[u] = FALSE]
  <1>1. /\ IsRec(s) /\ s.act \in [Timer -> BOOLEAN]
        /\ s.per \in [Timer -> BOOLEAN] /\ s.init \in [Timer -> Nat]
        /\ s.orphans \subseteq Timer
        /\ \A x \in Timer : s.init[x] \in InitTicks[x]
    BY FieldsRec DEF During, TimesOK
  <1>2. /\ a1 \in [Timer -> BOOLEAN] /\ ~a1[u]
        /\ \A x \in Timer : x # u => a1[x] = s.act[x]
    BY <1>1, Zenon
  <1>3. r = [s EXCEPT !.act = a1]
    OBVIOUS
  <1> HIDE DEF a1
  <1>4. [s EXCEPT !.act = a1] =
          Rec(s.list, a1, s.per, s.init, s.tick, s.left, s.orphans)
    BY <1>1, WriteField
  <1> HIDE DEF r
  <1>5. /\ IsRec(r) /\ r.list = s.list /\ r.act = a1 /\ r.per = s.per
        /\ r.init = s.init /\ r.tick = s.tick /\ r.left = s.left /\ r.orphans = s.orphans
    BY <1>3, <1>4, ReadField
  <1>6. \A x \in Timer : InList(s.list, x) =>
          r.act[x] = s.act[x] \/ (x = t /\ ~r.act[x])
    BY <1>2, <1>5, Zenon
  <1>7. During(r, t)
    BY <1>1, <1>2, <1>5, <1>6, DuringWrite
  <1> QED  BY <1>2, <1>5, <1>7 DEF r

(* A callback stops a timer.                                               *)
LEMMA DuringStop ==
    ASSUME NEW s, NEW t, Turn(t), During(s, t), NEW u \in Timer
    PROVE  During(rt_timer_stop(s, u), t)
  <1> DEFINE q == Removed(s, u)
  <1>1. During(q, t) /\ ~InList(q.list, u)
    BY DuringRemoved
  <1> HIDE DEF q
  <1>2. During([q EXCEPT !.act[u] = FALSE], t)
    BY <1>1, DuringClear
  <1> QED  BY <1>2 DEF q, rt_timer_stop

(* A callback sets the time of a timer, or its mode.                       *)
LEMMA DuringControl ==
    ASSUME NEW s, NEW t, During(s, t), NEW u \in Timer
    PROVE  /\ \A i \in InitTicks[u] : During([s EXCEPT !.init[u] = i], t)
           /\ \A p \in Modes[u] : During([s EXCEPT !.per[u] = p], t)
  <1>1. /\ IsRec(s) /\ s.act \in [Timer -> BOOLEAN]
        /\ s.per \in [Timer -> BOOLEAN] /\ s.init \in [Timer -> Nat]
        /\ s.orphans \subseteq Timer
        /\ \A x \in Timer : s.init[x] \in InitTicks[x]
    BY FieldsRec DEF During, TimesOK
  <1>2. ASSUME NEW i \in InitTicks[u]
        PROVE  During([s EXCEPT !.init[u] = i], t)
    <2> DEFINE i1 == [s.init EXCEPT ![u] = i]
               r == [s EXCEPT !.init[u] = i]
    <2>1. i \in Nat
      BY Ranges
    <2>2. i1 \in [Timer -> Nat] /\ \A x \in Timer : i1[x] \in InitTicks[x]
      BY <1>1, <2>1
    <2>3. r = [s EXCEPT !.init = i1]
      OBVIOUS
    <2> HIDE DEF i1
    <2>4. [s EXCEPT !.init = i1] =
            Rec(s.list, s.act, s.per, i1, s.tick, s.left, s.orphans)
      BY <1>1, WriteField
    <2> HIDE DEF r
    <2>5. /\ IsRec(r) /\ r.list = s.list /\ r.act = s.act /\ r.per = s.per
          /\ r.init = i1 /\ r.tick = s.tick /\ r.left = s.left /\ r.orphans = s.orphans
      BY <2>3, <2>4, ReadField
    <2>6. During(r, t)
      BY <1>1, <2>2, <2>5, DuringWrite
    <2> QED  BY <2>6 DEF r
  <1>3. ASSUME NEW p \in Modes[u]
        PROVE  During([s EXCEPT !.per[u] = p], t)
    <2> DEFINE p1 == [s.per EXCEPT ![u] = p]
               r == [s EXCEPT !.per[u] = p]
    <2>1. p \in BOOLEAN
      BY TimerAssumption, Zenon
    <2>2. p1 \in [Timer -> BOOLEAN]
      BY <1>1, <2>1, Zenon
    <2>3. r = [s EXCEPT !.per = p1]
      OBVIOUS
    <2> HIDE DEF p1
    <2>4. [s EXCEPT !.per = p1] =
            Rec(s.list, s.act, p1, s.init, s.tick, s.left, s.orphans)
      BY <1>1, WriteField
    <2> HIDE DEF r
    <2>5. /\ IsRec(r) /\ r.list = s.list /\ r.act = s.act /\ r.per = p1
          /\ r.init = s.init /\ r.tick = s.tick /\ r.left = s.left /\ r.orphans = s.orphans
      BY <2>3, <2>4, ReadField
    <2>6. During(r, t)
      BY <1>1, <2>2, <2>5, DuringWrite
    <2> QED  BY <2>6 DEF r
  <1> QED  BY <1>2, <1>3

(* Whatever the callback does, the fields are in order behind it.          *)
LEMMA DuringCallback ==
    ASSUME NEW s, NEW t, Turn(t), During(s, t), NEW c \in Callback(s, t)
    PROVE  During(c, t)
  <1>1. CASE c = s
    BY <1>1
  <1>2. CASE c # s
    <2>1. PICK u \in {v \in Timer : exists[v]} :
             \/ c = rt_timer_start(s, u) \/ c = rt_timer_stop(s, u)
             \/ \E i \in InitTicks[u] : c = [s EXCEPT !.init[u] = i]
             \/ \E p \in Modes[u] : c = [s EXCEPT !.per[u] = p]
      BY <1>2, Zenon DEF Callback
    <2>2. u \in Timer /\ exists[u]
      OBVIOUS
    <2>3. CASE c = rt_timer_start(s, u)
      BY <2>2, <2>3, DuringStart
    <2>4. CASE c = rt_timer_stop(s, u)
      BY <2>2, <2>4, DuringStop
    <2>5. CASE \E i \in InitTicks[u] : c = [s EXCEPT !.init[u] = i]
      BY <2>2, <2>5, DuringControl
    <2>6. CASE \E p \in Modes[u] : c = [s EXCEPT !.per[u] = p]
      BY <2>2, <2>6, DuringControl
    <2> QED  BY <2>1, <2>3, <2>4, <2>5, <2>6
  <1> QED  BY <1>1, <1>2

(* The end of the loop's body.                                             *)
LEMMA DuringAfter ==
    ASSUME NEW s, NEW t, Turn(t), During(s, t)
    PROVE  LET r == AfterCallback(s, t) IN
           During(r, t) /\ (InList(r.list, t) => r.act[t] \/ t \in r.orphans)
  <1>0. t \in Timer /\ exists[t]
    BY DEF Turn
  <1>1. CASE s.per[t] /\ s.act[t]
    <2>1. AfterCallback(s, t) = rt_timer_start(s, t)
      BY <1>1 DEF AfterCallback
    <2>2. During(rt_timer_start(s, t), t) /\ rt_timer_start(s, t).act[t]
      BY <1>0, DuringStart
    <2> QED  BY <2>1, <2>2
  <1>2. CASE ~(s.per[t] /\ s.act[t])
    <2> DEFINE q == [s EXCEPT !.act[t] = FALSE]
               o == IF InList(s.list, t) THEN q.orphans \cup {t} ELSE q.orphans
               r == [q EXCEPT !.orphans = o]
    <2>1. AfterCallback(s, t) = r
      BY <1>2 DEF AfterCallback
    <2>2. During(q, t) /\ q.list = s.list /\ q.orphans = s.orphans /\ ~q.act[t]
      BY <1>0, DuringClear
    <2> HIDE DEF q
    <2>3. /\ IsRec(q) /\ q.act \in [Timer -> BOOLEAN]
          /\ q.per \in [Timer -> BOOLEAN] /\ q.init \in [Timer -> Nat]
          /\ q.orphans \subseteq Timer
          /\ \A x \in Timer : q.init[x] \in InitTicks[x]
      BY <2>2, FieldsRec DEF During, TimesOK
    <2>4. /\ q.orphans \subseteq o /\ o \subseteq Timer
          /\ InList(q.list, t) => t \in o
          /\ \A x \in o : x \in q.orphans \/ (InList(q.list, x) /\ x = t)
      BY <1>0, <2>2, <2>3
    <2> HIDE DEF o
    <2>5. r = Rec(q.list, q.act, q.per, q.init, q.tick, q.left, o)
      BY <2>3, WriteField
    <2> HIDE DEF r
    <2>6. /\ IsRec(r) /\ r.list = q.list /\ r.act = q.act /\ r.per = q.per
          /\ r.init = q.init /\ r.tick = q.tick /\ r.left = q.left /\ r.orphans = o
      BY <2>5, ReadField
    <2>7. During(r, t)
      BY <2>2, <2>3, <2>4, <2>6, DuringWrite
    <2> QED  BY <2>1, <2>4, <2>6, <2>7
  <1> QED  BY <1>1, <1>2
-----------------------------------------------------------------------------
(* The invariant, timer by timer.                                          *)

TimerOK(t) ==
    /\ Counting(t) =>
         /\ timeout_tick[t] = (rt_tick + left[t]) % Modulus
         /\ left[t] + MaxLate < Half /\ left[t] >= -MaxLate - 1
         /\ pc[t] = "armed" \/ ~checking => left[t] >= -MaxLate
    /\ Linked(t) =>
         /\ exists[t] /\ (activated[t] \/ t \in orphans)
         /\ ClearComes(t) => t \in orphans
    /\ t \in orphans => Linked(t) /\ (activated[t] => ClearComes(t))
    /\ ~exists[t] => pc[t] = "idle"
ListOK == NoRepeat(rt_timer_list) /\ Ordered(rt_timer_list, left)
TypesOK == TypeOK /\ init_tick \in [Timer -> Nat]
EachOK == \A t \in Timer : TimerOK(t)

LEMMA ByTimer == TimerInv <=> TypesOK /\ ListOK /\ EachOK
  <1>1. ASSUME TypeOK
        PROVE  Sorted <=>
                 /\ ListOK
                 /\ \A t \in Timer : Counting(t) => timeout_tick[t] = (rt_tick + left[t]) % Modulus
    <2>1. rt_timer_list \in Seq(Timer)
      BY <1>1 DEF TypeOK
    <2>2. Ordered(rt_timer_list, left) <=>
            \A i, j \in 1 .. Len(rt_timer_list) :
              i < j => left[rt_timer_list[i]] <= left[rt_timer_list[j]]
      BY <2>1, SortedOrder
    <2> QED  BY <2>2 DEF Sorted, ListOK
  <1>2. ASSUME TimerInv  PROVE TypesOK /\ ListOK /\ EachOK
    BY <1>1, <1>2 DEF TimerInv, TypesOK, EachOK, TimerOK, LeftInv, CallInv,
                      LinkedCanBeStopped, Linked
  <1>3. ASSUME TypesOK, ListOK, EachOK  PROVE TimerInv
    <2>1. Sorted
      BY <1>1, <1>3 DEF TypesOK, EachOK, TimerOK
    <2>2. LinkedCanBeStopped
      <3>1. orphans \subseteq Timer
        BY <1>3 DEF TypesOK, TypeOK
      <3> QED  BY <1>3, <3>1 DEF LinkedCanBeStopped, EachOK, TimerOK, Linked
    <2>3. LeftInv
      BY <1>3 DEF LeftInv, EachOK, TimerOK
    <2>4. CallInv
      BY <1>3 DEF CallInv, EachOK, TimerOK, Linked
    <2> QED  BY <1>3, <2>1, <2>2, <2>3, <2>4 DEF TimerInv, TypesOK
  <1> QED  BY <1>2, <1>3

(* A step leaves a timer alone.                                            *)
LEMMA Alone ==
    ASSUME NEW u \in Timer, TimerOK(u), rt_tick' = rt_tick, checking' = checking,
           Linked(u)' <=> Linked(u), activated'[u] = activated[u],
           timeout_tick'[u] = timeout_tick[u], left'[u] = left[u],
           exists'[u] = exists[u], pc'[u] = pc[u], u \in orphans' <=> u \in orphans
    PROVE  TimerOK(u)'
  BY DEF TimerOK, Counting, Linked, ClearComes

(* What _rt_timer_remove does in a call from a thread.                     *)
LEMMA RemoveStep ==
    ASSUME TypesOK, ListOK, NEW t \in Timer, _rt_timer_remove(t)
    PROVE  /\ rt_timer_list' \in Seq(Timer) /\ ListOK'
           /\ timeout_tick' \in [Timer -> 0 .. RT_TICK_MAX]
           /\ left' \in [Timer -> Int] /\ orphans' \subseteq Timer
           /\ ~Linked(t)' /\ t \notin orphans'
           /\ \A u \in Timer : u # t =>
                /\ Linked(u)' <=> Linked(u)
                /\ timeout_tick'[u] = timeout_tick[u] /\ left'[u] = left[u]
                /\ u \in orphans' <=> u \in orphans
  <1>1. /\ rt_timer_list \in Seq(Timer) /\ NoRepeat(rt_timer_list)
        /\ Ordered(rt_timer_list, left) /\ left \in [Timer -> Int]
        /\ timeout_tick \in [Timer -> 0 .. RT_TICK_MAX] /\ orphans \subseteq Timer
    BY DEF TypesOK, TypeOK, ListOK
  <1>2. /\ rt_timer_list' = ListRemove(rt_timer_list, t)
        /\ timeout_tick' = [timeout_tick EXCEPT ![t] = 0]
        /\ left' = [left EXCEPT ![t] = 0] /\ orphans' = orphans \ {t}
    BY DEF _rt_timer_remove
  <1>3. /\ rt_timer_list' \in Seq(Timer) /\ NoRepeat(rt_timer_list')
        /\ \A x : InList(rt_timer_list', x) <=> InList(rt_timer_list, x) /\ x # t
    BY <1>1, <1>2, ListRemoveFacts
  <1>4. /\ timeout_tick' \in [Timer -> 0 .. RT_TICK_MAX] /\ left' \in [Timer -> Int]
        /\ \A u \in Timer : u # t => timeout_tick'[u] = timeout_tick[u] /\ left'[u] = left[u]
    BY <1>1, <1>2, Ranges
  <1>5. Ordered(rt_timer_list', left')
    <2>1. Ordered(ListRemove(rt_timer_list, t), left')
      BY <1>1, <1>4, RemoveKeepsOrder
    <2> QED  BY <1>2, <2>1
  <1>6. ListOK'
    BY <1>3, <1>5 DEF ListOK, Ordered
  <1> QED  BY <1>1, <1>2, <1>3, <1>4, <1>6 DEF Linked
-----------------------------------------------------------------------------
(* The calls from threads keep the invariant.                              *)

TimersOK == TypesOK /\ ListOK /\ EachOK

LEMMA StartRemoveKeeps ==
    ASSUME TimersOK, NEW t \in Timer, StartRemove(t)
    PROVE  TimersOK'
  <1>1. /\ rt_timer_list' \in Seq(Timer) /\ ListOK'
        /\ timeout_tick' \in [Timer -> 0 .. RT_TICK_MAX]
        /\ left' \in [Timer -> Int] /\ orphans' \subseteq Timer
        /\ ~Linked(t)' /\ t \notin orphans'
        /\ \A u \in Timer : u # t =>
             /\ Linked(u)' <=> Linked(u)
             /\ timeout_tick'[u] = timeout_tick[u] /\ left'[u] = left[u]
             /\ u \in orphans' <=> u \in orphans
    BY RemoveStep DEF StartRemove, TimersOK
  <1>2. /\ activated \in [Timer -> BOOLEAN] /\ pc \in [Timer -> Pcs]
        /\ activated' = [activated EXCEPT ![t] = FALSE]
        /\ pc' = [pc EXCEPT ![t] = "removed"]
        /\ UNCHANGED <<rt_tick, periodic, init_tick, exists, checking>>
        /\ exists[t]
    BY DEF StartRemove, MayCall, TimersOK, TypesOK, TypeOK
  <1>3. activated' \in [Timer -> BOOLEAN]
    BY <1>2, Zenon
  <1>4. pc' \in [Timer -> Pcs] /\ pc'[t] = "removed"
    BY <1>2 DEF Pcs
  <1>5. TypesOK'
    BY <1>1, <1>2, <1>3, <1>4 DEF TimersOK, TypesOK, TypeOK
  <1>6. \A u \in Timer : u # t => activated'[u] = activated[u] /\ pc'[u] = pc[u]
    BY <1>2, Zenon
  <1>7. \A u \in Timer : u # t => TimerOK(u)'
    BY <1>1, <1>2, <1>6, Alone DEF TimersOK, EachOK
  <1>8. TimerOK(t)'
    BY <1>1, <1>2, <1>4 DEF TimerOK, Counting, Linked
  <1> QED  BY <1>1, <1>5, <1>7, <1>8 DEF TimersOK, EachOK

LEMMA StartArmKeeps ==
    ASSUME TimersOK, NEW t \in Timer, StartArm(t)
    PROVE  TimersOK'
  <1>1. /\ pc \in [Timer -> Pcs] /\ pc[t] = "removed" /\ ~Linked(t) /\ left \in [Timer -> Int]
        /\ timeout_tick \in [Timer -> 0 .. RT_TICK_MAX] /\ rt_tick \in 0 .. RT_TICK_MAX
        /\ init_tick[t] \in InitTicks[t]
        /\ timeout_tick' = [timeout_tick EXCEPT ![t] = (rt_tick + init_tick[t]) % Modulus]
        /\ left' = [left EXCEPT ![t] = init_tick[t]]
        /\ pc' = [pc EXCEPT ![t] = "armed"]
        /\ UNCHANGED <<rt_tick, rt_timer_list, activated, periodic, init_tick, exists,
                       checking, orphans>>
    BY DEF StartArm, Timeout, Linked, TimersOK, TypesOK, TypeOK
  <1>2. init_tick[t] \in Nat /\ init_tick[t] > 0 /\ init_tick[t] + MaxLate < Half
    BY <1>1, Ranges
  <1>3. (rt_tick + init_tick[t]) % Modulus \in 0 .. RT_TICK_MAX
    BY <1>1, <1>2, Ranges, Wrap, rt_tick + init_tick[t] \in Int
  <1>4. /\ timeout_tick' \in [Timer -> 0 .. RT_TICK_MAX] /\ left' \in [Timer -> Int]
        /\ timeout_tick'[t] = (rt_tick + init_tick[t]) % Modulus
        /\ left'[t] = init_tick[t]
    BY <1>1, <1>2, <1>3
  <1>5. pc' \in [Timer -> Pcs] /\ pc'[t] = "armed"
    BY <1>1 DEF Pcs
  <1>6. \A u \in Timer : u # t =>
          /\ pc'[u] = pc[u] /\ timeout_tick'[u] = timeout_tick[u] /\ left'[u] = left[u]
    BY <1>1
  <1>7. TypesOK'
    BY <1>1, <1>4, <1>5 DEF TimersOK, TypesOK, TypeOK
  <1>8. TimerOK(t) /\ t \notin orphans
    BY <1>1 DEF TimersOK, EachOK, TimerOK
  <1>9. ListOK'
    <2>1. Ordered(rt_timer_list, left) /\ NoRepeat(rt_timer_list)
      BY DEF TimersOK, ListOK
    <2>2. \A u, w \in Timer : Before(rt_timer_list, u, w) => u # t /\ w # t
      BY <1>1 DEF Before, Linked, InList
    <2>3. Ordered(rt_timer_list, left')
      BY <1>6, <2>1, <2>2 DEF Ordered
    <2> QED  BY <1>1, <2>1, <2>3 DEF ListOK, Ordered
  <1>10. \A u \in Timer : Linked(u)' <=> Linked(u)
    BY <1>1 DEF Linked
  <1>11. \A u \in Timer : u # t => TimerOK(u)'
    BY <1>1, <1>6, <1>10, Alone DEF TimersOK, EachOK
  <1>12. TimerOK(t)'
    <2>1. -MaxLate - 1 <= left'[t] /\ -MaxLate <= left'[t]
      BY <1>2, <1>4, Ranges
    <2>2. exists'[t] /\ ~Linked(t)' /\ t \notin orphans'
      BY <1>1, <1>8, <1>10 DEF TimerOK
    <2> QED  BY <1>1, <1>2, <1>4, <1>5, <2>1, <2>2 DEF TimerOK
  <1> QED  BY <1>7, <1>9, <1>11, <1>12 DEF TimersOK, EachOK

(* The insertion, with what OnTime says of it.                             *)
LEMMA StartInsertKeeps ==
    ASSUME TimersOK, ~checking, NEW t \in Timer, StartInsert(t)
    PROVE  /\ TimersOK'
           /\ \A u \in Timer : Linked(u) /\ left[u] <= left[t]
                => Before(rt_timer_list', u, t)
  <1>1. /\ pc \in [Timer -> Pcs] /\ pc[t] = "armed" /\ ~Linked(t) /\ left \in [Timer -> Int]
        /\ rt_timer_list \in Seq(Timer) /\ rt_tick \in 0 .. RT_TICK_MAX
        /\ activated \in [Timer -> BOOLEAN]
        /\ rt_timer_list' = Insert(rt_timer_list, timeout_tick, t)
        /\ activated' = [activated EXCEPT ![t] = TRUE]
        /\ pc' = [pc EXCEPT ![t] = "idle"]
        /\ UNCHANGED <<rt_tick, periodic, init_tick, timeout_tick, exists, checking,
                       left, orphans>>
    BY DEF StartInsert, history, Linked, TimersOK, TypesOK, TypeOK
  <1>2. NoRepeat(rt_timer_list) /\ Ordered(rt_timer_list, left)
    BY DEF TimersOK, ListOK
  <1>3. TimerOK(t) /\ t \notin orphans /\ Counting(t) /\ exists[t]
    BY <1>1 DEF TimersOK, EachOK, TimerOK, Counting
  <1>4. \A u \in Timer : Linked(u) \/ u = t =>
          /\ timeout_tick[u] = (rt_tick + left[u]) % Modulus
          /\ left[u] + MaxLate < Half /\ left[u] >= -MaxLate
    <2> SUFFICES ASSUME NEW u \in Timer, Linked(u) \/ u = t
                 PROVE  /\ timeout_tick[u] = (rt_tick + left[u]) % Modulus
                        /\ left[u] + MaxLate < Half /\ left[u] >= -MaxLate
      OBVIOUS
    <2>1. Counting(u) /\ TimerOK(u)
      BY <1>3 DEF Counting, Linked, TimersOK, EachOK
    <2> QED  BY <2>1 DEF TimerOK
  <1>5. \A u \in Timer : InList(rt_timer_list, u) \/ u = t =>
          /\ timeout_tick[u] = (rt_tick + left[u]) % Modulus
          /\ -Half <= left[u] /\ left[u] < Half
          /\ -Half <= left[u] - left[t] /\ left[u] - left[t] < Half
    <2> SUFFICES ASSUME NEW u \in Timer, Linked(u) \/ u = t
                 PROVE  /\ -Half <= left[u] /\ left[u] < Half
                        /\ -Half <= left[u] - left[t] /\ left[u] - left[t] < Half
      BY <1>4 DEF Linked
    <2>1. /\ left[u] \in Int /\ left[t] \in Int /\ MaxLate \in Nat /\ Half \in Nat
          /\ left[u] + MaxLate < Half /\ left[u] >= -MaxLate
          /\ left[t] + MaxLate < Half /\ left[t] >= -MaxLate
      BY <1>1, <1>4, Ranges
    <2>2. MaxLate < Half
      BY Ranges DEF TimersOK, TypesOK, TypeOK
    <2> QED  BY <2>1, <2>2
  <1>6. PICK k : /\ Place(rt_timer_list, left, t, k)
                 /\ rt_timer_list' = InsertBefore(rt_timer_list, k, t)
    <2>1. \E k : /\ Place(rt_timer_list, left, t, k)
                 /\ Insert(rt_timer_list, timeout_tick, t) = InsertBefore(rt_timer_list, k, t)
      BY <1>1, <1>5, InsertPlace
    <2> QED  BY <1>1, <2>1
  <1>7. /\ rt_timer_list' \in Seq(Timer) /\ NoRepeat(rt_timer_list')
        /\ \A x : InList(rt_timer_list', x) <=> InList(rt_timer_list, x) \/ x = t
        /\ Ordered(rt_timer_list', left)
        /\ \A u \in Timer : InList(rt_timer_list, u) /\ left[u] <= left[t]
             => Before(rt_timer_list', u, t)
    <2> DEFINE r == InsertBefore(rt_timer_list, k, t)
    <2>1. /\ r \in Seq(Timer) /\ NoRepeat(r)
          /\ \A x : InList(r, x) <=> InList(rt_timer_list, x) \/ x = t
          /\ Ordered(r, left)
          /\ \A u \in Timer : InList(rt_timer_list, u) /\ left[u] <= left[t]
               => Before(r, u, t)
      BY <1>1, <1>2, <1>6, PlaceKeepsOrder DEF Linked
    <2> HIDE DEF r
    <2> QED  BY <1>6, <2>1 DEF r
  <1>8. ListOK'
    BY <1>1, <1>7 DEF ListOK, Ordered
  <1>9. activated' \in [Timer -> BOOLEAN] /\ activated'[t] = TRUE
    BY <1>1, Zenon
  <1>10. pc' \in [Timer -> Pcs] /\ pc'[t] = "idle"
    BY <1>1 DEF Pcs
  <1>11. TypesOK'
    BY <1>1, <1>7, <1>9, <1>10 DEF TimersOK, TypesOK, TypeOK
  <1>12. \A u \in Timer : u # t =>
           /\ pc'[u] = pc[u] /\ activated'[u] = activated[u] /\ (Linked(u)' <=> Linked(u))
    <2>1. \A u \in Timer : u # t => pc'[u] = pc[u] /\ activated'[u] = activated[u]
      BY <1>1, Zenon
    <2> QED  BY <1>7, <2>1 DEF Linked
  <1>13. \A u \in Timer : u # t => TimerOK(u)'
    BY <1>1, <1>12, Alone DEF TimersOK, EachOK
  <1>14. TimerOK(t)'
    <2>1. /\ timeout_tick[t] = (rt_tick + left[t]) % Modulus
          /\ left[t] + MaxLate < Half /\ left[t] >= -MaxLate - 1 /\ left[t] >= -MaxLate
      BY <1>3, <1>4 DEF TimerOK
    <2> QED  BY <1>1, <1>3, <1>9, <1>10, <2>1 DEF TimerOK, ClearComes
  <1> QED  BY <1>7, <1>8, <1>11, <1>13, <1>14 DEF TimersOK, EachOK, Linked
(* A thread enters or leaves a part of a call and moves no timer.          *)
LEMMA MoveKeeps ==
    ASSUME TimersOK, NEW t \in Timer, NEW p \in Pcs, pc' = [pc EXCEPT ![t] = p],
           p # "armed", pc[t] # "armed", exists[t],
           activated' \in [Timer -> BOOLEAN], periodic' \in [Timer -> BOOLEAN],
           orphans' \subseteq Timer,
           \A u \in Timer : u # t =>
             activated'[u] = activated[u] /\ (u \in orphans' <=> u \in orphans),
           Linked(t) => activated'[t] \/ t \in orphans',
           Linked(t) /\ p \in {"unlinked", "set_off"} => t \in orphans',
           t \in orphans' =>
             Linked(t) /\ (activated'[t] => p \in {"unlinked", "set_off"}),
           UNCHANGED <<rt_tick, rt_timer_list, init_tick, timeout_tick, exists, checking,
                       left>>
    PROVE  TimersOK'
  <1>1. pc \in [Timer -> Pcs]
    BY DEF TimersOK, TypesOK, TypeOK
  <1>2. /\ pc' \in [Timer -> Pcs] /\ pc'[t] = p
        /\ \A u \in Timer : u # t => pc'[u] = pc[u]
    BY <1>1
  <1>3. TypesOK'
    BY <1>2 DEF TimersOK, TypesOK, TypeOK
  <1>4. ListOK'
    BY DEF TimersOK, ListOK, Ordered
  <1>5. \A u \in Timer : Linked(u)' <=> Linked(u)
    BY DEF Linked
  <1>6. \A u \in Timer : u # t => TimerOK(u)'
    BY <1>2, <1>5, Alone DEF TimersOK, EachOK
  <1>7. TimerOK(t)'
    <2>1. TimerOK(t)
      BY DEF TimersOK, EachOK
    <2>2. ClearComes(t)' <=> p \in {"unlinked", "set_off"}
      BY <1>2 DEF ClearComes
    <2>3. Counting(t)' => Linked(t)
      BY <1>2, <1>5 DEF Counting, Linked
    <2>4. Linked(t) => Counting(t)
      BY DEF Counting, Linked
    <2> QED  BY <1>2, <1>5, <2>1, <2>2, <2>3, <2>4 DEF TimerOK
  <1> QED  BY <1>3, <1>4, <1>6, <1>7 DEF TimersOK, EachOK

LEMMA StopTestKeeps ==
    ASSUME TimersOK, NEW t \in Timer, StopTest(t)
    PROVE  TimersOK'
  <1>1. /\ pc' = [pc EXCEPT ![t] = "stopping"] /\ exists[t] /\ pc[t] = "idle"
        /\ UNCHANGED <<rt_tick, rt_timer_list, activated, periodic, init_tick,
                       timeout_tick, exists, checking, left, orphans>>
    BY DEF StopTest, MayCall, fields, history
  <1>2. activated \in [Timer -> BOOLEAN] /\ periodic \in [Timer -> BOOLEAN]
    BY DEF TimersOK, TypesOK, TypeOK
  <1>3. "stopping" \in Pcs /\ "stopping" \notin {"armed", "unlinked", "set_off"}
    BY DEF Pcs
  <1>4. orphans \subseteq Timer
    BY DEF TimersOK, TypesOK, TypeOK
  <1>5. TimerOK(t) /\ ~ClearComes(t)
    BY <1>1 DEF TimersOK, EachOK, ClearComes
  <1>6. /\ Linked(t) => activated[t] \/ t \in orphans
        /\ t \in orphans => Linked(t) /\ ~activated[t]
    BY <1>5 DEF TimerOK
  <1> QED  BY <1>1, <1>2, <1>3, <1>4, <1>6, MoveKeeps

LEMMA StopRemoveKeeps ==
    ASSUME TimersOK, NEW t \in Timer, StopRemove(t)
    PROVE  TimersOK'
  <1>1. /\ rt_timer_list' \in Seq(Timer) /\ ListOK'
        /\ timeout_tick' \in [Timer -> 0 .. RT_TICK_MAX]
        /\ left' \in [Timer -> Int] /\ orphans' \subseteq Timer
        /\ ~Linked(t)' /\ t \notin orphans'
        /\ \A u \in Timer : u # t =>
             /\ Linked(u)' <=> Linked(u)
             /\ timeout_tick'[u] = timeout_tick[u] /\ left'[u] = left[u]
             /\ u \in orphans' <=> u \in orphans
    BY RemoveStep DEF StopRemove, TimersOK
  <1>2. /\ pc \in [Timer -> Pcs] /\ pc[t] = "stopping"
        /\ pc' = [pc EXCEPT ![t] = "unlinked"]
        /\ UNCHANGED <<rt_tick, activated, periodic, init_tick, exists, checking>>
    BY DEF StopRemove, TimersOK, TypesOK, TypeOK
  <1>3. exists[t]
    BY <1>2 DEF TimersOK, EachOK, TimerOK
  <1>4. /\ pc' \in [Timer -> Pcs] /\ pc'[t] = "unlinked"
        /\ \A u \in Timer : u # t => pc'[u] = pc[u]
    BY <1>2 DEF Pcs
  <1>5. TypesOK'
    BY <1>1, <1>2, <1>4 DEF TimersOK, TypesOK, TypeOK
  <1>6. \A u \in Timer : u # t => TimerOK(u)'
    BY <1>1, <1>2, <1>4, Alone DEF TimersOK, EachOK
  <1>7. TimerOK(t)'
    BY <1>1, <1>2, <1>3, <1>4 DEF TimerOK, Counting, Linked
  <1> QED  BY <1>1, <1>5, <1>6, <1>7 DEF TimersOK, EachOK

LEMMA StopClearKeeps ==
    ASSUME TimersOK, NEW t \in Timer, StopClear(t)
    PROVE  TimersOK'
  <1>1. /\ pc' = [pc EXCEPT ![t] = "idle"] /\ pc[t] = "unlinked"
        /\ activated' = [activated EXCEPT ![t] = FALSE]
        /\ UNCHANGED <<rt_tick, rt_timer_list, periodic, init_tick,
                       timeout_tick, exists, checking, left, orphans>>
    BY DEF StopClear, history
  <1>2. activated \in [Timer -> BOOLEAN] /\ periodic \in [Timer -> BOOLEAN]
    BY DEF TimersOK, TypesOK, TypeOK
  <1>3. /\ exists[t] /\ orphans \subseteq Timer
        /\ Linked(t) <=> t \in orphans
    <2>1. TimerOK(t) /\ ClearComes(t)
      BY <1>1 DEF TimersOK, EachOK, ClearComes
    <2> QED  BY <1>1, <2>1 DEF TimerOK, TimersOK, TypesOK, TypeOK
  <1>4. "idle" \in Pcs
    BY DEF Pcs
  <1>5. /\ activated' \in [Timer -> BOOLEAN] /\ ~activated'[t]
        /\ \A u \in Timer : u # t => activated'[u] = activated[u]
    BY <1>1, <1>2, Zenon
  <1>6. "idle" \notin {"armed", "unlinked", "set_off"} /\ pc[t] # "armed"
    BY <1>1
  <1> QED  BY <1>1, <1>2, <1>3, <1>4, <1>5, <1>6, MoveKeeps

LEMMA ControlReadKeeps ==
    ASSUME TimersOK, NEW t \in Timer, ControlRead(t)
    PROVE  TimersOK'
  <1> DEFINE p == IF activated[t] THEN "set_on" ELSE "set_off"
  <1>1. /\ pc' = [pc EXCEPT ![t] = p] /\ exists[t] /\ pc[t] = "idle"
        /\ UNCHANGED <<rt_tick, rt_timer_list, activated, periodic, init_tick,
                       timeout_tick, exists, checking, left, orphans>>
    BY DEF ControlRead, MayCall, fields, history
  <1>2. activated \in [Timer -> BOOLEAN] /\ periodic \in [Timer -> BOOLEAN]
    BY DEF TimersOK, TypesOK, TypeOK
  <1>3. /\ p \in Pcs /\ p # "armed"
        /\ p \in {"unlinked", "set_off"} <=> ~activated[t]
    BY DEF Pcs
  <1>4. /\ Linked(t) => activated[t] \/ t \in orphans
        /\ t \in orphans => Linked(t) /\ ~activated[t]
        /\ orphans \subseteq Timer
    <2>1. TimerOK(t) /\ ~ClearComes(t)
      BY <1>1 DEF TimersOK, EachOK, ClearComes
    <2> QED  BY <2>1 DEF TimerOK, TimersOK, TypesOK, TypeOK
  <1> HIDE DEF p
  <1> QED  BY <1>1, <1>2, <1>3, <1>4, MoveKeeps

LEMMA ControlWriteKeeps ==
    ASSUME TimersOK, NEW t \in Timer, ControlWrite(t)
    PROVE  TimersOK'
  <1>1. /\ pc' = [pc EXCEPT ![t] = "idle"] /\ pc[t] \in {"set_on", "set_off"}
        /\ activated' = [activated EXCEPT ![t] = (pc[t] = "set_on")]
        /\ \E q \in Modes[t] : periodic' = [periodic EXCEPT ![t] = q]
        /\ orphans' = IF pc[t] = "set_on" THEN orphans \ {t} ELSE orphans
        /\ UNCHANGED <<rt_tick, rt_timer_list, init_tick,
                       timeout_tick, exists, checking, left>>
    BY DEF ControlWrite
  <1>2. activated \in [Timer -> BOOLEAN] /\ periodic \in [Timer -> BOOLEAN]
    BY DEF TimersOK, TypesOK, TypeOK
  <1>3. TimerOK(t) /\ exists[t] /\ pc[t] # "armed"
    BY <1>1 DEF TimersOK, EachOK, TimerOK
  <1>4. "idle" \in Pcs /\ "idle" \notin {"armed", "unlinked", "set_off"}
    BY DEF Pcs
  <1>5. /\ activated' \in [Timer -> BOOLEAN] /\ (activated'[t] <=> pc[t] = "set_on")
        /\ \A u \in Timer : u # t => activated'[u] = activated[u]
    BY <1>1, <1>2, Zenon
  <1>6. periodic' \in [Timer -> BOOLEAN]
    <2>1. \A q \in Modes[t] : q \in BOOLEAN
      BY TimerAssumption, Zenon
    <2> QED  BY <1>1, <1>2, <2>1, Zenon
  <1>7. /\ orphans' \subseteq Timer
        /\ \A u \in Timer : u # t => (u \in orphans' <=> u \in orphans)
    BY <1>1 DEF TimersOK, TypesOK, TypeOK
  <1>8. /\ Linked(t) => activated'[t] \/ t \in orphans'
        /\ t \in orphans' => Linked(t) /\ ~activated'[t]
    <2>1. CASE pc[t] = "set_off"
      <3>1. ClearComes(t) /\ orphans' = orphans /\ ~activated'[t]
        BY <1>1, <1>5, <2>1 DEF ClearComes
      <3> QED  BY <1>3, <3>1 DEF TimerOK
    <2>2. CASE pc[t] = "set_on"
      BY <1>1, <1>5, <2>2
    <2> QED  BY <1>1, <2>1, <2>2
  <1> QED  BY <1>1, <1>2, <1>3, <1>4, <1>5, <1>6, <1>7, <1>8, MoveKeeps

LEMMA ControlTimeKeeps ==
    ASSUME TimersOK, NEW t \in Timer, ControlTime(t)
    PROVE  TimersOK'
  <1>1. PICK i \in InitTicks[t] : init_tick' = [init_tick EXCEPT ![t] = i]
    BY DEF ControlTime
  <1>2. UNCHANGED <<rt_tick, rt_timer_list, activated, periodic, timeout_tick, exists, pc,
                    checking, left, orphans>>
    BY DEF ControlTime, history
  <1>3. i \in Nat
    BY Ranges
  <1>4. init_tick \in [Timer -> Nat] /\ \A u \in Timer : init_tick[u] \in InitTicks[u]
    BY DEF TimersOK, TypesOK, TypeOK
  <1>5. init_tick' \in [Timer -> Nat] /\ \A u \in Timer : init_tick'[u] \in InitTicks[u]
    BY <1>1, <1>3, <1>4
  <1>6. TypesOK'
    BY <1>2, <1>5 DEF TimersOK, TypesOK, TypeOK
  <1>7. ListOK'
    BY <1>2 DEF TimersOK, ListOK, Ordered
  <1>8. EachOK'
    BY <1>2 DEF TimersOK, EachOK, TimerOK, Counting, Linked, ClearComes
  <1> QED  BY <1>6, <1>7, <1>8 DEF TimersOK

LEMMA DeleteKeeps ==
    ASSUME TimersOK, NEW t \in Timer, rt_timer_delete(t)
    PROVE  TimersOK'
  <1> DEFINE p == CHOOSE q \in Modes[t] : TRUE
             i == CHOOSE j \in InitTicks[t] : TRUE
  <1>1. /\ rt_timer_list' \in Seq(Timer) /\ ListOK'
        /\ timeout_tick' \in [Timer -> 0 .. RT_TICK_MAX]
        /\ left' \in [Timer -> Int] /\ orphans' \subseteq Timer
        /\ ~Linked(t)' /\ t \notin orphans'
        /\ \A u \in Timer : u # t =>
             /\ Linked(u)' <=> Linked(u)
             /\ timeout_tick'[u] = timeout_tick[u] /\ left'[u] = left[u]
             /\ u \in orphans' <=> u \in orphans
    BY RemoveStep DEF rt_timer_delete, TimersOK
  <1>2. /\ pc[t] = "idle"
        /\ exists' = [exists EXCEPT ![t] = FALSE]
        /\ activated' = [activated EXCEPT ![t] = FALSE]
        /\ periodic' = [periodic EXCEPT ![t] = p]
        /\ init_tick' = [init_tick EXCEPT ![t] = i]
        /\ UNCHANGED <<rt_tick, pc, checking>>
    BY DEF rt_timer_delete, MayCall
  <1>3. /\ exists \in [Timer -> BOOLEAN] /\ activated \in [Timer -> BOOLEAN]
        /\ periodic \in [Timer -> BOOLEAN] /\ init_tick \in [Timer -> Nat]
        /\ \A u \in Timer : init_tick[u] \in InitTicks[u]
    BY DEF TimersOK, TypesOK, TypeOK
  <1>4. p \in BOOLEAN /\ i \in InitTicks[t] /\ i \in Nat
    <2>1. Modes[t] \in (SUBSET BOOLEAN) \ {{}} /\ InitTicks[t] \in (SUBSET Nat) \ {{}}
      BY TimerAssumption, Zenon
    <2>2. p \in Modes[t] /\ i \in InitTicks[t]
      BY <2>1
    <2>3. p \in BOOLEAN
      BY <2>1, <2>2, Zenon
    <2> QED  BY <2>2, <2>3, Ranges
  <1> HIDE DEF p, i
  <1>5. /\ exists' \in [Timer -> BOOLEAN] /\ activated' \in [Timer -> BOOLEAN]
        /\ periodic' \in [Timer -> BOOLEAN]
    BY <1>2, <1>3, <1>4, Zenon
  <1>6. init_tick' \in [Timer -> Nat] /\ \A u \in Timer : init_tick'[u] \in InitTicks[u]
    BY <1>2, <1>3, <1>4
  <1>7. TypesOK'
    BY <1>1, <1>2, <1>5, <1>6 DEF TimersOK, TypesOK, TypeOK
  <1>8. \A u \in Timer : u # t => activated'[u] = activated[u] /\ exists'[u] = exists[u]
    BY <1>2, <1>3, Zenon
  <1>9. \A u \in Timer : u # t => TimerOK(u)'
    BY <1>1, <1>2, <1>8, Alone DEF TimersOK, EachOK
  <1>10. TimerOK(t)'
    BY <1>1, <1>2 DEF TimerOK, Counting, Linked
  <1> QED  BY <1>1, <1>7, <1>9, <1>10 DEF TimersOK, EachOK

LEMMA InitKeeps ==
    ASSUME TimersOK, NEW t \in Timer, rt_timer_init(t)
    PROVE  TimersOK'
  <1>1. PICK p \in Modes[t] : periodic' = [periodic EXCEPT ![t] = p]
    BY DEF rt_timer_init
  <1>2. PICK i \in InitTicks[t] : init_tick' = [init_tick EXCEPT ![t] = i]
    BY DEF rt_timer_init
  <1>3. /\ ~exists[t]
        /\ activated' = [activated EXCEPT ![t] = FALSE]
        /\ timeout_tick' = [timeout_tick EXCEPT ![t] = 0]
        /\ exists' = [exists EXCEPT ![t] = TRUE]
        /\ UNCHANGED <<rt_tick, rt_timer_list, pc, checking, left, orphans>>
    BY DEF rt_timer_init, history
  <1>4. /\ exists \in [Timer -> BOOLEAN] /\ activated \in [Timer -> BOOLEAN]
        /\ periodic \in [Timer -> BOOLEAN] /\ init_tick \in [Timer -> Nat]
        /\ timeout_tick \in [Timer -> 0 .. RT_TICK_MAX]
        /\ \A u \in Timer : init_tick[u] \in InitTicks[u]
    BY DEF TimersOK, TypesOK, TypeOK
  <1>5. p \in BOOLEAN /\ i \in Nat
    <2>1. p \in BOOLEAN
      BY TimerAssumption, Zenon
    <2> QED  BY <2>1, Ranges
  <1>6. /\ exists' \in [Timer -> BOOLEAN] /\ activated' \in [Timer -> BOOLEAN]
        /\ periodic' \in [Timer -> BOOLEAN]
    BY <1>1, <1>3, <1>4, <1>5, Zenon
  <1>7. init_tick' \in [Timer -> Nat] /\ \A u \in Timer : init_tick'[u] \in InitTicks[u]
    BY <1>2, <1>4, <1>5
  <1>8. /\ timeout_tick' \in [Timer -> 0 .. RT_TICK_MAX]
        /\ \A u \in Timer : u # t => timeout_tick'[u] = timeout_tick[u]
    BY <1>3, <1>4, Ranges
  <1>9. TypesOK'
    BY <1>3, <1>6, <1>7, <1>8 DEF TimersOK, TypesOK, TypeOK
  <1>10. ListOK'
    BY <1>3 DEF TimersOK, ListOK, Ordered
  <1>11. /\ \A u \in Timer : u # t => activated'[u] = activated[u] /\ exists'[u] = exists[u]
         /\ exists'[t] = TRUE
    BY <1>3, <1>4, Zenon
  <1>12. \A u \in Timer : Linked(u)' <=> Linked(u)
    BY <1>3 DEF Linked
  <1>13. \A u \in Timer : u # t => TimerOK(u)'
    BY <1>3, <1>8, <1>11, <1>12, Alone DEF TimersOK, EachOK
  <1>14. TimerOK(t)'
    <2>1. ~Linked(t) /\ pc[t] = "idle" /\ t \notin orphans
      BY <1>3 DEF TimersOK, EachOK, TimerOK
    <2> QED  BY <1>3, <1>11, <1>12, <2>1 DEF TimerOK, Counting, Linked
  <1> QED  BY <1>9, <1>10, <1>13, <1>14 DEF TimersOK, EachOK
-----------------------------------------------------------------------------
(* The tick interrupt keeps the invariant.                                 *)

(* The ticks of the timers pass, and no timeout moves.                     *)
LEMMA TickKeeps ==
    ASSUME TimersOK, ~checking, rt_tick_increase
    PROVE  TimersOK'
  <1>1. /\ rt_tick \in 0 .. RT_TICK_MAX /\ left \in [Timer -> Int]
        /\ rt_timer_list \in Seq(Timer)
    BY DEF TimersOK, TypesOK, TypeOK
  <1>2. /\ \A t \in Timer : pc[t] = "armed" => left[t] > -MaxLate
        /\ rt_tick' = (rt_tick + 1) % Modulus
        /\ checking' = TRUE
        /\ left' = [t \in Timer |-> IF Counting(t) THEN left[t] - 1 ELSE left[t]]
        /\ UNCHANGED <<rt_timer_list, activated, periodic, init_tick, timeout_tick,
                       exists, pc, orphans>>
    BY DEF rt_tick_increase, fields
  <1>3. left' \in [Timer -> Int]
    BY <1>1, <1>2
  <1>4. rt_tick' \in 0 .. RT_TICK_MAX
    BY <1>1, <1>2, Ranges, Wrap, rt_tick + 1 \in Int
  <1>5. TypesOK'
    BY <1>2, <1>3, <1>4 DEF TimersOK, TypesOK, TypeOK
  <1>6. \A t \in Timer : (Linked(t)' <=> Linked(t)) /\ (Counting(t)' <=> Counting(t))
    BY <1>2 DEF Linked, Counting
  <1>7. \A t \in Timer : Counting(t) => left'[t] = left[t] - 1
    BY <1>2
  <1>8. ListOK'
    <2>1. ASSUME NEW u \in Timer, NEW w \in Timer, Before(rt_timer_list, u, w)
          PROVE  left'[u] <= left'[w]
      <3>1. InList(rt_timer_list, u) /\ InList(rt_timer_list, w)
        BY <2>1 DEF Before, InList
      <3>2. left'[u] = left[u] - 1 /\ left'[w] = left[w] - 1
        BY <1>7, <3>1 DEF Counting
      <3>3. left[u] <= left[w]
        BY <2>1 DEF TimersOK, ListOK, Ordered
      <3> QED  BY <1>1, <3>2, <3>3
    <2> QED  BY <1>2, <2>1 DEF TimersOK, ListOK, Ordered
  <1>9. ASSUME NEW t \in Timer
        PROVE  TimerOK(t)'
    <2>1. TimerOK(t)
      BY DEF TimersOK, EachOK
    <2>2. ASSUME Counting(t)
          PROVE  /\ timeout_tick'[t] = (rt_tick' + left'[t]) % Modulus
                 /\ left'[t] + MaxLate < Half /\ left'[t] >= -MaxLate - 1
                 /\ pc'[t] = "armed" => left'[t] >= -MaxLate
      <3>1. /\ left[t] \in Int /\ left[t] + MaxLate < Half /\ left[t] >= -MaxLate
            /\ timeout_tick[t] = (rt_tick + left[t]) % Modulus
            /\ left'[t] = left[t] - 1
        BY <1>1, <1>7, <2>1, <2>2 DEF TimerOK
      <3>2. /\ MaxLate \in Nat /\ Half \in Nat /\ Modulus \in Nat /\ Modulus > 0
            /\ Half + Half < Modulus /\ MaxLate < Half /\ rt_tick \in 0 .. Modulus - 1
        BY <1>1, Ranges DEF TimersOK, TypesOK, TypeOK
      <3>3. -Modulus < left[t] /\ left[t] < Modulus
        BY <3>1, <3>2
      <3>4. (((rt_tick + 1) % Modulus) + (left[t] - 1)) % Modulus = (rt_tick + left[t]) % Modulus
        <4> HIDE DEF Modulus
        <4> QED  BY <3>1, <3>2, <3>3, WrapStep
      <3>5. timeout_tick'[t] = (rt_tick' + left'[t]) % Modulus
        BY <1>2, <3>1, <3>4
      <3>6. pc'[t] = "armed" => left'[t] >= -MaxLate
        BY <1>2, <3>1, <3>2
      <3>7. left'[t] + MaxLate < Half /\ left'[t] >= -MaxLate - 1
        BY <3>1, <3>2
      <3> QED  BY <3>5, <3>6, <3>7
    <2>3. ClearComes(t)' <=> ClearComes(t)
      BY <1>2 DEF ClearComes
    <2> QED  BY <1>2, <1>6, <2>1, <2>2, <2>3 DEF TimerOK
  <1> QED  BY <1>5, <1>8, <1>9 DEF TimersOK, EachOK

(* The head of the list is due when no tick of it is left.                 *)
LEMMA DueHead ==
    ASSUME TimersOK, rt_timer_list # <<>>
    PROVE  /\ Head(rt_timer_list) \in Timer /\ Linked(Head(rt_timer_list))
           /\ Due(Head(rt_timer_list)) <=> left[Head(rt_timer_list)] <= 0
           /\ \A u \in Timer : Linked(u) => left[Head(rt_timer_list)] <= left[u]
  <1> DEFINE h == Head(rt_timer_list)
  <1>1. /\ rt_timer_list \in Seq(Timer) /\ left \in [Timer -> Int]
        /\ rt_tick \in 0 .. RT_TICK_MAX
    BY DEF TimersOK, TypesOK, TypeOK
  <1>2. h \in Timer /\ h = rt_timer_list[1] /\ InList(rt_timer_list, h)
    BY <1>1, EmptyList
  <1> HIDE DEF h
  <1>3. /\ timeout_tick[h] = (rt_tick + left[h]) % Modulus
        /\ left[h] + MaxLate < Half /\ left[h] >= -MaxLate - 1
    BY <1>2 DEF TimersOK, EachOK, TimerOK, Counting
  <1>4. -Half < left[h] /\ left[h] <= Half
    <2>1. /\ MaxLate \in Nat /\ Half \in Nat /\ left[h] \in Int
          /\ init_tick[h] \in Nat /\ init_tick[h] > 0 /\ init_tick[h] + MaxLate < Half
      BY <1>1, <1>2, Ranges DEF TimersOK, TypesOK, TypeOK
    <2> QED  BY <1>3, <2>1
  <1>5. Due(h) <=> left[h] <= 0
    <2>1. left[h] \in Int
      BY <1>1, <1>2
    <2> HIDE DEF Half, Modulus, Minus
    <2>2. Minus(rt_tick, (rt_tick + left[h]) % Modulus) < Half <=> left[h] <= 0
      BY <1>1, <1>4, <2>1, DueOrder
    <2> QED  BY <1>3, <2>2 DEF Due
  <1>6. ASSUME NEW u \in Timer, Linked(u)
        PROVE  left[h] <= left[u]
    <2>1. PICK i \in 1 .. Len(rt_timer_list) : rt_timer_list[i] = u
      BY <1>6 DEF Linked, InList
    <2>2. u = h \/ Before(rt_timer_list, h, u)
      <3>1. 1 \in 1 .. Len(rt_timer_list)
        BY <1>1, <2>1
      <3> QED  BY <1>1, <1>2, <2>1, <3>1 DEF Before
    <2>3. Before(rt_timer_list, h, u) => left[h] <= left[u]
      BY <1>2 DEF TimersOK, ListOK, Ordered
    <2> QED  BY <1>1, <1>2, <2>2, <2>3
  <1> QED  BY <1>2, <1>5, <1>6 DEF h, Linked

(* The check ends when no linked timer is due.                             *)
LEMMA CheckEndKeeps ==
    ASSUME TimersOK, CheckEnd
    PROVE  TimersOK' /\ \A u \in Timer : Linked(u) => left[u] > 0
  <1>1. /\ rt_timer_list # <<>> => ~Due(Head(rt_timer_list))
        /\ checking' = FALSE
        /\ UNCHANGED <<rt_tick, rt_timer_list, activated, periodic, init_tick,
                       timeout_tick, exists, pc, left, orphans>>
    BY DEF CheckEnd, fields, history
  <1>2. rt_timer_list \in Seq(Timer) /\ left \in [Timer -> Int]
    BY DEF TimersOK, TypesOK, TypeOK
  <1>3. ASSUME NEW u \in Timer, Linked(u)
        PROVE  left[u] > 0
    <2>1. rt_timer_list # <<>>
      BY <1>2, <1>3, EmptyList DEF Linked
    <2>2. /\ Head(rt_timer_list) \in Timer /\ ~(left[Head(rt_timer_list)] <= 0)
          /\ left[Head(rt_timer_list)] <= left[u]
      BY <1>1, <1>3, <2>1, DueHead
    <2> QED  BY <1>2, <2>2
  <1>4. TypesOK'
    BY <1>1 DEF TimersOK, TypesOK, TypeOK
  <1>5. ListOK'
    BY <1>1 DEF TimersOK, ListOK, Ordered
  <1>6. ASSUME NEW t \in Timer
        PROVE  TimerOK(t)'
    <2>1. TimerOK(t)
      BY DEF TimersOK, EachOK
    <2>2. Counting(t) => left[t] >= -MaxLate
      BY <1>2, <1>3, <2>1, Ranges DEF TimerOK, Counting, Linked
    <2> QED  BY <1>1, <2>1, <2>2 DEF TimerOK, Counting, Linked, ClearComes
  <1> QED  BY <1>3, <1>4, <1>5, <1>6 DEF TimersOK, EachOK

(* A turn of the loop begins with the removal of the head.                 *)
Front(t) == rt_timer_list # <<>> /\ t = Head(rt_timer_list)
LEMMA TurnBegins ==
    ASSUME TimersOK, checking, NEW t, Front(t)
    PROVE  Turn(t) /\ During(Removed(Now, t), t)
  <1>1. /\ t \in Timer /\ Linked(t)
    BY DueHead DEF Front
  <1>2. Turn(t)
    BY <1>1 DEF Turn, TimersOK, TypesOK, TypeOK, EachOK, TimerOK
  <1> DEFINE r == Removed(Now, t)
             n == Now
  <1>3. n = Rec(rt_timer_list, activated, periodic, init_tick, timeout_tick, left, orphans)
    BY DEF Now, Rec
  <1> HIDE DEF n
  <1>4. /\ IsRec(n) /\ n.list = rt_timer_list /\ n.act = activated /\ n.per = periodic
        /\ n.init = init_tick /\ n.tick = timeout_tick /\ n.left = left
        /\ n.orphans = orphans
    BY <1>3, ReadField
  <1>5. r = Rec(ListRemove(n.list, t), n.act, n.per, n.init,
                Kept(n.tick, t), Kept(n.left, t), n.orphans \ {t})
    BY <1>4, RemovedFields DEF n
  <1> HIDE DEF r
  <1>6. /\ IsRec(r) /\ r.list = ListRemove(rt_timer_list, t) /\ r.act = activated
        /\ r.per = periodic /\ r.init = init_tick
        /\ r.tick = Kept(timeout_tick, t)
        /\ r.left = Kept(left, t) /\ r.orphans = orphans \ {t}
    BY <1>4, <1>5, ReadField
  <1>7. /\ rt_timer_list \in Seq(Timer) /\ NoRepeat(rt_timer_list)
        /\ Ordered(rt_timer_list, left) /\ left \in [Timer -> Int]
        /\ timeout_tick \in [Timer -> 0 .. RT_TICK_MAX] /\ orphans \subseteq Timer
        /\ activated \in [Timer -> BOOLEAN] /\ periodic \in [Timer -> BOOLEAN]
        /\ init_tick \in [Timer -> Nat] /\ \A u \in Timer : init_tick[u] \in InitTicks[u]
    BY DEF TimersOK, TypesOK, TypeOK, ListOK
  <1>8. /\ r.list \in Seq(Timer) /\ NoRepeat(r.list)
        /\ \A x : InList(r.list, x) <=> InList(rt_timer_list, x) /\ x # t
    BY <1>6, <1>7, ListRemoveFacts
  <1>9. /\ r.tick \in [Timer -> 0 .. RT_TICK_MAX] /\ r.left \in [Timer -> Int]
        /\ \A u \in Timer : u # t \/ pc[u] = "armed" =>
             r.tick[u] = timeout_tick[u] /\ r.left[u] = left[u]
    <2>1. /\ Kept(left, t) \in [Timer -> Int]
          /\ \A u \in Timer : u # t \/ pc[u] = "armed" => Kept(left, t)[u] = left[u]
      BY <1>1, <1>7, KeptFacts
    <2>2. /\ Kept(timeout_tick, t) \in [Timer -> 0 .. RT_TICK_MAX]
          /\ \A u \in Timer : u # t \/ pc[u] = "armed" =>
               Kept(timeout_tick, t)[u] = timeout_tick[u]
      BY <1>1, <1>7, KeptFacts
    <2> QED  BY <1>6, <2>1, <2>2
  <1>10. Ordered(r.list, r.left)
    <2> DEFINE g == r.left
    <2>1. \A u \in Timer : u # t => g[u] = left[u]
      BY <1>9
    <2> HIDE DEF g
    <2>2. /\ t \in Timer /\ rt_timer_list \in Seq(Timer) /\ NoRepeat(rt_timer_list)
          /\ Ordered(rt_timer_list, left)
      BY <1>1, <1>7
    <2>3. Ordered(ListRemove(rt_timer_list, t), g)
      BY <2>1, <2>2, RemoveKeepsOrder
    <2> QED  BY <1>6, <2>3 DEF g
  <1>11. r \in Fields
    BY <1>6, <1>7, <1>8, <1>9, FieldsRec
  <1>12. TimesOK(r)
    <2>1. ASSUME NEW u \in Timer, pc[u] = "armed" \/ InList(r.list, u)
          PROVE  /\ r.tick[u] = (rt_tick + r.left[u]) % Modulus
                 /\ r.left[u] + MaxLate < Half /\ r.left[u] >= -MaxLate - 1
                 /\ pc[u] = "armed" => r.left[u] >= -MaxLate
      <3>1. Counting(u) /\ TimerOK(u)
        BY <1>8, <2>1 DEF Counting, TimersOK, EachOK
      <3>2. u # t \/ pc[u] = "armed"
        BY <1>8, <2>1
      <3> QED  BY <1>9, <3>1, <3>2 DEF TimerOK
    <2> QED  BY <1>6, <1>7, <1>8, <1>10, <2>1 DEF TimesOK
  <1>13. LinksOK(r, t)
    <2>1. ASSUME NEW u \in Timer, InList(r.list, u)
          PROVE  /\ exists[u] /\ (r.act[u] \/ u \in r.orphans)
                 /\ ClearComes(u) => u \in r.orphans
                 /\ r.left[u] <= 0 => u # t /\ u \in DueTimers
      <3>1. Linked(u) /\ TimerOK(u) /\ u # t
        BY <1>8, <2>1 DEF Linked, TimersOK, EachOK
      <3> QED  BY <1>6, <1>9, <3>1 DEF TimerOK, DueTimers, Linked
    <2>2. ASSUME NEW u \in Timer, u \in r.orphans
          PROVE  InList(r.list, u) /\ (r.act[u] => ClearComes(u))
      <3>1. u \in orphans /\ u # t /\ TimerOK(u)
        BY <1>6, <2>2 DEF TimersOK, EachOK
      <3> QED  BY <1>6, <1>8, <3>1 DEF TimerOK, Linked
    <2> QED  BY <2>1, <2>2 DEF LinksOK
  <1> QED  BY <1>2, <1>11, <1>12, <1>13 DEF During, r

(* A turn of the loop, with what CheckEnds says of it.                     *)
LEMMA FireKeeps ==
    ASSUME TimersOK, NEW t \in Timer, Fire(t)
    PROVE  TimersOK' /\ DueTimers' \subseteq DueTimers \ {t}
  <1>1. /\ checking /\ rt_timer_list # <<>> /\ t = Head(rt_timer_list)
        /\ UNCHANGED <<rt_tick, exists, pc, checking>>
    BY DEF Fire
  <1>2. PICK c \in Callback(Removed(Now, t), t) :
           LET s == AfterCallback(c, t) IN
           /\ rt_timer_list' = s.list /\ activated' = s.act /\ periodic' = s.per
           /\ init_tick' = s.init /\ timeout_tick' = s.tick /\ left' = s.left
           /\ orphans' = s.orphans
    BY DEF Fire
  <1> DEFINE s == AfterCallback(c, t)
  <1>3. Turn(t) /\ During(Removed(Now, t), t)
    BY <1>1, TurnBegins DEF Front
  <1>4. During(c, t)
    BY <1>3, DuringCallback
  <1>5. During(s, t) /\ (InList(s.list, t) => s.act[t] \/ t \in s.orphans)
    BY <1>3, <1>4, DuringAfter
  <1>6. /\ rt_timer_list' = s.list /\ activated' = s.act /\ periodic' = s.per
        /\ init_tick' = s.init /\ timeout_tick' = s.tick /\ left' = s.left
        /\ orphans' = s.orphans
    BY <1>2
  <1> HIDE DEF s
  <1>7. TypesOK'
    <2>1. /\ s.list \in Seq(Timer) /\ s.act \in [Timer -> BOOLEAN]
          /\ s.per \in [Timer -> BOOLEAN] /\ s.init \in [Timer -> Nat]
          /\ s.tick \in [Timer -> 0 .. RT_TICK_MAX]
          /\ s.left \in [Timer -> Int] /\ s.orphans \subseteq Timer
      BY <1>5, FieldsRec DEF During
    <2>2. \A u \in Timer : s.init[u] \in InitTicks[u]
      BY <1>5 DEF During, TimesOK
    <2> QED  BY <1>1, <1>6, <2>1, <2>2 DEF TimersOK, TypesOK, TypeOK
  <1>8. ListOK'
    <2>1. NoRepeat(s.list) /\ Ordered(s.list, s.left)
      BY <1>5 DEF During, TimesOK
    <2>2. \A u, w \in Timer : Before(s.list, u, w) => s.left[u] <= s.left[w]
      BY <2>1 DEF Ordered
    <2>3. \A u, w \in Timer : Before(rt_timer_list', u, w) => left'[u] <= left'[w]
      BY <1>6, <2>2
    <2> QED  BY <1>6, <2>1, <2>3 DEF ListOK, Ordered
  <1>9. ASSUME NEW u \in Timer
        PROVE  TimerOK(u)'
    <2>1. TimesOK(s) /\ LinksOK(s, t)
      BY <1>5 DEF During
    <2>2. pc[u] = "armed" \/ InList(s.list, u) =>
            /\ s.tick[u] = (rt_tick + s.left[u]) % Modulus
            /\ s.left[u] + MaxLate < Half /\ s.left[u] >= -MaxLate - 1
            /\ pc[u] = "armed" => s.left[u] >= -MaxLate
      BY <2>1 DEF TimesOK
    <2>3. InList(s.list, u) =>
            /\ exists[u] /\ (s.act[u] \/ u \in s.orphans)
            /\ ClearComes(u) => u \in s.orphans
      BY <1>5, <2>1 DEF LinksOK
    <2>4. ~exists[u] => pc[u] = "idle"
      BY DEF TimersOK, EachOK, TimerOK
    <2>5. u \in s.orphans => InList(s.list, u) /\ (s.act[u] => ClearComes(u))
      BY <2>1 DEF LinksOK
    <2>6. ClearComes(u)' <=> ClearComes(u)
      BY <1>1 DEF ClearComes
    <2> QED  BY <1>1, <1>6, <2>2, <2>3, <2>4, <2>5, <2>6 DEF TimerOK, Counting, Linked
  <1>10. DueTimers' \subseteq DueTimers \ {t}
    <2>1. LinksOK(s, t)
      BY <1>5 DEF During
    <2>2. \A u \in Timer : InList(s.list, u) /\ s.left[u] <= 0 => u # t /\ u \in DueTimers
      BY <2>1 DEF LinksOK
    <2> HIDE DEF DueTimers
    <2>3. DueTimers' = {u \in Timer : InList(s.list, u) /\ s.left[u] <= 0}
      BY <1>6 DEF DueTimers
    <2> QED  BY <2>2, <2>3
  <1> QED  BY <1>7, <1>8, <1>9, <1>10 DEF TimersOK, EachOK
-----------------------------------------------------------------------------
(* The theorems.                                                           *)

LEMMA InitHolds == Init => TimersOK
  <1> SUFFICES ASSUME Init  PROVE TimersOK
    OBVIOUS
  <1>1. /\ rt_tick = 0 /\ rt_timer_list = <<>>
        /\ activated = [t \in Timer |-> FALSE]
        /\ periodic \in [Timer -> BOOLEAN]
        /\ timeout_tick = [t \in Timer |-> 0]
        /\ exists = [t \in Timer |-> TRUE]
        /\ pc = [t \in Timer |-> "idle"]
        /\ checking = FALSE /\ left = [t \in Timer |-> 0] /\ orphans = {}
    BY DEF Init
  <1>2. /\ \A t \in Timer : init_tick[t] \in InitTicks[t]
        /\ init_tick \in [Timer -> UNION {InitTicks[t] : t \in Timer}]
    BY Zenon DEF Init
  <1>3. init_tick \in [Timer -> Nat]
    <2>1. \A t \in Timer : init_tick[t] \in Nat
      BY <1>2, Ranges
    <2> QED  BY <1>2, <2>1
  <1>4. activated \in [Timer -> BOOLEAN] /\ exists \in [Timer -> BOOLEAN]
    BY <1>1, Zenon
  <1>5. pc \in [Timer -> Pcs] /\ timeout_tick \in [Timer -> 0 .. RT_TICK_MAX]
        /\ rt_tick \in 0 .. RT_TICK_MAX /\ left \in [Timer -> Int]
    BY <1>1, Ranges DEF Pcs
  <1>6. TypesOK
    <2>1. /\ rt_timer_list \in Seq(Timer) /\ orphans \subseteq Timer
          /\ checking \in BOOLEAN /\ periodic \in [Timer -> BOOLEAN]
      <3>1. rt_timer_list \in Seq(Timer)
        BY <1>1
      <3>2. orphans \subseteq Timer
        BY <1>1
      <3> QED  BY <1>1, <3>1, <3>2, Zenon
    <2>2. \A t \in Timer : init_tick[t] \in InitTicks[t]
      BY <1>2
    <2> QED  BY <1>3, <1>4, <1>5, <2>1, <2>2 DEF TypesOK, TypeOK
  <1>7. ListOK
    BY <1>1 DEF ListOK, NoRepeat, Ordered, Before
  <1>8. EachOK
    <2>1. \A t \in Timer : pc[t] = "idle" /\ exists[t] = TRUE /\ ~Linked(t)
      BY <1>1 DEF Linked, InList
    <2> QED  BY <1>1, <2>1 DEF EachOK, TimerOK, Counting, Linked
  <1> QED  BY <1>6, <1>7, <1>8 DEF TimersOK

LEMMA StepKeeps == TimersOK /\ [Next]_vars => TimersOK'
  <1> SUFFICES ASSUME TimersOK, [Next]_vars  PROVE TimersOK'
    OBVIOUS
  <1>1. CASE UNCHANGED vars
    <2>1. UNCHANGED <<rt_tick, rt_timer_list, activated, periodic, init_tick,
                      timeout_tick, exists, pc, checking, left, orphans>>
      BY <1>1 DEF vars, fields, history
    <2> QED  BY <2>1 DEF TimersOK, TypesOK, TypeOK, ListOK, Ordered, EachOK, TimerOK,
                         Counting, Linked, ClearComes
  <1>2. CASE CheckEnd
    BY <1>2, CheckEndKeeps
  <1>3. ASSUME NEW t \in Timer, Fire(t)  PROVE TimersOK'
    BY <1>3, FireKeeps
  <1>4. CASE ~checking /\ rt_tick_increase
    BY <1>4, TickKeeps
  <1>5. ASSUME NEW t \in Timer, ~checking, ThreadStep(t)  PROVE TimersOK'
    BY <1>5, StartRemoveKeeps, StartArmKeeps, StartInsertKeeps, StopTestKeeps,
       StopRemoveKeeps, StopClearKeeps, ControlTimeKeeps, ControlReadKeeps,
       ControlWriteKeeps, DeleteKeeps, InitKeeps DEF ThreadStep
  <1> QED  BY <1>1, <1>2, <1>3, <1>4, <1>5 DEF Next

(* The invariant of the timers is inductive: it holds at the start and     *)
(* every part of every call, every tick and every turn of the loop of      *)
(* rt_timer_check keeps it.                                                *)
THEOREM Inductive == Spec => []TimersOK
  BY InitHolds, StepKeeps, PTL DEF Spec

(* The same in terms of the three invariants of the run, with the bounds   *)
(* LeftInv and the parts of calls CallInv that make them inductive.        *)
THEOREM Invariant == Spec => []TimerInv
  <1>1. TimersOK => TimerInv
    BY ByTimer DEF TimersOK
  <1> QED  BY <1>1, Inductive, PTL

(* Every field keeps its type; the tick and every timeout stay in          *)
(* rt_tick_t across the wrap.                                              *)
THEOREM TypeCorrect == Spec => []TypeOK
  <1>1. TimerInv => TypeOK
    BY DEF TimerInv
  <1> QED  BY <1>1, Invariant, PTL

(* rt_timer_list is ordered by the time left, across the wrap of the tick, *)
(* although rt_timer_start compares differences of ticks only.             *)
THEOREM Order == Spec => []Sorted
  <1>1. TimerInv => Sorted
    BY DEF TimerInv
  <1> QED  BY <1>1, Invariant, PTL

(* rt_timer_stop finds the flag of every linked timer, with callbacks of   *)
(* any timer between the parts of every call, except of the orphans, which *)
(* are linked and lose the flag for certain: those that their own callback *)
(* started, and those that a callback started while rt_timer_stop or       *)
(* rt_timer_control was about to clear the flag.                           *)
THEOREM Stopped == Spec => []LinkedCanBeStopped
  <1>1. TimerInv => LinkedCanBeStopped
    BY DEF TimerInv
  <1> QED  BY <1>1, Invariant, PTL

(* Only the insertion of rt_timer_start takes a timer from armed to idle.  *)
LEMMA ArmedStep ==
    ASSUME TimersOK, Next, NEW t \in Timer, pc[t] = "armed", pc'[t] = "idle"
    PROVE  StartInsert(t) /\ ~checking
  <1>0. pc \in [Timer -> Pcs]
    BY DEF TimersOK, TypesOK, TypeOK
  <1>1. ~(UNCHANGED pc)
    OBVIOUS
  <1>2. PICK u \in Timer : ~checking /\ ThreadStep(u)
    BY <1>1 DEF Next, CheckEnd, Fire, rt_tick_increase
  <1>3. u # t => \E p : pc' = [pc EXCEPT ![u] = p]
    BY <1>1, <1>2 DEF ThreadStep, StartRemove, StartArm, StartInsert, StopTest,
       StopRemove, StopClear, ControlTime, ControlRead, ControlWrite,
       rt_timer_delete, rt_timer_init
  <1>4. u = t
    BY <1>0, <1>3
  <1> QED  BY <1>2, <1>4 DEF ThreadStep, StartRemove, StartArm, StopTest,
       StopRemove, StopClear, ControlTime, ControlRead, ControlWrite,
       rt_timer_delete, rt_timer_init, MayCall, TimersOK, EachOK, TimerOK

(* Every callback comes at the first check after its timeout and not       *)
(* before, no check leaves a timer that is due, and a new timer goes       *)
(* behind every timer that is due no later.                                *)
THEOREM Punctual == Spec => OnTime
  <1> DEFINE A ==
        /\ checking /\ checking' => left[Head(rt_timer_list)] <= 0
        /\ checking /\ ~checking' =>
             \A t \in Timer : InList(rt_timer_list, t) => left[t] > 0
        /\ \A t, u \in Timer :
             /\ pc[t] = "armed" /\ pc'[t] = "idle"
             /\ InList(rt_timer_list, u) /\ left[u] <= left[t]
             => Before(rt_timer_list', u, t)
  <1>1. TimersOK /\ [Next]_vars => [A]_vars
    <2> SUFFICES ASSUME TimersOK, Next  PROVE A
      OBVIOUS
    <2>1. ASSUME checking, checking'
          PROVE  left[Head(rt_timer_list)] <= 0
      <3>1. PICK t \in Timer : Fire(t)
        BY <2>1 DEF Next, CheckEnd
      <3>2. rt_timer_list # <<>> /\ Due(Head(rt_timer_list))
        BY <3>1 DEF Fire
      <3> QED  BY <3>2, DueHead
    <2>2. ASSUME checking, ~checking'
          PROVE  \A t \in Timer : InList(rt_timer_list, t) => left[t] > 0
      <3>1. CheckEnd
        BY <2>2 DEF Next, Fire
      <3> QED  BY <3>1, CheckEndKeeps DEF Linked
    <2>3. ASSUME NEW t \in Timer, NEW u \in Timer, pc[t] = "armed", pc'[t] = "idle",
                 InList(rt_timer_list, u), left[u] <= left[t]
          PROVE  Before(rt_timer_list', u, t)
      <3>1. StartInsert(t) /\ ~checking
        BY <2>3, ArmedStep
      <3> QED  BY <2>3, <3>1, StartInsertKeeps DEF Linked
    <2> QED  BY <2>1, <2>2, <2>3
  <1>2. Spec => [][A]_vars
    BY <1>1, Inductive, PTL DEF Spec
  <1> QED  BY <1>2 DEF OnTime

(* Each turn of the loop of rt_timer_check leaves fewer timers that are    *)
(* due, whatever the callback does.                                        *)
THEOREM Ends == Spec => CheckEnds
  <1> DEFINE A == checking /\ checking' =>
                    DueTimers' \subseteq DueTimers \ {Head(rt_timer_list)}
  <1>1. TimersOK /\ [Next]_vars => [A]_vars
    <2> SUFFICES ASSUME TimersOK, Next, checking, checking'
                 PROVE  DueTimers' \subseteq DueTimers \ {Head(rt_timer_list)}
      OBVIOUS
    <2>1. PICK t \in Timer : Fire(t)
      BY DEF Next, CheckEnd
    <2>2. t = Head(rt_timer_list)
      BY <2>1 DEF Fire
    <2>3. DueTimers' \subseteq DueTimers \ {t}
      BY <2>1, FireKeeps
    <2> QED  BY <2>2, <2>3
  <1>2. Spec => [][A]_vars
    BY <1>1, Inductive, PTL DEF Spec
  <1> QED  BY <1>2 DEF CheckEnds
=============================================================================
