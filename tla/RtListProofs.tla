---------------------------- MODULE RtListProofs ----------------------------
(* What the list operations do, for every list.                            *)
EXTENDS RtList, SequenceTheorems, WellFoundedInduction, TLAPS

(* rt_list_remove of a linked node closes the gap it leaves.               *)
LEMMA RemoveLinked ==
    ASSUME NEW T, NEW s \in Seq(T), NEW e, InList(s, e), NoRepeat(s)
    PROVE  \E k \in 1 .. Len(s) :
             /\ s[k] = e
             /\ \A i \in 1 .. Len(s) : s[i] = e => i = k
             /\ ListRemove(s, e) = [i \in 1 .. Len(s) - 1 |->
                                      IF i < k THEN s[i] ELSE s[i + 1]]
  <1> DEFINE k == CHOOSE i \in 1 .. Len(s) : s[i] = e
  <1>1. k \in 1 .. Len(s) /\ s[k] = e
    BY DEF InList
  <1>2. \A i \in 1 .. Len(s) : s[i] = e => i = k
    BY <1>1 DEF NoRepeat
  <1>3. ListRemove(s, e) = [i \in 1 .. Len(s) - 1 |->
                              IF i < k THEN s[i] ELSE s[i + 1]]
    BY DEF ListRemove
  <1> QED BY <1>1, <1>2, <1>3

(* What is left is a list of the same elements without e, in their order.  *)
LEMMA ListRemoveFacts ==
    ASSUME NEW T, NEW s \in Seq(T), NEW e, NoRepeat(s)
    PROVE  /\ ListRemove(s, e) \in Seq(T)
           /\ NoRepeat(ListRemove(s, e))
           /\ \A x : InList(ListRemove(s, e), x) <=> InList(s, x) /\ x # e
           /\ (s # <<>> /\ s[1] # e) =>
                /\ ListRemove(s, e) # <<>>
                /\ ListRemove(s, e)[1] = s[1]
  <1>1. CASE ~InList(s, e)
    BY <1>1 DEF ListRemove, InList
  <1>2. CASE InList(s, e)
    <2> PICK k \in 1 .. Len(s) :
             /\ s[k] = e
             /\ \A i \in 1 .. Len(s) : s[i] = e => i = k
             /\ ListRemove(s, e) = [i \in 1 .. Len(s) - 1 |->
                                      IF i < k THEN s[i] ELSE s[i + 1]]
      BY <1>2, RemoveLinked
    <2> DEFINE r == ListRemove(s, e)
    <2>0. Len(s) \in Nat /\ Len(s) >= 1 /\ k \in Nat
      OBVIOUS
    <2>1. r \in Seq(T) /\ Len(r) = Len(s) - 1
      BY <2>0
    <2>2. \A i \in 1 .. Len(r) : r[i] = IF i < k THEN s[i] ELSE s[i + 1]
      BY <2>1
    <2> HIDE DEF r
    <2>3. NoRepeat(r)
      BY <2>0, <2>1, <2>2 DEF NoRepeat
    <2>4. ASSUME NEW x PROVE InList(r, x) <=> InList(s, x) /\ x # e
      <3>1. ASSUME NEW i \in 1 .. Len(r), r[i] = x
            PROVE  InList(s, x) /\ x # e
        <4>1. CASE i < k
          BY <3>1, <4>1, <2>0, <2>1, <2>2 DEF InList
        <4>2. CASE i >= k
          <5>1. i + 1 \in 1 .. Len(s) /\ i + 1 # k /\ r[i] = s[i + 1]
            BY <4>2, <2>0, <2>1, <2>2
          <5> QED BY <5>1, <3>1 DEF InList
        <4> QED BY <4>1, <4>2, <2>0
      <3>2. ASSUME NEW i \in 1 .. Len(s), s[i] = x, x # e
            PROVE  InList(r, x)
        <4>1. CASE i < k
          BY <3>2, <4>1, <2>0, <2>1, <2>2 DEF InList
        <4>2. CASE i > k
          <5>1. i - 1 \in 1 .. Len(r) /\ r[i - 1] = s[i]
            BY <4>2, <2>0, <2>1, <2>2
          <5> QED BY <5>1, <3>2 DEF InList
        <4> QED BY <3>2, <4>1, <4>2, <2>0
      <3> QED BY <3>1, <3>2 DEF InList
    <2>5. (s # <<>> /\ s[1] # e) => r # <<>> /\ r[1] = s[1]
      <3> SUFFICES ASSUME s[1] # e PROVE r # <<>> /\ r[1] = s[1]
        OBVIOUS
      <3>1. k > 1 /\ Len(s) >= 2
        BY <2>0
      <3>2. 1 \in 1 .. Len(r)
        BY <3>1, <2>0, <2>1
      <3> QED BY <3>1, <3>2, <2>1, <2>2
    <2> QED BY <2>1, <2>3, <2>4, <2>5 DEF r
  <1> QED BY <1>1, <1>2

(* It is shorter by one if e was linked.                                   *)
LEMMA ListRemoveLength ==
    ASSUME NEW T, NEW s \in Seq(T), NEW e, NoRepeat(s)
    PROVE  /\ InList(s, e) => Len(ListRemove(s, e)) = Len(s) - 1
           /\ ~InList(s, e) => ListRemove(s, e) = s
  <1>1. ASSUME InList(s, e) PROVE Len(ListRemove(s, e)) = Len(s) - 1
    <2> PICK k \in 1 .. Len(s) :
             /\ s[k] = e
             /\ \A i \in 1 .. Len(s) : s[i] = e => i = k
             /\ ListRemove(s, e) = [i \in 1 .. Len(s) - 1 |->
                                      IF i < k THEN s[i] ELSE s[i + 1]]
      BY <1>1, RemoveLinked
    <2>1. Len(s) \in Nat /\ Len(s) >= 1
      OBVIOUS
    <2> QED BY <2>1
  <1> QED BY <1>1 DEF ListRemove

(* Insertion at the tail.                                                  *)
LEMMA InsertLastFacts ==
    ASSUME NEW T, NEW s \in Seq(T), NEW e \in T
    PROVE  /\ InsertLast(s, e) \in Seq(T)
           /\ InsertLast(s, e) # <<>>
           /\ (NoRepeat(s) /\ ~InList(s, e)) => NoRepeat(InsertLast(s, e))
           /\ \A x : InList(InsertLast(s, e), x) <=> InList(s, x) \/ x = e
           /\ s # <<>> => InsertLast(s, e)[1] = s[1]
  <1> DEFINE r == InsertLast(s, e)
  <1>1. /\ r \in Seq(T) /\ Len(r) = Len(s) + 1 /\ Len(s) \in Nat
        /\ \A i \in 1 .. Len(s) : r[i] = s[i]
        /\ r[Len(s) + 1] = e
    BY DEF InsertLast
  <1> HIDE DEF r
  <1>2. r # <<>>
    BY <1>1
  <1>3. (NoRepeat(s) /\ ~InList(s, e)) => NoRepeat(r)
    BY <1>1 DEF NoRepeat, InList
  <1>4. ASSUME NEW x PROVE InList(r, x) <=> InList(s, x) \/ x = e
    <2>1. InList(r, x) => InList(s, x) \/ x = e
      BY <1>1 DEF InList
    <2>2. InList(s, x) => InList(r, x)
      BY <1>1 DEF InList
    <2>3. x = e => InList(r, x)
      <3>1. Len(s) + 1 \in 1 .. Len(r) BY <1>1
      <3> QED BY <3>1, <1>1 DEF InList
    <2> QED BY <2>1, <2>2, <2>3
  <1>5. s # <<>> => r[1] = s[1]
    BY <1>1
  <1> QED BY <1>1, <1>2, <1>3, <1>4, <1>5 DEF r

(* Insertion at the head.                                                  *)
LEMMA InsertFirstFacts ==
    ASSUME NEW T, NEW s \in Seq(T), NEW e \in T
    PROVE  /\ InsertFirst(s, e) \in Seq(T)
           /\ (NoRepeat(s) /\ ~InList(s, e)) => NoRepeat(InsertFirst(s, e))
           /\ \A x : InList(InsertFirst(s, e), x) <=> InList(s, x) \/ x = e
  <1> DEFINE r == InsertFirst(s, e)
  <1>1. /\ r \in Seq(T) /\ Len(r) = Len(s) + 1 /\ Len(s) \in Nat
        /\ \A i \in 1 .. Len(s) : r[i + 1] = s[i]
        /\ r[1] = e
    BY DEF InsertFirst
  <1> HIDE DEF r
  <1>2. \A i \in 2 .. Len(r) : i - 1 \in 1 .. Len(s) /\ r[i] = s[i - 1]
    <2> SUFFICES ASSUME NEW i \in 2 .. Len(r)
                 PROVE  i - 1 \in 1 .. Len(s) /\ r[i] = s[i - 1]
      OBVIOUS
    <2>1. i - 1 \in 1 .. Len(s) /\ (i - 1) + 1 = i
      BY <1>1
    <2> QED BY <2>1, <1>1
  <1>3. (NoRepeat(s) /\ ~InList(s, e)) => NoRepeat(r)
    <2> SUFFICES ASSUME NoRepeat(s), ~InList(s, e),
                        NEW i \in 1 .. Len(r), NEW j \in 1 .. Len(r),
                        r[i] = r[j]
                 PROVE  i = j
      BY DEF NoRepeat
    <2>1. CASE i = 1 /\ j = 1 BY <2>1
    <2>2. CASE i = 1 /\ j # 1
      <3>1. j \in 2 .. Len(r) BY <2>2
      <3> QED BY <3>1, <2>2, <1>1, <1>2 DEF InList
    <2>3. CASE i # 1 /\ j = 1
      <3>1. i \in 2 .. Len(r) BY <2>3
      <3> QED BY <3>1, <2>3, <1>1, <1>2 DEF InList
    <2>4. CASE i # 1 /\ j # 1
      <3>1. i \in 2 .. Len(r) /\ j \in 2 .. Len(r) BY <2>4
      <3>2. i - 1 = j - 1 BY <3>1, <1>2 DEF NoRepeat
      <3> QED BY <3>1, <3>2
    <2> QED BY <2>1, <2>2, <2>3, <2>4
  <1>4. ASSUME NEW x PROVE InList(r, x) <=> InList(s, x) \/ x = e
    <2>1. ASSUME NEW i \in 1 .. Len(r), r[i] = x
          PROVE  InList(s, x) \/ x = e
      <3>1. CASE i = 1 BY <3>1, <2>1, <1>1
      <3>2. CASE i # 1
        <4>1. i \in 2 .. Len(r) BY <3>2
        <4> QED BY <4>1, <2>1, <1>2 DEF InList
      <3> QED BY <3>1, <3>2
    <2>2. ASSUME NEW i \in 1 .. Len(s), s[i] = x PROVE InList(r, x)
      <3>1. i + 1 \in 1 .. Len(r) BY <1>1
      <3> QED BY <3>1, <2>2, <1>1 DEF InList
    <2>3. x = e => InList(r, x)
      <3>1. 1 \in 1 .. Len(r) BY <1>1
      <3> QED BY <3>1, <1>1 DEF InList
    <2> QED BY <2>1, <2>2, <2>3 DEF InList
  <1> QED BY <1>1, <1>3, <1>4 DEF r

(* Removal of the first node.                                              *)
LEMMA TailFacts ==
    ASSUME NEW T, NEW s \in Seq(T), s # <<>>, NoRepeat(s)
    PROVE  /\ Head(s) \in T /\ InList(s, Head(s))
           /\ Tail(s) \in Seq(T) /\ NoRepeat(Tail(s))
           /\ \A x : InList(Tail(s), x) <=> InList(s, x) /\ x # Head(s)
  <1> DEFINE r == Tail(s)
  <1>1. /\ r \in Seq(T) /\ Len(r) = Len(s) - 1 /\ Len(s) \in Nat /\ Len(s) >= 1
        /\ \A i \in 1 .. Len(r) : r[i] = s[i + 1]
        /\ Head(s) = s[1]
    OBVIOUS
  <1> HIDE DEF r
  <1>2. Head(s) \in T /\ InList(s, Head(s))
    BY <1>1 DEF InList
  <1>3. NoRepeat(r)
    <2> SUFFICES ASSUME NEW i \in 1 .. Len(r), NEW j \in 1 .. Len(r), r[i] = r[j]
                 PROVE  i = j
      BY DEF NoRepeat
    <2>1. i + 1 \in 1 .. Len(s) /\ j + 1 \in 1 .. Len(s)
      BY <1>1
    <2>2. i + 1 = j + 1
      BY <2>1, <1>1 DEF NoRepeat
    <2> QED BY <2>2
  <1>4. ASSUME NEW x PROVE InList(r, x) <=> InList(s, x) /\ x # Head(s)
    <2>1. ASSUME NEW i \in 1 .. Len(r), r[i] = x
          PROVE  InList(s, x) /\ x # Head(s)
      <3>1. i + 1 \in 1 .. Len(s) /\ i + 1 # 1 /\ 1 \in 1 .. Len(s)
        BY <1>1
      <3> QED BY <3>1, <2>1, <1>1 DEF InList, NoRepeat
    <2>2. ASSUME NEW i \in 1 .. Len(s), s[i] = x, x # Head(s)
          PROVE  InList(r, x)
      <3>1. i # 1 BY <2>2, <1>1
      <3>2. i - 1 \in 1 .. Len(r) /\ (i - 1) + 1 = i BY <3>1, <1>1
      <3> QED BY <3>2, <2>2, <1>1 DEF InList
    <2> QED BY <2>1, <2>2 DEF InList
  <1> QED BY <1>1, <1>2, <1>3, <1>4 DEF r

(* A list without members is the empty list.                               *)
LEMMA EmptyList ==
    ASSUME NEW T, NEW s \in Seq(T)
    PROVE  /\ s = <<>> <=> \A x \in T : ~InList(s, x)
           /\ s = <<>> => \A x : ~InList(s, x)
           /\ s # <<>> => Head(s) \in T /\ Head(s) = s[1] /\ InList(s, Head(s))
  <1>1. s = <<>> => \A x : ~InList(s, x)
    BY DEF InList
  <1>2. s # <<>> => Head(s) \in T /\ Head(s) = s[1] /\ InList(s, Head(s))
    BY DEF InList
  <1> QED BY <1>1, <1>2

-----------------------------------------------------------------------------
(* A set of numbers has a smallest element.                                *)
LEMMA Smallest ==
    ASSUME NEW C, C \subseteq Nat, C # {}
    PROVE  \E k \in C : \A i \in C : k <= i
  <1>1. \E k \in C : \A i \in C : ~(<<i, k>> \in OpToRel(<, Nat))
    BY NatLessThanWellFounded, WFMin
  <1>2. \A k, i \in C : ~(<<i, k>> \in OpToRel(<, Nat)) => k <= i
    BY DEF OpToRel
  <1> QED BY <1>1, <1>2

(* The search for a place in a list stops: at the first node whose number  *)
(* is in S, or at the end of the n nodes.                                  *)
LEMMA FirstPlace ==
    ASSUME NEW n \in Nat, NEW S
    PROVE  \E k \in 1 .. n + 1 :
             /\ \A i \in 1 .. k - 1 : i \notin S
             /\ k <= n => k \in S
  <1> DEFINE C == {i \in 1 .. n + 1 : i \in S \/ i = n + 1}
  <1>1. C \subseteq Nat /\ C # {}
    OBVIOUS
  <1>2. PICK k \in C : \A i \in C : k <= i
    BY <1>1, Smallest
  <1>3. k \in 1 .. n + 1 /\ (k <= n => k \in S)
    OBVIOUS
  <1>4. ASSUME NEW i \in 1 .. k - 1 PROVE i \notin S
    <2>1. i \in 1 .. n + 1 /\ ~(k <= i)
      BY <1>3
    <2> QED BY <2>1, <1>2
  <1> QED BY <1>3, <1>4

(* So does the search for the first node that comes after e in the order   *)
(* f gives.                                                                *)
LEMMA OrderedPlace ==
    ASSUME NEW T, NEW s \in Seq(T), NEW f, NEW e
    PROVE  \E k \in 1 .. Len(s) + 1 :
             /\ \A i \in 1 .. k - 1 : ~(f[e] < f[s[i]])
             /\ k <= Len(s) => f[e] < f[s[k]]
  <1> DEFINE S == {i \in 1 .. Len(s) : f[e] < f[s[i]]}
  <1>1. \A i \in 1 .. Len(s) : i \in S <=> f[e] < f[s[i]]
    OBVIOUS
  <1>2. Len(s) \in Nat
    OBVIOUS
  <1> HIDE DEF S
  <1>3. PICK k \in 1 .. Len(s) + 1 :
           /\ \A i \in 1 .. k - 1 : i \notin S
           /\ k <= Len(s) => k \in S
    BY <1>2, FirstPlace
  <1>4. \A i \in 1 .. k - 1 : i \in 1 .. Len(s)
    BY <1>2
  <1>5. k <= Len(s) => k \in 1 .. Len(s)
    BY <1>2
  <1> QED BY <1>1, <1>3, <1>4, <1>5

(* rt_list_insert_before makes room at k.                                  *)
LEMMA InsertBeforeIndex ==
    ASSUME NEW T, NEW s \in Seq(T), NEW e \in T, NEW k \in 1 .. Len(s) + 1
    PROVE  /\ InsertBefore(s, k, e) \in Seq(T)
           /\ Len(InsertBefore(s, k, e)) = Len(s) + 1
           /\ \A i \in 1 .. k - 1 : InsertBefore(s, k, e)[i] = s[i]
           /\ InsertBefore(s, k, e)[k] = e
           /\ \A i \in k .. Len(s) : InsertBefore(s, k, e)[i + 1] = s[i]
  <1> DEFINE a == SubSeq(s, 1, k - 1)
             b == SubSeq(s, k, Len(s))
             c == <<e>>
  <1>0. Len(s) \in Nat /\ k \in Nat /\ k >= 1 /\ k <= Len(s) + 1
    OBVIOUS
  <1>1. /\ a \in Seq(T) /\ Len(a) = k - 1
        /\ \A i \in 1 .. k - 1 : a[i] = s[i]
    <2>1. \A i \in 1 .. k - 1 : s[i] \in T
      BY <1>0
    <2>2. /\ a \in Seq(T) /\ Len(a) = IF 1 <= k - 1 THEN (k - 1) - 1 + 1 ELSE 0
          /\ \A i \in 1 .. (k - 1) - 1 + 1 : a[i] = s[1 + i - 1]
      BY <2>1, <1>0, SubSeqProperties
    <2> HIDE DEF a
    <2> QED BY <2>2, <1>0
  <1>2. /\ b \in Seq(T) /\ Len(b) = Len(s) - k + 1
        /\ \A i \in 1 .. Len(s) - k + 1 : b[i] = s[k + i - 1]
    <2>1. \A i \in k .. Len(s) : s[i] \in T
      BY <1>0
    <2>2. /\ b \in Seq(T) /\ Len(b) = IF k <= Len(s) THEN Len(s) - k + 1 ELSE 0
          /\ \A i \in 1 .. Len(s) - k + 1 : b[i] = s[k + i - 1]
      BY <2>1, <1>0, SubSeqProperties
    <2> HIDE DEF b
    <2> QED BY <2>2, <1>0
  <1>3. c \in Seq(T) /\ Len(c) = 1 /\ c[1] = e
    OBVIOUS
  <1> HIDE DEF a, b, c
  <1>4. /\ a \o c \in Seq(T) /\ Len(a \o c) = k
        /\ \A i \in 1 .. k : i < k => (a \o c)[i] = s[i]
        /\ (a \o c)[k] = e
    <2>1. /\ a \o c \in Seq(T) /\ Len(a \o c) = Len(a) + Len(c)
          /\ \A i \in 1 .. Len(a) + Len(c) : (a \o c)[i] =
               IF i <= Len(a) THEN a[i] ELSE c[i - Len(a)]
      BY <1>1, <1>3, ConcatProperties
    <2>2. ASSUME NEW i \in 1 .. k, i < k PROVE (a \o c)[i] = s[i]
      <3>1. i \in 1 .. k - 1 /\ i \in 1 .. Len(a) + Len(c) /\ i <= Len(a)
        BY <2>2, <1>0, <1>1, <1>3
      <3> QED BY <3>1, <2>1, <1>1
    <2>3. (a \o c)[k] = e
      <3>1. k \in 1 .. Len(a) + Len(c) /\ ~(k <= Len(a)) /\ k - Len(a) = 1
        BY <1>0, <1>1, <1>3
      <3> QED BY <3>1, <2>1, <1>3
    <2>4. ASSUME NEW i \in 1 .. k PROVE i < k \/ i = k
      BY <1>0
    <2>5. Len(a \o c) = k
      BY <2>1, <1>0, <1>1, <1>3
    <2> QED BY <2>1, <2>2, <2>3, <2>4, <2>5
  <1> DEFINE d == a \o c
             w == d \o b
  <1> HIDE DEF d
  <1>5. /\ w \in Seq(T) /\ Len(w) = Len(d) + Len(b)
        /\ \A i \in 1 .. Len(d) + Len(b) :
             w[i] = IF i <= Len(d) THEN d[i] ELSE b[i - Len(d)]
    <2>1. d \in Seq(T)
      BY <1>4 DEF d
    <2> QED BY <1>2, <2>1, ConcatProperties
  <1> HIDE DEF w
  <1>6. /\ Len(d) = k /\ d[k] = e /\ Len(d) + Len(b) = Len(s) + 1
        /\ \A i \in 1 .. k : i < k => d[i] = s[i]
    <2>1. /\ Len(d) = k /\ d[k] = e
          /\ \A i \in 1 .. k : i < k => d[i] = s[i]
      BY <1>4 DEF d
    <2> QED BY <2>1, <1>2, <1>0
  <1>7. ASSUME NEW i \in 1 .. k - 1 PROVE w[i] = s[i]
    <2>1. i \in 1 .. Len(d) + Len(b) /\ i <= Len(d) /\ i \in 1 .. k /\ i < k
      BY <1>6, <1>0
    <2> QED BY <2>1, <1>5, <1>6
  <1>8. w[k] = e
    <2>1. k \in 1 .. Len(d) + Len(b) /\ k <= Len(d)
      BY <1>6, <1>0
    <2> QED BY <2>1, <1>5, <1>6
  <1>9. ASSUME NEW i \in k .. Len(s) PROVE w[i + 1] = s[i]
    <2>1. /\ i + 1 \in 1 .. Len(d) + Len(b) /\ ~(i + 1 <= Len(d))
          /\ i + 1 - Len(d) = i + 1 - k
          /\ i + 1 - k \in 1 .. Len(s) - k + 1 /\ k + (i + 1 - k) - 1 = i
      BY <1>6, <1>0
    <2>2. w[i + 1] = b[i + 1 - k]
      BY <2>1, <1>5
    <2>3. b[i + 1 - k] = s[k + (i + 1 - k) - 1]
      BY <2>1, <1>2
    <2> QED BY <2>1, <2>2, <2>3
  <1>10. InsertBefore(s, k, e) = w
    BY DEF InsertBefore, a, b, c, d, w
  <1> QED BY <1>5, <1>6, <1>7, <1>8, <1>9, <1>10

(* Insertion anywhere adds e, once, and moves nobody past another.         *)
LEMMA InsertBeforeFacts ==
    ASSUME NEW T, NEW s \in Seq(T), NEW e \in T, NEW k \in 1 .. Len(s) + 1
    PROVE  /\ InsertBefore(s, k, e) \in Seq(T)
           /\ InsertBefore(s, k, e) # <<>>
           /\ Len(InsertBefore(s, k, e)) = Len(s) + 1
           /\ (NoRepeat(s) /\ ~InList(s, e)) => NoRepeat(InsertBefore(s, k, e))
           /\ \A x : InList(InsertBefore(s, k, e), x) <=> InList(s, x) \/ x = e
  <1> DEFINE r == InsertBefore(s, k, e)
             old(i) == IF i < k THEN i ELSE i - 1
             new(i) == IF i < k THEN i ELSE i + 1
  <1>0. Len(s) \in Nat /\ k \in Nat /\ k >= 1 /\ k <= Len(s) + 1
    OBVIOUS
  <1>1. /\ r \in Seq(T) /\ Len(r) = Len(s) + 1
        /\ \A i \in 1 .. k - 1 : r[i] = s[i]
        /\ r[k] = e
        /\ \A i \in k .. Len(s) : r[i + 1] = s[i]
    BY InsertBeforeIndex
  <1> HIDE DEF r
  <1>2. r # <<>> /\ k \in 1 .. Len(r) /\ r[k] = e
    BY <1>0, <1>1
  <1>3. ASSUME NEW i \in 1 .. Len(r), i # k
        PROVE  old(i) \in 1 .. Len(s) /\ r[i] = s[old(i)]
    <2>1. CASE i < k
      BY <2>1, <1>0, <1>1
    <2>2. CASE i > k
      <3>1. i - 1 \in k .. Len(s) /\ (i - 1) + 1 = i /\ old(i) = i - 1
        BY <2>2, <1>0, <1>1
      <3> QED BY <3>1, <1>0, <1>1
    <2> QED BY <1>3, <2>1, <2>2, <1>0
  <1>4. \A i \in 1 .. Len(s) : new(i) \in 1 .. Len(r) /\ r[new(i)] = s[i]
    BY <1>0, <1>1
  <1>5. \A i, j \in 1 .. Len(r) : (i # k /\ j # k /\ old(i) = old(j)) => i = j
    BY <1>0, <1>1
  <1> HIDE DEF old, new
  <1>6. (NoRepeat(s) /\ ~InList(s, e)) => NoRepeat(r)
    <2> SUFFICES ASSUME NoRepeat(s), ~InList(s, e),
                        NEW i \in 1 .. Len(r), NEW j \in 1 .. Len(r), r[i] = r[j]
                 PROVE  i = j
      BY DEF NoRepeat
    <2>1. \A n \in 1 .. Len(r) : n # k => r[n] # e
      BY <1>3 DEF InList
    <2>2. CASE i = k \/ j = k
      BY <2>1, <2>2, <1>2
    <2>3. CASE i # k /\ j # k
      <3>1. old(i) = old(j)
        BY <2>3, <1>3 DEF NoRepeat
      <3> QED BY <3>1, <2>3, <1>5
    <2> QED BY <2>2, <2>3
  <1>7. ASSUME NEW x PROVE InList(r, x) <=> InList(s, x) \/ x = e
    <2>1. InList(r, x) => InList(s, x) \/ x = e
      BY <1>2, <1>3 DEF InList
    <2>2. InList(s, x) => InList(r, x)
      BY <1>4 DEF InList
    <2>3. x = e => InList(r, x)
      BY <1>2 DEF InList
    <2> QED BY <2>1, <2>2, <2>3
  <1> QED BY <1>1, <1>2, <1>6, <1>7 DEF r

-----------------------------------------------------------------------------
(* The order of the nodes.  Removal leaves it as it is.                    *)
LEMMA RemoveOrder ==
    ASSUME NEW T, NEW s \in Seq(T), NEW e, NoRepeat(s), NEW u, NEW t,
           Before(ListRemove(s, e), u, t)
    PROVE  Before(s, u, t)
  <1>1. CASE ~InList(s, e)
    BY <1>1 DEF ListRemove
  <1>2. CASE InList(s, e)
    <2> PICK k \in 1 .. Len(s) :
             ListRemove(s, e) = [i \in 1 .. Len(s) - 1 |->
                                   IF i < k THEN s[i] ELSE s[i + 1]]
      BY <1>2, RemoveLinked
    <2> DEFINE r == ListRemove(s, e)
               old(i) == IF i < k THEN i ELSE i + 1
    <2>1. Len(s) \in Nat /\ Len(r) = Len(s) - 1 /\ k \in Nat
      OBVIOUS
    <2>2. \A i \in 1 .. Len(r) : old(i) \in 1 .. Len(s) /\ r[i] = s[old(i)]
      BY <2>1
    <2>3. \A i, j \in 1 .. Len(r) : i < j => old(i) < old(j)
      BY <2>1
    <2>4. PICK i \in 1 .. Len(r), j \in 1 .. Len(r) : i < j /\ r[i] = u /\ r[j] = t
      BY DEF Before
    <2> HIDE DEF r, old
    <2> QED BY <2>2, <2>3, <2>4 DEF Before
  <1> QED BY <1>1, <1>2

LEMMA TailOrder ==
    ASSUME NEW T, NEW s \in Seq(T), s # <<>>, NEW u, NEW t, Before(Tail(s), u, t)
    PROVE  Before(s, u, t)
  <1> DEFINE r == Tail(s)
  <1>1. /\ Len(r) = Len(s) - 1 /\ Len(s) \in Nat
        /\ \A i \in 1 .. Len(r) : r[i] = s[i + 1]
    OBVIOUS
  <1>2. PICK i \in 1 .. Len(r), j \in 1 .. Len(r) : i < j /\ r[i] = u /\ r[j] = t
    BY DEF Before
  <1> HIDE DEF r
  <1>3. i + 1 \in 1 .. Len(s) /\ j + 1 \in 1 .. Len(s) /\ i + 1 < j + 1
    BY <1>1, <1>2
  <1> QED BY <1>1, <1>2, <1>3 DEF Before

(* Insertion puts e behind the nodes before k and in front of the others.  *)
LEMMA InsertOrder ==
    ASSUME NEW T, NEW s \in Seq(T), NEW e \in T, NEW k \in 1 .. Len(s) + 1,
           NEW u, NEW t
    PROVE  /\ Before(InsertBefore(s, k, e), u, t) =>
                \/ Before(s, u, t)
                \/ u = e /\ \E j \in k .. Len(s) : s[j] = t
                \/ t = e /\ \E i \in 1 .. k - 1 : s[i] = u
           /\ \A i \in 1 .. k - 1 : Before(InsertBefore(s, k, e), s[i], e)
  <1> DEFINE r == InsertBefore(s, k, e)
             old(i) == IF i < k THEN i ELSE i - 1
  <1>0. Len(s) \in Nat /\ k \in Nat /\ k >= 1 /\ k <= Len(s) + 1
    OBVIOUS
  <1>1. /\ Len(r) = Len(s) + 1
        /\ \A i \in 1 .. k - 1 : r[i] = s[i]
        /\ r[k] = e
        /\ \A i \in k .. Len(s) : r[i + 1] = s[i]
    BY InsertBeforeIndex
  <1> HIDE DEF r
  <1>2. ASSUME NEW i \in 1 .. Len(r), i > k
        PROVE  i - 1 \in k .. Len(s) /\ r[i] = s[i - 1]
    <2>1. i - 1 \in k .. Len(s) /\ (i - 1) + 1 = i
      BY <1>0, <1>1, <1>2
    <2> QED BY <2>1, <1>1
  <1>3. ASSUME NEW i \in 1 .. Len(r), i # k
        PROVE  old(i) \in 1 .. Len(s) /\ r[i] = s[old(i)]
    <2>1. CASE i < k
      BY <2>1, <1>0, <1>1
    <2>2. CASE i > k
      BY <2>2, <1>0, <1>2
    <2> QED BY <1>3, <2>1, <2>2, <1>0
  <1>4. ASSUME NEW i \in 1 .. Len(r), NEW j \in 1 .. Len(r), i < j, i # k, j # k
        PROVE  old(i) < old(j)
    BY <1>0, <1>4
  <1> HIDE DEF old
  <1>5. ASSUME NEW i \in 1 .. Len(r), NEW j \in 1 .. Len(r),
               i < j, r[i] = u, r[j] = t
        PROVE  \/ Before(s, u, t)
               \/ u = e /\ \E n \in k .. Len(s) : s[n] = t
               \/ t = e /\ \E n \in 1 .. k - 1 : s[n] = u
    <2>1. CASE i = k
      BY <2>1, <1>1, <1>2, <1>5
    <2>2. CASE j = k
      <3>1. i \in 1 .. k - 1
        BY <2>2, <1>5, <1>0
      <3> QED BY <2>2, <3>1, <1>1, <1>5
    <2>3. CASE i # k /\ j # k
      BY <2>3, <1>3, <1>4, <1>5 DEF Before
    <2> QED BY <2>1, <2>2, <2>3
  <1>6. ASSUME NEW i \in 1 .. k - 1 PROVE Before(r, s[i], e)
    <2>1. i \in 1 .. Len(r) /\ k \in 1 .. Len(r) /\ i < k
      BY <1>0, <1>1
    <2> QED BY <2>1, <1>1 DEF Before
  <1> QED BY <1>5, <1>6 DEF r, Before

(* At the place OrderedPlace finds, e comes after what f does not put      *)
(* after it, and before a node that f does.                                *)
LEMMA PlacedOrder ==
    ASSUME NEW T, NEW s \in Seq(T), NEW e \in T, NEW f \in [T -> Int],
           NEW k \in 1 .. Len(s) + 1,
           \A i \in 1 .. k - 1 : ~(f[e] < f[s[i]]),
           k <= Len(s) => f[e] < f[s[k]],
           NEW u \in T, NEW w \in T, Before(InsertBefore(s, k, e), u, w)
    PROVE  \/ Before(s, u, w)
           \/ u = e /\ \E v \in T : f[e] < f[v] /\ (v = w \/ Before(s, v, w))
           \/ w = e /\ f[u] <= f[e]
  <1>0. Len(s) \in Nat /\ k \in Nat /\ k >= 1
    OBVIOUS
  <1>1. \/ Before(s, u, w)
        \/ u = e /\ \E j \in k .. Len(s) : s[j] = w
        \/ w = e /\ \E i \in 1 .. k - 1 : s[i] = u
    BY InsertOrder
  <1>2. ASSUME NEW j \in k .. Len(s), s[j] = w
        PROVE  \E v \in T : f[e] < f[v] /\ (v = w \/ Before(s, v, w))
    <2>1. k \in 1 .. Len(s) /\ j \in 1 .. Len(s) /\ s[k] \in T /\ f[e] < f[s[k]]
      BY <1>0
    <2>2. CASE j = k
      BY <1>2, <2>1, <2>2
    <2>3. CASE j # k
      <3>1. k < j
        BY <1>0, <2>3
      <3>2. Before(s, s[k], w)
        BY <1>2, <2>1, <3>1 DEF Before
      <3> QED BY <2>1, <3>2
    <2> QED BY <2>2, <2>3
  <1>3. ASSUME NEW i \in 1 .. k - 1, s[i] = u PROVE f[u] <= f[e]
    BY <1>3
  <1> QED BY <1>1, <1>2, <1>3

(* The same at the end of the list.                                        *)
LEMMA InsertLastOrder ==
    ASSUME NEW T, NEW s \in Seq(T), NEW e \in T, NEW u, NEW t,
           Before(InsertLast(s, e), u, t)
    PROVE  Before(s, u, t) \/ t = e
  <1> DEFINE r == InsertLast(s, e)
  <1>1. /\ Len(r) = Len(s) + 1 /\ Len(s) \in Nat
        /\ \A i \in 1 .. Len(s) : r[i] = s[i]
        /\ r[Len(s) + 1] = e
    BY DEF InsertLast
  <1>2. PICK i \in 1 .. Len(r), j \in 1 .. Len(r) : i < j /\ r[i] = u /\ r[j] = t
    BY DEF Before
  <1> HIDE DEF r
  <1>3. CASE j = Len(s) + 1
    BY <1>1, <1>2, <1>3
  <1>4. CASE j # Len(s) + 1
    <2>1. i \in 1 .. Len(s) /\ j \in 1 .. Len(s)
      BY <1>1, <1>2, <1>4
    <2> QED BY <2>1, <1>1, <1>2 DEF Before
  <1> QED BY <1>3, <1>4
=============================================================================
