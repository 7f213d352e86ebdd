---------------------------- MODULE DataBindProofs ----------------------------
(***************************************************************************)
(* Theorems about the data binding, for any VMs and keys, any lengths of   *)
(* the lists and any number of calls: nothing leads to a closed VM, nothing*)
(* freed is used, and watchers hear of assignments, but for the cases the  *)
(* properties except.  They rest on what the list of list.c keeps when it  *)
(* grows, when a gap is made in it and when it is relisted.                *)
(***************************************************************************)
EXTENDS DataBindProps, FiniteSetTheorems, SequenceTheorems, NaturalsInduction,
        WellFoundedInduction, TLAPS

Used(l) == {i \in DOMAIN l.arr : l.arr[i] # Null}

\* A list has at most as many elements as it counts.
Counts(l) == Cardinality(Used(l)) <= l.size

OneSlot(l, v) == \A i, j \in DOMAIN l.arr : l.arr[i] = v /\ l.arr[j] = v => i = j

----------------------------------------------------------------------------
\* The list.

\* Every set of naturals that has an element has a least one.
LEMMA LeastSlot ==
    ASSUME NEW T \in SUBSET Nat, T # {}
    PROVE  \E n \in T : \A m \in T : n <= m
<1>1. PICK n \in T : \A m \in T : <<m, n>> \notin OpToRel(<, Nat)
  BY NatLessThanWellFounded, WFMin
<1>2. ASSUME NEW m \in T PROVE n <= m
  <2>1. ~(m < n)
    BY <1>1 DEF OpToRel
  <2>2. QED
    BY <2>1
<1>3. QED
  BY <1>2

LEMMA ListShape ==
    ASSUME NEW S, NEW l \in Lists(S)
    PROVE  /\ l.arr \in Seq(S \cup {Null}) /\ l.size \in Nat /\ l.len \in Nat
           /\ l = [arr |-> l.arr, size |-> l.size, len |-> l.len]
           /\ Len(l.arr) \in Nat /\ DOMAIN l.arr = 1 .. Len(l.arr)
           /\ \A i \in 1 .. Len(l.arr) : l.arr[i] \in S \cup {Null}
           /\ l.size <= Len(l.arr) /\ Len(l.arr) <= l.len
<1>1. l \in [arr : Seq(S \cup {Null}), size : Nat, len : Nat]
      /\ l.size <= Len(l.arr) /\ Len(l.arr) <= l.len
  BY DEF Lists
<1>2. QED
  BY <1>1

\* What makes a record one of the lists.
LEMMA ListMade ==
    ASSUME NEW S, NEW a \in Seq(S \cup {Null}), NEW s \in Nat, NEW n \in Nat,
           s <= Len(a), Len(a) <= n
    PROVE  [arr |-> a, size |-> s, len |-> n] \in Lists(S)
BY DEF Lists

LEMMA UsedSlots ==
    ASSUME NEW S, NEW l \in Lists(S)
    PROVE  /\ Used(l) \subseteq 1 .. Len(l.arr) /\ IsFiniteSet(Used(l))
           /\ Cardinality(Used(l)) \in Nat
           /\ \A T \in SUBSET Used(l) :
                 /\ IsFiniteSet(T) /\ Cardinality(T) \in Nat
                 /\ Cardinality(T) <= Cardinality(Used(l))
                 /\ T # {} => Cardinality(T) >= 1
<1>0. Len(l.arr) \in Nat /\ DOMAIN l.arr = 1 .. Len(l.arr)
  BY ListShape
<1>1. Used(l) \in SUBSET (1 .. Len(l.arr))
  BY <1>0 DEF Used
<1>2. IsFiniteSet(Used(l))
  <2>1. 1 \in Int /\ Len(l.arr) \in Int
    BY <1>0
  <2>2. IsFiniteSet(1 .. Len(l.arr))
    BY <2>1, FS_Interval
  <2>3. QED
    BY <1>1, <2>2, FS_Subset
<1>3. ASSUME NEW T \in SUBSET Used(l)
      PROVE  /\ IsFiniteSet(T) /\ Cardinality(T) \in Nat
             /\ Cardinality(T) <= Cardinality(Used(l))
             /\ T # {} => Cardinality(T) >= 1
  <2>1. IsFiniteSet(T) /\ Cardinality(T) <= Cardinality(Used(l))
    BY <1>2, FS_Subset
  <2>2. Cardinality(T) \in Nat /\ (Cardinality(T) = 0 <=> T = {})
    BY <2>1, FS_CardinalityType, FS_EmptySet
  <2>3. QED
    BY <2>1, <2>2
<1>4. QED
  BY <1>1, <1>2, <1>3

\* Each element behind the first slot has a rank of its own, which is the slot
\* it moves to.
LEMMA Ranks ==
    ASSUME NEW S, NEW l \in Lists(S), Counts(l)
    PROVE  /\ \A i \in Behind(l) : \E n \in 1 .. l.size : i \in Moved(l, n)
           /\ \A n : \A i, j \in Moved(l, n) : i = j
<1> DEFINE Upto(i) == {j \in Behind(l) : j <= i}
<1>1. Behind(l) \subseteq Used(l) /\ Behind(l) \subseteq Nat
  BY ListShape DEF Behind, Used
<1>2. ASSUME NEW i \in Behind(l)
      PROVE  /\ IsFiniteSet(Upto(i)) /\ Cardinality(Upto(i)) \in Nat
             /\ Cardinality(Upto(i)) \in 1 .. l.size
  <2>1. Upto(i) \in SUBSET Used(l) /\ i \in Upto(i)
    BY <1>1, <1>2
  <2> HIDE DEF Upto
  <2>2. /\ IsFiniteSet(Upto(i)) /\ Cardinality(Upto(i)) \in Nat /\ Cardinality(Upto(i)) >= 1
        /\ Cardinality(Upto(i)) <= Cardinality(Used(l)) /\ Cardinality(Used(l)) \in Nat
    BY <2>1, UsedSlots
  <2>3. Cardinality(Used(l)) <= l.size /\ l.size \in Nat
    BY ListShape DEF Counts
  <2>4. QED
    BY <2>2, <2>3
<1>3. \A i \in Behind(l) : \E n \in 1 .. l.size : i \in Moved(l, n)
  BY <1>2 DEF Moved
<1>4. ASSUME NEW i \in Behind(l), NEW j \in Behind(l), i < j
      PROVE  Cardinality(Upto(i)) # Cardinality(Upto(j))
  <2>1. Upto(i) \in SUBSET Upto(j) /\ j \in Upto(j) /\ j \notin Upto(i) /\ IsFiniteSet(Upto(j))
    BY <1>1, <1>2, <1>4
  <2> HIDE DEF Upto
  <2>2. QED
    BY <2>1, FS_Subset
<1>5. ASSUME NEW n, NEW i \in Moved(l, n), NEW j \in Moved(l, n) PROVE i = j
  <2>1. /\ i \in Behind(l) /\ j \in Behind(l) /\ i \in Nat /\ j \in Nat
        /\ Cardinality(Upto(i)) = n /\ Cardinality(Upto(j)) = n
    BY <1>1 DEF Moved
  <2> HIDE DEF Upto
  <2>2. ~(i < j) /\ ~(j < i)
    BY <1>4, <2>1
  <2>3. QED
    BY <2>1, <2>2
<1>6. QED
  BY <1>3, <1>5

\* Where the element of a slot comes from.
LEMMA SlotsAfter ==
    ASSUME NEW S, NEW l \in Lists(S), Counts(l), Len(l.arr) > l.size, NEW n \in 1 .. l.size
    PROVE  /\ SlotAfter(l, n) \in S \cup {Null}
           /\ \/ SlotAfter(l, n) = Null
              \/ \E i \in Moved(l, n) : i \in 1 .. Len(l.arr) /\ SlotAfter(l, n) = l.arr[i]
              \/ n = 1 /\ SlotAfter(l, n) = l.arr[1]
           /\ \A i \in Moved(l, n) : SlotAfter(l, n) = l.arr[i]
<1>0. Len(l.arr) \in Nat /\ l.size \in Nat
  BY ListShape
<1>1. 1 \in 1 .. Len(l.arr) /\ \A i \in Moved(l, n) : i \in 1 .. Len(l.arr)
  BY <1>0 DEF Moved, Behind
<1>2. \A i \in 1 .. Len(l.arr) : l.arr[i] \in S \cup {Null}
  BY ListShape
<1>3. CASE Moved(l, n) # {}
  <2>1. PICK i \in Moved(l, n) : SlotAfter(l, n) = l.arr[i]
    BY <1>3 DEF SlotAfter
  <2>2. \A j \in Moved(l, n) : j = i
    BY Ranks
  <2>3. QED
    BY <1>1, <1>2, <2>1, <2>2
<1>4. CASE Moved(l, n) = {}
  <2>1. SlotAfter(l, n) = IF n = 1 THEN l.arr[1] ELSE Null
    BY <1>4 DEF SlotAfter
  <2>2. QED
    BY <1>1, <1>2, <1>4, <2>1
<1>5. QED
  BY <1>3, <1>4

\* list_relist loses nothing but an element that is written over.
LEMMA Relisted ==
    ASSUME NEW S, Null \notin S, NEW l \in Lists(S), Counts(l), Len(l.arr) > l.size, NEW m,
           m = list_relist(l)
    PROVE  /\ m \in Lists(S) /\ Counts(m)
           /\ m.size = l.size /\ m.len = l.len /\ Len(m.arr) = l.size
           /\ InUse(m) \subseteq InUse(l) /\ InUse(l) \ WrittenOver(l) \subseteq InUse(m)
           /\ \A u \in S : OneSlot(l, u) => OneSlot(m, u)
<1> DEFINE a == [n \in 1 .. l.size |-> SlotAfter(l, n)]
<1>1. /\ l = [arr |-> l.arr, size |-> l.size, len |-> l.len]
      /\ l.size \in Nat /\ l.len \in Nat /\ Len(l.arr) \in Nat /\ DOMAIN l.arr = 1 .. Len(l.arr)
      /\ Len(l.arr) <= l.len
  BY ListShape
<1>2. a \in Seq(S \cup {Null}) /\ Len(a) = l.size /\ DOMAIN a = 1 .. l.size
  <2>1. a \in [1 .. l.size -> S \cup {Null}]
    BY SlotsAfter
  <2> HIDE DEF a
  <2>2. QED
    BY <1>1, <2>1
<1>3. \A n \in 1 .. l.size : a[n] = SlotAfter(l, n)
  OBVIOUS
<1>4. m = [arr |-> a, size |-> l.size, len |-> l.len]
  BY <1>1 DEF list_relist
<1> HIDE DEF a
<1>5. m \in Lists(S) /\ m.arr = a /\ m.size = l.size /\ m.len = l.len
  BY <1>1, <1>2, <1>4, ListMade
<1>6. Counts(m)
  <2>1. Used(m) \in SUBSET (1 .. l.size) /\ 1 \in Int /\ l.size \in Int
    BY <1>1, <1>2, <1>5 DEF Used
  <2>2. IsFiniteSet(1 .. l.size) /\ Cardinality(1 .. l.size) <= l.size
    <3>1. /\ IsFiniteSet(1 .. l.size)
          /\ Cardinality(1 .. l.size) = IF 1 > l.size THEN 0 ELSE l.size - 1 + 1
      BY <2>1, FS_Interval
    <3>2. QED
      BY <1>1, <3>1
  <2>3. Cardinality(Used(m)) <= Cardinality(1 .. l.size) /\ Cardinality(Used(m)) \in Nat
        /\ Cardinality(1 .. l.size) \in Nat
    BY <2>1, <2>2, FS_Subset, FS_CardinalityType
  <2>4. QED
    BY <1>1, <1>5, <2>2, <2>3 DEF Counts
<1>7. InUse(m) \subseteq InUse(l)
  <2> SUFFICES ASSUME NEW n \in 1 .. l.size, a[n] # Null PROVE a[n] \in InUse(l)
    BY <1>2, <1>5 DEF InUse
  <2>1. 1 \in 1 .. Len(l.arr)
    BY <1>1
  <2>2. \E i \in 1 .. Len(l.arr) : a[n] = l.arr[i]
    BY <1>3, <2>1, SlotsAfter
  <2>3. QED
    BY <1>1, <2>2 DEF InUse
<1>8. InUse(l) \ WrittenOver(l) \subseteq InUse(m)
  <2> SUFFICES ASSUME NEW i \in 1 .. Len(l.arr), l.arr[i] # Null, l.arr[i] \notin WrittenOver(l)
               PROVE  \E n \in 1 .. l.size : a[n] = l.arr[i]
    BY <1>1, <1>2, <1>5 DEF InUse
  <2>1. CASE i \in Behind(l)
    <3>1. PICK n \in 1 .. l.size : i \in Moved(l, n)
      BY <2>1, Ranks
    <3>2. QED
      BY <1>3, <3>1, SlotsAfter
  <2>2. CASE i \notin Behind(l)
    <3>1. i = 1
      BY <1>1, <2>2 DEF Behind
    <3>2. Behind(l) = {}
      BY <3>1 DEF WrittenOver
    <3>3. Moved(l, 1) = {}
      BY <3>2 DEF Moved
    <3>4. 1 \in 1 .. l.size
      <4>1. Used(l) # {}
        BY <1>1, <3>1 DEF Used
      <4>2. Cardinality(Used(l)) >= 1 /\ Cardinality(Used(l)) \in Nat
        BY <4>1, UsedSlots
      <4>3. QED
        BY <1>1, <4>2 DEF Counts
    <3>5. a[1] = l.arr[1]
      BY <1>3, <3>3, <3>4 DEF SlotAfter
    <3>6. QED
      BY <3>1, <3>4, <3>5
  <2>3. QED
    BY <2>1, <2>2
<1>9. ASSUME NEW u \in S, OneSlot(l, u) PROVE OneSlot(m, u)
  <2> SUFFICES ASSUME NEW p \in 1 .. l.size, NEW q \in 1 .. l.size, a[p] = u, a[q] = u
               PROVE  p = q
    BY <1>2, <1>5 DEF OneSlot
  <2>1. 1 \notin Behind(l) /\ 1 \in 1 .. Len(l.arr)
    BY <1>1 DEF Behind
  <2>2. u # Null
    OBVIOUS
  <2>3. PICK i \in 1 .. Len(l.arr) : l.arr[i] = u /\ (i \in Moved(l, p) \/ (p = 1 /\ i = 1))
    BY <1>3, <2>1, <2>2, SlotsAfter
  <2>4. PICK j \in 1 .. Len(l.arr) : l.arr[j] = u /\ (j \in Moved(l, q) \/ (q = 1 /\ j = 1))
    BY <1>3, <2>1, <2>2, SlotsAfter
  <2>5. i = j
    BY <1>1, <1>9, <2>3, <2>4 DEF OneSlot
  <2>6. PICK c : \A n : i \in Moved(l, n) => i # 1 /\ n = c
    BY <2>1 DEF Moved
  <2>7. QED
    BY <2>3, <2>4, <2>5, <2>6
<1>10. QED
  BY <1>2, <1>5, <1>6, <1>7, <1>8, <1>9

\* An element is put behind the others; a full list with gaps is relisted first.
LEMMA Added ==
    ASSUME NEW S, Null \notin S, NEW l \in Lists(S), Counts(l), NEW v \in S, NEW m,
           m = list_add(l, v)
    PROVE  /\ m \in Lists(S) /\ Counts(m)
           /\ InUse(m) \subseteq InUse(l) \cup {v} /\ v \in InUse(m)
           /\ InUse(l) \ (IF Relists(l) THEN WrittenOver(l) ELSE {}) \subseteq InUse(m)
           /\ ~Relists(l) => /\ Len(m.arr) = Len(l.arr) + 1 /\ m.size = l.size + 1
                             /\ \A i \in 1 .. Len(l.arr) : m.arr[i] = l.arr[i]
                             /\ m.arr[Len(l.arr) + 1] = v
           /\ \A u \in S \ {v} : OneSlot(l, u) => OneSlot(m, u)
           /\ v \notin InUse(l) => OneSlot(m, v)
<1> DEFINE fit == IF Relists(l) THEN list_relist(l) ELSE IF IsFull(l) THEN Grown(l) ELSE l
<1>0. /\ l = [arr |-> l.arr, size |-> l.size, len |-> l.len]
      /\ l.size \in Nat /\ l.len \in Nat /\ Len(l.arr) \in Nat /\ l.arr \in Seq(S \cup {Null})
      /\ Len(l.arr) <= l.len /\ l.size <= Len(l.arr) /\ DOMAIN l.arr = 1 .. Len(l.arr)
  BY ListShape
<1>1. /\ fit \in Lists(S) /\ Counts(fit) /\ fit.size = l.size
      /\ InUse(fit) \subseteq InUse(l)
      /\ InUse(l) \ (IF Relists(l) THEN WrittenOver(l) ELSE {}) \subseteq InUse(fit)
      /\ ~Relists(l) => fit.arr = l.arr
      /\ \A u \in S : OneSlot(l, u) => OneSlot(fit, u)
      /\ Len(fit.arr) < fit.len
  <2>1. CASE Relists(l)
    <3>1. Len(l.arr) > l.size
      BY <2>1 DEF Relists
    <3>2. fit = list_relist(l)
      BY <2>1
    <3> HIDE DEF fit
    <3>3. /\ fit \in Lists(S) /\ Counts(fit)
          /\ fit.size = l.size /\ fit.len = l.len /\ Len(fit.arr) = l.size
          /\ InUse(fit) \subseteq InUse(l) /\ InUse(l) \ WrittenOver(l) \subseteq InUse(fit)
          /\ \A u \in S : OneSlot(l, u) => OneSlot(fit, u)
      BY <3>1, <3>2, Relisted
    <3>4. QED
      BY <1>0, <2>1, <3>1, <3>3
  <2>2. CASE ~Relists(l) /\ IsFull(l)
    <3>1. PICK n \in Nat : n > l.len /\ fit = [l EXCEPT !.len = n]
      <4> DEFINE k == (7 * l.len) \div 4
      <4>1. fit = [l EXCEPT !.len = IF k > @ THEN k ELSE @ + 1]
        BY <2>2 DEF Grown
      <4>2. k \in Nat
        BY <1>0
      <4> DEFINE n == IF k > l.len THEN k ELSE l.len + 1
      <4> HIDE DEF k, fit
      <4>3. n \in Nat /\ n > l.len /\ fit = [l EXCEPT !.len = n]
        BY <1>0, <4>1, <4>2
      <4>4. QED
        BY <4>3
    <3> HIDE DEF fit
    <3>2. fit = [arr |-> l.arr, size |-> l.size, len |-> n]
      BY <1>0, <3>1
    <3>3. fit \in Lists(S)
      BY <1>0, <3>1, <3>2, ListMade
    <3>4. fit.arr = l.arr /\ fit.size = l.size /\ fit.len = n
      BY <3>2
    <3>5. Used(fit) = Used(l) /\ InUse(fit) = InUse(l) /\ \A u \in S : OneSlot(l, u) => OneSlot(fit, u)
      BY <3>4 DEF Used, InUse, OneSlot
    <3>6. Counts(fit) /\ Len(fit.arr) < fit.len
      BY <1>0, <3>1, <3>4, <3>5 DEF Counts
    <3>7. QED
      BY <2>2, <3>3, <3>4, <3>5, <3>6
  <2>3. CASE ~Relists(l) /\ ~IsFull(l)
    <3>1. fit = l
      BY <2>3
    <3> HIDE DEF fit
    <3>2. QED
      BY <1>0, <2>3, <3>1 DEF IsFull
  <2>4. QED
    BY <2>1, <2>2, <2>3
<1>2. m = [fit EXCEPT !.arr = Append(@, v), !.size = @ + 1]
  BY DEF list_add
<1> HIDE DEF fit
<1> DEFINE a == Append(fit.arr, v)
           n == Len(fit.arr)
<1>3. /\ fit = [arr |-> fit.arr, size |-> fit.size, len |-> fit.len]
      /\ fit.arr \in Seq(S \cup {Null}) /\ n \in Nat /\ fit.size \in Nat /\ fit.len \in Nat
      /\ fit.size <= n /\ DOMAIN fit.arr = 1 .. n
  BY <1>1, ListShape
<1>4. /\ a \in Seq(S \cup {Null}) /\ Len(a) = n + 1
      /\ \A i \in 1 .. n : a[i] = fit.arr[i]
      /\ a[n + 1] = v
  BY <1>3, AppendProperties
<1>5. m = [arr |-> a, size |-> fit.size + 1, len |-> fit.len]
  BY <1>2, <1>3
<1> HIDE DEF a, n
<1>6. m.arr = a /\ m.size = fit.size + 1 /\ m.len = fit.len /\ DOMAIN a = 1 .. n + 1
  BY <1>3, <1>4, <1>5
<1>7. m \in Lists(S)
  <2>1. fit.size + 1 \in Nat /\ fit.size + 1 <= Len(a) /\ Len(a) <= fit.len
    BY <1>1, <1>3, <1>4 DEF n
  <2>2. QED
    BY <1>3, <1>4, <1>5, <2>1, ListMade
<1>8. v # Null /\ 1 .. n + 1 = 1 .. n \cup {n + 1}
  BY <1>3
<1>9. Counts(m)
  <2>1. Used(m) = Used(fit) \cup {n + 1}
    BY <1>3, <1>4, <1>6, <1>8 DEF Used
  <2>2. IsFiniteSet(Used(fit)) /\ Cardinality(Used(fit)) \in Nat
    BY <1>1, UsedSlots
  <2>3. Cardinality(Used(m)) <= Cardinality(Used(fit)) + 1 /\ Cardinality(Used(m)) \in Nat
    BY <2>1, <2>2, FS_AddElement
  <2>4. QED
    BY <1>1, <1>3, <1>6, <2>2, <2>3 DEF Counts
<1>10. InUse(m) = InUse(fit) \cup {v}
  BY <1>3, <1>4, <1>6, <1>8 DEF InUse
<1>11. ASSUME NEW u \in S \ {v}, OneSlot(l, u) PROVE OneSlot(m, u)
  <2>1. OneSlot(fit, u)
    BY <1>1, <1>11
  <2>2. QED
    BY <1>3, <1>4, <1>6, <1>8, <2>1 DEF OneSlot
<1>12. ASSUME v \notin InUse(l) PROVE OneSlot(m, v)
  <2>1. \A i \in 1 .. n : fit.arr[i] # v
    BY <1>1, <1>3, <1>8, <1>12 DEF InUse
  <2>2. QED
    BY <1>4, <1>6, <1>8, <2>1 DEF OneSlot
<1>13. ASSUME ~Relists(l)
       PROVE  /\ Len(m.arr) = Len(l.arr) + 1 /\ m.size = l.size + 1
              /\ \A i \in 1 .. Len(l.arr) : m.arr[i] = l.arr[i]
              /\ m.arr[Len(l.arr) + 1] = v
  BY <1>1, <1>4, <1>6, <1>13 DEF n
<1>14. QED
  BY <1>1, <1>7, <1>9, <1>10, <1>11, <1>12, <1>13

LEMMA NewLists ==
    ASSUME NEW S, NEW n \in Nat \ {0}
    PROVE  /\ NewList(n) \in Lists(S) /\ Counts(NewList(n)) /\ InUse(NewList(n)) = {}
           /\ ~Relists(NewList(n)) /\ Len(NewList(n).arr) = 0 /\ NewList(n).size = 0
<1>1. << >> \in Seq(S \cup {Null}) /\ Len(<< >>) = 0 /\ DOMAIN << >> = {}
  BY EmptySeq
<1>2. NewList(n) \in Lists(S)
  <2>1. 0 \in Nat /\ n \in Nat /\ 0 <= Len(<< >>) /\ Len(<< >>) <= n
    BY <1>1
  <2>2. [arr |-> << >>, size |-> 0, len |-> n] \in Lists(S)
    BY <1>1, <2>1, ListMade
  <2>3. QED
    BY <2>2 DEF NewList
<1>3. Used(NewList(n)) = {} /\ InUse(NewList(n)) = {}
  BY <1>1 DEF Used, InUse, NewList
<1>4. NewList(n).arr = << >> /\ NewList(n).size = 0 /\ NewList(n).len = n
  BY DEF NewList
<1>5. Counts(NewList(n))
  BY <1>3, <1>4, FS_EmptySet DEF Counts
<1>6. ~Relists(NewList(n))
  BY <1>1, <1>4 DEF Relists, IsFull
<1>7. QED
  BY <1>1, <1>2, <1>3, <1>4, <1>5, <1>6

\* A gap is left where an element was.
LEMMA Removed ==
    ASSUME NEW S, Null \notin S, NEW l \in Lists(S), Counts(l), NEW v \in S, NEW m,
           m = list_remove_obj(l, v)
    PROVE  /\ m \in Lists(S) /\ Counts(m) /\ Len(m.arr) = Len(l.arr)
           /\ InUse(m) \subseteq InUse(l) /\ InUse(l) \ {v} \subseteq InUse(m)
           /\ \A i \in 1 .. Len(l.arr) : l.arr[i] # v => m.arr[i] = l.arr[i]
           /\ \A u \in S : OneSlot(l, u) => OneSlot(m, u)
           /\ OneSlot(l, v) => v \notin InUse(m)
           /\ m.size = 0 => InUse(m) = {}
<1>0. /\ l = [arr |-> l.arr, size |-> l.size, len |-> l.len]
      /\ l.size \in Nat /\ l.len \in Nat /\ Len(l.arr) \in Nat /\ l.arr \in Seq(S \cup {Null})
      /\ Len(l.arr) <= l.len /\ l.size <= Len(l.arr) /\ DOMAIN l.arr = 1 .. Len(l.arr)
  BY ListShape
<1>1. ASSUME NEW k \in Lists(S), Counts(k), k.size = 0 PROVE InUse(k) = {}
  <2>1. Used(k) = {}
    <3>1. Cardinality(Used(k)) \in Nat /\ (Used(k) # {} => Cardinality(Used(k)) >= 1)
      BY UsedSlots
    <3>2. QED
      BY <1>1, <3>1 DEF Counts
  <2>2. QED
    BY <2>1 DEF Used, InUse
<1>2. CASE Slots(l, v) = {}
  <2>1. m = l
    BY <1>2 DEF list_remove_obj
  <2>2. v \notin InUse(l)
    BY <1>2 DEF Slots, InUse
  <2>3. QED
    BY <1>1, <2>1, <2>2
<1>3. CASE Slots(l, v) # {}
  <2> DEFINE f == FirstSlot(l, v)
             a == [l.arr EXCEPT ![f] = Null]
  <2>1. f \in 1 .. Len(l.arr) /\ l.arr[f] = v
    <3>1. Slots(l, v) \in SUBSET Nat
      BY <1>0 DEF Slots
    <3>2. \E i \in Slots(l, v) : \A j \in Slots(l, v) : i <= j
      BY <1>3, <3>1, LeastSlot
    <3>3. f \in Slots(l, v)
      BY <3>2 DEF FirstSlot
    <3>4. QED
      BY <1>0, <3>3 DEF Slots
  <2>2. m = [l EXCEPT !.arr[f] = Null, !.size = @ - 1]
    BY <1>3 DEF list_remove_obj
  <2> HIDE DEF f
  <2>3. /\ a \in Seq(S \cup {Null}) /\ Len(a) = Len(l.arr) /\ DOMAIN a = 1 .. Len(l.arr)
        /\ \A i \in 1 .. Len(l.arr) : a[i] = IF i = f THEN Null ELSE l.arr[i]
    BY <1>0, <2>1
  <2>4. m = [arr |-> a, size |-> l.size - 1, len |-> l.len]
    BY <1>0, <2>2
  <2> HIDE DEF a
  <2>5. m.arr = a /\ m.size = l.size - 1 /\ v # Null
    BY <2>4
  <2>6. Used(m) = Used(l) \ {f} /\ f \in Used(l)
    BY <1>0, <2>1, <2>3, <2>5 DEF Used
  <2>7. /\ Cardinality(Used(m)) = Cardinality(Used(l)) - 1
        /\ Cardinality(Used(l)) \in Nat /\ Cardinality(Used(l)) >= 1
    <3>1. IsFiniteSet(Used(l)) /\ Cardinality(Used(l)) \in Nat /\ Cardinality(Used(l)) >= 1
      BY <2>6, UsedSlots
    <3>2. QED
      BY <2>6, <3>1, FS_RemoveElement
  <2>8. l.size >= 1 /\ Counts(m)
    BY <1>0, <2>5, <2>7 DEF Counts
  <2>9. m \in Lists(S)
    <3>1. l.size - 1 \in Nat /\ l.size - 1 <= Len(a) /\ Len(a) <= l.len
      BY <1>0, <2>3, <2>8
    <3>2. QED
      BY <1>0, <2>3, <2>4, <3>1, ListMade
  <2>10. InUse(m) \subseteq InUse(l) /\ InUse(l) \ {v} \subseteq InUse(m)
    <3>1. ASSUME NEW i \in 1 .. Len(l.arr), a[i] # Null PROVE a[i] \in InUse(l)
      BY <1>0, <2>3, <3>1 DEF InUse
    <3>2. ASSUME NEW i \in 1 .. Len(l.arr), l.arr[i] # Null, l.arr[i] # v
          PROVE  l.arr[i] \in InUse(m)
      <4>1. a[i] = l.arr[i]
        BY <2>1, <2>3, <3>2
      <4>2. QED
        BY <2>3, <2>5, <3>2, <4>1 DEF InUse
    <3>3. InUse(m) \subseteq InUse(l)
      BY <2>3, <2>5, <3>1 DEF InUse
    <3>4. InUse(l) \ {v} \subseteq InUse(m)
      <4> SUFFICES ASSUME NEW x \in InUse(l), x # v PROVE x \in InUse(m)
        OBVIOUS
      <4>1. PICK i \in 1 .. Len(l.arr) : x = l.arr[i] /\ x # Null
        BY <1>0 DEF InUse
      <4>2. QED
        BY <3>2, <4>1
    <3>5. QED
      BY <3>3, <3>4
  <2>11. \A u \in S : OneSlot(l, u) => OneSlot(m, u)
    BY <1>0, <2>3, <2>5 DEF OneSlot
  <2>12. OneSlot(l, v) => v \notin InUse(m)
    BY <1>0, <2>1, <2>3, <2>5 DEF OneSlot, InUse
  <2>13. QED
    BY <1>1, <2>1, <2>3, <2>5, <2>8, <2>9, <2>10, <2>11, <2>12
<1>4. QED
  BY <1>2, <1>3


----------------------------------------------------------------------------
\* Keys, and what the operations make of the lists.

LEMMA KeyShape ==
    ASSUME NEW k \in Keys
    PROVE  /\ k \in Seq(Names) /\ Len(k) \in Nat \ {0} /\ k # << >>
           /\ Root(k) \in Keys /\ Root(k) \in Roots /\ Len(Root(k)) = 1
           /\ \A n \in 1 .. Len(k) : SubSeq(k, 1, n) \in Keys
           /\ TreePath(k) \subseteq Keys /\ k \in TreePath(k)
           /\ Len(k) = 1 => Root(k) = k
<1>00. k \in Seq(Names) /\ Len(k) > 0
  BY DataBindConstants
<1>0. Keys \subseteq Seq(Names) /\ Len(k) \in Nat \ {0}
  BY <1>00, DataBindConstants, LenProperties
<1>01. \A n \in 1 .. Len(k) : SubSeq(k, 1, n) \in Keys
  BY Zenon, DataBindConstants
<1>1. /\ k \in Seq(Names) /\ Len(k) \in Nat \ {0}
      /\ \A n \in 1 .. Len(k) : SubSeq(k, 1, n) \in Keys
  BY <1>0, <1>01
<1>2. k # << >> /\ 1 \in 1 .. Len(k) /\ Len(k) \in 1 .. Len(k) /\ Len(k) \in Int
  BY <1>1, EmptySeq
<1>3. SubSeq(k, 1, Len(k)) = k
  BY <1>1, SubSeqFull
<1>4. Len(SubSeq(k, 1, 1)) = 1
  <2>1. \A i \in 1 .. 1 : k[i] \in Names
    BY <1>1, <1>2
  <2>2. Len(SubSeq(k, 1, 1)) = IF 1 <= 1 THEN 1 - 1 + 1 ELSE 0
    BY <2>1, SubSeqProperties
  <2>3. QED
    BY <2>2
<1>5. QED
  BY <1>1, <1>2, <1>3, <1>4 DEF Root, Roots, TreePath

LEMMA BelowRoot ==
    ASSUME NEW p \in Keys, NEW q \in Keys, Below(p, q)
    PROVE  Root(p) = Root(q) /\ p \in TreePath(q) /\ Len(q) > 1
<1>0. p \in Seq(Names) /\ q \in Seq(Names) /\ Len(p) \in Nat \ {0} /\ Len(q) \in Nat \ {0}
  BY KeyShape
<1>01. Len(p) < Len(q) /\ SubSeq(q, 1, Len(p)) = p
  BY DEF Below
<1>1. /\ p \in Seq(Names) /\ q \in Seq(Names) /\ Len(p) \in Nat \ {0} /\ Len(q) \in Nat \ {0}
      /\ Len(p) < Len(q) /\ SubSeq(q, 1, Len(p)) = p
  BY <1>0, <1>01
<1>2. p \in TreePath(q) /\ Len(q) > 1
  <2>1. Len(p) \in 1 .. Len(q) /\ Len(q) > 1
    BY <1>1
  <2>2. QED
    BY <1>01, <2>1 DEF TreePath
<1>3. SubSeq(SubSeq(q, 1, Len(p)), 1, 1) = SubSeq(q, 1 + 1 - 1, 1 + 1 - 1)
  <2>1. /\ 1 \in 1 .. Len(q) /\ Len(p) \in 1 .. Len(q) /\ 1 \in 1 .. Len(p) - 1 + 1
    BY <1>1
  <2>2. QED
    BY <1>1, <2>1, SubSeqOfSubSeq
<1>4. QED
  BY <1>1, <1>2, <1>3 DEF Root

\* What a key leads to, name by name.
LEMMA LeadsNames ==
    ASSUME NEW p \in Seq(Names), NEW q \in Seq(Names)
    PROVE  Leads(p, q) <=> Len(p) <= Len(q) /\ \A i \in 1 .. Len(p) : p[i] = q[i]
<1>1. /\ Len(p) \in Nat /\ Len(q) \in Nat /\ DOMAIN p = 1 .. Len(p) /\ DOMAIN q = 1 .. Len(q)
      /\ p = [i \in 1 .. Len(p) |-> p[i]] /\ q = [i \in 1 .. Len(q) |-> q[i]]
  BY LenProperties
<1>2. ASSUME Len(p) <= Len(q)
      PROVE  SubSeq(q, 1, Len(p)) = p <=> \A i \in 1 .. Len(p) : p[i] = q[i]
  <2>1. /\ DOMAIN SubSeq(q, 1, Len(p)) = 1 .. Len(p)
        /\ SubSeq(q, 1, Len(p)) \in Seq(Names)
        /\ \A i \in 1 .. Len(p) : SubSeq(q, 1, Len(p))[i] = q[i]
    <3>1. \A i \in 1 .. Len(p) : q[i] \in Names
      BY <1>1, <1>2, ElementOfSeq
    <3>2. /\ SubSeq(q, 1, Len(p)) \in Seq(Names)
          /\ Len(SubSeq(q, 1, Len(p))) = IF 1 <= Len(p) THEN Len(p) - 1 + 1 ELSE 0
          /\ \A i \in 1 .. Len(p) - 1 + 1 : SubSeq(q, 1, Len(p))[i] = q[1 + i - 1]
      BY <1>1, <3>1, SubSeqProperties
    <3>3. Len(SubSeq(q, 1, Len(p))) = Len(p)
      BY <1>1, <3>2
    <3>4. DOMAIN SubSeq(q, 1, Len(p)) = 1 .. Len(p)
      BY <3>2, <3>3, LenProperties
    <3>5. \A i \in 1 .. Len(p) : SubSeq(q, 1, Len(p))[i] = q[i]
      <4> TAKE i \in 1 .. Len(p)
      <4>1. i \in 1 .. Len(p) - 1 + 1 /\ 1 + i - 1 = i
        BY <1>1
      <4>2. QED
        BY <3>2, <4>1
    <3>6. QED
      BY <3>2, <3>4, <3>5
  <2>2. PICK s \in Seq(Names) : s = SubSeq(q, 1, Len(p))
    BY <2>1
  <2>3. s = [i \in 1 .. Len(p) |-> q[i]]
    <3>1. s = [i \in DOMAIN s |-> s[i]]
      BY LenProperties
    <3>2. QED
      BY <2>1, <2>2, <3>1
  <2>4. QED
    BY <1>1, <2>2, <2>3
<1>3. p = q => Len(p) <= Len(q) /\ \A i \in 1 .. Len(p) : p[i] = q[i]
  BY <1>1
<1>4. ASSUME Len(p) = Len(q), \A i \in 1 .. Len(p) : p[i] = q[i] PROVE p = q
  BY <1>1, <1>4
<1>5. CASE Len(p) < Len(q)
  <2>1. p # q
    BY <1>1, <1>5
  <2>2. Leads(p, q) <=> SubSeq(q, 1, Len(p)) = p
    BY <1>5, <2>1 DEF Leads, Below
  <2>3. Len(p) <= Len(q)
    BY <1>1, <1>5
  <2>4. QED
    BY <1>2, <2>2, <2>3
<1>6. CASE ~(Len(p) < Len(q))
  <2>1. Leads(p, q) <=> p = q
    BY <1>6 DEF Leads, Below
  <2>2. Len(p) <= Len(q) => Len(p) = Len(q)
    <3>1. PICK x, y \in Nat : x = Len(p) /\ y = Len(q)
      BY <1>1
    <3>2. x <= y /\ ~(x < y) => x = y
      OBVIOUS
    <3>3. QED
      BY <1>6, <3>1, <3>2
  <2>3. QED
    BY <1>3, <1>4, <2>1, <2>2
<1>7. QED
  BY <1>5, <1>6

\* What the relation keeps, used as an order.
LEMMA LeadsOrder ==
    ASSUME NEW p \in Seq(Names), NEW q \in Seq(Names)
    PROVE  /\ Len(p) \in Nat /\ Len(q) \in Nat
           /\ Leads(p, p)
           /\ Leads(p, q) => Len(p) <= Len(q)
           /\ Leads(p, q) /\ Len(q) <= Len(p) => p = q
           /\ Below(p, q) <=> Leads(p, q) /\ p # q
           /\ Below(p, q) => Len(p) < Len(q)
           /\ \A r \in Seq(Names) : Leads(p, q) /\ Leads(q, r) => Leads(p, r)
           /\ \A r \in Seq(Names) : Leads(p, r) /\ Leads(q, r) /\ Len(p) <= Len(q) => Leads(p, q)
<1>1. Len(p) \in Nat /\ Len(q) \in Nat
  BY LenProperties
<1>2. Leads(p, q) => Len(p) <= Len(q)
  BY LeadsNames
<1>3. Leads(p, q) /\ Len(q) <= Len(p) => p = q
  BY <1>1 DEF Leads, Below
<1>4. Below(p, q) <=> Leads(p, q) /\ p # q
  BY <1>1 DEF Leads, Below
<1>5. Below(p, q) => Len(p) < Len(q)
  BY DEF Below
<1>6. ASSUME NEW r \in Seq(Names), Leads(p, q), Leads(q, r) PROVE Leads(p, r)
  <2>1. Len(p) <= Len(q) /\ \A i \in 1 .. Len(p) : p[i] = q[i]
    BY <1>6, LeadsNames
  <2>2. Len(q) <= Len(r) /\ \A i \in 1 .. Len(q) : q[i] = r[i]
    BY <1>6, LeadsNames
  <2>3. Len(r) \in Nat
    BY LenProperties
  <2>4. Len(p) <= Len(r) /\ \A i \in 1 .. Len(p) : p[i] = r[i]
    BY <1>1, <2>1, <2>2, <2>3
  <2>5. QED
    BY <2>4, LeadsNames
<1>7. ASSUME NEW r \in Seq(Names), Leads(p, r), Leads(q, r), Len(p) <= Len(q) PROVE Leads(p, q)
  <2>1. \A i \in 1 .. Len(p) : p[i] = r[i]
    BY <1>7, LeadsNames
  <2>2. \A i \in 1 .. Len(q) : q[i] = r[i]
    BY <1>7, LeadsNames
  <2>3. \A i \in 1 .. Len(p) : p[i] = q[i]
    BY <1>1, <1>7, <2>1, <2>2
  <2>4. QED
    BY <1>7, <2>3, LeadsNames
<1>8. Leads(p, p)
  BY DEF Leads
<1>9. QED
  BY <1>1, <1>2, <1>3, <1>4, <1>5, <1>6, <1>7, <1>8

\* The key above another, and what is above both.
LEMMA FrontShape ==
    ASSUME NEW k \in Keys
    PROVE  /\ Front(k) \in Seq(Names) /\ Len(Front(k)) = Len(k) - 1 /\ Leads(Front(k), k)
           /\ Len(k) > 1 => Front(k) \in Keys
           /\ \A p \in Seq(Names) : Below(p, k) => Leads(p, Front(k))
<1>1. k \in Seq(Names) /\ Len(k) \in Nat \ {0} /\ \A n \in 1 .. Len(k) : SubSeq(k, 1, n) \in Keys
  BY KeyShape
<1>2. DOMAIN k = 1 .. Len(k) /\ \A i \in 1 .. Len(k) : k[i] \in Names
  BY <1>1, LenProperties, ElementOfSeq
<1>3. PICK n \in Nat : n = Len(k) - 1
  BY <1>1
<1>4. PICK s : s = SubSeq(k, 1, n)
  OBVIOUS
<1>5. Front(k) = s
  BY <1>3, <1>4 DEF Front
<1>6. /\ s \in Seq(Names) /\ Len(s) = n
      /\ \A i \in 1 .. n : s[i] = k[i]
  <2>1. \A i \in 1 .. n : k[i] \in Names
    BY <1>1, <1>2, <1>3
  <2>2. /\ SubSeq(k, 1, n) \in Seq(Names)
        /\ Len(SubSeq(k, 1, n)) = IF 1 <= n THEN n - 1 + 1 ELSE 0
        /\ \A i \in 1 .. n - 1 + 1 : SubSeq(k, 1, n)[i] = k[1 + i - 1]
    BY <2>1, SubSeqProperties
  <2>3. \A i \in 1 .. n : s[i] = k[i]
    <3> TAKE i \in 1 .. n
    <3>1. i \in 1 .. n - 1 + 1 /\ 1 + i - 1 = i
      OBVIOUS
    <3>2. QED
      BY <1>4, <2>2, <3>1
  <2>4. Len(s) = n
    <3>1. (IF 1 <= n THEN n - 1 + 1 ELSE 0) = n
      OBVIOUS
    <3>2. QED
      BY <1>4, <2>2, <3>1
  <2>5. QED
    BY <1>4, <2>2, <2>3, <2>4
<1>7. Leads(s, k)
  BY <1>1, <1>3, <1>6, LeadsNames
<1>8. Len(k) > 1 => s \in Keys
  <2>1. Len(k) > 1 => n \in 1 .. Len(k)
    BY <1>1, <1>3
  <2>2. QED
    BY <1>1, <1>4, <2>1
<1>9. ASSUME NEW p \in Seq(Names), Below(p, k) PROVE Leads(p, s)
  <2>1. Leads(p, k) /\ Len(p) < Len(k) /\ Len(p) \in Nat
    BY <1>1, <1>9, LeadsOrder
  <2>2. Len(p) <= Len(s)
    BY <1>1, <1>3, <1>6, <2>1
  <2>3. QED
    BY <1>1, <1>6, <1>7, <2>1, <2>2, LeadsOrder
<1>10. QED
  BY <1>3, <1>5, <1>6, <1>7, <1>8, <1>9

Held(list) == IF list = Null THEN {} ELSE InUse(list)

\* The lists of the engine count their elements.
ListsCount ==
    /\ \A k \in Keys : key_observer[k] # Null => Counts(key_observer[k])
    /\ \A v \in VMs : vm_key[v] # Null => Counts(vm_key[v])

\* An assignment that called a watcher knows which.
Visiting == \A i \in DOMAIN frames : frames[i].stage # "list" => frames[i].vm \in VMs

Shape == TypeOK /\ ListsCount /\ Visiting

\* A list of keys without gaps.
Tight(list) == list # Null => ~HasGap(list) /\ list.size = Len(list.arr)

LEMMA Saved ==
    ASSUME NEW list \in Lists(Keys) \cup {Null}, list # Null => Counts(list), NEW k \in Keys, NEW m,
           m = SavedKey(list, k)
    PROVE  /\ m \in Lists(Keys) /\ m # Null /\ Counts(m)
           /\ Tight(list) => Tight(m) /\ k \in InUse(m) /\ Held(list) \subseteq InUse(m)
<1>1. Null \notin Keys /\ Null \notin Lists(Keys) /\ KeyListLen \in Nat \ {0}
  BY DataBindConstants
<1>2. CASE list = Null
  <2>1. m = list_add(NewList(KeyListLen), k)
    BY <1>2 DEF SavedKey
  <2>2. /\ NewList(KeyListLen) \in Lists(Keys) /\ Counts(NewList(KeyListLen))
        /\ ~Relists(NewList(KeyListLen)) /\ Len(NewList(KeyListLen).arr) = 0
        /\ NewList(KeyListLen).size = 0
    BY <1>1, NewLists
  <2>3. /\ m \in Lists(Keys) /\ Counts(m) /\ k \in InUse(m)
        /\ Len(m.arr) = 0 + 1 /\ m.size = 0 + 1 /\ m.arr[0 + 1] = k
    <3>1. PICK l \in Lists(Keys) : l = NewList(KeyListLen)
      BY <2>2
    <3>2. m \in Lists(Keys) /\ Counts(m) /\ k \in InUse(m)
      BY <1>1, <2>1, <2>2, <3>1, Added
    <3>3. ~Relists(l) => /\ Len(m.arr) = Len(l.arr) + 1 /\ m.size = l.size + 1
                         /\ m.arr[Len(l.arr) + 1] = k
      BY <1>1, <2>1, <2>2, <3>1, Added
    <3>4. QED
      BY <2>2, <3>1, <3>2, <3>3
  <2>4. ~HasGap(m)
    BY <1>1, <2>3, ListShape DEF HasGap
  <2>5. QED
    BY <1>1, <1>2, <2>3, <2>4 DEF Tight, Held
<1>3. CASE list # Null /\ IsIn(list, k)
  <2>1. m = list
    BY <1>3 DEF SavedKey
  <2>2. Tight(list) => k \in InUse(list)
    <3> SUFFICES ASSUME list.size = Len(list.arr) PROVE k \in InUse(list)
      BY <1>3 DEF Tight
    <3>1. list.size \in Nat
      BY <1>3, ListShape
    <3>2. Slots(list, k) # {}
      BY <1>3, <3>1 DEF IsIn, list_index, list_size
    <3>3. QED
      BY <1>1, <3>2 DEF Slots, InUse
  <2>3. QED
    BY <1>1, <1>3, <2>1, <2>2 DEF Held
<1>4. CASE list # Null /\ ~IsIn(list, k)
  <2>1. m = list_add(list, k) /\ list \in Lists(Keys) /\ Counts(list)
    BY <1>4 DEF SavedKey
  <2>2. m \in Lists(Keys) /\ Counts(m) /\ k \in InUse(m)
    BY <1>1, <2>1, Added
  <2>3. ASSUME Tight(list) PROVE Tight(m) /\ Held(list) \subseteq InUse(m)
    <3>1. ~Relists(list) /\ ~HasGap(list) /\ list.size = Len(list.arr)
      BY <1>4, <2>1, <2>3, ListShape DEF Tight, Relists
    <3>2. /\ Len(m.arr) = Len(list.arr) + 1 /\ m.size = list.size + 1
          /\ \A i \in 1 .. Len(list.arr) : m.arr[i] = list.arr[i]
          /\ m.arr[Len(list.arr) + 1] = k
      BY <1>1, <2>1, <3>1, Added
    <3>3. InUse(list) \subseteq InUse(m)
      <4>1. InUse(list) \ (IF Relists(list) THEN WrittenOver(list) ELSE {}) \subseteq InUse(m)
        BY <1>1, <2>1, Added
      <4>2. QED
        BY <3>1, <4>1
    <3>4. ~HasGap(m)
      <4>1. /\ DOMAIN list.arr = 1 .. Len(list.arr) /\ DOMAIN m.arr = 1 .. Len(m.arr)
            /\ Len(list.arr) \in Nat
        BY <2>1, <2>2, ListShape
      <4>2. QED
        BY <1>1, <3>1, <3>2, <4>1 DEF HasGap
    <3>5. QED
      BY <1>4, <3>1, <3>2, <3>3, <3>4 DEF Tight, Held
  <2>4. QED
    BY <1>1, <2>2, <2>3
<1>5. QED
  BY <1>2, <1>3, <1>4

\* The watchers a relisting loses.
Lost(q) ==
    IF key_observer[q] # Null /\ Relists(key_observer[q]) THEN WrittenOver(key_observer[q]) ELSE {}

LEMMA RecordedList ==
    ASSUME Shape, NEW q \in Keys, NEW v \in VMs, Records(q, v), NEW m, m = Recorded(q, v)
    PROVE  /\ m \in Lists(VMs) /\ m # Null /\ Counts(m)
           /\ Held(m) \subseteq Held(key_observer[q]) \cup {v} /\ v \in Held(m)
           /\ Held(key_observer[q]) \ Lost(q) \subseteq Held(m)
           /\ Lost(q) \subseteq Displaced(q)
           /\ key_observer[q] # Null /\ ~Relists(key_observer[q]) =>
                 \A i \in DOMAIN key_observer[q].arr :
                    i \in DOMAIN m.arr /\ m.arr[i] = key_observer[q].arr[i]
           /\ \A u \in VMs \ {v} : (key_observer[q] # Null => OneSlot(key_observer[q], u)) => OneSlot(m, u)
           /\ v \notin Held(key_observer[q]) => OneSlot(m, v)
<1> DEFINE l == IF key_observer[q] = Null THEN NewList(ListLen) ELSE key_observer[q]
<1>1. Null \notin VMs /\ Null \notin Lists(VMs) /\ ListLen \in Nat \ {0}
  BY DataBindConstants
<1>2. /\ l \in Lists(VMs) /\ Counts(l) /\ InUse(l) = Held(key_observer[q])
      /\ Lost(q) = IF Relists(l) THEN WrittenOver(l) ELSE {}
      /\ key_observer[q] = Null => Len(l.arr) = 0
      /\ key_observer[q] # Null => l = key_observer[q]
  <2>1. CASE key_observer[q] = Null
    <3>1. l = NewList(ListLen)
      BY <2>1
    <3> HIDE DEF l
    <3>2. QED
      BY <1>1, <2>1, <3>1, NewLists DEF Held, Lost
  <2>2. CASE key_observer[q] # Null
    <3>1. l = key_observer[q]
      BY <2>2
    <3> HIDE DEF l
    <3>2. l \in Lists(VMs) /\ Counts(l)
      BY <2>2, <3>1 DEF Shape, TypeOK, ListsCount
    <3>3. QED
      BY <2>2, <3>1, <3>2 DEF Held, Lost
  <2>3. QED
    BY <2>1, <2>2
<1>3. m = list_add(l, v)
  BY DEF Recorded
<1> HIDE DEF l
<1>4. /\ m \in Lists(VMs) /\ Counts(m)
      /\ InUse(m) \subseteq InUse(l) \cup {v} /\ v \in InUse(m)
      /\ InUse(l) \ (IF Relists(l) THEN WrittenOver(l) ELSE {}) \subseteq InUse(m)
      /\ \A u \in VMs \ {v} : OneSlot(l, u) => OneSlot(m, u)
      /\ v \notin InUse(l) => OneSlot(m, v)
  BY <1>1, <1>2, <1>3, Added
<1>5. ~Relists(l) => /\ Len(m.arr) = Len(l.arr) + 1
                     /\ \A i \in 1 .. Len(l.arr) : m.arr[i] = l.arr[i]
  BY <1>1, <1>2, <1>3, Added
<1>6. m # Null /\ Held(m) = InUse(m)
  BY <1>1, <1>4 DEF Held
<1>7. Lost(q) \subseteq Displaced(q)
  <2> SUFFICES ASSUME key_observer[q] # Null, Relists(key_observer[q])
               PROVE  WrittenOver(key_observer[q]) \subseteq Displaced(q)
    BY DEF Lost
  <2>1. key_observer[q] \in Lists(VMs)
    BY DEF Shape, TypeOK
  <2>2. DOMAIN key_observer[q].arr = 1 .. Len(key_observer[q].arr) /\ Len(key_observer[q].arr) \in Nat
        /\ key_observer[q].size \in Nat
    BY <2>1, ListShape
  <2>3. 1 \in DOMAIN key_observer[q].arr
    BY <2>2 DEF Relists
  <2>4. WrittenOver(key_observer[q]) \subseteq InUse(key_observer[q])
    BY <2>3 DEF WrittenOver, InUse
  <2>5. QED
    BY <2>4 DEF Displaced
<1>8. ASSUME key_observer[q] # Null, ~Relists(key_observer[q]), NEW i \in DOMAIN key_observer[q].arr
      PROVE  i \in DOMAIN m.arr /\ m.arr[i] = key_observer[q].arr[i]
  <2>1. DOMAIN l.arr = 1 .. Len(l.arr) /\ DOMAIN m.arr = 1 .. Len(m.arr) /\ Len(l.arr) \in Nat
    BY <1>2, <1>4, ListShape
  <2>2. QED
    BY <1>2, <1>5, <1>8, <2>1
<1>9. \A u \in VMs \ {v} : (key_observer[q] # Null => OneSlot(key_observer[q], u)) => OneSlot(m, u)
  <2> SUFFICES ASSUME NEW u \in VMs \ {v}, key_observer[q] # Null => OneSlot(key_observer[q], u)
               PROVE  OneSlot(l, u)
    BY <1>4
  <2>1. key_observer[q] = Null => DOMAIN l.arr = {}
    <3>1. DOMAIN l.arr = 1 .. Len(l.arr)
      BY <1>2, ListShape
    <3>2. QED
      BY <1>2, <3>1
  <2>2. QED
    BY <1>2, <2>1 DEF OneSlot
<1>10. QED
  BY <1>2, <1>4, <1>6, <1>7, <1>8, <1>9

\* What is forgotten leaves gaps, and the list goes when it counts none.
LEMMA Forgotten ==
    ASSUME NEW S, Null \notin S, Null \notin Lists(S), NEW list \in Lists(S) \cup {Null},
           list # Null => Counts(list), NEW x \in S, NEW m, m = Forgets(list, x)
    PROVE  /\ m \in Lists(S) \cup {Null} /\ (m # Null => Counts(m))
           /\ Held(m) \subseteq Held(list) /\ Held(list) \ {x} \subseteq Held(m)
           /\ m # Null => list # Null
           /\ list # Null => \A i \in DOMAIN list.arr : list.arr[i] \in S \ {x} =>
                 m # Null /\ i \in DOMAIN m.arr /\ m.arr[i] = list.arr[i]
           /\ \A u \in S : (list # Null => OneSlot(list, u)) => (m # Null => OneSlot(m, u))
           /\ (list # Null => OneSlot(list, x)) => x \notin Held(m)
<1>1. CASE list = Null
  <2>1. m = Null
    BY <1>1 DEF Forgets
  <2>2. QED
    BY <1>1, <2>1 DEF Held
<1>2. CASE list # Null
  <2> DEFINE rest == list_remove_obj(list, x)
  <2>1. m = IF rest.size = 0 THEN Null ELSE rest
    BY <1>2 DEF Forgets, list_size
  <2>2. list \in Lists(S) /\ Counts(list)
    BY <1>2
  <2> HIDE DEF rest
  <2>3. /\ rest \in Lists(S) /\ Counts(rest) /\ Len(rest.arr) = Len(list.arr)
        /\ InUse(rest) \subseteq InUse(list) /\ InUse(list) \ {x} \subseteq InUse(rest)
        /\ \A i \in 1 .. Len(list.arr) : list.arr[i] # x => rest.arr[i] = list.arr[i]
        /\ \A u \in S : OneSlot(list, u) => OneSlot(rest, u)
        /\ OneSlot(list, x) => x \notin InUse(rest)
        /\ rest.size = 0 => InUse(rest) = {}
    BY <2>2, Removed DEF rest
  <2>4. DOMAIN list.arr = 1 .. Len(list.arr) /\ DOMAIN rest.arr = 1 .. Len(rest.arr)
    BY <2>2, <2>3, ListShape
  <2>5. rest # Null
    BY <2>3
  <2>6. CASE rest.size = 0
    <3>1. m = Null
      BY <2>1, <2>6
    <3>2. InUse(list) \subseteq {x}
      BY <2>3, <2>6
    <3>3. \A i \in DOMAIN list.arr : list.arr[i] \notin S \ {x}
      BY <3>2 DEF InUse
    <3>4. QED
      BY <1>2, <3>1, <3>2, <3>3 DEF Held
  <2>7. CASE rest.size # 0
    <3>1. m = rest
      BY <2>1, <2>7
    <3>2. QED
      BY <1>2, <2>3, <2>4, <2>5, <3>1 DEF Held
  <2>8. QED
    BY <2>6, <2>7
<1>3. QED
  BY <1>1, <1>2


----------------------------------------------------------------------------
\* Types, and that lists count their elements.

LEMMA ShapeInit == Init => Shape
<1> SUFFICES ASSUME Init PROVE Shape
  OBVIOUS
<1>1. frames \in Seq(Frames) /\ Len(frames) = 0
  BY EmptySeq DEF Init
<1>2. MaxDepth \in Nat /\ MaxCalls \in Nat
  BY DataBindConstants
<1>3. TypeOK
  BY <1>1, <1>2 DEF Init, TypeOK
<1>4. Visiting
  BY <1>1 DEF Visiting, Init
<1>5. QED
  BY <1>3, <1>4 DEF Init, Shape, ListsCount

LEMMA TopShape ==
    ASSUME TypeOK, ~Idle
    PROVE  /\ Top \in Frames /\ Len(frames) \in Nat \ {0} /\ 1 \in DOMAIN frames
           /\ DOMAIN frames = 1 .. Len(frames)
           /\ \A i \in DOMAIN frames : frames[i] \in Frames
           /\ Top.key \in Keys /\ Top.todo \subseteq Keys /\ Top.pos \in Nat
<1>1. frames \in Seq(Frames) /\ frames # << >>
  BY DEF TypeOK, Idle
<1>2. Len(frames) \in Nat /\ DOMAIN frames = 1 .. Len(frames) /\ frames \in [1 .. Len(frames) -> Frames]
  BY <1>1, LenProperties
<1>3. Len(frames) # 0
  BY <1>1, EmptySeq
<1>4. 1 \in DOMAIN frames /\ Len(frames) \in Nat \ {0} /\ \A i \in DOMAIN frames : frames[i] \in Frames
  BY <1>2, <1>3
<1>5. QED
  BY <1>2, <1>4 DEF Top, Frames

LEMMA TopSet ==
    ASSUME TypeOK, ~Idle, NEW f \in Frames, SetTop(f)
    PROVE  /\ frames' \in Seq(Frames) /\ Len(frames') = Len(frames)
           /\ DOMAIN frames' = DOMAIN frames /\ frames'[1] = f
           /\ \A i \in DOMAIN frames \ {1} : frames'[i] = frames[i]
<1>1. /\ frames \in Seq(Frames) /\ 1 \in 1 .. Len(frames) /\ frames' = [frames EXCEPT ![1] = f]
      /\ DOMAIN frames = 1 .. Len(frames)
  BY TopShape DEF TypeOK, SetTop
<1>2. QED
  BY <1>1, ExceptSeq

\* A call that fails leaves everything but the fault and the count of calls.
LEMMA FailsShape ==
    ASSUME Shape, NEW what \in {"null key", "empty node", "closed VM", "freed list", "freed node"},
           Fails(what), calls' \in 0 .. MaxCalls
    PROVE  Shape'
BY DEF Shape, TypeOK, ListsCount, Visiting, Fails, bindings, tables

LEMMA CallCounted ==
    ASSUME TypeOK, NEW v \in VMs, MayCall(v)
    PROVE  calls' \in 0 .. MaxCalls /\ fault = "none" /\ v \in open /\ (Idle \/ InFunction)
BY DataBindConstants DEF TypeOK, MayCall, Runs

\* What the properties remember is of VMs.
LEMMA HistParts ==
    ASSUME TypeOK
    PROVE  /\ hist.unwatched \in SUBSET VMs /\ hist.refused \in SUBSET VMs
           /\ hist.doubled \in SUBSET VMs /\ hist.displaced \in SUBSET VMs
           /\ hist.grown \in SUBSET VMs /\ hist.missed \in SUBSET VMs
BY DEF TypeOK

LEMMA BindShape ==
    ASSUME Shape, NEW v \in VMs, NEW r \in Roots, Bind(v, r)
    PROVE  Shape'
<1>1. calls' \in 0 .. MaxCalls /\ r \in Keys
  BY CallCounted DEF Bind, Shape, Roots
<1>2. CASE Fails("null key")
  BY <1>1, <1>2, FailsShape
<1>3. CASE ~Fails("null key")
  <2> DEFINE list == IF key_observable[r] = Null THEN SavedKey(vm_key[v], r) ELSE vm_key[v]
  <2>1. /\ vm_key[v] \in Lists(Keys) \cup {Null} /\ (vm_key[v] # Null => Counts(vm_key[v]))
    BY DEF Shape, TypeOK, ListsCount
  <2>2. list \in Lists(Keys) \cup {Null} /\ (list # Null => Counts(list))
    BY <1>1, <2>1, Saved
  <2>3. vm_key' = [vm_key EXCEPT ![v] = list]
    BY <1>3 DEF Bind
  <2> HIDE DEF list
  <2>4. vm_key' \in [VMs -> Lists(Keys) \cup {Null}] /\ \A u \in VMs : vm_key'[u] # Null => Counts(vm_key'[u])
    BY <2>1, <2>2, <2>3 DEF Shape, TypeOK, ListsCount
  <2>5. key_observable' \in [Roots -> VMs \cup {Null}] /\ oatk' \in [VMs -> SUBSET Roots]
    <3>1. key_observable' = [key_observable EXCEPT ![r] = v]
      BY <1>3 DEF Bind
    <3>2. oatk' = [oatk EXCEPT ![v] = IF key_observable[r] \in {Null, v} THEN @ \cup {r} ELSE @]
      BY <1>3 DEF Bind
    <3>3. oatk \in [VMs -> SUBSET Roots] /\ key_observable \in [Roots -> VMs \cup {Null}]
      BY DEF Shape, TypeOK
    <3>4. oatk' \in [VMs -> SUBSET Roots]
      <4> DEFINE o == IF key_observable[r] \in {Null, v} THEN oatk[v] \cup {r} ELSE oatk[v]
      <4>1. o \in SUBSET Roots
        BY <3>3
      <4>2. oatk' = [oatk EXCEPT ![v] = o]
        BY <3>2
      <4> HIDE DEF o
      <4>3. QED
        BY <3>3, <4>1, <4>2
    <3>5. key_observable' \in [Roots -> VMs \cup {Null}]
      BY <3>1, <3>3
    <3>6. QED
      BY <3>4, <3>5
  <2>6. hist' \in [{"unwatched", "refused", "doubled", "displaced", "grown", "missed"} -> SUBSET VMs]
    <3> DEFINE h == IF key_observable[r] \in {Null, v} THEN hist.refused ELSE hist.refused \cup {v}
    <3>1. hist' = [hist EXCEPT !.refused = h]
      BY <1>3 DEF Bind
    <3>2. hist \in [{"unwatched", "refused", "doubled", "displaced", "grown", "missed"} -> SUBSET VMs]
      BY DEF Shape, TypeOK
    <3>3. h \in SUBSET VMs
      BY <3>2
    <3> HIDE DEF h
    <3>4. QED
      BY <3>1, <3>2, <3>3
  <2>7. UNCHANGED <<key_observer, open, otk, typed, nodes, room, frames, fault>>
    BY <1>3 DEF Bind
  <2>8. TypeOK'
    BY <1>1, <2>4, <2>5, <2>6, <2>7 DEF Shape, TypeOK
  <2>9. QED
    BY <2>4, <2>7, <2>8 DEF Shape, ListsCount, Visiting
<1>4. QED
  BY <1>2, <1>3

\* What a watch leaves of the walks under way.
LEMMA WalksLeft ==
    ASSUME Shape, NEW v \in VMs, NEW new, NEW grown, frames' \in WalksAfter(v, new, grown)
    PROVE  /\ frames' \in Seq(Frames) /\ Len(frames') = Len(frames) /\ DOMAIN frames' = DOMAIN frames
           /\ \A i \in DOMAIN frames : \E t \in SUBSET Keys, w \in BOOLEAN :
                 /\ frames[i] \in Frames
                 /\ frames'[i] = [frames[i] EXCEPT !.todo = t, !.walkFreed = w]
                 /\ frames[i].todo \ Unsure(frames[i], v, new, grown) \subseteq t
                 /\ t \subseteq frames[i].todo \cup Unsure(frames[i], v, new, grown)
                 /\ w => frames[i].walkFreed \/ WalkMoved(frames[i], v, grown)
<1> DEFINE unsure == [i \in DOMAIN frames |-> Unsure(frames[i], v, new, grown)]
           sets == SUBSET UNION {unsure[i] : i \in DOMAIN frames}
<1>1. \A i \in DOMAIN frames : unsure[i] = Unsure(frames[i], v, new, grown)
  OBVIOUS
<1>2. PICK kept \in [DOMAIN frames -> sets] :
         frames' = [i \in DOMAIN frames |->
            [frames[i] EXCEPT !.todo = (@ \ unsure[i]) \cup (kept[i] \cap unsure[i]),
                              !.walkFreed = @ \/ WalkMoved(frames[i], v, grown)]]
  BY DEF WalksAfter
<1>3. \A i \in DOMAIN frames : unsure[i] \subseteq Keys
  BY DEF Unsure
<1> HIDE DEF unsure, sets
<1>4. frames \in Seq(Frames)
  BY DEF Shape, TypeOK
<1>5. Len(frames) \in Nat /\ DOMAIN frames = 1 .. Len(frames) /\ \A i \in DOMAIN frames : frames[i] \in Frames
  BY <1>4, LenProperties
<1>6. ASSUME NEW i \in DOMAIN frames
      PROVE  /\ frames'[i] \in Frames
             /\ \E t \in SUBSET Keys, w \in BOOLEAN :
                 /\ frames[i] \in Frames
                 /\ frames'[i] = [frames[i] EXCEPT !.todo = t, !.walkFreed = w]
                 /\ frames[i].todo \ Unsure(frames[i], v, new, grown) \subseteq t
                 /\ t \subseteq frames[i].todo \cup Unsure(frames[i], v, new, grown)
                 /\ w => frames[i].walkFreed \/ WalkMoved(frames[i], v, grown)
  <2> DEFINE t == (frames[i].todo \ unsure[i]) \cup (kept[i] \cap unsure[i])
             w == frames[i].walkFreed \/ WalkMoved(frames[i], v, grown)
  <2>1. frames[i] \in Frames /\ frames[i].todo \in SUBSET Keys
    BY <1>5 DEF Frames
  <2>2. /\ t \in SUBSET Keys /\ frames[i].todo \ Unsure(frames[i], v, new, grown) \subseteq t
        /\ t \subseteq frames[i].todo \cup Unsure(frames[i], v, new, grown)
    BY <1>1, <1>3, <2>1
  <2>3. w \in BOOLEAN /\ (w => frames[i].walkFreed \/ WalkMoved(frames[i], v, grown))
    OBVIOUS
  <2>4. frames'[i] = [frames[i] EXCEPT !.todo = t, !.walkFreed = w]
    BY <1>2, <2>1 DEF Frames
  <2> HIDE DEF t, w
  <2>5. frames'[i] \in Frames
    BY <2>1, <2>2, <2>3, <2>4 DEF Frames
  <2>6. QED
    BY <2>1, <2>2, <2>3, <2>4, <2>5
<1>7. DOMAIN frames' = DOMAIN frames /\ frames' \in [1 .. Len(frames) -> Frames]
  <2>1. frames' = [i \in DOMAIN frames |-> frames'[i]]
    BY <1>2
  <2>2. QED
    BY <1>5, <1>6, <2>1
<1>8. frames' \in Seq(Frames) /\ Len(frames') = Len(frames)
  BY <1>5, <1>7, SeqDef, LenProperties
<1>9. QED
  BY <1>6, <1>7, <1>8

\* The arrays of the nodes keep the room they had, or get some.
LEMMA RoomLeft ==
    ASSUME TypeOK, NEW v \in VMs, NEW k \in Keys, NEW new, NEW left \in [new -> LeftRooms(v)]
    PROVE  RoomAfter(v, k, left) \in [Keys \cup {<< >>} -> Nat]
<1>1. room[v] \in [Keys \cup {<< >>} -> Nat] /\ NodeLen \in Nat
  BY DataBindConstants DEF TypeOK
<1>2. LeftRooms(v) \subseteq Nat
  BY <1>1 DEF LeftRooms
<1> DEFINE had == [p \in Keys \cup {<< >>} |-> IF p \in DOMAIN left THEN left[p] ELSE room[v][p]]
           grown == NodesGrown(v, k)
           passed == Passed(v, k)
<1>3. \A p \in Keys \cup {<< >>} : had[p] \in Nat
  BY <1>1, <1>2
<1>4. RoomAfter(v, k, left) = [p \in Keys \cup {<< >>} |->
           IF p \in grown \/ (p \in passed /\ had[p] = 0) THEN had[p] + NodeLen ELSE had[p]]
  BY DEF RoomAfter
<1> HIDE DEF had, grown, passed
<1>5. \A p \in Keys \cup {<< >>} :
         (IF p \in grown \/ (p \in passed /\ had[p] = 0) THEN had[p] + NodeLen ELSE had[p]) \in Nat
  BY <1>1, <1>3
<1>6. QED
  BY <1>4, <1>5

LEMMA WatchShape ==
    ASSUME Shape, NEW v \in VMs, NEW k \in Keys, NEW params \in BOOLEAN, Watch(v, k, params)
    PROVE  Shape'
<1>1. calls' \in 0 .. MaxCalls
  BY CallCounted DEF Watch, Shape
<1>2. CASE Fails("null key")
  BY <1>1, <1>2, FailsShape
<1>3. CASE ~Fails("null key")
  <2> DEFINE added == RecordedKeys(k, v)
             first == IF k \in added THEN SavedKey(vm_key[v], k) ELSE vm_key[v]
             saved == IF Root(k) \in added /\ Root(k) # k THEN SavedKey(first, Root(k)) ELSE first
  <2>1. /\ vm_key[v] \in Lists(Keys) \cup {Null} /\ (vm_key[v] # Null => Counts(vm_key[v]))
    BY DEF Shape, TypeOK, ListsCount
  <2>2. first \in Lists(Keys) \cup {Null} /\ (first # Null => Counts(first))
    BY <2>1, Saved
  <2>3. saved \in Lists(Keys) \cup {Null} /\ (saved # Null => Counts(saved))
    <3> HIDE DEF first
    <3>1. QED
      BY <2>2, Saved, KeyShape
  <2>4. vm_key' = [vm_key EXCEPT ![v] = saved]
    BY <1>3 DEF Watch
  <2> HIDE DEF first, saved
  <2>5. vm_key' \in [VMs -> Lists(Keys) \cup {Null}] /\ \A u \in VMs : vm_key'[u] # Null => Counts(vm_key'[u])
    BY <2>3, <2>4 DEF Shape, TypeOK, ListsCount
  <2>6. key_observer' = [q \in Keys |-> IF q \in added THEN Recorded(q, v) ELSE key_observer[q]]
    BY <1>3 DEF Watch
  <2>7. \A q \in added : q \in Keys /\ Records(q, v)
    BY KeyShape DEF RecordedKeys
  <2> HIDE DEF added
  <2>8. ASSUME NEW q \in Keys
        PROVE  key_observer'[q] \in Lists(VMs) \cup {Null} /\ (key_observer'[q] # Null => Counts(key_observer'[q]))
    <3>1. CASE q \in added
      BY <2>6, <2>7, <3>1, RecordedList
    <3>2. CASE q \notin added
      BY <2>6, <3>2 DEF Shape, TypeOK, ListsCount
    <3>3. QED
      BY <3>1, <3>2
  <2>9. key_observer' \in [Keys -> Lists(VMs) \cup {Null}]
    <3>1. key_observer' = [q \in Keys |-> key_observer'[q]]
      BY <2>6
    <3>2. QED
      BY <2>8, <3>1
  <2>10. /\ otk' \in [VMs -> SUBSET Keys] /\ typed' \in [VMs -> SUBSET Keys]
         /\ nodes' \in [VMs -> SUBSET Keys] /\ room' \in [VMs -> [Keys \cup {<< >>} -> Nat]]
    <3>1. NewNodes(v, k) \subseteq Keys
      BY KeyShape DEF NewNodes
    <3>2. /\ otk \in [VMs -> SUBSET Keys] /\ typed \in [VMs -> SUBSET Keys]
          /\ nodes \in [VMs -> SUBSET Keys] /\ room \in [VMs -> [Keys \cup {<< >>} -> Nat]]
      BY DEF Shape, TypeOK
    <3>3. otk' \in [VMs -> SUBSET Keys] /\ nodes' \in [VMs -> SUBSET Keys]
      <4> DEFINE A == otk[v] \cup {k}
                 B == nodes[v] \cup NewNodes(v, k)
      <4>1. otk' = [otk EXCEPT ![v] = A] /\ nodes' = [nodes EXCEPT ![v] = B]
        BY <1>3 DEF Watch
      <4>2. A \in SUBSET Keys /\ B \in SUBSET Keys
        BY <3>1, <3>2
      <4> HIDE DEF A, B
      <4>3. QED
        BY <3>2, <4>1, <4>2
    <3>4. typed' \in [VMs -> SUBSET Keys]
      <4> DEFINE A == IF params THEN typed[v] \cup {k} ELSE typed[v] \ {k}
      <4>1. typed' = [typed EXCEPT ![v] = A]
        BY <1>3 DEF Watch
      <4>2. A \in SUBSET Keys
        BY <3>2
      <4> HIDE DEF A
      <4>3. QED
        BY <3>2, <4>1, <4>2
    <3>5. room' \in [VMs -> [Keys \cup {<< >>} -> Nat]]
      <4>1. PICK left \in [NewNodes(v, k) -> LeftRooms(v)] : room' = [room EXCEPT ![v] = RoomAfter(v, k, left)]
        BY <1>3 DEF Watch
      <4>2. PICK after \in [Keys \cup {<< >>} -> Nat] : after = RoomAfter(v, k, left)
        BY RoomLeft DEF Shape
      <4>3. QED
        BY <3>2, <4>1, <4>2
    <3>6. QED
      BY <3>3, <3>4, <3>5
  <2>11. hist' \in [{"unwatched", "refused", "doubled", "displaced", "grown", "missed"} -> SUBSET VMs]
    <3>1. \A q \in added : Displaced(q) \subseteq VMs
      <4> SUFFICES ASSUME NEW q \in Keys, key_observer[q] # Null, Relists(key_observer[q])
                   PROVE  /\ InUse(key_observer[q]) \subseteq VMs
                          /\ WrittenOver(key_observer[q]) \subseteq VMs
        BY <2>7 DEF Displaced
      <4>1. key_observer[q] \in Lists(VMs)
        BY DEF Shape, TypeOK
      <4> DEFINE l == key_observer[q]
      <4>11. /\ Len(l.arr) \in Nat /\ DOMAIN l.arr = 1 .. Len(l.arr) /\ l.size \in Nat
             /\ \A i \in 1 .. Len(l.arr) : l.arr[i] \in VMs \cup {Null}
        BY <4>1, ListShape
      <4>12. Len(l.arr) > l.size
        BY DEF Relists
      <4> HIDE DEF l
      <4>13. 1 \in DOMAIN l.arr /\ \A i \in DOMAIN l.arr : l.arr[i] \in VMs \cup {Null}
        BY <4>11, <4>12
      <4>2. 1 \in DOMAIN key_observer[q].arr /\ \A i \in DOMAIN key_observer[q].arr : key_observer[q].arr[i] \in VMs \cup {Null}
        BY <4>13 DEF l
      <4>3. QED
        BY <4>2 DEF InUse, WrittenOver
    <3>2. \E d, e, g \in SUBSET VMs : hist' = [hist EXCEPT !.doubled = d, !.displaced = e, !.grown = g]
      <4> DEFINE d == IF \E q \in added : key_observer[q] # Null /\ v \in InUse(key_observer[q])
                      THEN hist.doubled \cup {v} ELSE hist.doubled
                 e == hist.displaced \cup UNION {Displaced(q) : q \in added}
                 g == IF \E i \in DOMAIN frames : WalkGrown(frames[i], v, NodesGrown(v, k))
                      THEN hist.grown \cup {v} ELSE hist.grown
      <4>1. hist' = [hist EXCEPT !.doubled = d, !.displaced = e, !.grown = g]
        BY <1>3 DEF Watch, added
      <4>2. d \in SUBSET VMs /\ e \in SUBSET VMs /\ g \in SUBSET VMs
        BY <3>1, HistParts DEF Shape
      <4> HIDE DEF d, e, g
      <4>3. QED
        BY <4>1, <4>2
    <3>3. hist \in [{"unwatched", "refused", "doubled", "displaced", "grown", "missed"} -> SUBSET VMs]
      BY DEF Shape, TypeOK
    <3>4. QED
      BY <3>2, <3>3
  <2>12. UNCHANGED <<key_observable, open, oatk, fault>>
    BY <1>3 DEF Watch
  <2>15. frames' \in WalksAfter(v, NewNodes(v, k), NodesGrown(v, k))
    BY <1>3 DEF Watch
  <2>16. /\ frames' \in Seq(Frames) /\ Len(frames') = Len(frames) /\ DOMAIN frames' = DOMAIN frames
         /\ \A i \in DOMAIN frames : frames'[i].stage = frames[i].stage /\ frames'[i].vm = frames[i].vm
    <3>1. \A i \in DOMAIN frames : \E t \in SUBSET Keys, w \in BOOLEAN :
             frames[i] \in Frames /\ frames'[i] = [frames[i] EXCEPT !.todo = t, !.walkFreed = w]
      BY <2>15, WalksLeft
    <3>2. \A i \in DOMAIN frames : frames'[i].stage = frames[i].stage /\ frames'[i].vm = frames[i].vm
      BY <3>1 DEF Frames
    <3>3. QED
      BY <2>15, <3>2, WalksLeft
  <2>13. TypeOK'
    BY <1>1, <2>5, <2>9, <2>10, <2>11, <2>12, <2>16 DEF Shape, TypeOK
  <2>14. QED
    BY <2>5, <2>8, <2>16, <2>13 DEF Shape, ListsCount, Visiting
<1>4. QED
  BY <1>2, <1>3

\* What a VM forgets of a list of watchers, and of its own list of keys.
LEMMA ForgottenLists ==
    ASSUME Shape, NEW k \in Keys, NEW v \in VMs
    PROVE  /\ Forgets(key_observer[k], v) \in Lists(VMs) \cup {Null}
           /\ Forgets(key_observer[k], v) # Null => Counts(Forgets(key_observer[k], v))
           /\ Forgets(vm_key[v], k) \in Lists(Keys) \cup {Null}
           /\ Forgets(vm_key[v], k) # Null => Counts(Forgets(vm_key[v], k))
<1>1. /\ Null \notin VMs /\ Null \notin Keys /\ Null \notin Lists(VMs) /\ Null \notin Lists(Keys)
      /\ key_observer[k] \in Lists(VMs) \cup {Null} /\ vm_key[v] \in Lists(Keys) \cup {Null}
      /\ key_observer[k] # Null => Counts(key_observer[k])
      /\ vm_key[v] # Null => Counts(vm_key[v])
  BY DataBindConstants DEF Shape, TypeOK, ListsCount
<1>2. QED
  BY <1>1, Forgotten

LEMMA UnWatchShape ==
    ASSUME Shape, NEW v \in VMs, NEW k \in Keys, UnWatch(v, k)
    PROVE  Shape'
<1>1. calls' \in 0 .. MaxCalls
  BY CallCounted DEF UnWatch, Shape
<1>2. CASE Fails("null key") \/ Fails("empty node")
  BY <1>1, <1>2, FailsShape
<1>3. CASE ~(Fails("null key") \/ Fails("empty node"))
  <2> DEFINE kept == IF vm_key[v] # Null /\ IsIn(vm_key[v], k) THEN Forgets(vm_key[v], k) ELSE vm_key[v]
             gone == Forgets(key_observer[k], v)
  <2>1. /\ key_observer' = [key_observer EXCEPT ![k] = gone] /\ vm_key' = [vm_key EXCEPT ![v] = kept]
        /\ hist' = [hist EXCEPT !.unwatched = @ \cup {v}]
        /\ UNCHANGED <<key_observable, open, oatk, otk, typed, fault>>
    BY <1>3 DEF UnWatch
  <2>2. /\ kept \in Lists(Keys) \cup {Null} /\ (kept # Null => Counts(kept))
        /\ gone \in Lists(VMs) \cup {Null} /\ (gone # Null => Counts(gone))
    BY ForgottenLists DEF Shape, TypeOK, ListsCount
  <2> HIDE DEF kept, gone
  <2>3. nodes' \in [VMs -> SUBSET Keys] /\ room' \in [VMs -> [Keys \cup {<< >>} -> Nat]]
    <3> DEFINE B == {n \in nodes[v] : ~Leads(k, n)}
               C == [p \in Keys \cup {<< >>} |->
                     IF k \in nodes[v] /\ HasChild(v, k) /\ Leads(k, p) THEN 0 ELSE room[v][p]]
    <3>1. nodes' = [nodes EXCEPT ![v] = B] /\ room' = [room EXCEPT ![v] = C]
      BY <1>3 DEF UnWatch
    <3>2. nodes \in [VMs -> SUBSET Keys] /\ room \in [VMs -> [Keys \cup {<< >>} -> Nat]]
      BY DEF Shape, TypeOK
    <3>3. B \in SUBSET Keys /\ C \in [Keys \cup {<< >>} -> Nat]
      BY <3>2
    <3> HIDE DEF B, C
    <3>4. QED
      BY <3>1, <3>2, <3>3
  <2>4. frames' \in Seq(Frames) /\ Len(frames') = Len(frames) /\ Visiting'
    <3>1. \E A, B : frames' = [i \in DOMAIN frames |-> [frames[i] EXCEPT
                     !.listFreed = @ \/ A[i], !.walkFreed = @ \/ B[i]]]
      <4> DEFINE freed == key_observer[k] # Null /\ gone = Null
                 A == [i \in DOMAIN frames |-> freed /\ Root(frames[i].key) = k]
                 B == [i \in DOMAIN frames |-> WalkFreed(frames[i], v, k)]
      <4>1. frames' = [i \in DOMAIN frames |-> [frames[i] EXCEPT
               !.listFreed = @ \/ (freed /\ Root(frames[i].key) = k),
               !.walkFreed = @ \/ WalkFreed(frames[i], v, k)]]
        BY <1>3 DEF UnWatch, gone
      <4>2. frames' = [i \in DOMAIN frames |-> [frames[i] EXCEPT
                     !.listFreed = @ \/ A[i], !.walkFreed = @ \/ B[i]]]
        BY <4>1
      <4> HIDE DEF A, B
      <4>3. QED
        BY <4>2
    <3>2. PICK A, B : frames' = [i \in DOMAIN frames |-> [frames[i] EXCEPT
                     !.listFreed = @ \/ A[i], !.walkFreed = @ \/ B[i]]]
      BY <3>1
    <3>30. frames \in Seq(Frames)
      BY DEF Shape, TypeOK
    <3>3. frames \in Seq(Frames) /\ Len(frames) \in Nat /\ DOMAIN frames = 1 .. Len(frames)
      BY <3>30, LenProperties
    <3>4. \A i \in 1 .. Len(frames) : [frames[i] EXCEPT
                     !.listFreed = @ \/ A[i], !.walkFreed = @ \/ B[i]] \in Frames
      <4> TAKE i \in 1 .. Len(frames)
      <4>1. frames[i] \in Frames
        BY <3>3
      <4> DEFINE x == frames[i].listFreed \/ A[i]
                 y == frames[i].walkFreed \/ B[i]
      <4>2. x \in BOOLEAN /\ y \in BOOLEAN
        OBVIOUS
      <4>3. [frames[i] EXCEPT !.listFreed = @ \/ A[i], !.walkFreed = @ \/ B[i]]
              = [frames[i] EXCEPT !.listFreed = x, !.walkFreed = y]
        BY <4>1 DEF Frames
      <4> HIDE DEF x, y
      <4>4. QED
        BY <4>1, <4>2, <4>3 DEF Frames
    <3>5. frames' \in [1 .. Len(frames) -> Frames]
      BY <3>2, <3>3, <3>4
    <3>6. Visiting'
      <4> SUFFICES ASSUME NEW i \in 1 .. Len(frames), frames'[i].stage # "list"
                   PROVE  frames'[i].vm \in VMs
        BY <3>5 DEF Visiting
      <4>1. frames[i] \in Frames
        BY <3>3
      <4>2. frames'[i].stage = frames[i].stage /\ frames'[i].vm = frames[i].vm
        BY <3>2, <3>3, <4>1 DEF Frames
      <4>3. QED
        BY <3>3, <4>2 DEF Shape, Visiting
    <3>7. QED
      BY <3>3, <3>5, <3>6, SeqDef, LenProperties
  <2>5. TypeOK'
    BY <1>1, <2>1, <2>2, <2>3, <2>4 DEF Shape, TypeOK
  <2>6. QED
    BY <2>1, <2>2, <2>4, <2>5 DEF Shape, TypeOK, ListsCount
<1>4. QED
  BY <1>2, <1>3

LEMMA CloseShape ==
    ASSUME Shape, NEW v \in VMs, Close(v)
    PROVE  Shape'
<1> DEFINE keys == IF vm_key[v] = Null THEN {} ELSE InUse(vm_key[v])
<1>1. /\ open' = open \ {v}
      /\ key_observable' = [r \in Roots |-> IF r \in keys THEN Null ELSE key_observable[r]]
      /\ key_observer' = [k \in Keys |->
             IF k \in keys THEN Forgets(key_observer[k], v) ELSE key_observer[k]]
      /\ vm_key' = [vm_key EXCEPT ![v] = Null]
      /\ UNCHANGED <<frames, fault, calls, hist>>
  BY DEF Close
<1> HIDE DEF keys
<1>2. ASSUME NEW k \in Keys
      PROVE  key_observer'[k] \in Lists(VMs) \cup {Null} /\ (key_observer'[k] # Null => Counts(key_observer'[k]))
  BY <1>1, ForgottenLists DEF Shape, TypeOK, ListsCount
<1>3. key_observer' \in [Keys -> Lists(VMs) \cup {Null}]
  <2>1. key_observer' = [k \in Keys |-> key_observer'[k]]
    BY <1>1
  <2>2. QED
    BY <1>2, <2>1
<1>4. key_observable' \in [Roots -> VMs \cup {Null}] /\ vm_key' \in [VMs -> Lists(Keys) \cup {Null}]
  BY <1>1 DEF Shape, TypeOK
<1>5. /\ oatk' \in [VMs -> SUBSET Roots] /\ otk' \in [VMs -> SUBSET Keys] /\ typed' \in [VMs -> SUBSET Keys]
      /\ nodes' \in [VMs -> SUBSET Keys] /\ room' \in [VMs -> [Keys \cup {<< >>} -> Nat]]
  BY DEF Close, Shape, TypeOK
<1>6. TypeOK'
  BY <1>1, <1>3, <1>4, <1>5 DEF Shape, TypeOK
<1>7. QED
  BY <1>1, <1>2, <1>6 DEF Shape, TypeOK, ListsCount, Visiting

LEMMA FramesShape ==
    ASSUME Shape, frames' \in Seq(Frames), Len(frames') <= MaxDepth, calls' \in 0 .. MaxCalls,
           hist' \in [{"unwatched", "refused", "doubled", "displaced", "grown", "missed"} -> SUBSET VMs],
           Visiting', UNCHANGED <<bindings, open, tables, fault>>
    PROVE  Shape'
BY DEF Shape, TypeOK, ListsCount, bindings, tables

LEMMA OwedShape ==
    ASSUME TypeOK, NEW k \in Keys, NEW holders \in Values[k]
    PROVE  /\ Owed(k, holders) \subseteq VMs \X Keys /\ holders \subseteq Keys
           /\ Assignment(k, holders) \in Frames
<1>1. Owed(k, holders) \in SUBSET (VMs \X Keys)
  BY DEF Owed, TypeOK
<1>2. holders \in SUBSET Keys
  BY DEF Values
<1>3. QED
  BY <1>1, <1>2 DEF Assignment, Frames

\* What an assignment in a function leaves of those around it.
LEMMA AlteredShape ==
    ASSUME NEW f \in Frames, NEW k \in Keys
    PROVE  /\ Altered(f, k) \in Frames
           /\ Altered(f, k).key = f.key /\ Altered(f, k).holders = f.holders /\ Altered(f, k).pos = f.pos
           /\ Altered(f, k).vm = f.vm /\ Altered(f, k).stage = f.stage /\ Altered(f, k).at = f.at
           /\ Altered(f, k).todo = f.todo /\ Altered(f, k).nilAfter = f.nilAfter
           /\ Altered(f, k).listFreed = f.listFreed /\ Altered(f, k).walkFreed = f.walkFreed
           /\ \/ Altered(f, k).altered = f.altered /\ Altered(f, k).owed = f.owed
              \/ /\ Altered(f, k).altered = f.altered \cup {k}
                 /\ Altered(f, k).owed = {w \in f.owed : ~Below(k, w[2])}
<1>1. CASE Below(f.key, k)
  <2> DEFINE a == f.altered \cup {k}
             o == {w \in f.owed : ~Below(k, w[2])}
  <2>1. Altered(f, k) = [f EXCEPT !.altered = a, !.owed = o]
    BY <1>1 DEF Altered
  <2>2. a \in SUBSET Keys /\ o \in SUBSET (VMs \X Keys)
    BY DEF Frames
  <2>3. a = f.altered \cup {k} /\ o = {w \in f.owed : ~Below(k, w[2])}
    OBVIOUS
  <2> HIDE DEF a, o
  <2>4. PICK g : g = Altered(f, k)
    OBVIOUS
  <2>5. /\ g \in Frames /\ g.key = f.key /\ g.holders = f.holders /\ g.pos = f.pos
        /\ g.vm = f.vm /\ g.stage = f.stage /\ g.at = f.at
        /\ g.todo = f.todo /\ g.nilAfter = f.nilAfter
        /\ g.listFreed = f.listFreed /\ g.walkFreed = f.walkFreed
        /\ g.altered = a /\ g.owed = o
    BY <2>1, <2>2, <2>4 DEF Frames
  <2>6. QED
    BY <2>3, <2>4, <2>5
<1>2. CASE ~Below(f.key, k)
  <2>1. Altered(f, k) = f
    BY <1>2 DEF Altered
  <2>2. QED
    BY <2>1
<1>3. QED
  BY <1>1, <1>2

LEMMA AssignShape ==
    ASSUME Shape, NEW k \in Keys, NEW holders \in Values[k], Assign(k, holders), calls' \in 0 .. MaxCalls
    PROVE  /\ Shape' /\ Len(frames') = Len(frames) + 1
           /\ frames'[1] = Assignment(k, holders)
           /\ DOMAIN frames' = 1 .. Len(frames) + 1
           /\ \A i \in 2 .. Len(frames) + 1 :
                 i - 1 \in DOMAIN frames /\ frames'[i] = Altered(frames[i - 1], k) /\ frames[i - 1] \in Frames
<1> DEFINE s == <<Assignment(k, holders)>>
           rest == [i \in DOMAIN frames |-> Altered(frames[i], k)]
<1>1. /\ frames' = s \o rest /\ Len(frames) < MaxDepth
      /\ UNCHANGED <<bindings, open, tables, fault, hist>>
  BY DEF Assign
<1>2. frames \in Seq(Frames) /\ Assignment(k, holders) \in Frames /\ MaxDepth \in Nat
  BY OwedShape, DataBindConstants DEF Shape, TypeOK
<1>20. /\ Len(frames) \in Nat /\ DOMAIN frames = 1 .. Len(frames)
       /\ \A i \in DOMAIN frames : frames[i] \in Frames
  BY <1>2, LenProperties
<1>21. s \in Seq(Frames) /\ Len(s) = 1 /\ s[1] = Assignment(k, holders)
  BY <1>2
<1>22. rest \in [1 .. Len(frames) -> Frames] /\ \A i \in DOMAIN frames : rest[i] = Altered(frames[i], k)
  BY <1>20, AlteredShape
<1> HIDE DEF s, rest
<1>23. rest \in Seq(Frames) /\ Len(rest) = Len(frames)
  BY <1>20, <1>22, SeqDef, LenProperties
<1>3. /\ frames' \in Seq(Frames) /\ Len(frames') = Len(frames) + 1
      /\ \A i \in 1 .. Len(frames) + 1 : frames'[i] = IF i <= 1 THEN s[i] ELSE rest[i - 1]
  <2>1. s \o rest \in Seq(Frames) /\ Len(s \o rest) = 1 + Len(frames)
    <3>1. s \o rest \in Seq(Frames) /\ Len(s \o rest) = Len(s) + Len(rest)
      BY <1>21, <1>23, ConcatProperties
    <3>2. QED
      BY <1>20, <1>21, <1>23, <3>1
  <2>2. \A i \in 1 .. 1 + Len(frames) : (s \o rest)[i] = IF i <= 1 THEN s[i] ELSE rest[i - 1]
    <3>1. \A i \in 1 .. Len(s) + Len(rest) :
             (s \o rest)[i] = IF i <= Len(s) THEN s[i] ELSE rest[i - Len(s)]
      BY <1>21, <1>23, ConcatProperties
    <3>2. QED
      BY <1>20, <1>21, <1>23, <3>1
  <2>3. 1 + Len(frames) = Len(frames) + 1
    BY <1>20
  <2>4. frames' = s \o rest
    BY <1>1
  <2>5. QED
    BY <2>1, <2>2, <2>3, <2>4
<1>4. DOMAIN frames' = 1 .. Len(frames) + 1
  BY <1>3, LenProperties
<1>6. frames'[1] = Assignment(k, holders)
  BY <1>20, <1>21, <1>3
<1>7. ASSUME NEW i \in 2 .. Len(frames) + 1
      PROVE  i - 1 \in DOMAIN frames /\ frames'[i] = Altered(frames[i - 1], k) /\ frames[i - 1] \in Frames
  <2>1. i \in 1 .. Len(frames) + 1 /\ ~(i <= 1) /\ i - 1 \in 1 .. Len(frames)
    BY <1>20
  <2>2. frames'[i] = rest[i - 1]
    BY <1>3, <2>1
  <2>3. QED
    BY <1>20, <1>22, <2>1, <2>2
<1>5. Shape'
  <2>1. hist' \in [{"unwatched", "refused", "doubled", "displaced", "grown", "missed"} -> SUBSET VMs]
    BY <1>1 DEF Shape, TypeOK
  <2>2. Len(frames') <= MaxDepth
    BY <1>1, <1>2, <1>20, <1>3
  <2>3. Visiting'
    <3>1. Assignment(k, holders).stage = "list"
      BY DEF Assignment
    <3>2. ASSUME NEW i \in 2 .. Len(frames) + 1
          PROVE  frames'[i].stage # "list" => frames'[i].vm \in VMs
      <4>1. i - 1 \in DOMAIN frames /\ frames'[i] = Altered(frames[i - 1], k) /\ frames[i - 1] \in Frames
        BY <1>7
      <4>2. frames'[i].stage = frames[i - 1].stage /\ frames'[i].vm = frames[i - 1].vm
        BY <4>1, AlteredShape
      <4>3. QED
        BY <4>1, <4>2 DEF Shape, Visiting
    <3>3. \A i \in DOMAIN frames' : i = 1 \/ i \in 2 .. Len(frames) + 1
      BY <1>4, <1>20
    <3>4. QED
      BY <1>6, <3>1, <3>2, <3>3 DEF Visiting
  <2>4. QED
    BY <1>1, <1>3, <2>1, <2>2, <2>3, FramesShape
<1>8. QED
  BY <1>3, <1>4, <1>5, <1>6, <1>7

LEMMA SetFieldShape ==
    ASSUME Shape, NEW v \in VMs, NEW k \in Keys, NEW holders \in Values[k],
           SetField(v, k, holders) \/ Update(v, k, holders)
    PROVE  Shape'
<1>1. calls' \in 0 .. MaxCalls
  BY CallCounted DEF SetField, Update, Shape
<1>2. Assign(k, holders) \/ Fails("closed VM")
  BY DEF SetField, Update
<1>3. QED
  BY <1>1, <1>2, AssignShape, FailsShape

\* A step that changes the innermost assignment alone.
LEMMA TopSetShape ==
    ASSUME Shape, ~Idle, NEW f \in Frames, SetTop(f), f.stage # "list" => f.vm \in VMs,
           UNCHANGED <<bindings, open, tables, fault, calls, hist>>
    PROVE  Shape'
<1>1. /\ frames' \in Seq(Frames) /\ Len(frames') = Len(frames)
      /\ DOMAIN frames' = DOMAIN frames /\ frames'[1] = f
      /\ \A i \in DOMAIN frames \ {1} : frames'[i] = frames[i]
  BY TopSet DEF Shape
<1>2. Visiting'
  BY <1>1 DEF Shape, Visiting
<1>3. QED
  BY <1>1, <1>2, FramesShape DEF Shape, TypeOK

\* The watcher list_traverse takes next is the first after the last visited.
LEMMA NextVisit ==
    ASSUME Shape, ~Idle, LeftToVisit(Top) # {},
           NEW i, i = CHOOSE j \in LeftToVisit(Top) : \A l \in LeftToVisit(Top) : j <= l
    PROVE  /\ Watchers(Top) \in Lists(VMs) /\ Watchers(Top) # Null
           /\ i \in DOMAIN Watchers(Top).arr /\ i \in Nat /\ i > Top.pos
           /\ Watchers(Top).arr[i] \in VMs
           /\ \A j \in LeftToVisit(Top) : i <= j
<1>1. Watchers(Top) # Null
  BY DEF LeftToVisit
<1>2. Top.key \in Keys
  BY TopShape DEF Shape
<1>3. Watchers(Top) \in Lists(VMs)
  BY <1>1, <1>2, KeyShape DEF Watchers, Shape, TypeOK
<1> DEFINE l == Watchers(Top)
<1>4. /\ Len(l.arr) \in Nat /\ DOMAIN l.arr = 1 .. Len(l.arr)
      /\ \A j \in 1 .. Len(l.arr) : l.arr[j] \in VMs \cup {Null}
  BY <1>3, ListShape
<1>5. LeftToVisit(Top) = {j \in DOMAIN l.arr : j > Top.pos /\ l.arr[j] # Null}
  BY <1>1 DEF LeftToVisit
<1> HIDE DEF l
<1>6. LeftToVisit(Top) \in SUBSET Nat
  BY <1>4, <1>5
<1>7. \E j \in LeftToVisit(Top) : \A n \in LeftToVisit(Top) : j <= n
  BY <1>6, LeastSlot
<1>8. i \in LeftToVisit(Top) /\ \A j \in LeftToVisit(Top) : i <= j
  BY <1>7
<1>9. i \in DOMAIN l.arr /\ i > Top.pos /\ l.arr[i] \in VMs /\ i \in Nat
  BY <1>4, <1>5, <1>6, <1>8
<1>10. QED
  BY <1>1, <1>3, <1>8, <1>9 DEF l

\* What Visit, where no VM is closed, makes of the innermost assignment.
Visited(i) ==
    [Top EXCEPT !.pos = i, !.vm = Watchers(Top).arr[i], !.stage = "key"]

LEMMA VisitedShape ==
    ASSUME Shape, Visit, ~Fails("closed VM")
    PROVE  \E i \in DOMAIN Watchers(Top).arr, f \in Frames :
              /\ ~Idle /\ Top.stage = "list" /\ ~Top.listFreed /\ fault = "none"
              /\ Watchers(Top) \in Lists(VMs) /\ Watchers(Top) # Null
              /\ i \in Nat /\ i > Top.pos /\ Watchers(Top).arr[i] \in open
              /\ \A j \in LeftToVisit(Top) : i <= j
              /\ SetTop(f) /\ UNCHANGED <<bindings, open, tables, fault, calls, hist>>
              /\ f.key = Top.key /\ f.holders = Top.holders /\ f.altered = Top.altered /\ f.pos = i
              /\ f.vm = Watchers(Top).arr[i] /\ f.stage = "key"
              /\ f.listFreed = Top.listFreed /\ f.walkFreed = Top.walkFreed
              /\ f.owed = IF Top.key \in otk[f.vm] THEN Top.owed \ {<<f.vm, Top.key>>} ELSE Top.owed
<1> DEFINE i == CHOOSE j \in LeftToVisit(Top) : \A l \in LeftToVisit(Top) : j <= l
<1>1. /\ Stands("list") /\ ~Top.listFreed /\ LeftToVisit(Top) # {} /\ UNCHANGED calls
      /\ IF Watchers(Top).arr[i] \notin open THEN Fails("closed VM")
         ELSE /\ IF Visited(i).key \in otk[Watchers(Top).arr[i]]
                 THEN Called(Visited(i), Visited(i).key)
                 ELSE SetTop(Visited(i))
              /\ UNCHANGED <<bindings, open, tables, fault, hist>>
  BY DEF Visit, Visited
<1>2. ~Idle /\ Top.stage = "list" /\ fault = "none"
  BY <1>1 DEF Stands
<1>3. /\ Watchers(Top) \in Lists(VMs) /\ Watchers(Top) # Null
      /\ i \in DOMAIN Watchers(Top).arr /\ i \in Nat /\ i > Top.pos
      /\ Watchers(Top).arr[i] \in VMs
      /\ \A j \in LeftToVisit(Top) : i <= j
  BY <1>1, <1>2, NextVisit
<1> HIDE DEF i
<1> DEFINE w == Watchers(Top).arr[i]
           o == IF Top.key \in otk[w] THEN Top.owed \ {<<w, Top.key>>} ELSE Top.owed
           c == IF Top.key \in otk[w] THEN TRUE ELSE Top.calling
           a == IF Top.key \in otk[w] THEN Top.key ELSE Top.at
           f == [Top EXCEPT !.pos = i, !.vm = w, !.stage = "key", !.at = a, !.calling = c, !.owed = o]
<1>4. Top \in Frames /\ Top.key \in Keys
  BY <1>2, TopShape DEF Shape
<1>5. w \in open /\ w \in VMs /\ UNCHANGED <<bindings, open, tables, fault, hist>>
  BY <1>1, <1>3
<1>6. Visited(i).key = Top.key /\ Visited(i).vm = w
  BY <1>4 DEF Visited, Frames
<1>7. SetTop(f)
  <2>1. CASE Top.key \in otk[w]
    <3>1. SetTop([Visited(i) EXCEPT !.at = Top.key, !.calling = TRUE, !.owed = @ \ {<<w, Top.key>>}])
      BY <1>1, <1>5, <1>6, <2>1 DEF Called
    <3>2. [Visited(i) EXCEPT !.at = Top.key, !.calling = TRUE, !.owed = @ \ {<<w, Top.key>>}] = f
      BY <1>4, <2>1 DEF Visited, Frames
    <3>3. QED
      BY <3>1, <3>2
  <2>2. CASE Top.key \notin otk[w]
    <3>1. SetTop(Visited(i))
      BY <1>1, <1>5, <1>6, <2>2
    <3>2. Visited(i) = f
      BY <1>4, <2>2 DEF Visited, Frames
    <3>3. QED
      BY <3>1, <3>2
  <2>3. QED
    BY <2>1, <2>2
<1>8. o \in SUBSET (VMs \X Keys) /\ a \in Keys
  BY <1>4 DEF Frames
<1>80. c \in BOOLEAN
  BY <1>4, Zenon DEF Frames
<1> HIDE DEF w, o, c, a
<1>9. /\ f \in Frames /\ f.key = Top.key /\ f.holders = Top.holders /\ f.altered = Top.altered
      /\ f.pos = i /\ f.vm = w /\ f.stage = "key" /\ f.owed = o /\ f.listFreed = Top.listFreed
      /\ f.walkFreed = Top.walkFreed
  BY <1>3, <1>4, <1>5, <1>8, <1>80 DEF Frames
<1> HIDE DEF f
<1>10. f.owed = IF Top.key \in otk[f.vm] THEN Top.owed \ {<<f.vm, Top.key>>} ELSE Top.owed
  BY <1>9 DEF o
<1>11. f.vm = Watchers(Top).arr[i] /\ Watchers(Top).arr[i] \in open
  BY <1>5, <1>9 DEF w
<1>12. f.vm = Watchers(Top).arr[i] /\ f.pos = i /\ UNCHANGED calls
  BY <1>1, <1>9, <1>11
<1>13. QED
  BY <1>1, <1>2, <1>3, <1>5, <1>7, <1>9, <1>10, <1>11, <1>12

LEMMA VisitShape ==
    ASSUME Shape, Visit \/ VisitFreed \/ WalkFreedNodes
    PROVE  Shape'
<1>1. calls' \in 0 .. MaxCalls
  BY DEF Shape, TypeOK, Visit, VisitFreed, WalkFreedNodes
<1>2. CASE Fails("closed VM") \/ Fails("freed list") \/ Fails("freed node")
  BY <1>1, <1>2, FailsShape
<1>3. CASE ~(Fails("closed VM") \/ Fails("freed list") \/ Fails("freed node"))
  <2>1. Visit
    BY <1>3 DEF VisitFreed, WalkFreedNodes
  <2>2. PICK f \in Frames : /\ ~Idle /\ SetTop(f) /\ f.vm \in open
                            /\ UNCHANGED <<bindings, open, tables, fault, calls, hist>>
    BY <1>3, <2>1, VisitedShape
  <2>20. f.vm \in VMs
    BY <2>2 DEF Shape, TypeOK
  <2>3. QED
    BY <2>2, <2>20, TopSetShape
<1>4. QED
  BY <1>2, <1>3

\* An assignment ends: the one around it goes on.
LEMMA AssignedShape ==
    ASSUME Shape, Assigned
    PROVE  /\ Shape' /\ ~Idle /\ Top.stage = "list" /\ LeftToVisit(Top) = {} /\ fault = "none"
           /\ UNCHANGED <<bindings, open, tables, fault, calls>>
           /\ hist' = [hist EXCEPT !.missed = @ \cup {w[1] : w \in Top.owed}]
           /\ Top.owed \subseteq VMs \X Keys
           /\ \A i \in DOMAIN frames' : i + 1 \in DOMAIN frames /\ frames'[i] = frames[i + 1]
<1>1. /\ ~Idle /\ Top.stage = "list" /\ LeftToVisit(Top) = {} /\ fault = "none"
      /\ UNCHANGED <<bindings, open, tables, fault, calls>>
      /\ frames' = Tail(frames)
      /\ hist' = [hist EXCEPT !.missed = @ \cup {w[1] : w \in Top.owed}]
  BY DEF Assigned, Stands
<1>2. /\ frames \in Seq(Frames) /\ frames # << >> /\ Len(frames) \in Nat \ {0}
      /\ DOMAIN frames = 1 .. Len(frames) /\ Len(frames) <= MaxDepth /\ MaxDepth \in Nat
      /\ Top \in Frames
  BY <1>1, TopShape, DataBindConstants DEF Shape, TypeOK, Idle
<1>3. /\ Tail(frames) \in Seq(Frames) /\ Len(Tail(frames)) = Len(frames) - 1
      /\ \A i \in 1 .. Len(frames) - 1 : Tail(frames)[i] = frames[i + 1]
  BY <1>2, HeadTailProperties
<1>4. /\ frames' \in Seq(Frames) /\ Len(frames') <= MaxDepth
      /\ \A i \in DOMAIN frames' : i + 1 \in DOMAIN frames /\ frames'[i] = frames[i + 1]
  <2>1. DOMAIN frames' = 1 .. Len(frames) - 1
    BY <1>1, <1>3, LenProperties
  <2>2. QED
    BY <1>1, <1>2, <1>3, <2>1
<1>5. Top.owed \subseteq VMs \X Keys
  BY <1>2 DEF Frames
<1>6. hist' \in [{"unwatched", "refused", "doubled", "displaced", "grown", "missed"} -> SUBSET VMs]
  <2> DEFINE m == hist.missed \cup {w[1] : w \in Top.owed}
  <2>1. {w[1] : w \in Top.owed} \in SUBSET VMs
    BY <1>5
  <2>2. hist.missed \in SUBSET VMs
    BY HistParts DEF Shape
  <2>3. m \in SUBSET VMs
    BY <2>1, <2>2
  <2>4. hist' = [hist EXCEPT !.missed = m]
    BY <1>1
  <2> HIDE DEF m
  <2>5. hist \in [{"unwatched", "refused", "doubled", "displaced", "grown", "missed"} -> SUBSET VMs]
    BY DEF Shape, TypeOK
  <2>6. QED
    BY <2>3, <2>4, <2>5
<1>7. Shape'
  <2>1. calls' \in 0 .. MaxCalls
    BY <1>1 DEF Shape, TypeOK
  <2>2. Visiting'
    BY <1>4 DEF Shape, Visiting
  <2>3. QED
    BY <1>1, <1>4, <1>6, <2>1, <2>2, FramesShape
<1>8. QED
  BY <1>1, <1>4, <1>5, <1>7

\* What a step inside an assignment leaves of it.
Onward(f) ==
    /\ f.key = Top.key /\ f.holders = Top.holders /\ f.altered = Top.altered
    /\ f.pos = Top.pos /\ f.vm = Top.vm
    /\ f.listFreed = Top.listFreed /\ f.walkFreed = Top.walkFreed

\* The keys a walk from the node of the key comes to.
BelowTop == {k \in Keys : Below(Top.key, k)}

Finds(f) ==
    /\ Top.stage = "key" /\ f.owed = Top.owed
    /\ \/ f.stage = "tree" /\ f.todo = BelowTop /\ f.at = Top.key /\ f.nilAfter = << >>
       \/ f.stage = "list" /\ Top.key \notin nodes[Top.vm]

\* A walk comes to k: its function is called, or there is none to call, or its
\* value is not found.
Steps(f, k) ==
    /\ Top.stage = "tree" /\ f.stage = "tree" /\ k \in NextKeys(Top)
    /\ f.todo = Top.todo \ {k} /\ f.at = k
    /\ \/ /\ StartsWith(k, Top.nilAfter) \/ k \notin otk[Top.vm]
          /\ f.owed = Top.owed /\ f.nilAfter = Top.nilAfter
       \/ FALSE \in MayFind(Top, k) /\ f.owed = Top.owed /\ f.nilAfter = k
       \/ f.owed = Top.owed \ {<<Top.vm, k>>} /\ f.nilAfter = Top.nilAfter

Rests(f) ==
    /\ f.owed = Top.owed /\ f.todo = Top.todo /\ f.at = Top.at /\ f.nilAfter = Top.nilAfter
    /\ \/ f.stage = Top.stage
       \/ Top.stage = "tree" /\ NextKeys(Top) = {} /\ f.stage = "list"

GoesOn(f) ==
    /\ SetTop(f) /\ UNCHANGED <<bindings, open, tables, fault, calls, hist>>
    /\ Onward(f) /\ (Finds(f) \/ Rests(f) \/ \E k \in Keys : Steps(f, k))

LEMMA FindNodeOn ==
    ASSUME Shape, FindNode, ~Fails("empty node")
    PROVE  ~Idle /\ fault = "none" /\ \E f \in Frames : GoesOn(f)
<1>1. /\ Stands("key") /\ UNCHANGED <<bindings, open, tables, fault, calls, hist>>
      /\ SetTop(IF Top.key \in nodes[Top.vm]
                THEN [Top EXCEPT !.stage = "tree", !.at = Top.key, !.nilAfter = << >>,
                                 !.todo = {k \in Keys : Below(Top.key, k)}]
                ELSE [Top EXCEPT !.stage = "list"])
  BY DEF FindNode
<1>2. ~Idle /\ fault = "none" /\ Top.stage = "key"
  BY <1>1 DEF Stands
<1>3. Top \in Frames /\ Top.key \in Keys
  BY <1>2, TopShape DEF Shape
<1>4. CASE Top.key \in nodes[Top.vm]
  <2> DEFINE f == [Top EXCEPT !.stage = "tree", !.at = Top.key, !.nilAfter = << >>, !.todo = BelowTop]
  <2>1. SetTop(f)
    BY <1>1, <1>4 DEF BelowTop
  <2>2. BelowTop \in SUBSET Keys
    BY DEF BelowTop
  <2>3. /\ f \in Frames /\ Onward(f) /\ f.owed = Top.owed
        /\ f.stage = "tree" /\ f.todo = BelowTop /\ f.at = Top.key /\ f.nilAfter = << >>
    BY <1>3, <2>2 DEF Frames, Onward
  <2> HIDE DEF f
  <2>4. QED
    BY <1>1, <1>2, <2>1, <2>3 DEF GoesOn, Finds
<1>5. CASE Top.key \notin nodes[Top.vm]
  <2> DEFINE f == [Top EXCEPT !.stage = "list"]
  <2>1. SetTop(f)
    BY <1>1, <1>5
  <2>2. f \in Frames /\ Onward(f) /\ f.owed = Top.owed /\ f.stage = "list"
    BY <1>3 DEF Frames, Onward
  <2> HIDE DEF f
  <2>3. QED
    BY <1>1, <1>2, <1>5, <2>1, <2>2 DEF GoesOn, Finds
<1>6. QED
  BY <1>4, <1>5

LEMMA WalkOn ==
    ASSUME Shape, Walk
    PROVE  ~Idle /\ fault = "none" /\ \E f \in Frames : GoesOn(f)
<1>1. /\ Stands("tree") /\ UNCHANGED <<bindings, open, tables, fault, calls, hist>>
  BY DEF Walk
<1>2. ~Idle /\ fault = "none" /\ Top.stage = "tree"
  BY <1>1 DEF Stands
<1>3. Top \in Frames /\ Top.todo \subseteq Keys
  BY <1>2, TopShape DEF Shape
<1>4. PICK k \in NextKeys(Top) :
          LET f == [Top EXCEPT !.at = k, !.todo = @ \ {k}]
              silent == StartsWith(k, f.nilAfter) \/ k \notin otk[f.vm]
          IN \/ silent /\ SetTop(f)
             \/ /\ ~silent /\ k \in typed[f.vm] /\ FALSE \in MayFind(f, k)
                /\ SetTop([f EXCEPT !.nilAfter = k])
             \/ /\ ~silent /\ (k \in typed[f.vm] => TRUE \in MayFind(f, k))
                /\ Called(f, k)
  BY DEF Walk
<1>5. k \in Keys /\ k \in Top.todo
  BY <1>3 DEF NextKeys, Near
<1>6. PICK t \in SUBSET Keys : t = Top.todo \ {k}
  BY <1>3
<1>7. PICK f \in Frames : f = [Top EXCEPT !.at = k, !.todo = t]
  <2>1. [Top EXCEPT !.at = k, !.todo = t] \in Frames
    BY <1>3, <1>5, <1>6 DEF Frames
  <2>2. QED
    BY <2>1
<1>8. /\ Onward(f) /\ f.stage = "tree" /\ f.todo = t /\ f.at = k /\ f.owed = Top.owed
      /\ f.nilAfter = Top.nilAfter /\ f.vm = Top.vm /\ f.altered = Top.altered /\ f.holders = Top.holders
  BY <1>2, <1>3, <1>5, <1>6, <1>7 DEF Frames, Onward
<1>9. f = [Top EXCEPT !.at = k, !.todo = @ \ {k}]
  BY <1>3, <1>6, <1>7
<1>10. MayFind(f, k) = MayFind(Top, k)
  BY <1>8 DEF MayFind
<1>11. CASE (StartsWith(k, f.nilAfter) \/ k \notin otk[f.vm]) /\ SetTop(f)
  <2>1. Steps(f, k)
    BY <1>2, <1>6, <1>8, <1>11 DEF Steps
  <2>2. QED
    BY <1>1, <1>2, <1>5, <1>8, <1>11, <2>1 DEF GoesOn
<1>12. CASE FALSE \in MayFind(f, k) /\ SetTop([f EXCEPT !.nilAfter = k])
  <2> DEFINE g == [f EXCEPT !.nilAfter = k]
  <2>1. /\ g \in Frames /\ Onward(g) /\ g.stage = "tree" /\ g.todo = t /\ g.at = k /\ g.owed = Top.owed
        /\ g.nilAfter = k
    BY <1>5, <1>7, <1>8 DEF Frames, Onward
  <2>2. SetTop(g)
    BY <1>12
  <2> HIDE DEF g
  <2>3. Steps(g, k)
    BY <1>2, <1>6, <1>10, <1>12, <2>1 DEF Steps
  <2>4. QED
    BY <1>1, <1>2, <1>5, <2>1, <2>2, <2>3 DEF GoesOn
<1>13. CASE Called(f, k)
  <2>1. PICK o \in SUBSET (VMs \X Keys) : o = Top.owed \ {<<Top.vm, k>>}
    BY <1>3 DEF Frames
  <2> DEFINE g == [f EXCEPT !.at = k, !.calling = TRUE, !.owed = o]
  <2>2. SetTop(g)
    BY <1>7, <1>8, <1>13, <2>1 DEF Called
  <2>3. /\ g \in Frames /\ Onward(g) /\ g.stage = "tree" /\ g.todo = t /\ g.at = k /\ g.owed = o
        /\ g.nilAfter = Top.nilAfter
    BY <1>5, <1>7, <1>8 DEF Frames, Onward
  <2> HIDE DEF g
  <2>4. Steps(g, k)
    BY <1>2, <1>6, <2>1, <2>3 DEF Steps
  <2>5. QED
    BY <1>1, <1>2, <1>5, <2>2, <2>3, <2>4 DEF GoesOn
<1>14. QED
  BY <1>4, <1>9, <1>11, <1>12, <1>13

LEMMA RestOn ==
    ASSUME Shape, Walked \/ FunctionReturns
    PROVE  ~Idle /\ fault = "none" /\ \E f \in Frames : GoesOn(f)
<1>1. ~Idle /\ fault = "none" /\ UNCHANGED <<bindings, open, tables, fault, calls, hist>>
  BY DEF Walked, FunctionReturns, Stands, InFunction
<1>2. Top \in Frames
  BY <1>1, TopShape DEF Shape
<1>3. CASE Walked
  <2> DEFINE f == [Top EXCEPT !.stage = "list"]
  <2>1. SetTop(f) /\ Top.stage = "tree" /\ NextKeys(Top) = {}
    BY <1>3 DEF Walked, Stands
  <2>2. /\ f \in Frames /\ Onward(f) /\ f.owed = Top.owed /\ f.todo = Top.todo /\ f.stage = "list"
        /\ f.at = Top.at /\ f.nilAfter = Top.nilAfter
    BY <1>2 DEF Frames, Onward
  <2> HIDE DEF f
  <2>3. QED
    BY <1>1, <2>1, <2>2 DEF GoesOn, Rests
<1>4. CASE FunctionReturns
  <2> DEFINE f == [Top EXCEPT !.calling = FALSE]
  <2>1. SetTop(f)
    BY <1>4 DEF FunctionReturns
  <2>2. /\ f \in Frames /\ Onward(f) /\ f.owed = Top.owed /\ f.todo = Top.todo /\ f.stage = Top.stage
        /\ f.at = Top.at /\ f.nilAfter = Top.nilAfter
    BY <1>2 DEF Frames, Onward
  <2> HIDE DEF f
  <2>3. QED
    BY <1>1, <2>1, <2>2 DEF GoesOn, Rests
<1>5. QED
  BY <1>3, <1>4

LEMMA GoesOnShape ==
    ASSUME Shape, FindNode \/ Walk \/ Walked \/ FunctionReturns
    PROVE  Shape'
<1>1. CASE Fails("empty node") /\ FindNode
  <2>1. calls' \in 0 .. MaxCalls
    BY <1>1 DEF FindNode, Shape, TypeOK
  <2>2. QED
    BY <1>1, <2>1, FailsShape
<1>2. CASE ~(Fails("empty node") /\ FindNode)
  <2>1. ~Idle /\ \E f \in Frames : GoesOn(f)
    BY <1>2, FindNodeOn, WalkOn, RestOn
  <2>2. PICK f \in Frames : GoesOn(f)
    BY <2>1
  <2>3. f.stage # "list" => f.vm \in VMs
    <3>1. Top.stage # "list" => Top.vm \in VMs
      BY <2>1, TopShape DEF Shape, Visiting, Top
    <3>2. QED
      BY <2>2, <3>1 DEF GoesOn, Onward, Finds, Steps, Rests
  <2>4. QED
    BY <2>1, <2>2, <2>3, TopSetShape DEF GoesOn
<1>3. QED
  BY <1>1, <1>2

LEMMA ShapeStep == Shape /\ [Next]_vars => Shape'
<1> SUFFICES ASSUME Shape, [Next]_vars PROVE Shape'
  OBVIOUS
<1>1. CASE UNCHANGED vars
  BY <1>1 DEF Shape, TypeOK, ListsCount, Visiting, vars, bindings, tables
<1>2. ASSUME NEW v \in VMs, NEW r \in Roots, Bind(v, r) PROVE Shape'
  BY <1>2, BindShape
<1>3. ASSUME NEW v \in VMs, NEW k \in Keys, NEW params \in BOOLEAN, Watch(v, k, params) PROVE Shape'
  BY <1>3, WatchShape
<1>4. ASSUME NEW v \in VMs, NEW k \in Keys, UnWatch(v, k) PROVE Shape'
  BY <1>4, UnWatchShape
<1>5. ASSUME NEW v \in VMs, NEW k \in Keys, NEW holders \in Values[k],
             SetField(v, k, holders) \/ Update(v, k, holders)
      PROVE  Shape'
  BY <1>5, SetFieldShape
<1>6. ASSUME NEW v \in VMs, Close(v) PROVE Shape'
  BY <1>6, CloseShape
<1>7. CASE Visit \/ VisitFreed \/ WalkFreedNodes
  BY <1>7, VisitShape
<1>8. CASE Assigned
  BY <1>8, AssignedShape
<1>9. CASE FindNode \/ Walk \/ Walked \/ FunctionReturns
  BY <1>9, GoesOnShape
<1>10. QED
  BY <1>1, <1>2, <1>3, <1>4, <1>5, <1>6, <1>7, <1>8, <1>9 DEF Next

LEMMA ShapeAlways == Spec => []Shape
BY ShapeInit, ShapeStep, PTL DEF Spec

\* The tables of the binding keep their shape, and its lists never count more
\* than they hold slots for, whatever the pages and their functions do.
THEOREM BindingTypes == Spec => []TypeOK
BY ShapeAlways, PTL DEF Shape


----------------------------------------------------------------------------
\* A VM remembers what it bound and watches, so that DB_Close finds it.

Clean(v) == v \notin hist.unwatched \cup hist.refused \cup hist.doubled

Watches(v, k) == v \in Held(key_observer[k])

Known(v, k) == k \in Held(vm_key[v])

\* Its own list has no gaps, and it stands in a list of watchers once, so that
\* DB_Close takes it out of there for good.
RememberedBy(v) ==
    /\ \A r \in Roots : key_observable[r] = v => Known(v, r)
    /\ \A k \in Keys : Watches(v, k) => Known(v, k) /\ OneSlot(key_observer[k], v)
    /\ vm_key[v] # Null => v \in open
    /\ Tight(vm_key[v])

Remembered == \A v \in VMs : Clean(v) => RememberedBy(v)

\* A step inside an assignment, and a call that fails or begins one.
Inner ==
    /\ UNCHANGED <<bindings, open, tables>>
    /\ hist'.unwatched = hist.unwatched /\ hist'.refused = hist.refused
    /\ hist'.doubled = hist.doubled /\ hist'.displaced = hist.displaced
    /\ hist'.grown = hist.grown

\* Each step does one of these.
LEMMA Kinds ==
    ASSUME Shape, [Next]_vars
    PROVE  \/ \E v \in VMs, r \in Roots : Bind(v, r) /\ ~Fails("null key")
           \/ \E v \in VMs, k \in Keys, params \in BOOLEAN : Watch(v, k, params) /\ ~Fails("null key")
           \/ \E v \in VMs, k \in Keys : UnWatch(v, k) /\ ~(Fails("null key") \/ Fails("empty node"))
           \/ \E v \in VMs : Close(v)
           \/ Inner
<1>1. (\E what : Fails(what)) => Inner
  BY DEF Fails, Inner
<1>2. CASE UNCHANGED vars
  BY <1>2 DEF Inner, vars
<1>3. CASE \E v \in VMs, k \in Keys : \E holders \in Values[k] : SetField(v, k, holders) \/ Update(v, k, holders)
  <2>1. (\E k \in Keys : \E holders \in Values[k] : Assign(k, holders)) \/ (\E what : Fails(what))
    BY <1>3 DEF SetField, Update
  <2>2. QED
    BY <1>1, <2>1 DEF Assign, Inner
<1>4. CASE Visit \/ VisitFreed \/ WalkFreedNodes \/ FindNode
  <2>1. (\E what : Fails(what)) \/ UNCHANGED <<bindings, open, tables, hist>>
    BY <1>4 DEF Visit, VisitFreed, WalkFreedNodes, FindNode
  <2>2. QED
    BY <1>1, <2>1 DEF Inner
<1>5. CASE Walk \/ Walked \/ FunctionReturns
  BY <1>5 DEF Walk, Walked, FunctionReturns, Inner
<1>6. CASE Assigned
  <2>1. UNCHANGED <<bindings, open, tables>>
        /\ hist' = [hist EXCEPT !.missed = @ \cup {w[1] : w \in Top.owed}]
    BY <1>6 DEF Assigned
  <2>2. hist \in [{"unwatched", "refused", "doubled", "displaced", "grown", "missed"} -> SUBSET VMs]
    BY DEF Shape, TypeOK
  <2>3. QED
    BY <2>1, <2>2 DEF Inner
<1>7. CASE \E v \in VMs, r \in Roots : Bind(v, r)
  BY <1>1, <1>7
<1>8. CASE \E v \in VMs, k \in Keys : UnWatch(v, k) \/ \E params \in BOOLEAN : Watch(v, k, params)
  BY <1>1, <1>8
<1>9. QED
  BY <1>2, <1>3, <1>4, <1>5, <1>6, <1>7, <1>8 DEF Next

LEMMA RememberedInit == Init => Remembered
<1>1. Null \notin VMs
  BY DataBindConstants
<1>2. Roots \subseteq Keys
  BY DEF Roots
<1>3. QED
  BY <1>1, <1>2 DEF Init, Remembered, RememberedBy, Watches, Known, Held, Tight

LEMMA RememberedBind ==
    ASSUME Shape, Remembered, NEW w \in VMs, NEW r \in Roots, Bind(w, r), ~Fails("null key")
    PROVE  Remembered'
<1>1. /\ key_observable' = [key_observable EXCEPT ![r] = w]
      /\ vm_key' = [vm_key EXCEPT ![w] = IF key_observable[r] = Null THEN SavedKey(@, r) ELSE @]
      /\ hist' = [hist EXCEPT !.refused =
                           IF key_observable[r] \in {Null, w} THEN @ ELSE @ \cup {w}]
      /\ UNCHANGED <<key_observer, open>>
  BY DEF Bind
<1>2. /\ hist \in [{"unwatched", "refused", "doubled", "displaced", "grown", "missed"} -> SUBSET VMs]
      /\ key_observable \in [Roots -> VMs \cup {Null}]
      /\ vm_key \in [VMs -> Lists(Keys) \cup {Null}]
      /\ vm_key[w] # Null => Counts(vm_key[w])
      /\ w \in open /\ r \in Keys
  BY CallCounted DEF Shape, TypeOK, ListsCount, Bind, Roots
<1>3. /\ hist'.unwatched = hist.unwatched /\ hist'.doubled = hist.doubled
      /\ hist'.refused = IF key_observable[r] \in {Null, w} THEN hist.refused ELSE hist.refused \cup {w}
  BY <1>1, <1>2
<1> SUFFICES ASSUME NEW v \in VMs, Clean(v)' PROVE RememberedBy(v)'
  BY DEF Remembered
<1>4. Clean(v)
  BY <1>3 DEF Clean
<1>5. RememberedBy(v)
  BY <1>4 DEF Remembered
<1>6. CASE v # w
  BY <1>1, <1>2, <1>5, <1>6 DEF RememberedBy, Watches, Known
<1>7. CASE v = w /\ key_observable[r] # Null
  <2>1. key_observable[r] = v /\ vm_key' = vm_key /\ key_observable' = key_observable
    <3>1. key_observable[r] \in {Null, w}
      BY <1>3, <1>7 DEF Clean
    <3>2. QED
      BY <1>1, <1>2, <1>7, <3>1
  <2>2. QED
    BY <1>1, <1>5, <2>1 DEF RememberedBy, Watches, Known
<1>8. CASE v = w /\ key_observable[r] = Null
  <2>1. PICK m : m = SavedKey(vm_key[v], r)
    OBVIOUS
  <2>2. vm_key'[v] = m
    BY <1>1, <1>2, <1>8, <2>1
  <2>3. /\ m \in Lists(Keys) /\ m # Null
        /\ Tight(m) /\ r \in InUse(m) /\ Held(vm_key[v]) \subseteq InUse(m)
    BY <1>2, <1>5, <1>8, <2>1, Saved DEF RememberedBy
  <2>4. Held(vm_key'[v]) = InUse(m) /\ Tight(vm_key'[v])
    BY <2>2, <2>3 DEF Held
  <2>5. QED
    BY <1>1, <1>2, <1>5, <1>8, <2>2, <2>3, <2>4 DEF RememberedBy, Watches, Known
<1>9. QED
  BY <1>6, <1>7, <1>8

LEMMA RememberedWatch ==
    ASSUME Shape, Remembered, NEW w \in VMs, NEW k \in Keys, NEW params \in BOOLEAN, Watch(w, k, params), ~Fails("null key")
    PROVE  Remembered'
<1> DEFINE added == RecordedKeys(k, w)
           first == IF k \in added THEN SavedKey(vm_key[w], k) ELSE vm_key[w]
           saved == IF Root(k) \in added /\ Root(k) # k THEN SavedKey(first, Root(k)) ELSE first
           again == \E q \in added : key_observer[q] # Null /\ w \in InUse(key_observer[q])
<1>1. /\ key_observer' = [q \in Keys |-> IF q \in added THEN Recorded(q, w) ELSE key_observer[q]]
      /\ vm_key' = [vm_key EXCEPT ![w] = saved]
      /\ \E g : hist' = [hist EXCEPT !.doubled = IF again THEN @ \cup {w} ELSE @,
                              !.displaced = @ \cup UNION {Displaced(q) : q \in added}, !.grown = g]
      /\ UNCHANGED <<key_observable, open>>
  BY DEF Watch
<1>2. /\ hist \in [{"unwatched", "refused", "doubled", "displaced", "grown", "missed"} -> SUBSET VMs]
      /\ vm_key \in [VMs -> Lists(Keys) \cup {Null}]
      /\ vm_key[w] # Null => Counts(vm_key[w])
      /\ w \in open /\ Root(k) \in Keys
  BY CallCounted, KeyShape DEF Shape, TypeOK, ListsCount, Watch
<1>3. /\ hist'.unwatched = hist.unwatched /\ hist'.refused = hist.refused
      /\ hist'.doubled = IF again THEN hist.doubled \cup {w} ELSE hist.doubled
  BY <1>1, <1>2
<1>4. \A q \in added : q \in Keys /\ Records(q, w) /\ q \in {k, Root(k)}
  BY <1>2 DEF RecordedKeys
<1>5. PICK f : f = first
  OBVIOUS
<1>6. /\ f \in Lists(Keys) \cup {Null} /\ (f # Null => Counts(f))
      /\ Tight(vm_key[w]) => Tight(f) /\ (k \in added => k \in Held(f)) /\ Held(vm_key[w]) \subseteq Held(f)
  <2>1. CASE k \in added
    <3>1. f = SavedKey(vm_key[w], k)
      BY <1>5, <2>1
    <3>2. QED
      BY <1>2, <3>1, Saved DEF Held
  <2>2. CASE k \notin added
    BY <1>2, <1>5, <2>2
  <2>3. QED
    BY <2>1, <2>2
<1>7. PICK s : s = saved
  OBVIOUS
<1>8. s = IF Root(k) \in added /\ Root(k) # k THEN SavedKey(f, Root(k)) ELSE f
  BY <1>5, <1>7
<1>9. Tight(f) => Tight(s) /\ (Root(k) \in added /\ Root(k) # k => Root(k) \in Held(s)) /\ Held(f) \subseteq Held(s)
  BY <1>2, <1>6, <1>8, Saved DEF Held
<1>10. vm_key' = [vm_key EXCEPT ![w] = s]
  BY <1>1, <1>7
<1>11. Tight(vm_key[w]) => Tight(s) /\ Held(vm_key[w]) \subseteq Held(s) /\ \A q \in added : q \in Held(s)
  BY <1>4, <1>6, <1>9
<1> HIDE DEF first, saved, added
<1> SUFFICES ASSUME NEW v \in VMs, Clean(v)' PROVE RememberedBy(v)'
  BY DEF Remembered
<1>12. Clean(v)
  BY <1>3 DEF Clean
<1>13. RememberedBy(v)
  BY <1>12 DEF Remembered
<1>14. ASSUME NEW q \in Keys, q \in added, v # w
       PROVE  Watches(v, q)' => Watches(v, q) /\ OneSlot(key_observer'[q], v)
  <2>1. PICK m : m = Recorded(q, w)
    OBVIOUS
  <2>2. key_observer'[q] = m /\ Records(q, w)
    BY <1>1, <1>4, <1>14, <2>1
  <2>3. Held(m) \subseteq Held(key_observer[q]) \cup {w}
        /\ \A u \in VMs \ {w} : (key_observer[q] # Null => OneSlot(key_observer[q], u)) => OneSlot(m, u)
    BY <2>1, <2>2, RecordedList
  <2>4. Watches(v, q)' => Watches(v, q)
    BY <1>14, <2>2, <2>3 DEF Watches
  <2>5. QED
    BY <1>13, <1>14, <2>2, <2>3, <2>4 DEF RememberedBy, Watches
<1>15. ASSUME NEW q \in Keys, q \in added, v = w
       PROVE  OneSlot(key_observer'[q], v)
  <2>1. PICK m : m = Recorded(q, w)
    OBVIOUS
  <2>2. key_observer'[q] = m /\ Records(q, w)
    BY <1>1, <1>4, <1>15, <2>1
  <2>3. w \notin Held(key_observer[q])
    BY <1>3, <1>15 DEF Clean, Held
  <2>4. OneSlot(m, w)
    BY <2>1, <2>2, <2>3, RecordedList
  <2>5. QED
    BY <1>15, <2>2, <2>4
<1>16. \A q \in Keys \ added : key_observer'[q] = key_observer[q]
  BY <1>1
<1>17. CASE v # w
  <2>1. vm_key'[v] = vm_key[v]
    BY <1>2, <1>10, <1>17
  <2>2. ASSUME NEW q \in Keys, Watches(v, q)' PROVE Known(v, q)' /\ OneSlot(key_observer'[q], v)
    BY <1>13, <1>14, <1>16, <1>17, <2>1, <2>2 DEF RememberedBy, Watches, Known
  <2>3. QED
    BY <1>1, <1>13, <2>1, <2>2 DEF RememberedBy, Known
<1>18. CASE v = w
  <2>1. vm_key'[v] = s /\ Tight(vm_key[v])
    BY <1>2, <1>10, <1>13, <1>18 DEF RememberedBy
  <2>2. Tight(vm_key'[v]) /\ Held(vm_key[v]) \subseteq Held(vm_key'[v]) /\ \A q \in added : Known(v, q)'
    BY <1>11, <1>18, <2>1 DEF Known
  <2>3. ASSUME NEW q \in Keys, Watches(v, q)' PROVE Known(v, q)' /\ OneSlot(key_observer'[q], v)
    BY <1>13, <1>15, <1>16, <1>18, <2>2, <2>3 DEF RememberedBy, Watches, Known
  <2>4. QED
    BY <1>1, <1>2, <1>13, <1>18, <2>2, <2>3 DEF RememberedBy, Known
<1>19. QED
  BY <1>17, <1>18


\* The list of watchers of a key when one of them has gone.
LEMMA WatcherGone ==
    ASSUME Shape, NEW k \in Keys, NEW w \in VMs, NEW m, m = Forgets(key_observer[k], w)
    PROVE  /\ Held(m) \subseteq Held(key_observer[k])
           /\ Held(key_observer[k]) \ {w} \subseteq Held(m)
           /\ m # Null => key_observer[k] # Null
           /\ key_observer[k] # Null => \A i \in DOMAIN key_observer[k].arr :
                 key_observer[k].arr[i] \in VMs \ {w} =>
                    m # Null /\ i \in DOMAIN m.arr /\ m.arr[i] = key_observer[k].arr[i]
           /\ \A u \in VMs : (key_observer[k] # Null => OneSlot(key_observer[k], u))
                                => (m # Null => OneSlot(m, u))
           /\ (key_observer[k] # Null => OneSlot(key_observer[k], w)) => w \notin Held(m)
<1>1. PICK list : list = key_observer[k]
  OBVIOUS
<1>2. /\ Null \notin VMs /\ Null \notin Lists(VMs) /\ list \in Lists(VMs) \cup {Null}
      /\ list # Null => Counts(list)
  BY <1>1, DataBindConstants DEF Shape, TypeOK, ListsCount
<1>3. m = Forgets(list, w)
  BY <1>1
<1>4. /\ Held(m) \subseteq Held(list) /\ Held(list) \ {w} \subseteq Held(m)
      /\ m # Null => list # Null
      /\ list # Null => \A i \in DOMAIN list.arr : list.arr[i] \in VMs \ {w} =>
            m # Null /\ i \in DOMAIN m.arr /\ m.arr[i] = list.arr[i]
      /\ \A u \in VMs : (list # Null => OneSlot(list, u)) => (m # Null => OneSlot(m, u))
      /\ (list # Null => OneSlot(list, w)) => w \notin Held(m)
  BY <1>2, <1>3, Forgotten
<1>5. QED
  BY <1>1, <1>4

LEMMA RememberedUnWatch ==
    ASSUME Shape, Remembered, NEW w \in VMs, NEW k \in Keys, UnWatch(w, k),
           ~(Fails("null key") \/ Fails("empty node"))
    PROVE  Remembered'
<1>1. /\ key_observer' = [key_observer EXCEPT ![k] = Forgets(key_observer[k], w)]
      /\ vm_key' = [vm_key EXCEPT ![w] =
             IF vm_key[w] # Null /\ IsIn(vm_key[w], k) THEN Forgets(vm_key[w], k) ELSE vm_key[w]]
      /\ hist' = [hist EXCEPT !.unwatched = @ \cup {w}]
      /\ UNCHANGED <<key_observable, open>>
  BY DEF UnWatch
<1>2. /\ hist \in [{"unwatched", "refused", "doubled", "displaced", "grown", "missed"} -> SUBSET VMs]
      /\ vm_key \in [VMs -> Lists(Keys) \cup {Null}]
      /\ key_observer \in [Keys -> Lists(VMs) \cup {Null}]
      /\ key_observer[k] # Null => Counts(key_observer[k])
      /\ Null \notin VMs /\ Null \notin Lists(VMs)
  BY DataBindConstants DEF Shape, TypeOK, ListsCount
<1>3. /\ hist'.unwatched = hist.unwatched \cup {w} /\ hist'.refused = hist.refused
      /\ hist'.doubled = hist.doubled
  BY <1>1, <1>2
<1> SUFFICES ASSUME NEW v \in VMs, Clean(v)' PROVE RememberedBy(v)'
  BY DEF Remembered
<1>4. Clean(v) /\ v # w
  BY <1>3 DEF Clean
<1>5. RememberedBy(v) /\ vm_key'[v] = vm_key[v]
  BY <1>1, <1>2, <1>4 DEF Remembered
<1>6. PICK m : m = Forgets(key_observer[k], w)
  OBVIOUS
<1>7. /\ Held(m) \subseteq Held(key_observer[k]) /\ (m # Null => key_observer[k] # Null)
      /\ \A u \in VMs : (key_observer[k] # Null => OneSlot(key_observer[k], u)) => (m # Null => OneSlot(m, u))
  BY <1>6, WatcherGone
<1>8. ASSUME NEW q \in Keys, Watches(v, q)' PROVE Known(v, q)' /\ OneSlot(key_observer'[q], v)
  <2>1. CASE q # k
    BY <1>1, <1>2, <1>5, <1>8, <2>1 DEF RememberedBy, Watches, Known
  <2>2. CASE q = k
    <3>1. key_observer'[q] = m
      BY <1>1, <1>2, <1>6, <2>2
    <3>2. m # Null /\ Watches(v, k)
      BY <1>7, <1>8, <2>2, <3>1 DEF Watches, Held
    <3>3. Known(v, k) /\ OneSlot(key_observer[k], v)
      BY <1>5, <3>2 DEF RememberedBy
    <3>4. QED
      BY <1>5, <1>7, <2>2, <3>1, <3>2, <3>3 DEF Known
  <2>3. QED
    BY <2>1, <2>2
<1>9. QED
  BY <1>1, <1>5, <1>8 DEF RememberedBy, Known

LEMMA RememberedClose ==
    ASSUME Shape, Remembered, NEW w \in VMs, Close(w)
    PROVE  Remembered'
<1> DEFINE keys == Held(vm_key[w])
<1>1. /\ open' = open \ {w}
      /\ key_observable' = [r \in Roots |-> IF r \in keys THEN Null ELSE key_observable[r]]
      /\ key_observer' = [k \in Keys |->
             IF k \in keys THEN Forgets(key_observer[k], w) ELSE key_observer[k]]
      /\ vm_key' = [vm_key EXCEPT ![w] = Null]
      /\ UNCHANGED hist
  BY DEF Close, Held
<1>2. /\ vm_key \in [VMs -> Lists(Keys) \cup {Null}]
      /\ key_observer \in [Keys -> Lists(VMs) \cup {Null}]
      /\ \A k \in Keys : key_observer[k] # Null => Counts(key_observer[k])
      /\ Null \notin VMs /\ Null \notin Lists(VMs)
  BY DataBindConstants DEF Shape, TypeOK, ListsCount
<1> HIDE DEF keys
<1> SUFFICES ASSUME NEW v \in VMs, Clean(v)' PROVE RememberedBy(v)'
  BY DEF Remembered
<1>3. Clean(v) /\ RememberedBy(v)
  BY <1>1 DEF Clean, Remembered
<1>4. ASSUME NEW k \in Keys, k \in keys
      PROVE  /\ Watches(v, k)' => Watches(v, k) /\ OneSlot(key_observer'[k], v)
             /\ v = w => ~Watches(v, k)'
  <2>1. PICK m : m = Forgets(key_observer[k], w)
    OBVIOUS
  <2>2. key_observer'[k] = m
    BY <1>1, <1>4, <2>1
  <2>3. /\ Held(m) \subseteq Held(key_observer[k]) /\ (m # Null => key_observer[k] # Null)
        /\ \A u \in VMs : (key_observer[k] # Null => OneSlot(key_observer[k], u)) => (m # Null => OneSlot(m, u))
        /\ (key_observer[k] # Null => OneSlot(key_observer[k], w)) => w \notin Held(m)
    BY <2>1, WatcherGone
  <2>4. Watches(v, k)' => Watches(v, k) /\ m # Null
    BY <2>2, <2>3 DEF Watches, Held
  <2>5. Watches(v, k) => OneSlot(key_observer[k], v)
    BY <1>3 DEF RememberedBy
  <2>50. Watches(v, k)' => OneSlot(key_observer[k], v)
    BY <2>4, <2>5
  <2>51. (key_observer[k] # Null => OneSlot(key_observer[k], v)) => (m # Null => OneSlot(m, v))
    BY <2>3
  <2>6. Watches(v, k)' => OneSlot(key_observer'[k], v)
    BY <2>2, <2>4, <2>50, <2>51
  <2>7. v = w => ~Watches(v, k)'
    <3> SUFFICES ASSUME v = w, Watches(v, k)' PROVE FALSE
      OBVIOUS
    <3>1. OneSlot(key_observer[k], w)
      BY <2>50
    <3>2. w \notin Held(m)
      BY <2>3, <3>1
    <3>3. QED
      BY <2>2, <3>2 DEF Watches
  <2>8. QED
    BY <2>4, <2>6, <2>7
<1>5. \A k \in Keys \ keys : key_observer'[k] = key_observer[k]
  BY <1>1
<1>6. CASE v # w
  <2>1. vm_key'[v] = vm_key[v]
    BY <1>1, <1>2, <1>6
  <2>2. ASSUME NEW q \in Keys, Watches(v, q)' PROVE Known(v, q)' /\ OneSlot(key_observer'[q], v)
    BY <1>3, <1>4, <1>5, <2>1, <2>2 DEF RememberedBy, Watches, Known
  <2>3. \A r \in Roots : key_observable'[r] = v => Known(v, r)'
    BY <1>1, <1>2, <1>3, <2>1 DEF RememberedBy, Known
  <2>4. QED
    BY <1>1, <1>3, <1>6, <2>1, <2>2, <2>3 DEF RememberedBy
<1>7. CASE v = w
  <2>1. vm_key'[v] = Null
    BY <1>1, <1>2, <1>7
  <2>2. \A r \in Roots : key_observable'[r] # v
    BY <1>1, <1>2, <1>3, <1>7 DEF RememberedBy, Known, keys
  <2>3. \A q \in Keys : ~Watches(v, q)'
    BY <1>3, <1>4, <1>5, <1>7 DEF RememberedBy, Known, keys, Watches
  <2>4. QED
    BY <2>1, <2>2, <2>3 DEF RememberedBy, Tight
<1>8. QED
  BY <1>6, <1>7

LEMMA RememberedStep == Shape /\ Remembered /\ [Next]_vars => Remembered'
<1> SUFFICES ASSUME Shape, Remembered, [Next]_vars PROVE Remembered'
  OBVIOUS
<1>1. CASE Inner
  BY <1>1 DEF Inner, bindings, Remembered, Clean, RememberedBy, Watches, Known
<1>2. QED
  BY <1>1, Kinds, RememberedBind, RememberedWatch, RememberedUnWatch, RememberedClose

LEMMA ForgottenWhole == Shape /\ Remembered => ClosedForgotten
<1> SUFFICES ASSUME Remembered,
                    NEW v \in VMs \ (open \cup hist.unwatched \cup hist.refused \cup hist.doubled)
             PROVE  ~Refers(v)
  BY DEF ClosedForgotten
<1>1. RememberedBy(v) /\ v \notin open
  BY DEF Remembered, Clean
<1>2. vm_key[v] = Null /\ \A k : ~Known(v, k)
  BY <1>1 DEF RememberedBy, Known, Held
<1>3. QED
  BY <1>1, <1>2 DEF RememberedBy, Watches, Held, Refers

LEMMA RememberedAlways == Spec => [](Shape /\ Remembered)
BY ShapeInit, ShapeStep, RememberedInit, RememberedStep, PTL DEF Spec

\* When DB_Close has run for a VM, no map of the binding leads to its memory,
\* but for the VMs that unwatched a key, were refused one or stand in a list
\* twice.
THEOREM NothingLeads == Spec => []ClosedForgotten
BY RememberedAlways, ForgottenWhole, PTL


----------------------------------------------------------------------------
\* Nothing freed is used.

\* A step that is no operation of a page, or one that fails, does one of these.
Still == UNCHANGED <<bindings, open, tables, frames, hist>>

InnerKind ==
    \/ Still
    \/ \E k \in Keys : \E holders \in Values[k] : Assign(k, holders) /\ Len(k) > 1 /\ calls' \in 0 .. MaxCalls
    \/ Visit /\ ~Fails("closed VM")
    \/ Assigned
    \/ ~Idle /\ \E f \in Frames : GoesOn(f)

LEMMA FrameKinds ==
    ASSUME Shape, [Next]_vars
    PROVE  \/ \E v \in VMs, r \in Roots : Bind(v, r) /\ ~Fails("null key")
           \/ \E v \in VMs, k \in Keys, params \in BOOLEAN : Watch(v, k, params) /\ ~Fails("null key")
           \/ \E v \in VMs, k \in Keys : UnWatch(v, k) /\ ~(Fails("null key") \/ Fails("empty node"))
           \/ \E v \in VMs : Close(v)
           \/ InnerKind
<1>1. (\E what : Fails(what)) => InnerKind
  BY DEF Fails, InnerKind, Still
<1>2. CASE UNCHANGED vars
  BY <1>2 DEF InnerKind, Still, vars
<1>3. ASSUME NEW v \in VMs, NEW k \in Keys, NEW holders \in Values[k],
             SetField(v, k, holders) \/ Update(v, k, holders)
      PROVE  InnerKind
  <2>1. calls' \in 0 .. MaxCalls
    BY <1>3, CallCounted DEF SetField, Update, Shape
  <2>2. Len(k) > 1 /\ (Assign(k, holders) \/ Fails("closed VM"))
    BY <1>3 DEF SetField, Update
  <2>3. QED
    BY <1>1, <2>1, <2>2 DEF InnerKind
<1>4. CASE Visit \/ VisitFreed \/ WalkFreedNodes
  BY <1>1, <1>4 DEF VisitFreed, WalkFreedNodes, InnerKind
<1>5. CASE FindNode \/ Walk \/ Walked \/ FunctionReturns
  <2>1. Fails("empty node") \/ (~Idle /\ \E f \in Frames : GoesOn(f))
    BY <1>5, FindNodeOn, WalkOn, RestOn
  <2>2. QED
    BY <1>1, <2>1 DEF InnerKind
<1>6. CASE Assigned
  BY <1>6 DEF InnerKind
<1>7. CASE \E v \in VMs, r \in Roots : Bind(v, r)
  BY <1>1, <1>7
<1>8. CASE \E v \in VMs, k \in Keys : UnWatch(v, k) \/ \E params \in BOOLEAN : Watch(v, k, params)
  BY <1>1, <1>8
<1>9. QED
  BY <1>2, <1>3, <1>4, <1>5, <1>6, <1>7, <1>8 DEF Next

\* What happened is not forgotten.
LEMMA HistGrows ==
    ASSUME Shape, [Next]_vars
    PROVE  /\ hist.unwatched \subseteq hist'.unwatched /\ hist.refused \subseteq hist'.refused
           /\ hist.doubled \subseteq hist'.doubled /\ hist.displaced \subseteq hist'.displaced
           /\ hist.grown \subseteq hist'.grown
<1>1. hist \in [{"unwatched", "refused", "doubled", "displaced", "grown", "missed"} -> SUBSET VMs]
  BY DEF Shape, TypeOK
<1>2. CASE Inner
  BY <1>2 DEF Inner
<1>3. ASSUME NEW v \in VMs, NEW r \in Roots, Bind(v, r), ~Fails("null key")
      PROVE  hist' = hist \/ hist' = [hist EXCEPT !.refused = @ \cup {v}]
  <2>1. hist' = [hist EXCEPT !.refused = IF key_observable[r] \in {Null, v} THEN @ ELSE @ \cup {v}]
    BY <1>3 DEF Bind
  <2>2. CASE key_observable[r] \in {Null, v}
    <3>1. hist' = [hist EXCEPT !.refused = hist.refused]
      BY <2>1, <2>2
    <3>2. QED
      BY <1>1, <3>1
  <2>3. CASE key_observable[r] \notin {Null, v}
    BY <2>1, <2>3
  <2>4. QED
    BY <2>2, <2>3
<1>4. ASSUME NEW v \in VMs, NEW k \in Keys, NEW params \in BOOLEAN, Watch(v, k, params), ~Fails("null key")
      PROVE  \E d, e, g : hist' = [hist EXCEPT !.doubled = @ \cup d, !.displaced = @ \cup e, !.grown = @ \cup g]
  <2> DEFINE added == RecordedKeys(k, v)
             again == \E q \in added : key_observer[q] # Null /\ v \in InUse(key_observer[q])
             moves == \E i \in DOMAIN frames : WalkGrown(frames[i], v, NodesGrown(v, k))
             d == IF again THEN {v} ELSE {}
             e == UNION {Displaced(q) : q \in added}
             g == IF moves THEN {v} ELSE {}
  <2>1. hist' = [hist EXCEPT !.doubled = IF again THEN @ \cup {v} ELSE @, !.displaced = @ \cup e,
                             !.grown = IF moves THEN @ \cup {v} ELSE @]
    BY <1>4 DEF Watch
  <2>2. hist' = [hist EXCEPT !.doubled = @ \cup d, !.displaced = @ \cup e, !.grown = @ \cup g]
    BY <1>1, <2>1
  <2> HIDE DEF d, e, g
  <2>3. QED
    BY <2>2
<1>5. ASSUME NEW v \in VMs, NEW k \in Keys, UnWatch(v, k), ~(Fails("null key") \/ Fails("empty node"))
      PROVE  hist' = [hist EXCEPT !.unwatched = @ \cup {v}]
  BY <1>5 DEF UnWatch
<1>6. ASSUME NEW v \in VMs, Close(v) PROVE hist' = hist
  BY <1>6 DEF Close
<1>7. CASE \E d, e, g : hist' = [hist EXCEPT !.doubled = @ \cup d, !.displaced = @ \cup e, !.grown = @ \cup g]
  BY <1>1, <1>7
<1>8. QED
  BY <1>1, <1>2, <1>3, <1>4, <1>5, <1>6, <1>7, Kinds

\* Unless something was unwatched, or a node grew under a walk, no list under a
\* traversal is freed and no array under a walk.
Unfreed ==
    hist.unwatched \cup hist.grown = {} =>
        \A i \in DOMAIN frames : ~frames[i].listFreed /\ ~frames[i].walkFreed

LEMMA UnfreedInit == Init => Unfreed
<1> SUFFICES ASSUME Init PROVE Unfreed
  OBVIOUS
<1>1. frames = << >>
  BY DEF Init
<1>2. DOMAIN frames = {}
  BY <1>1
<1>3. QED
  BY <1>2 DEF Unfreed

LEMMA UnfreedStep == Shape /\ Unfreed /\ [Next]_vars => Unfreed'
<1> SUFFICES ASSUME Shape, Unfreed, [Next]_vars, hist'.unwatched \cup hist'.grown = {}
             PROVE  \A i \in DOMAIN frames' : ~frames'[i].listFreed /\ ~frames'[i].walkFreed
  BY DEF Unfreed
<1>1. \A i \in DOMAIN frames : ~frames[i].listFreed /\ ~frames[i].walkFreed
  <2>1. hist.unwatched \cup hist.grown = {}
    BY HistGrows
  <2>2. QED
    BY <2>1 DEF Unfreed
<1>2. CASE UNCHANGED frames
  BY <1>1, <1>2
<1>3. ASSUME NEW v \in VMs, NEW k \in Keys, UnWatch(v, k), ~(Fails("null key") \/ Fails("empty node"))
      PROVE  FALSE
  <2>1. hist' = [hist EXCEPT !.unwatched = @ \cup {v}]
    BY <1>3 DEF UnWatch
  <2>2. hist \in [{"unwatched", "refused", "doubled", "displaced", "grown", "missed"} -> SUBSET VMs]
    BY DEF Shape, TypeOK
  <2>3. QED
    BY <2>1, <2>2
<1>4. ASSUME NEW k \in Keys, NEW holders \in Values[k], Assign(k, holders), calls' \in 0 .. MaxCalls,
             NEW i \in DOMAIN frames'
      PROVE  ~frames'[i].listFreed /\ ~frames'[i].walkFreed
  <2>1. /\ frames'[1] = Assignment(k, holders) /\ DOMAIN frames' = 1 .. Len(frames) + 1
        /\ \A j \in 2 .. Len(frames) + 1 :
              j - 1 \in DOMAIN frames /\ frames'[j] = Altered(frames[j - 1], k) /\ frames[j - 1] \in Frames
        /\ Len(frames) \in Nat
    BY <1>4, AssignShape, LenProperties DEF Shape, TypeOK
  <2>2. CASE i = 1
    BY <2>1, <2>2 DEF Assignment
  <2>3. CASE i # 1
    <3>1. i \in 2 .. Len(frames) + 1
      BY <2>1, <2>3, <1>4
    <3>2. PICK f \in Frames : f = frames[i - 1]
      BY <2>1, <3>1
    <3>3. ~f.listFreed /\ ~f.walkFreed /\ frames'[i] = Altered(f, k)
      BY <1>1, <2>1, <3>1, <3>2
    <3>4. QED
      BY <3>3, AlteredShape
  <2>4. QED
    BY <2>2, <2>3
<1>5. ASSUME Assigned, NEW i \in DOMAIN frames'
      PROVE  ~frames'[i].listFreed /\ ~frames'[i].walkFreed
  BY <1>1, <1>5, AssignedShape
<1>6. ASSUME ~Idle, NEW f \in Frames, SetTop(f),
             f.listFreed = Top.listFreed, f.walkFreed = Top.walkFreed, NEW i \in DOMAIN frames'
      PROVE  ~frames'[i].listFreed /\ ~frames'[i].walkFreed
  <2>1. /\ DOMAIN frames' = DOMAIN frames /\ frames'[1] = f
        /\ \A j \in DOMAIN frames \ {1} : frames'[j] = frames[j]
    BY <1>6, TopSet DEF Shape
  <2>2. ~Top.listFreed /\ ~Top.walkFreed
    BY <1>1, <1>6, TopShape DEF Shape, Top
  <2>3. QED
    BY <1>1, <1>6, <2>1, <2>2
<1>7. ASSUME Visit, ~Fails("closed VM"), NEW i \in DOMAIN frames'
      PROVE  ~frames'[i].listFreed /\ ~frames'[i].walkFreed
  BY <1>6, <1>7, VisitedShape
<1>8. ASSUME ~Idle, NEW f \in Frames, GoesOn(f), NEW i \in DOMAIN frames'
      PROVE  ~frames'[i].listFreed /\ ~frames'[i].walkFreed
  BY <1>6, <1>8 DEF GoesOn, Onward
<1>9. ASSUME NEW v \in VMs, (\E r \in Roots : Bind(v, r) /\ ~Fails("null key")) \/ Close(v)
      PROVE  UNCHANGED frames
  BY <1>9 DEF Bind, Close
<1>10. ASSUME NEW v \in VMs, NEW k \in Keys, NEW params \in BOOLEAN, Watch(v, k, params), ~Fails("null key"),
              NEW i \in DOMAIN frames'
       PROVE  ~frames'[i].listFreed /\ ~frames'[i].walkFreed
  <2> DEFINE grown == NodesGrown(v, k)
  <2>1. frames' \in WalksAfter(v, NewNodes(v, k), grown)
    BY <1>10 DEF Watch
  <2>2. i \in DOMAIN frames
    BY <2>1, WalksLeft
  <2>3. PICK t \in SUBSET Keys, w \in BOOLEAN :
            /\ frames[i] \in Frames
            /\ frames'[i] = [frames[i] EXCEPT !.todo = t, !.walkFreed = w]
            /\ frames[i].todo \ Unsure(frames[i], v, NewNodes(v, k), grown) \subseteq t
            /\ t \subseteq frames[i].todo \cup Unsure(frames[i], v, NewNodes(v, k), grown)
            /\ w => frames[i].walkFreed \/ WalkMoved(frames[i], v, grown)
    BY <2>1, <2>2, WalksLeft
  <2> DEFINE f == frames[i]
  <2>4. ~\E j \in DOMAIN frames : WalkGrown(frames[j], v, grown)
    <3> SUFFICES ASSUME \E j \in DOMAIN frames : WalkGrown(frames[j], v, grown) PROVE FALSE
      OBVIOUS
    <3>1. \E d, e : hist' = [hist EXCEPT !.doubled = d, !.displaced = e, !.grown = @ \cup {v}]
      BY <1>10 DEF Watch
    <3>2. hist \in [{"unwatched", "refused", "doubled", "displaced", "grown", "missed"} -> SUBSET VMs]
      BY DEF Shape, TypeOK
    <3>3. v \in hist'.grown
      BY <3>1, <3>2
    <3>4. QED
      BY <3>3
  <2>5. ~WalkMoved(f, v, grown)
    BY <2>2, <2>3, <2>4 DEF WalkMoved, WalkGrown
  <2>6. ~f.listFreed /\ ~f.walkFreed
    BY <1>1, <2>2, <2>3
  <2>7. QED
    BY <2>3, <2>5, <2>6 DEF Frames
<1>11. CASE InnerKind
  BY <1>2, <1>4, <1>5, <1>7, <1>8, <1>11 DEF InnerKind, Still
<1>12. QED
  BY <1>2, <1>3, <1>9, <1>10, <1>11, FrameKinds


\* A search that reads a gap is in a list with a gap.
LEMMA TightReads ==
    ASSUME NEW list \in Lists(Keys) \cup {Null}, Tight(list), list # Null, NEW k
    PROVE  ~ReadsGap(list, k)
BY DEF Tight, ReadsGap, HasGap, Slots

\* No step goes wrong, but find() in a node without arrays, while nothing was
\* unwatched or refused, no VM stands in a list twice and no node grew under a
\* walk.
LEMMA FaultStep ==
    ASSUME Shape, Remembered, Unfreed, [Next]_vars,
           hist.unwatched = {}, hist.refused = {}, hist.doubled = {}, hist.grown = {}
    PROVE  fault' \in {fault, "empty node"}
<1>1. \A v \in VMs : RememberedBy(v)
  BY DEF Remembered, Clean
<1>2. \A v \in VMs : Tight(vm_key[v]) /\ vm_key[v] \in Lists(Keys) \cup {Null}
                     /\ (vm_key[v] # Null => Counts(vm_key[v]))
  BY <1>1 DEF RememberedBy, Shape, TypeOK, ListsCount
<1>3. ASSUME NEW v \in VMs, NEW k \in Keys PROVE ~SaveFaults(vm_key[v], k)
  BY <1>2, TightReads DEF SaveFaults
<1>4. \A i \in DOMAIN frames : ~frames[i].listFreed /\ ~frames[i].walkFreed
  BY DEF Unfreed
<1>5. \A v \in VMs, k \in Keys : Known(v, k) => v \in open
  BY <1>1 DEF RememberedBy, Known, Held
<1>6. ASSUME NEW v \in VMs, NEW r \in Roots, Bind(v, r) PROVE fault' = fault
  <2>1. r \in Keys
    BY DEF Roots
  <2>2. ~SaveFaults(vm_key[v], r)
    BY <1>3, <2>1
  <2>3. QED
    BY <1>6, <2>2 DEF Bind
<1>7. ASSUME NEW v \in VMs, NEW k \in Keys, NEW params \in BOOLEAN, Watch(v, k, params) PROVE fault' = fault
  <2> DEFINE added == RecordedKeys(k, v)
             first == IF k \in added THEN SavedKey(vm_key[v], k) ELSE vm_key[v]
  <2>1. Root(k) \in Keys
    BY KeyShape
  <2>2. PICK f : f = first
    OBVIOUS
  <2>3. f \in Lists(Keys) \cup {Null} /\ Tight(f)
    <3>1. CASE k \in added
      <4>1. f = SavedKey(vm_key[v], k)
        BY <2>2, <3>1
      <4>2. QED
        BY <1>2, <4>1, Saved
    <3>2. CASE k \notin added
      BY <1>2, <2>2, <3>2
    <3>3. QED
      BY <3>1, <3>2
  <2>4. ~SaveFaults(f, Root(k))
    BY <2>3, TightReads DEF SaveFaults
  <2>5. ~SaveFaults(vm_key[v], k)
    BY <1>3
  <2>6. ~(\/ k \in added /\ SaveFaults(vm_key[v], k)
          \/ Root(k) \in added /\ SaveFaults(first, Root(k)))
    BY <2>2, <2>4, <2>5
  <2>7. QED
    BY <1>7, <2>6 DEF Watch
<1>8. ASSUME NEW v \in VMs, NEW k \in Keys, UnWatch(v, k) PROVE fault' \in {fault, "empty node"}
  <2>1. ~(vm_key[v] # Null /\ ReadsGap(vm_key[v], k))
    BY <1>2, TightReads
  <2>2. Fails("empty node") \/ fault' = fault
    BY <1>8, <2>1 DEF UnWatch
  <2>3. QED
    BY <2>2 DEF Fails
<1>9. ASSUME NEW v \in VMs, NEW k \in Keys, NEW holders \in Values[k],
             SetField(v, k, holders) \/ Update(v, k, holders)
      PROVE  fault' = fault
  <2>1. ASSUME key_observable[Root(k)] # Null PROVE key_observable[Root(k)] \in open
    <3>1. Root(k) \in Roots /\ Root(k) \in Keys
      BY KeyShape
    <3>2. key_observable[Root(k)] \in VMs
      BY <2>1, <3>1 DEF Shape, TypeOK
    <3>3. Known(key_observable[Root(k)], Root(k))
      BY <1>1, <3>1, <3>2 DEF RememberedBy
    <3>4. QED
      BY <1>5, <3>1, <3>2, <3>3
  <2>2. Assign(k, holders)
    BY <1>9, <2>1 DEF SetField, Update
  <2>3. QED
    BY <2>2 DEF Assign
<1>10. ASSUME Visit PROVE fault' = fault
  <2> DEFINE i == CHOOSE j \in LeftToVisit(Top) : \A l \in LeftToVisit(Top) : j <= l
             w == Watchers(Top).arr[i]
  <2>1. Stands("list") /\ LeftToVisit(Top) # {}
        /\ (w \in open => UNCHANGED fault)
    BY <1>10 DEF Visit
  <2>2. ~Idle /\ Top.key \in Keys
    BY <2>1, TopShape DEF Stands, Shape
  <2>3. /\ Watchers(Top) # Null /\ i \in DOMAIN Watchers(Top).arr /\ w \in VMs
    BY <2>1, <2>2, NextVisit
  <2>4. w \in open
    <3>1. Root(Top.key) \in Keys /\ Null \notin VMs
      BY <2>2, KeyShape, DataBindConstants
    <3>2. w \in InUse(Watchers(Top))
      BY <2>3, <3>1 DEF InUse
    <3>3. Watches(w, Root(Top.key))
      BY <2>3, <3>2 DEF Watches, Held, Watchers
    <3>4. Known(w, Root(Top.key))
      BY <1>1, <2>3, <3>1, <3>3 DEF RememberedBy
    <3>5. QED
      BY <1>5, <2>3, <3>1, <3>4
  <2>5. QED
    BY <2>1, <2>4
<1>11. ASSUME VisitFreed \/ WalkFreedNodes PROVE FALSE
  <2>1. ~Idle /\ (Top.listFreed \/ Top.walkFreed)
    BY <1>11 DEF VisitFreed, WalkFreedNodes, Stands
  <2>2. QED
    BY <1>4, <2>1, TopShape DEF Shape, Top
<1>12. CASE FindNode
  BY <1>12 DEF FindNode, Fails
<1>13. CASE Assigned \/ Walk \/ Walked \/ FunctionReturns
  BY <1>13 DEF Assigned, Walk, Walked, FunctionReturns
<1>14. ASSUME NEW v \in VMs, Close(v) PROVE fault' = fault
  BY <1>14 DEF Close
<1>15. CASE UNCHANGED vars
  BY <1>15 DEF vars
<1>16. QED
  BY <1>6, <1>7, <1>8, <1>9, <1>10, <1>11, <1>12, <1>13, <1>14, <1>15 DEF Next

LEMMA FaultAlways == Spec => [](Shape /\ Remembered /\ Unfreed /\ NoFault)
<1>1. Init => NoFault
  BY DEF Init, NoFault
<1>2. Shape /\ Remembered /\ Unfreed /\ NoFault /\ [Next]_vars => NoFault'
  <2> SUFFICES ASSUME Shape, Remembered, Unfreed, NoFault, [Next]_vars,
                      hist'.unwatched \cup hist'.refused \cup hist'.doubled \cup hist'.grown = {}
               PROVE  fault' \in {"none", "empty node"}
    BY DEF NoFault
  <2>1. hist.unwatched = {} /\ hist.refused = {} /\ hist.doubled = {} /\ hist.grown = {}
    BY HistGrows
  <2>2. fault \in {"none", "empty node"}
    BY <2>1 DEF NoFault
  <2>3. QED
    BY <2>1, <2>2, FaultStep
<1>3. QED
  BY <1>1, <1>2, ShapeInit, ShapeStep, RememberedInit, RememberedStep, UnfreedInit, UnfreedStep,
     PTL DEF Spec

\* While no page unwatches, is refused a key or stands in a list twice, and no
\* watch in a function makes a node grow that the walk is in, no operation reads
\* a gap, no assignment runs in a closed VM or calls one, and none goes on in a
\* list or a tree that was freed under it.
THEOREM NothingFreed == Spec => []NoFault
BY FaultAlways, PTL


----------------------------------------------------------------------------
\* Who watches hears.

\* The VMs the promise to the watchers is made to.
Good(u) == u \notin hist.unwatched \cup hist.displaced \cup hist.grown

\* A VM with a function for a key watches the key and its root, and has the
\* nodes on the way to the key.
HearingOf(u) ==
    /\ \A q \in otk[u] : Watches(u, q)
    /\ \A q \in Keys : Watches(u, q) =>
          Watches(u, Root(q)) /\ (Len(q) > 1 => TreePath(q) \subseteq nodes[u])

Hearing == \A u \in open : Good(u) => HearingOf(u)

LEMMA HearingInit == Init => Hearing
<1> SUFFICES ASSUME Init, NEW u \in VMs PROVE HearingOf(u)
  BY DEF Hearing, Init
<1>1. otk[u] = {} /\ \A q \in Keys : ~Watches(u, q)
  BY DEF Init, Watches, Held
<1>2. QED
  BY <1>1 DEF HearingOf

\* Who was good stays known as such only if the step did not change it.
LEMMA GoodBefore ==
    ASSUME Shape, [Next]_vars, NEW u, Good(u)'
    PROVE  Good(u)
BY HistGrows DEF Good

LEMMA NotRecorded ==
    ASSUME Shape, NEW v \in VMs, NEW k \in Keys, ~Records(k, v)
    PROVE  Watches(v, k)
<1>1. /\ key_observer[k] # Null /\ key_observer[k] \in Lists(VMs) /\ Null \notin VMs
      /\ IsIn(key_observer[k], v)
  BY DataBindConstants DEF Records, Shape, TypeOK
<1>2. key_observer[k].size \in Nat
  BY <1>1, ListShape
<1>3. Slots(key_observer[k], v) # {}
  BY <1>1, <1>2 DEF IsIn, list_index, list_size
<1>4. QED
  BY <1>1, <1>3 DEF Slots, InUse, Watches, Held

\* What a watch notes.
LEMMA WatchHist ==
    ASSUME Shape, NEW v \in VMs, NEW k \in Keys, NEW params \in BOOLEAN, Watch(v, k, params),
           ~Fails("null key")
    PROVE  /\ hist'.missed = hist.missed
           /\ hist'.displaced = hist.displaced \cup UNION {Displaced(q) : q \in RecordedKeys(k, v)}
<1> DEFINE added == RecordedKeys(k, v)
           doubled == IF \E q \in added : key_observer[q] # Null /\ v \in InUse(key_observer[q])
                      THEN hist.doubled \cup {v} ELSE hist.doubled
           grown == IF \E i \in DOMAIN frames : WalkGrown(frames[i], v, NodesGrown(v, k))
                    THEN hist.grown \cup {v} ELSE hist.grown
           displaced == hist.displaced \cup UNION {Displaced(q) : q \in added}
<1>1. hist' = [hist EXCEPT !.doubled = doubled, !.displaced = displaced, !.grown = grown]
  BY DEF Watch
<1>2. hist \in [{"unwatched", "refused", "doubled", "displaced", "grown", "missed"} -> SUBSET VMs]
  BY DEF Shape, TypeOK
<1> HIDE DEF doubled, grown, displaced
<1>3. hist'.missed = hist.missed /\ hist'.displaced = displaced
  BY <1>1, <1>2
<1>4. QED
  BY <1>3 DEF displaced

\* Whom a watch lets watch on.
LEMMA WatchedOn ==
    ASSUME Shape, NEW w \in VMs, NEW k \in Keys, NEW params \in BOOLEAN, Watch(w, k, params), ~Fails("null key"),
           NEW u \in VMs, Good(u)', NEW q \in Keys
    PROVE  /\ Watches(u, q) => Watches(u, q)'
           /\ q \in RecordedKeys(k, w) => Watches(w, q)'
<1>1. key_observer' = [p \in Keys |-> IF p \in RecordedKeys(k, w) THEN Recorded(p, w) ELSE key_observer[p]]
  BY DEF Watch
<1>3. hist'.displaced = hist.displaced \cup UNION {Displaced(p) : p \in RecordedKeys(k, w)}
  BY WatchHist
<1>4. CASE q \in RecordedKeys(k, w)
  <2>1. PICK m : m = Recorded(q, w)
    OBVIOUS
  <2>2. key_observer'[q] = m /\ Records(q, w)
    BY <1>1, <1>4, <2>1 DEF RecordedKeys
  <2>3. /\ Held(m) \subseteq Held(key_observer[q]) \cup {w} /\ w \in Held(m)
        /\ Held(key_observer[q]) \ Lost(q) \subseteq Held(m)
        /\ Lost(q) \subseteq Displaced(q)
    BY <2>1, <2>2, RecordedList
  <2>4. u \notin Lost(q)
    BY <1>3, <1>4, <2>3 DEF Good
  <2>5. QED
    BY <1>4, <2>2, <2>3, <2>4 DEF Watches
<1>5. CASE q \notin RecordedKeys(k, w)
  BY <1>1, <1>5 DEF Watches
<1>6. QED
  BY <1>4, <1>5

LEMMA WatchedNew ==
    ASSUME Shape, NEW w \in VMs, NEW k \in Keys, NEW params \in BOOLEAN, Watch(w, k, params), ~Fails("null key"),
           NEW u \in VMs, Good(u)', NEW q \in Keys, Watches(u, q)', ~Watches(u, q)
    PROVE  u = w /\ q \in RecordedKeys(k, w)
<1>1. key_observer' = [p \in Keys |-> IF p \in RecordedKeys(k, w) THEN Recorded(p, w) ELSE key_observer[p]]
  BY DEF Watch
<1>2. q \in RecordedKeys(k, w)
  <2> SUFFICES ASSUME q \notin RecordedKeys(k, w) PROVE FALSE
    OBVIOUS
  <2>1. key_observer'[q] = key_observer[q]
    BY <1>1
  <2>2. QED
    BY <2>1 DEF Watches
<1>3. PICK m : m = Recorded(q, w)
  OBVIOUS
<1>4. key_observer'[q] = m /\ Records(q, w)
  BY <1>1, <1>2, <1>3 DEF RecordedKeys
<1>5. Held(m) \subseteq Held(key_observer[q]) \cup {w}
  BY <1>3, <1>4, RecordedList
<1>6. QED
  BY <1>2, <1>4, <1>5 DEF Watches

LEMMA RootShort ==
    ASSUME NEW k \in Keys, NEW q \in Keys, Len(q) > 1
    PROVE  q # Root(k)
<1>1. Len(Root(k)) = 1
  BY KeyShape
<1>2. PICK n \in Nat : n = Len(q)
  BY KeyShape
<1>3. n > 1
  BY <1>2
<1>4. n # 1
  BY <1>3
<1>5. QED
  BY <1>1, <1>2, <1>4

LEMMA SlotNumbers ==
    ASSUME NEW S, NEW l \in Lists(S), NEW j \in DOMAIN l.arr
    PROVE  j \in Nat /\ j > 0
<1>1. DOMAIN l.arr = 1 .. Len(l.arr) /\ Len(l.arr) \in Nat
  BY ListShape
<1>2. QED
  BY <1>1

LEMMA Later == \A i, j \in Nat : i <= j /\ j # i => j > i
OBVIOUS

LEMMA HearingWatch ==
    ASSUME Shape, Hearing, [Next]_vars, NEW w \in VMs, NEW k \in Keys, NEW params \in BOOLEAN, Watch(w, k, params), ~Fails("null key")
    PROVE  Hearing'
<1>1. /\ otk' = [otk EXCEPT ![w] = @ \cup {k}]
      /\ nodes' = [nodes EXCEPT ![w] = @ \cup NewNodes(w, k)]
      /\ open' = open
  BY DEF Watch
<1>2. otk \in [VMs -> SUBSET Keys] /\ nodes \in [VMs -> SUBSET Keys] /\ open \subseteq VMs
  BY DEF Shape, TypeOK
<1> SUFFICES ASSUME NEW u \in open, Good(u)' PROVE HearingOf(u)'
  BY <1>1 DEF Hearing
<1>3. u \in VMs /\ HearingOf(u)
  BY <1>2, GoodBefore DEF Hearing
<1>4. \A q \in Keys : Watches(u, q) => Watches(u, q)'
  BY <1>3, WatchedOn
<1>5. ASSUME NEW q \in Keys, Watches(u, q)', ~Watches(u, q) PROVE u = w /\ q \in RecordedKeys(k, w)
  <2>1. u \in VMs
    BY <1>3
  <2>2. QED
    BY <1>5, <2>1, WatchedNew
<1>6. nodes[u] \subseteq nodes'[u]
  BY <1>1, <1>2, <1>3
<1>7. CASE u # w
  <2>1. otk'[u] = otk[u]
    BY <1>1, <1>2, <1>3, <1>7
  <2>2. \A q \in Keys : Watches(u, q)' => Watches(u, q)
    BY <1>5, <1>7
  <2>3. \A q \in otk'[u] : Watches(u, q)'
    BY <1>2, <1>3, <1>4, <2>1 DEF HearingOf
  <2>4. ASSUME NEW q \in Keys, Watches(u, q)'
        PROVE  Watches(u, Root(q))' /\ (Len(q) > 1 => TreePath(q) \subseteq nodes'[u])
    <3>1. Watches(u, Root(q)) /\ (Len(q) > 1 => TreePath(q) \subseteq nodes[u])
      BY <1>3, <2>2, <2>4 DEF HearingOf
    <3>2. Root(q) \in Keys
      BY KeyShape
    <3>3. QED
      BY <1>4, <1>6, <3>1, <3>2
  <2>5. QED
    BY <2>3, <2>4 DEF HearingOf
<1>8. CASE u = w
  <2>0. Root(k) \in Keys /\ Len(Root(k)) = 1 /\ Root(Root(k)) = Root(k)
    <3>1. Root(k) \in Keys /\ Len(Root(k)) = 1
      BY KeyShape
    <3>2. QED
      BY <3>1, KeyShape
  <2>1. ASSUME NEW q \in {k, Root(k)}, q = k \/ Records(k, w) PROVE Watches(w, q)'
    <3>0. q \in Keys
      BY <2>0
    <3>1. CASE Records(k, w) /\ Records(q, w)
      <4>1. q \in RecordedKeys(k, w)
        BY <3>1 DEF RecordedKeys
      <4>2. QED
        BY <1>3, <3>0, <4>1, WatchedOn
    <3>2. CASE ~Records(q, w)
      BY <1>4, <1>8, <3>0, <3>2, NotRecorded
    <3>3. QED
      BY <2>1, <3>1, <3>2
  <2>2. \A q \in otk'[u] : Watches(u, q)'
    <3>1. otk'[u] = otk[u] \cup {k}
      BY <1>1, <1>2, <1>3, <1>8
    <3>2. \A q \in otk[u] : Watches(u, q)'
      BY <1>2, <1>3, <1>4 DEF HearingOf
    <3>3. QED
      BY <1>8, <2>1, <3>1, <3>2
  <2>3. ASSUME NEW q \in Keys, Watches(u, q)'
        PROVE  Watches(u, Root(q))' /\ (Len(q) > 1 => TreePath(q) \subseteq nodes'[u])
    <3>1. CASE Watches(u, q)
      <4>1. Watches(u, Root(q)) /\ (Len(q) > 1 => TreePath(q) \subseteq nodes[u])
        BY <1>3, <3>1 DEF HearingOf
      <4>2. Root(q) \in Keys
        BY KeyShape
      <4>3. QED
        BY <1>4, <1>6, <4>1, <4>2
    <3>2. CASE ~Watches(u, q)
      <4>1. q \in {k, Root(k)} /\ Records(k, w)
        BY <1>5, <2>3, <3>2 DEF RecordedKeys
      <4>2. Root(q) = Root(k)
        BY <2>0, <4>1
      <4>3. Watches(u, Root(q))'
        BY <1>8, <2>1, <4>1, <4>2
      <4>4. Len(q) > 1 => q = k /\ Saves(w, k)
        <5>1. Len(q) > 1 => q # Root(k)
          BY RootShort
        <5>2. q = k /\ Len(q) > 1 => Saves(w, k)
          BY <4>1 DEF Saves
        <5>3. QED
          BY <4>1, <5>1, <5>2
      <4>5. Saves(w, k) => TreePath(k) \subseteq nodes'[u]
        BY <1>1, <1>2, <1>3, <1>8 DEF NewNodes
      <4>6. QED
        BY <4>3, <4>4, <4>5
    <3>3. QED
      BY <3>1, <3>2
  <2>4. QED
    BY <2>2, <2>3 DEF HearingOf
<1>9. QED
  BY <1>7, <1>8

LEMMA HearingLeave ==
    ASSUME Shape, Hearing, [Next]_vars, NEW w \in VMs,
           \/ \E k \in Keys : UnWatch(w, k) /\ ~(Fails("null key") \/ Fails("empty node"))
           \/ Close(w)
    PROVE  Hearing'
<1> DEFINE Leaves ==
             /\ open' \subseteq open
             /\ \E A, B : otk' = [otk EXCEPT ![w] = A] /\ nodes' = [nodes EXCEPT ![w] = B]
             /\ \A q \in Keys : key_observer'[q] = key_observer[q]
                                \/ key_observer'[q] = Forgets(key_observer[q], w)
<1>1. Leaves
  <2>1. ASSUME NEW k \in Keys, UnWatch(w, k), ~(Fails("null key") \/ Fails("empty node")) PROVE Leaves
    <3>1. /\ key_observer' = [key_observer EXCEPT ![k] = Forgets(key_observer[k], w)]
          /\ UNCHANGED <<open, otk>>
          /\ \E B : nodes' = [nodes EXCEPT ![w] = B]
      BY <2>1 DEF UnWatch
    <3>2. otk \in [VMs -> SUBSET Keys] /\ key_observer \in [Keys -> Lists(VMs) \cup {Null}]
      BY DEF Shape, TypeOK
    <3>3. otk' = [otk EXCEPT ![w] = otk[w]]
      BY <3>1, <3>2
    <3>4. QED
      BY <3>1, <3>2, <3>3
  <2>2. ASSUME Close(w) PROVE Leaves
    BY <2>2 DEF Close
  <2>3. QED
    BY <2>1, <2>2
<1>2. otk \in [VMs -> SUBSET Keys] /\ nodes \in [VMs -> SUBSET Keys] /\ open \subseteq VMs
  BY DEF Shape, TypeOK
<1> SUFFICES ASSUME NEW u \in open', Good(u)' PROVE HearingOf(u)'
  BY DEF Hearing
<1>3. u \in VMs /\ u \in open /\ HearingOf(u)
  BY <1>1, <1>2, GoodBefore DEF Hearing
<1>4. u # w
  <2>1. ASSUME NEW k \in Keys, UnWatch(w, k), ~(Fails("null key") \/ Fails("empty node")), u = w PROVE FALSE
    <3>1. hist' = [hist EXCEPT !.unwatched = @ \cup {w}]
      BY <2>1 DEF UnWatch
    <3>2. hist \in [{"unwatched", "refused", "doubled", "displaced", "grown", "missed"} -> SUBSET VMs]
      BY DEF Shape, TypeOK
    <3>3. QED
      BY <2>1, <3>1, <3>2 DEF Good
  <2>2. ASSUME Close(w), u = w PROVE FALSE
    BY <2>2 DEF Close
  <2>3. QED
    BY <2>1, <2>2
<1>5. otk'[u] = otk[u] /\ nodes'[u] = nodes[u]
  BY <1>1, <1>2, <1>3, <1>4
<1>6. ASSUME NEW q \in Keys PROVE Watches(u, q)' <=> Watches(u, q)
  <2>1. CASE key_observer'[q] = key_observer[q]
    BY <2>1 DEF Watches
  <2>2. CASE key_observer'[q] = Forgets(key_observer[q], w)
    <3>1. PICK m : m = Forgets(key_observer[q], w)
      OBVIOUS
    <3>2. Held(m) \subseteq Held(key_observer[q]) /\ Held(key_observer[q]) \ {w} \subseteq Held(m)
      BY <3>1, WatcherGone
    <3>3. QED
      BY <1>4, <2>2, <3>1, <3>2 DEF Watches
  <2>3. QED
    BY <1>1, <2>1, <2>2
<1>7. \A q \in Keys : Root(q) \in Keys
  BY KeyShape
<1>8. QED
  BY <1>2, <1>3, <1>5, <1>6, <1>7 DEF HearingOf

LEMMA HearingStep == Shape /\ Hearing /\ [Next]_vars => Hearing'
<1> SUFFICES ASSUME Shape, Hearing, [Next]_vars PROVE Hearing'
  OBVIOUS
<1>1. ASSUME UNCHANGED <<key_observer, open, otk, nodes>> PROVE Hearing'
  BY <1>1, GoodBefore DEF Hearing, HearingOf, Watches
<1>2. ASSUME NEW v \in VMs, NEW r \in Roots, Bind(v, r), ~Fails("null key") PROVE Hearing'
  BY <1>1, <1>2 DEF Bind
<1>3. CASE Inner
  BY <1>1, <1>3 DEF Inner, bindings, tables
<1>4. QED
  BY <1>2, <1>3, HearingWatch, HearingLeave, Kinds


\* The assignment finds the value of q when its walk comes to it.
Found(f, q) ==
    Below(f.key, q) /\ Front(q) \in f.holders /\ \A a \in f.altered : ~Below(a, q)

\* The walk has not come to q, nor to what is above q and not above where it is.
Ahead(f, q) ==
    /\ ~Leads(q, f.at)
    /\ \A r \in Keys : Below(f.key, r) /\ Leads(r, q) /\ ~Leads(r, f.at) => r \in f.todo

\* The VM is further on in the list.
Further(f, u) ==
    Watchers(f) # Null /\ \E j \in DOMAIN Watchers(f).arr : j > f.pos /\ Watchers(f).arr[j] = u

\* The function a VM had when the assignment began, and that it has not called
\* yet, is still to come: the VM is further on in the list, or it was just
\* called for the key itself, or the walk goes towards the key.
Due(f, u, q) ==
    /\ u \in open /\ q \in otk[u] /\ (q = f.key \/ Found(f, q))
    /\ \/ Further(f, u)
       \/ f.vm = u /\ f.stage = "key" /\ q # f.key
       \/ f.vm = u /\ f.stage = "tree" /\ Ahead(f, q)

\* A walk stays below the key, and was silent only below a value not found.
Tracks(f) ==
    /\ Leads(f.key, f.at) /\ \A k \in f.todo : Below(f.key, k)
    /\ f.nilAfter # << >> => Below(f.key, f.nilAfter) /\ FALSE \in MayFind(f, f.nilAfter)

DuesOf(f) ==
    /\ Len(f.key) > 1 /\ f.holders \in Values[f.key]
    /\ f.stage = "tree" /\ Good(f.vm) => Tracks(f)
    /\ \A u \in VMs, q \in Keys : <<u, q>> \in f.owed /\ Good(u) => Due(f, u, q)

UnderWay(f) == \E i \in DOMAIN frames : frames[i] = f

FrameInv == \A f \in Frames : UnderWay(f) => DuesOf(f)

\* A walk that has a key ahead has a next key.
LEMMA NextExists ==
    ASSUME NEW f \in Frames, Near(f) # {}
    PROVE  NextKeys(f) # {}
<1> DEFINE T == {Len(f.at) + 1 - Len(k) : k \in Near(f)}
<1>1. \A k \in Near(f) : k \in Keys /\ Len(k) \in Nat /\ Len(k) <= Len(f.at) + 1
  <2> TAKE k \in Near(f)
  <2>1. k \in Keys /\ Leads(Front(k), f.at) /\ f.at \in Keys
    BY DEF Near, Frames
  <2>2. Len(k) \in Nat /\ Len(f.at) \in Nat /\ Len(Front(k)) = Len(k) - 1 /\ Front(k) \in Seq(Names)
        /\ f.at \in Seq(Names)
    BY <2>1, KeyShape, FrontShape
  <2>3. Len(Front(k)) <= Len(f.at)
    BY <2>1, <2>2, LeadsOrder
  <2>4. QED
    BY <2>1, <2>2, <2>3
<1>2. Len(f.at) \in Nat
  BY KeyShape DEF Frames
<1>3. T \in SUBSET Nat /\ T # {}
  BY <1>1, <1>2
<1>4. PICK n \in T : \A m \in T : n <= m
  BY <1>3, LeastSlot
<1>5. PICK k \in Near(f) : n = Len(f.at) + 1 - Len(k)
  BY <1>4
<1>6. ASSUME NEW q \in Near(f) PROVE Len(q) <= Len(k)
  <2>1. n <= Len(f.at) + 1 - Len(q)
    BY <1>4
  <2>2. QED
    BY <1>1, <1>2, <1>5, <2>1
<1>7. QED
  BY <1>6 DEF NextKeys

\* The shortest key above q that the walk has not come to is near.
LEMMA WalkReaches ==
    ASSUME NEW f \in Frames, NEW q \in Keys, Leads(f.key, f.at), Below(f.key, q), Ahead(f, q),
           TreePath(q) \subseteq nodes[f.vm]
    PROVE  \E r \in Near(f) : Leads(r, q) /\ ~Leads(r, f.at)
<1> DEFINE R == {r \in Keys : Below(f.key, r) /\ Leads(r, q) /\ ~Leads(r, f.at)}
           T == {Len(r) : r \in R}
<1>1. f.key \in Keys /\ f.at \in Keys /\ f.key \in Seq(Names) /\ f.at \in Seq(Names) /\ q \in Seq(Names)
      /\ Len(f.key) \in Nat \ {0}
  BY KeyShape DEF Frames
<1>2. q \in R
  BY LeadsOrder, <1>1 DEF Ahead
<1>3. \A r \in R : r \in Seq(Names) /\ Len(r) \in Nat
  BY KeyShape
<1>4. T \in SUBSET Nat /\ T # {}
  BY <1>2, <1>3
<1>5. PICK n \in T : \A m \in T : n <= m
  BY <1>4, LeastSlot
<1>6. PICK r \in R : n = Len(r)
  BY <1>5
<1>7. r \in f.todo
  BY DEF Ahead
<1>8. r \in nodes[f.vm]
  <2>1. r = q \/ Below(r, q)
    BY <1>1, <1>3, LeadsOrder
  <2>2. QED
    BY <2>1, KeyShape, BelowRoot
<1>9. Leads(Front(r), f.at)
  <2>1. Leads(f.key, Front(r)) /\ Front(r) \in Seq(Names) /\ Len(Front(r)) = Len(r) - 1 /\ Leads(Front(r), r)
    BY <1>1, FrontShape
  <2>2. Len(f.key) < Len(r)
    BY DEF Below
  <2>3. Front(r) \in Keys
    BY <1>1, <1>3, <2>2, FrontShape
  <2>4. CASE Front(r) = f.key
    BY <2>4
  <2>5. CASE Front(r) # f.key
    <3>1. Below(f.key, Front(r)) /\ Leads(Front(r), q)
      BY <1>1, <1>3, <2>1, <2>5, LeadsOrder
    <3>2. ~Leads(Front(r), f.at) => Front(r) \in R
      BY <2>3, <3>1
    <3>3. Front(r) \notin R
      <4>1. Front(r) \in R => Len(Front(r)) \in T
        OBVIOUS
      <4>2. Len(Front(r)) \in T => n <= Len(Front(r))
        BY <1>5
      <4>3. Len(Front(r)) < n
        BY <1>3, <1>6, <2>1
      <4>4. n \in Nat /\ Len(Front(r)) \in Nat
        BY <1>3, <1>6, <2>1, LenProperties
      <4>5. QED
        BY <4>1, <4>2, <4>3, <4>4
    <3>4. QED
      BY <3>2, <3>3
  <2>6. QED
    BY <2>4, <2>5
<1>10. r \in Near(f)
  BY <1>7, <1>8, <1>9 DEF Near
<1>11. QED
  BY <1>10

\* A walk that comes to another key than q still goes towards q.
LEMMA StepAhead ==
    ASSUME NEW f \in Frames, NEW g \in Frames, NEW q \in Keys, NEW k \in NextKeys(f), q # k,
           g.key = f.key, g.todo = f.todo \ {k}, g.at = k,
           Leads(f.key, f.at), Below(f.key, q), Ahead(f, q), TreePath(q) \subseteq nodes[f.vm]
    PROVE  Ahead(g, q)
<1>1. /\ k \in Keys /\ k \in f.todo /\ Leads(Front(k), f.at) /\ \A p \in Near(f) : Len(p) <= Len(k)
  BY DEF NextKeys, Near, Frames
<1>2. /\ f.at \in Keys /\ f.at \in Seq(Names) /\ q \in Seq(Names) /\ k \in Seq(Names)
      /\ Front(k) \in Seq(Names) /\ Len(Front(k)) = Len(k) - 1 /\ Len(k) \in Nat \ {0}
      /\ Leads(Front(k), k)
  BY <1>1, KeyShape, FrontShape DEF Frames
<1>3. ~Leads(q, k)
  <2> SUFFICES ASSUME Leads(q, k) PROVE FALSE
    OBVIOUS
  <2>1. Below(q, k)
    BY <1>2, LeadsOrder
  <2>2. Leads(q, Front(k))
    BY <1>1, <1>2, <2>1, FrontShape
  <2>3. Leads(q, f.at)
    BY <1>1, <1>2, <2>2, LeadsOrder
  <2>4. QED
    BY <2>3 DEF Ahead
<1>4. ASSUME NEW r \in Keys, Below(f.key, r), Leads(r, q), ~Leads(r, k) PROVE r \in f.todo \ {k}
  <2>1. r # k /\ r \in Seq(Names)
    BY <1>2, <1>4, KeyShape DEF Leads
  <2>2. CASE ~Leads(r, f.at)
    BY <1>4, <2>1, <2>2 DEF Ahead
  <2>3. CASE Leads(r, f.at)
    <3>1. ~Leads(r, Front(k))
      BY <1>2, <1>4, <2>1, LeadsOrder
    <3>2. Len(Front(k)) < Len(r)
      <4>1. ~(Len(r) <= Len(Front(k)))
        BY <1>1, <1>2, <2>1, <2>3, <3>1, LeadsOrder
      <4>2. Len(r) \in Nat /\ Len(Front(k)) \in Nat
        BY <1>2, <2>1, LeadsOrder
      <4>3. QED
        BY <4>1, <4>2
    <3>3. PICK p \in Near(f) : Leads(p, q) /\ ~Leads(p, f.at)
      BY WalkReaches
    <3>4. p \in Keys /\ p \in Seq(Names) /\ Len(p) <= Len(k)
      BY <1>1, <3>3, KeyShape DEF Near, Frames
    <3>5. ~Leads(p, r)
      BY <1>2, <2>1, <2>3, <3>3, <3>4, LeadsOrder
    <3>6. ~(Len(p) <= Len(r))
      BY <1>2, <1>4, <2>1, <3>3, <3>4, <3>5, LeadsOrder
    <3>7. Len(p) \in Nat /\ Len(r) \in Nat
      BY <2>1, <3>4, LeadsOrder
    <3>8. QED
      BY <1>2, <3>2, <3>4, <3>6, <3>7
  <2>4. QED
    BY <2>2, <2>3
<1>5. QED
  BY <1>3, <1>4 DEF Ahead

\* A function whose value is found is not silent.
LEMMA NotSilent ==
    ASSUME NEW f \in Frames, NEW q \in Keys, f.holders \in Values[f.key], Tracks(f), Found(f, q)
    PROVE  ~StartsWith(q, f.nilAfter) /\ FALSE \notin MayFind(f, q)
<1>1. FALSE \notin MayFind(f, q)
  BY DEF MayFind, Found
<1>2. ASSUME StartsWith(q, f.nilAfter) PROVE FALSE
  <2>1. PICK n \in Keys : n = f.nilAfter
    BY <1>2 DEF StartsWith, Frames
  <2>2. /\ Len(n) <= Len(q) /\ Leads(Front(n), q)
        /\ Below(f.key, n) /\ FALSE \in MayFind(f, n)
    BY <1>2, <2>1 DEF StartsWith, Tracks
  <2>3. /\ f.key \in Keys /\ f.key \in Seq(Names) /\ n \in Seq(Names) /\ q \in Seq(Names)
        /\ Len(n) \in Nat \ {0} /\ Len(q) \in Nat \ {0} /\ Len(f.key) \in Nat \ {0}
    BY KeyShape DEF Frames
  <2>4. /\ Front(n) \in Seq(Names) /\ Len(Front(n)) = Len(n) - 1 /\ Leads(f.key, Front(n))
        /\ Front(q) \in Seq(Names) /\ Len(Front(q)) = Len(q) - 1 /\ Leads(Front(q), q)
    BY <2>2, <2>3, FrontShape
  <2>5. Leads(Front(n), Front(q))
    <3>1. Len(Front(n)) <= Len(Front(q))
      BY <2>2, <2>3, <2>4
    <3>2. QED
      BY <2>2, <2>3, <2>4, <3>1, LeadsOrder
  <2>6. Front(n) \in Keys
    <3>1. Len(f.key) < Len(n)
      BY <2>2 DEF Below
    <3>2. QED
      BY <2>3, <3>1, FrontShape
  <2>7. Front(n) \in f.holders
    <3>1. Front(q) \in f.holders
      BY DEF Found
    <3>2. \A p \in f.holders, r \in Keys : Leads(f.key, r) /\ Leads(r, p) => r \in f.holders
      BY <2>3 DEF Values
    <3>3. QED
      BY <2>4, <2>5, <2>6, <3>1, <3>2
  <2>8. PICK a \in f.altered : Below(a, n)
    BY <2>2, <2>7 DEF MayFind
  <2>9. a \in Keys /\ a \in Seq(Names)
    BY KeyShape DEF Frames
  <2>10. Leads(a, Front(n)) /\ Leads(a, q) /\ Len(a) < Len(n)
    <3>1. Leads(a, Front(n)) /\ Len(a) < Len(n)
      BY <2>8, <2>9, FrontShape DEF Below
    <3>2. QED
      BY <2>2, <2>3, <2>4, <2>9, <3>1, LeadsOrder
  <2>11. Below(a, q)
    <3>1. Len(a) < Len(q) /\ Len(a) \in Nat
      BY <2>2, <2>3, <2>9, <2>10, LeadsOrder
    <3>2. QED
      BY <2>3, <2>9, <2>10, <3>1, LeadsOrder
  <2>12. QED
    BY <2>11 DEF Found
<1>3. QED
  BY <1>1, <1>2

\* The nodes on the way to a key a VM watches are there.
LEMMA PathThere ==
    ASSUME Hearing, NEW u \in open, Good(u), NEW q \in Keys, q \in otk[u], Len(q) > 1
    PROVE  TreePath(q) \subseteq nodes[u]
BY DEF Hearing, HearingOf

\* The node above where a walk is did not grow when the walk was not disturbed.
LEMMA GrownHere ==
    ASSUME NEW f \in Frames, NEW v \in VMs, NEW grown, Walks(f, v), ~WalkGrown(f, v, grown),
           Leads(f.key, f.at)
    PROVE  Front(f.at) \notin grown
<1>1. /\ f.key \in Keys /\ f.at \in Keys /\ f.key \in Seq(Names) /\ f.at \in Seq(Names)
      /\ Len(f.key) \in Nat \ {0} /\ Len(f.at) \in Nat \ {0}
  BY KeyShape DEF Frames
<1>2. Len(f.key) <= Len(f.at)
  BY <1>1, LeadsOrder
<1>3. Front(f.at) \in Seq(Names) /\ Len(Front(f.at)) = Len(f.at) - 1
  BY <1>1, FrontShape
<1>4. Len(Front(f.at)) >= Len(f.key) - 1
  BY <1>1, <1>2, <1>3
<1>5. Leads(Front(f.at), Front(f.at))
  BY DEF Leads
<1>6. Reads(f, Front(f.at))
  BY <1>4, <1>5 DEF Reads
<1>7. QED
  BY <1>6 DEF WalkGrown

LEMMA Shorter == \A x, y, z, n \in Nat : x <= n /\ n = y - 1 /\ y <= z => x # z
OBVIOUS

\* A watch in a function disturbs no walk of a VM none of whose walked nodes
\* grows: what is new is not on the way to a key that was watched.
LEMMA WatchAhead ==
    ASSUME Shape, Hearing, NEW f \in Frames, NEW g \in Frames, NEW v \in VMs, NEW k \in Keys,
           NEW q \in Keys, NEW grown, v \in open, Good(v), Walks(f, v), ~WalkGrown(f, v, grown),
           Leads(f.key, f.at), g.key = f.key, g.at = f.at,
           f.todo \ Unsure(f, v, NewNodes(v, k), grown) \subseteq g.todo,
           q \in otk[v], Below(f.key, q), Ahead(f, q)
    PROVE  Ahead(g, q)
<1>1. /\ f.key \in Keys /\ f.at \in Keys /\ f.key \in Seq(Names) /\ f.at \in Seq(Names) /\ q \in Seq(Names)
      /\ Len(f.key) \in Nat \ {0} /\ Len(f.at) \in Nat \ {0}
  BY KeyShape DEF Frames
<1>2. Front(f.at) \notin grown
  BY GrownHere
<1>3. ASSUME NEW r \in Keys, Below(f.key, r), Leads(r, q), ~Leads(r, f.at) PROVE r \in g.todo
  <2>1. r \in f.todo
    BY <1>3 DEF Ahead
  <2>2. ASSUME NEW m \in NewNodes(v, k), Leads(m, r) PROVE FALSE
    <3>1. m \in Keys /\ m \notin nodes[v]
      BY KeyShape DEF NewNodes
    <3>2. m \in Seq(Names) /\ r \in Seq(Names)
      BY <3>1, KeyShape
    <3>3. Leads(m, q)
      BY <1>1, <1>3, <2>2, <3>2, LeadsOrder
    <3>4. m = q \/ Below(m, q)
      BY <1>1, <3>2, <3>3, LeadsOrder
    <3>5. m \in TreePath(q)
      BY <3>1, <3>4, KeyShape, BelowRoot
    <3>6. Len(q) > 1
      BY <1>1, BelowRoot
    <3>7. QED
      BY <3>1, <3>5, <3>6, PathThere
  <2>3. r \notin Unsure(f, v, NewNodes(v, k), grown)
    BY <1>2, <2>2 DEF Unsure
  <2>4. QED
    BY <2>1, <2>3
<1>4. QED
  BY <1>3 DEF Ahead

\* What operations called in a function leave of what is due.
LEMMA FurtherKept ==
    ASSUME Shape, [Next]_vars, NEW f \in Frames, UnderWay(f), NEW u \in VMs, u \in open, Good(u)'
    PROVE  u \in open' /\ otk[u] \subseteq otk'[u] /\ (Further(f, u) => Further(f, u)')
<1> DEFINE r == Root(f.key)
           Kept == u \in open' /\ otk[u] \subseteq otk'[u] /\ (Further(f, u) => Further(f, u)')
<1>1. r \in Keys
  BY KeyShape DEF Frames
<1>2. /\ open \subseteq VMs /\ otk \in [VMs -> SUBSET Keys]
      /\ key_observer \in [Keys -> Lists(VMs) \cup {Null}] /\ Null \notin VMs
      /\ hist \in [{"unwatched", "refused", "doubled", "displaced", "grown", "missed"} -> SUBSET VMs]
  BY DataBindConstants DEF Shape, TypeOK
<1>3. Watchers(f) = key_observer[r] /\ Watchers(f)' = key_observer'[r]
  BY DEF Watchers
<1> HIDE DEF r
\* It is enough that the VM and its slot stay.
<1>4. ASSUME u \in open', otk[u] \subseteq otk'[u],
             \A j \in DOMAIN key_observer[r].arr :
                key_observer[r] # Null /\ key_observer[r].arr[j] = u
                   => key_observer'[r] # Null /\ j \in DOMAIN key_observer'[r].arr
                      /\ key_observer'[r].arr[j] = u
      PROVE  Kept
  BY <1>3, <1>4 DEF Further
<1> SUFFICES Kept
  OBVIOUS
<1> HIDE DEF Kept
<1>5. u \in open
  OBVIOUS
<1>6. CASE UNCHANGED <<open, otk, key_observer>>
  BY <1>4, <1>5, <1>6
<1>7. ASSUME NEW v \in VMs, NEW p \in Roots, Bind(v, p), ~Fails("null key") PROVE Kept
  BY <1>6, <1>7 DEF Bind
<1>8. CASE Inner
  BY <1>6, <1>8 DEF Inner, bindings, tables
<1>9. ASSUME NEW v \in VMs, Close(v) PROVE Kept
  <2>1. frames = << >>
    BY <1>9 DEF Close, Idle
  <2>2. DOMAIN frames = {}
    BY <2>1
  <2>3. QED
    BY <2>2 DEF UnderWay
<1>10. ASSUME NEW v \in VMs, NEW k \in Keys, UnWatch(v, k), ~(Fails("null key") \/ Fails("empty node"))
       PROVE  Kept
  <2>1. /\ key_observer' = [key_observer EXCEPT ![k] = Forgets(key_observer[k], v)]
        /\ hist' = [hist EXCEPT !.unwatched = @ \cup {v}]
        /\ UNCHANGED <<open, otk>>
    BY <1>10 DEF UnWatch
  <2>2. u # v
    BY <1>2, <2>1 DEF Good
  <2>3. CASE r = k
    <3>1. PICK m : m = Forgets(key_observer[k], v)
      OBVIOUS
    <3>2. key_observer'[r] = m
      BY <1>1, <1>2, <2>1, <2>3, <3>1
    <3>3. key_observer[k] # Null => \A j \in DOMAIN key_observer[k].arr :
             key_observer[k].arr[j] \in VMs \ {v} =>
                m # Null /\ j \in DOMAIN m.arr /\ m.arr[j] = key_observer[k].arr[j]
      BY <3>1, WatcherGone
    <3>4. QED
      BY <1>4, <1>5, <2>1, <2>2, <2>3, <3>2, <3>3
  <2>4. CASE r # k
    <3>1. key_observer'[r] = key_observer[r]
      BY <1>1, <1>2, <2>1, <2>4
    <3>2. QED
      BY <1>4, <1>5, <2>1, <3>1
  <2>5. QED
    BY <2>3, <2>4
<1>11. ASSUME NEW v \in VMs, NEW k \in Keys, NEW params \in BOOLEAN, Watch(v, k, params), ~Fails("null key") PROVE Kept
  <2> DEFINE added == RecordedKeys(k, v)
  <2>1. /\ key_observer' = [p \in Keys |-> IF p \in added THEN Recorded(p, v) ELSE key_observer[p]]
        /\ otk' = [otk EXCEPT ![v] = @ \cup {k}]
        /\ UNCHANGED open
    BY <1>11 DEF Watch
  <2>2. hist'.displaced = hist.displaced \cup UNION {Displaced(p) : p \in added}
    BY <1>11, WatchHist
  <2>3. otk[u] \subseteq otk'[u] /\ u \in open'
    BY <1>2, <1>5, <2>1
  <2>4. \A p \in added : Records(p, v)
    BY DEF RecordedKeys
  <2> HIDE DEF added
  <2>5. CASE r \notin added
    <3>1. key_observer'[r] = key_observer[r]
      BY <1>1, <2>1, <2>5
    <3>2. QED
      BY <1>4, <2>3, <3>1
  <2>6. CASE r \in added /\ key_observer[r] # Null /\ Relists(key_observer[r])
    <3>1. Displaced(r) = InUse(key_observer[r])
      BY <2>6 DEF Displaced, UnderWay, r
    <3>2. u \notin InUse(key_observer[r])
      BY <2>2, <2>6, <3>1 DEF Good
    <3>3. \A j \in DOMAIN key_observer[r].arr : key_observer[r].arr[j] # u
      BY <1>2, <3>2 DEF InUse
    <3>4. QED
      BY <1>4, <2>3, <3>3
  <2>7. CASE r \in added /\ key_observer[r] # Null /\ ~Relists(key_observer[r])
    <3>1. PICK m : m = Recorded(r, v)
      OBVIOUS
    <3>2. key_observer'[r] = m /\ Records(r, v)
      BY <1>1, <2>1, <2>4, <2>7, <3>1
    <3>3. /\ m # Null
          /\ \A i \in DOMAIN key_observer[r].arr : i \in DOMAIN m.arr /\ m.arr[i] = key_observer[r].arr[i]
      BY <1>1, <2>7, <3>1, <3>2, RecordedList
    <3>4. QED
      BY <1>4, <2>3, <3>2, <3>3
  <2>8. CASE key_observer[r] = Null
    BY <1>4, <2>3, <2>8
  <2>9. QED
    BY <2>5, <2>6, <2>7, <2>8
<1>12. QED
  BY <1>7, <1>8, <1>9, <1>10, <1>11, Kinds

\* An assignment keeps its dues when no less is ahead of its walk, and what it
\* owes has no value below a key assigned to.
LEMMA DuesKept ==
    ASSUME Shape, FrameInv, [Next]_vars, NEW f \in Frames, UnderWay(f), NEW g \in Frames,
           g.key = f.key, g.holders = f.holders, g.pos = f.pos, g.vm = f.vm, g.stage = f.stage,
           g.at = f.at, g.nilAfter = f.nilAfter, g.owed \subseteq f.owed,
           \/ g.altered = f.altered
           \/ \E k \in Keys : g.altered = f.altered \cup {k} /\ \A w \in g.owed : ~Below(k, w[2]),
           f.stage = "tree" /\ Good(f.vm)' /\ Tracks(f) =>
              /\ \A k \in g.todo : Below(f.key, k)
              /\ \A q \in Keys : f.vm \in open /\ q \in otk[f.vm] /\ Below(f.key, q) /\ Ahead(f, q) => Ahead(g, q)
    PROVE  DuesOf(g)'
<1>1. DuesOf(f)
  BY DEF FrameInv
<1>2. Len(g.key) > 1 /\ g.holders \in Values[g.key]
  BY <1>1 DEF DuesOf
<1>3. f.stage = "tree" /\ Good(f.vm)' => Tracks(f)
  BY <1>1, GoodBefore DEF DuesOf
<1>4. ASSUME NEW n, FALSE \in MayFind(f, n) PROVE FALSE \in MayFind(g, n)
  <2>1. f.altered \subseteq g.altered
    OBVIOUS
  <2>2. CASE \E a \in g.altered : Below(a, n)
    BY <2>2 DEF MayFind
  <2>3. CASE ~\E a \in g.altered : Below(a, n)
    BY <1>4, <2>1, <2>3 DEF MayFind
  <2>4. QED
    BY <2>2, <2>3
<1>5. g.stage = "tree" /\ Good(g.vm)' => Tracks(g)
  BY <1>3, <1>4 DEF Tracks
<1>6. ASSUME NEW u \in VMs, NEW q \in Keys, <<u, q>> \in g.owed, Good(u)'
      PROVE  /\ u \in open' /\ q \in otk'[u] /\ (q = g.key \/ Found(g, q))
             /\ \/ Further(f, u)'
                \/ g.vm = u /\ g.stage = "key" /\ q # g.key
                \/ g.vm = u /\ g.stage = "tree" /\ Ahead(g, q)
  <2>1. Due(f, u, q)
    BY <1>1, <1>6, GoodBefore DEF DuesOf
  <2>2. u \in open /\ q \in otk[u] /\ (q = f.key \/ Found(f, q))
    BY <2>1 DEF Due
  <2>3. u \in open' /\ otk[u] \subseteq otk'[u] /\ (Further(f, u) => Further(f, u)')
    BY <1>6, <2>2, FurtherKept
  <2>4. q = g.key \/ Found(g, q)
    <3>1. \A a \in g.altered : a \in f.altered \/ ~Below(a, q)
      BY <1>6
    <3>2. QED
      BY <2>2, <3>1 DEF Found
  <2>5. CASE f.vm = u /\ f.stage = "tree" /\ Ahead(f, q)
    <3>1. Tracks(f)
      BY <1>3, <1>6, <2>5
    <3>2. q # f.key
      BY <2>5, <3>1 DEF Tracks, Ahead
    <3>3. Below(f.key, q)
      BY <2>2, <3>2 DEF Found
    <3>4. Ahead(g, q)
      BY <1>6, <2>2, <2>5, <3>1, <3>3
    <3>5. QED
      BY <2>2, <2>3, <2>4, <2>5, <3>4
  <2>6. CASE f.vm = u /\ f.stage = "key" /\ q # f.key
    BY <2>2, <2>3, <2>4, <2>6
  <2>7. CASE Further(f, u)
    BY <2>2, <2>3, <2>4, <2>7
  <2>8. QED
    BY <2>1, <2>5, <2>6, <2>7 DEF Due
<1>7. \A u : Further(f, u)' => Further(g, u)'
  BY DEF Further, Watchers
<1>8. ASSUME NEW u \in VMs, NEW q \in Keys, <<u, q>> \in g.owed, Good(u)' PROVE Due(g, u, q)'
  BY <1>6, <1>7, <1>8 DEF Due, Found, Ahead
<1>9. (g.stage = "tree" /\ Good(g.vm) => Tracks(g))'
  BY <1>5 DEF Tracks, MayFind
<1>10. QED
  BY <1>2, <1>8, <1>9 DEF DuesOf, Values

LEMMA AssignDues ==
    ASSUME Shape, Hearing, FrameInv, [Next]_vars, NEW k \in Keys, NEW holders \in Values[k],
           Assign(k, holders), Len(k) > 1, calls' \in 0 .. MaxCalls
    PROVE  FrameInv'
<1>1. /\ frames'[1] = Assignment(k, holders) /\ DOMAIN frames' = 1 .. Len(frames) + 1
      /\ \A j \in 2 .. Len(frames) + 1 :
            j - 1 \in DOMAIN frames /\ frames'[j] = Altered(frames[j - 1], k) /\ frames[j - 1] \in Frames
      /\ Len(frames) \in Nat
  BY AssignShape, LenProperties DEF Shape, TypeOK
<1>2. UNCHANGED <<bindings, open, tables, hist>>
  BY DEF Assign
<1> SUFFICES ASSUME NEW g \in Frames, UnderWay(g)' PROVE DuesOf(g)'
  BY DEF FrameInv
<1>3. CASE g = Assignment(k, holders)
  <2>1. /\ g.key = k /\ g.holders = holders /\ g.pos = 0 /\ g.owed = Owed(k, holders)
        /\ g.altered = {} /\ g.stage = "list"
    BY <1>3 DEF Assignment
  <2>2. ASSUME NEW u \in VMs, NEW q \in Keys, <<u, q>> \in g.owed, Good(u)'
        PROVE  Due(g, u, q)'
    <3>1. /\ u \in open /\ q \in otk[u] /\ (q = k \/ (Below(k, q) /\ Front(q) \in holders))
      BY <2>1, <2>2 DEF Owed
    <3>2. Watches(u, q) /\ Watches(u, Root(q))
      BY <2>2, <3>1, GoodBefore DEF Hearing, HearingOf
    <3>3. Root(q) = Root(k) /\ Root(k) \in Keys
      BY <3>1, BelowRoot, KeyShape
    <3>4. key_observer[Root(k)] # Null /\ u \in InUse(key_observer[Root(k)])
      BY <3>2, <3>3 DEF Watches, Held
    <3>5. PICK j \in DOMAIN key_observer[Root(k)].arr : key_observer[Root(k)].arr[j] = u
      BY <3>4 DEF InUse
    <3>6. j > 0
      <4>1. key_observer[Root(k)] \in Lists(VMs)
        BY <3>3, <3>4 DEF Shape, TypeOK
      <4>2. DOMAIN key_observer[Root(k)].arr = 1 .. Len(key_observer[Root(k)].arr)
        BY <4>1, ListShape
      <4>3. QED
        BY <4>2
    <3>7. Further(g, u)
      BY <2>1, <3>4, <3>5, <3>6 DEF Further, Watchers
    <3>8. q = g.key \/ Found(g, q)
      BY <2>1, <3>1 DEF Found
    <3>9. QED
      BY <1>2, <3>1, <3>7, <3>8 DEF Due, Further, Watchers, Found, bindings, tables
  <2>3. Len(g.key) > 1 /\ g.holders \in Values[g.key]
    BY <2>1
  <2>4. QED
    BY <2>1, <2>2, <2>3 DEF DuesOf, Values
<1>4. CASE g # Assignment(k, holders)
  <2>1. PICK i \in DOMAIN frames' : frames'[i] = g
    BY DEF UnderWay
  <2>2. i \in 2 .. Len(frames) + 1
    BY <1>1, <1>4, <2>1
  <2>3. PICK f \in Frames : f = frames[i - 1]
    BY <1>1, <2>2
  <2>4. UnderWay(f) /\ g = Altered(f, k)
    BY <1>1, <2>1, <2>2, <2>3 DEF UnderWay
  <2>5. /\ g.key = f.key /\ g.holders = f.holders /\ g.pos = f.pos
        /\ g.vm = f.vm /\ g.stage = f.stage /\ g.at = f.at
        /\ g.todo = f.todo /\ g.nilAfter = f.nilAfter
        /\ \/ g.altered = f.altered /\ g.owed = f.owed
           \/ g.altered = f.altered \cup {k} /\ g.owed = {w \in f.owed : ~Below(k, w[2])}
    BY <2>4, AlteredShape
  <2>6. /\ g.owed \subseteq f.owed
        /\ \/ g.altered = f.altered
           \/ \E p \in Keys : g.altered = f.altered \cup {p} /\ \A w \in g.owed : ~Below(p, w[2])
    BY <2>5
  <2>7. \A q : Ahead(f, q) => Ahead(g, q)
    BY <2>5 DEF Ahead
  <2>8. Tracks(f) => \A p \in g.todo : Below(f.key, p)
    BY <2>5 DEF Tracks
  <2>9. QED
    BY <2>4, <2>5, <2>6, <2>7, <2>8, DuesKept
<1>5. QED
  BY <1>3, <1>4

\* An assignment that goes on as it was keeps its dues.
LEMMA DuesSame ==
    ASSUME Shape, FrameInv, [Next]_vars, NEW f \in Frames, UnderWay(f), NEW g \in Frames,
           g.key = f.key, g.holders = f.holders, g.pos = f.pos, g.vm = f.vm, g.stage = f.stage,
           g.at = f.at, g.nilAfter = f.nilAfter, g.owed = f.owed, g.altered = f.altered, g.todo = f.todo
    PROVE  DuesOf(g)'
<1>1. \A q : Ahead(f, q) => Ahead(g, q)
  BY DEF Ahead
<1>2. Tracks(f) => \A p \in g.todo : Below(f.key, p)
  BY DEF Tracks
<1>3. QED
  BY <1>1, <1>2, DuesKept

\* A step inside the innermost assignment leaves the others.
LEMMA TopDues ==
    ASSUME Shape, FrameInv, [Next]_vars, ~Idle, NEW g \in Frames, SetTop(g), DuesOf(g)'
    PROVE  FrameInv'
<1>1. /\ DOMAIN frames' = DOMAIN frames /\ frames'[1] = g
      /\ \A j \in DOMAIN frames \ {1} : frames'[j] = frames[j]
  BY TopSet DEF Shape
<1> SUFFICES ASSUME NEW f \in Frames, UnderWay(f)' PROVE DuesOf(f)'
  BY DEF FrameInv
<1>2. PICK i \in DOMAIN frames' : frames'[i] = f
  BY DEF UnderWay
<1>3. CASE i = 1
  BY <1>1, <1>2, <1>3
<1>4. CASE i # 1
  <2>1. UnderWay(f)
    BY <1>1, <1>2, <1>4 DEF UnderWay
  <2>2. QED
    BY <2>1, DuesSame
<1>5. QED
  BY <1>3, <1>4

LEMMA VisitDues ==
    ASSUME Shape, FrameInv, [Next]_vars, Visit, ~Fails("closed VM")
    PROVE  FrameInv'
<1>1. PICK i \in DOMAIN Watchers(Top).arr, f \in Frames :
              /\ ~Idle /\ Top.stage = "list"
              /\ Watchers(Top) \in Lists(VMs) /\ Watchers(Top) # Null
              /\ i \in Nat /\ i > Top.pos
              /\ \A j \in LeftToVisit(Top) : i <= j
              /\ SetTop(f) /\ UNCHANGED <<bindings, open, tables, fault, calls, hist>>
              /\ f.key = Top.key /\ f.holders = Top.holders /\ f.altered = Top.altered /\ f.pos = i
              /\ f.vm = Watchers(Top).arr[i] /\ f.stage = "key"
              /\ f.owed = IF Top.key \in otk[f.vm] THEN Top.owed \ {<<f.vm, Top.key>>} ELSE Top.owed
  BY VisitedShape
<1>2. PICK t \in Frames : t = Top /\ UnderWay(t)
  BY <1>1, TopShape DEF Shape, UnderWay, Top
<1>3. DuesOf(t)
  BY <1>2 DEF FrameInv
<1>4. Watchers(f) = Watchers(Top)
  BY <1>1 DEF Watchers
<1>5. ASSUME NEW u \in VMs, NEW q \in Keys, <<u, q>> \in f.owed, Good(u)
      PROVE  Due(f, u, q)
  <2>1. <<u, q>> \in t.owed
    BY <1>1, <1>2, <1>5
  <2>2. Due(t, u, q)
    BY <1>3, <1>5, <2>1 DEF DuesOf
  <2>3. PICK j \in DOMAIN Watchers(Top).arr : j > Top.pos /\ Watchers(Top).arr[j] = u
    BY <1>1, <1>2, <2>2 DEF Due, Further
  <2>4. j \in Nat /\ i <= j
    <3>2. u # Null
      BY DataBindConstants
    <3>3. j \in LeftToVisit(Top)
      BY <1>1, <2>3, <3>2 DEF LeftToVisit
    <3>4. i <= j
      BY <1>1, <3>3
    <3>5. j \in Nat
      BY <1>1, <2>3, SlotNumbers
    <3>6. QED
      BY <3>4, <3>5
  <2>5. u \in open /\ q \in otk[u] /\ (q = f.key \/ Found(f, q))
    BY <1>1, <1>2, <2>2 DEF Due, Found
  <2>6. CASE j = i
    <3>1. f.vm = u
      BY <1>1, <2>3, <2>6
    <3>2. q # f.key
      BY <1>1, <1>5, <2>5, <3>1
    <3>3. QED
      BY <1>1, <2>5, <3>1, <3>2 DEF Due
  <2>7. CASE j # i
    <3>1. j > i
      BY <1>1, <2>4, <2>7, Later
    <3>2. j > f.pos
      BY <1>1, <3>1
    <3>3. Further(f, u)
      BY <1>1, <1>4, <2>3, <3>2 DEF Further
    <3>4. QED
      BY <2>5, <3>3 DEF Due
  <2>8. QED
    BY <2>6, <2>7
<1>6. DuesOf(f)
  <2>1. Len(f.key) > 1 /\ f.holders \in Values[f.key] /\ f.stage # "tree"
    BY <1>1, <1>2, <1>3 DEF DuesOf
  <2>2. QED
    BY <1>5, <2>1 DEF DuesOf
<1>7. DuesOf(f)'
  <2>1. UNCHANGED <<bindings, open, tables, hist>>
    BY <1>1
  <2>2. QED
    BY <1>6, <2>1 DEF DuesOf, Due, Good, Tracks, Further, Found, Ahead, Values, MayFind, Watchers, bindings, tables
<1>8. QED
  BY <1>1, <1>7, TopDues

\* What a step inside an assignment leaves of the walk.
LEMMA TracksOn ==
    ASSUME NEW t \in Frames, t = Top, NEW f \in Frames, Onward(f), f.stage = "tree", Good(f.vm),
           Finds(f) \/ Rests(f) \/ \E k \in Keys : Steps(f, k), DuesOf(t)
    PROVE  Tracks(f)
<1>1. /\ f.key = t.key /\ f.holders = t.holders /\ f.altered = t.altered /\ f.vm = t.vm
      /\ \A n : MayFind(f, n) = MayFind(t, n)
  BY DEF Onward, MayFind
<1>2. t.stage = "tree" => Tracks(t)
  BY <1>1 DEF DuesOf
<1>3. CASE Finds(f)
  <2>1. f.todo = BelowTop /\ f.at = t.key /\ f.nilAfter = << >>
    BY <1>3 DEF Finds
  <2>2. QED
    BY <1>1, <2>1 DEF Tracks, BelowTop, Leads
<1>4. CASE Rests(f)
  BY <1>1, <1>2, <1>4 DEF Rests, Tracks
<1>5. ASSUME NEW k \in Keys, Steps(f, k) PROVE Tracks(f)
  <2>1. /\ Tracks(t) /\ f.todo = t.todo \ {k} /\ f.at = k /\ k \in t.todo
        /\ f.nilAfter = t.nilAfter \/ (f.nilAfter = k /\ FALSE \in MayFind(t, k))
    BY <1>2, <1>5 DEF Steps, NextKeys, Near
  <2>2. Below(f.key, k)
    BY <1>1, <2>1 DEF Tracks
  <2>3. QED
    BY <1>1, <2>1, <2>2 DEF Tracks, Leads
<1>6. QED
  BY <1>3, <1>4, <1>5

LEMMA OnwardDues ==
    ASSUME Shape, Hearing, FrameInv, [Next]_vars, ~Idle, NEW f \in Frames, GoesOn(f)
    PROVE  FrameInv'
<1>1. /\ SetTop(f) /\ UNCHANGED <<bindings, open, tables, fault, calls, hist>>
      /\ Onward(f) /\ (Finds(f) \/ Rests(f) \/ \E k \in Keys : Steps(f, k))
  BY DEF GoesOn
<1>2. PICK t \in Frames : t = Top /\ UnderWay(t)
  BY TopShape DEF Shape, UnderWay, Top
<1>3. DuesOf(t)
  BY <1>2 DEF FrameInv
<1>4. /\ f.key = t.key /\ f.holders = t.holders /\ f.altered = t.altered /\ f.pos = t.pos /\ f.vm = t.vm
      /\ f.key \in Keys
  BY <1>1, <1>2 DEF Onward, Frames
<1>5. ASSUME NEW u \in VMs, NEW q \in Keys, <<u, q>> \in f.owed, Good(u)
      PROVE  Due(f, u, q)
  <2>1. <<u, q>> \in t.owed
    BY <1>1, <1>2, <1>5 DEF Finds, Rests, Steps
  <2>2. Due(t, u, q)
    BY <1>3, <1>5, <2>1 DEF DuesOf
  <2>3. u \in open /\ q \in otk[u] /\ (q = t.key \/ Found(t, q))
    BY <2>2 DEF Due
  <2>4. q = f.key \/ Found(f, q)
    BY <1>4, <2>3 DEF Found
  <2>5. Below(t.key, q) => TreePath(q) \subseteq nodes[u] /\ t.key \in TreePath(q)
    BY <1>4, <1>5, <2>3, BelowRoot, PathThere
  <2>6. CASE Further(t, u)
    <3>1. Further(f, u)
      BY <1>4, <2>6 DEF Further, Watchers
    <3>2. QED
      BY <2>3, <2>4, <3>1 DEF Due
  <2>7. CASE t.vm = u /\ t.stage = "key" /\ q # t.key
    <3>1. Below(t.key, q) /\ t.key \in nodes[t.vm]
      BY <2>3, <2>5, <2>7 DEF Found
    <3>2. CASE Finds(f)
      <4>1. f.stage = "tree" /\ f.todo = BelowTop /\ f.at = t.key
        BY <1>2, <3>1, <3>2 DEF Finds
      <4>2. ~Leads(q, t.key)
        <5>1. q \in Seq(Names) /\ t.key \in Seq(Names)
          BY <1>4, KeyShape
        <5>2. Len(t.key) < Len(q) /\ Len(t.key) \in Nat /\ Len(q) \in Nat
          BY <3>1, <5>1, LeadsOrder
        <5>3. Leads(q, t.key) => Len(q) <= Len(t.key)
          BY <5>1, LeadsOrder
        <5>4. QED
          BY <5>2, <5>3
      <4>3. Ahead(f, q)
        BY <1>2, <1>4, <4>1, <4>2 DEF Ahead, BelowTop
      <4>4. QED
        BY <1>4, <2>3, <2>4, <2>7, <4>1, <4>3 DEF Due
    <3>3. CASE Rests(f)
      <4>1. f.stage = "key"
        BY <1>2, <2>7, <3>3 DEF Rests
      <4>2. QED
        BY <1>4, <2>3, <2>4, <2>7, <4>1 DEF Due
    <3>4. QED
      BY <1>1, <1>2, <2>7, <3>2, <3>3 DEF Steps
  <2>8. CASE t.vm = u /\ t.stage = "tree" /\ Ahead(t, q)
    <3>1. Tracks(t)
      BY <1>3, <1>5, <2>8 DEF DuesOf
    <3>2. Leads(t.key, t.at) /\ q # t.key
      BY <2>8, <3>1 DEF Tracks, Ahead
    <3>3. Below(t.key, q) /\ Found(t, q) /\ TreePath(q) \subseteq nodes[t.vm]
      BY <2>3, <2>5, <2>8, <3>2 DEF Found
    <3>4. CASE Rests(f)
      <4>1. NextKeys(t) # {}
        BY <2>8, <3>2, <3>3, WalkReaches, NextExists
      <4>2. f.stage = "tree" /\ f.todo = t.todo /\ f.at = t.at
        BY <1>2, <2>8, <3>4, <4>1 DEF Rests
      <4>3. Ahead(f, q)
        BY <1>4, <2>8, <4>2 DEF Ahead
      <4>4. QED
        BY <1>4, <2>3, <2>4, <2>8, <4>2, <4>3 DEF Due
    <3>5. ASSUME NEW k \in Keys, Steps(f, k) PROVE Due(f, u, q)
      <4>1. /\ f.stage = "tree" /\ k \in NextKeys(t) /\ f.todo = t.todo \ {k} /\ f.at = k
            /\ \/ StartsWith(k, t.nilAfter) \/ k \notin otk[t.vm]
               \/ FALSE \in MayFind(t, k)
               \/ f.owed = t.owed \ {<<t.vm, k>>}
        BY <1>2, <3>5 DEF Steps
      <4>2. q # k
        <5>1. ~StartsWith(q, t.nilAfter) /\ FALSE \notin MayFind(t, q)
          BY <1>3, <3>1, <3>3, NotSilent DEF DuesOf
        <5>2. QED
          BY <1>5, <2>3, <2>8, <4>1, <5>1
      <4>3. Ahead(f, q)
        BY <1>4, <2>8, <3>2, <3>3, <4>1, <4>2, StepAhead
      <4>4. QED
        BY <1>4, <2>3, <2>4, <2>8, <4>1, <4>3 DEF Due
    <3>6. QED
      BY <1>1, <1>2, <2>8, <3>4, <3>5 DEF Finds
  <2>9. QED
    BY <2>2, <2>6, <2>7, <2>8 DEF Due
<1>6. DuesOf(f)
  <2>1. Len(f.key) > 1 /\ f.holders \in Values[f.key]
    BY <1>3, <1>4 DEF DuesOf
  <2>2. f.stage = "tree" /\ Good(f.vm) => Tracks(f)
    BY <1>1, <1>2, <1>3, TracksOn
  <2>3. QED
    BY <1>5, <2>1, <2>2 DEF DuesOf
<1>7. DuesOf(f)'
  BY <1>1, <1>6 DEF DuesOf, Due, Good, Tracks, Further, Found, Ahead, Values, MayFind, Watchers, bindings, tables
<1>8. QED
  BY <1>1, <1>7, TopDues

LEMMA WatchDues ==
    ASSUME Shape, Hearing, FrameInv, [Next]_vars, NEW v \in VMs, NEW k \in Keys, NEW params \in BOOLEAN,
           Watch(v, k, params), ~Fails("null key")
    PROVE  FrameInv'
<1> DEFINE new == NewNodes(v, k)
           grown == NodesGrown(v, k)
<1>1. frames' \in WalksAfter(v, new, grown) /\ v \in open
  BY CallCounted DEF Watch, Shape
<1>2. \A i \in DOMAIN frames : WalkGrown(frames[i], v, grown) => v \in hist'.grown
  <2>1. \E d, e : hist' = [hist EXCEPT !.doubled = d, !.displaced = e,
           !.grown = IF \E i \in DOMAIN frames : WalkGrown(frames[i], v, grown) THEN @ \cup {v} ELSE @]
    BY DEF Watch
  <2>2. hist \in [{"unwatched", "refused", "doubled", "displaced", "grown", "missed"} -> SUBSET VMs]
    BY DEF Shape, TypeOK
  <2>3. QED
    BY <2>1, <2>2
<1> HIDE DEF new, grown
<1> SUFFICES ASSUME NEW g \in Frames, UnderWay(g)' PROVE DuesOf(g)'
  BY DEF FrameInv
<1>3. PICK i \in DOMAIN frames : frames'[i] = g
  <2>1. PICK i \in DOMAIN frames' : frames'[i] = g
    BY DEF UnderWay
  <2>2. QED
    BY <1>1, <2>1, WalksLeft
<1>4. PICK f \in Frames, t \in SUBSET Keys, w \in BOOLEAN :
         /\ f = frames[i] /\ g = [f EXCEPT !.todo = t, !.walkFreed = w]
         /\ f.todo \ Unsure(f, v, new, grown) \subseteq t
         /\ t \subseteq f.todo \cup Unsure(f, v, new, grown)
  BY <1>1, <1>3, WalksLeft
<1>5. UnderWay(f) /\ (WalkGrown(f, v, grown) => v \in hist'.grown)
  BY <1>2, <1>4 DEF UnderWay
<1>6. /\ g.key = f.key /\ g.holders = f.holders /\ g.altered = f.altered /\ g.pos = f.pos /\ g.vm = f.vm
      /\ g.stage = f.stage /\ g.at = f.at /\ g.nilAfter = f.nilAfter /\ g.owed = f.owed /\ g.todo = t
  BY <1>4 DEF Frames
<1>7. ASSUME f.stage = "tree", Good(f.vm)', Tracks(f), Walks(f, v)
      PROVE  /\ \A p \in g.todo : Below(f.key, p)
             /\ \A q \in Keys : q \in otk[f.vm] /\ Below(f.key, q) /\ Ahead(f, q) => Ahead(g, q)
  <2>1. f.vm = v /\ Good(v) /\ ~WalkGrown(f, v, grown) /\ Leads(f.key, f.at)
    BY <1>5, <1>7, GoodBefore DEF Walks, Good, Tracks
  <2>2. \A q \in Keys : q \in otk[f.vm] /\ Below(f.key, q) /\ Ahead(f, q) => Ahead(g, q)
    <3> TAKE q \in Keys
    <3> SUFFICES ASSUME q \in otk[f.vm], Below(f.key, q), Ahead(f, q) PROVE Ahead(g, q)
      OBVIOUS
    <3>1. /\ f.todo \ Unsure(f, v, NewNodes(v, k), grown) \subseteq g.todo
          /\ q \in otk[v] /\ Walks(f, v) /\ g.key = f.key /\ g.at = f.at
      BY <1>4, <1>6, <1>7, <2>1 DEF new
    <3>2. QED
      BY <1>1, <2>1, <3>1, WatchAhead
  <2>3. ASSUME NEW p \in t PROVE Below(f.key, p)
    <3>1. CASE p \in f.todo
      BY <1>7, <3>1 DEF Tracks
    <3>2. CASE p \in Unsure(f, v, new, grown)
      <4>1. /\ p \in Keys /\ p \in Seq(Names) /\ f.key \in Keys /\ f.key \in Seq(Names)
            /\ f.at \in Keys /\ f.at \in Seq(Names)
        BY KeyShape DEF Frames
      <4>2. Front(f.at) \notin grown
        BY <1>7, <2>1, GrownHere
      <4>3. PICK m \in new : Leads(m, p) /\ Leads(f.key, Front(m))
        BY <3>2, <4>2 DEF Unsure
      <4>4. m \in Keys /\ m \in Seq(Names)
        BY KeyShape DEF new, NewNodes
      <4>5. /\ Front(m) \in Seq(Names) /\ Len(Front(m)) = Len(m) - 1 /\ Leads(Front(m), m)
            /\ Len(m) \in Nat /\ Len(f.key) \in Nat /\ Len(p) \in Nat
        BY <4>1, <4>4, FrontShape, LenProperties
      <4>6. Leads(f.key, m)
        BY <4>1, <4>3, <4>4, <4>5, LeadsOrder
      <4>7. Leads(f.key, p) /\ Len(m) <= Len(p)
        BY <4>1, <4>3, <4>4, <4>6, LeadsOrder
      <4>8. Len(f.key) <= Len(Front(m))
        BY <4>1, <4>3, <4>5, LeadsOrder
      <4>9. PICK x, y, z, n \in Nat : x = Len(f.key) /\ y = Len(m) /\ z = Len(p) /\ n = Len(Front(m))
        BY <4>5, LenProperties
      <4>10. x <= n /\ n = y - 1 /\ y <= z
        BY <4>5, <4>7, <4>8, <4>9
      <4>11. f.key # p
        <5>1. x # z
          BY <4>10, Shorter
        <5>2. QED
          BY <4>9, <5>1
      <4>12. QED
        BY <4>1, <4>7, <4>11, LeadsOrder
    <3>3. QED
      BY <1>4, <3>1, <3>2
  <2>4. QED
    BY <1>6, <2>2, <2>3
<1>8. ASSUME f.stage = "tree", Tracks(f), ~Walks(f, v)
      PROVE  /\ \A p \in g.todo : Below(f.key, p)
             /\ \A q \in Keys : Ahead(f, q) => Ahead(g, q)
  <2>1. g.todo = f.todo
    BY <1>4, <1>6, <1>8 DEF Unsure
  <2>2. QED
    BY <1>6, <1>8, <2>1 DEF Tracks, Ahead
<1>9. QED
  BY <1>5, <1>6, <1>7, <1>8, DuesKept

LEMMA FrameInvStep == Shape /\ Hearing /\ FrameInv /\ [Next]_vars => FrameInv'
<1> SUFFICES ASSUME Shape, Hearing, FrameInv, [Next]_vars PROVE FrameInv'
  OBVIOUS
<1>1. ASSUME UNCHANGED frames PROVE FrameInv'
  BY <1>1, DuesSame DEF FrameInv, UnderWay
<1>2. ASSUME NEW v \in VMs, (\E r \in Roots : Bind(v, r) /\ ~Fails("null key")) \/ Close(v)
      PROVE  UNCHANGED frames
  BY <1>2 DEF Bind, Close
<1>3. ASSUME NEW v \in VMs, NEW k \in Keys, UnWatch(v, k), ~(Fails("null key") \/ Fails("empty node"))
      PROVE  FrameInv'
  <2> SUFFICES ASSUME NEW g \in Frames, UnderWay(g)' PROVE DuesOf(g)'
    BY DEF FrameInv
  <2>1. PICK i \in DOMAIN frames' : frames'[i] = g
    BY DEF UnderWay
  <2> DEFINE freed == key_observer[k] # Null /\ Forgets(key_observer[k], v) = Null
  <2>2. frames' = [j \in DOMAIN frames |-> [frames[j] EXCEPT
                     !.listFreed = @ \/ (freed /\ Root(frames[j].key) = k),
                     !.walkFreed = @ \/ WalkFreed(frames[j], v, k)]]
    BY <1>3 DEF UnWatch
  <2> HIDE DEF freed
  <2>3. i \in DOMAIN frames /\ frames[i] \in Frames
    <3>1. frames \in Seq(Frames)
      BY DEF Shape, TypeOK
    <3>2. \A j \in DOMAIN frames : frames[j] \in Frames
      BY <3>1, LenProperties
    <3>3. DOMAIN frames' = DOMAIN frames
      BY <2>2
    <3>4. QED
      BY <2>1, <3>2, <3>3
  <2>4. PICK f \in Frames : f = frames[i]
    BY <2>3
  <2>5. g = [f EXCEPT !.listFreed = @ \/ (freed /\ Root(f.key) = k), !.walkFreed = @ \/ WalkFreed(f, v, k)]
    BY <2>1, <2>2, <2>3, <2>4
  <2>6. /\ g.key = f.key /\ g.holders = f.holders /\ g.altered = f.altered /\ g.pos = f.pos /\ g.vm = f.vm
        /\ g.stage = f.stage /\ g.at = f.at /\ g.nilAfter = f.nilAfter /\ g.todo = f.todo /\ g.owed = f.owed
    BY <2>5 DEF Frames
  <2>7. UnderWay(f)
    BY <2>3, <2>4 DEF UnderWay
  <2>8. QED
    BY <2>6, <2>7, DuesSame
<1>4. ASSUME Assigned PROVE FrameInv'
  <2> SUFFICES ASSUME NEW g \in Frames, UnderWay(g)' PROVE DuesOf(g)'
    BY DEF FrameInv
  <2>1. UnderWay(g)
    BY <1>4, AssignedShape DEF UnderWay
  <2>2. QED
    BY <2>1, DuesSame
<1>5. CASE InnerKind
  BY <1>1, <1>4, <1>5, AssignDues, VisitDues, OnwardDues DEF InnerKind, Still
<1>6. QED
  BY <1>1, <1>2, <1>3, <1>5, WatchDues, FrameKinds

LEMMA FrameInvInit == Init => FrameInv
<1> SUFFICES ASSUME Init PROVE FrameInv
  OBVIOUS
<1>1. frames = << >>
  BY DEF Init
<1>2. DOMAIN frames = {}
  BY <1>1
<1>3. QED
  BY <1>2 DEF FrameInv, UnderWay

\* Only the end of an assignment finds that something was not heard.
LEMMA MissedStep ==
    ASSUME Shape, [Next]_vars
    PROVE  Assigned \/ hist'.missed = hist.missed
<1>1. hist \in [{"unwatched", "refused", "doubled", "displaced", "grown", "missed"} -> SUBSET VMs]
  BY DEF Shape, TypeOK
<1>2. ASSUME NEW v \in VMs, NEW r \in Roots, Bind(v, r), ~Fails("null key")
      PROVE  hist'.missed = hist.missed
  BY <1>1, <1>2 DEF Bind
<1>3. ASSUME NEW v \in VMs, NEW k \in Keys, NEW params \in BOOLEAN, Watch(v, k, params), ~Fails("null key")
      PROVE  hist'.missed = hist.missed
  BY <1>3, WatchHist
<1>4. ASSUME NEW v \in VMs, NEW k \in Keys, UnWatch(v, k), ~(Fails("null key") \/ Fails("empty node"))
      PROVE  hist'.missed = hist.missed
  <2>1. hist' = [hist EXCEPT !.unwatched = @ \cup {v}]
    BY <1>4 DEF UnWatch
  <2>2. QED
    BY <1>1, <2>1
<1>5. ASSUME NEW v \in VMs, Close(v) PROVE hist'.missed = hist.missed
  BY <1>5 DEF Close
<1>6. CASE InnerKind
  <2>1. Visit /\ ~Fails("closed VM") => UNCHANGED hist
    BY DEF Visit
  <2>2. QED
    BY <1>6, <2>1 DEF InnerKind, Still, Assign, GoesOn
<1>7. QED
  BY <1>2, <1>3, <1>4, <1>5, <1>6, FrameKinds

LEMMA WatchersStep == Shape /\ Hearing /\ FrameInv /\ WatchersHear /\ [Next]_vars => WatchersHear'
<1> SUFFICES ASSUME Shape, FrameInv, WatchersHear, [Next]_vars PROVE WatchersHear'
  OBVIOUS
<1>1. /\ hist.unwatched \subseteq hist'.unwatched /\ hist.displaced \subseteq hist'.displaced
      /\ hist.grown \subseteq hist'.grown
  BY HistGrows
<1>2. CASE hist'.missed = hist.missed
  BY <1>1, <1>2 DEF WatchersHear
<1>3. CASE Assigned
  <2>1. /\ ~Idle /\ Top.stage = "list" /\ LeftToVisit(Top) = {}
        /\ hist' = [hist EXCEPT !.missed = @ \cup {w[1] : w \in Top.owed}]
        /\ Top.owed \subseteq VMs \X Keys
    BY <1>3, AssignedShape
  <2>2. hist \in [{"unwatched", "refused", "doubled", "displaced", "grown", "missed"} -> SUBSET VMs]
    BY DEF Shape, TypeOK
  <2>3. hist'.missed = hist.missed \cup {w[1] : w \in Top.owed}
    BY <2>1, <2>2
  <2>4. Top \in Frames /\ UnderWay(Top)
    BY <2>1, TopShape DEF Shape, UnderWay, Top
  <2>5. DuesOf(Top)
    BY <2>4 DEF FrameInv
  <2>6. ASSUME NEW u \in VMs, NEW q \in Keys, <<u, q>> \in Top.owed, Good(u) PROVE FALSE
    <3>1. Due(Top, u, q)
      BY <2>5, <2>6 DEF DuesOf
    <3>2. Watchers(Top) # Null /\ \E j \in DOMAIN Watchers(Top).arr : j > Top.pos /\ Watchers(Top).arr[j] = u
      BY <2>1, <3>1 DEF Due, Further
    <3>3. u # Null
      BY DataBindConstants
    <3>4. QED
      BY <2>1, <3>2, <3>3 DEF LeftToVisit
  <2>7. {w[1] : w \in Top.owed} \subseteq hist.unwatched \cup hist.displaced \cup hist.grown
    <3> SUFFICES ASSUME NEW w \in Top.owed PROVE ~Good(w[1])
      BY DEF Good
    <3>1. w = <<w[1], w[2]>> /\ w[1] \in VMs /\ w[2] \in Keys
      BY <2>1
    <3>2. QED
      BY <2>6, <3>1
  <2>8. QED
    BY <1>1, <2>3, <2>7 DEF WatchersHear
<1>4. QED
  BY <1>2, <1>3, MissedStep

LEMMA WatchersAlways == Spec => [](Shape /\ Hearing /\ FrameInv /\ WatchersHear)
<1>1. Init => WatchersHear
  BY DEF Init, WatchersHear
<1>2. QED
  BY <1>1, ShapeInit, ShapeStep, HearingInit, HearingStep, FrameInvInit, FrameInvStep, WatchersStep,
     PTL DEF Spec

\* When an assignment ends, every VM that watched its key, or a key below it
\* whose holder is a table in the value, before it began has had its function
\* called, whatever was called on the way, unless the VM unwatched a key,
\* list_relist moved it or a node its walk was in grew.  The functions below a
\* key that was assigned to on the way are the later assignment's to call.
THEOREM AllHear == Spec => []WatchersHear
BY WatchersAlways, PTL

=============================================================================
