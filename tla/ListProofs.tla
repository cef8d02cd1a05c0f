----------------------------- MODULE ListProofs -----------------------------
(* Lemmas about numbers and lists: induction, values computed in rounds, and  *)
(* lists put together, as the accounts loaded from lookup tables are.         *)
EXTENDS Integers, SequencesExt, SequenceTheorems, WellFoundedInduction, TLAPS

(* A set of numbers that is not empty has a least element.                    *)
LEMMA LeastNumber ==
    ASSUME NEW T \in SUBSET Nat, T # {}
    PROVE  \E i \in T : \A j \in T : i <= j
  <1>1. PICK i \in T : \A j \in T : ~(<<j, i>> \in OpToRel(<, Nat))
    BY NatLessThanWellFounded, WFMin
  <1>2. \A j \in T : ~(j < i)
    BY <1>1 DEF OpToRel
  <1> QED
    BY <1>2

(* What holds of 0, and of n + 1 if it holds of n, holds of every number: a   *)
(* set with both properties has all numbers.                                  *)
LEMMA AllNumbers ==
    ASSUME NEW T, 0 \in T, \A n \in Nat : n \in T => n + 1 \in T
    PROVE  \A n \in Nat : n \in T
  <1> DEFINE Others == {n \in Nat : n \notin T}
  <1> SUFFICES ASSUME Others # {}
               PROVE  FALSE
    OBVIOUS
  <1>1. PICK i \in Others : \A j \in Others : i <= j
    BY LeastNumber
  <1>2. i # 0 /\ i - 1 \in Nat
    BY <1>1
  <1>3. i - 1 \in T
    BY <1>1, <1>2
  <1> QED
    BY <1>1, <1>2, <1>3

(* f is computed by recursion on D: where it stops it is base[d], and at      *)
(* another d it is what next[d] makes of f at prev[d].                        *)
IsRecursion(f, D, stop, base, prev, next) ==
    \A d \in D : f[d] = IF d \in stop THEN base[d] ELSE next[d][f[prev[d]]]

(* Such a function exists if each of its calls is at a smaller value.         *)
LEMMA RecursionExists ==
    ASSUME NEW D, NEW T, NEW size \in [D -> Nat], NEW stop \in SUBSET D, NEW base \in [D -> T],
           NEW prev \in [D -> D], NEW next \in [D -> [T -> T]],
           \A d \in D : d \notin stop => size[prev[d]] < size[d]
    PROVE  \E f \in [D -> T] : IsRecursion(f, D, stop, base, prev, next)
  <1> DEFINE Value(f, d) == IF d \in stop THEN base[d] ELSE next[d][f[prev[d]]]
             Below(n, f) == f \in [D -> T] /\ \A d \in D : size[d] < n => f[d] = Value(f, d)
             Done == {n \in Nat : \E f : Below(n, f)}
             Same == {n \in Nat : \A f, g : Below(n, f) /\ Below(n, g)
                                      => \A d \in D : size[d] < n => f[d] = g[d]}
  <1>0. ASSUME NEW f \in [D -> T], NEW d \in D
        PROVE  Value(f, d) \in T
    OBVIOUS
  <1>1. 0 \in Done
    <2>1. \A d \in D : ~(size[d] < 0)
      OBVIOUS
    <2>2. Below(0, base)
      BY <2>1
    <2> HIDE DEF Below
    <2> QED
      BY <2>2
  <1>2. ASSUME NEW n \in Nat, n \in Done
        PROVE  n + 1 \in Done
    <2>1. PICK f : Below(n, f)
      BY <1>2
    <2> DEFINE g == [d \in D |-> Value(f, d)]
    <2>2. g \in [D -> T]
      BY <1>0, <2>1
    <2>3. ASSUME NEW d \in D, size[d] < n + 1
          PROVE  g[d] = Value(g, d)
      <3>1. CASE d \in stop
        BY <3>1
      <3>2. CASE d \notin stop
        <4> DEFINE e == prev[d]
        <4>1. e \in D /\ size[e] < n
          BY <2>3, <3>2
        <4>2. f[e] = Value(f, e)
          BY <2>1, <4>1
        <4>3. g[e] = f[e]
          BY <4>1, <4>2
        <4> QED
          BY <3>2, <4>3
      <3> QED
        BY <3>1, <3>2
    <2> HIDE DEF g, Value
    <2>4. Below(n + 1, g)
      BY <2>2, <2>3
    <2> HIDE DEF Below
    <2> QED
      BY <2>4
  <1>3. 0 \in Same
    <2>1. \A d \in D : ~(size[d] < 0)
      OBVIOUS
    <2> HIDE DEF Below
    <2> QED
      BY <2>1
  <1>4. ASSUME NEW n \in Nat, n \in Same
        PROVE  n + 1 \in Same
    <2> SUFFICES ASSUME NEW f, NEW g, Below(n + 1, f), Below(n + 1, g), NEW d \in D, size[d] < n + 1
                 PROVE  f[d] = g[d]
      <3> HIDE DEF Below
      <3> QED
        OBVIOUS
    <2>1. Below(n, f) /\ Below(n, g)
      <3>1. \A c \in D : size[c] < n => size[c] < n + 1
        OBVIOUS
      <3> HIDE DEF Value
      <3> QED
        BY <3>1
    <2>2. \A c \in D : size[c] < n => f[c] = g[c]
      <3> HIDE DEF Below
      <3> QED
        BY <1>4, <2>1
    <2>3. f[d] = Value(f, d) /\ g[d] = Value(g, d)
      <3> HIDE DEF Value
      <3> QED
        OBVIOUS
    <2>4. CASE d \in stop
      BY <2>3, <2>4
    <2>5. CASE d \notin stop
      <3>1. prev[d] \in D /\ size[prev[d]] < n
        BY <2>5
      <3> QED
        BY <2>2, <2>3, <2>5, <3>1
    <2> QED
      BY <2>4, <2>5
  <1>5. \A n \in Nat : n \in Done /\ n \in Same
    <2> HIDE DEF Done, Same
    <2>1. \A n \in Nat : n \in Done
      BY <1>1, <1>2, AllNumbers
    <2>2. \A n \in Nat : n \in Same
      BY <1>3, <1>4, AllNumbers
    <2> QED
      BY <2>1, <2>2
  <1> DEFINE upTo(n) == CHOOSE f : Below(n, f)
             f == [d \in D |-> upTo(size[d] + 1)[d]]
  <1>6. ASSUME NEW n \in Nat
        PROVE  Below(n, upTo(n))
    <2> HIDE DEF Below
    <2> QED
      BY <1>5
  <1>7. ASSUME NEW d \in D
        PROVE  /\ f[d] = upTo(size[d] + 1)[d]
               /\ f[d] \in T
               /\ f[d] = Value(upTo(size[d] + 1), d)
    <2> DEFINE n == size[d] + 1
    <2>1. n \in Nat /\ size[d] < n
      OBVIOUS
    <2> HIDE DEF n
    <2>2. Below(n, upTo(n))
      BY <1>6, <2>1
    <2> HIDE DEF upTo, Value
    <2>3. upTo(n)[d] \in T /\ upTo(n)[d] = Value(upTo(n), d)
      BY <2>1, <2>2
    <2> QED
      BY <2>3 DEF n
  <1>8. ASSUME NEW d \in D, d \notin stop
        PROVE  f[prev[d]] = upTo(size[d] + 1)[prev[d]]
    <2> DEFINE e == prev[d]
               n == size[e] + 1
               m == size[d] + 1
    <2>1. e \in D /\ n \in Nat /\ m \in Nat /\ size[e] < n /\ n <= m
      BY <1>8
    <2>2. Below(n, upTo(n)) /\ Below(m, upTo(m))
      <3> HIDE DEF n, m, Below, upTo
      <3> QED
        BY <1>6, <2>1
    <2> HIDE DEF n, m, upTo
    <2>3. Below(n, upTo(m))
      <3>1. \A c \in D : size[c] < n => size[c] < m
        BY <2>1
      <3> HIDE DEF Value
      <3> QED
        BY <2>2, <3>1
    <2>4. upTo(n)[e] = upTo(m)[e]
      <3> HIDE DEF Below, e
      <3> QED
        BY <1>5, <2>1, <2>2, <2>3
    <2>5. f[e] = upTo(n)[e]
      BY <1>7, <2>1 DEF n
    <2> QED
      BY <2>4, <2>5 DEF m
  <1>9. ASSUME NEW d \in D
        PROVE  f[d] = Value(f, d)
    <2> HIDE DEF f, upTo
    <2>1. f[d] = Value(upTo(size[d] + 1), d)
      BY <1>7
    <2> QED
      BY <1>8, <2>1
  <1>10. f \in [D -> T]
    <2>1. \A d \in D : upTo(size[d] + 1)[d] \in T
      BY <1>7
    <2> HIDE DEF upTo
    <2> QED
      BY <2>1
  <1> HIDE DEF f
  <1>11. IsRecursion(f, D, stop, base, prev, next)
    BY <1>9 DEF IsRecursion
  <1> QED
    BY <1>10, <1>11

(* A search goes on to another place until it stops. *)
IsSearch(f, D, stop, base, prev) ==
    \A d \in D : f[d] = IF d \in stop THEN base[d] ELSE f[prev[d]]

LEMMA SearchExists ==
    ASSUME NEW D, NEW T, NEW size \in [D -> Nat], NEW stop \in SUBSET D, NEW base \in [D -> T],
           NEW prev \in [D -> D],
           \A d \in D : d \notin stop => size[prev[d]] < size[d]
    PROVE  \E f \in [D -> T] : IsSearch(f, D, stop, base, prev)
  <1> DEFINE next == [d \in D |-> [v \in T |-> v]]
  <1>1. next \in [D -> [T -> T]]
    OBVIOUS
  <1>2. \E f \in [D -> T] : IsRecursion(f, D, stop, base, prev, next)
    <2> HIDE DEF next
    <2> QED
      BY <1>1, RecursionExists
  <1>3. PICK f \in [D -> T] : IsRecursion(f, D, stop, base, prev, next)
    BY <1>2
  <1>4. \A d \in D : next[d][f[prev[d]]] = f[prev[d]]
    OBVIOUS
  <1> HIDE DEF next
  <1>5. IsSearch(f, D, stop, base, prev)
    BY <1>3, <1>4 DEF IsRecursion, IsSearch
  <1> QED
    BY <1>5

(* A value that is computed in some rounds, each from the one before: next[i] *)
(* is what round i makes of a value.                                          *)
LEMMA RoundsExist ==
    ASSUME NEW T, NEW base \in T, NEW size \in Nat, NEW next \in [1..size -> [T -> T]]
    PROVE  \E f \in [0..size -> T] :
               f[0] = base /\ \A i \in 1..size : f[i] = next[i][f[i - 1]]
  <1> DEFINE Upto(n, f) == /\ f \in [0..n -> T] /\ f[0] = base
                           /\ \A i \in 1..n : f[i] = next[i][f[i - 1]]
             Done == {n \in Nat : n <= size => \E f : Upto(n, f)}
  <1>1. 0 \in Done
    <2>1. Upto(0, [i \in 0..0 |-> base])
      OBVIOUS
    <2> QED
      BY <2>1
  <1>2. ASSUME NEW n \in Nat, NEW f, Upto(n, f), n + 1 <= size
        PROVE  \E g : Upto(n + 1, g)
    <2> DEFINE v == next[n + 1][f[n]]
               g == [i \in 0..(n + 1) |-> IF i = n + 1 THEN v ELSE f[i]]
    <2>1. n \in 0..n /\ f[n] \in T /\ n + 1 \in 1..size
      BY <1>2
    <2>2. next[n + 1] \in [T -> T]
      BY <2>1
    <2>3. v \in T
      BY <2>1, <2>2
    <2> HIDE DEF v
    <2>4. g \in [0..(n + 1) -> T] /\ g[0] = base
      BY <1>2, <2>3
    <2>5. ASSUME NEW i \in 1..n
          PROVE  g[i] = next[i][g[i - 1]]
      <3>1. g[i] = f[i] /\ g[i - 1] = f[i - 1]
        OBVIOUS
      <3> QED
        BY <1>2, <3>1
    <2>6. g[n + 1] = next[n + 1][g[n + 1 - 1]]
      <3>1. n + 1 - 1 = n /\ g[n + 1] = v /\ g[n] = f[n]
        OBVIOUS
      <3> QED
        BY <3>1 DEF v
    <2>7. \A i \in 1..(n + 1) : g[i] = next[i][g[i - 1]]
      <3> HIDE DEF g
      <3>1. \A i \in 1..(n + 1) : i \in 1..n \/ i = n + 1
        OBVIOUS
      <3> QED
        BY <2>5, <2>6, <3>1
    <2>8. Upto(n + 1, g)
      BY <2>4, <2>7
    <2> QED
      BY <2>8
  <1>3. \A n \in Nat : n \in Done => n + 1 \in Done
    <2> HIDE DEF Upto
    <2> QED
      BY <1>2
  <1>4. size \in Done
    <2> HIDE DEF Done
    <2> QED
      BY <1>1, <1>3, AllNumbers
  <1> QED
    BY <1>4

(* A set of positions that holds, with each position, every earlier one is a  *)
(* prefix of the list.                                                        *)
LEMMA PrefixExists ==
    ASSUME NEW n \in Nat, NEW T \in SUBSET (1..n),
           \A i \in T : \A j \in 1..i : j \in T
    PROVE  \E k \in 0..n : T = 1..k
  <1> DEFINE Outside == {i \in 1..(n + 1) : i \notin T}
  <1>1. Outside \in SUBSET Nat /\ Outside # {}
    <2>1. n + 1 \in Outside
      OBVIOUS
    <2> QED
      BY <2>1
  <1>2. PICK m \in Outside : \A j \in Outside : m <= j
    BY <1>1, LeastNumber
  <1>3. m - 1 \in 0..n
    BY <1>2
  <1>4. T = 1..(m - 1)
    <2>1. ASSUME NEW i \in T
          PROVE  i \in 1..(m - 1)
      <3>1. i \in 1..n /\ m \in 1..(n + 1) /\ m \notin T
        BY <1>2
      <3>2. ~(m <= i)
        BY <3>1
      <3> QED
        BY <3>1, <3>2
    <2>2. ASSUME NEW i \in 1..(m - 1)
          PROVE  i \in T
      <3>1. i \in 1..(n + 1) /\ ~(m <= i)
        BY <1>2
      <3>2. i \notin Outside
        BY <1>2, <3>1
      <3> QED
        BY <3>1, <3>2
    <2> QED
      BY <2>1, <2>2
  <1> QED
    BY <1>3, <1>4

-----------------------------------------------------------------------------
(* Two lists, one after the other. *)
Joined(a, b) == a \o b

(* The empty list adds nothing, and putting lists together is associative.    *)
LEMMA JoinedLists ==
    ASSUME NEW K, NEW a \in Seq(K)
    PROVE  /\ Joined(a, <<>>) = a /\ Joined(<<>>, a) = a
           /\ \A b \in Seq(K) : Joined(a, b) \in Seq(K)
           /\ \A b, c \in Seq(K) : Joined(Joined(a, b), c) = Joined(a, Joined(b, c))
  <1>1. a \o <<>> = a /\ <<>> \o a = a
    BY ConcatEmptySeq
  <1>2. \A b \in Seq(K) : a \o b \in Seq(K)
    BY ConcatProperties
  <1>3. \A b, c \in Seq(K) : (a \o b) \o c = a \o (b \o c)
    BY ConcatAssociative
  <1> QED
    BY <1>1, <1>2, <1>3 DEF Joined

(* f[i] is the first i of the sequences in s put together. *)
Joins(f, s) == f[0] = <<>> /\ \A i \in 1..Len(s) : f[i] = f[i - 1] \o s[i]

(* Every list of sequences has its partial joins.                             *)
LEMMA JoinsExist ==
    ASSUME NEW K, NEW s \in Seq(Seq(K))
    PROVE  \E f \in [0..Len(s) -> Seq(K)] : Joins(f, s)
  <1> DEFINE size == Len(s)
             next == [i \in 1..size |-> [t \in Seq(K) |-> t \o s[i]]]
  <1>1. size \in Nat /\ \A i \in 1..size : s[i] \in Seq(K)
    BY ElementOfSeq
  <1>2. <<>> \in Seq(K)
    OBVIOUS
  <1>3. next \in [1..size -> [Seq(K) -> Seq(K)]]
    BY <1>1, ConcatProperties
  <1>4. \E f \in [0..size -> Seq(K)] :
            f[0] = <<>> /\ \A i \in 1..size : f[i] = next[i][f[i - 1]]
    <2> HIDE DEF next, size
    <2> DEFINE T == Seq(K)
               base == <<>>
    <2>1. base \in T /\ next \in [1..size -> [T -> T]] /\ size \in Nat
      BY <1>1, <1>2, <1>3
    <2> SUFFICES \E f \in [0..size -> T] :
            f[0] = base /\ \A i \in 1..size : f[i] = next[i][f[i - 1]]
      OBVIOUS
    <2> HIDE DEF T, base
    <2> QED
      BY <2>1, RoundsExist
  <1>5. PICK f \in [0..size -> Seq(K)] :
            f[0] = <<>> /\ \A i \in 1..size : f[i] = next[i][f[i - 1]]
    BY <1>4
  <1>6. ASSUME NEW i \in 1..size
        PROVE  f[i] = f[i - 1] \o s[i]
    <2>1. i - 1 \in 0..size
      BY <1>1
    <2>2. f[i - 1] \in Seq(K)
      BY <1>5, <2>1
    <2> QED
      BY <1>5, <2>2
  <1> QED
    BY <1>5, <1>6 DEF Joins

(* Partial joins start with the first sequence.                               *)
LEMMA FirstJoin ==
    ASSUME NEW K, NEW s \in Seq(Seq(K)), NEW f, Joins(f, s), Len(s) # 0
    PROVE  f[1] = s[1]
  <1>1. 1 \in 1..Len(s) /\ s[1] \in Seq(K)
    BY ElementOfSeq
  <1>2. f[1] = f[0] \o s[1]
    <2> DEFINE first == 1
               none == 0
    <2>1. first \in 1..Len(s) /\ none = first - 1
      BY <1>1
    <2> SUFFICES f[first] = f[none] \o s[first]
      OBVIOUS
    <2> HIDE DEF first, none
    <2> QED
      BY <2>1, ElementOfSeq DEF Joins
  <1>3. f[1] = <<>> \o s[1]
    BY <1>2 DEF Joins
  <1> QED
    BY <1>1, <1>3, ConcatEmptySeq

(* FlattenSeq is the last partial join, whichever way they are computed.      *)
LEMMA FlattenIsJoin ==
    ASSUME NEW K, NEW s \in Seq(Seq(K)), NEW f, Joins(f, s)
    PROVE  FlattenSeq(s) = f[Len(s)]
  <1> DEFINE size == Len(s)
             IsFlatten(h) ==
                 h = [i \in 1..size |-> IF i = 1 THEN s[i] ELSE h[i - 1] \o s[i]]
             g == [i \in 1..size |-> f[i]]
  <1>1. size \in Nat
    OBVIOUS
  <1>2. CASE size = 0
    BY <1>2 DEF Joins, FlattenSeq
  <1>3. CASE size # 0
    <2>1. f[1] = s[1] /\ \A i \in 1..size : f[i] = f[i - 1] \o s[i]
      BY <1>3, FirstJoin DEF Joins
    <2>2. IsFlatten(g)
      <3> HIDE DEF size
      <3>1. ASSUME NEW i \in 1..size
            PROVE  g[i] = IF i = 1 THEN s[i] ELSE g[i - 1] \o s[i]
        <4>1. i = 1 => g[i] = s[i]
          BY <2>1
        <4>2. ASSUME i # 1
              PROVE  g[i] = g[i - 1] \o s[i]
          <5>1. i - 1 \in 1..size
            BY <1>1, <4>2
          <5> QED
            BY <2>1, <5>1
        <4> QED
          BY <4>1, <4>2
      <3> QED
        BY <3>1
    <2>3. ASSUME NEW h, IsFlatten(h)
          PROVE  h[size] = f[size]
      <3> DEFINE Same == {n \in Nat : n \in 1..size => h[n] = f[n]}
      <3>1. 0 \in Same
        OBVIOUS
      <3>2. ASSUME NEW n \in Nat, n \in Same, n + 1 \in 1..size
            PROVE  h[n + 1] = f[n + 1]
        <4> HIDE DEF size
        <4> DEFINE k == n + 1
        <4>1. k \in 1..size /\ k - 1 = n
          BY <3>2
        <4> SUFFICES h[k] = f[k]
          OBVIOUS
        <4> HIDE DEF k
        <4>2. h[k] = IF k = 1 THEN s[k] ELSE h[k - 1] \o s[k]
          BY <2>3, <4>1
        <4>3. CASE k = 1
          BY <2>1, <4>2, <4>3
        <4>4. CASE k # 1
          <5>1. n \in 1..size
            BY <1>1, <4>1, <4>4
          <5>2. h[n] = f[n]
            BY <3>2, <5>1
          <5>3. f[k] = f[k - 1] \o s[k]
            BY <2>1, <4>1
          <5> QED
            BY <4>1, <4>2, <4>4, <5>2, <5>3
        <4> QED
          BY <4>3, <4>4
      <3>3. \A n \in Nat : n \in Same => n + 1 \in Same
        <4> HIDE DEF size
        <4> QED
          BY <3>2
      <3>4. size \in Same
        <4> HIDE DEF Same
        <4> QED
          BY <1>1, <3>1, <3>3, AllNumbers
      <3> QED
        BY <1>1, <1>3, <3>4
    <2>4. FlattenSeq(s) = (CHOOSE h : IsFlatten(h))[size]
      BY <1>3 DEF FlattenSeq
    <2>5. IsFlatten(CHOOSE h : IsFlatten(h))
      <3> HIDE DEF IsFlatten
      <3> QED
        BY <2>2
    <2> QED
      <3> HIDE DEF IsFlatten
      <3> QED
        BY <2>3, <2>4, <2>5
  <1> QED
    BY <1>2, <1>3

(* Putting one more sequence at the end of the list puts it at the end of the *)
(* flattened list.                                                            *)
LEMMA FlattenOneMore ==
    ASSUME NEW K, NEW s \in Seq(Seq(K)), NEW t \in Seq(Seq(K)),
           Len(t) = Len(s) + 1, \A i \in 1..Len(s) : t[i] = s[i]
    PROVE  FlattenSeq(t) = Joined(FlattenSeq(s), t[Len(t)])
  <1>1. PICK f \in [0..Len(t) -> Seq(K)] : Joins(f, t)
    BY JoinsExist
  <1>2. Joins(f, s)
    <2>1. ASSUME NEW i \in 1..Len(s)
          PROVE  f[i] = f[i - 1] \o s[i]
      <3>1. i \in 1..Len(t)
        OBVIOUS
      <3> QED
        BY <1>1, <3>1 DEF Joins
    <2> QED
      BY <1>1, <2>1 DEF Joins
  <1>3. FlattenSeq(t) = f[Len(t)] /\ FlattenSeq(s) = f[Len(s)]
    BY <1>1, <1>2, FlattenIsJoin
  <1>4. f[Len(t)] = f[Len(s)] \o t[Len(t)]
    <2> DEFINE last == Len(t)
    <2>1. last \in 1..Len(t) /\ last - 1 = Len(s)
      OBVIOUS
    <2> HIDE DEF last
    <2>2. f[last] = f[last - 1] \o t[last]
      BY <1>1, <2>1 DEF Joins
    <2>3. f[last] = f[Len(s)] \o t[last]
      BY <2>1, <2>2
    <2> QED
      BY <2>3 DEF last
  <1> QED
    BY <1>3, <1>4 DEF Joined

(* An empty list flattens to the empty list.                                  *)
LEMMA FlattenNone ==
    ASSUME NEW K, NEW s \in Seq(Seq(K)), Len(s) = 0
    PROVE  FlattenSeq(s) = <<>>
  BY DEF FlattenSeq

(* An element of two sequences put together is one of either.                 *)
LEMMA JoinedElements ==
    ASSUME NEW K, NEW first \in Seq(K), NEW rest \in Seq(K), NEW all, all = first \o rest
    PROVE  \A p \in 1..Len(all) :
               \/ p \in 1..Len(first) /\ all[p] = first[p]
               \/ p - Len(first) \in 1..Len(rest) /\ all[p] = rest[p - Len(first)]
  <1> SUFFICES ASSUME NEW p \in 1..Len(all)
               PROVE  \/ p \in 1..Len(first) /\ all[p] = first[p]
                      \/ /\ p - Len(first) \in 1..Len(rest)
                         /\ all[p] = rest[p - Len(first)]
    OBVIOUS
  <1>1. /\ Len(all) = Len(first) + Len(rest)
        /\ Len(first) \in Nat /\ Len(rest) \in Nat
        /\ all[p] = IF p <= Len(first) THEN first[p] ELSE rest[p - Len(first)]
    BY ConcatProperties
  <1> QED
    BY <1>1

(* An element of a flattened list is an element of one of its sequences, and  *)
(* if no element occurs twice in them, none occurs twice in the list.         *)
LEMMA FlattenElements ==
    ASSUME NEW K, NEW s \in Seq(Seq(K))
    PROVE  /\ FlattenSeq(s) \in Seq(K)
           /\ \A p \in 1..Len(FlattenSeq(s)) :
                  \E e \in 1..Len(s) : \E j \in 1..Len(s[e]) : FlattenSeq(s)[p] = s[e][j]
           /\ (\A d, e \in 1..Len(s) : \A i \in 1..Len(s[d]), j \in 1..Len(s[e]) :
                  s[d][i] = s[e][j] => d = e /\ i = j)
              => \A p, q \in 1..Len(FlattenSeq(s)) :
                     FlattenSeq(s)[p] = FlattenSeq(s)[q] => p = q
  <1>1. PICK f \in [0..Len(s) -> Seq(K)] : Joins(f, s)
    BY JoinsExist
  <1>2. FlattenSeq(s) = f[Len(s)]
    BY <1>1, FlattenIsJoin
  <1> DEFINE size == Len(s)
             From(n) == \A p \in 1..Len(f[n]) :
                 \E e \in 1..n : \E j \in 1..Len(s[e]) : f[n][p] = s[e][j]
             Injective(n) == \A p, q \in 1..Len(f[n]) : f[n][p] = f[n][q] => p = q
             Apart == \A d, e \in 1..size : \A i \in 1..Len(s[d]), j \in 1..Len(s[e]) :
                  s[d][i] = s[e][j] => d = e /\ i = j
             Good == {n \in Nat : n \in 0..size => From(n) /\ (Apart => Injective(n))}
  <1>3. size \in Nat /\ \A i \in 1..size : s[i] \in Seq(K)
    BY ElementOfSeq
  <1>4. 0 \in Good
    <2>1. f[0] = <<>>
      BY <1>1 DEF Joins
    <2> QED
      BY <2>1
  <1>5. ASSUME NEW n \in Nat, n \in Good
        PROVE  n + 1 \in Good
    <2> DEFINE k == n + 1
    <2>1. k \in Nat /\ k - 1 = n
      OBVIOUS
    <2> SUFFICES ASSUME k \in 0..size
                 PROVE  From(k) /\ (Apart => Injective(k))
      BY <2>1
    <2>2. k \in 1..size /\ n \in 0..size
      BY <1>3, <2>1
    <2>3. From(n) /\ (Apart => Injective(n))
      BY <1>5, <2>2
    <2>4. f[n] \in Seq(K) /\ s[k] \in Seq(K) /\ f[k] = f[n] \o s[k]
      <3> HIDE DEF k
      <3>1. f[k] = f[k - 1] \o s[k]
        BY <1>1, <2>2 DEF Joins
      <3> QED
        BY <1>1, <1>3, <2>1, <2>2, <3>1
    <2>5. Len(f[n]) \in Nat
      BY <2>4
    <2>6. \A p \in 1..Len(f[k]) :
              \/ p \in 1..Len(f[n]) /\ f[k][p] = f[n][p]
              \/ p - Len(f[n]) \in 1..Len(s[k]) /\ f[k][p] = s[k][p - Len(f[n])]
      <3> DEFINE first == f[n]
                 rest == s[k]
                 all == f[k]
      <3>1. first \in Seq(K) /\ rest \in Seq(K) /\ all = first \o rest
        BY <2>4
      <3> HIDE DEF first, rest, all
      <3>2. \A p \in 1..Len(all) :
                \/ p \in 1..Len(first) /\ all[p] = first[p]
                \/ p - Len(first) \in 1..Len(rest) /\ all[p] = rest[p - Len(first)]
        BY <3>1, JoinedElements
      <3> QED
        BY <3>2 DEF first, rest, all
    <2>7. \A e \in 1..n : e \in 1..k
      BY <2>1
    <2>8. k \in 1..k
      BY <2>2
    <2>9. From(k)
      <3> HIDE DEF k
      <3> SUFFICES ASSUME NEW p \in 1..Len(f[k])
                   PROVE  \E e \in 1..k : \E j \in 1..Len(s[e]) : f[k][p] = s[e][j]
        OBVIOUS
      <3>1. CASE p \in 1..Len(f[n]) /\ f[k][p] = f[n][p]
        <4>1. PICK e \in 1..n : \E j \in 1..Len(s[e]) : f[n][p] = s[e][j]
          BY <2>3, <3>1
        <4> QED
          BY <2>7, <3>1, <4>1
      <3>2. CASE p - Len(f[n]) \in 1..Len(s[k]) /\ f[k][p] = s[k][p - Len(f[n])]
        <4> DEFINE j == p - Len(f[n])
        <4>1. j \in 1..Len(s[k]) /\ f[k][p] = s[k][j]
          BY <3>2
        <4> HIDE DEF j
        <4> QED
          BY <2>8, <4>1
      <3> QED
        BY <2>6, <3>1, <3>2
    <2>10. ASSUME Apart
           PROVE  Injective(k)
      <3> HIDE DEF k
      <3> SUFFICES ASSUME NEW p \in 1..Len(f[k]), NEW q \in 1..Len(f[k]), f[k][p] = f[k][q]
                   PROVE  p = q
        OBVIOUS
      <3> DEFINE Old(i) == i \in 1..Len(f[n]) /\ f[k][i] = f[n][i]
                 New(i) == i - Len(f[n]) \in 1..Len(s[k]) /\ f[k][i] = s[k][i - Len(f[n])]
      <3>1. ASSUME NEW a \in 1..Len(f[k]), NEW b \in 1..Len(f[k]), Old(a), New(b)
            PROVE  f[k][a] # f[k][b]
        <4>1. PICK e \in 1..n : \E j \in 1..Len(s[e]) : f[n][a] = s[e][j]
          BY <2>3, <3>1
        <4>2. PICK j \in 1..Len(s[e]) : f[n][a] = s[e][j]
          BY <4>1
        <4>3. e \in 1..size /\ e # k
          BY <1>3, <2>1, <2>2
        <4> DEFINE i == b - Len(f[n])
        <4>4. i \in 1..Len(s[k]) /\ f[k][b] = s[k][i] /\ f[k][a] = s[e][j]
          BY <3>1, <4>2
        <4> HIDE DEF i
        <4>5. s[e][j] # s[k][i]
          BY <2>2, <2>10, <4>2, <4>3, <4>4
        <4> QED
          BY <4>4, <4>5
      <3>2. CASE Old(p) /\ Old(q)
        BY <2>3, <2>10, <3>2
      <3>3. CASE New(p) /\ New(q)
        <4> DEFINE i == p - Len(f[n])
                   j == q - Len(f[n])
        <4>1. i \in 1..Len(s[k]) /\ j \in 1..Len(s[k]) /\ s[k][i] = s[k][j]
          BY <3>3
        <4>2. i = j => p = q
          BY <2>5
        <4> HIDE DEF i, j
        <4> QED
          BY <2>2, <2>10, <4>1, <4>2
      <3>4. (Old(p) \/ New(p)) /\ (Old(q) \/ New(q))
        BY <2>6
      <3> HIDE DEF Old, New
      <3> QED
        BY <3>1, <3>2, <3>3, <3>4
    <2> QED
      BY <2>9, <2>10
  <1>6. size \in Good
    <2> HIDE DEF Good
    <2> QED
      BY <1>3, <1>4, <1>5, AllNumbers
  <1>7. From(size) /\ (Apart => Injective(size)) /\ f[size] \in Seq(K)
    <2>1. size \in 0..size
      BY <1>3
    <2> HIDE DEF size, From, Injective, Apart
    <2> QED
      BY <1>6, <2>1
  <1> QED
    BY <1>2, <1>7

(* Lists that share no element flatten to a list without repetitions.         *)
LEMMA FlattenDistinct ==
    ASSUME NEW K, NEW s \in Seq(Seq(K)),
           \A d, e \in 1..Len(s) : \A i \in 1..Len(s[d]), j \in 1..Len(s[e]) :
               s[d][i] = s[e][j] => d = e /\ i = j
    PROVE  \A p, q \in 1..Len(FlattenSeq(s)) : FlattenSeq(s)[p] = FlattenSeq(s)[q] => p = q
  BY FlattenElements, Zenon

(* The first n of the sequences in s, put together. *)
FirstLists(s, n) == FlattenSeq([i \in 1..n |-> s[i]])

(* They are put together one by one.                                          *)
LEMMA FirstListsGrow ==
    ASSUME NEW K, NEW s \in Seq(Seq(K))
    PROVE  /\ FirstLists(s, 0) = <<>>
           /\ FirstLists(s, Len(s)) = FlattenSeq(s)
           /\ \A n \in 0..Len(s) : FirstLists(s, n) \in Seq(K)
           /\ \A n \in 1..Len(s) : FirstLists(s, n) = Joined(FirstLists(s, n - 1), s[n])
  <1> DEFINE first(n) == [i \in 1..n |-> s[i]]
  <1>1. Len(s) \in Nat /\ \A i \in 1..Len(s) : s[i] \in Seq(K)
    BY ElementOfSeq
  <1>2. ASSUME NEW n \in 0..Len(s)
        PROVE  /\ first(n) \in Seq(Seq(K)) /\ Len(first(n)) = n
               /\ \A i \in 1..n : first(n)[i] = s[i]
    <2>1. n \in Nat /\ \A i \in 1..n : s[i] \in Seq(K)
      BY <1>1
    <2>2. first(n) \in [1..n -> Seq(K)]
      BY <2>1
    <2> QED
      BY <2>1, <2>2
  <1>3. FirstLists(s, 0) = <<>>
    <2> DEFINE none == first(0)
    <2>1. none \in Seq(Seq(K)) /\ Len(none) = 0
      BY <1>1, <1>2
    <2>2. FirstLists(s, 0) = FlattenSeq(none)
      BY DEF FirstLists
    <2> HIDE DEF none
    <2> QED
      BY <2>1, <2>2, FlattenNone
  <1>4. FirstLists(s, Len(s)) = FlattenSeq(s)
    <2>1. first(Len(s)) = s
      BY <1>1
    <2> QED
      BY <2>1 DEF FirstLists
  <1>5. \A n \in 0..Len(s) : FirstLists(s, n) \in Seq(K)
    BY <1>2, FlattenElements DEF FirstLists
  <1>6. ASSUME NEW n \in 1..Len(s)
        PROVE  FirstLists(s, n) = Joined(FirstLists(s, n - 1), s[n])
    <2> DEFINE most == first(n - 1)
               all == first(n)
    <2>1. n - 1 \in 0..Len(s) /\ n \in 0..Len(s)
      BY <1>1
    <2>2. /\ most \in Seq(Seq(K)) /\ Len(most) = n - 1
          /\ \A i \in 1..(n - 1) : most[i] = s[i]
      BY <1>2, <2>1
    <2>3. all \in Seq(Seq(K)) /\ Len(all) = n /\ \A i \in 1..n : all[i] = s[i]
      BY <1>2, <2>1
    <2>4. FirstLists(s, n) = FlattenSeq(all) /\ FirstLists(s, n - 1) = FlattenSeq(most)
      BY DEF FirstLists
    <2> HIDE DEF most, all
    <2>5. Len(all) = Len(most) + 1 /\ \A i \in 1..Len(most) : all[i] = most[i]
      <3>1. n \in Nat /\ (n - 1) + 1 = n /\ \A i \in 1..(n - 1) : i \in 1..n
        BY <1>1
      <3>2. Len(all) = Len(most) + 1
        BY <2>2, <2>3, <3>1
      <3>3. ASSUME NEW i \in 1..(n - 1)
            PROVE  all[i] = most[i]
        <4>1. all[i] = s[i]
          BY <2>3, <3>1
        <4>2. most[i] = s[i]
          BY <2>2
        <4> QED
          BY <4>1, <4>2
      <3> QED
        BY <2>2, <3>2, <3>3
    <2>6. FlattenSeq(all) = Joined(FlattenSeq(most), all[Len(all)])
      BY <2>2, <2>3, <2>5, FlattenOneMore
    <2>7. all[Len(all)] = s[n]
      BY <2>3
    <2> QED
      BY <2>4, <2>6, <2>7
  <1> QED
    BY <1>3, <1>4, <1>5, <1>6

(* A value in front of a list. *)
LEMMA InFront ==
    ASSUME NEW K, NEW x \in K, NEW list \in Seq(K)
    PROVE  /\ <<x>> \o list \in Seq(K)
           /\ Len(<<x>> \o list) = Len(list) + 1
           /\ (<<x>> \o list)[1] = x
           /\ \A i \in 1..Len(list) : (<<x>> \o list)[i + 1] = list[i]
  <1> DEFINE front == <<x>>
             all == front \o list
  <1>1. front \in Seq(K) /\ Len(front) = 1 /\ front[1] = x /\ Len(list) \in Nat
    OBVIOUS
  <1> HIDE DEF front
  <1>2. /\ all \in Seq(K)
        /\ Len(all) = Len(front) + Len(list)
        /\ \A i \in 1..(Len(front) + Len(list)) :
               all[i] = IF i <= Len(front) THEN front[i] ELSE list[i - Len(front)]
    BY <1>1, ConcatProperties
  <1> HIDE DEF all
  <1>3. ASSUME NEW i \in 1..Len(list)
        PROVE  all[i + 1] = list[i]
    <2> DEFINE j == i + 1
    <2>1. j \in 1..(Len(front) + Len(list)) /\ ~(j <= Len(front)) /\ j - Len(front) = i
      BY <1>1
    <2> HIDE DEF j
    <2>2. all[j] = list[j - Len(front)]
      BY <1>2, <2>1
    <2> QED
      BY <2>1, <2>2 DEF j
  <1>4. all[1] = x
    BY <1>1, <1>2
  <1> QED
    BY <1>1, <1>2, <1>3, <1>4 DEF all, front

(* The first i elements of a list.                                            *)
FirstPart(x, i) == SubSeq(x, 1, i)

(* The first elements of a list, one by one. *)
LEMMA FirstElements ==
    ASSUME NEW V, NEW x \in Seq(V)
    PROVE  /\ FirstPart(x, 0) = <<>> /\ FirstPart(x, Len(x)) = x
           /\ \A i \in 0..Len(x) : FirstPart(x, i) \in Seq(V)
           /\ \A i \in 1..Len(x) : FirstPart(x, i) = Append(FirstPart(x, i - 1), x[i])
  <1>1. FirstPart(x, 0) = <<>>
    BY DEF FirstPart
  <1>2. FirstPart(x, Len(x)) = x
    BY SubSeqFull DEF FirstPart
  <1>3. \A i \in 0..Len(x) : FirstPart(x, i) \in Seq(V)
    BY ElementOfSeq DEF FirstPart
  <1>4. ASSUME NEW i \in 1..Len(x)
        PROVE  FirstPart(x, i) = Append(FirstPart(x, i - 1), x[i])
    <2> DEFINE all == FirstPart(x, i)
               most == FirstPart(x, i - 1)
               more == Append(most, x[i])
    <2>1. x[i] \in V /\ i \in Nat /\ i - 1 \in 0..Len(x) /\ i \in 0..Len(x)
      BY ElementOfSeq
    <2>2. all \in Seq(V) /\ Len(all) = i /\ \A j \in 1..i : all[j] = x[j]
      BY <1>3, <2>1 DEF FirstPart
    <2>3. most \in Seq(V) /\ Len(most) = i - 1 /\ \A j \in 1..(i - 1) : most[j] = x[j]
      BY <1>3, <2>1 DEF FirstPart
    <2> HIDE DEF most, all
    <2>4. /\ more \in Seq(V) /\ Len(more) = Len(most) + 1 /\ more[Len(most) + 1] = x[i]
          /\ \A j \in 1..Len(most) : more[j] = most[j]
      BY <2>1, <2>3, AppendProperties
    <2> HIDE DEF more
    <2>5. Len(more) = i /\ more[i] = x[i] /\ \A j \in 1..(i - 1) : more[j] = most[j]
      BY <2>1, <2>3, <2>4
    <2>6. \A j \in 1..i : j = i \/ j \in 1..(i - 1)
      BY <2>1
    <2>7. all = more
      BY <2>2, <2>3, <2>4, <2>5, <2>6, SeqEqual
    <2> QED
      BY <2>7 DEF all, most, more
  <1> QED
    BY <1>1, <1>2, <1>3, <1>4

(* What is left of a list and of what follows it. *)
LEMMA RestOfList ==
    ASSUME NEW K, NEW x \in Seq(K), NEW rest \in Seq(K)
    PROVE  \E tails \in [0..Len(x) -> Seq(K)] :
               /\ tails[0] = Joined(x, rest) /\ tails[Len(x)] = rest
               /\ \A i \in 1..Len(x) : tails[i - 1] = Joined(<<x[i]>>, tails[i])
  <1> DEFINE n == Len(x)
             left(i) == SubSeq(x, i + 1, n)
             tails == [i \in 0..n |-> Joined(left(i), rest)]
  <1>1. n \in Nat
    OBVIOUS
  <1>2. \A i \in 0..n : left(i) \in Seq(K)
    BY <1>1, ElementOfSeq
  <1>3. tails \in [0..n -> Seq(K)]
    <2> HIDE DEF left
    <2> QED
      BY <1>2, JoinedLists
  <1>4. left(0) = x /\ left(n) = <<>>
    BY <1>1, SubSeqFull
  <1>5. tails[0] = Joined(x, rest) /\ tails[n] = rest
    <2> HIDE DEF left
    <2> QED
      BY <1>1, <1>4, JoinedLists
  <1>6. ASSUME NEW i \in 1..n
        PROVE  tails[i - 1] = Joined(<<x[i]>>, tails[i])
    <2>1. x[i] \in K /\ i - 1 \in 0..n /\ i \in 0..n /\ (i - 1) + 1 = i /\ n \in i..n
      BY <1>1, ElementOfSeq
    <2>2. left(i - 1) = Joined(<<x[i]>>, left(i))
      BY <2>1, SubSeqRecursiveFirst DEF Joined
    <2> DEFINE one == <<x[i]>>
    <2>3. one \in Seq(K)
      BY <2>1
    <2> HIDE DEF left, one
    <2>4. Joined(Joined(one, left(i)), rest) = Joined(one, Joined(left(i), rest))
      BY <1>2, <2>1, <2>3, JoinedLists
    <2>5. tails[i - 1] = Joined(left(i - 1), rest) /\ tails[i] = Joined(left(i), rest)
      BY <2>1
    <2> HIDE DEF tails
    <2> QED
      BY <2>2, <2>4, <2>5 DEF one
  <1> HIDE DEF tails
  <1> QED
    BY <1>3, <1>5, <1>6

(* Three lists, one after the other. *)
LEMMA ThreeJoined ==
    ASSUME NEW K, NEW a \in Seq(K), NEW b \in Seq(K), NEW c \in Seq(K)
    PROVE  /\ Joined(Joined(a, b), c) = Joined(a, Joined(b, c))
           /\ Joined(a, b) \in Seq(K) /\ Joined(b, c) \in Seq(K)
  BY JoinedLists

(* f starts at the base and goes on by the function of each round.            *)
AreRounds(f, base, next, size) == f[0] = base /\ \A i \in 1..size : f[i] = next[i][f[i - 1]]

(* There is such a function.                                                  *)
LEMMA SomeRounds ==
    ASSUME NEW T, NEW base \in T, NEW size \in Nat, NEW next \in [1..size -> [T -> T]]
    PROVE  \E f \in [0..size -> T] : AreRounds(f, base, next, size)
  BY RoundsExist DEF AreRounds

(* What is left of lists that were put together, and of what follows them.    *)
LEMMA RestOfChunks ==
    ASSUME NEW K, NEW s \in Seq(Seq(K)), NEW rest \in Seq(K)
    PROVE  \E tails \in [0..Len(s) -> Seq(K)] :
               /\ tails[0] = Joined(FlattenSeq(s), rest) /\ tails[Len(s)] = rest
               /\ \A i \in 1..Len(s) : tails[i - 1] = Joined(s[i], tails[i])
  <1> DEFINE n == Len(s)
             T == Seq(K)
             next == [k \in 1..n |-> [t \in T |-> Joined(s[n - k + 1], t)]]
  <1>1. n \in Nat /\ \A i \in 1..n : s[i] \in Seq(K)
    BY ElementOfSeq
  <1>2. \A k \in 1..n : n - k + 1 \in 1..n
    BY <1>1
  <1>3. next \in [1..n -> [T -> T]]
    <2>1. ASSUME NEW k \in 1..n, NEW t \in T
          PROVE  Joined(s[n - k + 1], t) \in T
      <3>1. s[n - k + 1] \in Seq(K)
        BY <1>1, <1>2
      <3> QED
        BY <3>1, JoinedLists
    <2> QED
      BY <2>1
  <1>4. \E b \in [0..n -> T] : b[0] = rest /\ \A k \in 1..n : b[k] = next[k][b[k - 1]]
    <2> HIDE DEF next, n, T
    <2>1. rest \in T
      BY DEF T
    <2>2. \E b \in [0..n -> T] : AreRounds(b, rest, next, n)
      BY <1>1, <1>3, <2>1, SomeRounds
    <2> QED
      BY <2>2 DEF AreRounds
  <1>5. PICK b \in [0..n -> T] : b[0] = rest /\ \A k \in 1..n : b[k] = next[k][b[k - 1]]
    BY <1>4
  <1> DEFINE tails == [i \in 0..n |-> b[n - i]]
  <1>6. tails \in [0..n -> Seq(K)] /\ tails[n] = rest
    BY <1>1, <1>5
  <1>7. ASSUME NEW i \in 1..n
        PROVE  tails[i - 1] = Joined(s[i], tails[i])
    <2> DEFINE k == n - i + 1
    <2>1. k \in 1..n /\ k - 1 \in 0..n /\ n - k + 1 = i /\ k - 1 = n - i /\ k = n - (i - 1)
          /\ i \in 0..n /\ i - 1 \in 0..n
      BY <1>1
    <2> HIDE DEF k
    <2>2. b[k] = next[k][b[k - 1]] /\ b[k - 1] \in T
      BY <1>5, <2>1
    <2>3. next[k][b[k - 1]] = Joined(s[n - k + 1], b[k - 1])
      BY <2>1, <2>2
    <2>4. tails[i - 1] = b[k] /\ tails[i] = b[k - 1]
      BY <2>1
    <2> HIDE DEF tails, next
    <2> QED
      BY <2>1, <2>2, <2>3, <2>4
  <1> HIDE DEF tails
  <1>8. PICK f \in [0..n -> Seq(K)] : Joins(f, s)
    BY JoinsExist
  <1>9. FlattenSeq(s) = f[n]
    BY <1>8, FlattenIsJoin
  <1> DEFINE Same == {k \in Nat : k <= n => Joined(f[k], tails[k]) = tails[0]}
  <1>10. 0 \in Same
    <2>1. f[0] = <<>>
      BY <1>8 DEF Joins
    <2>2. tails[0] \in Seq(K)
      <3>1. 0 \in 0..n
        BY <1>1
      <3> QED
        BY <1>6, <3>1
    <2>3. Joined(<<>>, tails[0]) = tails[0]
      BY <2>2, JoinedLists
    <2> QED
      BY <2>1, <2>3
  <1>11. ASSUME NEW k \in Nat, k \in Same
         PROVE  k + 1 \in Same
    <2> DEFINE i == k + 1
    <2> SUFFICES ASSUME i <= n
                 PROVE  Joined(f[i], tails[i]) = tails[0]
      OBVIOUS
    <2>1. i \in 1..n /\ i - 1 = k /\ i \in 0..n /\ k \in 0..n /\ k <= n
      BY <1>1
    <2> HIDE DEF i
    <2>2. f[i] = Joined(f[k], s[i])
      BY <1>8, <2>1 DEF Joins, Joined
    <2>3. tails[k] = Joined(s[i], tails[i])
      BY <1>7, <2>1
    <2>4. f[k] \in Seq(K) /\ s[i] \in Seq(K) /\ tails[i] \in Seq(K)
      BY <1>1, <1>6, <1>8, <2>1
    <2>5. Joined(Joined(f[k], s[i]), tails[i]) = Joined(f[k], Joined(s[i], tails[i]))
      <3> DEFINE x == f[k]
                 y == s[i]
                 z == tails[i]
      <3>1. x \in Seq(K) /\ y \in Seq(K) /\ z \in Seq(K)
        BY <2>4
      <3> HIDE DEF x, y, z
      <3>2. Joined(Joined(x, y), z) = Joined(x, Joined(y, z))
        BY <3>1, ThreeJoined
      <3> QED
        BY <3>2 DEF x, y, z
    <2>6. Joined(f[k], tails[k]) = tails[0]
      BY <1>11, <2>1
    <2> QED
      BY <2>2, <2>3, <2>5, <2>6
  <1>12. Joined(f[n], tails[n]) = tails[0]
    <2> HIDE DEF Same
    <2>1. n \in Same
      BY <1>1, <1>10, <1>11, AllNumbers
    <2> QED
      BY <1>1, <2>1 DEF Same
  <1> QED
    BY <1>6, <1>7, <1>9, <1>12

(* Two values, one after the other.                                           *)
LEMMA TwoValues ==
    ASSUME NEW K, NEW b \in K, NEW q \in K
    PROVE  <<b>> \o <<q>> = <<b, q>>
  <1> DEFINE list == <<q>>
             all == <<b>> \o list
  <1>1. list \in Seq(K) /\ Len(list) = 1 /\ list[1] = q
    OBVIOUS
  <1> HIDE DEF list
  <1>2. /\ all \in Seq(K) /\ Len(all) = Len(list) + 1 /\ all[1] = b
        /\ \A i \in 1..Len(list) : all[i + 1] = list[i]
    BY <1>1, InFront
  <1> HIDE DEF all
  <1>3. all[1 + 1] = q
    BY <1>1, <1>2
  <1>4. all = <<b, q>>
    BY <1>1, <1>2, <1>3
  <1> QED
    BY <1>4 DEF all, list

-----------------------------------------------------------------------------
(* Places in lists, parts of lists, and rows of the same width.               *)

(* Where each of the lists is, when they are put together: after the ones     *)
(* before it.                                                                 *)
LEMMA FlattenPlaces ==
    ASSUME NEW K, NEW s \in Seq(Seq(K)), NEW g \in 1..Len(s)
    PROVE  /\ Len(FirstLists(s, g - 1)) \in Nat
           /\ Len(FirstLists(s, g)) = Len(FirstLists(s, g - 1)) + Len(s[g])
           /\ Len(FirstLists(s, g)) <= Len(FlattenSeq(s))
           /\ \A j \in 1..Len(s[g]) : FlattenSeq(s)[Len(FirstLists(s, g - 1)) + j] = s[g][j]
  <1> DEFINE all(h) == FirstLists(s, h)
             n == Len(s)
  <1>1. n \in Nat /\ g \in 1..n /\ g - 1 \in 0..n /\ \A h \in 1..n : s[h] \in Seq(K)
    BY ElementOfSeq
  <1>2. \A h \in 0..n : all(h) \in Seq(K)
    BY FirstListsGrow
  <1>3. ASSUME NEW h \in 1..n
        PROVE  /\ Len(all(h)) = Len(all(h - 1)) + Len(s[h])
               /\ \A p \in 1..Len(all(h - 1)) : all(h)[p] = all(h - 1)[p]
               /\ \A j \in 1..Len(s[h]) : all(h)[Len(all(h - 1)) + j] = s[h][j]
    <2> DEFINE first == all(h - 1)
               last == s[h]
    <2>1. first \in Seq(K) /\ last \in Seq(K)
      BY <1>1, <1>2
    <2>2. all(h) = Joined(first, last)
      BY FirstListsGrow
    <2> HIDE DEF first, last, all
    <2>3. /\ Len(first \o last) = Len(first) + Len(last)
          /\ \A p \in 1..Len(first) : (first \o last)[p] = first[p]
          /\ \A j \in 1..Len(last) : (first \o last)[Len(first) + j] = last[j]
      BY <2>1
    <2>4. all(h) = first \o last
      BY <2>2 DEF Joined
    <2> QED
      BY <2>3, <2>4 DEF first, last
  <1> HIDE DEF all
  <1> DEFINE Kept(h) == /\ Len(all(g)) <= Len(all(h))
                        /\ \A p \in 1..Len(all(g)) : all(h)[p] = all(g)[p]
             Done == {m \in Nat : \A h \in Nat : h = g + m /\ h <= n => Kept(h)}
  <1>4. n - g \in Done
    <2>1. 0 \in Done
      <3>1. Len(all(g)) \in Nat /\ g + 0 = g
        BY <1>1, <1>2
      <3> QED
        BY <3>1
    <2>2. ASSUME NEW m \in Nat, m \in Done
          PROVE  m + 1 \in Done
      <3> SUFFICES ASSUME NEW h \in Nat, h = g + (m + 1), h <= n
                   PROVE  Kept(h)
        OBVIOUS
      <3>1. h \in 1..n /\ h - 1 = g + m /\ h - 1 \in 0..n /\ h \in 0..n /\ g \in 0..n
        BY <1>1
      <3>2. Kept(h - 1)
        BY <1>1, <2>2, <3>1
      <3>3. /\ Len(all(h)) = Len(all(h - 1)) + Len(s[h])
            /\ \A p \in 1..Len(all(h - 1)) : all(h)[p] = all(h - 1)[p]
        BY <1>3, <3>1
      <3>4. all(g) \in Seq(K) /\ all(h - 1) \in Seq(K) /\ s[h] \in Seq(K)
        BY <1>1, <1>2, <3>1
      <3>5. Len(all(g)) \in Nat /\ Len(all(h - 1)) \in Nat /\ Len(s[h]) \in Nat
        BY <3>4
      <3>6. Len(all(g)) <= Len(all(h))
        <4> DEFINE a == Len(all(g))
                   b == Len(all(h - 1))
                   c == Len(all(h))
                   d == Len(s[h])
        <4>1. a <= b
          BY <3>2
        <4>2. c = b + d
          BY <3>3
        <4>3. a \in Nat /\ b \in Nat /\ d \in Nat
          BY <3>5
        <4> HIDE DEF a, b, c, d
        <4>4. a <= c
          BY <4>1, <4>2, <4>3
        <4> QED
          BY <4>4 DEF a, c
      <3>7. ASSUME NEW p \in 1..Len(all(g))
            PROVE  all(h)[p] = all(g)[p]
        <4>1. p \in 1..Len(all(h - 1))
          BY <3>2, <3>5
        <4> QED
          BY <3>2, <3>3, <4>1
      <3> QED
        BY <3>6, <3>7
    <2>3. n - g \in Nat
      BY <1>1
    <2>4. \A m \in Nat : m \in Done
      <3> HIDE DEF Done
      <3> QED
        BY <2>1, <2>2, AllNumbers
    <2> HIDE DEF Done
    <2> QED
      BY <2>3, <2>4
  <1>5. Kept(n)
    BY <1>1, <1>4
  <1>6. all(n) = FlattenSeq(s)
    BY FirstListsGrow DEF all
  <1>7. /\ Len(all(g)) = Len(all(g - 1)) + Len(s[g])
        /\ \A j \in 1..Len(s[g]) : all(g)[Len(all(g - 1)) + j] = s[g][j]
    BY <1>1, <1>3
  <1>8. all(g) \in Seq(K) /\ all(g - 1) \in Seq(K) /\ s[g] \in Seq(K)
    BY <1>1, <1>2
  <1>9. Len(all(g)) \in Nat /\ Len(all(g - 1)) \in Nat /\ Len(s[g]) \in Nat
    BY <1>8
  <1>10. ASSUME NEW j \in 1..Len(s[g])
         PROVE  FlattenSeq(s)[Len(all(g - 1)) + j] = s[g][j]
    <2> DEFINE p == Len(all(g - 1)) + j
    <2>1. p \in 1..Len(all(g))
      BY <1>7, <1>9
    <2> HIDE DEF p
    <2>2. FlattenSeq(s)[p] = all(g)[p]
      BY <1>5, <1>6, <2>1
    <2> QED
      BY <1>7, <2>2 DEF p
  <1> QED
    BY <1>5, <1>6, <1>7, <1>9, <1>10 DEF all

(* Lists of the same length are put together like the rows of a table.        *)
LEMMA EqualLists ==
    ASSUME NEW K, NEW s \in Seq(Seq(K)), NEW w \in Nat, \A g \in 1..Len(s) : Len(s[g]) = w
    PROVE  /\ FlattenSeq(s) \in Seq(K)
           /\ Len(FlattenSeq(s)) = w * Len(s)
           /\ \A g \in 1..Len(s), j \in 1..w : FlattenSeq(s)[w * (g - 1) + j] = s[g][j]
  <1> DEFINE n == Len(s)
             len(h) == Len(FirstLists(s, h))
             Done == {h \in Nat : h <= n => len(h) = w * h}
  <1>1. n \in Nat /\ FlattenSeq(s) \in Seq(K)
    BY FlattenElements
  <1>2. len(0) = 0 /\ len(n) = Len(FlattenSeq(s))
    <2>1. Len(<<>>) = 0
      OBVIOUS
    <2>2. FirstLists(s, 0) = <<>> /\ FirstLists(s, Len(s)) = FlattenSeq(s)
      BY FirstListsGrow
    <2> QED
      BY <2>1, <2>2
  <1>3. \A g \in 1..n : len(g) = len(g - 1) + w
    BY FlattenPlaces
  <1>4. ASSUME NEW g \in 1..n, NEW j \in 1..w
        PROVE  FlattenSeq(s)[len(g - 1) + j] = s[g][j]
    <2>1. Len(s[g]) = w
      OBVIOUS
    <2>2. \A i \in 1..Len(s[g]) : FlattenSeq(s)[len(g - 1) + i] = s[g][i]
      BY FlattenPlaces
    <2> QED
      BY <2>1, <2>2
  <1> HIDE DEF len
  <1>5. \A h \in Nat : h \in Done
    <2>1. 0 \in Done
      BY <1>2
    <2>2. ASSUME NEW h \in Nat, h \in Done
          PROVE  h + 1 \in Done
      <3> SUFFICES ASSUME h + 1 <= n
                   PROVE  len(h + 1) = w * (h + 1)
        OBVIOUS
      <3>1. h + 1 \in 1..n /\ (h + 1) - 1 = h
        BY <1>1
      <3>2. len(h + 1) = len((h + 1) - 1) + w
        BY <1>3, <3>1
      <3>3. len(h) = w * h
        BY <1>1, <2>2
      <3>4. w * (h + 1) = w * h + w
        OBVIOUS
      <3> QED
        BY <3>1, <3>2, <3>3, <3>4
    <2> HIDE DEF Done
    <2> QED
      BY <2>1, <2>2, AllNumbers
  <1>6. \A h \in 0..n : len(h) = w * h
    BY <1>1, <1>5
  <1>7. ASSUME NEW g \in 1..n, NEW j \in 1..w
        PROVE  FlattenSeq(s)[w * (g - 1) + j] = s[g][j]
    <2>1. g - 1 \in 0..n
      BY <1>1
    <2>2. len(g - 1) = w * (g - 1)
      BY <1>6, <2>1
    <2> QED
      BY <1>4, <2>2
  <1> QED
    BY <1>1, <1>2, <1>6, <1>7

(* The part of a list that goes from place lo to place hi.                    *)
IsPart(part, x, lo, hi) ==
    Len(part) = hi - lo + 1 /\ \A i \in 1..(hi - lo + 1) : part[i] = x[lo - 1 + i]

(* SubSeq takes it.                                                           *)
LEMMA PartOfList ==
    ASSUME NEW K, NEW x \in Seq(K), NEW lo \in Nat, NEW hi \in Nat,
           1 <= lo, lo <= hi + 1, hi <= Len(x)
    PROVE  SubSeq(x, lo, hi) \in Seq(K) /\ IsPart(SubSeq(x, lo, hi), x, lo, hi)
  <1>1. \A i \in lo..hi : x[i] \in K
    BY ElementOfSeq
  <1>2. lo \in Int /\ hi \in Int
    OBVIOUS
  <1>3. /\ SubSeq(x, lo, hi) \in Seq(K)
        /\ Len(SubSeq(x, lo, hi)) = IF lo <= hi THEN hi - lo + 1 ELSE 0
        /\ \A i \in 1..(hi - lo + 1) : SubSeq(x, lo, hi)[i] = x[lo + i - 1]
    BY <1>1, <1>2, SubSeqProperties
  <1>4. \A i \in 1..(hi - lo + 1) : lo + i - 1 = lo - 1 + i
    OBVIOUS
  <1> QED
    BY <1>3, <1>4 DEF IsPart

(* A list is the beginning of another if it is not longer and agrees with it. *)
LEMMA PrefixByElements ==
    ASSUME NEW K, NEW L, NEW a \in Seq(K), NEW b \in Seq(L)
    PROVE  IsPrefix(a, b) <=> Len(a) <= Len(b) /\ \A i \in 1..Len(a) : a[i] = b[i]
  <1>1. ASSUME Len(a) <= Len(b)
        PROVE  /\ SubSeq(a, 1, Len(a)) = a
               /\ SubSeq(b, 1, Len(a)) \in Seq(L) /\ Len(SubSeq(b, 1, Len(a))) = Len(a)
               /\ \A i \in 1..Len(a) : SubSeq(b, 1, Len(a))[i] = b[i]
    <2>1. SubSeq(a, 1, Len(a)) = a
      OBVIOUS
    <2>2. /\ SubSeq(b, 1, Len(a)) \in Seq(L) /\ Len(SubSeq(b, 1, Len(a))) = Len(a)
          /\ \A i \in 1..Len(a) : SubSeq(b, 1, Len(a))[i] = b[i]
      BY <1>1
    <2> QED
      BY <2>1, <2>2
  <1>2. ASSUME IsPrefix(a, b)
        PROVE  Len(a) <= Len(b) /\ \A i \in 1..Len(a) : a[i] = b[i]
    <2>1. Len(a) <= Len(b) /\ SubSeq(a, 1, Len(a)) = SubSeq(b, 1, Len(a))
      BY <1>2 DEF IsPrefix
    <2> QED
      BY <1>1, <2>1
  <1>3. ASSUME Len(a) <= Len(b), \A i \in 1..Len(a) : a[i] = b[i]
        PROVE  IsPrefix(a, b)
    <2>1. SubSeq(b, 1, Len(a)) = a
      <3> DEFINE c == SubSeq(b, 1, Len(a))
      <3>1. c \in Seq(L) /\ Len(c) = Len(a) /\ \A i \in 1..Len(a) : c[i] = b[i]
        BY <1>1, <1>3
      <3> HIDE DEF c
      <3>2. c = a
        BY <1>3, <3>1
      <3> QED
        BY <3>2 DEF c
    <2> QED
      BY <1>1, <1>3, <2>1 DEF IsPrefix
  <1> QED
    BY <1>2, <1>3

(* Where the elements of two lists are, one after the other. *)
AreJoined(c, a, b) ==
    /\ Len(c) = Len(a) + Len(b)
    /\ \A i \in 1..Len(a) : c[i] = a[i]
    /\ \A i \in 1..Len(b) : c[Len(a) + i] = b[i]

(* Joined puts them there. *)
LEMMA JoinedPlaces ==
    ASSUME NEW K, NEW a \in Seq(K), NEW b \in Seq(K)
    PROVE  Joined(a, b) \in Seq(K) /\ AreJoined(Joined(a, b), a, b)
  <1> DEFINE c == Joined(a, b)
  <1>1. /\ a \o b \in Seq(K) /\ Len(a \o b) = Len(a) + Len(b)
        /\ \A i \in 1..(Len(a) + Len(b)) : (a \o b)[i] = IF i <= Len(a) THEN a[i] ELSE b[i - Len(a)]
    BY ConcatProperties
  <1>2. Len(a) \in Nat /\ Len(b) \in Nat
    OBVIOUS
  <1>3. /\ c \in Seq(K) /\ Len(c) = Len(a) + Len(b)
        /\ \A i \in 1..(Len(a) + Len(b)) : c[i] = IF i <= Len(a) THEN a[i] ELSE b[i - Len(a)]
    BY <1>1 DEF Joined
  <1> HIDE DEF c
  <1>4. \A i \in 1..Len(a) : c[i] = a[i]
    BY <1>2, <1>3
  <1>5. \A i \in 1..Len(b) : c[Len(a) + i] = b[i]
    <2> SUFFICES ASSUME NEW i \in 1..Len(b)
                 PROVE  c[Len(a) + i] = b[i]
      OBVIOUS
    <2>1. Len(a) + i \in 1..(Len(a) + Len(b)) /\ ~(Len(a) + i <= Len(a)) /\ (Len(a) + i) - Len(a) = i
      BY <1>2
    <2> QED
      BY <1>3, <2>1
  <1>6. c \in Seq(K) /\ AreJoined(c, a, b)
    BY <1>3, <1>4, <1>5 DEF AreJoined
  <1> QED
    BY <1>6 DEF c

(* The first elements of a list are a beginning of it. *)
LEMMA FirstPartIsPrefix ==
    ASSUME NEW K, NEW x \in Seq(K), NEW n \in 0..Len(x)
    PROVE  IsPrefix(FirstPart(x, n), x)
  <1> DEFINE part == FirstPart(x, n)
  <1>1. n \in Nat /\ n <= Len(x) /\ Len(x) \in Nat
    OBVIOUS
  <1>2. part \in Seq(K) /\ Len(part) = n /\ \A i \in 1..n : part[i] = x[i]
    BY <1>1 DEF FirstPart
  <1> HIDE DEF part
  <1>3. IsPrefix(part, x)
    BY <1>1, <1>2, PrefixByElements
  <1> QED
    BY <1>3 DEF part

(* A list of elements of a set is one of elements of a larger set. *)
LEMMA WiderSeq ==
    ASSUME NEW K, NEW L, K \subseteq L, NEW x \in Seq(K)
    PROVE  x \in Seq(L)
  OBVIOUS

(* Rows of the same width. *)
LEMMA MoreRows ==
    ASSUME NEW w \in Nat \ {0}, NEW m \in Nat, NEW n \in Nat
    PROVE  /\ w * n \in Nat /\ w * n = n * w
           /\ m <= n <=> w * m <= w * n
           /\ w * (n + 1) = w * n + w
           /\ n <= w * n
           /\ (w * n) % w = 0 /\ (w * n) \div w = n
  <1>1. w * n \in Nat /\ w * n = n * w /\ w * m \in Nat
    OBVIOUS
  <1>2. m <= n => w * m <= w * n
    <2> SUFFICES ASSUME m <= n
                 PROVE  w * m <= w * n
      OBVIOUS
    <2>1. PICK d \in Nat : n = m + d
      OBVIOUS
    <2>2. w * n = w * m + w * d /\ w * d \in Nat
      BY <2>1
    <2> QED
      BY <1>1, <2>2
  <1>3. m > n => w * m > w * n
    <2> SUFFICES ASSUME m > n
                 PROVE  w * m > w * n
      OBVIOUS
    <2>1. PICK d \in Nat : m = n + 1 + d
      <3>1. m - n - 1 \in Nat /\ m = n + 1 + (m - n - 1)
        OBVIOUS
      <3> QED
        BY <3>1
    <2>2. w * m = w * n + w + w * d /\ w * d \in Nat
      BY <2>1
    <2> QED
      BY <1>1, <2>2
  <1>4. w * (n + 1) = w * n + w
    OBVIOUS
  <1>5. n <= w * n
    <2>1. PICK d \in Nat : w = 1 + d
      <3>1. w - 1 \in Nat /\ w = 1 + (w - 1)
        OBVIOUS
      <3> QED
        BY <3>1
    <2>2. w * n = n + d * n /\ d * n \in Nat
      BY <2>1
    <2> QED
      BY <1>1, <2>2
  <1>6. (w * n) % w = 0 /\ (w * n) \div w = n
    OBVIOUS
  <1> QED
    BY <1>1, <1>2, <1>3, <1>4, <1>5, <1>6

(* A number of rows of width w, if there is nothing left over. *)
LEMMA WholeRows ==
    ASSUME NEW w \in Nat \ {0}, NEW n \in Nat, n % w = 0
    PROVE  n \div w \in Nat /\ n = w * (n \div w)
  OBVIOUS
=============================================================================
