----------------------- MODULE MEPSQL_DispatcherProofs -----------------------
(* Theorems about the dispatcher that writes a row per lost request: any   *)
(* buffer, any part of it dropped at a time, any width of the int.         *)
EXTENDS MEPSQL_Dispatcher, FoldLemmas

(* What a number is on the wire.                                           *)
U(x) == AsUnsigned(x)

LEMMA UnsignedNumber ==
  ASSUME NEW x \in Int32
  PROVE  /\ U(x) \in 0 .. 2 * HalfRange - 1
         /\ Wrap(U(x)) = x
BY IntAssumption DEF U, AsUnsigned, Wrap, Int32

LEMMA WrappedNumber ==
  ASSUME NEW n \in 0 .. 2 * HalfRange - 1
  PROVE  Wrap(n) \in Int32 /\ U(Wrap(n)) = n
BY IntAssumption DEF U, AsUnsigned, Wrap, Int32

LEMMA WrappedNext ==
  ASSUME NEW x \in Int32 PROVE Wrap(x + 1) \in Int32 /\ Wrap(x - 1) \in Int32
BY IntAssumption DEF Wrap, Int32
-----------------------------------------------------------------------------
(* The greatest number, as unsigned.                                       *)
Later(l, s) == IF AsUnsigned(s) > AsUnsigned(l) THEN s ELSE l

LastFold(it, last, seqnos) ==
  it = [t \in SUBSET (DOMAIN seqnos) |->
          IF t = {} THEN last ELSE Later(it[t \ {Max(t)}], seqnos[Max(t)])]

LEMMA LastSeqnoSteps ==
  ASSUME NEW last \in Int32, NEW seqnos \in Seq(Int32)
  PROVE  \E p : /\ p \in [0 .. Len(seqnos) -> Int32]
                /\ p[0] = last
                /\ \A k \in 1 .. Len(seqnos) : p[k] = Later(p[k - 1], seqnos[k])
                /\ LastSeqno(last, seqnos) = p[Len(seqnos)]
<1>. DEFINE n == Len(seqnos)
            c == [t \in SUBSET (1 .. n) |-> Max(t)]
            g == [i \in 1 .. n |-> [a \in Int32 |-> Later(a, seqnos[i])]]
            it == CHOOSE jt : LastFold(jt, last, seqnos)
<1>1. n \in Nat /\ DOMAIN seqnos = 1 .. n /\ \A i \in 1 .. n : seqnos[i] \in Int32
  OBVIOUS
<1>2. \A i \in 1 .. n, a \in Int32 : /\ g[i][a] = Later(a, seqnos[i])
                                     /\ g[i][a] \in Int32
  BY <1>1 DEF Later
<1>3. /\ TakesMax(c, n)
      /\ \A t \in SUBSET (1 .. n) : c[t] = Max(t)
      /\ \A t \in SUBSET (1 .. n) : t # {} => c[t] \in t /\ c[t] \in 1 .. n
  <2>1. TakesMax(c, n)
    BY <1>1, MaxTakesMax
  <2>. HIDE DEF n
  <2>2. \A t \in SUBSET (1 .. n) : c[t] = Max(t)
    OBVIOUS
  <2>. HIDE DEF c
  <2>. QED  BY <2>1, <2>2 DEF TakesMax
<1>4. IsFiniteSet(1 .. n)
  BY <1>1, FS_Interval
<1>. HIDE DEF n, c, g
<1>5. \E jt : LastFold(jt, last, seqnos)
  <2>1. PICK jt \in [SUBSET (1 .. n) -> Int32] : IsFold(jt, 1 .. n, last, c, g)
    BY <1>2, <1>3, <1>4, FoldExists
  <2>2. ASSUME NEW t \in SUBSET (1 .. n), t # {}
        PROVE  g[c[t]][jt[t \ {c[t]}]] = Later(jt[t \ {Max(t)}], seqnos[Max(t)])
    BY <1>2, <1>3, <2>1, <2>2
  <2>3. jt = [t \in SUBSET (1 .. n) |->
                IF t = {} THEN last ELSE g[c[t]][jt[t \ {c[t]}]]]
    BY <2>1, Zenon DEF IsFold
  <2>4. jt = [t \in SUBSET (1 .. n) |->
                IF t = {} THEN last ELSE Later(jt[t \ {Max(t)}], seqnos[Max(t)])]
    BY <2>2, <2>3
  <2>. QED  BY <1>1, <2>4, Zenon DEF LastFold
<1>6. LastFold(it, last, seqnos)
  BY <1>5
<1>7. LastSeqno(last, seqnos) = it[DOMAIN seqnos]
  BY Zenon DEF LastSeqno, FoldLeft, MapThenFoldSet, LastFold, Later
<1>. HIDE DEF it
<1>8. it = [t \in SUBSET (1 .. n) |->
              IF t = {} THEN last ELSE Later(it[t \ {Max(t)}], seqnos[Max(t)])]
  BY <1>1, <1>6, Zenon DEF LastFold
<1>9. Continues(it, Int32, last, c, g, n)
  <2>1. it = [t \in SUBSET (1 .. n) |-> it[t]] /\ it[{}] = last
    BY <1>8
  <2>2. ASSUME NEW t \in SUBSET (1 .. n), t # {}, it[t \ {c[t]}] \in Int32
        PROVE  it[t] = g[c[t]][it[t \ {c[t]}]]
    <3>1. it[t] = Later(it[t \ {Max(t)}], seqnos[Max(t)])
      BY <1>8, <2>2
    <3>2. c[t] = Max(t) /\ c[t] \in 1 .. n
      BY <1>3, <2>2
    <3>. QED  BY <1>2, <2>2, <3>1, <3>2
  <2>. QED  BY <1>2, <2>1, <2>2 DEF Continues
<1>. DEFINE p == [k \in 0 .. n |-> it[1 .. k]]
<1>10. IsPrefixFold(p, Int32, last, g, n)
  BY <1>1, <1>3, <1>9, LeftFoldSteps
<1>11. p[n] = it[1 .. n]
  BY <1>1
<1>. HIDE DEF p
<1>12. /\ p \in [0 .. n -> Int32] /\ p[0] = last
       /\ \A k \in 1 .. n : p[k] = g[k][p[k - 1]] /\ p[k - 1] \in Int32
  BY <1>1, <1>10 DEF IsPrefixFold
<1>. QED  BY <1>1, <1>2, <1>7, <1>11, <1>12 DEF n
-----------------------------------------------------------------------------
(* The numbers in order.                                                   *)
IsOrdered(s) == \A i, j \in 1 .. Len(s) : i <= j => s[i] <= s[j]

Numbers == Seq(Int32)

LEMMA InsertedInOrder ==
  ASSUME NEW ordered \in Numbers, NEW s \in Int32
  PROVE  /\ InsertOrdered(ordered, s) \in Numbers
         /\ ToSet(InsertOrdered(ordered, s)) = ToSet(ordered) \cup {s}
         /\ IsOrdered(ordered) => IsOrdered(InsertOrdered(ordered, s))
<1>. DEFINE n == Len(ordered)
            greater == {i \in DOMAIN ordered : ordered[i] > s}
            place == Min(greater \cup {n + 1})
            result == InsertOrdered(ordered, s)
<1>1. n \in Nat /\ DOMAIN ordered = 1 .. n /\ \A i \in 1 .. n : ordered[i] \in Int32
  BY DEF Numbers
<1>2. /\ place \in 1 .. n + 1
      /\ place <= n => ordered[place] > s
      /\ \A i \in 1 .. n : i < place => ordered[i] <= s
  <2>. DEFINE places == greater \cup {n + 1}
  <2>1. places \subseteq Nat /\ places # {} /\ places \subseteq 1 .. n + 1
    BY <1>1
  <2>2. place \in places /\ \A i \in places : place <= i
    <3>. HIDE DEF places
    <3>1. \E x \in places : \A y \in places : x <= y
      BY <2>1, HasMin
    <3>2. Min(places) \in places /\ \A y \in places : Min(places) <= y
      BY <3>1 DEF Min
    <3>. QED  BY <3>2 DEF places
  <2>. HIDE DEF place, n
  <2>3. \A i \in 1 .. n : i < place => i \notin greater
    BY <1>1, <2>1, <2>2
  <2>4. \A i \in 1 .. n : ordered[i] \in Int /\ s \in Int
    BY <1>1 DEF Int32
  <2>. QED  BY <1>1, <2>1, <2>2, <2>3, <2>4
<1>3. result = InsertAt(ordered, place, s)
  BY DEF InsertOrdered
<1>. DEFINE k == place - 1
<1>. HIDE DEF place, result, n
<1>4. k \in 0 .. n /\ place = k + 1
  BY <1>1, <1>2
<1>. HIDE DEF k
<1>5. result \in Numbers /\ IsInserted(result, ordered, k, s)
  BY <1>3, <1>4, InsertedAt DEF Numbers, n
<1>6. /\ Len(result) = n + 1 /\ DOMAIN result = 1 .. n + 1
      /\ \A i \in 1 .. k : result[i] = ordered[i]
      /\ result[k + 1] = s
      /\ \A i \in k + 1 .. n : result[i + 1] = ordered[i]
  BY <1>5 DEF IsInserted, Numbers, n
<1>7. ToSet(result) = ToSet(ordered) \cup {s}
  <2>1. \A i \in 1 .. n : \E j \in 1 .. n + 1 : result[j] = ordered[i]
    <3>. SUFFICES ASSUME NEW i \in 1 .. n PROVE \E j \in 1 .. n + 1 : result[j] = ordered[i]
      OBVIOUS
    <3>1. CASE i <= k
      BY <1>1, <1>4, <1>6, <3>1
    <3>2. CASE i > k
      <4>1. i + 1 \in 1 .. n + 1 /\ i \in k + 1 .. n
        BY <1>1, <1>4, <3>2
      <4>. QED  BY <1>6, <4>1
    <3>. QED  BY <1>1, <1>4, <3>1, <3>2
  <2>2. \A j \in 1 .. n + 1 : result[j] = s \/ \E i \in 1 .. n : result[j] = ordered[i]
    <3>. SUFFICES ASSUME NEW j \in 1 .. n + 1, j # k + 1
                  PROVE  \E i \in 1 .. n : result[j] = ordered[i]
      BY <1>6
    <3>1. CASE j <= k
      BY <1>1, <1>4, <1>6, <3>1
    <3>2. CASE j > k + 1
      <4>1. j - 1 \in k + 1 .. n /\ j - 1 \in 1 .. n /\ (j - 1) + 1 = j
        BY <1>1, <1>4, <3>2
      <4>2. result[(j - 1) + 1] = ordered[j - 1]
        BY <1>6, <4>1
      <4>. QED  BY <4>1, <4>2
    <3>. QED  BY <1>1, <1>4, <3>1, <3>2
  <2>3. k + 1 \in 1 .. n + 1
    BY <1>1, <1>4
  <2>4. /\ ToSet(result) = {result[j] : j \in 1 .. n + 1}
        /\ ToSet(ordered) = {ordered[i] : i \in 1 .. n}
    BY <1>1, <1>6 DEF ToSet
  <2>5. \A x \in ToSet(result) : x \in ToSet(ordered) \cup {s}
    BY <2>2, <2>4
  <2>6. \A x \in ToSet(ordered) \cup {s} : x \in ToSet(result)
    BY <1>6, <2>1, <2>3, <2>4
  <2>. QED  BY <2>5, <2>6
<1>8. ASSUME IsOrdered(ordered) PROVE IsOrdered(result)
  <2>. SUFFICES ASSUME NEW i \in 1 .. n + 1, NEW j \in 1 .. n + 1, i <= j
                PROVE  result[i] <= result[j]
    BY <1>6 DEF IsOrdered
  <2>0. s \in Int /\ \A m \in 1 .. n : ordered[m] \in Int
    BY <1>1 DEF Int32
  <2>1. \A m \in 1 .. k : ordered[m] <= s
    BY <1>1, <1>2, <1>4
  <2>2. \A m \in k + 1 .. n : s <= ordered[m]
    <3>. SUFFICES ASSUME NEW m \in k + 1 .. n PROVE s <= ordered[m]
      OBVIOUS
    <3>1. ordered[k + 1] > s /\ k + 1 \in 1 .. n /\ m \in 1 .. n /\ k + 1 <= m
      BY <1>1, <1>2, <1>4
    <3>2. ordered[k + 1] <= ordered[m]
      BY <1>8, <3>1 DEF IsOrdered, n
    <3>. QED  BY <2>0, <3>1, <3>2
  <2>3. CASE j <= k
    BY <1>1, <1>4, <1>6, <1>8, <2>3 DEF IsOrdered, n
  <2>4. CASE j = k + 1
    <3>1. result[j] = s
      BY <1>6, <2>4
    <3>2. CASE i <= k
      BY <1>4, <1>6, <2>1, <3>1, <3>2
    <3>3. CASE i = k + 1
      BY <1>6, <2>0, <3>1, <3>3
    <3>. QED  BY <1>1, <1>4, <2>4, <3>2, <3>3
  <2>5. CASE j > k + 1
    <3>1. j - 1 \in k + 1 .. n /\ j - 1 \in 1 .. n /\ (j - 1) + 1 = j
      BY <1>1, <1>4, <2>5
    <3>2. result[j] = ordered[j - 1]
      <4>1. result[(j - 1) + 1] = ordered[j - 1]
        BY <1>6, <3>1
      <4>. QED  BY <3>1, <4>1
    <3>3. CASE i <= k
      BY <1>1, <1>4, <1>6, <1>8, <3>1, <3>2, <3>3 DEF IsOrdered, n
    <3>4. CASE i = k + 1
      BY <1>6, <2>2, <3>1, <3>2, <3>4
    <3>5. CASE i > k + 1
      <4>1. i - 1 \in k + 1 .. n /\ i - 1 \in 1 .. n /\ (i - 1) + 1 = i /\ i - 1 <= j - 1
        BY <1>1, <1>4, <3>5
      <4>2. result[(i - 1) + 1] = ordered[i - 1]
        BY <1>6, <4>1
      <4>3. ordered[i - 1] <= ordered[j - 1]
        BY <1>8, <3>1, <4>1 DEF IsOrdered, n
      <4>. QED  BY <3>2, <4>1, <4>2, <4>3
    <3>. QED  BY <1>1, <1>4, <3>3, <3>4, <3>5
  <2>. QED  BY <1>1, <1>4, <2>3, <2>4, <2>5
<1>. QED  BY <1>5, <1>7, <1>8 DEF result

Place(ordered, s, last) == IF s < last THEN InsertOrdered(ordered, s) ELSE ordered

OrderedFold(it, seqnos, last) ==
  it = [t \in SUBSET (DOMAIN seqnos) |->
          IF t = {} THEN << >> ELSE Place(it[t \ {Max(t)}], seqnos[Max(t)], last)]

LEMMA OrderedSteps ==
  ASSUME NEW seqnos \in Numbers, NEW last
  PROVE  \E p : /\ p \in [0 .. Len(seqnos) -> Numbers]
                /\ p[0] = << >>
                /\ \A k \in 1 .. Len(seqnos) : p[k] = Place(p[k - 1], seqnos[k], last)
                /\ OrderedSeqnos(seqnos, last) = p[Len(seqnos)]
<1>. DEFINE n == Len(seqnos)
            c == [t \in SUBSET (1 .. n) |-> Max(t)]
            g == [i \in 1 .. n |-> [a \in Numbers |-> Place(a, seqnos[i], last)]]
            it == CHOOSE jt : OrderedFold(jt, seqnos, last)
<1>1. n \in Nat /\ DOMAIN seqnos = 1 .. n /\ \A i \in 1 .. n : seqnos[i] \in Int32
  BY DEF Numbers
<1>2. \A i \in 1 .. n, a \in Numbers : /\ g[i][a] = Place(a, seqnos[i], last)
                                     /\ g[i][a] \in Numbers
  BY <1>1, InsertedInOrder DEF Place
<1>2a. << >> \in Numbers
  BY DEF Numbers
<1>3. /\ TakesMax(c, n)
      /\ \A t \in SUBSET (1 .. n) : c[t] = Max(t)
      /\ \A t \in SUBSET (1 .. n) : t # {} => c[t] \in t /\ c[t] \in 1 .. n
  <2>1. TakesMax(c, n)
    BY <1>1, MaxTakesMax
  <2>. HIDE DEF n
  <2>2. \A t \in SUBSET (1 .. n) : c[t] = Max(t)
    OBVIOUS
  <2>. HIDE DEF c
  <2>. QED  BY <2>1, <2>2 DEF TakesMax
<1>4. IsFiniteSet(1 .. n)
  BY <1>1, FS_Interval
<1>. HIDE DEF n, c, g
<1>5. \E jt : OrderedFold(jt, seqnos, last)
  <2>1. PICK jt \in [SUBSET (1 .. n) -> Numbers] : IsFold(jt, 1 .. n, << >>, c, g)
    BY <1>2, <1>2a, <1>3, <1>4, FoldExists
  <2>2. ASSUME NEW t \in SUBSET (1 .. n), t # {}
        PROVE  g[c[t]][jt[t \ {c[t]}]] = Place(jt[t \ {Max(t)}], seqnos[Max(t)], last)
    BY <1>2, <1>3, <2>1, <2>2
  <2>3. jt = [t \in SUBSET (1 .. n) |->
                IF t = {} THEN << >> ELSE g[c[t]][jt[t \ {c[t]}]]]
    BY <2>1, Zenon DEF IsFold
  <2>4. jt = [t \in SUBSET (1 .. n) |->
                IF t = {} THEN << >> ELSE Place(jt[t \ {Max(t)}], seqnos[Max(t)], last)]
    BY <2>2, <2>3
  <2>. QED  BY <1>1, <2>4, Zenon DEF OrderedFold
<1>6. OrderedFold(it, seqnos, last)
  BY <1>5
<1>7. OrderedSeqnos(seqnos, last) = it[DOMAIN seqnos]
  BY Zenon DEF OrderedSeqnos, Place, FoldLeft, MapThenFoldSet, OrderedFold
<1>. HIDE DEF it
<1>8. it = [t \in SUBSET (1 .. n) |->
              IF t = {} THEN << >> ELSE Place(it[t \ {Max(t)}], seqnos[Max(t)], last)]
  BY <1>1, <1>6, Zenon DEF OrderedFold
<1>9. Continues(it, Numbers, << >>, c, g, n)
  <2>1. it = [t \in SUBSET (1 .. n) |-> it[t]] /\ it[{}] = << >>
    BY <1>8
  <2>2. ASSUME NEW t \in SUBSET (1 .. n), t # {}, it[t \ {c[t]}] \in Numbers
        PROVE  it[t] = g[c[t]][it[t \ {c[t]}]]
    <3>1. it[t] = Place(it[t \ {Max(t)}], seqnos[Max(t)], last)
      BY <1>8, <2>2
    <3>2. c[t] = Max(t) /\ c[t] \in 1 .. n
      BY <1>3, <2>2
    <3>. QED  BY <1>2, <2>2, <3>1, <3>2
  <2>. QED  BY <1>2, <2>1, <2>2 DEF Continues
<1>. DEFINE p == [k \in 0 .. n |-> it[1 .. k]]
<1>10. IsPrefixFold(p, Numbers, << >>, g, n)
  BY <1>1, <1>2a, <1>3, <1>9, LeftFoldSteps
<1>11. p[n] = it[1 .. n]
  BY <1>1
<1>. HIDE DEF p
<1>12. /\ p \in [0 .. n -> Numbers] /\ p[0] = << >>
       /\ \A k \in 1 .. n : p[k] = g[k][p[k - 1]] /\ p[k - 1] \in Numbers
  BY <1>1, <1>10 DEF IsPrefixFold
<1>. QED  BY <1>1, <1>2, <1>7, <1>11, <1>12 DEF n

LEMMA OrderedNumbers ==
  ASSUME NEW seqnos \in Numbers, NEW last \in Int32
  PROVE  /\ OrderedSeqnos(seqnos, last) \in Numbers
         /\ IsOrdered(OrderedSeqnos(seqnos, last))
         /\ ToSet(OrderedSeqnos(seqnos, last)) = {s \in ToSet(seqnos) : s < last}
<1>. DEFINE n == Len(seqnos)
            Below(k) == {s \in {seqnos[i] : i \in 1 .. k} : s < last}
<1>1. n \in Nat /\ \A i \in 1 .. n : seqnos[i] \in Int32
  BY DEF Numbers
<1>2. PICK p : /\ p \in [0 .. n -> Numbers]
               /\ p[0] = << >>
               /\ \A k \in 1 .. n : p[k] = Place(p[k - 1], seqnos[k], last)
               /\ OrderedSeqnos(seqnos, last) = p[n]
  BY OrderedSteps
<1>. DEFINE T == {k \in 0 .. n : IsOrdered(p[k]) /\ ToSet(p[k]) = Below(k)}
<1>3. 0 \in T
  <2>1. IsOrdered(<< >>) /\ ToSet(<< >>) = {}
    BY DEF IsOrdered, ToSet
  <2>2. Below(0) = {}
    OBVIOUS
  <2>. QED  BY <1>1, <1>2, <2>1, <2>2
<1>4. ASSUME NEW k \in 1 .. n, k - 1 \in T PROVE k \in T
  <2>1. /\ p[k - 1] \in Numbers /\ IsOrdered(p[k - 1])
        /\ ToSet(p[k - 1]) = Below(k - 1)
    BY <1>1, <1>2, <1>4
  <2>2. Below(k) = IF seqnos[k] < last THEN Below(k - 1) \cup {seqnos[k]}
                   ELSE Below(k - 1)
    <3>1. {seqnos[i] : i \in 1 .. k} = {seqnos[i] : i \in 1 .. k - 1} \cup {seqnos[k]}
      <4>1. 1 .. k = (1 .. k - 1) \cup {k}
        OBVIOUS
      <4>. QED  BY <4>1
    <3>. QED  BY <3>1
  <2>. HIDE DEF Below
  <2>3. IsOrdered(p[k]) /\ ToSet(p[k]) = Below(k)
    <3>1. p[k] = Place(p[k - 1], seqnos[k], last)
      BY <1>2
    <3>2. CASE seqnos[k] < last
      <4>1. p[k] = InsertOrdered(p[k - 1], seqnos[k])
        BY <3>1, <3>2 DEF Place
      <4>2. /\ ToSet(p[k]) = ToSet(p[k - 1]) \cup {seqnos[k]}
            /\ IsOrdered(p[k])
        BY <1>1, <2>1, <4>1, InsertedInOrder
      <4>. QED  BY <2>1, <2>2, <3>2, <4>2
    <3>3. CASE ~ (seqnos[k] < last)
      <4>1. p[k] = p[k - 1]
        BY <3>1, <3>3 DEF Place
      <4>. QED  BY <2>1, <2>2, <3>3, <4>1
    <3>. QED  BY <3>2, <3>3
  <2>. QED  BY <2>3
<1>5. n \in T
  <2>. HIDE DEF T
  <2>1. 0 .. n \subseteq T
    BY <1>1, <1>3, <1>4, BoundedInduction
  <2>. QED  BY <1>1, <2>1
<1>6. Below(n) = {s \in ToSet(seqnos) : s < last}
  <2>1. DOMAIN seqnos = 1 .. n
    BY DEF Numbers
  <2>. QED  BY <2>1 DEF ToSet
<1>. HIDE DEF Below
<1>7. p[n] \in Numbers
  BY <1>1, <1>2
<1>. QED  BY <1>2, <1>5, <1>6, <1>7
-----------------------------------------------------------------------------
(* The numbers in the gaps.                                                *)
Acc == [prev : Int32, lost : Numbers]

InGap(prev, s) == [i \in 1 .. Gap(prev, s) |-> Wrap(prev + i)]

Lose(acc, s) == [prev |-> s, lost |-> acc.lost \o InGap(acc.prev, s)]

(* What lies in a gap, as an int.                                          *)
LEMMA GapNumbers ==
  ASSUME NEW prev \in Int32, NEW s \in Int32
  PROVE  /\ Gap(prev, s) \in Nat
         /\ InGap(prev, s) \in Numbers /\ Len(InGap(prev, s)) = Gap(prev, s)
         /\ \A i \in 1 .. Gap(prev, s) :
              /\ InGap(prev, s)[i] = Wrap(prev + 1) + (i - 1)
              /\ InGap(prev, s)[i] < s
<1>1. Gap(prev, s) \in Nat /\ Gap(prev, s) <= HalfRange
  BY IntAssumption DEF Gap, Wrap, Int32
<1>2. ASSUME NEW i \in 1 .. Gap(prev, s)
      PROVE  /\ Wrap(prev + i) \in Int32
             /\ Wrap(prev + i) = Wrap(prev + 1) + (i - 1)
             /\ Wrap(prev + i) < s
  BY <1>2, IntAssumption DEF Gap, Wrap, Int32
<1>3. InGap(prev, s) \in Numbers /\ Len(InGap(prev, s)) = Gap(prev, s)
  BY <1>1, <1>2 DEF InGap, Numbers
<1>. QED  BY <1>1, <1>2, <1>3 DEF InGap

LEMMA LoseTyped ==
  ASSUME NEW acc \in Acc, NEW s \in Int32 PROVE Lose(acc, s) \in Acc
<1>1. acc.prev \in Int32 /\ acc.lost \in Numbers
  BY DEF Acc
<1>2. InGap(acc.prev, s) \in Numbers
  BY <1>1, GapNumbers
<1>3. acc.lost \o InGap(acc.prev, s) \in Numbers
  BY <1>1, <1>2, ConcatProperties DEF Numbers
<1>. QED  BY <1>3 DEF Acc, Lose

LEMMA LoseFields ==
  ASSUME NEW acc, NEW s
  PROVE  /\ Lose(acc, s).prev = s
         /\ Lose(acc, s).lost = acc.lost \o InGap(acc.prev, s)
<1>. DEFINE l == acc.lost \o InGap(acc.prev, s)
<1>1. Lose(acc, s) = [prev |-> s, lost |-> l]
  BY Zenon DEF Lose
<1>. HIDE DEF l
<1>2. Lose(acc, s).prev = s /\ Lose(acc, s).lost = l
  BY <1>1
<1>. QED  BY <1>2, Zenon DEF l

LostFold(it, prev, ordered) ==
  it = [t \in SUBSET (DOMAIN ordered) |->
          IF t = {} THEN [prev |-> prev, lost |-> << >>] ELSE Lose(it[t \ {Max(t)}], ordered[Max(t)])]

LEMMA LostSteps ==
  ASSUME NEW prev \in Int32, NEW ordered \in Numbers
  PROVE  \E p : /\ p \in [0 .. Len(ordered) -> Acc]
                /\ p[0] = [prev |-> prev, lost |-> << >>]
                /\ \A k \in 1 .. Len(ordered) : p[k] = Lose(p[k - 1], ordered[k])
                /\ LostSeqnos(prev, ordered) = p[Len(ordered)].lost
<1>. DEFINE n == Len(ordered)
            c == [t \in SUBSET (1 .. n) |-> Max(t)]
            g == [i \in 1 .. n |-> [a \in Acc |-> Lose(a, ordered[i])]]
            it == CHOOSE jt : LostFold(jt, prev, ordered)
<1>1. n \in Nat /\ DOMAIN ordered = 1 .. n /\ \A i \in 1 .. n : ordered[i] \in Int32
  BY DEF Numbers
<1>2. \A i \in 1 .. n, a \in Acc : /\ g[i][a] = Lose(a, ordered[i])
                                     /\ g[i][a] \in Acc
  BY <1>1, LoseTyped
<1>2a. [prev |-> prev, lost |-> << >>] \in Acc
  BY DEF Acc, Numbers
<1>3. /\ TakesMax(c, n)
      /\ \A t \in SUBSET (1 .. n) : c[t] = Max(t)
      /\ \A t \in SUBSET (1 .. n) : t # {} => c[t] \in t /\ c[t] \in 1 .. n
  <2>1. TakesMax(c, n)
    BY <1>1, MaxTakesMax
  <2>. HIDE DEF n
  <2>2. \A t \in SUBSET (1 .. n) : c[t] = Max(t)
    OBVIOUS
  <2>. HIDE DEF c
  <2>. QED  BY <2>1, <2>2 DEF TakesMax
<1>4. IsFiniteSet(1 .. n)
  BY <1>1, FS_Interval
<1>. HIDE DEF n, c, g
<1>5. \E jt : LostFold(jt, prev, ordered)
  <2>1. PICK jt \in [SUBSET (1 .. n) -> Acc] : IsFold(jt, 1 .. n, [prev |-> prev, lost |-> << >>], c, g)
    BY <1>2, <1>2a, <1>3, <1>4, FoldExists
  <2>2. ASSUME NEW t \in SUBSET (1 .. n), t # {}
        PROVE  g[c[t]][jt[t \ {c[t]}]] = Lose(jt[t \ {Max(t)}], ordered[Max(t)])
    BY <1>2, <1>3, <2>1, <2>2
  <2>3. jt = [t \in SUBSET (1 .. n) |->
                IF t = {} THEN [prev |-> prev, lost |-> << >>] ELSE g[c[t]][jt[t \ {c[t]}]]]
    BY <2>1, Zenon DEF IsFold
  <2>4. jt = [t \in SUBSET (1 .. n) |->
                IF t = {} THEN [prev |-> prev, lost |-> << >>] ELSE Lose(jt[t \ {Max(t)}], ordered[Max(t)])]
    BY <2>2, <2>3
  <2>. QED  BY <1>1, <2>4, Zenon DEF LostFold
<1>6. LostFold(it, prev, ordered)
  BY <1>5
<1>7. LostSeqnos(prev, ordered) = it[DOMAIN ordered].lost
  BY Zenon DEF LostSeqnos, Lose, InGap, FoldLeft, MapThenFoldSet, LostFold
<1>. HIDE DEF it
<1>8. it = [t \in SUBSET (1 .. n) |->
              IF t = {} THEN [prev |-> prev, lost |-> << >>] ELSE Lose(it[t \ {Max(t)}], ordered[Max(t)])]
  BY <1>1, <1>6, Zenon DEF LostFold
<1>9. Continues(it, Acc, [prev |-> prev, lost |-> << >>], c, g, n)
  <2>1. it = [t \in SUBSET (1 .. n) |-> it[t]] /\ it[{}] = [prev |-> prev, lost |-> << >>]
    BY <1>8
  <2>2. ASSUME NEW t \in SUBSET (1 .. n), t # {}, it[t \ {c[t]}] \in Acc
        PROVE  it[t] = g[c[t]][it[t \ {c[t]}]]
    <3>1. it[t] = Lose(it[t \ {Max(t)}], ordered[Max(t)])
      BY <1>8, <2>2
    <3>2. c[t] = Max(t) /\ c[t] \in 1 .. n
      BY <1>3, <2>2
    <3>. QED  BY <1>2, <2>2, <3>1, <3>2
  <2>. QED  BY <1>2, <2>1, <2>2 DEF Continues
<1>. DEFINE p == [k \in 0 .. n |-> it[1 .. k]]
<1>10. IsPrefixFold(p, Acc, [prev |-> prev, lost |-> << >>], g, n)
  BY <1>1, <1>2a, <1>3, <1>9, LeftFoldSteps
<1>11. p[n] = it[1 .. n]
  BY <1>1
<1>. HIDE DEF p
<1>12. /\ p \in [0 .. n -> Acc] /\ p[0] = [prev |-> prev, lost |-> << >>]
       /\ \A k \in 1 .. n : p[k] = g[k][p[k - 1]] /\ p[k - 1] \in Acc
  BY <1>1, <1>10 DEF IsPrefixFold
<1>. QED  BY <1>1, <1>2, <1>7, <1>11, <1>12 DEF n

LEMMA TwoParts ==
  ASSUME NEW a \in Numbers, NEW b \in Numbers
  PROVE  /\ a \o b \in Numbers /\ Len(a \o b) = Len(a) + Len(b)
         /\ ToSet(a \o b) = ToSet(a) \cup ToSet(b)
         /\ IsInjective(a) /\ IsInjective(b) /\ ToSet(a) \cap ToSet(b) = {}
              => IsInjective(a \o b)
<1>. DEFINE m == Len(a)
            n == Len(b)
            ab == a \o b
<1>1. /\ m \in Nat /\ n \in Nat /\ DOMAIN a = 1 .. m /\ DOMAIN b = 1 .. n
      /\ a \in Seq(Int32) /\ b \in Seq(Int32)
  BY DEF Numbers
<1>2. /\ ab \in Numbers /\ Len(ab) = m + n /\ DOMAIN ab = 1 .. m + n
      /\ \A i \in 1 .. m + n : ab[i] = IF i <= m THEN a[i] ELSE b[i - m]
  <2>1. /\ ab \in Seq(Int32) /\ Len(ab) = m + n
        /\ \A i \in 1 .. m + n : ab[i] = IF i <= m THEN a[i] ELSE b[i - m]
    BY <1>1, ConcatProperties
  <2>. HIDE DEF ab, m, n
  <2>. QED  BY <2>1 DEF Numbers
<1>. HIDE DEF ab, m, n
<1>3. ToSet(ab) = ToSet(a) \cup ToSet(b)
  <2>1. /\ ToSet(ab) = {ab[i] : i \in 1 .. m + n}
        /\ ToSet(a) = {a[i] : i \in 1 .. m} /\ ToSet(b) = {b[i] : i \in 1 .. n}
    BY <1>1, <1>2 DEF ToSet
  <2>2. \A i \in 1 .. m : i \in 1 .. m + n /\ ab[i] = a[i]
    BY <1>1, <1>2
  <2>3. \A i \in 1 .. n : m + i \in 1 .. m + n /\ ab[m + i] = b[i]
    <3>. SUFFICES ASSUME NEW i \in 1 .. n
                  PROVE  m + i \in 1 .. m + n /\ ab[m + i] = b[i]
      OBVIOUS
    <3>1. m + i \in 1 .. m + n /\ ~ (m + i <= m) /\ (m + i) - m = i
      BY <1>1
    <3>. QED  BY <1>2, <3>1
  <2>4. \A i \in 1 .. m + n : ab[i] \in ToSet(a) \cup ToSet(b)
    <3>. SUFFICES ASSUME NEW i \in 1 .. m + n PROVE ab[i] \in ToSet(a) \cup ToSet(b)
      OBVIOUS
    <3>1. CASE i <= m
      BY <1>1, <1>2, <2>1, <3>1
    <3>2. CASE i > m
      <4>1. i - m \in 1 .. n /\ ab[i] = b[i - m]
        BY <1>1, <1>2, <3>2
      <4>. QED  BY <2>1, <4>1
    <3>. QED  BY <1>1, <3>1, <3>2
  <2>5. \A x \in ToSet(ab) : x \in ToSet(a) \cup ToSet(b)
    BY <2>1, <2>4
  <2>6. \A x \in ToSet(a) : x \in ToSet(ab)
    BY <2>1, <2>2
  <2>7. \A x \in ToSet(b) : x \in ToSet(ab)
    BY <2>1, <2>3
  <2>. QED  BY <2>5, <2>6, <2>7
<1>4. ASSUME IsInjective(a), IsInjective(b), ToSet(a) \cap ToSet(b) = {}
      PROVE  IsInjective(ab)
  <2>. SUFFICES ASSUME NEW i \in 1 .. m + n, NEW j \in 1 .. m + n, ab[i] = ab[j]
                PROVE  i = j
    BY <1>2 DEF IsInjective
  <2>1. \A k \in 1 .. m + n :
          IF k <= m THEN k \in 1 .. m /\ ab[k] = a[k] /\ a[k] \in ToSet(a)
          ELSE k - m \in 1 .. n /\ ab[k] = b[k - m] /\ b[k - m] \in ToSet(b)
    <3>1. /\ \A k \in 1 .. m : a[k] \in ToSet(a)
          /\ \A k \in 1 .. n : b[k] \in ToSet(b)
      BY <1>1 DEF ToSet
    <3>2. \A k \in 1 .. m + n : IF k <= m THEN k \in 1 .. m ELSE k - m \in 1 .. n
      BY <1>1
    <3>. QED  BY <1>2, <3>1, <3>2
  <2>2. CASE i <= m /\ j <= m
    BY <1>1, <1>4, <2>1, <2>2 DEF IsInjective
  <2>3. CASE ~ (i <= m) /\ ~ (j <= m)
    <3>1. i - m = j - m
      BY <1>1, <1>4, <2>1, <2>3 DEF IsInjective
    <3>. QED  BY <1>1, <3>1
  <2>4. CASE (i <= m) # (j <= m)
    BY <1>4, <2>1, <2>4
  <2>. QED  BY <2>2, <2>3, <2>4
<1>. QED  BY <1>2, <1>3, <1>4 DEF ab, m, n

(* A number of the gap before the k-th of the ordered numbers.             *)
Before(prev, ordered, k) == IF k = 1 THEN prev ELSE ordered[k - 1]

IsMissing(x, prev, s) == Gap(prev, s) > 0 /\ Wrap(prev + 1) <= x /\ x < s

LEMMA GapMembers ==
  ASSUME NEW prev \in Int32, NEW s \in Int32
  PROVE  /\ \A x \in Int32 : x \in ToSet(InGap(prev, s)) <=> IsMissing(x, prev, s)
         /\ IsInjective(InGap(prev, s))
<1>. DEFINE g == InGap(prev, s)
            d == Gap(prev, s)
<1>1. /\ d \in Nat /\ DOMAIN g = 1 .. d
      /\ \A i \in 1 .. d : g[i] = Wrap(prev + 1) + (i - 1) /\ g[i] < s
  <2>1. /\ d \in Nat /\ g \in Seq(Int32) /\ Len(g) = d
        /\ \A i \in 1 .. d : g[i] = Wrap(prev + 1) + (i - 1) /\ g[i] < s
    BY GapNumbers DEF Numbers
  <2>. HIDE DEF g, d
  <2>. QED  BY <2>1
<1>2. d > 0 => d = s - Wrap(prev + 1)
  BY DEF Gap
<1>3. Wrap(prev + 1) \in Int32
  BY WrappedNext
<1>. HIDE DEF g, d
<1>4. ASSUME NEW x \in Int32 PROVE x \in ToSet(g) <=> IsMissing(x, prev, s)
  <2>1. ASSUME x \in ToSet(g) PROVE IsMissing(x, prev, s)
    <3>1. PICK i \in 1 .. d : x = g[i]
      BY <1>1, <2>1 DEF ToSet
    <3>. QED  BY <1>1, <1>3, <3>1 DEF IsMissing, d, Int32
  <2>2. ASSUME IsMissing(x, prev, s) PROVE x \in ToSet(g)
    <3>. DEFINE i == x - Wrap(prev + 1) + 1
    <3>1. i \in 1 .. d
      BY <1>1, <1>2, <1>3, <2>2 DEF IsMissing, d, Int32
    <3>2. g[i] = x
      BY <1>1, <1>3, <3>1 DEF Int32
    <3>. HIDE DEF i
    <3>. QED  BY <1>1, <3>1, <3>2 DEF ToSet
  <2>. QED  BY <2>1, <2>2
<1>5. IsInjective(g)
  <2>. SUFFICES ASSUME NEW i \in 1 .. d, NEW j \in 1 .. d, g[i] = g[j] PROVE i = j
    BY <1>1 DEF IsInjective
  <2>. QED  BY <1>1, <1>3 DEF Int32
<1>. QED  BY <1>4, <1>5 DEF g

LEMMA LostNumbers ==
  ASSUME NEW prev \in Int32, NEW ordered \in Numbers, IsOrdered(ordered)
  PROVE  /\ LostSeqnos(prev, ordered) \in Numbers
         /\ \A x \in Int32 :
              x \in ToSet(LostSeqnos(prev, ordered)) <=>
                \E k \in 1 .. Len(ordered) :
                  IsMissing(x, Before(prev, ordered, k), ordered[k])
         /\ IsInjective(LostSeqnos(prev, ordered))
<1>. DEFINE n == Len(ordered)
<1>1. n \in Nat /\ \A i \in 1 .. n : ordered[i] \in Int32
  BY DEF Numbers
<1>2. PICK p : /\ p \in [0 .. n -> Acc]
               /\ p[0] = [prev |-> prev, lost |-> << >>]
               /\ \A k \in 1 .. n : p[k] = Lose(p[k - 1], ordered[k])
               /\ LostSeqnos(prev, ordered) = p[n].lost
  BY LostSteps
<1>3. \A k \in 0 .. n : p[k].lost \in Numbers /\ p[k].prev \in Int32
  BY <1>2 DEF Acc
<1>4. \A k \in 1 .. n : p[k - 1].prev = Before(prev, ordered, k)
  <2>. SUFFICES ASSUME NEW k \in 1 .. n PROVE p[k - 1].prev = Before(prev, ordered, k)
    OBVIOUS
  <2>1. CASE k = 1
    BY <1>2, <2>1 DEF Before
  <2>2. CASE k # 1
    <3>1. k - 1 \in 1 .. n
      BY <1>1, <2>2
    <3>2. p[k - 1] = Lose(p[(k - 1) - 1], ordered[k - 1])
      BY <1>2, <3>1
    <3>. QED  BY <2>2, <3>2 DEF Before, Lose
  <2>. QED  BY <2>1, <2>2
<1>. DEFINE Missed(k) == {x \in Int32 : \E j \in 1 .. k :
                            IsMissing(x, Before(prev, ordered, j), ordered[j])}
            T == {k \in 0 .. n : /\ ToSet(p[k].lost) = Missed(k)
                                 /\ IsInjective(p[k].lost)
                                 /\ k > 0 => \A x \in Missed(k) : x < ordered[k]}
<1>. HIDE DEF n
<1>5. 0 \in T
  <2>1. p[0].lost = << >>
    BY <1>2
  <2>2. ToSet(<< >>) = {} /\ IsInjective(<< >>)
    BY DEF ToSet, IsInjective
  <2>3. Missed(0) = {}
    OBVIOUS
  <2>. QED  BY <1>1, <2>1, <2>2, <2>3
<1>6. ASSUME NEW k \in 1 .. n, k - 1 \in T PROVE k \in T
  <2>. DEFINE b == Before(prev, ordered, k)
              gap == InGap(b, ordered[k])
  <2>1. /\ k - 1 \in 0 .. n /\ k \in 0 .. n
        /\ ToSet(p[k - 1].lost) = Missed(k - 1) /\ IsInjective(p[k - 1].lost)
        /\ k - 1 > 0 => \A x \in Missed(k - 1) : x < ordered[k - 1]
    BY <1>1, <1>6
  <2>2. /\ b \in Int32 /\ ordered[k] \in Int32 /\ p[k - 1].lost \in Numbers
        /\ p[k - 1].prev = b
    <3>1. k - 1 \in 0 .. n /\ p[k - 1].prev = b
      BY <1>1, <1>4
    <3>2. p[k - 1].prev \in Int32 /\ p[k - 1].lost \in Numbers
      BY <1>3, <3>1
    <3>. QED  BY <1>1, <3>1, <3>2
  <2>3. p[k].lost = p[k - 1].lost \o gap
    <3>1. p[k] = Lose(p[k - 1], ordered[k])
      BY <1>2
    <3>2. p[k].lost = p[k - 1].lost \o InGap(p[k - 1].prev, ordered[k])
      BY <3>1, LoseFields, Zenon
    <3>. QED  BY <2>2, <3>2
  <2>4. /\ gap \in Numbers /\ IsInjective(gap)
        /\ \A x \in Int32 : x \in ToSet(gap) <=> IsMissing(x, b, ordered[k])
    BY <2>2, GapNumbers, GapMembers
  <2>5. ToSet(gap) \subseteq Int32
    BY <2>4 DEF ToSet, Numbers
  <2>6. Missed(k) = Missed(k - 1) \cup ToSet(gap)
    <3>1. 1 .. k = (1 .. k - 1) \cup {k}
      OBVIOUS
    <3>2. \A x \in Int32 : x \in Missed(k) <=>
            x \in Missed(k - 1) \/ IsMissing(x, b, ordered[k])
      BY <3>1
    <3>3. Missed(k) \subseteq Int32 /\ Missed(k - 1) \subseteq Int32
      OBVIOUS
    <3>. HIDE DEF Missed, gap, b
    <3>. QED  BY <2>4, <2>5, <3>2, <3>3
  <2>7. ASSUME NEW x \in Missed(k - 1) PROVE x < ordered[k] /\ ~ IsMissing(x, b, ordered[k])
    <3>1. k - 1 > 0 /\ x \in Int32
      BY <1>1, <2>7
    <3>2. x < ordered[k - 1] /\ k - 1 \in 1 .. n /\ ordered[k - 1] \in Int32
      BY <1>1, <2>1, <2>7, <3>1
    <3>3. ordered[k - 1] <= ordered[k]
      BY <3>2 DEF IsOrdered, n
    <3>4. b = ordered[k - 1]
      BY <3>1 DEF Before
    <3>. HIDE DEF Missed, gap, b
    <3>5. x < ordered[k]
      BY <2>2, <3>1, <3>2, <3>3 DEF Int32
    <3>6. ~ IsMissing(x, b, ordered[k])
      BY <2>2, <3>1, <3>2, <3>3, <3>4, IntAssumption DEF IsMissing, Gap, Wrap, Int32
    <3>. QED  BY <3>5, <3>6
  <2>. HIDE DEF Missed, gap, b
  <2>8. Missed(k - 1) \cap ToSet(gap) = {}
    BY <2>4, <2>5, <2>7
  <2>9. /\ ToSet(p[k].lost) = Missed(k) /\ IsInjective(p[k].lost)
    BY <2>1, <2>2, <2>3, <2>4, <2>6, <2>8, TwoParts
  <2>10. \A x \in Missed(k) : x < ordered[k]
    BY <2>4, <2>5, <2>6, <2>7 DEF IsMissing
  <2>. QED  BY <2>1, <2>9, <2>10
<1>7. n \in T
  <2>. HIDE DEF T
  <2>1. 0 .. n \subseteq T
    BY <1>1, <1>5, <1>6, BoundedInduction
  <2>. QED  BY <1>1, <2>1
<1>8. LostSeqnos(prev, ordered) \in Numbers
  BY <1>1, <1>2, <1>3
<1>. QED  BY <1>2, <1>7, <1>8 DEF n
-----------------------------------------------------------------------------
(* The greatest of the numbers is one of them and below none.              *)
LEMMA LastNumber ==
  ASSUME NEW last \in Int32, NEW seqnos \in Numbers
  PROVE  /\ LastSeqno(last, seqnos) \in Int32
         /\ U(last) <= U(LastSeqno(last, seqnos))
         /\ \A k \in 1 .. Len(seqnos) : U(seqnos[k]) <= U(LastSeqno(last, seqnos))
         /\ \/ LastSeqno(last, seqnos) = last
            \/ \E k \in 1 .. Len(seqnos) : LastSeqno(last, seqnos) = seqnos[k]
<1>. DEFINE n == Len(seqnos)
<1>1. n \in Nat /\ \A i \in 1 .. n : seqnos[i] \in Int32
  BY DEF Numbers
<1>2. PICK p : /\ p \in [0 .. n -> Int32]
               /\ p[0] = last
               /\ \A k \in 1 .. n : p[k] = Later(p[k - 1], seqnos[k])
               /\ LastSeqno(last, seqnos) = p[n]
  BY LastSeqnoSteps DEF Numbers
<1>. HIDE DEF n
<1>3. \A k \in 1 .. n : U(seqnos[k]) \in Nat
  BY <1>1, UnsignedNumber, IntAssumption
<1>4. \A k \in 0 .. n : U(p[k]) \in Nat
  BY <1>1, <1>2, UnsignedNumber, IntAssumption
<1>. DEFINE T == {k \in 0 .. n : /\ U(last) <= U(p[k])
                                 /\ \A i \in 1 .. k : U(seqnos[i]) <= U(p[k])
                                 /\ p[k] = last \/ \E i \in 1 .. k : p[k] = seqnos[i]}
<1>5. 0 \in T
  BY <1>1, <1>2, <1>4
<1>6. ASSUME NEW k \in 1 .. n, k - 1 \in T PROVE k \in T
  <2>1. /\ k - 1 \in 0 .. n /\ k \in 0 .. n
        /\ U(last) <= U(p[k - 1])
        /\ \A i \in 1 .. k - 1 : U(seqnos[i]) <= U(p[k - 1])
        /\ p[k - 1] = last \/ \E i \in 1 .. k - 1 : p[k - 1] = seqnos[i]
    BY <1>1, <1>6
  <2>2. /\ p[k] = IF U(seqnos[k]) > U(p[k - 1]) THEN seqnos[k] ELSE p[k - 1]
        /\ U(p[k - 1]) \in Nat /\ U(seqnos[k]) \in Nat /\ U(last) \in Nat
    BY <1>2, <1>3, <1>4, <2>1, UnsignedNumber DEF Later, U
  <2>3. \A i \in 1 .. k : i = k \/ i \in 1 .. k - 1
    OBVIOUS
  <2>4. \A i \in 1 .. k - 1 : i \in 1 .. k /\ i \in 1 .. n
    BY <1>1
  <2>. QED
    <3>1. CASE U(seqnos[k]) > U(p[k - 1])
      <4>1. p[k] = seqnos[k] /\ k \in 1 .. k
        BY <2>2, <3>1
      <4>2. U(last) <= U(seqnos[k])
        BY <2>1, <2>2, <3>1
      <4>3. ASSUME NEW i \in 1 .. k PROVE U(seqnos[i]) <= U(seqnos[k])
        <5>1. CASE i = k
          BY <2>2, <5>1
        <5>2. CASE i \in 1 .. k - 1
          BY <1>3, <2>1, <2>2, <2>4, <3>1, <5>2
        <5>. QED  BY <2>3, <5>1, <5>2
      <4>. QED  BY <2>1, <4>1, <4>2, <4>3
    <3>2. CASE ~ (U(seqnos[k]) > U(p[k - 1]))
      <4>1. p[k] = p[k - 1]
        BY <2>2, <3>2
      <4>2. ASSUME NEW i \in 1 .. k PROVE U(seqnos[i]) <= U(p[k - 1])
        <5>1. CASE i = k
          BY <2>2, <3>2, <5>1
        <5>. QED  BY <2>1, <2>3, <5>1
      <4>. QED  BY <2>1, <2>4, <4>1, <4>2
    <3>. QED  BY <3>1, <3>2
<1>7. n \in T
  <2>. HIDE DEF T
  <2>1. 0 .. n \subseteq T
    BY <1>1, <1>5, <1>6, BoundedInduction
  <2>. QED  BY <1>1, <2>1
<1>8. p[n] \in Int32
  BY <1>1, <1>2
<1>. QED  BY <1>2, <1>7, <1>8 DEF n
-----------------------------------------------------------------------------
(* The rows of the table.                                                  *)
Ids == 1 .. MaxId + 1

Tables == UNION {[D -> Int32] : D \in SUBSET Ids}

Cursor == [id : Ids, rows : Tables]

LEMMA InsertedRow ==
  ASSUME NEW acc \in Cursor, NEW number \in Int32
  PROVE  /\ Insert(acc, number) \in Cursor
         /\ Insert(acc, number).id = IF acc.id > MaxId THEN 1 ELSE acc.id + 1
         /\ DOMAIN Insert(acc, number).rows = DOMAIN acc.rows \cup {acc.id}
         /\ \A i \in DOMAIN acc.rows : Insert(acc, number).rows[i] = acc.rows[i]
         /\ acc.id \notin DOMAIN acc.rows => Insert(acc, number).rows[acc.id] = number
<1>. DEFINE rows == [i \in DOMAIN acc.rows \cup {acc.id} |->
                       IF i \in DOMAIN acc.rows THEN acc.rows[i] ELSE number]
            id == IF acc.id > MaxId THEN 1 ELSE acc.id + 1
<1>1. acc.id \in Ids /\ acc.rows \in Tables
  BY DEF Cursor
<1>2. PICK D \in SUBSET Ids : acc.rows \in [D -> Int32]
  BY <1>1 DEF Tables
<1>3. Insert(acc, number) = [id |-> id, rows |-> rows]
  BY Zenon DEF Insert, NextId, WithRow
<1>6. id \in Ids
  BY <1>1, SQLAssumption DEF Ids
<1>7. rows \in [D \cup {acc.id} -> Int32] /\ D \cup {acc.id} \in SUBSET Ids
  BY <1>1, <1>2
<1>8. rows \in Tables
  <2>. HIDE DEF rows
  <2>. QED  BY <1>7 DEF Tables
<1>9. /\ DOMAIN rows = DOMAIN acc.rows \cup {acc.id}
      /\ \A i \in DOMAIN acc.rows : rows[i] = acc.rows[i]
      /\ acc.id \notin DOMAIN acc.rows => rows[acc.id] = number
  OBVIOUS
<1>. HIDE DEF rows, id
<1>10. Insert(acc, number).id = id /\ Insert(acc, number).rows = rows
  BY <1>3
<1>. QED  BY <1>3, <1>6, <1>8, <1>9, <1>10 DEF Cursor, id


InsertFold(it, first, numbers) ==
  it = [t \in SUBSET (DOMAIN numbers) |->
          IF t = {} THEN first ELSE Insert(it[t \ {Max(t)}], numbers[Max(t)])]

LEMMA InsertSteps ==
  ASSUME NEW first \in Cursor, NEW numbers \in Numbers
  PROVE  \E p : /\ p \in [0 .. Len(numbers) -> Cursor]
                /\ p[0] = first
                /\ \A k \in 1 .. Len(numbers) : p[k] = Insert(p[k - 1], numbers[k])
                /\ FoldLeft(Insert, first, numbers) = p[Len(numbers)]
<1>. DEFINE n == Len(numbers)
            c == [t \in SUBSET (1 .. n) |-> Max(t)]
            g == [i \in 1 .. n |-> [a \in Cursor |-> Insert(a, numbers[i])]]
            it == CHOOSE jt : InsertFold(jt, first, numbers)
<1>1. n \in Nat /\ DOMAIN numbers = 1 .. n /\ \A i \in 1 .. n : numbers[i] \in Int32
  BY DEF Numbers
<1>2. \A i \in 1 .. n, a \in Cursor : /\ g[i][a] = Insert(a, numbers[i])
                                     /\ g[i][a] \in Cursor
  BY <1>1, InsertedRow
<1>2a. first \in Cursor
  OBVIOUS
<1>3. /\ TakesMax(c, n)
      /\ \A t \in SUBSET (1 .. n) : c[t] = Max(t)
      /\ \A t \in SUBSET (1 .. n) : t # {} => c[t] \in t /\ c[t] \in 1 .. n
  <2>1. TakesMax(c, n)
    BY <1>1, MaxTakesMax
  <2>. HIDE DEF n
  <2>2. \A t \in SUBSET (1 .. n) : c[t] = Max(t)
    OBVIOUS
  <2>. HIDE DEF c
  <2>. QED  BY <2>1, <2>2 DEF TakesMax
<1>4. IsFiniteSet(1 .. n)
  BY <1>1, FS_Interval
<1>. HIDE DEF n, c, g
<1>5. \E jt : InsertFold(jt, first, numbers)
  <2>1. PICK jt \in [SUBSET (1 .. n) -> Cursor] : IsFold(jt, 1 .. n, first, c, g)
    BY <1>2, <1>2a, <1>3, <1>4, FoldExists
  <2>2. ASSUME NEW t \in SUBSET (1 .. n), t # {}
        PROVE  g[c[t]][jt[t \ {c[t]}]] = Insert(jt[t \ {Max(t)}], numbers[Max(t)])
    BY <1>2, <1>3, <2>1, <2>2
  <2>3. jt = [t \in SUBSET (1 .. n) |->
                IF t = {} THEN first ELSE g[c[t]][jt[t \ {c[t]}]]]
    BY <2>1, Zenon DEF IsFold
  <2>4. jt = [t \in SUBSET (1 .. n) |->
                IF t = {} THEN first ELSE Insert(jt[t \ {Max(t)}], numbers[Max(t)])]
    BY <2>2, <2>3
  <2>. QED  BY <1>1, <2>4, Zenon DEF InsertFold
<1>6. InsertFold(it, first, numbers)
  BY <1>5
<1>7. FoldLeft(Insert, first, numbers) = it[DOMAIN numbers]
  BY Zenon DEF FoldLeft, MapThenFoldSet, InsertFold
<1>. HIDE DEF it
<1>8. it = [t \in SUBSET (1 .. n) |->
              IF t = {} THEN first ELSE Insert(it[t \ {Max(t)}], numbers[Max(t)])]
  BY <1>1, <1>6, Zenon DEF InsertFold
<1>9. Continues(it, Cursor, first, c, g, n)
  <2>1. it = [t \in SUBSET (1 .. n) |-> it[t]] /\ it[{}] = first
    BY <1>8
  <2>2. ASSUME NEW t \in SUBSET (1 .. n), t # {}, it[t \ {c[t]}] \in Cursor
        PROVE  it[t] = g[c[t]][it[t \ {c[t]}]]
    <3>1. it[t] = Insert(it[t \ {Max(t)}], numbers[Max(t)])
      BY <1>8, <2>2
    <3>2. c[t] = Max(t) /\ c[t] \in 1 .. n
      BY <1>3, <2>2
    <3>. QED  BY <1>2, <2>2, <3>1, <3>2
  <2>. QED  BY <1>2, <2>1, <2>2 DEF Continues
<1>. DEFINE p == [k \in 0 .. n |-> it[1 .. k]]
<1>10. IsPrefixFold(p, Cursor, first, g, n)
  BY <1>1, <1>2a, <1>3, <1>9, LeftFoldSteps
<1>11. p[n] = it[1 .. n]
  BY <1>1
<1>. HIDE DEF p
<1>12. /\ p \in [0 .. n -> Cursor] /\ p[0] = first
       /\ \A k \in 1 .. n : p[k] = g[k][p[k - 1]] /\ p[k - 1] \in Cursor
  BY <1>1, <1>10 DEF IsPrefixFold
<1>. QED  BY <1>1, <1>2, <1>7, <1>11, <1>12 DEF n

(* Row i holds the i-th number inserted; when the ids start over there is  *)
(* a row for each of them.                                                 *)
RowsFit(cursor, inserted) ==
  /\ Len(inserted) <= MaxId => cursor.id = Len(inserted) + 1
  /\ DOMAIN cursor.rows = DOMAIN inserted \cap Ids
  /\ \A i \in DOMAIN cursor.rows : cursor.rows[i] = inserted[i]

LEMMA InsertedTyped ==
  ASSUME NEW first \in Cursor, NEW numbers \in Numbers
  PROVE  FoldLeft(Insert, first, numbers) \in Cursor
<1>1. PICK p : /\ p \in [0 .. Len(numbers) -> Cursor]
               /\ p[0] = first
               /\ \A k \in 1 .. Len(numbers) : p[k] = Insert(p[k - 1], numbers[k])
               /\ FoldLeft(Insert, first, numbers) = p[Len(numbers)]
  BY InsertSteps
<1>2. Len(numbers) \in 0 .. Len(numbers)
  BY DEF Numbers
<1>. QED  BY <1>1, <1>2

LEMMA InsertedRows ==
  ASSUME NEW first \in Cursor, NEW before \in Numbers, NEW numbers \in Numbers,
         RowsFit(first, before)
  PROVE  RowsFit(FoldLeft(Insert, first, numbers), before \o numbers)
<1>. DEFINE n == Len(numbers)
            l == Len(before)
            all == before \o numbers
<1>1. PICK p : /\ p \in [0 .. n -> Cursor]
               /\ p[0] = first
               /\ \A k \in 1 .. n : p[k] = Insert(p[k - 1], numbers[k])
               /\ FoldLeft(Insert, first, numbers) = p[n]
  BY InsertSteps
<1>2. /\ n \in Nat /\ l \in Nat /\ MaxId \in Nat
      /\ \A k \in 1 .. n : numbers[k] \in Int32
  BY SQLAssumption DEF Numbers
<1>3. /\ Len(all) = l + n
      /\ \A i \in 1 .. l + n : all[i] = IF i <= l THEN before[i] ELSE numbers[i - l]
  BY ConcatProperties DEF Numbers
<1>. DEFINE Fits(k) == /\ l + k <= MaxId => p[k].id = l + k + 1
                       /\ DOMAIN p[k].rows = (1 .. l + k) \cap Ids
                       /\ \A i \in DOMAIN p[k].rows : p[k].rows[i] = all[i]
            T == {k \in 0 .. n : Fits(k)}
<1>. HIDE DEF n, all, l
<1>4. 0 \in T
  <2>1. \A i \in 1 .. l : all[i] = before[i]
    BY <1>2, <1>3
  <2>2. l + 0 = l
    BY <1>2
  <2>. QED  BY <1>1, <1>2, <2>1, <2>2 DEF RowsFit, l
<1>5. ASSUME NEW k \in 1 .. n, k - 1 \in T PROVE k \in T
  <2>. DEFINE old == p[k - 1]
              new == p[k]
              place == l + k
  <2>1. k - 1 \in 0 .. n /\ k \in 0 .. n /\ place \in Nat /\ place \in 1 .. l + n
        /\ l + (k - 1) = place - 1
    BY <1>2
  <2>2. Fits(k - 1)
    BY <1>5
  <2>3. /\ place - 1 <= MaxId => old.id = place
        /\ DOMAIN old.rows = (1 .. place - 1) \cap Ids
        /\ \A i \in DOMAIN old.rows : old.rows[i] = all[i]
    <3>1. place - 1 + 1 = place
      BY <2>1
    <3>. HIDE DEF place
    <3>. QED  BY <2>1, <2>2, <3>1
  <2>4. all[place] = numbers[k] /\ numbers[k] \in Int32
    <3>1. ~ (place <= l) /\ place - l = k
      BY <1>2
    <3>. HIDE DEF place
    <3>. QED  BY <1>2, <1>3, <2>1, <3>1
  <2>5. old \in Cursor /\ new = Insert(old, numbers[k])
    BY <1>1, <2>1
  <2>. HIDE DEF old, new, place, Fits
  <2>6. /\ new.id = IF old.id > MaxId THEN 1 ELSE old.id + 1
        /\ DOMAIN new.rows = DOMAIN old.rows \cup {old.id}
        /\ \A i \in DOMAIN old.rows : new.rows[i] = old.rows[i]
        /\ old.id \notin DOMAIN old.rows => new.rows[old.id] = numbers[k]
    BY <2>4, <2>5, InsertedRow
  <2>7. ASSUME place <= MaxId PROVE new.id = place + 1
    BY <1>2, <2>1, <2>3, <2>6, <2>7
  <2>8. /\ DOMAIN new.rows = (1 .. place) \cap Ids
        /\ \A i \in DOMAIN new.rows : new.rows[i] = all[i]
    <3>1. CASE place <= MaxId + 1
      <4>1. old.id = place /\ place \in Ids /\ place \notin DOMAIN old.rows
        BY <1>2, <2>1, <2>3, <3>1 DEF Ids
      <4>2. 1 .. place = (1 .. place - 1) \cup {place}
        BY <2>1
      <4>3. DOMAIN new.rows = (1 .. place) \cap Ids
        BY <2>3, <2>6, <4>1, <4>2
      <4>4. new.rows[place] = all[place]
        BY <2>4, <2>6, <4>1
      <4>. QED  BY <2>3, <2>6, <4>1, <4>3, <4>4
    <3>2. CASE place > MaxId + 1
      <4>1. (1 .. place - 1) \cap Ids = Ids /\ (1 .. place) \cap Ids = Ids
        BY <1>2, <2>1, <3>2 DEF Ids
      <4>2. old.id \in DOMAIN old.rows
        BY <2>3, <2>5, <4>1 DEF Cursor
      <4>. QED  BY <2>3, <2>6, <4>1, <4>2
    <3>. QED  BY <1>2, <2>1, <3>1, <3>2
  <2>9. Fits(k)
    BY <2>7, <2>8 DEF Fits, new, place
  <2>. QED  BY <2>1, <2>9
<1>6. n \in T
  <2>. HIDE DEF T
  <2>1. 0 .. n \subseteq T
    BY <1>2, <1>4, <1>5, BoundedInduction
  <2>. QED  BY <1>2, <2>1
<1>7. Fits(n) /\ p[n] \in Cursor
  <2>. HIDE DEF Fits
  <2>. QED  BY <1>1, <1>2, <1>6
<1>. QED  BY <1>1, <1>3, <1>7 DEF RowsFit, all
-----------------------------------------------------------------------------
(* What a packet of number n does.                                         *)
LastAt(n) == IF last_seqno = 0 THEN Wrap(n - 1) ELSE last_seqno

BufferAt(n) == Append(packet_buffer, Wrap(n))

OldestAt(n) == SubSeq(BufferAt(n), 1, UpdateSize)

NewLast(n) == LastSeqno(LastAt(n), OldestAt(n))

LostAt(n) == LostSeqnos(LastAt(n), OrderedSeqnos(BufferAt(n), NewLast(n)))

CursorAt(n) == FoldLeft(Insert, [id |-> current_id, rows |-> table], LostAt(n))

Held(n) ==
  /\ Len(BufferAt(n)) < BufferSize
  /\ last_seqno' = LastAt(n)
  /\ packet_buffer' = BufferAt(n)
  /\ UNCHANGED <<current_id, table, reported, flushed>>

Flush(n) ==
  /\ Len(BufferAt(n)) = BufferSize
  /\ last_seqno' = NewLast(n)
  /\ packet_buffer' = SubSeq(BufferAt(n), UpdateSize + 1, BufferSize)
  /\ current_id' = CursorAt(n).id
  /\ table' = CursorAt(n).rows
  /\ reported' = reported \o LostAt(n)
  /\ flushed' = (IF flushed = << >> THEN <<LastAt(n)>> ELSE flushed) \o <<NewLast(n)>>

(* The stream: what is in the network, and how far the numbers have come.  *)
StreamInv ==
  /\ next \in Nat /\ FirstSeqno <= next
  /\ dispatched \in 0 .. MaxPackets
  /\ IsFiniteSet(delayed) /\ Cardinality(delayed) <= MaxDelayed
  /\ delayed \subseteq FirstSeqno .. next - 1
  /\ next <= FirstSeqno + (MaxSkip + 1) * (dispatched + Cardinality(delayed))

DispatcherTyped ==
  /\ last_seqno \in Int32
  /\ [id |-> current_id, rows |-> table] \in Cursor
  /\ packet_buffer \in Numbers /\ Len(packet_buffer) < BufferSize
  /\ ToSet(packet_buffer) \subseteq received
  /\ received \subseteq Int32
  /\ reported \in Numbers

SQLTypeInv == StreamInv /\ DispatcherTyped

LEMMA ConstantTypes ==
  /\ BufferSize \in Nat /\ UpdateSize \in Nat
  /\ UpdateSize >= 1 /\ UpdateSize <= BufferSize
  /\ MaxId \in Nat /\ InitialSeqnos \subseteq Int32
  /\ FirstSeqno \in Nat /\ MaxSkip \in Nat /\ MaxDelayed \in Nat
  /\ MaxOvertakes \in Nat /\ MaxPackets \in Nat /\ HalfRange \in Nat
  /\ FirstSeqno + (MaxSkip + 1) * (MaxPackets + MaxDelayed) < 2 * HalfRange
BY SQLAssumption, IntAssumption

LEMMA TimesMonotone ==
  ASSUME NEW k \in Nat, NEW a \in Nat, NEW b \in Nat, a <= b
  PROVE  k * a <= k * b /\ k * a \in Nat /\ k * b \in Nat /\ k * (a + 1) = k * a + k
<1>1. b - a \in Nat /\ b = a + (b - a)
  OBVIOUS
<1>2. PICK d \in Nat : b = a + d
  BY <1>1
<1>3. k * d \in Nat /\ k * a \in Nat
  OBVIOUS
<1>4. k * (a + d) = k * a + k * d /\ k * (a + 1) = k * a + k
  OBVIOUS
<1>. QED  BY <1>2, <1>3, <1>4

(* Every number that is delivered fits in an unsigned int.                 *)
LEMMA NumbersFit ==
  ASSUME StreamInv, dispatched < MaxPackets
  PROVE  /\ \A skipped \in 0 .. MaxSkip : next + skipped \in 0 .. 2 * HalfRange - 1
         /\ \A n \in delayed : n \in 0 .. 2 * HalfRange - 1
         /\ next <= 2 * HalfRange
<1>. DEFINE k == MaxSkip + 1
            c == Cardinality(delayed)
            a == dispatched + c
            b == MaxPackets + MaxDelayed
<1>1. c \in Nat /\ c <= MaxDelayed
  BY FS_CardinalityType DEF StreamInv
<1>2. /\ k \in Nat /\ a \in Nat /\ b \in Nat /\ a + 1 <= b
      /\ FirstSeqno + k * b < 2 * HalfRange /\ next <= FirstSeqno + k * a
      /\ FirstSeqno \in Nat /\ next \in Nat /\ HalfRange \in Nat /\ MaxSkip \in Nat
  BY <1>1, ConstantTypes DEF StreamInv
<1>3. delayed \subseteq FirstSeqno .. next - 1
  BY DEF StreamInv
<1>. HIDE DEF a, b, c
<1>4. /\ k * (a + 1) = k * a + k /\ k * (a + 1) <= k * b
      /\ k * a \in Nat /\ k * b \in Nat /\ a + 1 \in Nat
  BY <1>2, TimesMonotone
<1>5. \A skipped \in 0 .. MaxSkip : next + skipped < 2 * HalfRange
  BY <1>2, <1>4
<1>. QED  BY <1>2, <1>3, <1>5

LEMMA Dispatched ==
  ASSUME SQLTypeInv, NEW n \in 0 .. 2 * HalfRange - 1, DispatchPacket(n)
  PROVE  /\ dispatched < MaxPackets /\ dispatched' = dispatched + 1
         /\ received' = received \cup {Wrap(n)}
         /\ Held(n) \/ Flush(n)
<1>1. /\ Len(BufferAt(n)) = Len(packet_buffer) + 1
      /\ Len(BufferAt(n)) <= BufferSize /\ Len(BufferAt(n)) \in Nat
  BY ConstantTypes, WrappedNumber DEF SQLTypeInv, DispatcherTyped, Numbers, BufferAt
<1>2. CASE Len(BufferAt(n)) >= BufferSize
  <2>1. Len(BufferAt(n)) = BufferSize
    BY <1>1, <1>2, ConstantTypes
  <2>2. Flush(n)
    BY <1>2, <2>1, Zenon
    DEF DispatchPacket, UpdateSQL, Flush, CursorAt, LostAt, NewLast, OldestAt, LastAt,
        BufferAt
  <2>. QED  BY <2>2 DEF DispatchPacket
<1>3. CASE ~ (Len(BufferAt(n)) >= BufferSize)
  <2>1. Len(BufferAt(n)) < BufferSize
    BY <1>1, <1>3, ConstantTypes
  <2>2. Held(n)
    BY <1>3, <2>1, Zenon DEF DispatchPacket, Held, LastAt, BufferAt
  <2>. QED  BY <2>2 DEF DispatchPacket
<1>. QED  BY <1>2, <1>3

(* The types of what a packet changes.                                     *)
LEMMA PacketTypes ==
  ASSUME SQLTypeInv, NEW n \in 0 .. 2 * HalfRange - 1
  PROVE  /\ Wrap(n) \in Int32
         /\ LastAt(n) \in Int32
         /\ BufferAt(n) \in Numbers /\ Len(BufferAt(n)) = Len(packet_buffer) + 1
         /\ \A i \in 1 .. Len(packet_buffer) : BufferAt(n)[i] = packet_buffer[i]
         /\ BufferAt(n)[Len(packet_buffer) + 1] = Wrap(n)
         /\ ToSet(BufferAt(n)) = ToSet(packet_buffer) \cup {Wrap(n)}
<1>. DEFINE l == Len(packet_buffer)
            b == BufferAt(n)
<1>1. /\ Wrap(n) \in Int32 /\ last_seqno \in Int32
      /\ packet_buffer \in Seq(Int32) /\ l \in Nat
  BY WrappedNumber DEF SQLTypeInv, DispatcherTyped, Numbers
<1>2. LastAt(n) \in Int32
  <2>1. Wrap(n - 1) \in Int32
    BY IntAssumption DEF Wrap, Int32
  <2>. QED  BY <1>1, <2>1 DEF LastAt
<1>3. /\ b \in Seq(Int32) /\ Len(b) = l + 1
      /\ \A i \in 1 .. l : b[i] = packet_buffer[i]
      /\ b[l + 1] = Wrap(n)
  BY <1>1 DEF BufferAt
<1>4. /\ DOMAIN b = 1 .. l + 1 /\ DOMAIN packet_buffer = 1 .. l
  BY <1>1, <1>3
<1>5. ToSet(b) = ToSet(packet_buffer) \cup {Wrap(n)}
  <2>1. /\ ToSet(b) = {b[i] : i \in 1 .. l + 1}
        /\ ToSet(packet_buffer) = {packet_buffer[i] : i \in 1 .. l}
    BY <1>4 DEF ToSet
  <2>2. 1 .. l + 1 = (1 .. l) \cup {l + 1}
    BY <1>1
  <2>. HIDE DEF b, l
  <2>. QED  BY <1>3, <2>1, <2>2
<1>. QED  BY <1>1, <1>2, <1>3, <1>5 DEF Numbers

LEMMA FlushTypes ==
  ASSUME SQLTypeInv, NEW n \in 0 .. 2 * HalfRange - 1, Len(BufferAt(n)) = BufferSize
  PROVE  /\ OldestAt(n) \in Numbers /\ Len(OldestAt(n)) = UpdateSize
         /\ \A i \in 1 .. UpdateSize : OldestAt(n)[i] = BufferAt(n)[i]
         /\ NewLast(n) \in Int32
         /\ LostAt(n) \in Numbers
         /\ SubSeq(BufferAt(n), UpdateSize + 1, BufferSize) \in Numbers
         /\ Len(SubSeq(BufferAt(n), UpdateSize + 1, BufferSize)) = BufferSize - UpdateSize
         /\ \A i \in 1 .. BufferSize - UpdateSize :
              SubSeq(BufferAt(n), UpdateSize + 1, BufferSize)[i] = BufferAt(n)[UpdateSize + i]
         /\ ToSet(SubSeq(BufferAt(n), UpdateSize + 1, BufferSize)) \subseteq ToSet(BufferAt(n))
<1>. DEFINE b == BufferAt(n)
            r == SubSeq(b, UpdateSize + 1, BufferSize)
<1>. USE ConstantTypes
<1>1. b \in Seq(Int32) /\ Len(b) = BufferSize /\ DOMAIN b = 1 .. BufferSize /\ LastAt(n) \in Int32
  BY PacketTypes DEF Numbers
<1>. HIDE DEF b
<1>2. /\ SubSeq(b, 1, UpdateSize) \in Seq(Int32) /\ Len(SubSeq(b, 1, UpdateSize)) = UpdateSize
      /\ \A i \in 1 .. UpdateSize : SubSeq(b, 1, UpdateSize)[i] = b[i]
  BY <1>1, SubSeqProperties
<1>3. /\ OldestAt(n) \in Numbers /\ Len(OldestAt(n)) = UpdateSize
      /\ \A i \in 1 .. UpdateSize : OldestAt(n)[i] = b[i]
  BY <1>2 DEF OldestAt, Numbers, b
<1>4. NewLast(n) \in Int32
  BY <1>1, <1>3, LastNumber DEF NewLast
<1>5. LostAt(n) \in Numbers
  BY <1>1, <1>4, OrderedNumbers, LostNumbers DEF LostAt, Numbers, b
<1>6. /\ r \in Seq(Int32) /\ Len(r) = BufferSize - UpdateSize
      /\ \A i \in 1 .. BufferSize - UpdateSize : r[i] = b[UpdateSize + i]
  <2>1. /\ r \in Seq(Int32) /\ Len(r) = BufferSize - UpdateSize
        /\ \A i \in 1 .. BufferSize - UpdateSize : r[i] = b[(UpdateSize + 1) + i - 1]
    <3>1. /\ UpdateSize + 1 \in 1 .. Len(b) + 1 /\ BufferSize \in UpdateSize .. Len(b)
          /\ BufferSize - (UpdateSize + 1) + 1 = BufferSize - UpdateSize
      BY <1>1
    <3>. QED  BY <1>1, <3>1, SubSeqProperties
  <2>. QED  BY <2>1
<1>. HIDE DEF r
<1>7. ToSet(r) \subseteq ToSet(b)
  <2>1. DOMAIN r = 1 .. BufferSize - UpdateSize
    BY <1>6
  <2>2. \A i \in 1 .. BufferSize - UpdateSize : UpdateSize + i \in 1 .. BufferSize
    OBVIOUS
  <2>. QED  BY <1>1, <1>6, <2>1, <2>2 DEF ToSet
<1>. QED  BY <1>3, <1>4, <1>5, <1>6, <1>7 DEF Numbers, r, b

LEMMA CursorTypes ==
  ASSUME SQLTypeInv, NEW n \in 0 .. 2 * HalfRange - 1, Len(BufferAt(n)) = BufferSize
  PROVE  /\ CursorAt(n) \in Cursor
         /\ CursorAt(n) = [id |-> CursorAt(n).id, rows |-> CursorAt(n).rows]
         /\ RowsFit([id |-> current_id, rows |-> table], reported) =>
              RowsFit(CursorAt(n), reported \o LostAt(n))
<1>. DEFINE first == [id |-> current_id, rows |-> table]
<1>1. first \in Cursor /\ reported \in Numbers /\ LostAt(n) \in Numbers
  BY FlushTypes DEF SQLTypeInv, DispatcherTyped
<1>. HIDE DEF first
<1>2. FoldLeft(Insert, first, LostAt(n)) \in Cursor
  BY <1>1, InsertedTyped
<1>3. RowsFit(first, reported) =>
        RowsFit(FoldLeft(Insert, first, LostAt(n)), reported \o LostAt(n))
  BY <1>1, InsertedRows
<1>4. CursorAt(n) = FoldLeft(Insert, first, LostAt(n))
  BY DEF CursorAt, first
<1>5. CursorAt(n) \in Cursor
  BY <1>2, <1>4
<1>6. CursorAt(n) = [id |-> CursorAt(n).id, rows |-> CursorAt(n).rows]
  BY <1>5 DEF Cursor
<1>. QED  BY <1>3, <1>4, <1>5, <1>6 DEF first

RowsFitNow == RowsFit([id |-> current_id, rows |-> table], reported)

LEMMA PacketTyped ==
  ASSUME SQLTypeInv, NEW n \in 0 .. 2 * HalfRange - 1, DispatchPacket(n)
  PROVE  DispatcherTyped' /\ (RowsFitNow => RowsFitNow')
<1>1. received' = received \cup {Wrap(n)} /\ (Held(n) \/ Flush(n))
  BY Dispatched
<1>2. /\ Wrap(n) \in Int32 /\ LastAt(n) \in Int32 /\ BufferAt(n) \in Numbers
      /\ ToSet(BufferAt(n)) = ToSet(packet_buffer) \cup {Wrap(n)}
  BY PacketTypes
<1>3. received' \subseteq Int32 /\ ToSet(BufferAt(n)) \subseteq received'
  BY <1>1, <1>2 DEF SQLTypeInv, DispatcherTyped
<1>4. CASE Held(n)
  BY <1>2, <1>3, <1>4 DEF Held, SQLTypeInv, DispatcherTyped, RowsFitNow
<1>5. CASE Flush(n)
  <2>. DEFINE r == SubSeq(BufferAt(n), UpdateSize + 1, BufferSize)
  <2>1. Len(BufferAt(n)) = BufferSize
    BY <1>5 DEF Flush
  <2>2. /\ NewLast(n) \in Int32 /\ LostAt(n) \in Numbers
        /\ r \in Numbers /\ Len(r) = BufferSize - UpdateSize
        /\ ToSet(r) \subseteq ToSet(BufferAt(n))
    BY <2>1, FlushTypes
  <2>3. /\ CursorAt(n) \in Cursor
        /\ CursorAt(n) = [id |-> CursorAt(n).id, rows |-> CursorAt(n).rows]
        /\ RowsFitNow => RowsFit(CursorAt(n), reported \o LostAt(n))
    BY <2>1, CursorTypes DEF RowsFitNow
  <2>4. /\ last_seqno' = NewLast(n) /\ packet_buffer' = r
        /\ current_id' = CursorAt(n).id /\ table' = CursorAt(n).rows
        /\ reported' = reported \o LostAt(n)
    BY <1>5 DEF Flush
  <2>5. [id |-> current_id', rows |-> table'] = CursorAt(n)
    BY <2>3, <2>4, Zenon
  <2>6. reported' \in Numbers
    BY <2>2, <2>4, TwoParts DEF SQLTypeInv, DispatcherTyped
  <2>7. Len(packet_buffer') < BufferSize
    BY <2>2, <2>4, ConstantTypes
  <2>8. ToSet(packet_buffer') \subseteq received'
    BY <1>3, <2>2, <2>4
  <2>9. [id |-> current_id, rows |-> table]' \in Cursor
    BY <2>3, <2>5
  <2>10. DispatcherTyped'
    <3>. HIDE DEF r
    <3>1. packet_buffer' \in Numbers /\ last_seqno' \in Int32
      BY <2>2, <2>4
    <3>. QED  BY <1>3, <2>6, <2>7, <2>8, <2>9, <3>1 DEF DispatcherTyped
  <2>11. RowsFitNow => RowsFitNow'
    BY <2>3, <2>4, <2>5 DEF RowsFitNow
  <2>. QED  BY <2>10, <2>11
<1>. QED  BY <1>1, <1>4, <1>5

(* The numbers a source delivers, and the room they have.                  *)
LEMMA StreamStep ==
  ASSUME SQLTypeInv, Next
  PROVE  /\ StreamInv'
         /\ \A skipped \in 0 .. MaxSkip :
              Deliver(skipped) => next + skipped \in 0 .. 2 * HalfRange - 1
         /\ \A n \in delayed : DispatchPacket(n) => n \in 0 .. 2 * HalfRange - 1
<1>. USE ConstantTypes
<1>. DEFINE c == Cardinality(delayed)
            k == MaxSkip + 1
<1>1. /\ next \in Nat /\ FirstSeqno <= next /\ dispatched \in 0 .. MaxPackets
      /\ IsFiniteSet(delayed) /\ c \in Nat /\ c <= MaxDelayed
      /\ delayed \subseteq FirstSeqno .. next - 1
      /\ next <= FirstSeqno + k * (dispatched + c)
      /\ k \in Nat
  BY FS_CardinalityType DEF SQLTypeInv, StreamInv
<1>2. /\ k * ((dispatched + c) + 1) = k * (dispatched + c) + k
      /\ k * (dispatched + c) \in Nat
  <2>. HIDE DEF k, c
  <2>1. dispatched + c \in Nat
    BY <1>1
  <2>. QED  BY <1>1, <2>1, TimesMonotone
<1>. HIDE DEF c
<1>3. ASSUME NEW skipped \in 0 .. MaxSkip, Deliver(skipped)
      PROVE  StreamInv' /\ next + skipped \in 0 .. 2 * HalfRange - 1
  <2>1. /\ DispatchPacket(next + skipped) /\ next' = next + skipped + 1
        /\ delayed' = delayed
    BY <1>3 DEF Deliver
  <2>2. dispatched < MaxPackets /\ dispatched' = dispatched + 1
    BY <2>1 DEF DispatchPacket
  <2>3. next + skipped \in 0 .. 2 * HalfRange - 1
    BY <2>2, NumbersFit DEF SQLTypeInv
  <2>4. next' <= FirstSeqno + k * ((dispatched + c) + 1)
    BY <1>1, <1>2, <2>1
  <2>5. (dispatched + c) + 1 = dispatched' + Cardinality(delayed')
    BY <1>1, <2>1, <2>2 DEF c
  <2>6. next' \in Nat /\ next <= next'
    BY <1>1, <2>1
  <2>7. /\ delayed' \subseteq FirstSeqno .. next' - 1 /\ FirstSeqno <= next'
        /\ dispatched' \in 0 .. MaxPackets
    BY <1>1, <2>1, <2>2, <2>6
  <2>8. next' <= FirstSeqno + (MaxSkip + 1) * (dispatched' + Cardinality(delayed'))
    BY <2>4, <2>5
  <2>. QED  BY <1>1, <2>1, <2>3, <2>6, <2>7, <2>8 DEF StreamInv, c
<1>4. ASSUME Delay PROVE StreamInv'
  <2>1. /\ delayed' = delayed \cup {next} /\ next' = next + 1
        /\ dispatched' = dispatched /\ c < MaxDelayed
    BY <1>4 DEF Delay, c
  <2>2. next \notin delayed
    BY <1>1
  <2>3. IsFiniteSet(delayed') /\ Cardinality(delayed') = c + 1
    BY <1>1, <2>1, <2>2, FS_AddElement DEF c
  <2>4. next' <= FirstSeqno + k * ((dispatched + c) + 1)
    BY <1>1, <1>2, <2>1
  <2>5. (dispatched + c) + 1 = dispatched' + Cardinality(delayed')
    BY <1>1, <2>1, <2>3
  <2>6. next' <= FirstSeqno + (MaxSkip + 1) * (dispatched' + Cardinality(delayed'))
    BY <2>4, <2>5
  <2>7. /\ next' \in Nat /\ FirstSeqno <= next'
        /\ delayed' \subseteq FirstSeqno .. next' - 1
        /\ Cardinality(delayed') <= MaxDelayed
    BY <1>1, <2>1, <2>3
  <2>. QED  BY <1>1, <2>1, <2>3, <2>6, <2>7 DEF StreamInv
<1>5. ASSUME NEW n \in delayed, DispatchPacket(n), delayed' = delayed \ {n}, next' = next
      PROVE  StreamInv'
  <2>1. dispatched < MaxPackets /\ dispatched' = dispatched + 1
    BY <1>5 DEF DispatchPacket
  <2>2. IsFiniteSet(delayed') /\ Cardinality(delayed') = c - 1 /\ c - 1 \in Nat
    <3>1. /\ IsFiniteSet(delayed \ {n})
          /\ Cardinality(delayed \ {n}) = Cardinality(delayed) - 1
      BY <1>1, <1>5, FS_RemoveElement
    <3>2. Cardinality(delayed \ {n}) \in Nat
      BY <3>1, FS_CardinalityType
    <3>. QED  BY <1>5, <3>1, <3>2 DEF c
  <2>3. dispatched + c = dispatched' + Cardinality(delayed')
    BY <1>1, <2>1, <2>2
  <2>4. next' <= FirstSeqno + (MaxSkip + 1) * (dispatched' + Cardinality(delayed'))
    BY <1>1, <1>5, <2>3
  <2>5. /\ delayed' \subseteq FirstSeqno .. next' - 1
        /\ Cardinality(delayed') <= MaxDelayed /\ dispatched' \in 0 .. MaxPackets
    BY <1>1, <1>5, <2>1, <2>2
  <2>. QED  BY <1>1, <1>5, <2>2, <2>4, <2>5 DEF StreamInv
<1>6. StreamInv'
  BY <1>3, <1>4, <1>5 DEF Next, DeliverDelayed
<1>7. \A n \in delayed : DispatchPacket(n) => n \in 0 .. 2 * HalfRange - 1
  BY NumbersFit DEF SQLTypeInv, DispatchPacket
<1>. QED  BY <1>3, <1>6, <1>7

SQLInv == SQLTypeInv /\ RowsFitNow

LEMMA SQLInit == Init => SQLInv
<1>. SUFFICES ASSUME Init PROVE SQLInv
  OBVIOUS
<1>. USE ConstantTypes DEF Init
<1>1. StreamInv
  <2>1. IsFiniteSet({}) /\ Cardinality({}) = 0
    BY FS_EmptySet
  <2>2. (MaxSkip + 1) * (dispatched + Cardinality(delayed)) = 0
    BY <2>1
  <2>. QED  BY <2>1, <2>2 DEF StreamInv
<1>2. DispatcherTyped
  <2>1. << >> \in Numbers /\ Len(<< >>) = 0 /\ ToSet(<< >>) = {}
    BY DEF Numbers, ToSet
  <2>2. << >> \in [{} -> Int32] /\ {} \in SUBSET Ids
    OBVIOUS
  <2>3. << >> \in Tables /\ 1 \in Ids
    BY <2>2 DEF Tables, Ids
  <2>4. [id |-> current_id, rows |-> table] \in Cursor
    BY <2>3 DEF Cursor
  <2>. QED  BY <2>1, <2>4 DEF DispatcherTyped
<1>3. RowsFitNow
  BY DEF RowsFitNow, RowsFit
<1>. QED  BY <1>1, <1>2, <1>3 DEF SQLInv, SQLTypeInv

LEMMA SQLStep == SQLInv /\ [Next]_vars => SQLInv'
<1>. SUFFICES ASSUME SQLInv, [Next]_vars PROVE SQLInv'
  OBVIOUS
<1>0. SQLTypeInv /\ RowsFitNow
  BY DEF SQLInv
<1>1. ASSUME NEW skipped \in 0 .. MaxSkip, Deliver(skipped) PROVE SQLInv'
  <2>1. Next
    BY <1>1 DEF Next
  <2>2. StreamInv' /\ next + skipped \in 0 .. 2 * HalfRange - 1
    BY <1>0, <1>1, <2>1, StreamStep
  <2>3. DispatchPacket(next + skipped)
    BY <1>1 DEF Deliver
  <2>4. DispatcherTyped' /\ RowsFitNow'
    BY <1>0, <2>2, <2>3, PacketTyped
  <2>. QED  BY <2>2, <2>4 DEF SQLInv, SQLTypeInv
<1>2. CASE Delay
  <2>1. Next
    BY <1>2 DEF Next
  <2>2. StreamInv'
    BY <1>0, <2>1, StreamStep
  <2>3. DispatcherTyped' /\ RowsFitNow'
    BY <1>0, <1>2 DEF Delay, SQLTypeInv, DispatcherTyped, RowsFitNow
  <2>. QED  BY <2>2, <2>3 DEF SQLInv, SQLTypeInv
<1>3. CASE DeliverDelayed
  <2>1. Next
    BY <1>3 DEF Next
  <2>2. PICK n \in delayed : DispatchPacket(n)
    BY <1>3 DEF DeliverDelayed
  <2>3. StreamInv' /\ n \in 0 .. 2 * HalfRange - 1
    BY <1>0, <2>1, <2>2, StreamStep
  <2>4. DispatcherTyped' /\ RowsFitNow'
    BY <1>0, <2>2, <2>3, PacketTyped
  <2>. QED  BY <2>3, <2>4 DEF SQLInv, SQLTypeInv
<1>4. CASE UNCHANGED vars
  BY <1>4
  DEF vars, SQLInv, SQLTypeInv, StreamInv, DispatcherTyped, RowsFitNow
<1>. QED  BY <1>1, <1>2, <1>3, <1>4 DEF Next

(* A flush brings the buffer back below its size, the ids stay in their    *)
(* cycle and what waits in the buffer has arrived (MEPSQL_Dispatcher.h:    *)
(* 34-43), in whatever order the packets come.                             *)
THEOREM SQLTypeCorrect == Spec => []TypeOK
<1>1. SQLInv => TypeOK
  <2>. SUFFICES ASSUME SQLInv PROVE TypeOK
    OBVIOUS
  <2>1. [id |-> current_id, rows |-> table] \in Cursor
    BY DEF SQLInv, SQLTypeInv, DispatcherTyped
  <2>2. current_id \in Ids /\ table \in Tables
    BY <2>1 DEF Cursor
  <2>3. DOMAIN table \subseteq Ids
    BY <2>2 DEF Tables
  <2>. QED  BY <2>2, <2>3 DEF SQLInv, SQLTypeInv, DispatcherTyped, TypeOK, Ids
<1>. QED  BY <1>1, SQLInit, SQLStep, PTL DEF Spec

(* Row i of the table is the i-th loss reported, and all that is reported  *)
(* once the ids have started over is in no row                             *)
(* (MEPSQL_Dispatcher.cpp:151-161).                                        *)
THEOREM RowsAreReports == Spec => []RowsAreFirstReports
<1>1. SQLInv => RowsAreFirstReports
  BY DEF SQLInv, RowsFitNow, RowsFit, RowsAreFirstReports, Ids
<1>. QED  BY <1>1, SQLInit, SQLStep, PTL DEF Spec
-----------------------------------------------------------------------------
(* A gap lies between its neighbours also as unsigned numbers, unless it   *)
(* goes from a negative number to one that is not and spans half the range.*)
LEMMA GapLies ==
  ASSUME NEW p \in Int32, NEW s \in Int32, NEW x \in Int32, IsMissing(x, p, s),
         p >= 0 \/ s < 0 \/ U(p) - U(s) < HalfRange
  PROVE  /\ U(p) < U(x) /\ U(x) < U(s) /\ x < s
         /\ p < x \/ s < p
<1>. DEFINE d == s - Wrap(p + 1)
<1>1. /\ d > 0 /\ d <= HalfRange - 1 /\ Wrap(p + 1) <= x /\ x < s
      /\ p \in Int /\ s \in Int /\ x \in Int /\ HalfRange \in Nat
      /\ p >= - HalfRange /\ p <= HalfRange - 1
      /\ s >= - HalfRange /\ s <= HalfRange - 1
      /\ x >= - HalfRange /\ x <= HalfRange - 1
  BY IntAssumption DEF IsMissing, Gap, Int32
<1>2. CASE p = HalfRange - 1
  <2>1. Wrap(p + 1) = - HalfRange
    BY <1>1, <1>2 DEF Wrap
  <2>2. s < 0
    BY <1>1, <2>1
  <2>. QED  BY <1>1, <1>2, <2>2 DEF U, AsUnsigned
<1>3. CASE p # HalfRange - 1
  <2>1. Wrap(p + 1) = p + 1
    BY <1>1, <1>3 DEF Wrap
  <2>2. d = s - (p + 1) /\ p < x
    BY <1>1, <2>1
  <2>3. CASE p >= 0
    BY <1>1, <2>2, <2>3 DEF U, AsUnsigned
  <2>4. CASE s < 0
    BY <1>1, <2>2, <2>4 DEF U, AsUnsigned
  <2>5. ~ (p < 0 /\ s >= 0)
    <3>. SUFFICES ASSUME p < 0, s >= 0 PROVE FALSE
      OBVIOUS
    <3>1. U(p) = p + 2 * HalfRange /\ U(s) = s
      BY <1>1 DEF U, AsUnsigned
    <3>. QED  BY <1>1, <2>2, <3>1
  <2>. QED  BY <1>1, <2>3, <2>4, <2>5
<1>. QED  BY <1>2, <1>3

Narrow(b) == \A i, j \in 1 .. Len(b) : U(b[i]) - U(b[j]) < HalfRange

(* What a flush reports is not in the buffer, lies below a number that is, *)
(* and above another or above the number the last flush stopped at.        *)
LEMMA ReportLies ==
  ASSUME NEW last \in Int32, NEW b \in Numbers, NEW newLast \in Int32,
         U(last) <= U(newLast), Narrow(b), NEW x \in Int32,
         x \in ToSet(LostSeqnos(last, OrderedSeqnos(b, newLast)))
  PROVE  /\ x \notin ToSet(b)
         /\ \E s \in ToSet(b) : s < newLast /\ x < s /\ U(x) < U(s)
         /\ U(last) < U(x) \/ \E r \in ToSet(b) : U(r) < U(x)
<1>. DEFINE o == OrderedSeqnos(b, newLast)
            m == Len(o)
<1>1. /\ o \in Numbers /\ IsOrdered(o)
      /\ ToSet(o) = {s \in ToSet(b) : s < newLast}
  BY OrderedNumbers
<1>. HIDE DEF o
<1>2. PICK k \in 1 .. m : IsMissing(x, Before(last, o, k), o[k])
  BY <1>1, LostNumbers DEF o
<1>3. /\ m \in Nat /\ DOMAIN o = 1 .. m
      /\ \A i \in 1 .. m : o[i] \in Int32 /\ o[i] \in ToSet(b) /\ o[i] < newLast
  <2>1. m \in Nat /\ DOMAIN o = 1 .. m /\ \A i \in 1 .. m : o[i] \in Int32
    BY <1>1 DEF Numbers
  <2>2. \A i \in 1 .. m : o[i] \in ToSet(o)
    BY <2>1 DEF ToSet
  <2>. QED  BY <1>1, <2>1, <2>2
<1>. DEFINE s == o[k]
            p == Before(last, o, k)
<1>4. s \in Int32 /\ s \in ToSet(b) /\ s < newLast
  BY <1>3
<1>5. /\ p \in Int32
      /\ p >= 0 \/ s < 0 \/ U(p) - U(s) < HalfRange
      /\ k = 1 => p = last
      /\ k # 1 => p \in ToSet(b) /\ k - 1 \in 1 .. m /\ p = o[k - 1] /\ p <= s
  <2>1. CASE k = 1
    <3>1. p = last
      BY <2>1 DEF Before
    <3>2. last < 0 => newLast < 0
      BY IntAssumption DEF U, AsUnsigned, Int32
    <3>3. last < 0 => s < 0
      BY <1>4, <3>2 DEF Int32
    <3>. HIDE DEF p, s
    <3>. QED  BY <2>1, <3>1, <3>3 DEF Int32
  <2>2. CASE k # 1
    <3>1. k - 1 \in 1 .. m /\ p = o[k - 1] /\ k - 1 <= k
      BY <1>3, <2>2 DEF Before
    <3>2. p \in Int32 /\ p \in ToSet(b)
      BY <1>3, <3>1
    <3>3. p <= s
      BY <1>1, <3>1 DEF IsOrdered
    <3>4. U(p) - U(s) < HalfRange
      <4>1. \A y \in ToSet(b) : \E i \in 1 .. Len(b) : y = b[i]
        BY DEF ToSet, Numbers
      <4>. HIDE DEF p, s
      <4>. QED  BY <1>4, <3>2, <4>1 DEF Narrow
    <3>. HIDE DEF p, s
    <3>. QED  BY <2>2, <3>1, <3>2, <3>3, <3>4
  <2>. QED  BY <2>1, <2>2
<1>6. IsMissing(x, p, s)
  BY <1>2
<1>. HIDE DEF p, s
<1>7. /\ U(p) < U(x) /\ U(x) < U(s) /\ x < s
      /\ p < x \/ s < p
  BY <1>4, <1>5, <1>6, GapLies
<1>8. x \notin ToSet(b)
  <2>. SUFFICES ASSUME x \in ToSet(b) PROVE FALSE
    OBVIOUS
  <2>1. x < newLast
    BY <1>4, <1>7 DEF Int32
  <2>2. PICK j \in 1 .. m : o[j] = x
    <3>1. x \in ToSet(o)
      BY <1>1, <2>1
    <3>. QED  BY <1>3, <3>1 DEF ToSet
  <2>3. j < k
    <3>. SUFFICES ASSUME k <= j PROVE FALSE
      BY <1>3
    <3>1. s <= x
      BY <1>1, <2>2 DEF IsOrdered, s
    <3>. QED  BY <1>4, <1>7, <3>1 DEF Int32
  <2>4. k # 1 /\ j <= k - 1 /\ k - 1 \in 1 .. m
    BY <1>3, <2>3
  <2>5. x <= p
    <3>1. o[j] <= o[k - 1]
      BY <1>1, <2>4 DEF IsOrdered
    <3>. QED  BY <1>5, <2>2, <2>4, <3>1
  <2>. QED  BY <1>4, <1>5, <1>7, <2>4, <2>5 DEF Int32
<1>9. U(last) < U(x) \/ \E r \in ToSet(b) : U(r) < U(x)
  BY <1>5, <1>7
<1>. QED  BY <1>4, <1>7, <1>8, <1>9
-----------------------------------------------------------------------------
(* What arrived, what was dropped and what is still in the network: every  *)
(* number the sender used is one of the three.                             *)
HistoryInv ==
  /\ \A r \in received : U(r) \in FirstSeqno .. next - 1
  /\ \A n \in delayed : Wrap(n) \notin received
  /\ \A n \in FirstSeqno .. next - 1 :
       Wrap(n) \in received \/ Wrap(n) \in dropped \/ n \in delayed
  /\ received = {} => last_seqno = started /\ packet_buffer = << >> /\ reported = << >>

LEMMA HistoryStep ==
  ASSUME SQLTypeInv, HistoryInv, [Next]_vars
  PROVE  HistoryInv'
<1>1. /\ next \in Nat /\ FirstSeqno \in Nat /\ FirstSeqno <= next /\ HalfRange \in Nat
      /\ delayed \subseteq FirstSeqno .. next - 1
      /\ received \subseteq Int32
  BY ConstantTypes DEF SQLTypeInv, StreamInv, DispatcherTyped
<1>2. \A r \in received : U(r) \in FirstSeqno .. next - 1
  BY DEF HistoryInv
<1>3. \A n \in delayed : Wrap(n) \notin received
  BY DEF HistoryInv
<1>4. \A n \in FirstSeqno .. next - 1 :
        Wrap(n) \in received \/ Wrap(n) \in dropped \/ n \in delayed
  BY DEF HistoryInv
<1>5. ASSUME NEW skipped \in 0 .. MaxSkip, Deliver(skipped) PROVE HistoryInv'
  <2>. DEFINE seqno == next + skipped
  <2>1. DispatchPacket(seqno) /\ next' = seqno + 1 /\ delayed' = delayed
    BY <1>5 DEF Deliver
  <2>1a. /\ dropped \subseteq dropped'
         /\ \A m \in next .. seqno - 1 : Wrap(m) \in dropped'
    <3>. DEFINE skips == next .. next + skipped - 1
    <3>1. dropped' = dropped \cup {Wrap(m) : m \in skips}
      BY <1>5, Zenon DEF Deliver
    <3>2. next .. seqno - 1 = skips
      <4>1. next + skipped - 1 = (next + skipped) - 1
        BY <1>1, ConstantTypes
      <4>. QED  BY <4>1
    <3>. HIDE DEF skips, seqno
    <3>3. \A m \in skips : Wrap(m) \in {Wrap(k) : k \in skips}
      BY Zenon
    <3>. QED  BY <3>1, <3>2, <3>3
  <2>2. seqno \in 0 .. 2 * HalfRange - 1
    <3>1. Next
      BY <1>5 DEF Next
    <3>. QED  BY <1>5, <3>1, StreamStep
  <2>3. received' = received \cup {Wrap(seqno)} /\ Wrap(seqno) \in Int32 /\ U(Wrap(seqno)) = seqno
    BY <2>1, <2>2, Dispatched, WrappedNumber
  <2>4. seqno \in Nat /\ next <= seqno
    BY <1>1, <2>2
  <2>. HIDE DEF seqno
  <2>5. \A r \in received' : U(r) \in FirstSeqno .. next' - 1
    BY <1>1, <1>2, <2>1, <2>3, <2>4
  <2>6. \A m \in delayed' : Wrap(m) \notin received'
    <3>. SUFFICES ASSUME NEW m \in delayed PROVE Wrap(m) \notin received'
      BY <2>1
    <3>1. m \in 0 .. 2 * HalfRange - 1 /\ m < seqno
      BY <1>1, <2>2, <2>4
    <3>2. U(Wrap(m)) = m
      BY <3>1, WrappedNumber
    <3>. QED  BY <1>3, <2>3, <3>1, <3>2
  <2>7. \A m \in FirstSeqno .. next' - 1 :
          Wrap(m) \in received' \/ Wrap(m) \in dropped' \/ m \in delayed'
    <3>. SUFFICES ASSUME NEW m \in FirstSeqno .. seqno
                  PROVE  Wrap(m) \in received' \/ Wrap(m) \in dropped' \/ m \in delayed
      BY <1>1, <2>1, <2>4
    <3>1. CASE m \in FirstSeqno .. next - 1
      BY <1>4, <2>1, <2>1a, <2>3, <3>1
    <3>2. CASE m \in next .. seqno - 1
      BY <2>1a, <3>2
    <3>3. CASE m = seqno
      BY <2>3, <3>3
    <3>. QED  BY <1>1, <2>4, <3>1, <3>2, <3>3
  <2>. QED  BY <2>3, <2>5, <2>6, <2>7 DEF HistoryInv
<1>6. CASE Delay
  <2>1. /\ delayed' = delayed \cup {next} /\ next' = next + 1 /\ dispatched < MaxPackets
        /\ UNCHANGED <<received, dropped, last_seqno, started, packet_buffer, reported>>
    BY <1>6 DEF Delay
  <2>2. next \in 0 .. 2 * HalfRange - 1
    <3>1. next + 0 \in 0 .. 2 * HalfRange - 1
      <4>1. 0 \in 0 .. MaxSkip
        BY ConstantTypes
      <4>. QED  BY <2>1, <4>1, NumbersFit DEF SQLTypeInv
    <3>. QED  BY <1>1, <3>1
  <2>3. Wrap(next) \notin received
    <3>1. U(Wrap(next)) = next
      BY <2>2, WrappedNumber
    <3>. QED  BY <1>1, <1>2, <3>1
  <2>4. \A r \in received' : U(r) \in FirstSeqno .. next' - 1
    BY <1>1, <1>2, <2>1
  <2>5. \A m \in delayed' : Wrap(m) \notin received'
    BY <1>3, <2>1, <2>3
  <2>6. \A m \in FirstSeqno .. next' - 1 :
          Wrap(m) \in received' \/ Wrap(m) \in dropped' \/ m \in delayed'
    <3>. SUFFICES ASSUME NEW m \in FirstSeqno .. next
                  PROVE  Wrap(m) \in received \/ Wrap(m) \in dropped \/ m \in delayed'
      BY <1>1, <2>1
    <3>1. CASE m = next
      BY <2>1, <3>1
    <3>2. CASE m # next
      <4>1. m \in FirstSeqno .. next - 1
        BY <1>1, <3>2
      <4>. QED  BY <1>4, <2>1, <4>1
    <3>. QED  BY <3>1, <3>2
  <2>7. received' = {} =>
          last_seqno' = started' /\ packet_buffer' = << >> /\ reported' = << >>
    BY <2>1 DEF HistoryInv
  <2>. QED  BY <2>4, <2>5, <2>6, <2>7 DEF HistoryInv
<1>7. CASE DeliverDelayed
  <2>1. PICK n \in delayed : /\ DispatchPacket(n) /\ delayed' = delayed \ {n}
                             /\ next' = next /\ dropped' = dropped
    BY <1>7 DEF DeliverDelayed
  <2>2. n \in 0 .. 2 * HalfRange - 1
    <3>1. Next
      BY <1>7 DEF Next
    <3>. QED  BY <2>1, <3>1, StreamStep
  <2>3. received' = received \cup {Wrap(n)} /\ Wrap(n) \in Int32 /\ U(Wrap(n)) = n
    BY <2>1, <2>2, Dispatched, WrappedNumber
  <2>4. n \in FirstSeqno .. next - 1
    BY <1>1
  <2>5. \A r \in received' : U(r) \in FirstSeqno .. next' - 1
    BY <1>2, <2>1, <2>3, <2>4
  <2>6. \A m \in delayed' : Wrap(m) \notin received'
    <3>. SUFFICES ASSUME NEW m \in delayed, m # n PROVE Wrap(m) \notin received'
      BY <2>1
    <3>1. m \in 0 .. 2 * HalfRange - 1
      <4>1. dispatched < MaxPackets
        BY <2>1 DEF DispatchPacket
      <4>. QED  BY <4>1, NumbersFit DEF SQLTypeInv
    <3>2. U(Wrap(m)) = m
      BY <3>1, WrappedNumber
    <3>. QED  BY <1>3, <2>3, <3>2
  <2>7. \A m \in FirstSeqno .. next' - 1 :
          Wrap(m) \in received' \/ Wrap(m) \in dropped' \/ m \in delayed'
    BY <1>4, <2>1, <2>3
  <2>. QED  BY <2>3, <2>5, <2>6, <2>7 DEF HistoryInv
<1>8. CASE UNCHANGED vars
  BY <1>8 DEF vars, HistoryInv
<1>. QED  BY <1>5, <1>6, <1>7, <1>8 DEF Next

(* How far from one number that arrives in order to the next.              *)
Reach == MaxDelayed + MaxSkip + 1

(* What came after the last number in the buffer is in the network.        *)
LastArrived ==
  packet_buffer # << >> =>
    U(packet_buffer[Len(packet_buffer)]) + 1 .. next - 1 \subseteq delayed

(* Packet n comes after all that came.                                     *)
InOrderAt(n) ==
  /\ DispatchPacket(n)
  /\ n \in FirstSeqno .. 2 * HalfRange - 1
  /\ next - 1 <= n /\ next' = n + 1 /\ started' = started
  /\ \A r \in received : U(r) < n
  /\ packet_buffer # << >> => n - U(packet_buffer[Len(packet_buffer)]) <= Reach

LEMMA InOrderPacket ==
  ASSUME SQLTypeInv, HistoryInv, LastArrived, Next, late' = {}
  PROVE  late = {} /\ (Delay \/ \E n \in 0 .. 2 * HalfRange - 1 : InOrderAt(n))
<1>1. /\ next \in Nat /\ FirstSeqno \in Nat /\ FirstSeqno <= next /\ HalfRange \in Nat
      /\ MaxSkip \in Nat /\ MaxDelayed \in Nat
      /\ delayed \subseteq FirstSeqno .. next - 1
      /\ IsFiniteSet(delayed) /\ Cardinality(delayed) <= MaxDelayed
      /\ Cardinality(delayed) \in Nat
      /\ received \subseteq Int32
  BY ConstantTypes, FS_CardinalityType DEF SQLTypeInv, StreamInv, DispatcherTyped
<1>2. \A r \in received : U(r) \in FirstSeqno .. next - 1
  BY DEF HistoryInv
<1>. DEFINE l == U(packet_buffer[Len(packet_buffer)])
<1>3. packet_buffer # << >> => l \in Nat /\ next - 1 - l <= MaxDelayed
  <2>. SUFFICES ASSUME packet_buffer # << >> PROVE l \in Nat /\ next - 1 - l <= MaxDelayed
    OBVIOUS
  <2>1. l \in Nat
    <3>1. packet_buffer \in Seq(Int32)
      BY DEF SQLTypeInv, DispatcherTyped, Numbers
    <3>2. packet_buffer[Len(packet_buffer)] \in Int32
      BY <3>1
    <3>. QED  BY <1>1, <3>2, UnsignedNumber
  <2>2. l + 1 .. next - 1 \subseteq delayed
    BY DEF LastArrived
  <2>. HIDE DEF l
  <2>3. Cardinality(l + 1 .. next - 1) <= MaxDelayed
    <3>1. Cardinality(l + 1 .. next - 1) <= Cardinality(delayed)
      BY <1>1, <2>2, FS_Subset
    <3>2. Cardinality(l + 1 .. next - 1) \in Nat
      <4>1. IsFiniteSet(l + 1 .. next - 1)
        BY <1>1, <2>1, FS_Interval
      <4>. QED  BY <4>1, FS_CardinalityType
    <3>. QED  BY <1>1, <3>1, <3>2
  <2>4. Cardinality(l + 1 .. next - 1) =
          IF l + 1 > next - 1 THEN 0 ELSE (next - 1) - (l + 1) + 1
    <3>1. l + 1 \in Int /\ next - 1 \in Int
      BY <1>1, <2>1
    <3>. QED  BY <3>1, FS_Interval
  <2>5. CASE l + 1 > next - 1
    BY <1>1, <2>1, <2>5
  <2>6. CASE ~ (l + 1 > next - 1)
    BY <1>1, <2>1, <2>3, <2>4, <2>6
  <2>. QED  BY <2>1, <2>5, <2>6
<1>. HIDE DEF l
<1>4. ASSUME NEW skipped \in 0 .. MaxSkip, Deliver(skipped)
      PROVE  late = {} /\ \E n \in 0 .. 2 * HalfRange - 1 : InOrderAt(n)
  <2>. DEFINE n == next + skipped
  <2>1. DispatchPacket(n) /\ next' = n + 1 /\ late' = late /\ started' = started
    BY <1>4 DEF Deliver
  <2>2. n \in 0 .. 2 * HalfRange - 1
    BY <1>4, StreamStep
  <2>3. n \in FirstSeqno .. 2 * HalfRange - 1 /\ next - 1 <= n
    BY <1>1, <2>2
  <2>4. packet_buffer # << >> => n - l <= Reach
    BY <1>1, <1>3 DEF Reach
  <2>5. \A r \in received : U(r) < n
    BY <1>1, <1>2
  <2>. HIDE DEF n
  <2>6. InOrderAt(n)
    BY <2>1, <2>3, <2>4, <2>5 DEF InOrderAt, l
  <2>. QED  BY <2>1, <2>2, <2>6
<1>5. ASSUME DeliverDelayed
      PROVE  late = {} /\ \E n \in 0 .. 2 * HalfRange - 1 : InOrderAt(n)
  <2>1. PICK n \in delayed :
          /\ DispatchPacket(n) /\ next' = next /\ started' = started
          /\ late' = IF n = next - 1 THEN late ELSE late \cup {Wrap(n)}
    BY <1>5 DEF DeliverDelayed
  <2>2. n = next - 1 /\ late = {}
    BY <2>1
  <2>3. n \in 0 .. 2 * HalfRange - 1
    BY <2>1, StreamStep
  <2>4. n \in FirstSeqno .. 2 * HalfRange - 1 /\ n + 1 = next
    BY <1>1, <2>2, <2>3
  <2>5. packet_buffer # << >> => n - l <= Reach
    BY <1>1, <1>3, <2>2, <2>3 DEF Reach
  <2>6. \A r \in received : U(r) < n
    <3>. SUFFICES ASSUME NEW r \in received PROVE U(r) < n
      OBVIOUS
    <3>1. U(r) # n
      <4>1. Wrap(U(r)) = r
        BY <1>1, UnsignedNumber
      <4>. QED  BY <4>1 DEF HistoryInv
    <3>. QED  BY <1>1, <1>2, <2>2, <3>1
  <2>7. InOrderAt(n)
    BY <2>1, <2>2, <2>4, <2>5, <2>6 DEF InOrderAt, l
  <2>. QED  BY <2>2, <2>3, <2>7
<1>6. ASSUME Delay PROVE late = {}
  BY <1>6 DEF Delay
<1>. QED  BY <1>4, <1>5, <1>6 DEF Next
-----------------------------------------------------------------------------
(* The buffer of a network that keeps the order.                           *)
Ascending(b) ==
  \A i, j \in 1 .. Len(b) :
    i < j => U(b[i]) < U(b[j]) /\ U(b[j]) - U(b[i]) <= Reach * (j - i)

(* What arrived is in the buffer, or before all that is, and up to last.   *)
Behind(arrived, b, last) ==
  \A r \in arrived :
    \/ r \in ToSet(b)
    \/ U(r) <= U(last) /\ \A i \in 1 .. Len(b) : U(r) < U(b[i])

(* The numbers in the buffer are near one another: they have to be, or the *)
(* numbers have not come to half the range yet.                            *)
IsNarrow == BufferIsNarrow \/ next <= HalfRange

(* Where what is reported lies: from the first number on, or above what    *)
(* _last_seqno started as.                                                 *)
FromStart ==
  /\ started \in Int32
  /\ U(last_seqno) >= U(started)
  /\ started = 0 /\ received # {} => U(last_seqno) >= FirstSeqno - 1
  /\ \A x \in ToSet(reported) :
       U(x) >= FirstSeqno \/ (started # 0 /\ U(x) > U(started))

OrderedInv ==
  late = {} /\ IsNarrow =>
    /\ Ascending(packet_buffer)
    /\ Behind(received, packet_buffer, last_seqno)
    /\ LastArrived
    /\ \A x \in ToSet(reported) : U(x) < next - 1 /\ x \notin received
    /\ FromStart

LEMMA AscendingNarrow ==
  ASSUME BufferIsNarrow, NEW b \in Numbers, Len(b) <= BufferSize, Ascending(b)
  PROVE  Narrow(b)
<1>. SUFFICES ASSUME NEW i \in 1 .. Len(b), NEW j \in 1 .. Len(b)
              PROVE  U(b[i]) - U(b[j]) < HalfRange
  BY DEF Narrow
<1>1. /\ Reach \in Nat /\ BufferSize \in Nat /\ BufferSize >= 1 /\ HalfRange \in Nat
      /\ Reach * (BufferSize - 1) < HalfRange
  BY ConstantTypes DEF Reach, BufferIsNarrow
<1>2. /\ Len(b) \in Nat /\ b[i] \in Int32 /\ b[j] \in Int32
      /\ U(b[i]) \in Nat /\ U(b[j]) \in Nat
  <2>1. Len(b) \in Nat /\ b[i] \in Int32 /\ b[j] \in Int32
    BY DEF Numbers
  <2>. QED  BY <1>1, <2>1, UnsignedNumber
<1>3. CASE j < i
  <2>1. U(b[i]) - U(b[j]) <= Reach * (i - j)
    BY <1>3 DEF Ascending
  <2>. DEFINE near == i - j
              far == BufferSize - 1
  <2>2. near \in Nat /\ far \in Nat /\ near <= far
    BY <1>1, <1>2, <1>3
  <2>3. U(b[i]) - U(b[j]) <= Reach * near /\ Reach * far < HalfRange
    BY <1>1, <2>1
  <2>. HIDE DEF near, far
  <2>4. /\ Reach * near <= Reach * far
        /\ Reach * near \in Nat /\ Reach * far \in Nat
    BY <1>1, <2>2, TimesMonotone
  <2>. QED  BY <1>1, <1>2, <2>3, <2>4
<1>4. CASE ~ (j < i)
  <2>1. U(b[i]) <= U(b[j])
    <3>1. CASE i = j
      BY <1>2, <3>1
    <3>2. CASE i < j
      BY <1>2, <3>2 DEF Ascending
    <3>. QED  BY <1>2, <1>4, <3>1, <3>2
  <2>2. 0 < HalfRange
    <3>1. BufferSize - 1 \in Nat
      BY <1>1
    <3>2. Reach * (BufferSize - 1) \in Nat
      BY <1>1, <3>1, TimesMonotone
    <3>. QED  BY <1>1, <3>2
  <2>. QED  BY <1>1, <1>2, <2>1, <2>2
<1>. QED  BY <1>3, <1>4

(* A number that comes in order goes to the end of the buffer.             *)
LEMMA BufferInOrder ==
  ASSUME SQLTypeInv, NEW n \in 0 .. 2 * HalfRange - 1, InOrderAt(n),
         Ascending(packet_buffer), Behind(received, packet_buffer, last_seqno)
  PROVE  /\ U(last_seqno) <= U(LastAt(n))
         /\ Ascending(BufferAt(n))
         /\ Behind(received, BufferAt(n), LastAt(n))
         /\ \A s \in ToSet(BufferAt(n)) : U(s) <= n
<1>. DEFINE l == Len(packet_buffer)
            b == BufferAt(n)
<1>1. /\ packet_buffer \in Numbers /\ last_seqno \in Int32 /\ l \in Nat
      /\ ToSet(packet_buffer) \subseteq received /\ received \subseteq Int32
      /\ \A i \in 1 .. l : packet_buffer[i] \in received
  <2>1. /\ packet_buffer \in Numbers /\ last_seqno \in Int32
        /\ ToSet(packet_buffer) \subseteq received /\ received \subseteq Int32
    BY DEF SQLTypeInv, DispatcherTyped
  <2>2. l \in Nat /\ DOMAIN packet_buffer = 1 .. l
    BY <2>1 DEF Numbers
  <2>3. \A i \in 1 .. l : packet_buffer[i] \in ToSet(packet_buffer)
    BY <2>2 DEF ToSet
  <2>. QED  BY <2>1, <2>2, <2>3
<1>2. /\ LastAt(n) \in Int32 /\ Len(b) = l + 1
      /\ \A i \in 1 .. l : b[i] = packet_buffer[i]
      /\ b[l + 1] = Wrap(n)
      /\ ToSet(b) = ToSet(packet_buffer) \cup {Wrap(n)}
  BY PacketTypes
<1>3. U(Wrap(n)) = n /\ \A r \in received : U(r) < n /\ U(r) \in Nat
  <2>1. U(Wrap(n)) = n
    BY WrappedNumber
  <2>2. \A r \in received : U(r) < n
    BY DEF InOrderAt
  <2>3. \A r \in received : U(r) \in Nat
    BY <1>1, ConstantTypes, UnsignedNumber
  <2>. QED  BY <2>1, <2>2, <2>3
<1>4. packet_buffer # << >> => n - U(packet_buffer[l]) <= Reach
  BY DEF InOrderAt
<1>5. U(last_seqno) <= U(LastAt(n))
  <2>1. CASE last_seqno = 0
    <3>1. U(last_seqno) = 0 /\ U(LastAt(n)) \in Nat
      BY <1>2, <2>1, ConstantTypes, UnsignedNumber DEF U, AsUnsigned
    <3>. QED  BY <3>1
  <2>2. CASE last_seqno # 0
    <3>1. LastAt(n) = last_seqno
      BY <2>2 DEF LastAt
    <3>2. U(last_seqno) \in Nat
      BY <1>1, ConstantTypes, UnsignedNumber
    <3>. QED  BY <3>1, <3>2
  <2>. QED  BY <2>1, <2>2
<1>. HIDE DEF b
<1>6. Ascending(b)
  <2>. SUFFICES ASSUME NEW i \in 1 .. l + 1, NEW j \in 1 .. l + 1, i < j
                PROVE  U(b[i]) < U(b[j]) /\ U(b[j]) - U(b[i]) <= Reach * (j - i)
    BY <1>2 DEF Ascending
  <2>. HIDE DEF l
  <2>1. CASE j <= l
    <3>1. i \in 1 .. l /\ j \in 1 .. l
      BY <1>1, <2>1
    <3>2. b[i] = packet_buffer[i] /\ b[j] = packet_buffer[j]
      BY <1>2, <3>1
    <3>. QED  BY <3>1, <3>2 DEF Ascending, l
  <2>2. CASE j = l + 1
    <3>1. i \in 1 .. l /\ l \in 1 .. l /\ packet_buffer # << >>
      <4>1. i \in 1 .. l /\ l \in 1 .. l /\ l # 0
        BY <1>1, <2>2
      <4>. QED  BY <4>1 DEF l
    <3>2. b[i] = packet_buffer[i] /\ b[l] = packet_buffer[l] /\ U(b[j]) = n
      BY <1>2, <1>3, <2>2, <3>1
    <3>3. U(b[i]) < n /\ U(b[i]) \in Nat /\ U(b[l]) \in Nat /\ n - U(b[l]) <= Reach
      BY <1>1, <1>3, <1>4, <3>1, <3>2
    <3>4. U(b[l]) - U(b[i]) <= Reach * (l - i)
      <4>1. CASE i = l
        <5>1. Reach * (l - i) = 0
          BY <1>1, <4>1, ConstantTypes DEF Reach
        <5>. QED  BY <3>3, <4>1, <5>1
      <4>2. CASE i # l
        <5>1. i < l
          BY <3>1, <4>2
        <5>. QED  BY <3>1, <3>2, <5>1 DEF Ascending, l
      <4>. QED  BY <4>1, <4>2
    <3>5. /\ Reach * ((l - i) + 1) = Reach * (l - i) + Reach
          /\ Reach * (l - i) \in Nat /\ Reach \in Nat
          /\ j - i = (l - i) + 1
      <4>1. l - i \in Nat /\ Reach \in Nat /\ j - i = (l - i) + 1
        BY <1>1, <2>2, <3>1, ConstantTypes DEF Reach
      <4>. QED  BY <4>1, TimesMonotone
    <3>6. n - U(b[i]) <= Reach * (j - i)
      BY <3>3, <3>4, <3>5
    <3>. QED  BY <3>2, <3>3, <3>6
  <2>. QED  BY <1>1, <2>1, <2>2
<1>7. Behind(received, b, LastAt(n))
  <2>. SUFFICES ASSUME NEW r \in received, r \notin ToSet(b)
                PROVE  /\ U(r) <= U(LastAt(n))
                       /\ \A i \in 1 .. l + 1 : U(r) < U(b[i])
    BY <1>2 DEF Behind
  <2>1. U(r) <= U(last_seqno) /\ \A i \in 1 .. l : U(r) < U(packet_buffer[i])
    BY <1>2 DEF Behind
  <2>2. U(r) <= U(LastAt(n))
    <3>1. U(r) \in Nat /\ U(last_seqno) \in Nat /\ U(LastAt(n)) \in Nat
      BY <1>1, <1>2, ConstantTypes, UnsignedNumber
    <3>. QED  BY <1>5, <2>1, <3>1
  <2>. HIDE DEF l
  <2>3. \A i \in 1 .. l + 1 : U(r) < U(b[i])
    <3>. SUFFICES ASSUME NEW i \in 1 .. l + 1 PROVE U(r) < U(b[i])
      OBVIOUS
    <3>1. CASE i \in 1 .. l
      BY <1>2, <2>1, <3>1
    <3>2. CASE i = l + 1
      BY <1>2, <1>3, <3>2
    <3>. QED  BY <1>1, <3>1, <3>2
  <2>. QED  BY <2>2, <2>3
<1>8. \A s \in ToSet(b) : U(s) <= n
  BY <1>1, <1>2, <1>3
<1>. QED  BY <1>5, <1>6, <1>7, <1>8 DEF b

(* A report is of no number that arrived, and of none that is yet to come  *)
(* after this one.                                                         *)
LEMMA ReportInOrder ==
  ASSUME SQLTypeInv, NEW n \in 0 .. 2 * HalfRange - 1, Len(BufferAt(n)) = BufferSize,
         Narrow(BufferAt(n)), Behind(received, BufferAt(n), LastAt(n)),
         \A s \in ToSet(BufferAt(n)) : U(s) <= n,
         NEW x \in ToSet(LostAt(n))
  PROVE  /\ x \in Int32 /\ x \notin received /\ x # Wrap(n)
         /\ U(x) < n
         /\ \E s \in ToSet(BufferAt(n)) : s < NewLast(n) /\ x < s /\ U(x) < U(s)
         /\ U(LastAt(n)) < U(x) \/ \E r \in ToSet(BufferAt(n)) : U(r) < U(x)
<1>. DEFINE b == BufferAt(n)
            last == LastAt(n)
<1>1. b \in Numbers /\ last \in Int32 /\ Wrap(n) \in ToSet(b)
  BY PacketTypes
<1>2. NewLast(n) \in Int32 /\ LostAt(n) \in Numbers /\ OldestAt(n) \in Numbers
  BY FlushTypes
<1>3. U(last) <= U(NewLast(n))
  BY <1>1, <1>2, LastNumber DEF NewLast
<1>4. x \in Int32
  BY <1>2 DEF ToSet, Numbers
<1>5. x \in ToSet(LostSeqnos(last, OrderedSeqnos(b, NewLast(n))))
  BY DEF LostAt
<1>6. Narrow(b) /\ Behind(received, b, last) /\ \A s \in ToSet(b) : U(s) <= n
  OBVIOUS
<1>. HIDE DEF b, last
<1>7. /\ x \notin ToSet(b)
      /\ \E s \in ToSet(b) : s < NewLast(n) /\ x < s /\ U(x) < U(s)
      /\ U(last) < U(x) \/ \E r \in ToSet(b) : U(r) < U(x)
  BY <1>1, <1>2, <1>3, <1>4, <1>5, <1>6, ReportLies
<1>8. ToSet(b) \subseteq Int32 /\ \A r \in ToSet(b) : \E i \in 1 .. Len(b) : r = b[i]
  BY <1>1 DEF ToSet, Numbers
<1>9. U(x) < n
  <2>1. PICK s \in ToSet(b) : U(x) < U(s)
    BY <1>7
  <2>2. U(s) <= n /\ U(s) \in Nat /\ U(x) \in Nat
    BY <1>4, <1>6, <1>8, ConstantTypes, UnsignedNumber
  <2>. QED  BY <2>1, <2>2
<1>10. x \notin received
  <2>. SUFFICES ASSUME x \in received PROVE FALSE
    OBVIOUS
  <2>1. U(x) <= U(last) /\ \A i \in 1 .. Len(b) : U(x) < U(b[i])
    BY <1>6, <1>7 DEF Behind
  <2>2. U(x) \in Nat /\ U(last) \in Nat /\ \A r \in ToSet(b) : U(r) \in Nat
    BY <1>1, <1>4, <1>8, ConstantTypes, UnsignedNumber
  <2>3. CASE U(last) < U(x)
    BY <2>1, <2>2, <2>3
  <2>4. ASSUME NEW r \in ToSet(b), U(r) < U(x) PROVE FALSE
    BY <1>8, <2>1, <2>2, <2>4
  <2>. QED  BY <1>7, <2>3, <2>4
<1>. QED  BY <1>1, <1>4, <1>7, <1>9, <1>10 DEF b, last

(* A flush leaves the last of the buffer, above the number it stopped at.  *)
LEMMA RestInOrder ==
  ASSUME SQLTypeInv, NEW n \in 0 .. 2 * HalfRange - 1, Flush(n),
         Ascending(BufferAt(n)), Behind(received, BufferAt(n), LastAt(n))
  PROVE  /\ U(LastAt(n)) <= U(last_seqno')
         /\ Ascending(packet_buffer')
         /\ Behind(received \cup {Wrap(n)}, packet_buffer', last_seqno')
         /\ packet_buffer' # << >> => packet_buffer'[Len(packet_buffer')] = Wrap(n)
<1>. DEFINE b == BufferAt(n)
            u == UpdateSize
            rest == BufferSize - UpdateSize
<1>1. /\ u \in Nat /\ u >= 1 /\ u <= BufferSize /\ BufferSize \in Nat
      /\ rest \in Nat /\ BufferSize = u + rest
  BY ConstantTypes
<1>2. /\ last_seqno' = NewLast(n) /\ Len(b) = BufferSize
      /\ packet_buffer' = SubSeq(b, u + 1, BufferSize)
  BY DEF Flush
<1>3. /\ NewLast(n) \in Int32 /\ OldestAt(n) \in Numbers /\ Len(OldestAt(n)) = u
      /\ \A i \in 1 .. u : OldestAt(n)[i] = b[i]
      /\ Len(packet_buffer') = rest /\ packet_buffer' \in Numbers
      /\ \A i \in 1 .. rest : packet_buffer'[i] = b[u + i]
  BY <1>2, FlushTypes
<1>4. /\ b \in Numbers /\ LastAt(n) \in Int32 /\ b[BufferSize] = Wrap(n)
      /\ ToSet(b) = ToSet(packet_buffer) \cup {Wrap(n)}
  <2>1. /\ b \in Numbers /\ LastAt(n) \in Int32 /\ b[Len(packet_buffer) + 1] = Wrap(n)
        /\ Len(b) = Len(packet_buffer) + 1
        /\ ToSet(b) = ToSet(packet_buffer) \cup {Wrap(n)}
    BY PacketTypes
  <2>. QED  BY <1>2, <2>1
<1>5. /\ U(LastAt(n)) <= U(NewLast(n))
      /\ \A i \in 1 .. u : U(b[i]) <= U(NewLast(n))
  BY <1>3, <1>4, LastNumber DEF NewLast
<1>6. Ascending(b) /\ Behind(received, b, LastAt(n))
  OBVIOUS
<1>7. /\ \A i \in 1 .. BufferSize : b[i] \in Int32 /\ U(b[i]) \in Nat
      /\ U(NewLast(n)) \in Nat /\ U(LastAt(n)) \in Nat
      /\ ToSet(b) = {b[i] : i \in 1 .. BufferSize}
  <2>1. \A i \in 1 .. BufferSize : b[i] \in Int32
    BY <1>2, <1>4 DEF Numbers
  <2>2. ToSet(b) = {b[i] : i \in 1 .. BufferSize}
    BY <1>2, <1>4 DEF Numbers, ToSet
  <2>. QED  BY <1>3, <1>4, <2>1, <2>2, ConstantTypes, UnsignedNumber
<1>. HIDE DEF b, u, rest
<1>8. Ascending(packet_buffer')
  <2>. SUFFICES ASSUME NEW i \in 1 .. rest, NEW j \in 1 .. rest, i < j
                PROVE  /\ U(packet_buffer'[i]) < U(packet_buffer'[j])
                       /\ U(packet_buffer'[j]) - U(packet_buffer'[i]) <= Reach * (j - i)
    BY <1>3 DEF Ascending
  <2>1. /\ u + i \in 1 .. Len(b) /\ u + j \in 1 .. Len(b) /\ u + i < u + j
        /\ (u + j) - (u + i) = j - i
    BY <1>1, <1>2
  <2>2. /\ U(b[u + i]) < U(b[u + j])
        /\ U(b[u + j]) - U(b[u + i]) <= Reach * ((u + j) - (u + i))
    BY <1>6, <2>1 DEF Ascending
  <2>. QED  BY <1>3, <2>1, <2>2
<1>9. Behind(received \cup {Wrap(n)}, packet_buffer', last_seqno')
  <2>. SUFFICES ASSUME NEW r \in received \cup {Wrap(n)}, r \notin ToSet(packet_buffer')
                PROVE  /\ U(r) <= U(NewLast(n))
                       /\ \A i \in 1 .. rest : U(r) < U(packet_buffer'[i])
    BY <1>2, <1>3 DEF Behind
  <2>1. ToSet(packet_buffer') = {packet_buffer'[i] : i \in 1 .. rest}
    <3>1. DOMAIN packet_buffer' = 1 .. rest
      BY <1>3 DEF Numbers
    <3>. QED  BY <3>1 DEF ToSet
  <2>2. CASE r \in ToSet(b)
    <3>1. PICK i \in 1 .. BufferSize : r = b[i]
      BY <1>7, <2>2
    <3>2. i <= u
      <4>. SUFFICES ASSUME i > u PROVE FALSE
        BY <1>1
      <4>1. i - u \in 1 .. rest /\ u + (i - u) = i
        BY <1>1
      <4>2. packet_buffer'[i - u] = b[u + (i - u)]
        BY <1>3, <4>1
      <4>3. packet_buffer'[i - u] = r
        BY <3>1, <4>1, <4>2
      <4>. QED  BY <2>1, <4>1, <4>3
    <3>3. \A j \in 1 .. rest : U(r) < U(packet_buffer'[j])
      <4>. SUFFICES ASSUME NEW j \in 1 .. rest PROVE U(r) < U(packet_buffer'[j])
        OBVIOUS
      <4>1. i \in 1 .. Len(b) /\ u + j \in 1 .. Len(b) /\ i < u + j
        BY <1>1, <1>2, <3>2
      <4>. QED  BY <1>3, <1>6, <3>1, <4>1 DEF Ascending
    <3>4. U(r) <= U(NewLast(n))
      <4>1. i \in 1 .. u
        BY <1>1, <3>2
      <4>. QED  BY <1>5, <3>1, <4>1
    <3>. QED  BY <3>3, <3>4
  <2>3. CASE r \notin ToSet(b)
    <3>1. r \in received
      BY <1>4, <2>3
    <3>2. U(r) <= U(LastAt(n)) /\ \A i \in 1 .. Len(b) : U(r) < U(b[i])
      BY <1>6, <2>3, <3>1 DEF Behind
    <3>3. U(r) \in Nat
      <4>1. r \in Int32
        BY <3>1 DEF SQLTypeInv, DispatcherTyped
      <4>. QED  BY <4>1, ConstantTypes, UnsignedNumber
    <3>4. U(r) <= U(NewLast(n))
      BY <1>5, <1>7, <3>2, <3>3
    <3>5. \A j \in 1 .. rest : U(r) < U(packet_buffer'[j])
      <4>. SUFFICES ASSUME NEW j \in 1 .. rest PROVE U(r) < U(packet_buffer'[j])
        OBVIOUS
      <4>1. u + j \in 1 .. Len(b)
        BY <1>1, <1>2
      <4>. QED  BY <1>3, <3>2, <4>1
    <3>. QED  BY <3>4, <3>5
  <2>. QED  BY <2>2, <2>3
<1>10. packet_buffer' # << >> => packet_buffer'[Len(packet_buffer')] = Wrap(n)
  <2>. SUFFICES ASSUME packet_buffer' # << >> PROVE packet_buffer'[rest] = Wrap(n)
    BY <1>3
  <2>1. rest # 0
    BY <1>3 DEF Numbers
  <2>2. rest \in 1 .. rest
    BY <1>1, <2>1
  <2>3. packet_buffer'[rest] = b[u + rest]
    BY <1>3, <2>2
  <2>. QED  BY <1>1, <1>4, <2>3
<1>. QED  BY <1>2, <1>5, <1>8, <1>9, <1>10

(* A packet that comes in order keeps what the order is about.             *)
LEMMA OrderedPacket ==
  ASSUME SQLTypeInv, NEW n \in 0 .. 2 * HalfRange - 1, InOrderAt(n),
         HistoryInv, OrderedInv, late = {}, IsNarrow'
  PROVE  OrderedInv'
<1>1. /\ next \in Nat /\ next - 1 <= n /\ next' = n + 1 /\ FirstSeqno <= n
      /\ started' = started /\ n \in Nat /\ n <= 2 * HalfRange - 1 /\ HalfRange \in Nat
      /\ DispatchPacket(n) /\ FirstSeqno \in Nat /\ received \subseteq Int32
      /\ reported \in Numbers /\ last_seqno \in Int32
  BY ConstantTypes DEF InOrderAt, SQLTypeInv, StreamInv, DispatcherTyped
<1>2. received' = received \cup {Wrap(n)} /\ (Held(n) \/ Flush(n))
  BY <1>1, Dispatched
<1>3. U(Wrap(n)) = n /\ Wrap(n) \in Int32
  BY WrappedNumber
<1>4. /\ Ascending(packet_buffer) /\ Behind(received, packet_buffer, last_seqno)
      /\ \A x \in ToSet(reported) : U(x) < next - 1 /\ x \notin received
      /\ FromStart /\ started \in Int32
  <2>1. IsNarrow
    BY <1>1 DEF IsNarrow
  <2>. QED  BY <2>1 DEF OrderedInv, FromStart
<1>5. /\ U(last_seqno) <= U(LastAt(n)) /\ Ascending(BufferAt(n))
      /\ Behind(received, BufferAt(n), LastAt(n))
      /\ \A s \in ToSet(BufferAt(n)) : U(s) <= n
  BY <1>4, BufferInOrder
<1>6. /\ LastAt(n) \in Int32 /\ BufferAt(n) \in Numbers
      /\ Len(BufferAt(n)) = Len(packet_buffer) + 1
      /\ BufferAt(n)[Len(packet_buffer) + 1] = Wrap(n)
      /\ ToSet(BufferAt(n)) = ToSet(packet_buffer) \cup {Wrap(n)}
      /\ ToSet(packet_buffer) \subseteq received
  <2>1. ToSet(packet_buffer) \subseteq received
    BY DEF SQLTypeInv, DispatcherTyped
  <2>. QED  BY <2>1, PacketTypes
<1>7. ASSUME started = 0 PROVE U(LastAt(n)) >= FirstSeqno - 1
  <2>1. U(last_seqno) \in Nat /\ U(LastAt(n)) \in Nat
    BY <1>1, <1>6, UnsignedNumber
  <2>2. CASE received # {}
    BY <1>1, <1>4, <1>5, <1>7, <2>1, <2>2 DEF FromStart
  <2>3. CASE received = {}
    <3>1. LastAt(n) = Wrap(n - 1)
      BY <1>7, <2>3 DEF HistoryInv, LastAt
    <3>2. CASE n = 0
      BY <1>1, <2>1, <3>2
    <3>3. CASE n # 0
      <4>1. n - 1 \in 0 .. 2 * HalfRange - 1
        BY <1>1, <3>3
      <4>2. U(LastAt(n)) = n - 1
        BY <3>1, <4>1, WrappedNumber
      <4>. QED  BY <1>1, <4>2
    <3>. QED  BY <3>2, <3>3
  <2>. QED  BY <2>2, <2>3
<1>7a. U(LastAt(n)) >= U(started)
  <2>1. U(last_seqno) \in Nat /\ U(LastAt(n)) \in Nat /\ U(started) \in Nat
    BY <1>1, <1>4, <1>6, UnsignedNumber
  <2>. QED  BY <1>4, <1>5, <2>1 DEF FromStart
<1>8. \A x \in ToSet(reported) : U(x) < next' - 1 /\ x \notin received'
  <2>. SUFFICES ASSUME NEW x \in ToSet(reported)
                PROVE  U(x) < next' - 1 /\ x \notin received'
    OBVIOUS
  <2>1. x \in Int32 /\ U(x) < next - 1 /\ x \notin received
    BY <1>1, <1>4 DEF ToSet, Numbers
  <2>2. U(x) \in Nat
    BY <1>1, <2>1, UnsignedNumber
  <2>3. U(x) < n
    BY <1>1, <2>1, <2>2
  <2>4. x # Wrap(n)
    BY <1>3, <2>2, <2>3
  <2>. QED  BY <1>1, <1>2, <2>1, <2>3, <2>4
<1>9. ASSUME packet_buffer' # << >> => packet_buffer'[Len(packet_buffer')] = Wrap(n)
      PROVE  LastArrived'
  <2>1. (n + 1) .. (next' - 1) = {}
    BY <1>1
  <2>. QED  BY <1>3, <1>9, <2>1 DEF LastArrived
<1>10. CASE Held(n)
  <2>1. /\ packet_buffer' = BufferAt(n) /\ last_seqno' = LastAt(n)
        /\ reported' = reported
    BY <1>10 DEF Held
  <2>2. packet_buffer'[Len(packet_buffer')] = Wrap(n)
    BY <1>6, <2>1
  <2>3. Behind(received', packet_buffer', last_seqno')
    <3>1. Wrap(n) \in ToSet(BufferAt(n))
      BY <1>6
    <3>. QED  BY <1>2, <1>5, <2>1, <3>1 DEF Behind
  <2>4. Ascending(packet_buffer')
    BY <1>5, <2>1
  <2>5. \A x \in ToSet(reported') : U(x) < next' - 1 /\ x \notin received'
    BY <1>8, <2>1
  <2>6. FromStart'
    BY <1>1, <1>4, <1>7, <1>7a, <2>1 DEF FromStart, U
  <2>. QED  BY <1>9, <2>2, <2>3, <2>4, <2>5, <2>6 DEF OrderedInv
<1>11. CASE Flush(n)
  <2>1. /\ Len(BufferAt(n)) = BufferSize /\ reported' = reported \o LostAt(n)
    BY <1>11 DEF Flush
  <2>2. /\ U(LastAt(n)) <= U(last_seqno')
        /\ Ascending(packet_buffer')
        /\ Behind(received', packet_buffer', last_seqno')
        /\ packet_buffer' # << >> => packet_buffer'[Len(packet_buffer')] = Wrap(n)
    BY <1>2, <1>5, <1>11, RestInOrder
  <2>3. LostAt(n) \in Numbers /\ NewLast(n) \in Int32
    BY <2>1, FlushTypes
  <2>4. ToSet(reported') = ToSet(reported) \cup ToSet(LostAt(n))
    BY <1>1, <2>1, <2>3, TwoParts
  <2>5. Narrow(BufferAt(n))
    <3>1. CASE BufferIsNarrow
      <4>1. Len(BufferAt(n)) <= BufferSize
        BY <2>1, ConstantTypes
      <4>. QED  BY <1>5, <1>6, <3>1, <4>1, AscendingNarrow
    <3>2. CASE next' <= HalfRange
      <4>1. \A i \in 1 .. Len(BufferAt(n)) : /\ BufferAt(n)[i] \in ToSet(BufferAt(n))
                                             /\ BufferAt(n)[i] \in Int32
        BY <1>6 DEF ToSet, Numbers
      <4>2. \A i \in 1 .. Len(BufferAt(n)) :
              U(BufferAt(n)[i]) \in Nat /\ U(BufferAt(n)[i]) < HalfRange
        BY <1>1, <1>5, <3>2, <4>1, UnsignedNumber
      <4>. QED  BY <1>1, <4>2 DEF Narrow
    <3>. QED  BY <3>1, <3>2 DEF IsNarrow
  <2>6. ASSUME NEW x \in ToSet(LostAt(n))
        PROVE  /\ x \in Int32 /\ x \notin received' /\ U(x) < n
               /\ U(LastAt(n)) < U(x) \/ \E r \in ToSet(BufferAt(n)) : U(r) < U(x)
    BY <1>2, <1>5, <2>1, <2>5, <2>6, ReportInOrder
  <2>7. \A x \in ToSet(reported') : U(x) < next' - 1 /\ x \notin received'
    <3>1. next' - 1 = n
      BY <1>1
    <3>. QED  BY <1>8, <2>4, <2>6, <3>1
  <2>8. ASSUME NEW x \in ToSet(LostAt(n))
        PROVE  U(x) >= FirstSeqno \/ (started # 0 /\ U(x) > U(started))
    <3>1. /\ x \in Int32 /\ U(x) \in Nat /\ U(LastAt(n)) \in Nat
          /\ U(started) \in Nat
      BY <1>1, <1>4, <1>6, <2>6, <2>8, UnsignedNumber
    <3>2. CASE U(LastAt(n)) < U(x)
      BY <1>1, <1>7, <1>7a, <2>8, <3>1, <3>2
    <3>3. ASSUME NEW r \in ToSet(BufferAt(n)), U(r) < U(x) PROVE U(x) >= FirstSeqno
      <4>1. U(r) \in Nat /\ U(r) >= FirstSeqno
        <5>1. CASE r = Wrap(n)
          BY <1>1, <1>3, <5>1
        <5>2. CASE r \in received
          BY <1>1, <5>2 DEF HistoryInv
        <5>. QED  BY <1>6, <3>3, <5>1, <5>2
      <4>. QED  BY <1>1, <3>1, <3>3, <4>1
    <3>. QED  BY <2>6, <2>8, <3>2, <3>3
  <2>9. FromStart'
    <3>1. last_seqno' \in Int32
      BY <1>11, <2>3 DEF Flush
    <3>2. /\ U(last_seqno') \in Nat /\ U(LastAt(n)) \in Nat
          /\ U(started) \in Nat
      BY <1>1, <1>4, <1>6, <3>1, UnsignedNumber
    <3>3. /\ U(last_seqno') >= U(started)
          /\ started = 0 => U(last_seqno') >= FirstSeqno - 1
      BY <1>1, <1>7, <1>7a, <2>2, <3>2
    <3>4. \A x \in ToSet(reported') :
            U(x) >= FirstSeqno \/ (started # 0 /\ U(x) > U(started))
      BY <1>4, <2>4, <2>8 DEF FromStart
    <3>. QED  BY <1>1, <1>4, <3>3, <3>4 DEF FromStart, U
  <2>. QED  BY <1>9, <2>2, <2>7, <2>9 DEF OrderedInv
<1>. QED  BY <1>2, <1>10, <1>11

OrderedSQLInv == SQLInv /\ HistoryInv /\ OrderedInv

LEMMA OrderedInit == Init => OrderedSQLInv
<1>. SUFFICES ASSUME Init PROVE HistoryInv /\ OrderedInv
  BY SQLInit DEF OrderedSQLInv
<1>1. FirstSeqno .. next - 1 = {}
  BY ConstantTypes DEF Init
<1>2. Len(<< >>) = 0 /\ ToSet(<< >>) = {}
  BY DEF ToSet
<1>3. HistoryInv
  BY <1>1 DEF Init, HistoryInv
<1>4. OrderedInv
  <2>1. U(last_seqno) \in Nat /\ last_seqno = started /\ started \in Int32
    BY ConstantTypes, UnsignedNumber, SQLAssumption DEF Init
  <2>. QED  BY <1>2, <2>1 DEF Init, OrderedInv, FromStart, Ascending, Behind, LastArrived
<1>. QED  BY <1>3, <1>4

LEMMA NarrowBefore ==
  ASSUME SQLTypeInv, Next
  PROVE  /\ next \in Nat /\ next' \in Nat /\ next <= next' /\ started' = started
         /\ late' = {} => late = {}
         /\ IsNarrow' => IsNarrow
<1>1. next \in Nat /\ HalfRange \in Nat /\ MaxSkip \in Nat
  BY ConstantTypes DEF SQLTypeInv, StreamInv
<1>2. /\ next' \in Nat /\ next <= next' /\ started' = started
      /\ late' = {} => late = {}
  BY <1>1 DEF Next, Deliver, Delay, DeliverDelayed
<1>. QED  BY <1>1, <1>2 DEF IsNarrow

LEMMA OrderedStep ==
  ASSUME OrderedSQLInv, [Next]_vars
  PROVE  OrderedSQLInv'
<1>1. SQLTypeInv /\ HistoryInv /\ OrderedInv
  BY DEF OrderedSQLInv, SQLInv
<1>2. SQLInv' /\ HistoryInv'
  BY <1>1, SQLStep, HistoryStep DEF OrderedSQLInv
<1>3. OrderedInv'
  <2>1. CASE UNCHANGED vars
    BY <1>1, <2>1 DEF vars, OrderedInv, FromStart, U, LastArrived, IsNarrow
  <2>2. CASE Next
    <3>. SUFFICES ASSUME late' = {}, IsNarrow' PROVE OrderedInv'
      BY DEF OrderedInv
    <3>0. late = {} /\ IsNarrow
      BY <1>1, <2>2, NarrowBefore
    <3>1. LastArrived
      BY <1>1, <3>0 DEF OrderedInv
    <3>2. Delay \/ \E n \in 0 .. 2 * HalfRange - 1 : InOrderAt(n)
      BY <1>1, <2>2, <3>1, InOrderPacket
    <3>3. CASE Delay
      <4>1. /\ delayed' = delayed \cup {next} /\ next' = next + 1
            /\ UNCHANGED <<received, last_seqno, started, packet_buffer, reported>>
        BY <3>3 DEF Delay
      <4>2. next \in Nat /\ reported \in Numbers
        BY <1>1 DEF SQLTypeInv, StreamInv, DispatcherTyped
      <4>3. LastArrived'
        <5>. DEFINE l == U(packet_buffer[Len(packet_buffer)])
        <5>1. ASSUME packet_buffer # << >> PROVE l + 1 .. next' - 1 \subseteq delayed'
          <6>1. l + 1 .. next - 1 \subseteq delayed
            BY <3>1, <5>1 DEF LastArrived
          <6>. HIDE DEF l
          <6>. QED  BY <4>1, <4>2, <6>1
        <5>. QED  BY <4>1, <5>1 DEF LastArrived
      <4>4. \A x \in ToSet(reported) : U(x) < next' - 1 /\ x \notin received
        <5>. SUFFICES ASSUME NEW x \in ToSet(reported)
                      PROVE  U(x) < next' - 1 /\ x \notin received
          OBVIOUS
        <5>1. x \in Int32 /\ U(x) < next - 1 /\ x \notin received
          BY <1>1, <3>0, <4>2 DEF OrderedInv, ToSet, Numbers
        <5>2. U(x) \in Nat
          BY <5>1, ConstantTypes, UnsignedNumber
        <5>. QED  BY <4>1, <4>2, <5>1, <5>2
      <4>5. FromStart'
        BY <1>1, <3>0, <4>1 DEF OrderedInv, FromStart, U
      <4>. QED  BY <1>1, <3>0, <4>1, <4>3, <4>4, <4>5 DEF OrderedInv
    <3>4. CASE \E n \in 0 .. 2 * HalfRange - 1 : InOrderAt(n)
      BY <1>1, <3>0, <3>4, OrderedPacket
    <3>. QED  BY <3>2, <3>3, <3>4
  <2>. QED  BY <2>1, <2>2
<1>. QED  BY <1>2, <1>3 DEF OrderedSQLInv

(* While the network keeps the order no request that arrived is reported   *)
(* lost, across the wrap of the numbers and whatever the dispatcher's      *)
(* uninitialised _last_seqno was; every report is of a request the network *)
(* dropped, or of a number between that start and the sender's first       *)
(* (MEPSQL_Dispatcher.cpp:113-166).  All it takes is that the numbers in   *)
(* the buffer are less than 2^31 apart.                                    *)
THEOREM ReportsAreReal ==
  ASSUME BufferIsNarrow
  PROVE  Spec => []ReportIsReal
<1>1. OrderedSQLInv => ReportIsReal
  <2>. SUFFICES ASSUME OrderedSQLInv, late = {}
                PROVE  /\ received \cap ToSet(reported) = {}
                       /\ ToSet(reported) \subseteq
                            dropped \cup {Wrap(n) : n \in delayed} \cup Phantoms
    BY DEF ReportIsReal, InOrder
  <2>1. \A x \in ToSet(reported) :
          /\ x \notin received /\ U(x) < next - 1
          /\ U(x) >= FirstSeqno \/ (started # 0 /\ U(x) > U(started))
    BY DEF OrderedSQLInv, OrderedInv, FromStart, IsNarrow
  <2>2. /\ next \in Nat /\ FirstSeqno \in Nat /\ HalfRange \in Nat
        /\ ToSet(reported) \subseteq Int32
        /\ started \in Int32
    BY ConstantTypes
    DEF OrderedSQLInv, OrderedInv, FromStart, IsNarrow, SQLInv, SQLTypeInv,
        StreamInv, DispatcherTyped, ToSet, Numbers
  <2>3. ASSUME NEW x \in ToSet(reported)
        PROVE  x \in dropped \cup {Wrap(n) : n \in delayed} \cup Phantoms
    <3>1. U(x) \in Nat /\ Wrap(U(x)) = x /\ U(started) \in Nat
      BY <2>2, UnsignedNumber
    <3>2. CASE U(x) >= FirstSeqno
      <4>1. U(x) \in FirstSeqno .. next - 1
        BY <2>1, <2>2, <2>3, <3>1, <3>2
      <4>2. Wrap(U(x)) \in received \/ Wrap(U(x)) \in dropped \/ U(x) \in delayed
        BY <4>1 DEF OrderedSQLInv, HistoryInv
      <4>. QED  BY <2>1, <3>1, <4>2
    <3>3. CASE ~ (U(x) >= FirstSeqno)
      <4>1. started # 0 /\ U(x) \in U(started) + 1 .. FirstSeqno - 1
        BY <2>1, <2>2, <3>1, <3>3
      <4>. QED  BY <3>1, <4>1 DEF Phantoms, U
    <3>. QED  BY <3>2, <3>3
  <2>. QED  BY <2>1, <2>3
<1>2. OrderedSQLInv /\ [Next]_vars => OrderedSQLInv'
  BY OrderedStep
<1>. QED  BY <1>1, <1>2, OrderedInit, PTL DEF Spec
-----------------------------------------------------------------------------
(* Before the numbers come to half the range and from a dispatcher that    *)
(* takes its first number from the first packet.                           *)
Early == late = {} /\ started = 0 /\ next <= HalfRange

(* The flush starts above what the last one stopped at, and all it keeps   *)
(* but the first is above it.  (After a number 0 the dispatcher stands at  *)
(* -1, the greatest of all, and reports nothing any more.)                 *)
Stands(b, last) ==
  /\ last >= 0 \/ (last = -1 /\ reported = << >>)
  /\ last = 0 => Len(b) <= 1 /\ reported = << >>
  /\ last >= 0 => /\ \A j \in 2 .. Len(b) : b[j] > last
                  /\ \A j \in 1 .. Len(b) : b[j] > 0
  /\ \A x \in ToSet(reported) :
       0 <= x /\ x < last /\ \A j \in 1 .. Len(b) : x < b[j]

OnceInv ==
  Early =>
    /\ Stands(packet_buffer, last_seqno)
    /\ received # {} => \E r \in received : last_seqno <= r
    /\ IsInjective(reported)

LEMMA UnsignedEarly ==
  ASSUME NEW x \in Int32, U(x) < HalfRange
  PROVE  U(x) = x /\ x >= 0
BY ConstantTypes DEF U, AsUnsigned, Int32

LEMMA OnceBuffer ==
  ASSUME SQLTypeInv, HistoryInv, OnceInv, Early,
         NEW n \in 0 .. 2 * HalfRange - 1, InOrderAt(n), n < HalfRange
  PROVE  /\ \A s \in ToSet(BufferAt(n)) : s \in 0 .. n /\ U(s) = s
         /\ Wrap(n) = n
         /\ LastAt(n) <= n /\ LastAt(n) \in Int32
         /\ Stands(BufferAt(n), LastAt(n))
<1>. DEFINE l == Len(packet_buffer)
            b == BufferAt(n)
            last == LastAt(n)
<1>1. /\ last \in Int32 /\ Len(b) = l + 1
      /\ \A i \in 1 .. l : b[i] = packet_buffer[i]
      /\ b[l + 1] = Wrap(n)
      /\ ToSet(b) = ToSet(packet_buffer) \cup {Wrap(n)}
  BY PacketTypes
<1>2. /\ packet_buffer \in Numbers /\ l \in Nat /\ HalfRange \in Nat /\ n \in Nat
      /\ ToSet(packet_buffer) \subseteq received /\ received \subseteq Int32
      /\ reported \in Numbers /\ last_seqno \in Int32
      /\ \A i \in 1 .. l : packet_buffer[i] \in received
  <2>1. /\ packet_buffer \in Numbers /\ HalfRange \in Nat /\ reported \in Numbers
        /\ ToSet(packet_buffer) \subseteq received /\ received \subseteq Int32
        /\ last_seqno \in Int32
    BY ConstantTypes DEF SQLTypeInv, DispatcherTyped
  <2>2. l \in Nat /\ DOMAIN packet_buffer = 1 .. l
    BY <2>1 DEF Numbers
  <2>3. \A i \in 1 .. l : packet_buffer[i] \in ToSet(packet_buffer)
    BY <2>2 DEF ToSet
  <2>. QED  BY <2>1, <2>2, <2>3
<1>3. Wrap(n) = n /\ n \in Int32
  BY <1>2, WrappedNumber, UnsignedEarly
<1>4. \A r \in received : r \in 0 .. n - 1 /\ U(r) = r /\ r < n /\ r \in Nat
  <2>. SUFFICES ASSUME NEW r \in received
                PROVE  r \in 0 .. n - 1 /\ U(r) = r /\ r < n /\ r \in Nat
    OBVIOUS
  <2>1. r \in Int32 /\ U(r) < n /\ U(r) \in Nat
    BY <1>2, UnsignedNumber DEF InOrderAt
  <2>2. U(r) = r /\ r >= 0
    BY <1>2, <2>1, UnsignedEarly
  <2>. QED  BY <1>2, <2>1, <2>2
<1>5. \A s \in ToSet(b) : s \in 0 .. n /\ U(s) = s
  <2>1. U(n) = n
    BY <1>2, <1>3 DEF U, AsUnsigned
  <2>. SUFFICES ASSUME NEW s \in ToSet(b) PROVE s \in 0 .. n /\ U(s) = s
    OBVIOUS
  <2>2. s \in received \/ s = n
    BY <1>1, <1>2, <1>3
  <2>. QED  BY <1>2, <1>4, <2>1, <2>2
<1>6. /\ Stands(packet_buffer, last_seqno)
      /\ received # {} => \E r \in received : last_seqno <= r
  BY DEF OnceInv
<1>7. last_seqno = 0 => last = n - 1
  BY <1>2 DEF LastAt, Wrap
<1>8. last_seqno # 0 => last = last_seqno
  BY DEF LastAt
<1>. HIDE DEF b, last
<1>9. CASE received = {}
  <2>1. l = 0 /\ reported = << >> /\ last_seqno = 0
    BY <1>9 DEF HistoryInv, Early
  <2>2. last = n - 1 /\ Len(b) = 1 /\ b[1] = n /\ ToSet(reported) = {}
    BY <1>1, <1>3, <1>7, <2>1 DEF ToSet
  <2>. HIDE DEF l
  <2>. QED  BY <1>1, <1>2, <1>3, <1>5, <2>1, <2>2 DEF Stands, b, last
<1>10. CASE received # {}
  <2>1. last_seqno < n /\ n > 0
    <3>1. PICK r \in received : last_seqno <= r
      BY <1>6, <1>10
    <3>. QED  BY <1>2, <1>4, <3>1 DEF Int32
  <2>2. b[l + 1] = n
    BY <1>1, <1>3
  <2>3. \A i \in 1 .. l + 1 : i = l + 1 \/ (i \in 1 .. l /\ b[i] = packet_buffer[i])
    <3>. HIDE DEF l
    <3>. QED  BY <1>1, <1>2
  <2>4. \A i \in 1 .. l : packet_buffer[i] \in Nat /\ packet_buffer[i] < n
    BY <1>2, <1>4
  <2>5. CASE last_seqno < 0
    <3>1. last = -1 /\ reported = << >> /\ ToSet(reported) = {}
      BY <1>2, <1>6, <1>8, <2>5 DEF Stands, ToSet, Int32
    <3>. QED  BY <1>1, <1>2, <1>3, <1>5, <3>1 DEF Stands, b, last
  <2>6. CASE last_seqno = 0
    <3>1. last = n - 1 /\ reported = << >> /\ ToSet(reported) = {} /\ l <= 1
      BY <1>6, <1>7, <2>6 DEF Stands, ToSet
    <3>2. \A i \in 1 .. l : packet_buffer[i] > 0
      BY <1>6, <2>6 DEF Stands
    <3>. HIDE DEF l
    <3>3. \A j \in 1 .. l + 1 : b[j] > 0
      BY <2>1, <2>2, <2>3, <2>4, <3>2
    <3>4. \A j \in 2 .. l + 1 : b[j] > last
      BY <1>2, <2>2, <3>1
    <3>5. last = 0 => l = 0
      <4>. SUFFICES ASSUME last = 0, l = 1 PROVE FALSE
        BY <1>2, <3>1
      <4>1. packet_buffer[1] > 0 /\ packet_buffer[1] \in Nat /\ packet_buffer[1] < n
        BY <2>4, <3>2
      <4>. QED  BY <1>2, <3>1, <4>1
    <3>6. last >= 0 /\ last <= n
      BY <1>2, <2>1, <3>1
    <3>7. Stands(b, last)
      BY <1>1, <1>2, <3>1, <3>3, <3>4, <3>5, <3>6 DEF Stands
    <3>. QED  BY <1>1, <1>3, <1>5, <3>6, <3>7 DEF b, last
  <2>7. CASE last_seqno > 0
    <3>1. last = last_seqno
      BY <1>8, <2>7
    <3>2. /\ \A j \in 2 .. l : packet_buffer[j] > last
          /\ \A j \in 1 .. l : packet_buffer[j] > 0
          /\ \A x \in ToSet(reported) :
               0 <= x /\ x < last /\ \A j \in 1 .. l : x < packet_buffer[j]
      BY <1>6, <2>7, <3>1 DEF Stands
    <3>. HIDE DEF l
    <3>3. \A j \in 1 .. l + 1 : b[j] > 0
      BY <2>1, <2>2, <2>3, <2>4, <3>2
    <3>4. \A j \in 2 .. l + 1 : b[j] > last
      <4>. SUFFICES ASSUME NEW j \in 2 .. l + 1 PROVE b[j] > last
        OBVIOUS
      <4>1. CASE j = l + 1
        BY <2>1, <2>2, <3>1, <4>1
      <4>2. CASE j # l + 1
        <5>1. j \in 2 .. l /\ j \in 1 .. l
          BY <1>2, <4>2
        <5>. QED  BY <1>1, <3>2, <5>1
      <4>. QED  BY <4>1, <4>2
    <3>5. ASSUME NEW x \in ToSet(reported)
          PROVE  0 <= x /\ x < last /\ \A j \in 1 .. l + 1 : x < b[j]
      <4>1. 0 <= x /\ x < last /\ \A j \in 1 .. l : x < packet_buffer[j]
        BY <3>2
      <4>2. x \in Int
        BY <1>2 DEF ToSet, Numbers, Int32
      <4>3. x < n
        BY <1>1, <1>2, <2>1, <3>1, <4>1, <4>2 DEF Int32
      <4>. QED  BY <2>2, <2>3, <4>1, <4>3
    <3>6. last > 0 /\ last <= n
      BY <1>2, <2>1, <2>7, <3>1 DEF Int32
    <3>7. Stands(b, last)
      <4>1. last # 0 /\ last >= 0
        BY <1>1, <3>6 DEF Int32
      <4>. QED  BY <1>1, <3>3, <3>4, <3>5, <4>1 DEF Stands
    <3>. QED  BY <1>1, <1>3, <1>5, <3>6, <3>7 DEF b, last
  <2>. QED  BY <1>2, <2>5, <2>6, <2>7 DEF Int32
<1>. QED  BY <1>9, <1>10

LEMMA OnceFlush ==
  ASSUME SQLTypeInv, NEW n \in 0 .. 2 * HalfRange - 1, Flush(n), n < HalfRange,
         Ascending(BufferAt(n)), Behind(received, BufferAt(n), LastAt(n)),
         \A s \in ToSet(BufferAt(n)) : s \in 0 .. n /\ U(s) = s,
         Stands(BufferAt(n), LastAt(n)), IsInjective(reported)
  PROVE  /\ Stands(packet_buffer, last_seqno)'
         /\ IsInjective(reported')
         /\ last_seqno' = LastAt(n) \/ last_seqno' \in ToSet(BufferAt(n))
<1>. DEFINE b == BufferAt(n)
            last == LastAt(n)
            lost == LostAt(n)
            u == UpdateSize
            rest == BufferSize - UpdateSize
<1>1. /\ u \in Nat /\ u >= 1 /\ BufferSize \in Nat /\ rest \in Nat
      /\ BufferSize = u + rest /\ HalfRange \in Nat /\ n \in Nat
  BY ConstantTypes
<1>2. /\ last_seqno' = NewLast(n) /\ Len(b) = BufferSize
      /\ reported' = reported \o lost
  BY DEF Flush
<1>3. /\ NewLast(n) \in Int32 /\ OldestAt(n) \in Numbers /\ Len(OldestAt(n)) = u
      /\ \A i \in 1 .. u : OldestAt(n)[i] = b[i]
      /\ lost \in Numbers
  BY <1>2, FlushTypes
<1>3a. /\ Len(packet_buffer') = rest
       /\ \A i \in 1 .. rest : packet_buffer'[i] = b[u + i]
  BY <1>2, FlushTypes DEF Flush
<1>4. /\ b \in Numbers /\ last \in Int32 /\ reported \in Numbers
      /\ ToSet(b) = {b[i] : i \in 1 .. BufferSize}
  <2>1. b \in Numbers /\ last \in Int32
    BY PacketTypes
  <2>2. ToSet(b) = {b[i] : i \in 1 .. BufferSize}
    BY <1>2, <2>1 DEF Numbers, ToSet
  <2>. QED  BY <2>1, <2>2 DEF SQLTypeInv, DispatcherTyped
<1>5. /\ U(last) <= U(NewLast(n))
      /\ \A i \in 1 .. u : U(b[i]) <= U(NewLast(n))
      /\ NewLast(n) = last \/ \E i \in 1 .. u : NewLast(n) = b[i]
  <2>1. /\ U(last) <= U(NewLast(n))
        /\ \A k \in 1 .. Len(OldestAt(n)) : U(OldestAt(n)[k]) <= U(NewLast(n))
        /\ \/ NewLast(n) = last
           \/ \E k \in 1 .. Len(OldestAt(n)) : NewLast(n) = OldestAt(n)[k]
    <3>1. OldestAt(n) \in Numbers /\ last \in Int32
      BY <1>3, <1>4
    <3>. QED  BY <3>1, LastNumber DEF NewLast
  <2>. HIDE DEF b, last, u
  <2>. QED  BY <1>3, <2>1
<1>6. \A i \in 1 .. BufferSize : /\ b[i] \in ToSet(b) /\ b[i] \in 0 .. n
                                 /\ b[i] \in Nat /\ U(b[i]) = b[i]
  BY <1>1, <1>4
<1>7. Ascending(b) /\ Stands(b, last)
  OBVIOUS
<1>8. \A i, j \in 1 .. BufferSize : i < j => b[i] < b[j]
  BY <1>2, <1>6, <1>7 DEF Ascending
<1>9. Narrow(b)
  BY <1>1, <1>2, <1>6 DEF Narrow
<1>10. ASSUME NEW x \in ToSet(lost)
       PROVE  /\ x \in Nat /\ U(x) = x
              /\ \E s \in ToSet(b) : s < NewLast(n) /\ x < s
              /\ U(last) < U(x) \/ \E r \in ToSet(b) : U(r) < U(x)
  <2>1. \A s \in ToSet(b) : U(s) <= n
    BY <1>1
  <2>2. /\ x \in Int32 /\ U(x) < n
        /\ \E s \in ToSet(b) : s < NewLast(n) /\ x < s /\ U(x) < U(s)
        /\ U(last) < U(x) \/ \E r \in ToSet(b) : U(r) < U(x)
    BY <1>2, <1>9, <1>10, <2>1, ReportInOrder
  <2>3. U(x) \in Nat /\ U(x) < HalfRange
    BY <1>1, <2>2, UnsignedNumber
  <2>4. U(x) = x
    BY <2>2, <2>3, UnsignedEarly
  <2>. QED  BY <2>2, <2>3, <2>4
<1>11. NewLast(n) = last \/ NewLast(n) \in ToSet(b)
  BY <1>1, <1>4, <1>5
<1>12. /\ last >= 0 \/ (last = -1 /\ reported = << >>)
       /\ last >= 0 => /\ \A j \in 2 .. BufferSize : b[j] > last
                       /\ \A j \in 1 .. BufferSize : b[j] > 0
       /\ \A x \in ToSet(reported) :
            0 <= x /\ x < last /\ \A j \in 1 .. BufferSize : x < b[j]
  BY <1>2, <1>7 DEF Stands
<1>. HIDE DEF b, last, lost, u, rest
<1>13. CASE last = -1
  <2>1. NewLast(n) = -1
    <3>1. U(last) = 2 * HalfRange - 1
      BY <1>1, <1>4, <1>13 DEF U, AsUnsigned
    <3>2. U(NewLast(n)) = 2 * HalfRange - 1
      <4>1. U(NewLast(n)) \in 0 .. 2 * HalfRange - 1
        BY <1>3, UnsignedNumber
      <4>. QED  BY <1>1, <1>5, <3>1, <4>1
    <3>3. Wrap(U(NewLast(n))) = NewLast(n) /\ Wrap(U(last)) = last
      BY <1>3, <1>4, UnsignedNumber
    <3>. QED  BY <1>13, <3>1, <3>2, <3>3
  <2>2. ToSet(lost) = {}
    <3>. SUFFICES ASSUME NEW x \in ToSet(lost) PROVE FALSE
      OBVIOUS
    <3>1. PICK s \in ToSet(b) : s < NewLast(n)
      BY <1>10
    <3>2. s \in Nat
      BY <1>4, <1>6
    <3>. QED  BY <2>1, <3>1, <3>2
  <2>3. reported = << >>
    BY <1>12, <1>13
  <2>4. lost = << >>
    <3>1. DOMAIN lost = 1 .. Len(lost) /\ Len(lost) \in Nat
      BY <1>3 DEF Numbers
    <3>2. ~ (1 \in DOMAIN lost)
      BY <2>2 DEF ToSet
    <3>3. Len(lost) = 0
      BY <3>1, <3>2
    <3>. QED  BY <1>3, <3>3 DEF Numbers
  <2>5. reported' = << >>
    BY <1>2, <2>3, <2>4
  <2>6. Stands(packet_buffer, last_seqno)'
    BY <1>2, <2>1, <2>5 DEF Stands, ToSet
  <2>7. IsInjective(reported')
    BY <2>5 DEF IsInjective
  <2>. QED  BY <1>2, <1>11, <2>6, <2>7 DEF b, last
<1>14. CASE last >= 0
  <2>1. U(last) = last /\ last \in Nat
    BY <1>4, <1>14 DEF U, AsUnsigned, Int32
  <2>2. NewLast(n) \in Nat /\ U(NewLast(n)) = NewLast(n)
    <3>1. NewLast(n) \in Nat
      BY <1>4, <1>6, <1>11, <2>1
    <3>. QED  BY <3>1 DEF U, AsUnsigned
  <2>3. last <= NewLast(n) /\ \A i \in 1 .. u : b[i] <= NewLast(n)
    <3>1. \A i \in 1 .. u : i \in 1 .. BufferSize
      BY <1>1
    <3>. QED  BY <1>5, <1>6, <2>1, <2>2, <3>1
  <2>4. NewLast(n) > 0
    <3>1. 1 \in 1 .. u /\ 1 \in 1 .. BufferSize
      BY <1>1
    <3>2. b[1] > 0 /\ b[1] <= NewLast(n) /\ b[1] \in Nat
      BY <1>6, <1>12, <1>14, <2>3, <3>1
    <3>. QED  BY <2>2, <3>2
  <2>5. \A j \in 1 .. rest : packet_buffer'[j] > NewLast(n) /\ packet_buffer'[j] \in Nat
    <3>. SUFFICES ASSUME NEW j \in 1 .. rest PROVE b[u + j] > NewLast(n) /\ b[u + j] \in Nat
      BY <1>3a
    <3>1. u + j \in 1 .. BufferSize /\ u + j \in 2 .. BufferSize /\ b[u + j] \in Nat
      <4>1. u + j \in 1 .. BufferSize /\ u + j \in 2 .. BufferSize
        BY <1>1
      <4>. QED  BY <1>6, <4>1
    <3>2. CASE NewLast(n) = last
      BY <1>12, <1>14, <3>1, <3>2
    <3>3. ASSUME NEW i \in 1 .. u, NewLast(n) = b[i] PROVE b[u + j] > NewLast(n)
      <4>1. i \in 1 .. BufferSize /\ i < u + j /\ b[i] \in Nat
        <5>1. i \in 1 .. BufferSize /\ i < u + j
          BY <1>1
        <5>. QED  BY <1>6, <5>1
      <4>. QED  BY <1>8, <3>1, <3>3, <4>1
    <3>. QED  BY <1>5, <3>1, <3>2, <3>3
  <2>6. ASSUME NEW x \in ToSet(reported)
        PROVE  x \in Nat /\ x < last /\ \A s \in ToSet(b) : x < s
    <3>1. x \in Int
      <4>1. PICK i \in DOMAIN reported : x = reported[i]
        BY DEF ToSet
      <4>2. reported[i] \in Int32
        BY <1>4 DEF Numbers
      <4>. QED  BY <4>1, <4>2 DEF Int32
    <3>. QED  BY <1>4, <1>12, <2>1, <3>1
  <2>7. ASSUME NEW x \in ToSet(lost)
        PROVE  /\ x \in Nat /\ x < NewLast(n)
               /\ last < x \/ \E r \in ToSet(b) : r < x
    <3>1. PICK s \in ToSet(b) : s < NewLast(n) /\ x < s
      BY <1>10
    <3>2. s \in Nat /\ x \in Nat /\ U(x) = x /\ \A r \in ToSet(b) : U(r) = r
      BY <1>4, <1>6, <1>10
    <3>3. U(last) < U(x) \/ \E r \in ToSet(b) : U(r) < U(x)
      BY <1>10
    <3>. QED  BY <2>1, <2>2, <3>1, <3>2, <3>3
  <2>8. ToSet(reported) \cap ToSet(lost) = {}
    <3>. SUFFICES ASSUME NEW x \in ToSet(reported), x \in ToSet(lost) PROVE FALSE
      OBVIOUS
    <3>1. \A r \in ToSet(b) : r \in Nat
      BY <1>4, <1>6
    <3>. QED  BY <2>1, <2>6, <2>7, <3>1
  <2>9. IsInjective(lost)
    <3>1. /\ OrderedSeqnos(b, NewLast(n)) \in Numbers
          /\ IsOrdered(OrderedSeqnos(b, NewLast(n)))
      BY <1>3, <1>4, OrderedNumbers
    <3>2. IsInjective(LostSeqnos(last, OrderedSeqnos(b, NewLast(n))))
      BY <1>4, <3>1, LostNumbers
    <3>. QED  BY <3>2 DEF LostAt, lost, last, b
  <2>10. IsInjective(reported') /\ ToSet(reported') = ToSet(reported) \cup ToSet(lost)
    BY <1>2, <1>3, <1>4, <2>8, <2>9, TwoParts
  <2>11. ASSUME NEW x \in ToSet(reported')
         PROVE  /\ 0 <= x /\ x < NewLast(n)
                /\ \A j \in 1 .. rest : x < packet_buffer'[j]
    <3>1. x \in Nat /\ x < NewLast(n)
      <4>1. CASE x \in ToSet(reported)
        BY <2>1, <2>2, <2>3, <2>6, <4>1
      <4>2. CASE x \in ToSet(lost)
        BY <2>7, <4>2
      <4>. QED  BY <2>10, <2>11, <4>1, <4>2
    <3>. QED  BY <2>2, <2>5, <3>1
  <2>12. Stands(packet_buffer, last_seqno)'
    <3>1. /\ NewLast(n) >= 0 /\ NewLast(n) # 0
          /\ \A j \in 2 .. rest : packet_buffer'[j] > NewLast(n)
          /\ \A j \in 1 .. rest : packet_buffer'[j] > 0
      <4>1. \A j \in 2 .. rest : j \in 1 .. rest
        OBVIOUS
      <4>. QED  BY <2>2, <2>4, <2>5, <4>1
    <3>. QED  BY <1>2, <1>3a, <2>11, <3>1 DEF Stands
  <2>. QED  BY <1>2, <1>11, <2>10, <2>12 DEF b, last
<1>15. last = -1 \/ last >= 0
  BY <1>12
<1>. QED  BY <1>13, <1>14, <1>15 DEF b, last

LEMMA OncePacket ==
  ASSUME SQLTypeInv, HistoryInv, OrderedInv, OnceInv, Early',
         NEW n \in 0 .. 2 * HalfRange - 1, InOrderAt(n), late = {}
  PROVE  OnceInv'
<1>1. /\ next \in Nat /\ next - 1 <= n /\ next' = n + 1 /\ started' = started
      /\ n \in Nat /\ HalfRange \in Nat /\ DispatchPacket(n)
      /\ last_seqno \in Int32 /\ received \subseteq Int32
  BY ConstantTypes DEF InOrderAt, SQLTypeInv, StreamInv, DispatcherTyped
<1>2. n < HalfRange /\ Early
  BY <1>1 DEF Early
<1>3. received' = received \cup {Wrap(n)} /\ (Held(n) \/ Flush(n))
  BY <1>1, Dispatched
<1>4. /\ \A s \in ToSet(BufferAt(n)) : s \in 0 .. n /\ U(s) = s
      /\ Wrap(n) = n
      /\ LastAt(n) <= n /\ LastAt(n) \in Int32
      /\ Stands(BufferAt(n), LastAt(n))
  BY <1>2, OnceBuffer
<1>5. /\ Ascending(packet_buffer) /\ Behind(received, packet_buffer, last_seqno)
      /\ IsInjective(reported)
  BY <1>2 DEF OrderedInv, OnceInv, Early, IsNarrow
<1>6. Ascending(BufferAt(n)) /\ Behind(received, BufferAt(n), LastAt(n))
  BY <1>5, BufferInOrder
<1>7. n \in received'
  BY <1>3, <1>4
<1>8. CASE Held(n)
  <2>1. packet_buffer' = BufferAt(n) /\ last_seqno' = LastAt(n) /\ reported' = reported
    BY <1>8 DEF Held
  <2>2. Stands(packet_buffer, last_seqno)'
    BY <1>4, <2>1 DEF Stands
  <2>. QED  BY <1>4, <1>5, <1>7, <2>1, <2>2 DEF OnceInv
<1>9. CASE Flush(n)
  <2>1. /\ Stands(packet_buffer, last_seqno)'
        /\ IsInjective(reported')
        /\ last_seqno' = LastAt(n) \/ last_seqno' \in ToSet(BufferAt(n))
    BY <1>2, <1>4, <1>5, <1>6, <1>9, OnceFlush
  <2>2. last_seqno' <= n
    BY <1>1, <1>4, <2>1
  <2>. QED  BY <1>7, <2>1, <2>2 DEF OnceInv
<1>. QED  BY <1>3, <1>8, <1>9

OnceSQLInv == OrderedSQLInv /\ OnceInv

LEMMA OnceInit == Init => OnceSQLInv
<1>. SUFFICES ASSUME Init PROVE OnceInv
  BY OrderedInit DEF OnceSQLInv
<1>1. Len(<< >>) = 0 /\ ToSet(<< >>) = {} /\ IsInjective(<< >>)
  BY DEF ToSet, IsInjective
<1>. QED  BY <1>1 DEF Init, OnceInv, Early, Stands

LEMMA OnceStep ==
  ASSUME OnceSQLInv, [Next]_vars
  PROVE  OnceSQLInv'
<1>1. SQLTypeInv /\ HistoryInv /\ OrderedInv /\ OnceInv
  BY DEF OnceSQLInv, OrderedSQLInv, SQLInv
<1>2. OrderedSQLInv'
  BY OrderedStep DEF OnceSQLInv
<1>3. OnceInv'
  <2>1. CASE UNCHANGED vars
    BY <1>1, <2>1 DEF vars, OnceInv, Early, Stands
  <2>2. CASE Next
    <3>. SUFFICES ASSUME Early' PROVE OnceInv'
      BY DEF OnceInv
    <3>1. Early
      BY <1>1, <2>2, NarrowBefore, ConstantTypes DEF Early
    <3>2. LastArrived /\ late = {} /\ late' = {}
      BY <1>1, <3>1 DEF OrderedInv, Early, IsNarrow
    <3>3. Delay \/ \E n \in 0 .. 2 * HalfRange - 1 : InOrderAt(n)
      BY <1>1, <2>2, <3>2, InOrderPacket
    <3>4. CASE Delay
      BY <1>1, <3>1, <3>4 DEF Delay, OnceInv, Stands
    <3>5. CASE \E n \in 0 .. 2 * HalfRange - 1 : InOrderAt(n)
      BY <1>1, <3>2, <3>5, OncePacket
    <3>. QED  BY <3>3, <3>4, <3>5
  <2>. QED  BY <2>1, <2>2
<1>. QED  BY <1>2, <1>3 DEF OnceSQLInv

(* Nor is a lost request reported twice until the numbers wrap: what a     *)
(* flush reports lies below where it stops and above where the last one    *)
(* stopped, or right above a number of the buffer that the last one had    *)
(* not come to (MEPSQL_Dispatcher.cpp:113-166).                            *)
THEOREM NothingReportedTwice == Spec => []ReportedOnce
<1>1. OnceSQLInv => ReportedOnce
  BY DEF OnceSQLInv, OnceInv, Early, ReportedOnce, InOrder
<1>2. OnceSQLInv /\ [Next]_vars => OnceSQLInv'
  BY OnceStep
<1>. QED  BY <1>1, <1>2, OnceInit, PTL DEF Spec
-----------------------------------------------------------------------------
(* What the network dropped is not in it and has not arrived.              *)
DroppedInv ==
  \A x \in dropped : /\ x \in Int32 /\ U(x) \in FirstSeqno .. next - 1
                     /\ x \notin received /\ U(x) \notin delayed

LEMMA DroppedStep ==
  ASSUME SQLTypeInv, HistoryInv, DroppedInv, [Next]_vars
  PROVE  DroppedInv'
<1>1. /\ next \in Nat /\ FirstSeqno \in Nat /\ FirstSeqno <= next
      /\ delayed \subseteq FirstSeqno .. next - 1 /\ MaxSkip \in Nat
      /\ received \subseteq Int32 /\ HalfRange \in Nat
  BY ConstantTypes DEF SQLTypeInv, StreamInv, DispatcherTyped
<1>2. \A x \in dropped : /\ x \in Int32 /\ U(x) \in FirstSeqno .. next - 1
                         /\ x \notin received /\ U(x) \notin delayed
  BY DEF DroppedInv
<1>3. \A r \in received : U(r) \in FirstSeqno .. next - 1
  BY DEF HistoryInv
<1>4. ASSUME NEW skipped \in 0 .. MaxSkip, Deliver(skipped) PROVE DroppedInv'
  <2>. DEFINE n == next + skipped
              skips == {Wrap(m) : m \in next .. n - 1}
  <2>1. /\ DispatchPacket(n) /\ next' = n + 1 /\ delayed' = delayed
        /\ dropped' = dropped \cup skips
    <3>1. next .. next + skipped - 1 = next .. n - 1
      <4>1. next + skipped - 1 = n - 1
        BY <1>1
      <4>. QED  BY <4>1
    <3>2. dropped' = dropped \cup {Wrap(m) : m \in next .. next + skipped - 1}
      BY <1>4, Zenon DEF Deliver
    <3>3. dropped' = dropped \cup skips
      BY <3>1, <3>2
    <3>. QED  BY <1>4, <3>3 DEF Deliver
  <2>2. n \in 0 .. 2 * HalfRange - 1
    <3>1. Next
      BY <1>4 DEF Next
    <3>. QED  BY <1>4, <3>1, StreamStep
  <2>3. received' = received \cup {Wrap(n)} /\ U(Wrap(n)) = n
    BY <2>1, <2>2, Dispatched, WrappedNumber
  <2>4. n \in Nat /\ next <= n /\ n <= 2 * HalfRange - 1
    BY <1>1, <2>2
  <2>. HIDE DEF n
  <2>5. ASSUME NEW x \in dropped
        PROVE  /\ x \in Int32 /\ U(x) \in FirstSeqno .. next' - 1
               /\ x \notin received' /\ U(x) \notin delayed'
    <3>1. x \in Int32 /\ U(x) \in FirstSeqno .. next - 1 /\ x \notin received /\ U(x) \notin delayed
      BY <1>2
    <3>2. x # Wrap(n)
      BY <1>1, <2>3, <2>4, <3>1
    <3>. QED  BY <1>1, <2>1, <2>3, <2>4, <3>1, <3>2
  <2>6. ASSUME NEW m \in next .. n - 1
        PROVE  /\ Wrap(m) \in Int32 /\ U(Wrap(m)) \in FirstSeqno .. next' - 1
               /\ Wrap(m) \notin received' /\ U(Wrap(m)) \notin delayed'
    <3>1. m \in 0 .. 2 * HalfRange - 1 /\ next <= m /\ m < n /\ m \in Nat
      BY <1>1, <2>4
    <3>2. Wrap(m) \in Int32 /\ U(Wrap(m)) = m
      BY <3>1, WrappedNumber
    <3>3. Wrap(m) \notin received
      BY <1>1, <1>3, <3>1, <3>2
    <3>4. Wrap(m) # Wrap(n)
      BY <2>3, <3>1, <3>2
    <3>. QED  BY <1>1, <2>1, <2>3, <2>4, <3>1, <3>2, <3>3, <3>4
  <2>7. ASSUME NEW x \in dropped'
        PROVE  /\ x \in Int32 /\ U(x) \in FirstSeqno .. next' - 1
               /\ x \notin received' /\ U(x) \notin delayed'
    <3>1. x \in dropped \/ \E m \in next .. n - 1 : x = Wrap(m)
      BY <2>1, <2>7
    <3>. HIDE DEF skips
    <3>. QED  BY <2>5, <2>6, <3>1
  <2>. QED  BY <2>7 DEF DroppedInv
<1>5. CASE Delay
  <2>1. /\ delayed' = delayed \cup {next} /\ next' = next + 1
        /\ dropped' = dropped /\ received' = received
    BY <1>5 DEF Delay
  <2>. QED  BY <1>1, <1>2, <2>1 DEF DroppedInv
<1>6. CASE DeliverDelayed
  <2>1. PICK n \in delayed : /\ DispatchPacket(n) /\ delayed' = delayed \ {n}
                             /\ next' = next /\ dropped' = dropped
    BY <1>6 DEF DeliverDelayed
  <2>2. n \in 0 .. 2 * HalfRange - 1
    <3>1. Next
      BY <1>6 DEF Next
    <3>. QED  BY <2>1, <3>1, StreamStep
  <2>3. received' = received \cup {Wrap(n)} /\ U(Wrap(n)) = n
    BY <2>1, <2>2, Dispatched, WrappedNumber
  <2>. QED  BY <1>2, <2>1, <2>3 DEF DroppedInv
<1>7. CASE UNCHANGED vars
  BY <1>7 DEF vars, DroppedInv
<1>. QED  BY <1>4, <1>5, <1>6, <1>7 DEF Next

(* A dropped number between the last flush's number and this one's that    *)
(* the flush does not report has nothing of the buffer above it.           *)
LEMMA Unreported ==
  ASSUME NEW last \in Int32, last >= 0, NEW b \in Numbers, NEW newLast \in Int32,
         \A s \in ToSet(b) : s >= 0,
         NEW y \in Int32, last < y, y < newLast, y \notin ToSet(b),
         y \notin ToSet(LostSeqnos(last, OrderedSeqnos(b, newLast)))
  PROVE  \A s \in ToSet(b) : s <= y \/ newLast <= s
<1>. DEFINE o == OrderedSeqnos(b, newLast)
            m == Len(o)
<1>1. /\ o \in Numbers /\ IsOrdered(o)
      /\ ToSet(o) = {s \in ToSet(b) : s < newLast}
  BY OrderedNumbers
<1>. HIDE DEF o
<1>2. /\ m \in Nat /\ \A i \in 1 .. m : o[i] \in Int32 /\ o[i] \in Int /\ o[i] \in ToSet(b)
      /\ ToSet(o) = {o[i] : i \in 1 .. m}
  <2>1. m \in Nat /\ DOMAIN o = 1 .. m /\ \A i \in 1 .. m : o[i] \in Int32
    BY <1>1 DEF Numbers
  <2>2. ToSet(o) = {o[i] : i \in 1 .. m}
    BY <2>1 DEF ToSet
  <2>. QED  BY <1>1, <2>1, <2>2 DEF Int32
<1>3. \A k \in 1 .. m : ~ IsMissing(y, Before(last, o, k), o[k])
  BY <1>1, LostNumbers DEF o
<1>4. last \in Int /\ y \in Int /\ HalfRange \in Nat
  BY ConstantTypes DEF Int32
<1>. HIDE DEF m
<1>. DEFINE T == {k \in 0 .. m : k = 0 \/ o[k] < y}
<1>5. 0 \in T
  BY <1>2
<1>6. ASSUME NEW k \in 1 .. m, k - 1 \in T PROVE k \in T
  <2>. DEFINE p == Before(last, o, k)
  <2>1. p \in Int32 /\ p \in Int /\ p >= 0 /\ p < y
    <3>1. CASE k = 1
      BY <1>4, <3>1 DEF Before
    <3>2. CASE k # 1
      <4>1. p = o[k - 1] /\ k - 1 \in 1 .. m /\ o[k - 1] < y
        BY <1>2, <1>6, <3>2 DEF Before
      <4>2. o[k - 1] >= 0
        BY <1>2, <4>1
      <4>. QED  BY <1>2, <4>1, <4>2
    <3>. QED  BY <3>1, <3>2
  <2>2. ASSUME y <= o[k] PROVE FALSE
    <3>1. y # o[k] /\ o[k] \in Int32 /\ o[k] \in Int
      BY <1>2
    <3>2. y < o[k]
      BY <1>4, <2>2, <3>1
    <3>. HIDE DEF p
    <3>3. IsMissing(y, p, o[k])
      BY <1>4, <2>1, <3>1, <3>2, IntAssumption DEF IsMissing, Gap, Wrap, Int32
    <3>. QED  BY <1>3, <3>3 DEF p
  <2>. QED  BY <1>2, <1>4, <2>2
<1>7. 0 .. m \subseteq T
  <2>. HIDE DEF T
  <2>. QED  BY <1>2, <1>5, <1>6, BoundedInduction
<1>8. ASSUME NEW s \in ToSet(b), ~ (newLast <= s) PROVE s <= y
  <2>1. s \in Int32
    BY DEF ToSet, Numbers
  <2>2. s < newLast
    BY <1>8, <2>1 DEF Int32
  <2>3. PICK i \in 1 .. m : s = o[i]
    BY <1>1, <1>2, <2>2
  <2>4. i \in T /\ i # 0
    BY <1>2, <1>7, <2>3
  <2>. QED  BY <1>2, <1>4, <2>3, <2>4
<1>. QED  BY <1>8

(* Where flushes stopped: each number is the one the first flush started   *)
(* above, or one that arrived, and the last is where the dispatcher is.    *)
FlushedInv ==
  late = {} /\ next <= HalfRange =>
    /\ 0 \in received => last_seqno # 0
    /\ flushed # << >> => last_seqno = flushed[Len(flushed)] /\ last_seqno # 0
    /\ \A i \in 1 .. Len(flushed) : flushed[i] = flushed[1] \/ flushed[i] \in received

(* An unreported number, as the property has it.                           *)
IsAtFlush(y) ==
  \E i \in 1 .. Len(flushed) :
    y < flushed[i] /\ (y .. flushed[i] - 1) \cap received = {}

FlushedTyped == flushed \in Numbers

AtFlushInv ==
  late = {} /\ next <= HalfRange /\ flushed # << >> =>
    \A y \in dropped :
      y > flushed[1] /\ y < last_seqno /\ y \notin ToSet(reported) => IsAtFlush(y)

(* What this packet finds.                                                 *)
LEMMA EarlyNumbers ==
  ASSUME SQLTypeInv, HistoryInv, NEW n \in 0 .. 2 * HalfRange - 1, InOrderAt(n),
         n < HalfRange
  PROVE  /\ Wrap(n) = n /\ n \in Int32
         /\ \A r \in received : r \in Nat /\ U(r) = r /\ r < n
         /\ \A s \in ToSet(BufferAt(n)) : s \in Nat /\ U(s) = s /\ s <= n
         /\ last_seqno = 0 => LastAt(n) = n - 1
         /\ last_seqno # 0 => LastAt(n) = last_seqno
<1>1. /\ HalfRange \in Nat /\ received \subseteq Int32 /\ n \in Nat
      /\ ToSet(packet_buffer) \subseteq received
  BY ConstantTypes DEF SQLTypeInv, DispatcherTyped
<1>2. Wrap(n) = n /\ n \in Int32
  BY <1>1, WrappedNumber, UnsignedEarly
<1>3. ASSUME NEW r \in received PROVE r \in Nat /\ U(r) = r /\ r < n
  <2>1. r \in Int32 /\ U(r) < n /\ U(r) \in Nat
    BY <1>1, UnsignedNumber DEF InOrderAt
  <2>2. U(r) = r /\ r >= 0
    BY <1>1, <2>1, UnsignedEarly
  <2>. QED  BY <2>1, <2>2
<1>4. ASSUME NEW s \in ToSet(BufferAt(n)) PROVE s \in Nat /\ U(s) = s /\ s <= n
  <2>1. s \in received \/ s = n
    BY <1>1, <1>2, PacketTypes
  <2>2. U(n) = n
    BY <1>1 DEF U, AsUnsigned
  <2>. QED  BY <1>1, <1>3, <2>1, <2>2
<1>5. last_seqno = 0 => LastAt(n) = n - 1
  BY <1>1 DEF LastAt, Wrap
<1>. QED  BY <1>2, <1>3, <1>4, <1>5 DEF LastAt

LEMMA FlushedPacket ==
  ASSUME SQLTypeInv, HistoryInv, OrderedInv, FlushedTyped, FlushedInv,
         NEW n \in 0 .. 2 * HalfRange - 1, InOrderAt(n), late = {}, next' <= HalfRange
  PROVE  /\ FlushedTyped' /\ FlushedInv'
         /\ Flush(n) => /\ Len(flushed') = (IF flushed = << >> THEN 2 ELSE Len(flushed) + 1)
                        /\ flushed'[1] = (IF flushed = << >> THEN LastAt(n) ELSE flushed[1])
                        /\ flushed # << >> =>
                             \A i \in 1 .. Len(flushed) : flushed'[i] = flushed[i]
                        /\ flushed'[Len(flushed')] = NewLast(n)
<1>1. /\ next \in Nat /\ next - 1 <= n /\ next' = n + 1 /\ HalfRange \in Nat
      /\ DispatchPacket(n) /\ n \in Nat /\ last_seqno \in Int32
  BY ConstantTypes DEF InOrderAt, SQLTypeInv, StreamInv, DispatcherTyped
<1>2. n < HalfRange /\ next <= HalfRange
  BY <1>1
<1>3. received' = received \cup {Wrap(n)} /\ (Held(n) \/ Flush(n))
  BY <1>1, Dispatched
<1>4. /\ Wrap(n) = n /\ n \in Int32
      /\ \A r \in received : r \in Nat /\ U(r) = r /\ r < n
      /\ \A s \in ToSet(BufferAt(n)) : s \in Nat /\ U(s) = s /\ s <= n
      /\ last_seqno = 0 => LastAt(n) = n - 1
      /\ last_seqno # 0 => LastAt(n) = last_seqno
  BY <1>2, EarlyNumbers
<1>5. /\ 0 \in received => last_seqno # 0
      /\ flushed # << >> => last_seqno = flushed[Len(flushed)] /\ last_seqno # 0
      /\ \A i \in 1 .. Len(flushed) : flushed[i] = flushed[1] \/ flushed[i] \in received
  BY <1>2 DEF FlushedInv
<1>6. /\ flushed \in Numbers /\ Len(flushed) \in Nat
      /\ flushed # << >> => Len(flushed) > 0
  BY DEF FlushedTyped, Numbers
<1>7. LastAt(n) = 0 => n = 1 /\ 0 \notin received
  <2>. SUFFICES ASSUME LastAt(n) = 0 PROVE n = 1 /\ 0 \notin received
    OBVIOUS
  <2>1. last_seqno = 0
    BY <1>4
  <2>. QED  BY <1>1, <1>4, <1>5, <2>1
<1>8. CASE Held(n)
  <2>1. last_seqno' = LastAt(n) /\ flushed' = flushed
    BY <1>8 DEF Held
  <2>2. 0 \in received' => last_seqno' # 0
    BY <1>3, <1>4, <1>7, <2>1
  <2>3. ~ Flush(n)
    BY <1>8, ConstantTypes DEF Held, Flush
  <2>. QED  BY <1>3, <1>4, <1>5, <2>1, <2>2, <2>3 DEF FlushedInv, FlushedTyped
<1>9. CASE Flush(n)
  <2>. DEFINE f == IF flushed = << >> THEN <<LastAt(n)>> ELSE flushed
              new == <<NewLast(n)>>
  <2>1. /\ flushed' = f \o new /\ last_seqno' = NewLast(n)
        /\ Len(BufferAt(n)) = BufferSize
    BY <1>9 DEF Flush
  <2>2. /\ LastAt(n) \in Int32 /\ NewLast(n) \in Int32 /\ BufferAt(n) \in Numbers
        /\ OldestAt(n) \in Numbers /\ Len(OldestAt(n)) = UpdateSize
        /\ \A i \in 1 .. UpdateSize : OldestAt(n)[i] = BufferAt(n)[i]
    BY <2>1, FlushTypes, PacketTypes
  <2>3. /\ f \in Numbers /\ Len(f) = (IF flushed = << >> THEN 1 ELSE Len(flushed))
        /\ f[1] = (IF flushed = << >> THEN LastAt(n) ELSE flushed[1])
        /\ flushed # << >> => f = flushed
    BY <1>6, <2>2 DEF Numbers
  <2>4. new \in Numbers /\ Len(new) = 1 /\ new[1] = NewLast(n)
    BY <2>2 DEF Numbers
  <2>. HIDE DEF f, new
  <2>5. /\ flushed' \in Numbers /\ Len(flushed') = Len(f) + 1
        /\ \A i \in 1 .. Len(f) : flushed'[i] = f[i]
        /\ flushed'[Len(f) + 1] = NewLast(n)
    <3>1. /\ f \in Seq(Int32) /\ new \in Seq(Int32) /\ Len(f) \in Nat
      BY <2>3, <2>4 DEF Numbers
    <3>2. /\ f \o new \in Seq(Int32) /\ Len(f \o new) = Len(f) + Len(new)
          /\ \A i \in 1 .. Len(f) + Len(new) :
               (f \o new)[i] = IF i <= Len(f) THEN f[i] ELSE new[i - Len(f)]
      BY <3>1, ConcatProperties
    <3>3. (f \o new)[Len(f) + 1] = new[1]
      BY <2>4, <3>1, <3>2
    <3>. QED  BY <2>1, <2>4, <3>1, <3>2, <3>3 DEF Numbers
  <2>6. /\ NewLast(n) = LastAt(n) \/ (NewLast(n) \in ToSet(BufferAt(n)) /\ NewLast(n) \in received')
        /\ U(LastAt(n)) <= U(NewLast(n))
        /\ U(BufferAt(n)[1]) <= U(NewLast(n))
    <3>1. /\ U(LastAt(n)) <= U(NewLast(n))
          /\ \A k \in 1 .. UpdateSize : U(OldestAt(n)[k]) <= U(NewLast(n))
          /\ NewLast(n) = LastAt(n) \/ \E k \in 1 .. UpdateSize : NewLast(n) = OldestAt(n)[k]
      BY <2>2, LastNumber DEF NewLast
    <3>2. \A k \in 1 .. UpdateSize : BufferAt(n)[k] \in ToSet(BufferAt(n))
      <4>1. DOMAIN BufferAt(n) = 1 .. BufferSize
        BY <2>1, <2>2 DEF Numbers
      <4>2. \A k \in 1 .. UpdateSize : k \in 1 .. BufferSize
        BY ConstantTypes
      <4>. QED  BY <4>1, <4>2 DEF ToSet
    <3>3. ToSet(BufferAt(n)) \subseteq received'
      BY <1>3, PacketTypes DEF SQLTypeInv, DispatcherTyped
    <3>4. 1 \in 1 .. UpdateSize
      BY ConstantTypes
    <3>. QED  BY <2>2, <3>1, <3>2, <3>3, <3>4
  <2>7. NewLast(n) # 0
    <3>. SUFFICES ASSUME NewLast(n) = 0 PROVE FALSE
      OBVIOUS
    <3>1. U(NewLast(n)) = 0
      BY <1>1 DEF U, AsUnsigned
    <3>2. LastAt(n) = 0
      <4>1. U(LastAt(n)) = 0 /\ Wrap(U(LastAt(n))) = LastAt(n) /\ Wrap(U(NewLast(n))) = NewLast(n)
        BY <1>1, <2>2, <2>6, <3>1, UnsignedNumber
      <4>. QED  BY <3>1, <4>1
    <3>3. BufferAt(n)[1] \in ToSet(BufferAt(n))
      <4>1. 1 \in 1 .. BufferSize
        BY ConstantTypes
      <4>. QED  BY <2>1, <2>2, <4>1 DEF ToSet, Numbers
    <3>4. BufferAt(n)[1] = 0
      BY <1>4, <2>6, <3>1, <3>3
    <3>5. BufferAt(n)[1] \in received \/ BufferAt(n)[1] = n
      BY <1>4, <3>3, PacketTypes DEF SQLTypeInv, DispatcherTyped
    <3>. QED  BY <1>7, <3>2, <3>4, <3>5
  <2>8. ASSUME NEW i \in 1 .. Len(flushed')
        PROVE  flushed'[i] = flushed'[1] \/ flushed'[i] \in received'
    <3>1. Len(f) \in Nat /\ Len(f) >= 1 /\ flushed'[1] = f[1]
      BY <1>6, <2>3, <2>5
    <3>2. ASSUME NEW j \in 1 .. Len(f) PROVE f[j] = f[1] \/ f[j] \in received
      BY <1>5, <2>3, <3>2
    <3>3. CASE i \in 1 .. Len(f)
      BY <1>3, <2>5, <3>1, <3>2, <3>3
    <3>4. CASE i = Len(f) + 1
      <4>1. flushed'[i] = NewLast(n)
        BY <2>5, <3>4
      <4>2. LastAt(n) = f[Len(f)]
        BY <1>4, <1>5, <2>3
      <4>3. LastAt(n) = f[1] \/ LastAt(n) \in received
        BY <3>1, <3>2, <4>2
      <4>. QED  BY <1>3, <2>6, <3>1, <4>1, <4>3
    <3>. QED  BY <2>5, <3>1, <3>3, <3>4
  <2>9. flushed'[Len(flushed')] = NewLast(n)
    BY <2>5
  <2>10. FlushedInv'
    BY <2>1, <2>7, <2>8, <2>9 DEF FlushedInv
  <2>11. /\ Len(flushed') = (IF flushed = << >> THEN 2 ELSE Len(flushed) + 1)
         /\ flushed'[1] = (IF flushed = << >> THEN LastAt(n) ELSE flushed[1])
         /\ flushed # << >> => \A i \in 1 .. Len(flushed) : flushed'[i] = flushed[i]
    <3>1. Len(f) \in Nat /\ Len(f) >= 1 /\ flushed'[1] = f[1]
      BY <1>6, <2>3, <2>5
    <3>. QED  BY <2>3, <2>5, <3>1
  <2>. QED  BY <2>5, <2>9, <2>10, <2>11 DEF FlushedTyped
<1>. QED  BY <1>3, <1>8, <1>9

LEMMA DroppedGrows ==
  ASSUME SQLTypeInv, Next
  PROVE  \A y \in dropped' : y \in dropped \/ U(y) >= next
<1>1. next \in Nat /\ MaxSkip \in Nat /\ HalfRange \in Nat
  BY ConstantTypes DEF SQLTypeInv, StreamInv
<1>2. ASSUME NEW skipped \in 0 .. MaxSkip, Deliver(skipped), NEW y \in dropped', y \notin dropped
      PROVE  U(y) >= next
  <2>1. dropped' = dropped \cup {Wrap(m) : m \in next .. next + skipped - 1}
    BY <1>2, Zenon DEF Deliver
  <2>2. PICK m \in next .. next + skipped - 1 : y = Wrap(m)
    BY <1>2, <2>1
  <2>3. next + skipped \in 0 .. 2 * HalfRange - 1
    BY <1>2, StreamStep
  <2>4. m \in 0 .. 2 * HalfRange - 1 /\ next <= m
    BY <1>1, <2>2, <2>3
  <2>. QED  BY <2>2, <2>4, WrappedNumber
<1>3. ASSUME Delay \/ DeliverDelayed PROVE dropped' = dropped
  BY <1>3 DEF Delay, DeliverDelayed
<1>. QED  BY <1>2, <1>3 DEF Next

LEMMA AtFlushPacket ==
  ASSUME SQLTypeInv, HistoryInv, OrderedInv, FlushedTyped, FlushedInv, AtFlushInv,
         DroppedInv', NEW n \in 0 .. 2 * HalfRange - 1, InOrderAt(n),
         \A y \in dropped' : y \in dropped \/ U(y) >= next,
         late = {}, next' <= HalfRange
  PROVE  AtFlushInv'
<1>1. /\ next \in Nat /\ next - 1 <= n /\ next' = n + 1 /\ HalfRange \in Nat
      /\ DispatchPacket(n) /\ n \in Nat /\ last_seqno \in Int32 /\ reported \in Numbers
      /\ FirstSeqno \in Nat
  BY ConstantTypes DEF InOrderAt, SQLTypeInv, StreamInv, DispatcherTyped
<1>2. n < HalfRange /\ next <= HalfRange
  BY <1>1
<1>3. received' = received \cup {Wrap(n)} /\ (Held(n) \/ Flush(n))
  BY <1>1, Dispatched
<1>4. /\ Wrap(n) = n /\ n \in Int32
      /\ \A r \in received : r \in Nat /\ U(r) = r /\ r < n
      /\ \A s \in ToSet(BufferAt(n)) : s \in Nat /\ U(s) = s /\ s <= n
      /\ last_seqno = 0 => LastAt(n) = n - 1
      /\ last_seqno # 0 => LastAt(n) = last_seqno
  BY <1>2, EarlyNumbers
<1>5. \A r \in received : r <= next - 1
  BY <1>4 DEF HistoryInv
<1>6. /\ flushed # << >> => last_seqno = flushed[Len(flushed)] /\ last_seqno # 0
      /\ \A i \in 1 .. Len(flushed) : flushed[i] = flushed[1] \/ flushed[i] \in received
  BY <1>2 DEF FlushedInv
<1>7. /\ flushed \in Numbers /\ Len(flushed) \in Nat
      /\ flushed # << >> => Len(flushed) \in 1 .. Len(flushed)
      /\ \A i \in 1 .. Len(flushed) : flushed[i] \in Int
  <2>1. flushed \in Numbers /\ Len(flushed) \in Nat /\ (flushed # << >> => Len(flushed) > 0)
    BY DEF FlushedTyped, Numbers
  <2>2. \A i \in 1 .. Len(flushed) : flushed[i] \in Int32
    BY <2>1 DEF Numbers
  <2>. QED  BY <2>1, <2>2 DEF Int32
<1>8. ASSUME NEW y \in dropped'
      PROVE  y \in Nat /\ y \in Int32 /\ U(y) = y /\ y \notin received' /\ y # n
  <2>1. y \in Int32 /\ U(y) \in FirstSeqno .. next' - 1 /\ y \notin received'
    BY <1>8 DEF DroppedInv
  <2>2. U(y) = y /\ y >= 0
    BY <1>1, <2>1, UnsignedEarly
  <2>. QED  BY <1>1, <1>3, <1>4, <2>1, <2>2
(* Below where the last flush stopped nothing changes.                     *)
<1>9. ASSUME flushed # << >>, NEW y \in dropped', y > flushed[1], y < last_seqno,
             y \notin ToSet(reported)
      PROVE  \E i \in 1 .. Len(flushed) :
               y < flushed[i] /\ (y .. flushed[i] - 1) \cap received' = {}
  <2>1. y \in Nat /\ 1 \in 1 .. Len(flushed)
    BY <1>7, <1>8, <1>9
  <2>2. y \in dropped
    <3>. SUFFICES ASSUME y \notin dropped PROVE FALSE
      OBVIOUS
    <3>1. y >= next
      BY <1>8, <1>9
    <3>2. last_seqno \notin received
      BY <1>1, <1>5, <1>9, <2>1, <3>1 DEF Int32
    <3>3. last_seqno = flushed[1]
      BY <1>6, <1>7, <1>9, <3>2
    <3>. QED  BY <1>7, <1>9, <2>1, <3>3
  <2>3. IsAtFlush(y)
    BY <1>2, <1>9, <2>2 DEF AtFlushInv
  <2>4. PICK i \in 1 .. Len(flushed) :
               y < flushed[i] /\ (y .. flushed[i] - 1) \cap received = {}
    BY <2>3 DEF IsAtFlush
  <2>5. n \notin y .. flushed[i] - 1
    <3>. SUFFICES ASSUME n \in y .. flushed[i] - 1 PROVE FALSE
      OBVIOUS
    <3>1. flushed[i] \in Int /\ flushed[1] \in Int /\ flushed[i] > n
      BY <1>1, <1>7, <2>1
    <3>2. flushed[i] \notin received
      BY <1>1, <1>4, <3>1
    <3>3. flushed[i] = flushed[1]
      BY <1>6, <3>2
    <3>. QED  BY <1>9, <2>1, <2>4, <3>1, <3>3
  <2>. QED  BY <1>3, <1>4, <2>4, <2>5
<1>10. CASE Held(n)
  <2>1. /\ last_seqno' = LastAt(n) /\ flushed' = flushed /\ reported' = reported
    BY <1>10 DEF Held
  <2>. SUFFICES ASSUME flushed # << >>, NEW y \in dropped', y > flushed[1],
                       y < LastAt(n), y \notin ToSet(reported)
                PROVE  IsAtFlush(y)'
    BY <2>1 DEF AtFlushInv
  <2>2. LastAt(n) = last_seqno
    BY <1>4, <1>6
  <2>. QED  BY <1>9, <2>1, <2>2 DEF IsAtFlush
<1>11. CASE Flush(n)
  <2>1. /\ last_seqno' = NewLast(n) /\ reported' = reported \o LostAt(n)
        /\ Len(BufferAt(n)) = BufferSize
    BY <1>11 DEF Flush
  <2>2. /\ Len(flushed') = (IF flushed = << >> THEN 2 ELSE Len(flushed) + 1)
        /\ flushed'[1] = (IF flushed = << >> THEN LastAt(n) ELSE flushed[1])
        /\ flushed # << >> => \A i \in 1 .. Len(flushed) : flushed'[i] = flushed[i]
        /\ flushed'[Len(flushed')] = NewLast(n)
    BY <1>11, FlushedPacket
  <2>3. /\ LastAt(n) \in Int32 /\ NewLast(n) \in Int32 /\ BufferAt(n) \in Numbers
        /\ OldestAt(n) \in Numbers /\ LostAt(n) \in Numbers
    BY <2>1, FlushTypes, PacketTypes
  <2>4. ToSet(reported') = ToSet(reported) \cup ToSet(LostAt(n))
    BY <1>1, <2>1, <2>3, TwoParts
  <2>5. U(LastAt(n)) <= U(NewLast(n))
    BY <2>3, LastNumber DEF NewLast
  <2>6. Behind(received, BufferAt(n), LastAt(n))
    <3>1. Ascending(packet_buffer) /\ Behind(received, packet_buffer, last_seqno)
      BY <1>2 DEF OrderedInv, IsNarrow
    <3>. QED  BY <3>1, BufferInOrder
  <2>. SUFFICES ASSUME NEW y \in dropped', y > flushed'[1], y < NewLast(n),
                       y \notin ToSet(reported')
                PROVE  \E i \in 1 .. Len(flushed') :
                         y < flushed'[i] /\ (y .. flushed'[i] - 1) \cap received' = {}
    BY <2>1 DEF AtFlushInv, IsAtFlush
  <2>7. y \in Nat /\ y \in Int32 /\ U(y) = y /\ y \notin received' /\ y # n
    BY <1>8
  <2>8. CASE LastAt(n) < y
    <3>1. LastAt(n) >= 0
      BY <1>1, <2>3, <2>5, <2>7 DEF U, AsUnsigned, Int32
    <3>2. ToSet(BufferAt(n)) \subseteq received'
      BY <1>3, PacketTypes DEF SQLTypeInv, DispatcherTyped
    <3>3. /\ y \notin ToSet(BufferAt(n))
          /\ y \notin ToSet(LostSeqnos(LastAt(n), OrderedSeqnos(BufferAt(n), NewLast(n))))
      BY <2>4, <2>7, <3>2 DEF LostAt
    <3>4. \A s \in ToSet(BufferAt(n)) : s >= 0
      BY <1>4
    <3>5. \A s \in ToSet(BufferAt(n)) : s <= y \/ NewLast(n) <= s
      BY <2>3, <2>7, <2>8, <3>1, <3>3, <3>4, Unreported
    <3>6. ASSUME NEW r \in received', r \in y .. NewLast(n) - 1 PROVE FALSE
      <4>1. r # y /\ NewLast(n) \in Int
        BY <2>3, <2>7 DEF Int32
      <4>2. CASE r \in ToSet(BufferAt(n))
        BY <2>7, <3>5, <3>6, <4>1, <4>2
      <4>3. CASE r \notin ToSet(BufferAt(n))
        <5>1. r \in received
          BY <1>3, <4>3, PacketTypes
        <5>2. U(r) <= U(LastAt(n))
          BY <2>6, <4>3, <5>1 DEF Behind
        <5>3. U(LastAt(n)) = LastAt(n) /\ LastAt(n) \in Int /\ U(r) = r
          BY <1>4, <2>3, <3>1, <5>1 DEF U, AsUnsigned, Int32
        <5>. QED  BY <2>7, <2>8, <3>6, <4>1, <5>2, <5>3
      <4>. QED  BY <4>2, <4>3
    <3>7. Len(flushed') \in 1 .. Len(flushed')
      BY <1>7, <2>2
    <3>. QED  BY <2>2, <3>6, <3>7
  <2>9. CASE ~ (LastAt(n) < y)
    <3>1. flushed # << >>
      BY <2>2, <2>9
    <3>2. LastAt(n) = last_seqno /\ flushed'[1] = flushed[1]
      BY <1>4, <1>6, <2>2, <3>1
    <3>3. y # last_seqno
      <4>. SUFFICES ASSUME y = last_seqno PROVE FALSE
        OBVIOUS
      <4>1. last_seqno = flushed[1] \/ last_seqno \in received
        BY <1>6, <1>7, <3>1
      <4>2. flushed[1] \in Int
        BY <1>7, <3>1
      <4>. QED  BY <1>3, <2>7, <3>2, <4>1, <4>2
    <3>4. y < last_seqno
      BY <1>1, <2>7, <2>9, <3>2, <3>3 DEF Int32
    <3>5. PICK i \in 1 .. Len(flushed) :
                 y < flushed[i] /\ (y .. flushed[i] - 1) \cap received' = {}
      BY <1>9, <2>4, <3>1, <3>2, <3>4
    <3>6. i \in 1 .. Len(flushed') /\ flushed'[i] = flushed[i]
      BY <1>7, <2>2, <3>1
    <3>. QED  BY <3>5, <3>6
  <2>. QED  BY <2>8, <2>9
<1>. QED  BY <1>3, <1>10, <1>11

AtFlushSQLInv ==
  OrderedSQLInv /\ DroppedInv /\ FlushedTyped /\ FlushedInv /\ AtFlushInv

LEMMA AtFlushInit == Init => AtFlushSQLInv
<1>. SUFFICES ASSUME Init PROVE DroppedInv /\ FlushedTyped /\ FlushedInv /\ AtFlushInv
  BY OrderedInit DEF AtFlushSQLInv
<1>1. Len(<< >>) = 0 /\ << >> \in Numbers
  BY DEF Numbers
<1>. QED  BY <1>1 DEF Init, DroppedInv, FlushedTyped, FlushedInv, AtFlushInv

(* Out of order only the type of flushed is kept.                          *)
LEMMA FlushedStep ==
  ASSUME SQLTypeInv, FlushedTyped, [Next]_vars
  PROVE  FlushedTyped'
<1>1. ASSUME NEW n \in 0 .. 2 * HalfRange - 1, DispatchPacket(n) PROVE FlushedTyped'
  <2>1. Held(n) \/ Flush(n)
    BY <1>1, Dispatched
  <2>2. CASE Held(n)
    BY <2>2 DEF Held, FlushedTyped
  <2>3. CASE Flush(n)
    <3>. DEFINE f == IF flushed = << >> THEN <<LastAt(n)>> ELSE flushed
                new == <<NewLast(n)>>
    <3>1. flushed' = f \o new /\ Len(BufferAt(n)) = BufferSize
      BY <2>3 DEF Flush
    <3>2. LastAt(n) \in Int32 /\ NewLast(n) \in Int32
      BY <3>1, FlushTypes, PacketTypes
    <3>3. f \in Numbers /\ new \in Numbers
      BY <3>2 DEF Numbers, FlushedTyped
    <3>. HIDE DEF f, new
    <3>. QED  BY <3>1, <3>3, TwoParts DEF FlushedTyped
  <2>. QED  BY <2>1, <2>2, <2>3
<1>2. CASE Next
  <2>1. ASSUME NEW skipped \in 0 .. MaxSkip, Deliver(skipped) PROVE FlushedTyped'
    BY <1>1, <1>2, <2>1, StreamStep DEF Deliver
  <2>2. CASE Delay
    BY <2>2 DEF Delay, FlushedTyped
  <2>3. CASE DeliverDelayed
    BY <1>1, <1>2, <2>3, StreamStep DEF DeliverDelayed
  <2>. QED  BY <1>2, <2>1, <2>2, <2>3 DEF Next
<1>3. CASE UNCHANGED vars
  BY <1>3 DEF vars, FlushedTyped
<1>. QED  BY <1>2, <1>3

LEMMA AtFlushStep ==
  ASSUME AtFlushSQLInv, [Next]_vars
  PROVE  AtFlushSQLInv'
<1>1. /\ SQLTypeInv /\ HistoryInv /\ OrderedInv /\ DroppedInv /\ FlushedTyped
      /\ FlushedInv /\ AtFlushInv /\ OrderedSQLInv
  BY DEF AtFlushSQLInv, OrderedSQLInv, SQLInv
<1>2. OrderedSQLInv' /\ DroppedInv' /\ FlushedTyped'
  BY <1>1, OrderedStep, DroppedStep, FlushedStep
<1>3. FlushedInv' /\ AtFlushInv'
  <2>1. CASE UNCHANGED vars
    BY <1>1, <2>1 DEF vars, FlushedInv, AtFlushInv, IsAtFlush
  <2>2. CASE Next
    <3>. SUFFICES ASSUME late' = {}, next' <= HalfRange PROVE FlushedInv' /\ AtFlushInv'
      BY DEF FlushedInv, AtFlushInv
    <3>1. late = {} /\ next <= HalfRange
      BY <1>1, <2>2, NarrowBefore, ConstantTypes
    <3>2. LastArrived
      BY <1>1, <3>1 DEF OrderedInv, IsNarrow
    <3>3. Delay \/ \E n \in 0 .. 2 * HalfRange - 1 : InOrderAt(n)
      BY <1>1, <2>2, <3>2, InOrderPacket
    <3>4. CASE Delay
      BY <1>1, <3>1, <3>4 DEF Delay, FlushedInv, AtFlushInv, IsAtFlush
    <3>5. CASE \E n \in 0 .. 2 * HalfRange - 1 : InOrderAt(n)
      <4>1. PICK n \in 0 .. 2 * HalfRange - 1 : InOrderAt(n)
        BY <3>5
      <4>2. \A y \in dropped' : y \in dropped \/ U(y) >= next
        BY <1>1, <2>2, DroppedGrows
      <4>. QED  BY <1>1, <1>2, <3>1, <4>1, <4>2, FlushedPacket, AtFlushPacket
    <3>. QED  BY <3>3, <3>4, <3>5
  <2>. QED  BY <2>1, <2>2
<1>. QED  BY <1>2, <1>3 DEF AtFlushSQLInv

(* While the network keeps the order, and until the numbers wrap, a lost   *)
(* request goes unreported only right before a number at which a flush     *)
(* stopped: the flush orders the numbers below _last_seqno and the next    *)
(* one starts above it (MEPSQL_Dispatcher.cpp:130,146).                    *)
THEOREM UnreportedOnlyAtFlush == Spec => []UnreportedIsAtFlush
<1>1. AtFlushSQLInv => UnreportedIsAtFlush
  <2>. SUFFICES ASSUME AtFlushSQLInv, late = {}, next <= HalfRange, flushed # << >>,
                       NEW y \in dropped, y > flushed[1], y < last_seqno,
                       y \notin ToSet(reported)
                PROVE  \E i \in DOMAIN flushed :
                         y < flushed[i] /\ (y .. flushed[i] - 1) \cap received = {}
    BY DEF UnreportedIsAtFlush, InOrder
  <2>1. IsAtFlush(y)
    BY DEF AtFlushSQLInv, AtFlushInv
  <2>2. DOMAIN flushed = 1 .. Len(flushed)
    BY DEF AtFlushSQLInv, FlushedTyped, Numbers
  <2>. QED  BY <2>1, <2>2 DEF IsAtFlush
<1>2. AtFlushSQLInv /\ [Next]_vars => AtFlushSQLInv'
  BY AtFlushStep
<1>. QED  BY <1>1, <1>2, AtFlushInit, PTL DEF Spec
=============================================================================
