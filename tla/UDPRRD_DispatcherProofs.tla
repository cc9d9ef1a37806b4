---------------------- MODULE UDPRRD_DispatcherProofs ----------------------
(* Theorems about the dispatcher of UDP packets: any size of the list, any *)
(* part of it pushed at a time, any settings of the clock, either build.   *)
EXTENDS UDPRRD_Dispatcher, FoldLemmas

(* What the list and the file hold: a second is there with its packets.    *)
Pair == [time : Second, packets : Nat \ {0}]

-----------------------------------------------------------------------------
(* What one more packet does to the list.                                  *)
(* 1a: the second is there and has one more packet.                        *)
Again(b, arrival, k) ==
  /\ k \in 1 .. Len(packet_buffer) /\ packet_buffer[k].time = arrival
  /\ Len(b) = Len(packet_buffer)
  /\ b[k] = Item(arrival, packet_buffer[k].packets + 1)
  /\ \A i \in 1 .. Len(packet_buffer) : i # k => b[i] = packet_buffer[i]

(* 1b: it is put after the first k.                                        *)
Added(b, arrival, k) ==
  /\ k \in 0 .. Len(packet_buffer)
  /\ IsInserted(b, packet_buffer, k, Item(arrival, 1))

NotThere(arrival) ==
  \A j \in 1 .. Len(packet_buffer) : packet_buffer[j].time # arrival

LEMMA LocationInList ==
  ASSUME packet_buffer \in Seq(Pair), NEW arrival
  PROVE  Location(arrival) \in 0 .. Len(packet_buffer)
<1>. DEFINE n == Len(packet_buffer)
            older == {j \in 2 .. n : arrival > packet_buffer[j].time}
<1>1. n \in Nat /\ older \subseteq 0 .. n
  OBVIOUS
<1>2. older # {} => Max(older) \in older
  <2>. HIDE DEF older, n
  <2>. QED  BY <1>1, GreatestOf
<1>. QED  BY <1>1, <1>2 DEF Location

LEMMA CountedPacket ==
  ASSUME packet_buffer \in Seq(Pair), NEW arrival \in Second
  PROVE  /\ Counted(arrival) \in Seq(Pair)
         /\ \/ \E k : Again(Counted(arrival), arrival, k)
            \/ /\ NotThere(arrival)
               /\ Added(Counted(arrival), arrival, Location(arrival))
<1>. DEFINE n == Len(packet_buffer)
            found == {j \in DOMAIN packet_buffer : packet_buffer[j].time = arrival}
<1>1. /\ n \in Nat /\ DOMAIN packet_buffer = 1 .. n
      /\ \A i \in 1 .. n : packet_buffer[i] \in Pair
  OBVIOUS
<1>2. CASE found # {}
  <2>1. Min(found) \in found
    <3>1. found \subseteq Nat
      BY <1>1
    <3>. HIDE DEF found
    <3>. QED  BY <1>2, <3>1, LeastOf
  <2>2. Counted(arrival) = [packet_buffer EXCEPT ![Min(found)].packets = @ + 1]
    BY <1>2 DEF Counted
  <2>. DEFINE k == Min(found)
              b == Counted(arrival)
  <2>3. k \in 1 .. n /\ packet_buffer[k].time = arrival
    BY <1>1, <2>1
  <2>. HIDE DEF k, found
  <2>4. b = [packet_buffer EXCEPT ![k].packets = @ + 1]
    BY <2>2 DEF k, found
  <2>. DEFINE old == packet_buffer[k]
              item == Item(arrival, old.packets + 1)
  <2>5. old \in Pair /\ [old EXCEPT !.packets = old.packets + 1] = item /\ item \in Pair
    BY <1>1, <2>3 DEF Pair, Item
  <2>6. /\ DOMAIN b = 1 .. n /\ b = [i \in 1 .. n |-> b[i]]
        /\ b[k] = [old EXCEPT !.packets = old.packets + 1]
        /\ \A i \in 1 .. n : i # k => b[i] = packet_buffer[i]
    <3>. HIDE DEF b
    <3>. QED  BY <1>1, <2>3, <2>4
  <2>. HIDE DEF b, item, old
  <2>7. b \in [1 .. n -> Pair] /\ b[k] = item
    BY <1>1, <2>3, <2>5, <2>6
  <2>8. b \in Seq(Pair) /\ Again(b, arrival, k)
    BY <1>1, <2>3, <2>6, <2>7 DEF Again, item, old
  <2>. QED  BY <2>8 DEF b
<1>3. CASE found = {}
  <2>1. Counted(arrival) = InsertAt(packet_buffer, Location(arrival) + 1, Item(arrival, 1))
    BY <1>3 DEF Counted
  <2>2. NotThere(arrival)
    BY <1>1, <1>3 DEF NotThere
  <2>3. Location(arrival) \in 0 .. n /\ Item(arrival, 1) \in Pair
    BY LocationInList DEF Item, Pair
  <2>. QED  BY <2>1, <2>2, <2>3, InsertedAt DEF Added
<1>. QED  BY <1>2, <1>3
-----------------------------------------------------------------------------
(* How many packets of a second some pairs hold.                           *)
PacketsIn(s, item) == IF item.time = s THEN item.packets ELSE 0

PacketsEach(items, s) == [i \in 1 .. Len(items) |-> PacketsIn(s, items[i])]

(* The recursive function behind PacketsOf.                                *)
PacketsFold(it, items, s) ==
  it = [t \in SUBSET (DOMAIN items) |->
          IF t = {} THEN 0
          ELSE it[t \ {Max(t)}]
                 + (IF items[Max(t)].time = s THEN items[Max(t)].packets ELSE 0)]

LEMMA PacketsAreSummed ==
  ASSUME NEW items \in Seq(Pair), NEW s
  PROVE  /\ \A i \in 1 .. Len(items) : PacketsEach(items, s)[i] \in Nat
         /\ \E p : /\ IsPrefixSum(p, PacketsEach(items, s), Len(items))
                  /\ PacketsOf(items, s) = p[Len(items)]
<1>. DEFINE n == Len(items)
            v == PacketsEach(items, s)
            c == [t \in SUBSET (1 .. n) |-> Max(t)]
            it == CHOOSE jt : PacketsFold(jt, items, s)
<1>1. n \in Nat /\ DOMAIN items = 1 .. n /\ \A i \in 1 .. n : items[i] \in Pair
  OBVIOUS
<1>2. \A i \in 1 .. n : v[i] \in Nat
  BY <1>1 DEF PacketsEach, PacketsIn, Pair
<1>3. /\ \A t \in SUBSET (1 .. n) : c[t] = Max(t)
      /\ TakesMax(c, n)
  <2>1. \A t \in SUBSET (1 .. n) : c[t] = CHOOSE x \in t : \A y \in t : x >= y
    BY DEF Max
  <2>. HIDE DEF c, n
  <2>2. TakesMax(c, n)
    BY <1>1, <2>1, MaxIsTaken
  <2>. QED  BY <2>2 DEF c
<1>. HIDE DEF n, c
<1>4. \A jt : IsLeftSum(jt, c, v, n) <=> PacketsFold(jt, items, s)
  <2>1. \A t \in SUBSET (1 .. n) : t # {} =>
          /\ c[t] = Max(t)
          /\ v[c[t]] = IF items[Max(t)].time = s THEN items[Max(t)].packets ELSE 0
    BY <1>1, <1>3 DEF PacketsEach, PacketsIn, TakesMax, n
  <2>. HIDE DEF v
  <2>. QED  BY <1>1, <2>1 DEF IsLeftSum, PacketsFold
<1>. HIDE DEF v
<1>5. \A i \in 1 .. n : v[i] \in Int
  BY <1>2
<1>6. PacketsFold(it, items, s)
  BY <1>1, <1>3, <1>4, <1>5, LeftSumExists
<1>7. PacketsOf(items, s) = it[DOMAIN items]
  BY Zenon DEF PacketsOf, FoldLeft, MapThenFoldSet, PacketsFold
<1>. HIDE DEF it
<1>8. IsLeftSum(it, c, v, n)
  BY <1>4, <1>6
<1>. DEFINE p == [k \in 0 .. n |-> it[1 .. k]]
<1>9. IsPrefixSum(p, v, n)
  BY <1>1, <1>3, <1>5, <1>8, LeftSumSteps
<1>10. p[n] = it[1 .. n]
  BY <1>1
<1>. HIDE DEF p
<1>. QED  BY <1>1, <1>2, <1>7, <1>9, <1>10 DEF v, n

LEMMA PacketsOfNone == ASSUME NEW s PROVE PacketsOf(<< >>, s) = 0
<1>1. << >> \in Seq(Pair) /\ Len(<< >>) = 0
  OBVIOUS
<1>2. PICK p : /\ IsPrefixSum(p, PacketsEach(<< >>, s), Len(<< >>))
               /\ PacketsOf(<< >>, s) = p[Len(<< >>)]
  BY <1>1, PacketsAreSummed
<1>. QED  BY <1>1, <1>2 DEF IsPrefixSum

LEMMA PacketsOfEach ==
  ASSUME NEW items \in Seq(Pair), NEW s
  PROVE  /\ PacketsOf(items, s) \in Nat
         /\ \A i \in 1 .. Len(items) : PacketsIn(s, items[i]) <= PacketsOf(items, s)
<1>. DEFINE n == Len(items)
            v == PacketsEach(items, s)
<1>1. n \in Nat /\ \A i \in 1 .. n : v[i] \in Nat
  BY PacketsAreSummed
<1>2. PICK p : IsPrefixSum(p, v, n) /\ PacketsOf(items, s) = p[n]
  BY PacketsAreSummed
<1>3. \A i \in 1 .. n : v[i] = PacketsIn(s, items[i])
  BY DEF PacketsEach
<1>. HIDE DEF n, v
<1>4. p[n] \in Nat /\ \A i \in 1 .. n : v[i] <= p[n]
  BY <1>1, <1>2, SumOfNaturals
<1>. QED  BY <1>2, <1>3, <1>4 DEF n

(* Of two sequences one after the other.                                   *)
Both(all, front, back) ==
  /\ all \in Seq(Pair) /\ front \in Seq(Pair) /\ back \in Seq(Pair)
  /\ Len(all) = Len(front) + Len(back)
  /\ \A i \in 1 .. Len(front) : all[i] = front[i]
  /\ \A i \in 1 .. Len(back) : all[i + Len(front)] = back[i]

LEMMA PacketsOfBoth ==
  ASSUME NEW front, NEW back, NEW all, Both(all, front, back), NEW s
  PROVE  PacketsOf(all, s) = PacketsOf(front, s) + PacketsOf(back, s)
<1>. USE DEF Both
<1>. DEFINE n == Len(front)
            m == Len(back)
            l == Len(all)
            v == PacketsEach(front, s)
            u == PacketsEach(back, s)
            w == PacketsEach(all, s)
<1>1. n \in Nat /\ m \in Nat /\ l = n + m
  OBVIOUS
<1>2. /\ \A i \in 1 .. m : u[i] \in Int
      /\ \A i \in 1 .. n : v[i] = w[i]
      /\ \A i \in 1 .. m : u[i] = w[i + n]
  <2>1. \A i \in 1 .. m : u[i] \in Int
    BY PacketsAreSummed
  <2>2. \A i \in 1 .. n : i \in 1 .. l
    BY <1>1
  <2>3. \A i \in 1 .. m : i + n \in 1 .. l
    BY <1>1
  <2>. QED  BY <2>1, <2>2, <2>3 DEF PacketsEach
<1>3. PICK p : IsPrefixSum(p, v, n) /\ PacketsOf(front, s) = p[n]
  BY PacketsAreSummed
<1>4. PICK q : IsPrefixSum(q, u, m) /\ PacketsOf(back, s) = q[m]
  BY PacketsAreSummed
<1>5. PICK r : IsPrefixSum(r, w, l) /\ PacketsOf(all, s) = r[l]
  BY PacketsAreSummed
<1>. HIDE DEF n, m, l, v, u, w
<1>6. r[l] = p[n] + q[m]
  <2>1. BothAreIn(v, n, u, m, w, l)
    BY <1>1, <1>2 DEF BothAreIn
  <2>. QED  BY <1>1, <1>3, <1>4, <1>5, <2>1, SumOfBoth
<1>. QED  BY <1>3, <1>4, <1>5, <1>6

(* One more packet, in a second that is there or not.                      *)
LEMMA PacketsOfCounted ==
  ASSUME packet_buffer \in Seq(Pair), NEW arrival \in Second, NEW s
  PROVE  PacketsOf(Counted(arrival), s) =
           PacketsOf(packet_buffer, s) + (IF s = arrival THEN 1 ELSE 0)
<1>. DEFINE b == Counted(arrival)
            n == Len(packet_buffer)
            m == Len(b)
            v == PacketsEach(packet_buffer, s)
            u == PacketsEach(b, s)
            one == IF s = arrival THEN 1 ELSE 0
<1>1. /\ b \in Seq(Pair)
      /\ (\E k : Again(b, arrival, k)) \/ (\E k : Added(b, arrival, k))
  BY CountedPacket
<1>. HIDE DEF b
<1>2. /\ n \in Nat /\ m \in Nat
      /\ \A i \in 1 .. n : packet_buffer[i] \in Pair
  BY <1>1
<1>3. PICK p : IsPrefixSum(p, v, n) /\ PacketsOf(packet_buffer, s) = p[n]
  BY PacketsAreSummed
<1>4. PICK q : IsPrefixSum(q, u, m) /\ PacketsOf(b, s) = q[m]
  BY <1>1, PacketsAreSummed
<1>5. /\ \A i \in 1 .. n : v[i] = PacketsIn(s, packet_buffer[i]) /\ v[i] \in Int
      /\ \A i \in 1 .. m : u[i] = PacketsIn(s, b[i]) /\ u[i] \in Int
  <2>1. \A i \in 1 .. n : v[i] \in Int
    BY PacketsAreSummed
  <2>2. \A i \in 1 .. m : u[i] \in Int
    BY <1>1, PacketsAreSummed
  <2>. QED  BY <2>1, <2>2 DEF PacketsEach
<1>6. p[n] \in Int /\ q[m] \in Int
  <2>. HIDE DEF n, m, v, u
  <2>. QED  BY <1>2, <1>3, <1>4 DEF IsPrefixSum
<1>7. ASSUME NEW k, Again(b, arrival, k) PROVE q[m] - p[n] = one
  <2>1. m = n /\ k \in 1 .. n /\ \A i \in 1 .. n : i # k => b[i] = packet_buffer[i]
    BY <1>7 DEF Again
  <2>2. \A i \in 1 .. n : i # k => v[i] = u[i]
    BY <1>5, <2>1
  <2>3. u[k] - v[k] = one
    <3>1. /\ packet_buffer[k].time = arrival /\ packet_buffer[k].packets \in Int
          /\ b[k] = Item(arrival, packet_buffer[k].packets + 1)
      BY <1>2, <1>7 DEF Again, Pair
    <3>. QED  BY <1>5, <2>1, <3>1 DEF Item, PacketsIn
  <2>4. IsPrefixSum(q, u, n) /\ \A i \in 1 .. n : v[i] \in Int /\ u[i] \in Int
    BY <1>4, <1>5, <2>1
  <2>. HIDE DEF n, m, v, u, one
  <2>5. q[n] - p[n] = u[k] - v[k]
    BY <1>2, <1>3, <2>1, <2>2, <2>4, SumOfReplaced
  <2>. QED  BY <2>1, <2>3, <2>5
<1>8. ASSUME NEW k, Added(b, arrival, k) PROVE q[m] - p[n] = one
  <2>. DEFINE l == k + 1
  <2>1. /\ m = n + 1 /\ k \in 0 .. n /\ b[l] = Item(arrival, 1)
        /\ \A i \in 1 .. k : b[i] = packet_buffer[i]
        /\ \A i \in l .. n : b[i + 1] = packet_buffer[i]
    BY <1>8 DEF Added, IsInserted
  <2>2. l \in 1 .. m /\ \A i \in l .. n : i \in 1 .. n /\ i + 1 \in 1 .. m
    BY <1>2, <2>1
  <2>3. u[l] = one /\ u[l] \in Int
    BY <1>5, <2>1, <2>2 DEF Item, PacketsIn
  <2>4. \A i \in 1 .. k : v[i] = u[i]
    <3>1. \A i \in 1 .. k : i \in 1 .. n /\ i \in 1 .. m
      BY <1>2, <2>1
    <3>. QED  BY <1>5, <2>1, <3>1
  <2>5. \A i \in l .. n : v[i] = u[i + 1]
    BY <1>5, <2>1, <2>2
  <2>6. l = k + 1 /\ \A i \in 1 .. n : v[i] \in Int
    BY <1>5
  <2>. HIDE DEF n, m, v, u, one, l
  <2>7. q[m] - p[n] = u[l]
    <3>1. OneIsIn(v, n, k, u, m, l)
      BY <1>2, <2>1, <2>3, <2>4, <2>5, <2>6 DEF OneIsIn
    <3>. QED  BY <1>2, <1>3, <1>4, <3>1, SumOfInserted
  <2>. QED  BY <2>3, <2>7
<1>9. q[m] = p[n] + one
  <2>. HIDE DEF m, n
  <2>. QED  BY <1>1, <1>6, <1>7, <1>8
<1>. QED  BY <1>3, <1>4, <1>9 DEF b
-----------------------------------------------------------------------------
(* A push takes the front of the list and leaves the rest.                 *)
IsSplit(b, front, rest) ==
  /\ front \in Seq(Pair) /\ rest \in Seq(Pair)
  /\ Len(front) = UpdateSize /\ Len(b) = UpdateSize + Len(rest)
  /\ \A i \in 1 .. UpdateSize : front[i] = b[i]
  /\ \A i \in 1 .. Len(rest) : rest[i] = b[i + UpdateSize]

LEMMA SplitAtUpdateSize ==
  ASSUME NEW b \in Seq(Pair), IsFull(b)
  PROVE  IsSplit(b, SubSeq(b, 1, UpdateSize), SubSeq(b, UpdateSize + 1, Len(b)))
<1>. DEFINE front == SubSeq(b, 1, UpdateSize)
            rest == SubSeq(b, UpdateSize + 1, Len(b))
            n == Len(b)
<1>1. /\ UpdateSize \in Nat /\ UpdateSize >= 1 /\ UpdateSize <= n
      /\ n \in Nat /\ \A i \in 1 .. n : b[i] \in Pair
  BY UDPAssumption DEF IsFull
<1>2. /\ front \in Seq(Pair) /\ Len(front) = UpdateSize
      /\ \A i \in 1 .. UpdateSize : front[i] = b[i]
  <2>1. 1 \in Int /\ UpdateSize \in Int /\ \A i \in 1 .. UpdateSize : b[i] \in Pair
    BY <1>1
  <2>2. /\ front \in Seq(Pair)
        /\ Len(front) = IF 1 <= UpdateSize THEN UpdateSize - 1 + 1 ELSE 0
        /\ \A i \in 1 .. UpdateSize - 1 + 1 : front[i] = b[1 + i - 1]
    BY <2>1, SubSeqProperties
  <2>. HIDE DEF front
  <2>. QED  BY <1>1, <2>2
<1>3. /\ rest \in Seq(Pair) /\ n = UpdateSize + Len(rest)
      /\ \A i \in 1 .. Len(rest) : rest[i] = b[i + UpdateSize]
  <2>. DEFINE m == UpdateSize + 1
  <2>1. m \in Int /\ n \in Int /\ \A i \in m .. n : b[i] \in Pair
    BY <1>1
  <2>. HIDE DEF m
  <2>2. /\ SubSeq(b, m, n) \in Seq(Pair)
        /\ Len(SubSeq(b, m, n)) = IF m <= n THEN n - m + 1 ELSE 0
        /\ \A i \in 1 .. n - m + 1 : SubSeq(b, m, n)[i] = b[m + i - 1]
    BY <2>1, SubSeqProperties
  <2>3. rest = SubSeq(b, m, n)
    BY DEF m
  <2>. HIDE DEF rest, n
  <2>4. Len(rest) = n - UpdateSize
    BY <1>1, <2>2, <2>3 DEF m
  <2>5. \A i \in 1 .. Len(rest) : m + i - 1 = i + UpdateSize
    BY <1>1 DEF m
  <2>6. 1 .. Len(rest) = 1 .. n - m + 1
    BY <1>1, <2>4 DEF m
  <2>. QED  BY <1>1, <2>2, <2>3, <2>4, <2>5, <2>6
<1>. QED  BY <1>2, <1>3 DEF IsSplit

LEMMA ConcatenatedIs ==
  ASSUME NEW s \in Seq(Pair), NEW t \in Seq(Pair)
  PROVE  Both(s \o t, s, t)
<1>. DEFINE n == Len(s)
            m == Len(t)
            r == s \o t
<1>1. /\ r \in Seq(Pair) /\ Len(r) = n + m /\ n \in Nat /\ m \in Nat
      /\ \A i \in 1 .. n + m : r[i] = IF i <= n THEN s[i] ELSE t[i - n]
  BY ConcatProperties
<1>. HIDE DEF n, m, r
<1>2. \A i \in 1 .. n : r[i] = s[i]
  BY <1>1
<1>3. ASSUME NEW i \in 1 .. m PROVE r[i + n] = t[i]
  <2>1. i + n \in 1 .. n + m /\ ~ (i + n <= n) /\ (i + n) - n = i
    BY <1>1
  <2>. QED  BY <1>1, <2>1
<1>. QED  BY <1>1, <1>2, <1>3 DEF n, m, r, Both

(* What a packet leaves on the list and in the file.                       *)
Kept(b) == packet_buffer' = b /\ pushed' = pushed

Pushed(b, front) ==
  IsSplit(b, front, packet_buffer') /\ pushed' = pushed \o front

(* The list and the sum of the packets have their bounds: an update makes  *)
(* room for at least one second.                                           *)
ListInv ==
  /\ now \in Second /\ high \in Second
  /\ end_is_older \in BOOLEAN /\ steady \in BOOLEAN
  /\ packet_buffer \in Seq(Pair) /\ pushed \in Seq(Pair)
  /\ Len(packet_buffer) < BufferSize
  /\ count \in [Second -> Nat]
  /\ SumFunctionOnSet(count, Second) <= MaxPackets

LEMMA PacketIsKeptOrPushed ==
  ASSUME ListInv, DispatchPacket
  PROVE  LET b == Counted(now)
         IN  /\ b \in Seq(Pair) /\ Len(b) <= Len(packet_buffer) + 1
             /\ \/ Kept(b) /\ Len(b) < BufferSize
                \/ IsFull(b) /\ \E front : Pushed(b, front)
<1>. DEFINE b == Counted(now)
            n == Len(packet_buffer)
<1>1. /\ b \in Seq(Pair) /\ n \in Nat
      /\ (\E k : Again(b, now, k)) \/ (\E k : Added(b, now, k))
  BY CountedPacket DEF ListInv
<1>2. IF IsFull(b)
      THEN /\ pushed' = pushed \o SubSeq(b, 1, UpdateSize)
           /\ packet_buffer' = SubSeq(b, UpdateSize + 1, Len(b))
      ELSE packet_buffer' = b /\ pushed' = pushed
  BY DEF DispatchPacket
<1>. HIDE DEF b
<1>3. Len(b) <= n + 1
  BY <1>1 DEF Again, Added, IsInserted
<1>4. CASE IsFull(b)
  <2>1. IsSplit(b, SubSeq(b, 1, UpdateSize), packet_buffer')
    BY <1>1, <1>2, <1>4, SplitAtUpdateSize
  <2>. QED  BY <1>1, <1>2, <1>3, <1>4, <2>1 DEF Pushed, b
<1>5. CASE ~ IsFull(b)
  <2>1. Len(b) < BufferSize
    BY <1>1, <1>5, UDPAssumption DEF IsFull
  <2>. QED  BY <1>1, <1>2, <1>3, <1>5, <2>1 DEF Kept, b
<1>. QED  BY <1>4, <1>5

LEMMA SecondsAreFinite == IsFiniteSet(Second)
<1>1. 1 \in Int /\ MaxSecond \in Int
  BY UDPAssumption
<1>. QED  BY <1>1, FS_Interval DEF Second

LEMMA ListStep == ASSUME ListInv, [Next]_vars PROVE ListInv'
<1>. USE DEF ListInv
<1>1. CASE UNCHANGED vars
  BY <1>1 DEF vars
<1>2. CASE Tick
  <2>1. now' \in Second /\ high' \in Second
    BY <1>2, UDPAssumption DEF Tick, Second
  <2>. QED  BY <1>2, <2>1 DEF Tick
<1>3. CASE SetClockBack
  <2>1. now' \in Second
    BY <1>3, UDPAssumption DEF SetClockBack, Second
  <2>. QED  BY <1>3, <2>1 DEF SetClockBack
<1>4. CASE DispatchPacket
  <2>1. UNCHANGED <<end_is_older, now, high, steady>>
    BY <1>4 DEF DispatchPacket
  <2>2. /\ packet_buffer' \in Seq(Pair) /\ pushed' \in Seq(Pair)
        /\ Len(packet_buffer') < BufferSize
    <3>. DEFINE b == Counted(now)
    <3>1. /\ b \in Seq(Pair) /\ Len(b) <= Len(packet_buffer) + 1
          /\ \/ Kept(b) /\ Len(b) < BufferSize
             \/ IsFull(b) /\ \E front : Pushed(b, front)
      BY <1>4, PacketIsKeptOrPushed
    <3>. HIDE DEF b
    <3>2. CASE Kept(b) /\ Len(b) < BufferSize
      BY <3>1, <3>2 DEF Kept
    <3>3. ASSUME NEW front, Pushed(b, front)
          PROVE  /\ packet_buffer' \in Seq(Pair) /\ pushed' \in Seq(Pair)
                 /\ Len(packet_buffer') < BufferSize
      <4>1. /\ front \in Seq(Pair) /\ packet_buffer' \in Seq(Pair)
            /\ Len(b) = UpdateSize + Len(packet_buffer')
            /\ pushed' = pushed \o front
        BY <3>3 DEF Pushed, IsSplit
      <4>2. pushed' \in Seq(Pair)
        BY <4>1, ConcatProperties
      <4>. QED  BY <3>1, <4>1, <4>2, UDPAssumption
    <3>. QED  BY <3>1, <3>2, <3>3
  <2>3. count' \in [Second -> Nat] /\ SumFunctionOnSet(count', Second) <= MaxPackets
    <3>1. /\ count' = [count EXCEPT ![now] = @ + 1]
          /\ SumFunctionOnSet(count, Second) < MaxPackets
      <4>1. FoldFunctionOnSet(+, 0, count, Second) < MaxPackets
        BY <1>4, Zenon DEF DispatchPacket
      <4>2. count' = [count EXCEPT ![now] = @ + 1]
        BY <1>4, Zenon DEF DispatchPacket
      <4>3. SumFunctionOnSet(count, Second) = FoldFunctionOnSet(+, 0, count, Second)
        BY Zenon DEF SumFunctionOnSet
      <4>. QED  BY <4>1, <4>2, <4>3, Zenon
    <3>2. IsFiniteSet(Second) /\ \A s \in Second : count[s] \in Nat
      BY SecondsAreFinite
    <3>3. /\ count' \in [Second -> Nat] /\ count'[now] = count[now] + 1
          /\ \A s \in Second \ {now} : count'[s] = count[s]
      BY <3>1
    <3>4. SumFunctionOnSet(count', Second) = SumFunctionOnSet(count, Second) + 1
      BY <3>2, <3>3, SumOneMore
    <3>5. SumFunctionOnSet(count, Second) \in Nat
      BY <3>2, SumBounds
    <3>. QED  BY <3>1, <3>3, <3>4, <3>5, UDPAssumption
  <2>. QED  BY <2>1, <2>2, <2>3
<1>. QED  BY <1>1, <1>2, <1>3, <1>4 DEF Next

LEMMA ListInvariant == Spec => []ListInv
<1>1. Init => ListInv
  <2>. SUFFICES ASSUME Init PROVE ListInv
    OBVIOUS
  <2>. USE DEF Init
  <2>1. now \in Second /\ high \in Second
    BY UDPAssumption DEF Second
  <2>2. /\ packet_buffer \in Seq(Pair) /\ pushed \in Seq(Pair)
        /\ Len(packet_buffer) < BufferSize
    BY UDPAssumption
  <2>3. count \in [Second -> Nat] /\ \A s \in Second : count[s] = 0
    OBVIOUS
  <2>4. SumFunctionOnSet(count, Second) = 0
    BY <2>3, SecondsAreFinite, SumOfZeros
  <2>. QED  BY <2>1, <2>2, <2>3, <2>4, UDPAssumption DEF ListInv
<1>. QED  BY <1>1, ListStep, PTL DEF Spec
-----------------------------------------------------------------------------
(* A packet is counted once and a push moves packets to the file, so what  *)
(* the list and the file hold of a second changes with its count only.     *)
LEMMA PacketsStep ==
  ASSUME ListInv, PacketsConserved, [Next]_vars
  PROVE  PacketsConserved'
<1>1. CASE UNCHANGED <<packet_buffer, count, pushed>>
  BY <1>1, Zenon DEF PacketsConserved
<1>2. CASE DispatchPacket
  <2>. SUFFICES ASSUME NEW s \in Second
                PROVE  PacketsOf(packet_buffer', s) + PacketsOf(pushed', s) = count'[s]
    BY Zenon DEF PacketsConserved
  <2>. DEFINE b == Counted(now)
              one == IF s = now THEN 1 ELSE 0
  <2>1. /\ b \in Seq(Pair)
        /\ Kept(b) \/ \E front : Pushed(b, front)
    BY <1>2, PacketIsKeptOrPushed
  <2>2. PacketsOf(b, s) = PacketsOf(packet_buffer, s) + one
    <3>1. packet_buffer \in Seq(Pair) /\ now \in Second
      BY DEF ListInv
    <3>. QED  BY <3>1, PacketsOfCounted
  <2>3. count'[s] = count[s] + one
    <3>1. count' = [count EXCEPT ![now] = @ + 1]
      BY <1>2, Zenon DEF DispatchPacket
    <3>. QED  BY <3>1 DEF ListInv
  <2>4. /\ PacketsOf(packet_buffer, s) \in Nat /\ PacketsOf(pushed, s) \in Nat
        /\ PacketsOf(packet_buffer, s) + PacketsOf(pushed, s) = count[s]
    BY PacketsOfEach DEF ListInv, PacketsConserved
  <2>. HIDE DEF b
  <2>5. CASE Kept(b)
    BY <2>2, <2>3, <2>4, <2>5 DEF Kept
  <2>6. ASSUME NEW front, Pushed(b, front)
        PROVE  PacketsOf(packet_buffer', s) + PacketsOf(pushed', s) = count'[s]
    <3>. DEFINE rest == packet_buffer'
    <3>1. /\ Both(b, front, rest) /\ pushed \in Seq(Pair)
          /\ pushed' = pushed \o front
      BY <2>1, <2>6 DEF Pushed, IsSplit, Both, ListInv
    <3>. HIDE DEF rest
    <3>2. PacketsOf(b, s) = PacketsOf(front, s) + PacketsOf(rest, s)
      BY <3>1, PacketsOfBoth
    <3>3. PacketsOf(pushed', s) = PacketsOf(pushed, s) + PacketsOf(front, s)
      <4>1. Both(pushed', pushed, front)
        <5>1. front \in Seq(Pair)
          BY <3>1 DEF Both
        <5>. QED  BY <3>1, <5>1, ConcatenatedIs
      <4>. QED  BY <4>1, PacketsOfBoth
    <3>4. PacketsOf(front, s) \in Nat /\ PacketsOf(rest, s) \in Nat
      BY <3>1, PacketsOfEach DEF Both
    <3>. QED  BY <2>2, <2>3, <2>4, <3>2, <3>3, <3>4 DEF rest
  <2>. QED  BY <2>1, <2>5, <2>6
<1>3. CASE Tick \/ SetClockBack
  BY <1>1, <1>3 DEF Tick, SetClockBack
<1>4. CASE UNCHANGED vars
  BY <1>1, <1>4 DEF vars
<1>. QED  BY <1>2, <1>3, <1>4 DEF Next

(* Every packet is on the list or was pushed, once, under the second it    *)
(* was dispatched in (UDPRRD_Dispatcher.cpp:22-84), whatever the clock     *)
(* does, wherever a second is put and however many are pushed at a time.   *)
THEOREM PacketsAreConserved == Spec => []PacketsConserved
<1>1. Init => PacketsConserved
  <2>. SUFFICES ASSUME Init, NEW s \in Second
                PROVE  PacketsOf(packet_buffer, s) + PacketsOf(pushed, s) = count[s]
    BY Zenon DEF PacketsConserved
  <2>1. packet_buffer = << >> /\ pushed = << >> /\ count[s] = 0
    BY DEF Init
  <2>. QED  BY <2>1, PacketsOfNone
<1>. QED  BY <1>1, PacketsStep, ListInvariant, PTL DEF Spec

(* Type correctness: a second on the list or in the file has a packet and  *)
(* no more than were dispatched, and a push keeps the list below its size  *)
(* (UDPRRD_Dispatcher.cpp:66-84).                                          *)
THEOREM UDPTypeCorrect == Spec => []TypeOK
<1>. DEFINE Typed == [time : Second, packets : 1 .. MaxPackets]
<1>1. ASSUME ListInv, PacketsConserved PROVE TypeOK
  <2>1. ASSUME NEW items \in Seq(Pair),
               \A s \in Second : PacketsOf(items, s) <= count[s]
        PROVE  items \in Seq(Typed)
    <3>1. ASSUME NEW i \in 1 .. Len(items) PROVE items[i] \in Typed
      <4>. DEFINE s == items[i].time
      <4>1. items[i] \in Pair
        OBVIOUS
      <4>2. s \in Second /\ items[i].packets \in Nat \ {0}
        BY <4>1 DEF Pair
      <4>3. items[i].packets <= PacketsOf(items, s) /\ PacketsOf(items, s) \in Nat
        BY PacketsOfEach DEF PacketsIn
      <4>4. count[s] \in Nat /\ count[s] <= MaxPackets
        <5>1. \A r \in Second : count[r] \in Nat
          BY <1>1 DEF ListInv
        <5>2. /\ SumFunctionOnSet(count, Second) \in Nat
              /\ \A r \in Second : count[r] <= SumFunctionOnSet(count, Second)
          BY <5>1, SecondsAreFinite, SumBounds
        <5>3. SumFunctionOnSet(count, Second) <= MaxPackets
          BY <1>1 DEF ListInv
        <5>. HIDE DEF s
        <5>. QED  BY <4>2, <5>1, <5>2, <5>3, UDPAssumption
      <4>5. items[i].packets \in 1 .. MaxPackets
        <5>1. PacketsOf(items, s) <= count[s]
          BY <2>1, <4>2
        <5>. HIDE DEF s
        <5>. QED  BY <4>2, <4>3, <4>4, <5>1, UDPAssumption
      <4>. QED  BY <4>1, <4>2, <4>5 DEF Pair
    <3>. HIDE DEF Typed
    <3>. QED  BY <3>1
  <2>2. ASSUME NEW s \in Second
        PROVE  PacketsOf(packet_buffer, s) <= count[s] /\ PacketsOf(pushed, s) <= count[s]
    <3>1. PacketsOf(packet_buffer, s) \in Nat /\ PacketsOf(pushed, s) \in Nat
      BY <1>1, PacketsOfEach DEF ListInv
    <3>2. PacketsOf(packet_buffer, s) + PacketsOf(pushed, s) = count[s]
      BY <1>1 DEF PacketsConserved
    <3>. QED  BY <3>1, <3>2
  <2>3. packet_buffer \in Seq(Typed) /\ pushed \in Seq(Typed)
    <3>1. packet_buffer \in Seq(Pair) /\ pushed \in Seq(Pair)
      BY <1>1 DEF ListInv
    <3>. HIDE DEF Typed
    <3>. QED  BY <2>1, <2>2, <3>1
  <2>. QED  BY <1>1, <2>3 DEF ListInv, TypeOK
<1>. QED  BY <1>1, ListInvariant, PacketsAreConserved, PTL
-----------------------------------------------------------------------------
LEMMA SecondsAreIntegers ==
  /\ \A s \in Second : s \in Int
  /\ \A items \in Seq(Pair) : \A i \in 1 .. Len(items) :
       items[i].time \in Second /\ items[i].time \in Int
<1>1. \A s \in Second : s \in Int
  BY UDPAssumption DEF Second
<1>2. ASSUME NEW items \in Seq(Pair), NEW i \in 1 .. Len(items)
      PROVE  items[i].time \in Second
  <2>1. items[i] \in Pair
    OBVIOUS
  <2>. QED  BY <2>1 DEF Pair
<1>. QED  BY <1>1, <1>2

(* Of sequences of pairs: one in order, one whose seconds come before      *)
(* those of another.                                                       *)
InOrder(s) == \A i, j \in 1 .. Len(s) : i < j => s[i].time < s[j].time

Before(s, t) ==
  \A i \in 1 .. Len(s), j \in 1 .. Len(t) : s[i].time < t[j].time

(* Why the list stays in order: the clock shows no second older than those *)
(* on the list, so that a packet meets the last of them or comes after it. *)
OrderInv ==
  /\ steady => now = high
  /\ Orderly => /\ InOrder(packet_buffer)
                /\ \A i \in 1 .. Len(packet_buffer) : packet_buffer[i].time <= now

(* The list with one more packet of the second now.                        *)
Extended(b, m) ==
  LET n == Len(packet_buffer)
  IN  /\ m \in 1 .. n + 1 /\ Len(b) = m /\ b[m].time = now
      /\ \A i \in 1 .. m - 1 : b[i] = packet_buffer[i]
      /\ \/ /\ m = n /\ packet_buffer[m].time = now
            /\ b[m].packets = packet_buffer[m].packets + 1
         \/ m = n + 1 /\ NotThere(now) /\ b[m].packets = 1

LEMMA LastSecond ==
  ASSUME ListInv, OrderInv, Orderly
  PROVE  \E m : Extended(Counted(now), m)
<1>. DEFINE b == Counted(now)
            n == Len(packet_buffer)
            older == {j \in 2 .. n : now > packet_buffer[j].time}
<1>1. /\ packet_buffer \in Seq(Pair) /\ now \in Second /\ now \in Int
      /\ n \in Nat /\ \A i \in 1 .. n : packet_buffer[i].time \in Int
  BY SecondsAreIntegers DEF ListInv
<1>2. /\ InOrder(packet_buffer) /\ ~ end_is_older
      /\ \A i \in 1 .. n : packet_buffer[i].time <= now
  BY DEF OrderInv, Orderly
<1>3. /\ b \in Seq(Pair)
      /\ \/ \E k : Again(b, now, k)
         \/ NotThere(now) /\ Added(b, now, Location(now))
  BY <1>1, CountedPacket
<1>. HIDE DEF b
<1>4. ASSUME NEW k, Again(b, now, k) PROVE Extended(b, k)
  <2>1. /\ k \in 1 .. n /\ packet_buffer[k].time = now /\ Len(b) = n
        /\ b[k] = Item(now, packet_buffer[k].packets + 1)
        /\ \A i \in 1 .. n : i # k => b[i] = packet_buffer[i]
    BY <1>4 DEF Again
  <2>2. k = n
    <3>1. ~ (k < n)
      <4>1. k < n => packet_buffer[k].time < packet_buffer[n].time
        BY <1>1, <1>2, <2>1 DEF InOrder
      <4>2. packet_buffer[n].time <= now /\ packet_buffer[n].time \in Int
        BY <1>1, <1>2, <2>1
      <4>. QED  BY <1>1, <2>1, <4>1, <4>2
    <3>. QED  BY <1>1, <2>1, <3>1
  <2>3. b[k].time = now /\ b[k].packets = packet_buffer[k].packets + 1
    BY <2>1 DEF Item
  <2>. QED  BY <1>1, <2>1, <2>2, <2>3 DEF Extended
<1>5. ASSUME NotThere(now), Added(b, now, Location(now))
      PROVE  Extended(b, n + 1)
  <2>1. Location(now) = n
    <3>1. CASE n >= 2
      <4>1. packet_buffer[n].time # now /\ packet_buffer[n].time <= now
        BY <1>1, <1>2, <1>5, <3>1 DEF NotThere
      <4>2. n \in older /\ older \subseteq 0 .. n
        BY <1>1, <3>1, <4>1
      <4>3. Max(older) = n
        <5>1. Max(older) \in older /\ n <= Max(older)
          <6>. HIDE DEF older, n
          <6>. QED  BY <1>1, <4>2, GreatestOf
        <5>. DEFINE x == Max(older)
        <5>2. x \in 0 .. n /\ n <= x
          BY <4>2, <5>1
        <5>. HIDE DEF x
        <5>3. x = n
          BY <1>1, <5>2
        <5>. QED  BY <5>3 DEF x
      <4>4. Location(now) = Max(older)
        BY <1>2, <3>1, <4>2 DEF Location
      <4>. QED  BY <4>3, <4>4
    <3>2. CASE ~ (n >= 2)
      <4>1. older = {} /\ n \in {0, 1}
        <5>1. n = 0 \/ n = 1
          <6>. HIDE DEF n
          <6>. QED  BY <1>1, <3>2
        <5>2. 2 .. n = {}
          <6>. HIDE DEF n
          <6>. QED  BY <5>1
        <5>. QED  BY <5>1, <5>2
      <4>. QED  BY <1>2, <4>1 DEF Location
    <3>. QED  BY <3>1, <3>2
  <2>2. /\ Len(b) = n + 1 /\ b[n + 1] = Item(now, 1)
        /\ \A i \in 1 .. n : b[i] = packet_buffer[i]
    BY <1>5, <2>1 DEF Added, IsInserted
  <2>3. b[n + 1].time = now /\ b[n + 1].packets = 1
    BY <2>2 DEF Item
  <2>. QED  BY <1>1, <1>5, <2>2, <2>3 DEF Extended
<1>. QED  BY <1>3, <1>4, <1>5 DEF b

LEMMA StaysInOrder ==
  ASSUME ListInv, OrderInv, Orderly, NEW b, NEW m, Extended(b, m)
  PROVE  InOrder(b) /\ \A i \in 1 .. m - 1 : b[i].time < now
<1>. DEFINE n == Len(packet_buffer)
<1>1. /\ now \in Int /\ n \in Nat
      /\ \A i \in 1 .. n : packet_buffer[i].time \in Int
  BY SecondsAreIntegers DEF ListInv
<1>2. /\ \A i, j \in 1 .. n : i < j => packet_buffer[i].time < packet_buffer[j].time
      /\ \A i \in 1 .. n : packet_buffer[i].time <= now
  BY DEF OrderInv, InOrder
<1>3. /\ m \in 1 .. n + 1 /\ Len(b) = m /\ b[m].time = now
      /\ \A i \in 1 .. m - 1 : b[i] = packet_buffer[i]
      /\ \/ m = n /\ packet_buffer[m].time = now
         \/ m = n + 1 /\ NotThere(now)
  BY DEF Extended
<1>. HIDE DEF n
<1>4. ASSUME NEW i \in 1 .. m - 1
      PROVE  i \in 1 .. n /\ b[i].time = packet_buffer[i].time /\ b[i].time < now
  <2>1. i \in 1 .. n /\ b[i] = packet_buffer[i]
    BY <1>1, <1>3
  <2>2. packet_buffer[i].time <= now /\ packet_buffer[i].time \in Int
    BY <1>1, <1>2, <2>1
  <2>3. packet_buffer[i].time # now
    <3>1. CASE m = n /\ packet_buffer[m].time = now
      BY <1>1, <1>2, <1>3, <2>1, <3>1
    <3>2. CASE NotThere(now)
      BY <2>1, <3>2 DEF NotThere, n
    <3>. QED  BY <1>3, <3>1, <3>2
  <2>. QED  BY <1>1, <2>1, <2>2, <2>3
<1>5. ASSUME NEW i \in 1 .. m, NEW j \in 1 .. m, i < j
      PROVE  b[i].time < b[j].time
  <2>1. i \in 1 .. m - 1
    BY <1>1, <1>3, <1>5
  <2>2. CASE j = m
    BY <1>3, <1>4, <2>1, <2>2
  <2>3. CASE j \in 1 .. m - 1
    BY <1>2, <1>4, <1>5, <2>1, <2>3
  <2>. QED  BY <1>1, <1>3, <2>2, <2>3
<1>. QED  BY <1>3, <1>4, <1>5 DEF InOrder

LEMMA OrderStep ==
  ASSUME ListInv, OrderInv, [Next]_vars
  PROVE  OrderInv'
<1>1. CASE UNCHANGED vars
  BY <1>1, Zenon DEF vars, OrderInv, Orderly
<1>2. CASE Tick
  <2>1. /\ now' = now + 1 /\ high' = (IF now' > high THEN now' ELSE high)
        /\ now \in Int /\ high \in Int
        /\ UNCHANGED <<end_is_older, packet_buffer, steady>>
    BY <1>2, SecondsAreIntegers DEF Tick, ListInv
  <2>2. \A i \in 1 .. Len(packet_buffer) : packet_buffer[i].time \in Int
    BY SecondsAreIntegers DEF ListInv
  <2>. QED  BY <2>1, <2>2 DEF OrderInv, Orderly, InOrder
<1>3. CASE SetClockBack
  BY <1>3 DEF SetClockBack, OrderInv, Orderly
<1>4. CASE DispatchPacket
  <2>1. UNCHANGED <<end_is_older, now, high, steady>>
    BY <1>4, Zenon DEF DispatchPacket
  <2>2. ASSUME Orderly
        PROVE  /\ InOrder(packet_buffer')
               /\ \A i \in 1 .. Len(packet_buffer') : packet_buffer'[i].time <= now
    <3>. DEFINE b == Counted(now)
    <3>1. /\ b \in Seq(Pair)
          /\ Kept(b) \/ \E front : Pushed(b, front)
      BY <1>4, PacketIsKeptOrPushed
    <3>2. PICK m : Extended(b, m)
      BY <2>2, LastSecond
    <3>. HIDE DEF b
    <3>3. InOrder(b) /\ \A i \in 1 .. m - 1 : b[i].time < now
      BY <2>2, <3>2, StaysInOrder
    <3>4. now \in Int /\ Len(b) = m /\ b[m].time = now
      BY <3>2, SecondsAreIntegers DEF Extended, ListInv
    <3>5. \A i \in 1 .. Len(b) : b[i].time <= now
      <4>1. \A i \in 1 .. Len(b) : b[i].time \in Int
        BY <3>1, SecondsAreIntegers
      <4>. QED  BY <3>2, <3>3, <3>4, <4>1 DEF Extended
    <3>6. CASE Kept(b)
      BY <3>3, <3>5, <3>6 DEF Kept
    <3>7. ASSUME NEW front, Pushed(b, front)
          PROVE  /\ InOrder(packet_buffer')
                 /\ \A i \in 1 .. Len(packet_buffer') : packet_buffer'[i].time <= now
      <4>. DEFINE rest == packet_buffer'
      <4>1. /\ Len(b) = UpdateSize + Len(rest) /\ Len(rest) \in Nat
            /\ UpdateSize \in Nat
            /\ \A i \in 1 .. Len(rest) : rest[i] = b[i + UpdateSize]
        BY <3>7, UDPAssumption DEF Pushed, IsSplit
      <4>2. \A i \in 1 .. Len(rest) : i + UpdateSize \in 1 .. Len(b)
        BY <4>1
      <4>. HIDE DEF rest
      <4>3. \A i, j \in 1 .. Len(rest) : i < j => i + UpdateSize < j + UpdateSize
        BY <4>1
      <4>4. InOrder(rest)
        BY <3>3, <4>1, <4>2, <4>3 DEF InOrder
      <4>5. \A i \in 1 .. Len(rest) : rest[i].time <= now
        BY <3>5, <4>1, <4>2
      <4>. QED  BY <4>4, <4>5 DEF rest
    <3>. QED  BY <3>1, <3>6, <3>7
  <2>. QED  BY <2>1, <2>2 DEF OrderInv, Orderly
<1>. QED  BY <1>1, <1>2, <1>3, <1>4 DEF Next

LEMMA OrderInvariant == Spec => []OrderInv
<1>1. Init => OrderInv
  BY DEF Init, OrderInv, InOrder
<1>. QED  BY <1>1, OrderStep, ListInvariant, PTL DEF Spec

(* "Otherwise, add in order the element" (UDPRRD_Dispatcher.cpp:45-63):    *)
(* while the clock is not set back the list is in order, although the      *)
(* search for the place skips the first second.                            *)
THEOREM ListIsInOrder == Spec => []BufferInOrder
<1>1. ListInv /\ OrderInv => BufferInOrder
  BY DEF ListInv, OrderInv, BufferInOrder, InOrder
<1>. QED  BY <1>1, ListInvariant, OrderInvariant, PTL
-----------------------------------------------------------------------------
(* Why what is pushed is final: it is older than the clock and than all of *)
(* the list, the second of the clock stays on the list, and the pairs have *)
(* the counts of their seconds.                                            *)
Counts(s) == \A i \in 1 .. Len(s) : s[i].packets = count[s[i].time]

IsThere(second) ==
  \E i \in 1 .. Len(packet_buffer) : packet_buffer[i].time = second

FinalInv ==
  Orderly =>
    /\ InOrder(pushed) /\ Before(pushed, packet_buffer)
    /\ \A i \in 1 .. Len(pushed) : pushed[i].time < now
    /\ Counts(packet_buffer) /\ Counts(pushed)
    /\ \A s \in Second : s > now => count[s] = 0
    /\ count[now] = 0 \/ IsThere(now)

(* With a packet more, before a push: the same holds of b.                 *)
Follows(b) ==
  /\ InOrder(b) /\ InOrder(pushed) /\ Before(pushed, b)
  /\ \A i \in 1 .. Len(b) : b[i].packets = count'[b[i].time]
  /\ \A i \in 1 .. Len(pushed) : pushed[i].packets = count'[pushed[i].time]

LEMMA PacketFollows ==
  ASSUME ListInv, OrderInv, FinalInv, Orderly, DispatchPacket,
         NEW b, NEW m, Extended(b, m)
  PROVE  Follows(b)
<1>. DEFINE n == Len(packet_buffer)
<1>1. /\ InOrder(b)
      /\ \A i \in 1 .. m - 1 : b[i].time < now
  BY StaysInOrder
<1>2. /\ n \in Nat /\ m \in 1 .. n + 1 /\ Len(b) = m /\ b[m].time = now
      /\ \A i \in 1 .. m - 1 : b[i] = packet_buffer[i] /\ i \in 1 .. n
  BY DEF Extended, ListInv
<1>3. /\ now \in Second /\ now \in Int /\ count \in [Second -> Nat]
      /\ \A i \in 1 .. n : packet_buffer[i].time \in Second
      /\ \A i \in 1 .. n : packet_buffer[i].time \in Int
      /\ \A i \in 1 .. Len(pushed) : pushed[i].time \in Second
      /\ \A i \in 1 .. Len(pushed) : pushed[i].time \in Int
  BY SecondsAreIntegers DEF ListInv
<1>4. /\ \A i \in 1 .. n : packet_buffer[i].packets = count[packet_buffer[i].time]
      /\ \A i \in 1 .. Len(pushed) : pushed[i].packets = count[pushed[i].time]
      /\ \A i \in 1 .. Len(pushed) : pushed[i].time < now
      /\ InOrder(pushed) /\ Before(pushed, packet_buffer)
      /\ count[now] = 0 \/ IsThere(now)
  BY DEF FinalInv, Counts
<1>5. count' = [count EXCEPT ![now] = @ + 1]
  BY Zenon DEF DispatchPacket
<1>6. /\ count'[now] = count[now] + 1
      /\ \A s \in Second : s < now => count'[s] = count[s]
  BY <1>3, <1>5
<1>7. b[m].packets = count'[now]
  <2>1. CASE NotThere(now) /\ b[m].packets = 1
    <3>1. ~ IsThere(now)
      BY <2>1 DEF NotThere, IsThere
    <3>. QED  BY <1>4, <1>6, <2>1, <3>1
  <2>2. CASE /\ m = n /\ packet_buffer[m].time = now
             /\ b[m].packets = packet_buffer[m].packets + 1
    <3>1. packet_buffer[m].packets = count[now]
      BY <1>2, <1>4, <2>2
    <3>. QED  BY <1>6, <2>2, <3>1
  <2>. QED  BY <2>1, <2>2 DEF Extended
<1>8. ASSUME NEW i \in 1 .. m - 1
      PROVE  b[i].packets = count'[b[i].time] /\ b[i].time = packet_buffer[i].time
  <2>1. b[i] = packet_buffer[i] /\ i \in 1 .. n /\ b[i].time < now
    BY <1>1, <1>2
  <2>2. b[i].time \in Second /\ b[i].packets = count[b[i].time]
    BY <1>3, <1>4, <2>1
  <2>. QED  BY <1>6, <2>1, <2>2
<1>9. \A i \in 1 .. m : i = m \/ i \in 1 .. m - 1
  BY <1>2
<1>10. \A i \in 1 .. Len(b) : b[i].packets = count'[b[i].time]
  BY <1>2, <1>7, <1>8, <1>9
<1>11. Before(pushed, b)
  BY <1>2, <1>4, <1>8, <1>9 DEF Before
<1>12. \A i \in 1 .. Len(pushed) : pushed[i].packets = count'[pushed[i].time]
  BY <1>3, <1>4, <1>6
<1>. QED  BY <1>1, <1>4, <1>10, <1>11, <1>12 DEF Follows

(* What FinalInv says of the list and the file after a push.               *)
LEMMA FollowsWhenPushed ==
  ASSUME ListInv, NEW b \in Seq(Pair), Follows(b), IsFull(b),
         UpdateSize < BufferSize, NEW front, Pushed(b, front),
         b[Len(b)].time = now
  PROVE  /\ InOrder(pushed') /\ Before(pushed', packet_buffer')
         /\ \A i \in 1 .. Len(packet_buffer') :
              packet_buffer'[i].packets = count'[packet_buffer'[i].time]
         /\ \A i \in 1 .. Len(pushed') :
              pushed'[i].packets = count'[pushed'[i].time] /\ pushed'[i].time < now
         /\ \E i \in 1 .. Len(packet_buffer') : packet_buffer'[i].time = now
<1>. DEFINE rest == packet_buffer'
            file == pushed'
            n == Len(pushed)
            l == Len(rest)
            u == UpdateSize
<1>1. /\ u \in Nat /\ u >= 1 /\ u < Len(b) /\ Len(b) \in Nat
      /\ front \in Seq(Pair) /\ rest \in Seq(Pair)
      /\ Len(front) = u /\ Len(b) = u + l /\ l \in Nat
      /\ \A i \in 1 .. u : front[i] = b[i]
      /\ \A i \in 1 .. l : rest[i] = b[i + u]
      /\ file = pushed \o front
  BY UDPAssumption DEF Pushed, IsSplit, IsFull
<1>2. /\ Len(file) = n + u /\ n \in Nat
      /\ \A i \in 1 .. n : file[i] = pushed[i]
      /\ \A i \in 1 .. u : file[i + n] = b[i]
  <2>1. Both(file, pushed, front)
    BY <1>1, ConcatenatedIs DEF ListInv
  <2>. HIDE DEF u, file, rest, l
  <2>. QED  BY <1>1, <2>1 DEF Both
<1>3. /\ \A i, j \in 1 .. Len(b) : i < j => b[i].time < b[j].time
      /\ \A i \in 1 .. n, j \in 1 .. Len(b) : pushed[i].time < b[j].time
      /\ \A i, j \in 1 .. n : i < j => pushed[i].time < pushed[j].time
      /\ \A i \in 1 .. Len(b) : b[i].packets = count'[b[i].time]
      /\ \A i \in 1 .. n : pushed[i].packets = count'[pushed[i].time]
  BY DEF Follows, InOrder, Before
<1>. HIDE DEF n, u, l, rest, file
<1>4. ASSUME NEW k \in 1 .. n + u
      PROVE  \/ k \in 1 .. n /\ file[k] = pushed[k]
             \/ k > n /\ k - n \in 1 .. u /\ file[k] = b[k - n]
  <2>1. CASE k <= n
    BY <1>1, <1>2, <2>1
  <2>2. CASE k > n
    <3>1. k - n \in 1 .. u /\ (k - n) + n = k
      BY <1>1, <1>2, <2>2
    <3>. QED  BY <1>2, <2>2, <3>1
  <2>. QED  BY <1>1, <1>2, <2>1, <2>2
<1>5. \A i \in 1 .. u : i \in 1 .. Len(b)
  BY <1>1
<1>6. \A i \in 1 .. l : i + u \in 1 .. Len(b) /\ \A j \in 1 .. u : j < i + u
  BY <1>1
<1>7. ASSUME NEW i \in 1 .. n + u, NEW j \in 1 .. n + u, i < j
      PROVE  file[i].time < file[j].time
  <2>1. CASE j \in 1 .. n
    <3>1. i \in 1 .. n
      BY <1>1, <1>2, <1>7, <2>1
    <3>. QED  BY <1>2, <1>3, <1>7, <2>1, <3>1
  <2>2. CASE j > n /\ j - n \in 1 .. u /\ file[j] = b[j - n]
    <3>1. CASE i \in 1 .. n /\ file[i] = pushed[i]
      BY <1>3, <1>5, <2>2, <3>1
    <3>2. CASE i > n /\ i - n \in 1 .. u /\ file[i] = b[i - n]
      <4>1. i - n < j - n
        BY <1>1, <1>2, <1>7
      <4>. QED  BY <1>3, <1>5, <2>2, <3>2, <4>1
    <3>. QED  BY <1>4, <3>1, <3>2
  <2>. QED  BY <1>4, <2>1, <2>2
<1>8. ASSUME NEW k \in 1 .. n + u, NEW i \in 1 .. l
      PROVE  file[k].time < rest[i].time
  BY <1>1, <1>3, <1>4, <1>5, <1>6
<1>9. \A k \in 1 .. n + u : file[k].packets = count'[file[k].time]
  BY <1>3, <1>4, <1>5
<1>10. \A i \in 1 .. l : rest[i].packets = count'[rest[i].time]
  BY <1>1, <1>3, <1>6
<1>11. l \in 1 .. l /\ rest[l].time = now
  <2>1. l \in 1 .. l /\ l + u = Len(b)
    BY <1>1
  <2>. QED  BY <1>1, <2>1
<1>12. \A k \in 1 .. n + u : file[k].time < now
  BY <1>8, <1>11
<1>13. /\ InOrder(file) /\ Before(file, rest)
  BY <1>2, <1>7, <1>8 DEF InOrder, Before, l
<1>14. \A k \in 1 .. Len(file) : file[k].packets = count'[file[k].time] /\ file[k].time < now
  BY <1>2, <1>9, <1>12
<1>. QED  BY <1>10, <1>11, <1>13, <1>14 DEF l, rest, file

LEMMA FinalStep ==
  ASSUME UpdateSize < BufferSize, ListInv, OrderInv, FinalInv, [Next]_vars
  PROVE  FinalInv'
<1>1. CASE UNCHANGED vars
  <2>1. UNCHANGED <<end_is_older, now, packet_buffer, steady, count, pushed>>
    BY <1>1 DEF vars
  <2>. QED  BY <2>1, Zenon
            DEF FinalInv, Orderly, InOrder, Before, Counts, IsThere
<1>2. CASE Tick
  <2>. SUFFICES ASSUME Orderly' PROVE FinalInv'
    BY DEF FinalInv
  <2>1. /\ now' = now + 1 /\ now' \in Second
        /\ UNCHANGED <<end_is_older, packet_buffer, steady, count, pushed>>
        /\ now \in Int /\ \A s \in Second : s \in Int
        /\ \A i \in 1 .. Len(pushed) : pushed[i].time \in Int
    <3>1. now' \in Second
      BY <1>2, UDPAssumption DEF Tick, ListInv, Second
    <3>. QED  BY <1>2, <3>1, SecondsAreIntegers DEF Tick, ListInv
  <2>2. /\ InOrder(pushed) /\ Before(pushed, packet_buffer)
        /\ \A i \in 1 .. Len(pushed) : pushed[i].time < now
        /\ Counts(packet_buffer) /\ Counts(pushed)
        /\ \A s \in Second : s > now => count[s] = 0
    BY <2>1 DEF FinalInv, Orderly
  <2>3. /\ InOrder(pushed') /\ Before(pushed', packet_buffer')
        /\ Counts(packet_buffer)' /\ Counts(pushed)'
    BY <2>1, <2>2 DEF InOrder, Before, Counts
  <2>4. \A i \in 1 .. Len(pushed') : pushed'[i].time < now'
    BY <2>1, <2>2
  <2>5. /\ \A s \in Second : s > now' => count'[s] = 0
        /\ count'[now'] = 0
    BY <2>1, <2>2
  <2>. QED  BY <2>3, <2>4, <2>5 DEF FinalInv
<1>3. CASE SetClockBack
  BY <1>3 DEF SetClockBack, FinalInv, Orderly
<1>4. CASE DispatchPacket
  <2>. SUFFICES ASSUME Orderly PROVE FinalInv'
    <3>1. UNCHANGED <<end_is_older, steady>>
      BY <1>4, Zenon DEF DispatchPacket
    <3>. QED  BY <3>1 DEF FinalInv, Orderly
  <2>1. /\ UNCHANGED <<end_is_older, now, steady>>
        /\ count' = [count EXCEPT ![now] = @ + 1]
    BY <1>4, Zenon DEF DispatchPacket
  <2>. DEFINE b == Counted(now)
  <2>2. /\ b \in Seq(Pair)
        /\ Kept(b) \/ (IsFull(b) /\ \E front : Pushed(b, front))
    BY <1>4, PacketIsKeptOrPushed
  <2>3. PICK m : Extended(b, m)
    BY LastSecond
  <2>. HIDE DEF b
  <2>4. Follows(b)
    BY <1>4, <2>3, PacketFollows
  <2>5. /\ Len(b) \in 1 .. Len(b) /\ b[Len(b)].time = now
    BY <2>2, <2>3 DEF Extended, ListInv
  <2>6. \A s \in Second : s > now' => count'[s] = 0
    <3>1. \A s \in Second : s > now => count[s] = 0
      BY DEF FinalInv
    <3>2. now \in Int /\ count \in [Second -> Nat] /\ \A s \in Second : s \in Int
      BY SecondsAreIntegers DEF ListInv
    <3>. QED  BY <2>1, <3>1, <3>2
  <2>7. /\ InOrder(pushed') /\ Before(pushed', packet_buffer')
        /\ \A i \in 1 .. Len(packet_buffer') :
             packet_buffer'[i].packets = count'[packet_buffer'[i].time]
        /\ \A i \in 1 .. Len(pushed') :
             pushed'[i].packets = count'[pushed'[i].time] /\ pushed'[i].time < now
        /\ \E i \in 1 .. Len(packet_buffer') : packet_buffer'[i].time = now
    <3>1. CASE Kept(b)
      <4>1. packet_buffer' = b /\ pushed' = pushed
        BY <3>1 DEF Kept
      <4>2. \A i \in 1 .. Len(pushed) : pushed[i].time < now
        BY DEF FinalInv
      <4>. QED  BY <2>4, <2>5, <4>1, <4>2 DEF Follows
    <3>2. ASSUME NEW front, IsFull(b), Pushed(b, front)
          PROVE  /\ InOrder(pushed') /\ Before(pushed', packet_buffer')
                 /\ \A i \in 1 .. Len(packet_buffer') :
                      packet_buffer'[i].packets = count'[packet_buffer'[i].time]
                 /\ \A i \in 1 .. Len(pushed') :
                      /\ pushed'[i].packets = count'[pushed'[i].time]
                      /\ pushed'[i].time < now
                 /\ \E i \in 1 .. Len(packet_buffer') :
                      packet_buffer'[i].time = now
      BY <2>2, <2>4, <2>5, <3>2, FollowsWhenPushed
    <3>. QED  BY <2>2, <3>1, <3>2
  <2>. QED  BY <2>1, <2>6, <2>7 DEF FinalInv, Counts, IsThere
<1>. QED  BY <1>1, <1>2, <1>3, <1>4 DEF Next

(* "Post when second is higher than before" (UDPRRD_Dispatcher.cpp:33-35): *)
(* while the clock is not set back, seconds are pushed in order, and after *)
(* their last packet was counted.  Where a push emptied the list it would  *)
(* take the second of the clock with it, so that it has to be longer.      *)
THEOREM PushesAreFinal ==
  ASSUME UpdateSize < BufferSize
  PROVE  Spec => []PushedIsFinal
<1>1. Init => FinalInv
  <2>. SUFFICES ASSUME Init PROVE FinalInv
    OBVIOUS
  <2>1. /\ packet_buffer = << >> /\ pushed = << >> /\ now = 1
        /\ \A s \in Second : count[s] = 0
    BY DEF Init
  <2>2. now \in Second
    BY <2>1, UDPAssumption DEF Second
  <2>. QED  BY <2>1, <2>2 DEF FinalInv, InOrder, Before, Counts
<1>2. ListInv /\ FinalInv => PushedIsFinal
  <2>. SUFFICES ASSUME ListInv, FinalInv, Orderly
                PROVE  /\ \A i, j \in DOMAIN pushed :
                            i < j => pushed[i].time < pushed[j].time
                       /\ \A i \in DOMAIN pushed :
                            pushed[i].packets = count[pushed[i].time]
    BY DEF PushedIsFinal
  <2>1. DOMAIN pushed = 1 .. Len(pushed)
    BY DEF ListInv
  <2>2. InOrder(pushed) /\ Counts(pushed)
    BY DEF FinalInv
  <2>. QED  BY <2>1, <2>2 DEF InOrder, Counts
<1>. QED  BY <1>1, <1>2, FinalStep, ListInvariant, OrderInvariant, PTL DEF Spec
=============================================================================
