-------------------- MODULE MEPSQL_QuickDispatcherProofs --------------------
(* Theorems about the row-per-gap dispatcher: any number of destinations,  *)
(* any width of the int and any loss of the network below half its range.  *)
EXTENDS MEPSQL_QuickDispatcher, FoldLemmas, SequenceTheorems, TLAPS

Row == [ip : Ip, lost_no : Int32]

(* The devices' numbers are ints, and so are the differences.              *)
NumbersInv ==
  /\ sent \in [Ip -> Int32]
  /\ DOMAIN seqnos \subseteq Ip
  /\ \A ip \in DOMAIN seqnos : seqnos[ip] \in Int32

(* Why RowsAreFirstInserts is inductive: the next id is the next free one, *)
(* until there is a row for each.                                          *)
RowsInv ==
  /\ inserts \in Seq(Row)
  /\ current_id \in 1 .. MaxId - 1
  /\ DOMAIN table \subseteq 1 .. MaxId - 1
  /\ Len(inserts) < MaxId - 1 => current_id = Len(inserts) + 1
  /\ DOMAIN table = (1 .. Len(inserts)) \cap (1 .. MaxId - 1)
  /\ \A i \in DOMAIN table : table[i] = inserts[i]

LEMMA WrapOfSum ==
  ASSUME NEW m \in Int32, NEW n \in Int32
  PROVE  Wrap(m - n) \in Int32
BY IntAssumption DEF Wrap, Int32

LEMMA WrapOfNext ==
  ASSUME NEW m \in Int32, NEW k \in 0 .. MaxSkip
  PROVE  Wrap(m + k + 1) \in Int32
BY QuickAssumption, IntAssumption DEF Wrap, Int32

LEMMA QuickInit == Init => NumbersInv /\ RowsInv
<1>. SUFFICES ASSUME Init PROVE NumbersInv /\ RowsInv
  OBVIOUS
<1>1. NumbersInv
  BY QuickAssumption DEF Init, NumbersInv
<1>2. /\ << >> \in Seq(Row) /\ Len(<< >>) = 0 /\ DOMAIN << >> = {}
      /\ 1 .. 0 = {}
  OBVIOUS
<1>. QED  BY <1>1, <1>2, QuickAssumption DEF Init, RowsInv

(* An insert takes the next id and leaves it for the one after.            *)
LEMMA InsertStep ==
  ASSUME RowsInv, NEW ip \in Ip, NEW lost \in Int32, UpdateSQL(ip, lost)
  PROVE  RowsInv'
<1>. DEFINE row == [ip |-> ip, lost_no |-> lost]
            n == Len(inserts)
<1>1. /\ row \in Row /\ n \in Nat /\ MaxId \in Nat /\ MaxId >= 2
      /\ inserts \in Seq(Row) /\ current_id \in 1 .. MaxId - 1
  BY QuickAssumption DEF Row, RowsInv
<1>2. /\ inserts' = Append(inserts, row)
      /\ current_id' = IF current_id + 1 = MaxId THEN 1 ELSE current_id + 1
      /\ table' = IF current_id \in DOMAIN table THEN table
                  ELSE Put(table, current_id, row)
  BY DEF UpdateSQL, NextId
<1>. HIDE DEF row
<1>3. /\ inserts' \in Seq(Row) /\ Len(inserts') = n + 1 /\ inserts'[n + 1] = row
      /\ \A i \in 1 .. n : inserts'[i] = inserts[i]
  BY <1>1, <1>2, AppendProperties
<1>. HIDE DEF n
<1>4. current_id' \in 1 .. MaxId - 1
  BY <1>1, <1>2
<1>5. DOMAIN table' \subseteq 1 .. MaxId - 1
  BY <1>1, <1>2 DEF RowsInv, Put
<1>6. n + 1 < MaxId - 1 => current_id' = n + 2
  BY <1>1, <1>2 DEF RowsInv, n
<1>7. /\ DOMAIN table' = (1 .. n + 1) \cap (1 .. MaxId - 1)
      /\ \A i \in DOMAIN table' : table'[i] = inserts'[i]
  <2>0. /\ DOMAIN table = (1 .. n) \cap (1 .. MaxId - 1)
        /\ \A i \in DOMAIN table : table[i] = inserts[i]
    BY DEF RowsInv, n
  <2>1. CASE n + 1 < MaxId
    <3>1. current_id = n + 1 /\ current_id \notin DOMAIN table
      BY <1>1, <2>0, <2>1 DEF RowsInv, n
    <3>2. /\ DOMAIN table' = DOMAIN table \cup {n + 1} /\ table'[n + 1] = row
          /\ \A i \in DOMAIN table : table'[i] = table[i]
      BY <1>2, <3>1 DEF Put
    <3>3. DOMAIN table = 1 .. n
      BY <1>1, <2>0, <2>1
    <3>. QED  BY <1>1, <1>3, <2>0, <2>1, <3>2, <3>3
  <2>2. CASE n + 1 >= MaxId
    <3>1. DOMAIN table = 1 .. MaxId - 1
      BY <1>1, <2>0, <2>2
    <3>2. table' = table
      BY <1>1, <1>2, <3>1
    <3>. QED  BY <1>1, <1>3, <2>0, <2>2, <3>1, <3>2
  <2>. QED  BY <1>1, <2>1, <2>2
<1>. QED  BY <1>1, <1>3, <1>4, <1>5, <1>6, <1>7 DEF RowsInv

LEMMA QuickStep ==
  ASSUME NumbersInv, RowsInv, [Next]_vars
  PROVE  NumbersInv' /\ RowsInv'
<1>1. CASE UNCHANGED vars
  BY <1>1 DEF vars, NumbersInv, RowsInv
<1>2. ASSUME NEW ip \in Ip, NEW skipped \in 0 .. MaxSkip, Deliver(ip, skipped)
      PROVE  NumbersInv' /\ RowsInv'
  <2>1. /\ sent' = [sent EXCEPT ![ip] = Wrap(sent[ip] + skipped + 1)]
        /\ sent \in [Ip -> Int32] /\ DispatchPacket(ip, sent'[ip])
    BY <1>2 DEF Deliver, NumbersInv
  <2>2. Wrap(sent[ip] + skipped + 1) \in Int32
    BY <2>1, WrapOfNext
  <2>3. sent' \in [Ip -> Int32] /\ sent'[ip] \in Int32
    BY <2>1, <2>2
  <2>4. seqnos' = Put(seqnos, ip, sent'[ip])
    BY <2>1 DEF DispatchPacket
  <2>5. NumbersInv'
    BY <2>3, <2>4 DEF NumbersInv, Put
  <2>6. CASE ip \in DOMAIN seqnos /\ Wrap(sent'[ip] - seqnos[ip]) > 1
    <3>1. Wrap(sent'[ip] - seqnos[ip]) \in Int32
      BY <2>3, <2>6, WrapOfSum DEF NumbersInv
    <3>2. UpdateSQL(ip, Wrap(sent'[ip] - seqnos[ip]))
      BY <2>1, <2>6 DEF DispatchPacket
    <3>. QED  BY <2>5, <3>1, <3>2, InsertStep
  <2>7. CASE ~ (ip \in DOMAIN seqnos /\ Wrap(sent'[ip] - seqnos[ip]) > 1)
    <3>1. UNCHANGED <<table, current_id, inserts>>
      BY <2>1, <2>7 DEF DispatchPacket
    <3>. QED  BY <2>5, <3>1 DEF RowsInv
  <2>. QED  BY <2>6, <2>7
<1>. QED  BY <1>1, <1>2 DEF Next

LEMMA QuickInvariant == Spec => []NumbersInv /\ []RowsInv
<1>1. NumbersInv /\ RowsInv /\ [Next]_vars => NumbersInv' /\ RowsInv'
  BY QuickStep
<1>. QED  BY <1>1, QuickInit, PTL DEF Spec

(* The dispatcher never leaves the range of its ids (lines 76-79).         *)
THEOREM QuickTypeCorrect == Spec => []TypeOK
<1>1. NumbersInv /\ RowsInv => TypeOK
  BY DEF NumbersInv, RowsInv, TypeOK
<1>. QED  BY <1>1, QuickInvariant, PTL

(* Until the ids start over every insert is a row of the table, none is    *)
(* refused for its id; from then on all are                                *)
(* (MEPSQL_QuickDispatcher.cpp:66-79).                                     *)
THEOREM RowsAreKept == Spec => []RowsAreFirstInserts
<1>1. RowsInv => RowsAreFirstInserts
  <2>1. RowsInv => DOMAIN inserts = 1 .. Len(inserts)
    BY DEF RowsInv
  <2>. QED  BY <2>1 DEF RowsInv, RowsAreFirstInserts
<1>. QED  BY <1>1, QuickInvariant, PTL
-----------------------------------------------------------------------------
(* What the rows say was lost on the way to ip.                            *)
Gap(ip, row) == IF row.ip = ip THEN row.lost_no - 1 ELSE 0

Gaps(ip, rows) == [i \in 1 .. Len(rows) |-> Gap(ip, rows[i])]

GapsOf(ip, rows) ==
  FoldLeft(LAMBDA sum, row : sum + IF row.ip = ip THEN row.lost_no - 1 ELSE 0,
           0, rows)

(* The recursive function behind it.                                       *)
GapsFold(it, ip, rows) ==
  it = [s \in SUBSET (DOMAIN rows) |->
          IF s = {} THEN 0
          ELSE it[s \ {Max(s)}]
                 + (IF rows[Max(s)].ip = ip THEN rows[Max(s)].lost_no - 1 ELSE 0)]

LEMMA GapsAreSummed ==
  ASSUME NEW ip, NEW rows \in Seq(Row)
  PROVE  /\ \A i \in 1 .. Len(rows) : Gaps(ip, rows)[i] \in Int
         /\ \E p : /\ IsPrefixSum(p, Gaps(ip, rows), Len(rows))
                  /\ GapsOf(ip, rows) = p[Len(rows)]
<1>. DEFINE n == Len(rows)
            v == Gaps(ip, rows)
            c == [s \in SUBSET (1 .. n) |-> Max(s)]
            it == CHOOSE jt : GapsFold(jt, ip, rows)
<1>1. n \in Nat /\ DOMAIN rows = 1 .. n /\ \A i \in 1 .. n : rows[i] \in Row
  OBVIOUS
<1>2. \A i \in 1 .. n : v[i] \in Int
  BY <1>1, IntAssumption DEF Gaps, Gap, Row, Int32
<1>3. /\ \A s \in SUBSET (1 .. n) : c[s] = Max(s)
      /\ TakesMax(c, n)
  <2>1. \A s \in SUBSET (1 .. n) : c[s] = CHOOSE x \in s : \A y \in s : x >= y
    BY DEF Max
  <2>. HIDE DEF c, n
  <2>2. TakesMax(c, n)
    BY <1>1, <2>1, MaxIsTaken
  <2>. QED  BY <2>2 DEF c
<1>. HIDE DEF n, c
<1>4. \A jt : IsLeftSum(jt, c, v, n) <=> GapsFold(jt, ip, rows)
  <2>1. \A s \in SUBSET (1 .. n) : s # {} =>
          /\ c[s] = Max(s)
          /\ v[c[s]] = IF rows[Max(s)].ip = ip THEN rows[Max(s)].lost_no - 1 ELSE 0
    BY <1>1, <1>3 DEF Gaps, Gap, TakesMax, n
  <2>. HIDE DEF v
  <2>. QED  BY <1>1, <2>1 DEF IsLeftSum, GapsFold
<1>. HIDE DEF v
<1>5. GapsFold(it, ip, rows)
  BY <1>1, <1>2, <1>3, <1>4, LeftSumExists
<1>6. GapsOf(ip, rows) = it[DOMAIN rows]
  BY Zenon DEF GapsOf, FoldLeft, MapThenFoldSet, GapsFold
<1>. HIDE DEF it
<1>7. IsLeftSum(it, c, v, n)
  BY <1>4, <1>5
<1>. DEFINE p == [k \in 0 .. n |-> it[1 .. k]]
<1>8. IsPrefixSum(p, v, n)
  BY <1>1, <1>2, <1>3, <1>7, LeftSumSteps
<1>9. p[n] = it[1 .. n]
  BY <1>1
<1>. HIDE DEF p
<1>. QED  BY <1>1, <1>2, <1>6, <1>8, <1>9 DEF v, n

LEMMA GapsOfNone == ASSUME NEW ip PROVE GapsOf(ip, << >>) = 0
<1>1. << >> \in Seq(Row) /\ Len(<< >>) = 0
  OBVIOUS
<1>2. PICK p : /\ IsPrefixSum(p, Gaps(ip, << >>), Len(<< >>))
               /\ GapsOf(ip, << >>) = p[Len(<< >>)]
  BY <1>1, GapsAreSummed
<1>. QED  BY <1>1, <1>2 DEF IsPrefixSum

(* One more row adds its own gap, to the sum of its own device.            *)
LEMMA GapsOfOneMore ==
  ASSUME NEW ip, NEW rows \in Seq(Row), NEW row \in Row
  PROVE  /\ GapsOf(ip, rows) \in Int
         /\ GapsOf(ip, Append(rows, row)) = GapsOf(ip, rows) + Gap(ip, row)
<1>. DEFINE more == Append(rows, row)
            n == Len(rows)
<1>1. /\ more \in Seq(Row) /\ Len(more) = n + 1 /\ n \in Nat
      /\ \A i \in 1 .. n : more[i] = rows[i]
      /\ more[n + 1] = row
  BY AppendProperties
<1>. HIDE DEF more
<1>2. PICK p : IsPrefixSum(p, Gaps(ip, rows), n) /\ GapsOf(ip, rows) = p[n]
  BY GapsAreSummed
<1>3. PICK q : IsPrefixSum(q, Gaps(ip, more), n + 1) /\ GapsOf(ip, more) = q[n + 1]
  BY <1>1, GapsAreSummed
<1>. HIDE DEF n
<1>4. \A i \in 1 .. n : Gaps(ip, rows)[i] = Gaps(ip, more)[i]
  BY <1>1 DEF Gaps, n
<1>5. p[n] \in Int /\ q[n + 1] = p[n] + Gaps(ip, more)[n + 1]
  BY <1>1, <1>2, <1>3, <1>4, SumOfOneMore
<1>6. Gaps(ip, more)[n + 1] = Gap(ip, row)
  BY <1>1 DEF Gaps
<1>. QED  BY <1>2, <1>3, <1>5, <1>6 DEF more

(* Why GapPerRow is inductive: the number last dispatched is the one last  *)
(* delivered.                                                              *)
GapInv ==
  /\ dropped \in [Ip -> Nat]
  /\ \A ip \in DOMAIN seqnos : seqnos[ip] = sent[ip]
  /\ \A ip \in Ip : GapsOf(ip, inserts) = dropped[ip]

(* The distance of two numbers is what was skipped, wherever they wrap.    *)
LEMMA DistanceIsSkipped ==
  ASSUME NEW m \in Int32, NEW k \in 0 .. MaxSkip
  PROVE  Wrap(Wrap(m + k + 1) - m) = k + 1
BY QuickAssumption, IntAssumption DEF Wrap, Int32

LEMMA GapStep ==
  ASSUME NumbersInv, RowsInv, GapInv, [Next]_vars
  PROVE  GapInv'
<1>1. CASE UNCHANGED vars
  BY <1>1 DEF vars, GapInv
<1>2. ASSUME NEW ip \in Ip, NEW skipped \in 0 .. MaxSkip, Deliver(ip, skipped)
      PROVE  GapInv'
  <2>. DEFINE next == Wrap(sent[ip] + skipped + 1)
              seen == ip \in DOMAIN seqnos
  <2>1. /\ sent' = [sent EXCEPT ![ip] = next]
        /\ sent \in [Ip -> Int32] /\ dropped \in [Ip -> Nat] /\ skipped \in Nat
        /\ dropped' = IF seen THEN [dropped EXCEPT ![ip] = @ + skipped] ELSE dropped
        /\ DispatchPacket(ip, sent'[ip])
    BY <1>2, QuickAssumption DEF Deliver, NumbersInv, GapInv
  <2>2. sent'[ip] = next /\ \A jp \in Ip \ {ip} : sent'[jp] = sent[jp]
    BY <2>1
  <2>3. seen => Wrap(next - seqnos[ip]) = skipped + 1
    BY <2>1, DistanceIsSkipped DEF GapInv
  <2>. HIDE DEF next
  <2>4. /\ seqnos' = Put(seqnos, ip, next)
        /\ IF seen /\ Wrap(next - seqnos[ip]) > 1
           THEN UpdateSQL(ip, Wrap(next - seqnos[ip]))
           ELSE UNCHANGED <<table, current_id, inserts>>
    BY <2>1, <2>2 DEF DispatchPacket
  <2>5. \A jp \in DOMAIN seqnos' : seqnos'[jp] = sent'[jp]
    BY <2>2, <2>4 DEF Put, GapInv, NumbersInv
  <2>6. dropped' \in [Ip -> Nat]
    BY <2>1
  <2>7. ASSUME NEW jp \in Ip PROVE GapsOf(jp, inserts') = dropped'[jp]
    <3>1. CASE seen /\ skipped > 0
      <4>. DEFINE row == [ip |-> ip, lost_no |-> skipped + 1]
      <4>1. inserts' = Append(inserts, row)
        BY <2>3, <2>4, <3>1 DEF UpdateSQL
      <4>2. row \in Row /\ inserts \in Seq(Row)
        <5>1. skipped + 1 \in Int32
          BY <2>1, QuickAssumption, IntAssumption DEF Int32
        <5>2. row \in Row
          BY <5>1 DEF Row
        <5>3. inserts \in Seq(Row)
          BY DEF RowsInv
        <5>. QED  BY <5>2, <5>3
      <4>3. Gap(jp, row) = IF jp = ip THEN skipped ELSE 0
        BY <2>1 DEF Gap
      <4>. HIDE DEF row
      <4>4. GapsOf(jp, inserts') = dropped[jp] + Gap(jp, row)
        BY <4>1, <4>2, GapsOfOneMore DEF GapInv
      <4>. QED  BY <2>1, <3>1, <4>3, <4>4
    <3>2. CASE ~ (seen /\ skipped > 0)
      <4>1. UNCHANGED inserts
        BY <2>1, <2>3, <2>4, <3>2
      <4>2. dropped'[jp] = dropped[jp]
        BY <2>1, <3>2
      <4>. QED  BY <4>1, <4>2 DEF GapInv
    <3>. QED  BY <3>1, <3>2
  <2>. QED  BY <2>5, <2>6, <2>7 DEF GapInv
<1>. QED  BY <1>1, <1>2 DEF Next

(* Every gap of every destination is a row, and no row is without a gap,   *)
(* also where the numbers wrap around (MEPSQL_QuickDispatcher.cpp:46-51):  *)
(* what the rows say adds up to what the network dropped.                  *)
THEOREM GapsAddUp == Spec => []GapPerRow
<1>1. Init => GapInv
  <2>. SUFFICES ASSUME Init PROVE GapInv
    OBVIOUS
  <2>1. /\ dropped \in [Ip -> Nat] /\ \A ip \in Ip : dropped[ip] = 0
        /\ DOMAIN seqnos = {} /\ inserts = << >>
    BY DEF Init
  <2>. QED  BY <2>1, GapsOfNone DEF GapInv
<1>2. NumbersInv /\ RowsInv /\ GapInv /\ [Next]_vars => GapInv'
  BY GapStep
<1>3. GapInv => GapPerRow
  BY Zenon DEF GapInv, GapPerRow, Total, GapsOf
<1>. QED  BY <1>1, <1>2, <1>3, QuickInvariant, PTL DEF Spec
=============================================================================
