------------------------- MODULE MEPSQL_Dispatcher -------------------------
(***************************************************************************)
(* The dispatcher that writes a row per lost MEP request.  It holds the    *)
(* last packets in arrival order; when it has BufferSize of them it looks  *)
(* for gaps below the greatest number of the oldest UpdateSize, and drops  *)
(* those.  It tells no device from another: the packets are one stream.    *)
(* The stream is external: a sender that numbers requests one by one and a *)
(* network that drops some and delays some behind later ones.              *)
(***************************************************************************)
EXTENDS CInt, Sequences, SequencesExt, FiniteSets

CONSTANTS
  BufferSize,     \* packets held before a flush (20)
  UpdateSize,     \* packets dropped by a flush (10)
  MaxId,          \* _max_id
  InitialSeqnos,  \* what _last_seqno, never initialised, may start as
  FirstSeqno,     \* the first number of the sender
  MaxSkip,        \* the most requests the network drops in a row
  MaxDelayed,     \* the most requests it delays at a time
  MaxOvertakes,   \* how many requests may overtake a delayed one
  MaxPackets      \* bound of the model on the packets dispatched

ASSUME SQLAssumption ==
  /\ BufferSize \in Nat /\ UpdateSize \in 1 .. BufferSize
  /\ MaxId \in Nat
  /\ InitialSeqnos \subseteq Int32
  /\ {FirstSeqno, MaxSkip, MaxDelayed, MaxOvertakes, MaxPackets} \subseteq Nat
  /\ FirstSeqno + (MaxSkip + 1) * (MaxPackets + MaxDelayed) < 2 * HalfRange

VARIABLES
  last_seqno,     \* _last_seqno
  current_id,     \* _current_id
  packet_buffer,  \* the seqnos of _packet_buffer
  table,          \* mep_statistics: id -> the lost number of the row
  next,           \* the sender's next number
  delayed,        \* numbers in the network, to be overtaken
  dispatched,     \* packets dispatched
  (* History.                                                              *)
  started,        \* what _last_seqno started as
  received,       \* numbers that arrived
  late,           \* those that arrived after a later one
  dropped,        \* numbers the network dropped
  reported,       \* lost numbers, in the order of the inserts
  flushed         \* _last_seqno before the first flush and after each

vars == <<last_seqno, current_id, packet_buffer, table, next, delayed,
          dispatched, started, received, late, dropped, reported, flushed>>

Init ==
  /\ last_seqno \in InitialSeqnos
  /\ started = last_seqno
  /\ current_id = 1
  /\ packet_buffer = << >>
  /\ table = << >>
  /\ next = FirstSeqno
  /\ delayed = {}
  /\ dispatched = 0
  /\ received = {}
  /\ late = {}
  /\ dropped = {}
  /\ reported = << >>
  /\ flushed = << >>
-----------------------------------------------------------------------------
(* A number is unsigned on the wire and in a packet, an int elsewhere.     *)
AsUnsigned(x) == IF x < 0 THEN x + 2 * HalfRange ELSE x

(* "Fetch last seqno": the comparison is between unsigned numbers.         *)
LastSeqno(last, seqnos) ==
  FoldLeft(LAMBDA l, s : IF AsUnsigned(s) > AsUnsigned(l) THEN s ELSE l,
           last, seqnos)

(* A number goes before the first that is greater, or to the end.          *)
InsertOrdered(ordered, s) ==
  LET greater == {i \in DOMAIN ordered : ordered[i] > s}
  IN  InsertAt(ordered, Min(greater \cup {Len(ordered) + 1}), s)

(* Slip: all of the buffer, not what lies below _last_seqno.               *)
AllSeqnosOrdered(seqnos, last) == FoldLeft(InsertOrdered, << >>, seqnos)

(* "Order seqno's received until _last_seqno": the comparisons are between *)
(* ints.                                                                   *)
OrderedSeqnos(seqnos, last) ==
  FoldLeft(LAMBDA ordered, s :
             IF s < last THEN InsertOrdered(ordered, s) ELSE ordered,
           << >>, seqnos)

(* Slips: the loop one too long, and one too short.                        *)
GapAndNext(prev, s) == IF s - prev \in 2 .. HalfRange - 1 THEN s - prev ELSE 0

GapButLast(prev, s) == IF s - prev \in 3 .. HalfRange - 1 THEN s - prev - 2 ELSE 0

(* How many rows the gap between two neighbours gets: the bound of the     *)
(* loop is a difference of ints, negative where it overflows.              *)
Gap(prev, s) ==
  LET d == s - Wrap(prev + 1)
  IN  IF d \in 1 .. HalfRange - 1 THEN d ELSE 0

(* The numbers missing between prev and the numbers of ordered.            *)
LostSeqnos(prev, ordered) ==
  FoldLeft(LAMBDA acc, s :
             [prev |-> s,
              lost |-> acc.lost \o
                       [i \in 1 .. Gap(acc.prev, s) |-> Wrap(acc.prev + i)]],
           [prev |-> prev, lost |-> << >>], ordered).lost

(* Slip: the ids never start over.                                         *)
NextIdForever(id) == id + 1

NextId(id) == IF id > MaxId THEN 1 ELSE id + 1

(* Slip: "replace into" for "insert into".                                 *)
WithReplacedRow(rows, id, number) ==
  [i \in DOMAIN rows \cup {id} |-> IF i = id THEN number ELSE rows[i]]

(* A row whose id is taken is refused by the primary key, and nobody looks *)
(* at the result of the query.                                             *)
WithRow(rows, id, number) ==
  [i \in DOMAIN rows \cup {id} |-> IF i \in DOMAIN rows THEN rows[i] ELSE number]

(* One insert per lost number.                                             *)
Insert(acc, number) ==
  [id |-> NextId(acc.id), rows |-> WithRow(acc.rows, acc.id, number)]

UpdateSQL(last, buffer) ==
  LET first == SubSeq(buffer, 1, UpdateSize)
      newLast == LastSeqno(last, first)
      lost == LostSeqnos(last, OrderedSeqnos(buffer, newLast))
      result == FoldLeft(Insert, [id |-> current_id, rows |-> table], lost)
  IN  /\ last_seqno' = newLast
      /\ current_id' = result.id
      /\ table' = result.rows
      /\ reported' = reported \o lost
      /\ flushed' = (IF flushed = << >> THEN <<last>> ELSE flushed) \o <<newLast>>

DispatchPacket(seqno) ==
  LET last == IF last_seqno = 0 THEN Wrap(seqno - 1) ELSE last_seqno
      buffer == Append(packet_buffer, Wrap(seqno))
  IN  /\ dispatched < MaxPackets
      /\ dispatched' = dispatched + 1
      /\ IF Len(buffer) >= BufferSize
         THEN /\ UpdateSQL(last, buffer)
              /\ packet_buffer' = SubSeq(buffer, UpdateSize + 1, Len(buffer))
         ELSE /\ last_seqno' = last
              /\ packet_buffer' = buffer
              /\ UNCHANGED <<current_id, table, reported, flushed>>
      /\ received' = received \cup {Wrap(seqno)}
-----------------------------------------------------------------------------
(* The network drops skipped requests and delivers the next one.           *)
Deliver(skipped) ==
  /\ \A n \in delayed : next + skipped <= n + MaxOvertakes
  /\ DispatchPacket(next + skipped)
  /\ next' = next + skipped + 1
  /\ dropped' = dropped \cup {Wrap(n) : n \in next .. next + skipped - 1}
  /\ UNCHANGED <<delayed, started, late>>

Delay ==
  /\ Cardinality(delayed) < MaxDelayed
  /\ dispatched < MaxPackets
  /\ delayed' = delayed \cup {next}
  /\ next' = next + 1
  /\ UNCHANGED <<last_seqno, current_id, packet_buffer, table, dispatched,
                 started, received, late, dropped, reported, flushed>>

DeliverDelayed ==
  \E n \in delayed :
    /\ DispatchPacket(n)
    /\ delayed' = delayed \ {n}
    /\ late' = IF n = next - 1 THEN late ELSE late \cup {Wrap(n)}
    /\ UNCHANGED <<next, started, dropped>>

Next ==
  \/ \E skipped \in 0 .. MaxSkip : Deliver(skipped)
  \/ Delay
  \/ DeliverDelayed

Spec == Init /\ [][Next]_vars
-----------------------------------------------------------------------------
(* Type invariant of the dispatcher (MEPSQL_Dispatcher.h:34-43): a flush   *)
(* brings the buffer back below its size and the ids stay in their cycle.  *)
TypeOK ==
  /\ last_seqno \in Int32
  /\ current_id \in 1 .. MaxId + 1
  /\ DOMAIN table \subseteq 1 .. MaxId + 1
  /\ Len(packet_buffer) < BufferSize
  /\ ToSet(packet_buffer) \subseteq received

(* The comment wants out of order avoided by an ordered buffer; while the  *)
(* network keeps the order, the code has the following properties.         *)
InOrder == late = {}

(* From any number in the buffer to any other it is less than half the     *)
(* range of the int: the program's twenty numbers would have to lie 2^31   *)
(* apart.                                                                  *)
BufferIsNarrow == (MaxDelayed + MaxSkip + 1) * (BufferSize - 1) < HalfRange

(* The numbers between what _last_seqno started as, if not zero, and the   *)
(* sender's first: they never existed.                                     *)
Phantoms ==
  IF started = 0 THEN {}
  ELSE {Wrap(n) : n \in AsUnsigned(started) + 1 .. FirstSeqno - 1}

(* No request that arrived is reported lost, whatever _last_seqno started  *)
(* as (it is never initialised), also where the numbers wrap around; and   *)
(* every report is of a request the network dropped, but for those of the  *)
(* numbers below the first request that the start makes up.                *)
ReportIsReal ==
  InOrder =>
    /\ received \cap ToSet(reported) = {}
    /\ ToSet(reported) \subseteq
         dropped \cup {Wrap(n) : n \in delayed} \cup Phantoms

(* Then no request is reported lost twice either, whatever part of the     *)
(* buffer a flush looks at and the next flush looks at again, until the    *)
(* numbers wrap: negative ones sort first, below a _last_seqno that they   *)
(* come after, and a gap between two of them is reported by every flush.   *)
ReportedOnce ==
  InOrder /\ started = 0 /\ next <= HalfRange => IsInjective(reported)

(* The lost requests that stay unreported are those right before a number  *)
(* at which a flush stopped, with none that arrived in between: the flush  *)
(* looks below that number, the next one above it.  (Once the numbers      *)
(* wrap, a negative one sorts first and the difference to the next         *)
(* overflows.)                                                             *)
UnreportedIsAtFlush ==
  InOrder /\ next <= HalfRange /\ flushed # << >> =>
    \A n \in dropped :
      n > flushed[1] /\ n < last_seqno /\ n \notin ToSet(reported) =>
        \E i \in DOMAIN flushed :
          n < flushed[i] /\ (n .. flushed[i] - 1) \cap received = {}

(* The rows are the first reports of the process, in whatever order the    *)
(* packets come: every report has its row until the ids start over, and    *)
(* from then on every insert is refused, those of the second cycle and of  *)
(* all later ones (MEPSQL_Dispatcher.cpp:158-164).                         *)
RowsAreFirstReports ==
  /\ DOMAIN table = DOMAIN reported \cap 1 .. MaxId + 1
  /\ \A i \in DOMAIN table : table[i] = reported[i]

(* No request that arrived is ever reported lost, in order or not: "Avoid  *)
(* out of order (keep an ordered buffer of, say, 10 elements".             *)
ReceivedIsNotReported == received \cap ToSet(reported) = {}
=============================================================================
