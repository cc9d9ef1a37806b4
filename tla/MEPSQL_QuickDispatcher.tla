----------------------- MODULE MEPSQL_QuickDispatcher -----------------------
(***************************************************************************)
(* The dispatcher that writes one row per gap between two packets of a     *)
(* device.  The devices, which number their requests in an int that wraps  *)
(* around, and the network, which drops some and keeps the order of the    *)
(* others, are external.                                                   *)
(***************************************************************************)
EXTENDS CInt, Sequences, SequencesExt, Functions

CONSTANTS
  Ip,           \* the destinations packets are told apart by
  MaxId,        \* _max_id
  FirstSeqnos,  \* where a numbering may start
  MaxSkip,      \* the most requests the network drops in a row
  MaxPackets    \* bound of the model on the packets dispatched

ASSUME QuickAssumption ==
  /\ MaxId \in Nat \ {0, 1}
  /\ FirstSeqnos \subseteq Int32
  /\ MaxSkip \in 0 .. HalfRange - 2

VARIABLES
  seqnos,      \* destination -> last number, for those seen
  current_id,  \* _current_id
  table,       \* mep_statistics: id -> row
  sent,        \* destination -> number of the last delivered request
  dispatched,  \* packets dispatched
  dropped,     \* history: destination -> requests lost since its first
  inserts      \* history: the rows of all inserts

vars == <<seqnos, current_id, table, sent, dispatched, dropped, inserts>>

Init ==
  /\ seqnos = << >>
  /\ current_id = 1
  /\ table = << >>
  /\ sent \in [Ip -> FirstSeqnos]
  /\ dispatched = 0
  /\ dropped = [ip \in Ip |-> 0]
  /\ inserts = << >>
-----------------------------------------------------------------------------
Put(map, k, v) == [j \in DOMAIN map \cup {k} |-> IF j = k THEN v ELSE map[j]]

(* Slips: the ids start over one late, and one early.                      *)
NextIdLate(id) == IF id = MaxId THEN 1 ELSE id + 1

NextIdEarly(id) == IF id + 2 = MaxId THEN 1 ELSE id + 1

NextId(id) == IF id + 1 = MaxId THEN 1 ELSE id + 1

(* The insert of a row whose id is taken fails, and nobody looks.          *)
UpdateSQL(ip, lost) ==
  LET row == [ip |-> ip, lost_no |-> lost]
  IN  /\ table' = IF current_id \in DOMAIN table THEN table
                  ELSE Put(table, current_id, row)
      /\ current_id' = NextId(current_id)
      /\ inserts' = Append(inserts, row)

(* Slip: the numbers are compared, not subtracted.                         *)
DispatchGreaterPacket(ip, seqno) ==
  /\ seqnos' = Put(seqnos, ip, seqno)
  /\ IF ip \in DOMAIN seqnos /\ seqno > seqnos[ip] + 1
     THEN UpdateSQL(ip, seqno - seqnos[ip])
     ELSE UNCHANGED <<table, current_id, inserts>>

DispatchPacket(ip, seqno) ==
  /\ seqnos' = Put(seqnos, ip, seqno)
  /\ IF ip \in DOMAIN seqnos /\ Wrap(seqno - seqnos[ip]) > 1
     THEN UpdateSQL(ip, Wrap(seqno - seqnos[ip]))
     ELSE UNCHANGED <<table, current_id, inserts>>

(* The network drops skipped requests to ip and delivers the next one.     *)
Deliver(ip, skipped) ==
  /\ dispatched < MaxPackets
  /\ dispatched' = dispatched + 1
  /\ sent' = [sent EXCEPT ![ip] = Wrap(@ + skipped + 1)]
  /\ DispatchPacket(ip, sent'[ip])
  /\ dropped' = IF ip \in DOMAIN seqnos
                THEN [dropped EXCEPT ![ip] = @ + skipped] ELSE dropped

Next == \E ip \in Ip, skipped \in 0 .. MaxSkip : Deliver(ip, skipped)

Spec == Init /\ [][Next]_vars
-----------------------------------------------------------------------------
(* What the inserts say of a destination: a figure of each of its rows.    *)
Total(ip, Figure(_)) ==
  FoldLeft(LAMBDA sum, row : sum + IF row.ip = ip THEN Figure(row) ELSE 0,
           0, inserts)

(* Type invariant of the dispatcher (MEPSQL_QuickDispatcher.h:34-44).      *)
TypeOK ==
  /\ DOMAIN seqnos \subseteq Ip
  /\ \A ip \in DOMAIN seqnos : seqnos[ip] \in Int32
  /\ current_id \in 1 .. MaxId - 1
  /\ DOMAIN table \subseteq 1 .. MaxId - 1

(* Every gap of every destination has a row and no row is without a gap,   *)
(* also where the numbers wrap around: each row's lost_no is the distance  *)
(* of two numbers, one more than what lies between them.                   *)
GapPerRow ==
  \A ip \in Ip : Total(ip, LAMBDA row : row.lost_no - 1) = dropped[ip]

(* lost_no adds up to the requests lost.                                   *)
LostNoIsLost ==
  \A ip \in Ip : Total(ip, LAMBDA row : row.lost_no) = dropped[ip]

(* The rows are the first inserts of the process: every insert is a row    *)
(* until the ids start over, one before _max_id, and from then on every    *)
(* insert is refused and its gap in no row                                 *)
(* (MEPSQL_QuickDispatcher.cpp:71-82).                                     *)
RowsAreFirstInserts ==
  /\ DOMAIN table = DOMAIN inserts \cap 1 .. MaxId - 1
  /\ \A i \in DOMAIN table : table[i] = inserts[i]
=============================================================================
