------------------------- MODULE UDPRRD_Dispatcher -------------------------
(***************************************************************************)
(* The dispatcher of UDP packets: a list of seconds with their packets,    *)
(* meant to be in order; when it holds BufferSize seconds, the first       *)
(* UpdateSize are pushed to an RRD file and popped.  Time is counted in    *)
(* seconds, and the wall clock may be set back.                            *)
(*                                                                         *)
(* The search for the place of a new second starts by dereferencing end(). *)
(* What it finds there depends on the build: where a list keeps its size   *)
(* behind the sentinel it reads that, older than any second; elsewhere it  *)
(* reads the members that follow, taken to be later than any second.       *)
(***************************************************************************)
EXTENDS Integers, Sequences, SequencesExt, FiniteSetsExt

CONSTANTS
  BufferSize,   \* seconds held before a push (20)
  UpdateSize,   \* seconds pushed (10)
  ClockSlack,   \* how far the wall clock may be set back
  MaxSecond,    \* bound of the model on the clock
  MaxPackets    \* bound of the model on the packets dispatched

ASSUME UDPAssumption ==
  /\ BufferSize \in Nat /\ UpdateSize \in 1 .. BufferSize
  /\ ClockSlack \in Nat /\ MaxSecond \in Nat \ {0} /\ MaxPackets \in Nat

VARIABLES
  end_is_older,   \* of the build: *end() compares as older than any second
  now,            \* the wall clock
  packet_buffer,  \* _packet_buffer
  (* History.                                                              *)
  high,           \* the latest second the clock ever showed
  steady,         \* the clock was never set back
  count,          \* second -> packets dispatched in it
  pushed          \* all pairs handed to rrd_update_r, in order

vars == <<end_is_older, now, packet_buffer, high, steady, count, pushed>>

Second == 1 .. MaxSecond

Init ==
  /\ end_is_older \in BOOLEAN
  /\ now = 1
  /\ packet_buffer = << >>
  /\ high = 1
  /\ steady = TRUE
  /\ count = [s \in Second |-> 0]
  /\ pushed = << >>
-----------------------------------------------------------------------------
Item(s, n) == [time |-> s, packets |-> n]

(* Slip: a second older than those searched goes to the front.             *)
LocationAtFront(arrival) ==
  LET older == {j \in 2 .. Len(packet_buffer) : arrival > packet_buffer[j].time}
  IN  IF end_is_older \/ older = {} THEN 0 ELSE Max(older)

(* How many items of the list stay before a new one.  The search goes from *)
(* end() to the second item; what it does not place goes to the end.  One  *)
(* past end() is begin().                                                  *)
Location(arrival) ==
  LET n == Len(packet_buffer)
      older == {j \in 2 .. n : arrival > packet_buffer[j].time}
  IN  IF n = 0 \/ end_is_older THEN 0
      ELSE IF older = {} THEN n ELSE Max(older)

(* Slips: 1a without its test, and 1a without its increment.               *)
CountedAnew(arrival) ==
  InsertAt(packet_buffer, Location(arrival) + 1, Item(arrival, 1))

CountedAtFirst(arrival) ==
  IF \E j \in DOMAIN packet_buffer : packet_buffer[j].time = arrival
  THEN packet_buffer ELSE CountedAnew(arrival)

(* 1a and 1b of the comment in the code.                                   *)
Counted(arrival) ==
  LET found == {j \in DOMAIN packet_buffer : packet_buffer[j].time = arrival}
  IN  IF found # {}
      THEN [packet_buffer EXCEPT ![Min(found)].packets = @ + 1]
      ELSE InsertAt(packet_buffer, Location(arrival) + 1, Item(arrival, 1))

IsFullTooLate(buffer) == Len(buffer) > BufferSize

IsFull(buffer) == Len(buffer) >= BufferSize

DispatchPacket ==
  LET buffer == Counted(now)
  IN  /\ FoldFunctionOnSet(+, 0, count, Second) < MaxPackets
      /\ count' = [count EXCEPT ![now] = @ + 1]
      /\ IF IsFull(buffer)
         THEN /\ pushed' = pushed \o SubSeq(buffer, 1, UpdateSize)
              /\ packet_buffer' = SubSeq(buffer, UpdateSize + 1, Len(buffer))
         ELSE /\ packet_buffer' = buffer
              /\ UNCHANGED pushed
      /\ UNCHANGED <<end_is_older, now, high, steady>>

Tick ==
  /\ now < MaxSecond
  /\ now' = now + 1
  /\ high' = IF now' > high THEN now' ELSE high
  /\ UNCHANGED <<end_is_older, packet_buffer, steady, count, pushed>>

SetClockBack ==
  /\ now > 1 /\ now - 1 >= high - ClockSlack
  /\ now' = now - 1
  /\ steady' = FALSE
  /\ UNCHANGED <<end_is_older, packet_buffer, high, count, pushed>>

Next == DispatchPacket \/ Tick \/ SetClockBack

Spec == Init /\ [][Next]_vars
-----------------------------------------------------------------------------
(* Type invariant of the dispatcher (UDPRRD_Dispatcher.h:24-42): a second  *)
(* on the list has packets and a push brings the list below its size.      *)
TypeOK ==
  /\ now \in Second /\ high \in Second
  /\ end_is_older \in BOOLEAN /\ steady \in BOOLEAN
  /\ packet_buffer \in Seq([time : Second, packets : 1 .. MaxPackets])
  /\ pushed \in Seq([time : Second, packets : 1 .. MaxPackets])
  /\ Len(packet_buffer) < BufferSize

PacketsOf(items, s) ==
  FoldLeft(LAMBDA n, item : n + IF item.time = s THEN item.packets ELSE 0,
           0, items)

(* Every packet is in the list or was pushed, once, under the second it    *)
(* was dispatched in, whatever the clock and the build do to the order.    *)
PacketsConserved ==
  \A s \in Second : PacketsOf(packet_buffer, s) + PacketsOf(pushed, s) = count[s]

(* Where the code does what it was meant to.                               *)
Orderly == steady /\ ~ end_is_older

(* "Otherwise, add in order the element": the list is sorted, as long as   *)
(* the clock is not set back, although the search skips the first item.    *)
BufferInOrder ==
  Orderly => \A i, j \in DOMAIN packet_buffer :
               i < j => packet_buffer[i].time < packet_buffer[j].time

(* Then seconds are also pushed in the order librrd wants them, from push  *)
(* to push, and after the last packet of the second was counted.           *)
PushedIsFinal ==
  Orderly =>
    /\ \A i, j \in DOMAIN pushed : i < j => pushed[i].time < pushed[j].time
    /\ \A i \in DOMAIN pushed : pushed[i].packets = count[pushed[i].time]

(* "Post when second is higher than before (avoid same second post)": no   *)
(* second is pushed twice while the clock only goes forward.               *)
SecondPushedOnce ==
  steady => \A i, j \in DOMAIN pushed : pushed[i].time = pushed[j].time => i = j
=============================================================================
