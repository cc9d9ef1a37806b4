------------------------- MODULE MEPRRD_Dispatcher -------------------------
(***************************************************************************)
(* The dispatcher the poller runs: MEPRRD_Dispatcher counts, per device    *)
(* and minute, the MEP requests received and lost, and every               *)
(* RrdUpdateSize minutes hands the minutes older than ThresholdMinutes to  *)
(* a WriteRRDs task and drops them from its maps.  It runs on the capture  *)
(* thread, inside pcap_loop: a packet is the only thing that makes it act. *)
(*                                                                         *)
(* Time is counted in minutes, the grain of every comparison in the code.  *)
(* dispatchPacket reads the wall clock twice, once for the packet and once *)
(* for the posting test, so the clock may move between the two; it may     *)
(* also be set back, by at most ClockSlack minutes.  A restart is a crash  *)
(* of the process, at any point, and a new start: removeOldieUpdates       *)
(* advances an iterator it has just erased, which completes the loop on    *)
(* some builds and kills the process on others.                            *)
(***************************************************************************)
EXTENDS SeqnoGap, Sequences, Functions

CONSTANTS
  Ip,                \* the devices, by source address
  Seqnos,            \* the sequence numbers packets may carry
  RrdUpdateSize,     \* minutes between two postings (10)
  ThresholdMinutes,  \* minutes a minute stays open after it ended (2)
  ClockSlack,        \* how far the wall clock may be set back
  MaxLag,            \* minute boundaries one dispatch may straddle
  MaxMinute,         \* bound of the model on the clock
  MaxPackets,        \* bound of the model on the packets captured
  MaxRestarts        \* bound of the model on the crashes

ASSUME DispatcherAssumption ==
  /\ Seqnos \subseteq Int32
  /\ RrdUpdateSize \in Nat
  /\ ThresholdMinutes \in 0 .. RrdUpdateSize
  /\ ClockSlack \in Nat
  /\ MaxLag \in Nat
  /\ MaxMinute \in Nat \ {0}
  /\ MaxPackets \in Nat
  /\ MaxRestarts \in Nat

(* A minute is the epoch time divided by 60, so never 0: _starting_time    *)
(* uses 0 for "no packet yet".                                             *)
Minute == 1 .. MaxMinute

VARIABLES
  now,              \* the wall clock
  pc,               \* where the capture thread is in dispatchPacket
  captured,         \* PacketCapture::count
  packet_time,      \* _packet_time
  starting_time,    \* _starting_time
  max_update_time,  \* _max_update_time
  received_meps,    \* device -> minute -> packets received
  lost_meps,        \* device -> minute -> packets lost
  last_seqnos,      \* device -> last sequence number
  queue,            \* the WriteRRDs tasks enqueued and not yet taken
  restarts,         \* crashes so far
  (* History: what no field of the program holds.                          *)
  high,             \* the latest wall-clock minute ever reached
  count,            \* packets counted, less those a crash lost
  posted,           \* packets handed to tasks, over all tasks and restarts
  watermark         \* the last _max_update_time a posting used

threadVars == <<pc, captured, packet_time, starting_time, max_update_time>>
mapVars == <<received_meps, lost_meps, last_seqnos>>
clockVars == <<now, high>>
vars == <<now, pc, captured, packet_time, starting_time, max_update_time,
          received_meps, lost_meps, last_seqnos, queue, restarts,
          high, count, posted, watermark>>

EmptyMap == [m \in {} |-> 0]
NoMeps == [ip \in Ip |-> EmptyMap]
NoPackets == [ip \in Ip |-> [m \in Minute |-> 0]]

Init ==
  /\ now = 1 /\ high = 1
  /\ pc = "capture"
  /\ captured = 0
  /\ packet_time = 0 /\ starting_time = 0 /\ max_update_time = 0
  /\ received_meps = NoMeps
  /\ lost_meps = NoMeps
  /\ last_seqnos = [ip \in Ip |-> 0]
  /\ queue = << >>
  /\ restarts = 0
  /\ count = NoPackets
  /\ posted = NoPackets
  /\ watermark = 0
-----------------------------------------------------------------------------
(* std::map operations: m[k] = v, and the entries with key below cut.      *)
Put(map, k, v) ==
  [m \in DOMAIN map \cup {k} |-> IF m = k THEN v ELSE map[m]]

(* Slip: the minute at the cut goes with those below it.                   *)
BelowOrAt(map, cut) == {m \in DOMAIN map : m <= cut}

Below(map, cut) == {m \in DOMAIN map : m < cut}

(* Slip: the first packet of a minute opens only one of the two entries.   *)
UpdateDataSetsUnpaired(ip, time, seqno) ==
  LET known == time \in DOMAIN received_meps[ip]
  IN  /\ received_meps' = [received_meps EXCEPT
           ![ip] = Put(@, time, IF known THEN @[time] + 1 ELSE 1)]
      /\ lost_meps' = IF known
           THEN [lost_meps EXCEPT ![ip][time] =
                   @ + LostBetween(last_seqnos[ip], seqno)]
           ELSE lost_meps
      /\ last_seqnos' = [last_seqnos EXCEPT ![ip] = seqno]

(***************************************************************************)
(* The first packet of a device in a minute only opens the entry: a gap    *)
(* before it is not looked at.                                             *)
(***************************************************************************)
UpdateDataSets(ip, time, seqno) ==
  LET known == time \in DOMAIN received_meps[ip]
  IN  /\ received_meps' = [received_meps EXCEPT
           ![ip] = Put(@, time, IF known THEN @[time] + 1 ELSE 1)]
      /\ lost_meps' = [lost_meps EXCEPT
           ![ip] = Put(@, time, IF known
                                THEN @[time] + LostBetween(last_seqnos[ip], seqno)
                                ELSE 0)]
      /\ last_seqnos' = [last_seqnos EXCEPT ![ip] = seqno]

(* dispatchPacket up to the posting test.                                  *)
DispatchPacket(ip, seqno) ==
  /\ pc = "capture"
  /\ captured < MaxPackets
  /\ captured' = captured + 1
  /\ packet_time' = now
  /\ starting_time' = IF starting_time = 0 THEN now ELSE starting_time
  /\ UpdateDataSets(ip, now, seqno)
  /\ count' = [count EXCEPT ![ip][now] = @ + 1]
  /\ pc' = "posting_test"
  /\ UNCHANGED <<now, high, max_update_time, queue, restarts, posted, watermark>>

PostingDue == now - starting_time > RrdUpdateSize

(* Nothing to post yet: back to pcap_loop.                                 *)
SkipPosting ==
  /\ pc = "posting_test"
  /\ ~ PostingDue
  /\ pc' = "capture"
  /\ UNCHANGED <<now, captured, packet_time, starting_time, max_update_time,
                 received_meps, lost_meps, last_seqnos, queue, restarts,
                 high, count, posted, watermark>>

(* What the WriteRRDs constructor copies out of the maps.                  *)
Batch(cut) ==
  [received |-> [ip \in Ip |->
                   Restrict(received_meps[ip], Below(received_meps[ip], cut))],
   lost     |-> [ip \in Ip |->
                   Restrict(lost_meps[ip], Below(received_meps[ip], cut))]]

(* History: every packet of the batch joins those posted before.           *)
AddPosted(batch) ==
  posted' = [ip \in Ip |-> [m \in Minute |->
    posted[ip][m] + (IF m \in DOMAIN batch.received[ip]
                     THEN batch.received[ip][m] ELSE 0)]]

(* Slip: the threshold is forgotten, the cut is the time of the posting.   *)
EnqueueUpToNow ==
  /\ pc = "posting_test"
  /\ PostingDue
  /\ max_update_time' = now
  /\ queue' = Append(queue, Batch(now))
  /\ AddPosted(Batch(now))
  /\ watermark' = now
  /\ pc' = "remove"
  /\ UNCHANGED <<now, captured, packet_time, starting_time, received_meps,
                 lost_meps, last_seqnos, restarts, high, count>>

EnqueueWriteRRDs ==
  /\ pc = "posting_test"
  /\ PostingDue
  /\ max_update_time' = now - ThresholdMinutes
  /\ queue' = Append(queue, Batch(max_update_time'))
  /\ AddPosted(Batch(max_update_time'))
  /\ watermark' = max_update_time'
  /\ pc' = "remove"
  /\ UNCHANGED <<now, captured, packet_time, starting_time, received_meps,
                 lost_meps, last_seqnos, restarts, high, count>>

(* Drop what lies below the cut and restart the posting timer.            *)
RemoveBelow(cut, start) ==
  LET Kept(map) == Restrict(map, DOMAIN map \ Below(map, cut))
  IN  /\ pc = "remove"
      /\ received_meps' = [ip \in Ip |-> Kept(received_meps[ip])]
      /\ lost_meps' = [ip \in Ip |-> Kept(lost_meps[ip])]
      /\ starting_time' = start
      /\ pc' = "capture"
      /\ UNCHANGED <<now, captured, packet_time, max_update_time, last_seqnos,
                     queue, restarts, high, count, posted, watermark>>

(* Slips: the clock read a third time for the cut, _starting_time left as  *)
(* it was, and _starting_time set to the cut.                              *)
RemoveBelowNow ==
  RemoveBelow(now - ThresholdMinutes, max_update_time + ThresholdMinutes)

RemoveAndKeepTimer == RemoveBelow(max_update_time, starting_time)

RemoveAndStartAtCut == RemoveBelow(max_update_time, max_update_time)

(* _starting_time gets the time of the posting test, which                 *)
(* _max_update_time was computed from.                                     *)
RemoveOldieUpdates ==
  RemoveBelow(max_update_time, max_update_time + ThresholdMinutes)
-----------------------------------------------------------------------------
(* The world around the thread: the clock and the life of the process.     *)
Tick ==
  /\ now < MaxMinute
  /\ pc = "capture" \/ now + 1 - packet_time <= MaxLag
  /\ now' = now + 1
  /\ high' = IF now' > high THEN now' ELSE high
  /\ UNCHANGED <<pc, captured, packet_time, starting_time, max_update_time,
                 received_meps, lost_meps, last_seqnos, queue, restarts,
                 count, posted, watermark>>

SetClockBack ==
  /\ now > 1 /\ now - 1 >= high - ClockSlack
  /\ now' = now - 1
  /\ UNCHANGED <<pc, captured, packet_time, starting_time, max_update_time,
                 received_meps, lost_meps, last_seqnos, queue, restarts,
                 high, count, posted, watermark>>

(* A TBB worker takes the task that was enqueued first.                    *)
TakeTask ==
  /\ queue # << >>
  /\ queue' = Tail(queue)
  /\ UNCHANGED <<now, pc, captured, packet_time, starting_time,
                 max_update_time, received_meps, lost_meps, last_seqnos,
                 restarts, high, count, posted, watermark>>

(* The process dies and starts again: maps, timers and tasks are gone.     *)
Restart ==
  /\ restarts < MaxRestarts
  /\ restarts' = restarts + 1
  /\ pc' = "capture"
  /\ packet_time' = 0 /\ starting_time' = 0 /\ max_update_time' = 0
  /\ received_meps' = NoMeps
  /\ lost_meps' = NoMeps
  /\ last_seqnos' = [ip \in Ip |-> 0]
  /\ queue' = << >>
  /\ count' = posted
  /\ UNCHANGED <<now, high, captured, posted, watermark>>

CaptureThread ==
  \/ \E ip \in Ip, seqno \in Seqnos : DispatchPacket(ip, seqno)
  \/ SkipPosting
  \/ EnqueueWriteRRDs
  \/ RemoveOldieUpdates

Next ==
  \/ CaptureThread
  \/ TakeTask
  \/ Tick
  \/ SetClockBack
  \/ Restart

Spec == Init /\ [][Next]_vars
-----------------------------------------------------------------------------
(* A map<string, map<int, int> > from devices and minutes, and what a      *)
(* WriteRRDs task carries.                                                 *)
IsMeps(meps) ==
  /\ DOMAIN meps = Ip
  /\ \A ip \in Ip : /\ DOMAIN meps[ip] \subseteq Minute
                    /\ meps[ip] \in [DOMAIN meps[ip] -> Nat]

Paired(received, lost) == \A ip \in Ip : DOMAIN lost[ip] = DOMAIN received[ip]

IsBatch(b) == IsMeps(b.received) /\ IsMeps(b.lost) /\ Paired(b.received, b.lost)

(* Type invariant of the dispatcher (MEPRRD_Dispatcher.h:68-89): received  *)
(* and lost entries always come in pairs, in the maps and in the tasks,    *)
(* and no count, cut or timer becomes negative.                            *)
TypeOK ==
  /\ now \in Minute /\ high \in Minute
  /\ pc \in {"capture", "posting_test", "remove"}
  /\ captured \in 0 .. MaxPackets
  /\ packet_time \in 0 .. MaxMinute
  /\ starting_time \in 0 .. MaxMinute
  /\ max_update_time \in 0 .. MaxMinute
  /\ IsMeps(received_meps) /\ IsMeps(lost_meps)
  /\ Paired(received_meps, lost_meps)
  /\ last_seqnos \in [Ip -> Int32]
  /\ queue \in Seq({queue[i] : i \in DOMAIN queue})
  /\ \A i \in DOMAIN queue : IsBatch(queue[i])
  /\ restarts \in 0 .. MaxRestarts
  /\ count \in [Ip -> [Minute -> Nat]]
  /\ posted \in [Ip -> [Minute -> Nat]]
  /\ watermark \in 0 .. MaxMinute
-----------------------------------------------------------------------------
(* The assumptions on the world under which the properties below hold.     *)
ClockStepsBounded == ClockSlack <= ThresholdMinutes
DispatchIsPrompt ==
  /\ MaxLag <= ThresholdMinutes
  /\ ThresholdMinutes + ClockSlack <= RrdUpdateSize

Live(ip, m) == m \in DOMAIN received_meps[ip]

(* Between the enqueueing of a batch and removeOldieUpdates a minute is    *)
(* both in the maps and in the task.                                       *)
BeingRemoved(m) == pc = "remove" /\ m < max_update_time

(* Every packet counted since the last crash is in exactly one place with  *)
(* its exact number: in the maps while its minute is open, in the posted   *)
(* tasks afterwards.  removeOldieUpdates drops what the task copied and    *)
(* nothing else, and no minute is handed to two tasks, whatever happens to *)
(* the clock between the two reads of it, and across restarts.             *)
CountedOnce ==
  \A ip \in Ip, m \in Minute :
    IF Live(ip, m)
    THEN /\ received_meps[ip][m] = count[ip][m]
         /\ posted[ip][m] = IF BeingRemoved(m) THEN count[ip][m] ELSE 0
    ELSE posted[ip][m] = count[ip][m]

(* Why CountedOnce is inductive: the watermark trails the clock by         *)
(* ThresholdMinutes, which is more than the clock can be set back, so the  *)
(* minute of a packet is never closed; and the next posting is later than  *)
(* the last one by more than RrdUpdateSize, so the watermark only rises.   *)
MinutesClose ==
  /\ now <= high /\ now >= high - ClockSlack
  /\ watermark = 0 \/ watermark + ThresholdMinutes <= high
  /\ pc = "remove" => max_update_time = watermark
  /\ pc = "posting_test" => starting_time # 0
  /\ pc # "remove" /\ starting_time # 0 => starting_time >= watermark
  /\ \A ip \in Ip, m \in Minute :
       /\ Live(ip, m) => m >= watermark \/ BeingRemoved(m)
       /\ posted[ip][m] > 0 => m < watermark

(* One packet adds at most OutlierGap - 1 losses to its minute and the     *)
(* first packet of a minute adds none, so the losses of a minute are       *)
(* bounded by its packets whatever numbers the devices send, also where    *)
(* the sequence numbers wrap around the int.                               *)
LossBound(received, lost) ==
  \A ip \in Ip : \A m \in DOMAIN received[ip] :
    /\ received[ip][m] >= 1
    /\ lost[ip][m] <= (OutlierGap - 1) * (received[ip][m] - 1)

LossBounded ==
  /\ LossBound(received_meps, lost_meps)
  /\ \A i \in DOMAIN queue : LossBound(queue[i].received, queue[i].lost)

(* Every task has something to write: the posting test fires on the age of *)
(* _starting_time, the batch is cut ThresholdMinutes before now, and a     *)
(* minute between the two is always in the maps.  rrd_update_r without a   *)
(* value is an error.                                                      *)
NoEmptyBatch ==
  \A i \in DOMAIN queue : \E ip \in Ip : DOMAIN queue[i].received[ip] # {}

(* Why NoEmptyBatch is inductive: while _starting_time runs, some minute   *)
(* of the maps is not later than it, but for the clock being set back; and *)
(* a posting leaves the minute of the packet that triggered it.            *)
MinuteAtHand ==
  /\ now <= high /\ now >= high - ClockSlack
  /\ pc # "capture" => packet_time <= high /\ \E ip \in Ip : Live(ip, packet_time)
  /\ pc = "posting_test" => now - packet_time <= MaxLag /\ starting_time # 0
  /\ pc = "remove" =>
       /\ packet_time >= max_update_time + ThresholdMinutes - MaxLag
       /\ packet_time <= max_update_time + ThresholdMinutes + ClockSlack
  /\ pc # "remove" /\ starting_time # 0 =>
       \E ip \in Ip : \E m \in DOMAIN received_meps[ip] :
         m <= starting_time + ClockSlack

(* The dispatcher implements the ledger: a posting closes every minute     *)
(* below its cut, and a closed minute is never counted into again.         *)
Ledger == INSTANCE MinuteLedger
ImplementsLedger == Ledger!Spec
=============================================================================
