------------------------------ MODULE MEPFeed ------------------------------
(***************************************************************************)
(* The dispatcher together with what it measures.  Each device numbers its *)
(* MEP requests one by one, in an int that wraps around; the network drops *)
(* some of them, and delays some until others have overtaken them.  The    *)
(* devices and the network are external.  Without the delays this is the   *)
(* traffic of mep_gen, where one request in two is missing at random.      *)
(***************************************************************************)
EXTENDS MEPRRD_Dispatcher, FiniteSets

CONSTANTS
  FirstSeqnos,  \* where a device's numbering may start
  MaxSkip,      \* the most requests dropped in a row
  MaxDelayed,   \* delayed requests of a device at a time
  MaxOvertakes  \* how far a device's numbers run ahead of a delayed one

ASSUME FeedAssumption ==
  /\ FirstSeqnos \subseteq Int32
  /\ MaxSkip \in 0 .. HalfRange
  /\ MaxDelayed \in Nat
  /\ MaxOvertakes \in 0 .. HalfRange - 1

(* The dispatcher takes any number that a device may send.                 *)
EveryInt == Seqnos = Int32

VARIABLES
  sent,     \* the number of a device's latest request that was not dropped
  delayed,  \* device -> the numbers of its requests still on their way
  delays,   \* requests of a device ever delayed, over the life of the process
  dropped,  \* device -> minute -> requests missing before the packets of
            \* the minute, over the life of the process
  excused   \* those of them the dispatcher says nothing about

feedVars == <<sent, delayed, delays, dropped, excused>>

FeedInit ==
  /\ Init
  /\ sent \in [Ip -> FirstSeqnos]
  /\ delayed = [ip \in Ip |-> {}]
  /\ delays = [ip \in Ip |-> 0]
  /\ dropped = NoPackets
  /\ excused = NoPackets

(* The first packet of a minute, a jump beyond OutlierGap, or a number so  *)
(* close to the end of the int that the outlier test itself overflows.     *)
Excused(ip, skipped) ==
  \/ count[ip][now] = 0
  \/ skipped >= OutlierGap
  \/ sent[ip] + OutlierGap >= HalfRange

(* A device's next request, skipped numbers after the last one; a delayed  *)
(* one is overtaken by so many numbers and no more.                        *)
Send(ip, skipped) ==
  /\ \A seqno \in delayed[ip] :
       Wrap(sent[ip] - seqno) + skipped + 1 <= MaxOvertakes
  /\ sent' = [sent EXCEPT ![ip] = Wrap(@ + skipped + 1)]

(* The network drops skipped requests of a device and delivers the next.   *)
Deliver(ip, skipped) ==
  /\ Send(ip, skipped)
  /\ DispatchPacket(ip, sent'[ip])
  /\ dropped' = [dropped EXCEPT ![ip][now] = @ + skipped]
  /\ excused' = [excused EXCEPT
       ![ip][now] = @ + IF Excused(ip, skipped) THEN skipped ELSE 0]
  /\ UNCHANGED <<delayed, delays>>

Delay(ip) ==
  /\ captured < MaxPackets
  /\ Cardinality(delayed[ip]) < MaxDelayed
  /\ Send(ip, 0)
  /\ delayed' = [delayed EXCEPT ![ip] = @ \cup {sent'[ip]}]
  /\ delays' = [delays EXCEPT ![ip] = @ + 1]
  /\ UNCHANGED <<vars, dropped, excused>>

DeliverDelayed(ip) ==
  /\ \E seqno \in delayed[ip] :
       /\ DispatchPacket(ip, seqno)
       /\ delayed' = [delayed EXCEPT ![ip] = @ \ {seqno}]
  /\ UNCHANGED <<sent, delays, dropped, excused>>

(* The network drops the requests that come while the poller is down, the  *)
(* delayed ones included.                                                  *)
Outage ==
  /\ Restart
  /\ \E ip \in Ip, skipped \in 0 .. MaxSkip :
       sent' = [sent EXCEPT ![ip] = Wrap(@ + skipped)]
  /\ delayed' = [ip \in Ip |-> {}]
  /\ delays' = [ip \in Ip |-> 0]
  /\ dropped' = NoPackets
  /\ excused' = NoPackets

FeedNext ==
  \/ \E ip \in Ip, skipped \in 0 .. MaxSkip : Deliver(ip, skipped)
  \/ \E ip \in Ip : Delay(ip) \/ DeliverDelayed(ip)
  \/ /\ SkipPosting \/ EnqueueWriteRRDs \/ RemoveOldieUpdates
        \/ Tick \/ SetClockBack
     /\ UNCHANGED feedVars
  \/ Outage

FeedSpec == FeedInit /\ [][FeedNext]_<<vars, feedVars>>
-----------------------------------------------------------------------------
(* The losses on record: those of the maps and those of every task.        *)
Records == {lost_meps} \cup {queue[i].lost : i \in DOMAIN queue}

(* Every loss the poller records was one, as long as the order is kept:    *)
(* where the int wraps, after a restart, across minutes and postings, no   *)
(* minute is charged more requests than the network dropped before its     *)
(* packets.  Each request that comes late adds itself, when it is passed,  *)
(* and at most the numbers that passed it, which are looked at again.      *)
LossIsReal ==
  \A lost \in Records :
    \A ip \in Ip : \A m \in DOMAIN lost[ip] :
      lost[ip][m] <= dropped[ip][m] + (MaxOvertakes + 1) * delays[ip]

(* As long as the order is kept every loss is recorded, in its minute and  *)
(* once, save the excused ones: those before the first packet of a minute, *)
(* those in an outlier, and those at the end of the int.                   *)
LossIsSeen ==
  \A lost \in Records :
    \A ip \in Ip : \A m \in DOMAIN lost[ip] :
      delays[ip] = 0 => dropped[ip][m] <= lost[ip][m] + excused[ip][m]
=============================================================================
