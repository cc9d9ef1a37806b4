---------------------------- MODULE MinuteLedger ----------------------------
(***************************************************************************)
(* What the dispatcher promises of its per-minute statistics, without its  *)
(* maps, its clock or its timers.  Packets are counted per device and      *)
(* minute; now and then every minute below a watermark is posted, with the *)
(* counts it has.  Nothing is ever counted below the watermark again, so   *)
(* a minute is posted once and its posted count is final.  A restart loses *)
(* exactly what was not posted yet.                                        *)
(***************************************************************************)
EXTENDS Naturals

CONSTANTS Ip, Minute

VARIABLES
  count,      \* packets counted, per device and minute
  posted,     \* packets posted, per device and minute
  watermark   \* every minute below it is closed

vars == <<count, posted, watermark>>

NoPackets == [ip \in Ip |-> [m \in Minute |-> 0]]

Init ==
  /\ count = NoPackets
  /\ posted = NoPackets
  /\ watermark = 0

Count(ip, m) ==
  /\ m >= watermark
  /\ count' = [count EXCEPT ![ip][m] = @ + 1]
  /\ UNCHANGED <<posted, watermark>>

Post(w) ==
  /\ w > watermark
  /\ watermark' = w
  /\ posted' = [ip \in Ip |-> [m \in Minute |->
                  IF m < w THEN count[ip][m] ELSE 0]]
  /\ UNCHANGED count

Forget ==
  /\ count' = posted
  /\ UNCHANGED <<posted, watermark>>

Next ==
  \/ \E ip \in Ip, m \in Minute : Count(ip, m)
  \/ \E w \in Minute : Post(w)
  \/ Forget

Spec == Init /\ [][Next]_vars
=============================================================================
