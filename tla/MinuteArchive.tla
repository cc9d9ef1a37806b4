--------------------------- MODULE MinuteArchive ---------------------------
(***************************************************************************)
(* What the poller promises of its files, without tasks, batches or files  *)
(* that come into being.  Minutes are posted in order, for all devices     *)
(* together, and a posted count is final.  A device's archive only grows   *)
(* at its end, by posted minutes with their posted counts; it may skip     *)
(* some, those of a task that died with the process or of an update that   *)
(* failed.                                                                 *)
(***************************************************************************)
EXTENDS Naturals

CONSTANTS Ip, Minute

VARIABLES
  posted,   \* device -> minute -> packets posted, 0 when none
  stored    \* device -> the minutes of its archive -> packets

vars == <<posted, stored>>

Posted(ip) == {m \in Minute : posted[ip][m] > 0}

Init ==
  /\ posted = [ip \in Ip |-> [m \in Minute |-> 0]]
  /\ stored = [ip \in Ip |-> << >>]

(* New minutes of any device are later than all old ones of every device.  *)
Post ==
  /\ posted' # posted
  /\ \A ip \in Ip : \A m \in Posted(ip) : posted'[ip][m] = posted[ip][m]
  /\ \A ip, jp \in Ip : \A m \in Posted(ip)' \ Posted(ip), n \in Posted(jp) :
       m > n
  /\ UNCHANGED stored

Store(ip, new) ==
  /\ new # {}
  /\ \A m \in new : posted[ip][m] > 0 /\ \A n \in DOMAIN stored[ip] : m > n
  /\ stored' = [stored EXCEPT
       ![ip] = [m \in DOMAIN @ \cup new |->
                  IF m \in new THEN posted[ip][m] ELSE @[m]]]
  /\ UNCHANGED posted

Next ==
  \/ Post
  \/ \E ip \in Ip : Store(ip, DOMAIN stored'[ip] \ DOMAIN stored[ip])

Spec == Init /\ [][Next]_vars
=============================================================================
