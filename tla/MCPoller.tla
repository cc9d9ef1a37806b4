------------------------------ MODULE MCPoller ------------------------------
(* Instances of the whole poller for TLC.                                  *)
EXTENDS Poller

CONSTANTS ip1, ip2

Devices == {ip1, ip2}
DeviceOrder == <<ip1, ip2>>

OneSeqno == {1}

(* Enough for one lost MEP between two packets.                            *)
GapSeqnos == {1, 3}
=============================================================================
