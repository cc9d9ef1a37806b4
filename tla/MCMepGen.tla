------------------------------ MODULE MCMepGen ------------------------------
(* Instances of the generator for TLC.                                     *)
EXTENDS MepGen

(* "long" is 192.168.100.1000: its last 0 is left for the next prompt.     *)
AllTexts == {"", "y", "127.0.0.1", "00:00:00:00:00:00", "10.0.0.1",
             "255.255.255.255", "lo", "02:11", "long", "192.168.100.100", "0"}

Addresses == [t \in AllTexts |->
  IF t \in {"127.0.0.1", "10.0.0.1", "192.168.100.100"} THEN t
  ELSE IF t \in {"0", "02:11", "00:00:00:00:00:00"} THEN "0.0.0.0"
  ELSE NoAddress]

Octets == [t \in AllTexts |->
  CASE t = "00:00:00:00:00:00" -> 6
    [] t = "02:11" -> 2
    [] t = "0" -> 1
    [] OTHER -> 0]

Cut15 == [t \in AllTexts |->
  IF t = "00:00:00:00:00:00" THEN "0" ELSE IF t = "long" THEN "192.168.100.100" ELSE t]

Rest15 == [t \in AllTexts |->
  IF t \in {"long", "00:00:00:00:00:00"} THEN "0" ELSE ""]

Cut17 == [t \in AllTexts |-> t]

SomeRates == {0, 2000000, -5}

SomeInputs ==
  {<<ip, mac>> : ip \in {"y", "10.0.0.1", "255.255.255.255", "lo", "long"},
                 mac \in {"y", "00:00:00:00:00:00", "02:11", "lo"}}
  \cup {<< >>, <<"10.0.0.1">>}
=============================================================================
