------------------------------ MODULE RRDFile ------------------------------
(***************************************************************************)
(* External: what the poller relies on of librrd and of the file system.   *)
(* A file keeps the time of its last update and the values accepted so     *)
(* far, as a map from minute to a pair of data sources.  rrd_create_r      *)
(* writes a fresh file over whatever is there.  rrd_update_r takes its     *)
(* values in order, oldest first, and gives up at the first whose time is  *)
(* not after the last update: as the values ascend, that is all or none of *)
(* them.  An update with no value, or of a file that is not there, fails.  *)
(***************************************************************************)
EXTENDS Integers, FiniteSetsExt

Absent == [exists |-> FALSE, last_up |-> 0, data |-> << >>]

Created == [exists |-> TRUE, last_up |-> 0, data |-> << >>]

Accepts(file, values) ==
  /\ file.exists
  /\ DOMAIN values # {}
  /\ Min(DOMAIN values) > file.last_up

Merge(old, new) ==
  [m \in DOMAIN old \cup DOMAIN new |->
     IF m \in DOMAIN new THEN new[m] ELSE old[m]]

Updated(file, values) ==
  IF Accepts(file, values)
  THEN [file EXCEPT !.last_up = Max(DOMAIN values),
                    !.data = Merge(@, values)]
  ELSE file
=============================================================================
