---------------------------- MODULE SeqnoStream ----------------------------
(***************************************************************************)
(* What a poller may assume of the numbers of one source of requests:      *)
(* every number is later than the one before, and what is missing between  *)
(* them is at most one number and two more for each request that failed    *)
(* to leave the source since the last one did.  The int wraps around.      *)
(***************************************************************************)
EXTENDS CInt

VARIABLES
  last,     \* the number of the latest request
  failed    \* requests that failed since

Init == last \in Int32 /\ failed = 0

Fail ==
  /\ failed' = failed + 1
  /\ UNCHANGED last

Send(skipped) ==
  /\ last' = Wrap(last + 1 + skipped)
  /\ failed' = 0

Next ==
  \/ Fail
  \/ \E skipped \in 0 .. 2 * failed + 1 : Send(skipped)

Spec == Init /\ [][Next]_<<last, failed>>
=============================================================================
