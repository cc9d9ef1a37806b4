------------------------------ MODULE SeqnoGap ------------------------------
(***************************************************************************)
(* The arithmetic by which the poller decides how many MEP requests were   *)
(* lost between two packets of one device.  The sequence numbers live in   *)
(* ints, so every sum may wrap around.                                     *)
(***************************************************************************)
EXTENDS CInt

CONSTANT OutlierGap    \* a jump beyond this is an outlier, not a loss (100)

ASSUME SeqnoAssumption ==
  /\ HalfRange \in Nat
  /\ OutlierGap \in 2 .. HalfRange - 1

(* Slips: the largest loss taken for an outlier, and no outliers at all.   *)
IsOutlierOrLargest(last, seqno) == seqno >= Wrap(last + OutlierGap)

NeverOutlier(last, seqno) == FALSE

IsOutlier(last, seqno) == seqno > Wrap(last + OutlierGap)

IsGap(last, seqno) ==
  /\ ~ IsOutlier(last, seqno)
  /\ seqno > Wrap(last + 1)

(* Slip: the packet itself counted as lost.                                *)
LostUpTo(last, seqno) ==
  IF IsGap(last, seqno) THEN Wrap(seqno - last) ELSE 0

(* What one packet adds to the lost MEPs of its minute. *)
LostBetween(last, seqno) ==
  IF IsGap(last, seqno) THEN Wrap(seqno - last - 1) ELSE 0
=============================================================================
