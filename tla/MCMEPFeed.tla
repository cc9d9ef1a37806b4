----------------------------- MODULE MCMEPFeed -----------------------------
(* Instances of the feed for TLC.                                          *)
EXTENDS MEPFeed

(* A 4-bit int; numbering starts at zero or close to the wrap.             *)
AllSeqnos == -8 .. 7
StartSeqnos == {0, 4, 6}
=============================================================================
