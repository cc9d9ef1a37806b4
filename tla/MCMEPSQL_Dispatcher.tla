------------------------ MODULE MCMEPSQL_Dispatcher ------------------------
(* Instances of the row-per-loss dispatcher for TLC.                       *)
EXTENDS MEPSQL_Dispatcher

(* Zero, and what else memory may hold: behind the stream, inside it,      *)
(* ahead of it and negative.                                               *)
AnySeqno == {0, 1, 20, 28, 31, -32, -10}
=============================================================================
