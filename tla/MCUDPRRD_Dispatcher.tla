------------------------ MODULE MCUDPRRD_Dispatcher ------------------------
(* Instances of the UDP dispatcher for TLC.                                *)
EXTENDS UDPRRD_Dispatcher
=============================================================================
