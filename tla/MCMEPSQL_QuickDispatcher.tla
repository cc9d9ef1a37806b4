---------------------- MODULE MCMEPSQL_QuickDispatcher ----------------------
(* Instances of the row-per-gap dispatcher for TLC.                        *)
EXTENDS MEPSQL_QuickDispatcher, TLC

CONSTANTS ip1, ip2

Devices == {ip1, ip2}
DeviceSymmetry == Permutations(Devices)
=============================================================================
