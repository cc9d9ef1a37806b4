------------------------------- MODULE Frames -------------------------------
(***************************************************************************)
(* What the packet classes make of a frame.  They overlay the headers on   *)
(* its octets, so every frame has all fields, whatever it really carries:  *)
(* ether_type is never looked at.                                          *)
(***************************************************************************)
EXTENDS Naturals

SizeEthernet == 14
MepReqLen == 44
SnapLen == 1518    \* octets of a frame that pcap captures

Nibble == 0 .. 15
Octet == 0 .. 255
Word == 0 .. 65535

(* ipv4 says whether ether_type is that of IPv4, ihl is ip_header.         *)
Frame ==
  [len : Nat, ipv4 : BOOLEAN, ihl : Nibble, protocol : Octet,
   ud_length : Word, th_offset : Nibble]

SizeIp(f) == f.ihl * 4

IsIp(f) == SizeIp(f) >= 20

(* Slip: a frame that can hold a request, whatever its size.               *)
IsLongMEP(f) ==
  IsIp(f) /\ f.protocol = 253 /\ f.len >= SizeEthernet + SizeIp(f) + MepReqLen

(* processPacket of a MEPPacket, a UDPPacket and a TCPPacket.              *)
IsMEP(f) ==
  IsIp(f) /\ f.protocol = 253 /\ f.len = SizeEthernet + SizeIp(f) + MepReqLen

IsUDP(f) == IsIp(f) /\ f.protocol = 17 /\ f.ud_length >= 8

IsTCP(f) == IsIp(f) /\ f.protocol = 6 /\ f.th_offset * 4 >= 20

Takes(kind, f) ==
  CASE kind = "mep" -> IsMEP(f)
    [] kind = "udp" -> IsUDP(f)
    [] kind = "tcp" -> IsTCP(f)

(* The filter expression of main: ip[9] == 253.                            *)
Passes(f) == f.ipv4 /\ f.protocol = 253
=============================================================================
