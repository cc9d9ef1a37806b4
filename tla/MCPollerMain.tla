---------------------------- MODULE MCPollerMain ----------------------------
(* Instances of the poller's main and its callback for TLC.                *)
EXTENDS PollerMain

CONSTANTS b1, b2, b3, b4, b5

Heap == {b1, b2, b3, b4, b5}
HeapSymmetry == Permutations(Heap)

(* Fields are overlaid: a UDP length and a data offset are in every frame. *)
AFrame(len, ipv4, ihl, protocol) ==
  [len |-> len, ipv4 |-> ipv4, ihl |-> ihl, protocol |-> protocol,
   ud_length |-> 8, th_offset |-> 5]

(* A request, one too long to be captured, and frames that are no request: *)
(* UDP, TCP, no IP at all, and no IP but taken for a request.              *)
AllFrames ==
  {AFrame(78, TRUE, 5, 253), AFrame(2000, TRUE, 5, 253),
   AFrame(60, TRUE, 5, 17), AFrame(60, TRUE, 5, 6), AFrame(60, FALSE, 0, 0),
   AFrame(82, FALSE, 6, 253)}

ThreeProcessors == {"mep", "udp", "tcp"}

APair(class, copy) == [processor |-> class, class |-> class, copy |-> copy]

(* What main registers, what its comments would add, one processor object  *)
(* for all, and each class that its includes offer.                        *)
AllQueues ==
  {<<APair("mep", "delete")>>,
   <<APair("mep", "delete"), APair("mep", "buffer"), APair("mep", "touch")>>,
   <<APair("mep", "buffer"), APair("mep", "delete"), APair("udp", "leak")>>,
   <<APair("mep", "delete"), APair("tcp", "delete")>>}
=============================================================================
