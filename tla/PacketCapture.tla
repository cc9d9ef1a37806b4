--------------------------- MODULE PacketCapture ---------------------------
(***************************************************************************)
(* The pcap callback and the life of the copies it makes.  For each pair   *)
(* of dispatch_queue the packet is copied into the pair's processor object *)
(* and parsed; if the processor takes it, the dispatcher makes a second    *)
(* copy for itself; then the processor's copy is freed and its pointers    *)
(* are left as they are.  A copy is a buffer: _packet and _header, which   *)
(* are allocated and freed together.  The allocator, which may hand out    *)
(* any free buffer, also one just freed, is external.                      *)
(*                                                                         *)
(* A pair is a record: its processor, an object that other pairs may       *)
(* share, the processor's class, and what the dispatcher does with its own *)
(* copy.  "delete": MEPRRD_Dispatcher and MEPSQL_QuickDispatcher.          *)
(* "buffer": MEPSQL_Dispatcher, which deletes the oldest copies when it    *)
(* has enough.  "leak": UDPRRD_Dispatcher, which never deletes one.        *)
(* "touch": UDP_test, which writes into the copy it has just deleted.      *)
(***************************************************************************)
EXTENDS Frames, Sequences, FiniteSets, SequencesExt

CONSTANTS
  Buffers,      \* the heap
  NoBuffer,     \* a pointer that was never set
  Captured,     \* the frames the network may bring
  Processors,   \* the packet objects of main
  KeptSize,     \* packets MEPSQL_Dispatcher holds before it deletes (20)
  DeleteSize,   \* packets it then deletes, oldest first (10)
  MaxFrames     \* bound of the model on the frames captured

ASSUME CaptureAssumption ==
  /\ NoBuffer \notin Buffers
  /\ Captured \subseteq Frame /\ Captured # {}
  /\ MaxFrames \in Nat /\ KeptSize \in Nat
  /\ DeleteSize \in 1 .. KeptSize

Pair ==
  [processor : Processors, class : {"mep", "udp", "tcp"},
   copy : {"delete", "buffer", "leak", "touch"}]

VARIABLES
  dispatch_queue,
  count,    \* frames captured
  frame,    \* the frame being handled, a number
  pair,     \* i in the loop over dispatch_queue
  step,     \* where in the body of the loop
  heap,     \* buffer -> the number of the frame it holds, 0 when free
  own,      \* processor -> its _packet
  kept,     \* pair -> buffers of the packets its dispatcher holds
  held,     \* history: the frames those packets are copies of
  faults    \* history: frees, reads and writes of what is not allocated

vars == <<dispatch_queue, count, frame, pair, step, heap, own, kept, held, faults>>

Init ==
  /\ dispatch_queue = << >>
  /\ count = 0
  /\ frame = CHOOSE f \in Captured : TRUE
  /\ pair = 1
  /\ step = "wait"
  /\ heap = [b \in Buffers |-> 0]
  /\ own = [p \in Processors |-> NoBuffer]
  /\ kept = << >>
  /\ held = << >>
  /\ faults = {}
-----------------------------------------------------------------------------
IsLive(b) == b \in Buffers /\ heap[b] # 0

(* free() of every buffer of a set.                                        *)
Freed(bs) == [b \in Buffers |-> IF b \in bs THEN 0 ELSE heap[b]]

FreeFaults(bs) == IF \A b \in bs : IsLive(b) THEN {} ELSE {"free"}

Current == dispatch_queue[pair]
Processed == own[Current.processor]

ReadFaults == IF heap[Processed] = count THEN {} ELSE {"read"}

AddDispatcher(p) ==
  /\ dispatch_queue' = Append(dispatch_queue, p)
  /\ kept' = Append(kept, << >>)
  /\ held' = Append(held, << >>)
  /\ UNCHANGED <<count, frame, pair, step, heap, own, faults>>

(* pcap_loop hands a frame to the callback.                                *)
Capture(f) ==
  /\ step = "wait"
  /\ count < MaxFrames
  /\ count' = count + 1
  /\ frame' = f
  /\ pair' = 1
  /\ step' = "process"
  /\ UNCHANGED <<dispatch_queue, heap, own, kept, held, faults>>

ReturnFromLoop ==
  /\ step = "process"
  /\ pair > Len(dispatch_queue)
  /\ step' = "wait"
  /\ UNCHANGED <<dispatch_queue, count, frame, pair, heap, own, kept, held, faults>>

(* cloneHeaderAndPacket overwrites the pointers, then the clone is parsed. *)
(* A TCPPacket parses pcap's own buffer and makes no clone.                *)
ProcessPacket ==
  /\ step = "process"
  /\ pair <= Len(dispatch_queue)
  /\ IF Current.class = "tcp" THEN UNCHANGED <<heap, own>>
     ELSE \E b \in Buffers :
            /\ heap[b] = 0
            /\ heap' = [heap EXCEPT ![b] = count]
            /\ own' = [own EXCEPT ![Current.processor] = b]
  /\ step' = IF Takes(Current.class, frame) THEN "dispatch" ELSE "free"
  /\ UNCHANGED <<dispatch_queue, count, frame, pair, kept, held, faults>>

(* The dispatcher's copy is made from the processor's _packet and _header: *)
(* a TCPPacket has none.                                                   *)
DispatchUncloned ==
  /\ step = "dispatch"
  /\ Processed = NoBuffer
  /\ faults' = faults \cup {"read"}
  /\ step' = "aborted"
  /\ UNCHANGED <<dispatch_queue, count, frame, pair, heap, own, kept, held>>

(* Slip: the dispatcher deletes the packet it was given, not its copy.     *)
DispatchAndDeleteOriginal ==
  /\ step = "dispatch"
  /\ Processed # NoBuffer
  /\ Current.copy \in {"delete", "touch"}
  /\ heap' = Freed({Processed})
  /\ faults' = faults \cup FreeFaults({Processed})
  /\ step' = "free"
  /\ UNCHANGED <<dispatch_queue, count, frame, pair, own, kept, held>>

(* The dispatcher copies the processor's copy, reads its own, and deletes  *)
(* it before it returns, or, in UDP_test, before it is done with it.       *)
DispatchAndDelete ==
  /\ step = "dispatch"
  /\ Processed # NoBuffer
  /\ Current.copy \in {"delete", "touch"}
  /\ \E b \in Buffers : heap[b] = 0
  /\ faults' = faults \cup ReadFaults
                      \cup IF Current.copy = "touch" THEN {"write"} ELSE {}
  /\ step' = "free"
  /\ UNCHANGED <<dispatch_queue, count, frame, pair, heap, own, kept, held>>

(* Slips: one packet too late, and the newest instead.                     *)
OldestTooLate(all) ==
  IF Current.copy = "buffer" /\ Len(all) > KeptSize
  THEN SubSeq(all, 1, DeleteSize) ELSE << >>

Newest(all) ==
  IF Current.copy = "buffer" /\ Len(all) >= KeptSize
  THEN SubSeq(all, Len(all) - DeleteSize + 1, Len(all)) ELSE << >>

Oldest(all) ==
  IF Current.copy = "buffer" /\ Len(all) >= KeptSize
  THEN SubSeq(all, 1, DeleteSize) ELSE << >>

(* Or it keeps its copy, and deletes the oldest ones when it has enough.   *)
DispatchAndKeep ==
  /\ step = "dispatch"
  /\ Processed # NoBuffer
  /\ Current.copy \in {"buffer", "leak"}
  /\ \E b \in Buffers :
       LET all == Append(kept[pair], b)
           n == Len(Oldest(all))
           old == ToSet(Oldest(all))
       IN  /\ heap[b] = 0
           /\ heap' = [Freed(old) EXCEPT
                ![b] = IF b \in old THEN 0 ELSE heap[Processed]]
           /\ kept' = [kept EXCEPT ![pair] = SubSeq(all, n + 1, Len(all))]
           /\ held' = [held EXCEPT
                ![pair] = SubSeq(Append(@, count), n + 1, Len(all))]
           /\ faults' = faults \cup ReadFaults
                               \cup FreeFaults(old \ {b})
  /\ step' = "free"
  /\ UNCHANGED <<dispatch_queue, count, frame, pair, own>>

(* Slip: only a frame the processor took is freed.                         *)
FreeTakenPacketAndHeader ==
  /\ step = "free"
  /\ heap' = IF Takes(Current.class, frame) THEN Freed({Processed}) ELSE heap
  /\ pair' = pair + 1
  /\ step' = "process"
  /\ UNCHANGED <<dispatch_queue, count, frame, own, kept, held, faults>>

(* free() of a pointer that was never set may end the process.             *)
FreePacketAndHeader ==
  /\ step = "free"
  /\ heap' = Freed({Processed})
  /\ faults' = faults \cup FreeFaults({Processed})
  /\ pair' = pair + 1
  /\ step' \in {"process"} \cup IF Processed = NoBuffer THEN {"aborted"} ELSE {}
  /\ UNCHANGED <<dispatch_queue, count, frame, own, kept, held>>

Callback ==
  \/ ReturnFromLoop
  \/ ProcessPacket
  \/ DispatchUncloned
  \/ DispatchAndDelete
  \/ DispatchAndKeep
  \/ FreePacketAndHeader
-----------------------------------------------------------------------------
(* Type invariant of the callback: the loop stays within dispatch_queue,   *)
(* and what MEPSQL_Dispatcher keeps is below the size at which it flushes. *)
TypeOK ==
  /\ dispatch_queue \in Seq(Pair)
  /\ count \in 0 .. MaxFrames
  /\ frame \in Captured
  /\ pair \in 1 .. Len(dispatch_queue) + 1
  /\ step \in {"wait", "process", "dispatch", "free", "aborted"}
  /\ heap \in [Buffers -> 0 .. MaxFrames]
  /\ own \in [Processors -> Buffers \cup {NoBuffer}]
  /\ DOMAIN kept = DOMAIN dispatch_queue
  /\ \A i \in DOMAIN kept :
       /\ ToSet(kept[i]) \subseteq Buffers
       /\ dispatch_queue[i].copy = "buffer" => Len(kept[i]) < KeptSize

Uses(field, value) == \E i \in DOMAIN dispatch_queue : dispatch_queue[i][field] = value

(* No buffer is freed twice or before it was ever allocated, and a         *)
(* dispatcher never copies from a processor that holds another frame or a  *)
(* freed one, although the processors' pointers dangle between frames and  *)
(* pairs share them.  Two classes are no part of this: a TCPPacket, which  *)
(* has no copy to read or free, and UDP_test, which writes to a freed one. *)
NoFaults ==
  /\ "write" \in faults => Uses("copy", "touch")
  /\ faults \cap {"read", "free"} # {} => Uses("class", "tcp")

(* Between two frames the heap holds the packets the dispatchers keep, and *)
(* nothing else: each frame frees what it allocated, taken or not.         *)
NoLeak ==
  step = "wait" =>
    {b \in Buffers : heap[b] # 0} = UNION {ToSet(kept[i]) : i \in DOMAIN kept}

(* A packet a dispatcher keeps holds its own frame until it is deleted: no *)
(* free through another pointer, and no reuse, touches it.                 *)
KeptIntact ==
  \A i \in DOMAIN kept :
    /\ Len(kept[i]) = Len(held[i])
    /\ \A j \in DOMAIN kept[i] : heap[kept[i][j]] = held[i][j]

(* A frame that reaches a dispatcher of MEP requests was captured whole,   *)
(* although as many octets are copied as the frame had on the wire and not *)
(* as many as were captured, and although nothing filters the frames: its  *)
(* size is that of its headers and a request, and four bits of header      *)
(* length keep that below SnapLen.  It passes the filter if it is IPv4.    *)
TakenIsWhole ==
  step = "dispatch" /\ Current.class = "mep" =>
    /\ frame.len <= SnapLen
    /\ frame.len >= SizeEthernet + SizeIp(frame) + MepReqLen
    /\ frame.ipv4 => Passes(frame)
=============================================================================
