------------------------------- MODULE MepGen -------------------------------
(***************************************************************************)
(* mep_gen: options, the libnet context, two prompts for the destination,  *)
(* then a loop that sends an ever increasing number.  A packet is built    *)
(* inside the context, block by block from the payload outwards, and stays *)
(* there until it is cleared.  libnet, the device and the terminal are     *)
(* external: building a block may fail, and so may writing a packet.       *)
(***************************************************************************)
EXTENDS ConnectionSetup, CInt

CONSTANTS
  PktTypes,     \* what option -t may say
  Rates,        \* what atoi may make of option -p, also below zero
  Second,       \* microseconds in a second (1000000)
  MaxFailures   \* bound of the model on writes that fail in a row

ASSUME GeneratorAssumption ==
  /\ Rates \subseteq Int
  /\ Second \in Nat
  /\ MaxFailures \in Nat
  /\ HalfRange > 2 * MaxFailures + 2

VARIABLES
  pc,            \* where main is
  pkt_type, pkt_per_second,
  usleep_units,
  mep_seqno,
  protocol,
  packet,        \* the blocks in the libnet context
  (* History: what no variable of the program holds.                       *)
  typed,         \* the input
  wire,          \* the packet last written
  sent_seqno,    \* its number
  failures       \* writes that failed since

options == <<pkt_type, pkt_per_second>>
history == <<typed, wire, sent_seqno, failures>>
vars == <<pc, options, conn, usleep_units, mep_seqno, protocol, packet, history>>

Init ==
  /\ pc = "options"
  /\ pkt_type = "udp" /\ pkt_per_second = 10
  /\ ConnInit
  /\ usleep_units = 0
  /\ mep_seqno = 1
  /\ protocol = "uninitialised"
  /\ packet = << >>
  /\ typed = << >>
  /\ wire = << >>
  /\ sent_seqno = 1
  /\ failures = 0
-----------------------------------------------------------------------------
(* To the next statement of main, or out of it with a message.             *)
GoTo(here, next) ==
  /\ pc = here
  /\ pc' = next

GetOptions ==
  /\ GoTo("options", "init") \/ GoTo("options", "exit")
  /\ pkt_type' \in PktTypes
  /\ pkt_per_second' \in Rates
  /\ UNCHANGED <<conn, usleep_units, mep_seqno, protocol, packet, history>>

LibnetInit ==
  /\ GoTo("init", "prompt") \/ GoTo("init", "exit")
  /\ UNCHANGED <<options, conn, usleep_units, mep_seqno, protocol, packet, history>>

Prompt ==
  /\ typed' \in Inputs
  /\ conn' = SetRxInteractively(NewConnection, typed')
  /\ GoTo("prompt", IF conn'.rx_addr = NoAddress THEN "exit" ELSE "pause")
  /\ UNCHANGED <<options, usleep_units, mep_seqno, protocol, packet, wire,
                 sent_seqno, failures>>

(* The division of C, toward zero, where a is not negative.                *)
Quotient(a, b) == IF b > 0 THEN a \div b ELSE -(a \div (-b))

(* Option -p 0, or one that is no number, divides by zero; a rate below    *)
(* zero is not refused either, and its pause is below zero.                *)
ComputePause ==
  /\ GoTo("pause", IF pkt_per_second = 0 THEN "crash" ELSE "draw")
  /\ usleep_units' = IF pkt_per_second = 0 THEN 0 ELSE Quotient(Second, pkt_per_second)
  /\ UNCHANGED <<options, conn, mep_seqno, protocol, packet, history>>

(* Slip: rand() % 3.                                                       *)
RandomIncrementByThree ==
  /\ GoTo("draw", "transport")
  /\ \E r \in 1 .. 3 : mep_seqno' = Wrap(mep_seqno + r)
  /\ UNCHANGED <<options, conn, usleep_units, protocol, packet, history>>

(* time(NULL) + mep_seqno seeds it: any of the two may come.               *)
RandomIncrement ==
  /\ GoTo("draw", "transport")
  /\ \E r \in 1 .. 2 : mep_seqno' = Wrap(mep_seqno + r)
  /\ UNCHANGED <<options, conn, usleep_units, protocol, packet, history>>

KnownType == pkt_type \in {"udp", "icmp"}

Built(block, next) ==
  \/ /\ packet' = Append(packet, block)
     /\ pc' = next
  \/ /\ pc' = "exit"
     /\ UNCHANGED packet

(* A type that is neither is not refused: nothing is built and protocol is *)
(* never set.                                                              *)
BuildTransport ==
  /\ pc = "transport"
  /\ IF KnownType
     THEN /\ Built([layer |-> pkt_type, seqno |-> mep_seqno], "ipv4")
          /\ protocol' = IF pc' = "ipv4" THEN pkt_type ELSE protocol
     ELSE /\ pc' = "ipv4"
          /\ UNCHANGED <<packet, protocol>>
  /\ UNCHANGED <<options, conn, usleep_units, mep_seqno, history>>

(* Slip: the address of the sender.                                        *)
BuildIpv4ToSender ==
  /\ pc = "ipv4"
  /\ Built([layer |-> "ipv4", protocol |-> protocol, dst |-> conn.tx_addr],
           "ethernet")
  /\ UNCHANGED <<options, conn, usleep_units, mep_seqno, protocol, history>>

BuildIpv4 ==
  /\ pc = "ipv4"
  /\ Built([layer |-> "ipv4", protocol |-> protocol, dst |-> conn.rx_addr],
           "ethernet")
  /\ UNCHANGED <<options, conn, usleep_units, mep_seqno, protocol, history>>

(* Six octets are copied, whatever libnet_hex_aton read: from a null       *)
(* pointer, or from beyond what it allocated.                              *)
BuildEthernet ==
  /\ pc = "ethernet"
  /\ \/ /\ conn.rx_octets # Null
        /\ Built([layer |-> "ethernet", dst |-> conn.rx_octets,
                  whole |-> conn.length >= 6], "write")
     \/ /\ conn.rx_octets = Null
        /\ pc' \in {"crash", "exit"}
        /\ UNCHANGED packet
  /\ UNCHANGED <<options, conn, usleep_units, mep_seqno, protocol, history>>

Write ==
  /\ GoTo("write", "sleep")
  /\ \/ /\ wire' = packet
        /\ sent_seqno' = mep_seqno
        /\ failures' = 0
     \/ /\ failures < MaxFailures
        /\ failures' = failures + 1
        /\ UNCHANGED <<wire, sent_seqno>>
  /\ UNCHANGED <<options, conn, usleep_units, mep_seqno, protocol, packet, typed>>

(* Slip: only what was written is cleared.                                 *)
ClearWrittenPacket ==
  /\ GoTo("sleep", "draw")
  /\ packet' = IF failures = 0 THEN << >> ELSE packet
  /\ UNCHANGED <<options, conn, usleep_units, mep_seqno, protocol, history>>

ClearPacket ==
  /\ GoTo("sleep", "draw")
  /\ packet' = << >>
  /\ UNCHANGED <<options, conn, usleep_units, mep_seqno, protocol, history>>

Next ==
  \/ GetOptions
  \/ LibnetInit
  \/ Prompt
  \/ ComputePause
  \/ RandomIncrement
  \/ BuildTransport
  \/ BuildIpv4
  \/ BuildEthernet
  \/ Write
  \/ ClearPacket

Spec == Init /\ [][Next]_vars
-----------------------------------------------------------------------------
(* Type invariant of main (mep_gen/main.cpp:113-205): no more than three   *)
(* blocks are ever in the context.  The pause has no more than a second    *)
(* either way; usleep takes one below zero as an unsigned number, over an  *)
(* hour.                                                                   *)
TypeOK ==
  /\ pc \in {"options", "init", "prompt", "pause", "draw", "transport", "ipv4",
             "ethernet", "write", "sleep", "exit", "crash"}
  /\ pkt_type \in PktTypes \cup {"udp"}
  /\ pkt_per_second \in Rates \cup {10}
  /\ DOMAIN conn = DOMAIN NewConnection
  /\ usleep_units \in -Second .. Second
  /\ mep_seqno \in Int32 /\ sent_seqno \in Int32
  /\ protocol \in {"udp", "icmp", "uninitialised"}
  /\ Len(packet) <= 3
  /\ failures \in 0 .. MaxFailures

(* Every packet on the wire is made of this round's blocks, in the order   *)
(* of its layers and each once, also after rounds whose write failed, and  *)
(* its protocol is that of its payload.                                    *)
WireWellFormed ==
  wire # << >> /\ KnownType =>
    /\ Len(wire) = 3
    /\ wire[1] = [layer |-> pkt_type, seqno |-> sent_seqno]
    /\ wire[2].layer = "ipv4" /\ wire[2].protocol = pkt_type
    /\ wire[3].layer = "ethernet"

(* Two words that fit their prompts.                                       *)
TypedFits ==
  Len(typed) >= 2 /\ After15[typed[1]] = NoText /\ First17[typed[2]] = typed[2]

(* What was typed is where packets go, for whatever is typed within the    *)
(* widths of the prompts, and never to what is no IP address or no MAC at  *)
(* all; a MAC of fewer than six octets is sent to, with what lies behind   *)
(* it in memory (mep_gen/main.cpp:184).                                    *)
DestinationIsTyped ==
  wire # << >> =>
    LET ip == wire[Len(wire) - 1]
        ethernet == wire[Len(wire)]
    IN  /\ ip.dst # NoAddress
        /\ TypedFits =>
             LET mac == Or(ZeroMac, typed[2])
             IN  /\ ip.dst = name2addr4[Or(Loopback, typed[1])]
                 /\ ethernet.dst = mac /\ hex_length[mac] # 0
                 /\ ethernet.whole = (hex_length[mac] >= 6)

(* The numbers on the wire are those of a source that skips at most one    *)
(* number, and two more for each write that failed since the last one.     *)
Stream == INSTANCE SeqnoStream WITH last <- sent_seqno, failed <- failures

ImplementsStream == Stream!Spec
=============================================================================
