---------------------------- MODULE MepGenProofs ----------------------------
(* The generator and its addresses, for every rate an int can hold, every  *)
(* input, every width of the int and every bound on the writes that fail.  *)
EXTENDS MepGen, SequenceTheorems, TLAPS

(* This round's number is drawn and not yet written; or it is not drawn.   *)
Drawn == pc \in {"transport", "ipv4", "ethernet", "write"}

Undrawn == pc \in {"options", "init", "prompt", "pause", "draw", "sleep"}

(* Why ImplementsStream is inductive: each round takes the number one or   *)
(* two further, and only rounds whose write failed add up.                 *)
SeqnoInv ==
  /\ sent_seqno \in Int32 /\ mep_seqno \in Int32
  /\ failures \in 0 .. MaxFailures
  /\ Drawn => \E k \in 1 .. 2 * failures + 2 : mep_seqno = Wrap(sent_seqno + k)
  /\ Undrawn => \E k \in 0 .. 2 * failures : mep_seqno = Wrap(sent_seqno + k)

(* Advancing in two steps is advancing in one.                             *)
LEMMA WrapTwice ==
  ASSUME NEW n \in Int32, NEW k \in Nat, NEW r \in 1 .. 2, k + r < HalfRange
  PROVE  /\ Wrap(Wrap(n + k) + r) = Wrap(n + (k + r))
         /\ Wrap(n + k) \in Int32
         /\ Wrap(n + (k + r)) \in Int32
BY GeneratorAssumption, IntAssumption DEF Wrap, Int32

LEMMA SeqnoInit == Init => SeqnoInv
<1>1. 1 \in Int32 /\ Wrap(1 + 0) = 1
  BY GeneratorAssumption, IntAssumption DEF Wrap, Int32
<1>. QED  BY <1>1, GeneratorAssumption DEF Init, SeqnoInv, Drawn, Undrawn

LEMMA DrawStep ==
  ASSUME SeqnoInv, RandomIncrement
  PROVE  SeqnoInv'
<1>1. Undrawn /\ ~ Undrawn' /\ UNCHANGED <<sent_seqno, failures>>
  BY DEF RandomIncrement, GoTo, Undrawn, history
<1>2. PICK k \in 0 .. 2 * failures : mep_seqno = Wrap(sent_seqno + k)
  BY <1>1 DEF SeqnoInv
<1>3. PICK r \in 1 .. 2 : mep_seqno' = Wrap(mep_seqno + r)
  BY DEF RandomIncrement
<1>4. k \in Nat /\ k + r < HalfRange /\ k + r \in 1 .. 2 * failures + 2
  BY GeneratorAssumption, IntAssumption DEF SeqnoInv
<1>5. mep_seqno' = Wrap(sent_seqno + (k + r)) /\ mep_seqno' \in Int32
  BY <1>2, <1>3, <1>4, WrapTwice DEF SeqnoInv
<1>. QED  BY <1>1, <1>4, <1>5 DEF SeqnoInv

LEMMA WriteStep ==
  ASSUME SeqnoInv, Write
  PROVE  SeqnoInv' /\ Stream!Next
<1>1. Drawn /\ ~ Drawn' /\ mep_seqno' = mep_seqno
  BY DEF Write, GoTo, Drawn
<1>2. PICK k \in 1 .. 2 * failures + 2 : mep_seqno = Wrap(sent_seqno + k)
  BY <1>1 DEF SeqnoInv
<1>3. CASE sent_seqno' = mep_seqno /\ failures' = 0
  <2>1. mep_seqno = Wrap(mep_seqno + 0)
    BY IntAssumption DEF SeqnoInv, Wrap, Int32
  <2>2. SeqnoInv'
    BY <1>1, <1>3, <2>1, GeneratorAssumption DEF SeqnoInv
  <2>3. k - 1 \in 0 .. 2 * failures + 1 /\ sent_seqno + 1 + (k - 1) = sent_seqno + k
    BY GeneratorAssumption DEF SeqnoInv, Int32
  <2>4. Stream!Send(k - 1)
    BY <1>2, <1>3, <2>3 DEF Stream!Send, Stream!Wrap, Wrap
  <2>. QED  BY <2>2, <2>3, <2>4 DEF Stream!Next
<1>4. CASE sent_seqno' = sent_seqno /\ failures < MaxFailures /\ failures' = failures + 1
  <2>1. k \in 0 .. 2 * failures' /\ failures' \in 0 .. MaxFailures
    BY <1>4, GeneratorAssumption DEF SeqnoInv
  <2>2. Stream!Fail
    BY <1>4 DEF Stream!Fail
  <2>. QED  BY <1>1, <1>2, <1>4, <2>1, <2>2 DEF SeqnoInv, Stream!Next
<1>. QED  BY <1>3, <1>4 DEF Write

LEMMA SeqnoStep ==
  SeqnoInv /\ [Next]_vars => SeqnoInv' /\ [Stream!Next]_<<sent_seqno, failures>>
<1>. SUFFICES ASSUME SeqnoInv, [Next]_vars
              PROVE  SeqnoInv' /\ [Stream!Next]_<<sent_seqno, failures>>
  OBVIOUS
<1>1. CASE GetOptions \/ LibnetInit \/ Prompt \/ ComputePause
  <2>1. Undrawn /\ ~ Drawn' /\ UNCHANGED <<mep_seqno, sent_seqno, failures>>
    BY <1>1
    DEF GetOptions, LibnetInit, Prompt, ComputePause, GoTo, Drawn, Undrawn, history
  <2>. QED  BY <2>1 DEF SeqnoInv
<1>2. CASE RandomIncrement
  BY <1>2, DrawStep DEF RandomIncrement, history
<1>3. CASE BuildTransport \/ BuildIpv4 \/ BuildEthernet
  <2>1. Drawn /\ ~ Undrawn' /\ UNCHANGED <<mep_seqno, sent_seqno, failures>>
    BY <1>3
    DEF BuildTransport, BuildIpv4, BuildEthernet, Built, Drawn, Undrawn, history
  <2>. QED  BY <2>1 DEF SeqnoInv
<1>4. CASE Write
  BY <1>4, WriteStep
<1>5. CASE ClearPacket
  <2>1. Undrawn /\ ~ Drawn' /\ UNCHANGED <<mep_seqno, sent_seqno, failures>>
    BY <1>5 DEF ClearPacket, GoTo, Drawn, Undrawn, history
  <2>. QED  BY <2>1 DEF SeqnoInv
<1>6. CASE UNCHANGED vars
  BY <1>6 DEF vars, history, SeqnoInv, Drawn, Undrawn
<1>. QED  BY <1>1, <1>2, <1>3, <1>4, <1>5, <1>6 DEF Next

(* The generator implements the stream of numbers a poller may assume: it  *)
(* skips at most one, and two more for each write that failed since the    *)
(* last one, wherever the int wraps around.                                *)
THEOREM GeneratorImplementsStream == Spec => ImplementsStream
<1>1. Init => Stream!Init
  BY SeqnoInit DEF Init, SeqnoInv, Stream!Init, Stream!Int32, Int32
<1>. QED
  BY <1>1, SeqnoInit, SeqnoStep, PTL DEF Spec, ImplementsStream, Stream!Spec
-----------------------------------------------------------------------------
(* A ConnectionSetup has its nine members, whatever they hold.             *)
Members == DOMAIN NewConnection

IsConnection(c) == c = [m \in Members |-> c[m]]

LEMMA NewIsConnection == IsConnection(NewConnection)
BY DEF IsConnection, Members, NewConnection

(* What each setter does, member by member.                                *)
LEMMA RxIpSet ==
  ASSUME NEW c, IsConnection(c), NEW text
  PROVE  SetRxIp(c, text) =
           [m \in Members |-> IF m = "rx_ip" THEN Or(Loopback, text)
                              ELSE IF m = "rx_addr" THEN name2addr4[Or(Loopback, text)]
                              ELSE c[m]]
BY DEF IsConnection, Members, NewConnection, SetRxIp

LEMMA RxMacSet ==
  ASSUME NEW c, IsConnection(c), NEW text
  PROVE  SetRxMac(c, text) =
           [m \in Members |-> IF m = "rx_mac" THEN Or(ZeroMac, text)
                              ELSE IF m = "rx_octets" THEN HexAton(Or(ZeroMac, text))
                              ELSE IF m = "length" THEN hex_length[Or(ZeroMac, text)]
                              ELSE c[m]]
BY DEF IsConnection, Members, NewConnection, SetRxMac

LEMMA TxIpSet ==
  ASSUME NEW c, IsConnection(c), NEW text
  PROVE  SetTxIp(c, text) =
           [m \in Members |-> IF m = "tx_ip" THEN text
                              ELSE IF m = "tx_addr" THEN name2addr4[c.rx_ip]
                              ELSE c[m]]
BY DEF IsConnection, Members, NewConnection, SetTxIp

LEMMA TxMacSet ==
  ASSUME NEW c, IsConnection(c), NEW text
  PROVE  SetTxMac(c, text) =
           [m \in Members |-> IF m = "tx_mac" THEN text
                              ELSE IF m = "tx_octets" THEN HexAton(text)
                              ELSE IF m = "length" THEN hex_length[text]
                              ELSE c[m]]
BY DEF IsConnection, Members, NewConnection, SetTxMac

(* set_parameters gives every member a value of its own arguments.         *)
LEMMA ParametersSet ==
  ASSUME NEW c, IsConnection(c), NEW tx_mac, NEW tx_ip, NEW rx_mac, NEW rx_ip
  PROVE  SetParameters(c, tx_mac, tx_ip, rx_mac, rx_ip) =
           [rx_ip |-> Or(Loopback, rx_ip), rx_mac |-> Or(ZeroMac, rx_mac),
            tx_ip |-> tx_ip, tx_mac |-> tx_mac,
            rx_addr |-> name2addr4[Or(Loopback, rx_ip)],
            tx_addr |-> name2addr4[Or(Loopback, rx_ip)],
            rx_octets |-> HexAton(Or(ZeroMac, rx_mac)),
            tx_octets |-> HexAton(tx_mac), length |-> hex_length[tx_mac]]
<1>. DEFINE c1 == SetRxIp(c, rx_ip)
            c2 == SetRxMac(c1, rx_mac)
            c3 == SetTxIp(c2, tx_ip)
            c4 == SetTxMac(c3, tx_mac)
<1>1. /\ IsConnection(c1)
      /\ c1 = [m \in Members |-> IF m = "rx_ip" THEN Or(Loopback, rx_ip)
                                 ELSE IF m = "rx_addr" THEN name2addr4[Or(Loopback, rx_ip)]
                                 ELSE c[m]]
  BY RxIpSet DEF IsConnection
<1>. HIDE DEF c1
<1>2. /\ IsConnection(c2)
      /\ c2 = [m \in Members |-> IF m = "rx_mac" THEN Or(ZeroMac, rx_mac)
                                 ELSE IF m = "rx_octets" THEN HexAton(Or(ZeroMac, rx_mac))
                                 ELSE IF m = "length" THEN hex_length[Or(ZeroMac, rx_mac)]
                                 ELSE c1[m]]
  BY <1>1, RxMacSet DEF IsConnection
<1>. HIDE DEF c2
<1>3. /\ IsConnection(c3)
      /\ c3 = [m \in Members |-> IF m = "tx_ip" THEN tx_ip
                                 ELSE IF m = "tx_addr" THEN name2addr4[c2.rx_ip]
                                 ELSE c2[m]]
  BY <1>2, TxIpSet DEF IsConnection
<1>. HIDE DEF c3
<1>4. c4 = [m \in Members |-> IF m = "tx_mac" THEN tx_mac
                              ELSE IF m = "tx_octets" THEN HexAton(tx_mac)
                              ELSE IF m = "length" THEN hex_length[tx_mac]
                              ELSE c3[m]]
  BY <1>3, TxMacSet DEF IsConnection
<1>5. SetParameters(c, tx_mac, tx_ip, rx_mac, rx_ip) = c4
  BY DEF SetParameters, c1, c2, c3
<1>. HIDE DEF c4
<1>6. c2.rx_ip = Or(Loopback, rx_ip)
  BY <1>1, <1>2 DEF Members, NewConnection
<1>. QED  BY <1>1, <1>2, <1>3, <1>4, <1>5, <1>6 DEF Members, NewConnection

(* Where packets go, from what was typed.                                  *)
LEMMA RxSet ==
  ASSUME NEW ip, NEW mac, NEW c, c = SetRxMac(SetRxIp(NewConnection, ip), mac)
  PROVE  /\ IsConnection(c)
         /\ c.rx_addr = name2addr4[Or(Loopback, ip)]
         /\ c.rx_octets = HexAton(Or(ZeroMac, mac))
         /\ c.length = hex_length[Or(ZeroMac, mac)]
<1>. DEFINE c1 == SetRxIp(NewConnection, ip)
<1>1. IsConnection(c1) /\ c1.rx_addr = name2addr4[Or(Loopback, ip)]
  BY NewIsConnection, RxIpSet DEF IsConnection, Members, NewConnection
<1>. HIDE DEF c1
<1>. QED  BY <1>1, RxMacSet DEF c1, IsConnection, Members, NewConnection

(* Every public call leaves a ConnectionSetup, and a new one is one.       *)
LEMMA CallStep ==
  ASSUME IsConnection(conn), [ConnNext]_conn PROVE IsConnection(conn)'
<1>. DEFINE Setters(c, d) ==
       \E text : d \in {SetRxIp(c, text), SetRxMac(c, text),
                        SetTxIp(c, text), SetTxMac(c, text)}
<1>1. ASSUME NEW c, IsConnection(c), NEW d, Setters(c, d) PROVE IsConnection(d)
  BY <1>1, RxIpSet, RxMacSet, TxIpSet, TxMacSet DEF IsConnection
<1>2. CASE \E text \in Text : Setters(conn, conn')
  BY <1>1, <1>2 DEF IsConnection
<1>3. CASE \E tx_mac, tx_ip, rx_mac, rx_ip \in Text :
             conn' = SetParameters(conn, tx_mac, tx_ip, rx_mac, rx_ip)
  BY <1>3, ParametersSet DEF IsConnection, Members, NewConnection
<1>4. CASE conn' = SetDefaultParameters(conn)
  BY <1>4 DEF SetDefaultParameters, IsConnection, Members, NewConnection
<1>5. ASSUME NEW input \in Inputs, conn' \in {SetRxInteractively(conn, input),
                                             SetTxInteractively(conn, input)}
      PROVE  IsConnection(conn')
  <2>1. \E c : Setters(conn, c) /\ Setters(c, conn')
    BY <1>5 DEF SetRxInteractively, SetTxInteractively
  <2>. HIDE DEF Setters
  <2>. QED  BY <1>1, <2>1
<1>6. CASE conn' = conn
  BY <1>6 DEF IsConnection
<1>7. IsConnection(conn') => IsConnection(conn)'
  BY DEF IsConnection
<1>. QED  BY <1>2, <1>3, <1>4, <1>5, <1>6, <1>7 DEF ConnNext

(* The generator's steps, too.                                             *)
LEMMA ConnectionStep ==
  ASSUME IsConnection(conn), [Next]_vars PROVE IsConnection(conn)'
<1>1. CASE Prompt
  BY <1>1, RxSet DEF Prompt, SetRxInteractively, IsConnection
<1>2. CASE ~ Prompt
  <2>1. conn' = conn
    BY <1>2 DEF Next, vars, GetOptions, LibnetInit, ComputePause, RandomIncrement,
                BuildTransport, BuildIpv4, BuildEthernet, Write, ClearPacket
  <2>. QED  BY <2>1 DEF IsConnection
<1>. QED  BY <1>1, <1>2

(* After any sequence of calls, with any texts, set_parameters leaves      *)
(* nothing of the addresses that were there before, whatever the new ones  *)
(* are; and so it would in the generator.                                  *)
THEOREM ParametersForget ==
  /\ ConnSpec => SetParametersForgets
  /\ Spec => SetParametersForgets
<1>. DEFINE Forgets ==
       conn' # conn => \A tx_mac, tx_ip, rx_mac, rx_ip \in Text :
         SetParameters(conn', tx_mac, tx_ip, rx_mac, rx_ip) =
           SetParameters(NewConnection, tx_mac, tx_ip, rx_mac, rx_ip)
<1>1. ConnInit => IsConnection(conn)
  BY NewIsConnection DEF ConnInit
<1>2. IsConnection(conn)' => Forgets
  BY NewIsConnection, ParametersSet DEF IsConnection
<1>3. IsConnection(conn) /\ [ConnNext]_conn => IsConnection(conn)' /\ [Forgets]_conn
  BY <1>2, CallStep
<1>4. IsConnection(conn) /\ [Next]_vars => IsConnection(conn)' /\ [Forgets]_conn
  BY <1>2, ConnectionStep
<1>5. Init => IsConnection(conn)
  BY <1>1 DEF Init
<1>. QED
  BY <1>1, <1>3, <1>4, <1>5, PTL DEF ConnSpec, Spec, SetParametersForgets
-----------------------------------------------------------------------------
(* A block added to a context of one or of two.                            *)
LEMMA AppendToOne == ASSUME NEW a, NEW b PROVE Append(<<a>>, b) = <<a, b>>
<1>. DEFINE S == {a, b}
<1>1. <<a>> \in Seq(S) /\ b \in S /\ <<a, b>> \in Seq(S)
  OBVIOUS
<1>2. /\ Append(<<a>>, b) \in Seq(S) /\ Len(Append(<<a>>, b)) = 2
      /\ Append(<<a>>, b)[1] = a /\ Append(<<a>>, b)[2] = b
  BY <1>1, AppendProperties
<1>3. /\ Len(Append(<<a>>, b)) = Len(<<a, b>>)
      /\ \A i \in 1 .. Len(Append(<<a>>, b)) : Append(<<a>>, b)[i] = <<a, b>>[i]
  BY <1>2
<1>. HIDE DEF S
<1>. QED  BY <1>1, <1>2, <1>3, SeqEqual

LEMMA AppendToTwo == ASSUME NEW a, NEW b, NEW c PROVE Append(<<a, b>>, c) = <<a, b, c>>
<1>. DEFINE S == {a, b, c}
<1>1. <<a, b>> \in Seq(S) /\ c \in S /\ <<a, b, c>> \in Seq(S)
  OBVIOUS
<1>2. /\ Append(<<a, b>>, c) \in Seq(S) /\ Len(Append(<<a, b>>, c)) = 3
      /\ Append(<<a, b>>, c)[1] = a /\ Append(<<a, b>>, c)[2] = b
      /\ Append(<<a, b>>, c)[3] = c
  BY <1>1, AppendProperties
<1>3. /\ Len(Append(<<a, b>>, c)) = Len(<<a, b, c>>)
      /\ \A i \in 1 .. Len(Append(<<a, b>>, c)) : Append(<<a, b>>, c)[i] = <<a, b, c>>[i]
  BY <1>2
<1>. HIDE DEF S
<1>. QED  BY <1>1, <1>2, <1>3, SeqEqual

(* The blocks of a round.                                                  *)
Transport(seqno) == [layer |-> pkt_type, seqno |-> seqno]

Network(p) == [layer |-> "ipv4", protocol |-> p, dst |-> conn.rx_addr]

Link == [layer |-> "ethernet", dst |-> conn.rx_octets, whole |-> conn.length >= 6]

(* Before a packet, and before there is a destination.                     *)
Starting == pc \in {"options", "init", "prompt", "pause", "draw", "transport"}

Unaddressed == pc \in {"options", "init", "prompt"}

(* Why WireWellFormed and DestinationIsTyped are inductive: the context    *)
(* holds what this round built, and nothing when a round begins; what was  *)
(* typed and asked for does not change any more once a packet is sent.     *)
PacketInv ==
  /\ Starting => packet = << >>
  /\ pc = "ipv4" => packet = IF KnownType THEN <<Transport(mep_seqno)>> ELSE << >>
  /\ pc = "ethernet" =>
       packet = IF KnownType THEN <<Transport(mep_seqno), Network(pkt_type)>>
                ELSE <<Network("uninitialised")>>
  /\ pc \in {"write", "sleep"} =>
       packet = IF KnownType THEN <<Transport(mep_seqno), Network(pkt_type), Link>>
                ELSE <<Network("uninitialised"), Link>>
  /\ pc \in {"write", "sleep"} => conn.rx_octets # Null
  /\ Len(packet) <= 3
  /\ pc \in {"ipv4", "ethernet", "write", "sleep"} /\ KnownType => protocol = pkt_type
  /\ ~ KnownType => protocol = "uninitialised"
  /\ pc \in {"options", "init", "prompt", "pause"} =>
       wire = << >> /\ protocol = "uninitialised"
  /\ ~ Unaddressed /\ pc # "exit" =>
       /\ conn = SetRxInteractively(NewConnection, typed) /\ typed \in Inputs
       /\ conn.rx_addr # NoAddress
  /\ wire # << >> =>
       /\ wire = IF KnownType THEN <<Transport(sent_seqno), Network(pkt_type), Link>>
                 ELSE <<Network("uninitialised"), Link>>
       /\ conn = SetRxInteractively(NewConnection, typed) /\ typed \in Inputs
       /\ conn.rx_addr # NoAddress /\ conn.rx_octets # Null

LEMMA PacketInit == Init => PacketInv
BY DEF Init, PacketInv, Starting, Unaddressed

LEMMA PacketStep ==
  ASSUME PacketInv, [Next]_vars
  PROVE  PacketInv'
<1>. USE DEF PacketInv, Starting, Unaddressed, KnownType, GoTo, options, history
<1>1. CASE GetOptions
  BY <1>1 DEF GetOptions
<1>2. CASE LibnetInit
  BY <1>2 DEF LibnetInit
<1>3. CASE Prompt
  BY <1>3 DEF Prompt
<1>4. CASE ComputePause
  BY <1>4 DEF ComputePause, Network, Link, Transport
<1>5. CASE RandomIncrement
  BY <1>5 DEF RandomIncrement, Network, Link, Transport
<1>6. CASE BuildTransport
  <2>1. UNCHANGED <<options, conn, mep_seqno, history>> /\ pc = "transport"
    BY <1>6 DEF BuildTransport
  <2>2. CASE KnownType /\ pc' = "ipv4"
    <3>1. packet' = Append(<< >>, Transport(mep_seqno)) /\ protocol' = pkt_type
      BY <1>6, <2>1, <2>2 DEF BuildTransport, Built, Transport
    <3>2. packet' = <<Transport(mep_seqno)>>
      BY <3>1
    <3>. QED  BY <2>1, <2>2, <3>1, <3>2 DEF Network, Link, Transport
  <2>3. CASE ~ KnownType /\ pc' = "ipv4"
    BY <1>6, <2>1, <2>3 DEF BuildTransport, Network, Link, Transport
  <2>4. CASE pc' = "exit" /\ UNCHANGED <<packet, protocol>>
    BY <2>1, <2>4 DEF Network, Link, Transport
  <2>. QED  BY <1>6, <2>2, <2>3, <2>4 DEF BuildTransport, Built
<1>7. CASE BuildIpv4
  <2>1. UNCHANGED <<options, conn, mep_seqno, protocol, history>> /\ pc = "ipv4"
    BY <1>7 DEF BuildIpv4
  <2>same. /\ Link' = Link /\ KnownType' = KnownType
        /\ \A p : [layer |-> "ipv4", protocol |-> p, dst |-> conn'.rx_addr] = Network(p)
        /\ \A n : [layer |-> pkt_type', seqno |-> n] = Transport(n)
    BY <2>1 DEF Network, Link, Transport
  <2>2. CASE pc' = "ethernet" /\ packet' = Append(packet, Network(protocol))
    <3>1. CASE KnownType
      <4>1. packet' = Append(<<Transport(mep_seqno)>>, Network(pkt_type))
        BY <2>1, <2>2, <3>1
      <4>2. packet' = <<Transport(mep_seqno), Network(pkt_type)>>
        BY <4>1, AppendToOne
      <4>3. Len(packet') <= 3
        BY <4>2
      <4>. QED  BY <2>1, <2>2, <2>same, <3>1, <4>2, <4>3 DEF Network, Transport
    <3>2. CASE ~ KnownType
      <4>1. packet' = Append(<< >>, Network("uninitialised"))
        BY <2>1, <2>2, <3>2
      <4>2. packet' = <<Network("uninitialised")>>
        BY <4>1
      <4>. QED  BY <2>1, <2>2, <3>2, <4>2 DEF Network, Link, Transport
    <3>. QED  BY <3>1, <3>2
  <2>3. CASE pc' = "exit" /\ UNCHANGED packet
    BY <2>1, <2>3 DEF Network, Link, Transport
  <2>. QED  BY <1>7, <2>2, <2>3 DEF BuildIpv4, Built, Network
<1>8. CASE BuildEthernet
  <2>1. UNCHANGED <<options, conn, mep_seqno, protocol, history>> /\ pc = "ethernet"
    BY <1>8 DEF BuildEthernet
  <2>same. /\ Link' = Link /\ KnownType' = KnownType
        /\ \A p : [layer |-> "ipv4", protocol |-> p, dst |-> conn'.rx_addr] = Network(p)
        /\ \A n : [layer |-> pkt_type', seqno |-> n] = Transport(n)
    BY <2>1 DEF Network, Link, Transport
  <2>2. CASE pc' = "write" /\ packet' = Append(packet, Link) /\ conn.rx_octets # Null
    <3>1. CASE KnownType
      <4>1. packet' = Append(<<Transport(mep_seqno), Network(pkt_type)>>, Link)
        BY <2>1, <2>2, <3>1
      <4>2. packet' = <<Transport(mep_seqno), Network(pkt_type), Link>>
        BY <4>1, AppendToTwo
      <4>3. Len(packet') <= 3
        BY <4>2
      <4>. QED  BY <2>1, <2>2, <2>same, <3>1, <4>2, <4>3 DEF Network, Transport
    <3>2. CASE ~ KnownType
      <4>1. packet' = Append(<<Network("uninitialised")>>, Link)
        BY <2>1, <2>2, <3>2
      <4>2. packet' = <<Network("uninitialised"), Link>>
        BY <4>1, AppendToOne
      <4>3. Len(packet') <= 3
        BY <4>2
      <4>. QED  BY <2>1, <2>2, <2>same, <3>2, <4>2, <4>3 DEF Network, Transport
    <3>. QED  BY <3>1, <3>2
  <2>3. CASE pc' \in {"exit", "crash"} /\ UNCHANGED packet
    BY <2>1, <2>3 DEF Network, Link, Transport
  <2>. QED  BY <1>8, <2>2, <2>3 DEF BuildEthernet, Built, Link
<1>9. CASE Write
  BY <1>9 DEF Write, Network, Link, Transport
<1>10. CASE ClearPacket
  BY <1>10 DEF ClearPacket, Network, Link, Transport
<1>11. CASE UNCHANGED vars
  BY <1>11 DEF vars, Network, Link, Transport
<1>. QED  BY <1>1, <1>2, <1>3, <1>4, <1>5, <1>6, <1>7, <1>8, <1>9, <1>10, <1>11 DEF Next

(* The pause of a rate below zero is below zero.                           *)
LEMMA PauseTyped ==
  ASSUME NEW p \in Int, p # 0 PROVE Quotient(Second, p) \in -Second .. Second
<1>1. ASSUME NEW q \in Nat, q # 0 PROVE Second \div q \in 0 .. Second
  BY <1>1, GeneratorAssumption
<1>2. CASE p > 0
  BY <1>1, <1>2, GeneratorAssumption DEF Quotient
<1>3. CASE p < 0
  <2>1. -p \in Nat /\ -p # 0 /\ Quotient(Second, p) = -(Second \div (-p))
    BY <1>3 DEF Quotient
  <2>2. Second \div (-p) \in 0 .. Second
    BY <1>1, <2>1
  <2>. QED  BY <2>1, <2>2, GeneratorAssumption
<1>. QED  BY <1>2, <1>3

(* TypeOK, but for what the other invariants say.                          *)
OptionsOK ==
  /\ pc \in {"options", "init", "prompt", "pause", "draw", "transport", "ipv4",
             "ethernet", "write", "sleep", "exit", "crash"}
  /\ pkt_type \in PktTypes \cup {"udp"}
  /\ pkt_per_second \in Rates \cup {10}
  /\ usleep_units \in -Second .. Second
  /\ protocol \in {"udp", "icmp", "uninitialised"}

GenInv == OptionsOK /\ IsConnection(conn) /\ SeqnoInv /\ PacketInv

LEMMA OptionsInit == Init => OptionsOK
BY GeneratorAssumption DEF Init, OptionsOK

LEMMA OptionsStep == ASSUME OptionsOK, [Next]_vars PROVE OptionsOK'
<1>. USE DEF OptionsOK, GoTo, options, history
<1>1. CASE ComputePause
  <2>1. CASE pkt_per_second = 0
    BY <1>1, <2>1, GeneratorAssumption DEF ComputePause
  <2>2. CASE pkt_per_second # 0
    <3>1. Quotient(Second, pkt_per_second) \in -Second .. Second
      BY <2>2, PauseTyped, GeneratorAssumption
    <3>. QED  BY <1>1, <2>2, <3>1 DEF ComputePause
  <2>. QED  BY <2>1, <2>2
<1>2. CASE GetOptions \/ LibnetInit \/ Prompt
  BY <1>2 DEF GetOptions, LibnetInit, Prompt
<1>3. CASE RandomIncrement
  BY <1>3 DEF RandomIncrement
<1>4. CASE BuildTransport
  BY <1>4 DEF BuildTransport, Built, KnownType
<1>5. CASE BuildIpv4 \/ BuildEthernet
  BY <1>5 DEF BuildIpv4, BuildEthernet, Built
<1>6. CASE Write \/ ClearPacket
  BY <1>6 DEF Write, ClearPacket
<1>7. CASE UNCHANGED vars
  BY <1>7 DEF vars
<1>. QED  BY <1>1, <1>2, <1>3, <1>4, <1>5, <1>6, <1>7 DEF Next

LEMMA GenInvHolds == Spec => []GenInv
<1>1. Init => GenInv
  BY OptionsInit, NewIsConnection, SeqnoInit, PacketInit DEF Init, ConnInit, GenInv
<1>2. GenInv /\ [Next]_vars => GenInv'
  BY OptionsStep, ConnectionStep, SeqnoStep, PacketStep DEF GenInv
<1>. QED  BY <1>1, <1>2, PTL DEF Spec

(* main keeps its types, and never puts a fourth block into the context,   *)
(* for every int that option -p may be read as.                            *)
THEOREM GeneratorTypeCorrect == Spec => []TypeOK
<1>1. GenInv => TypeOK
  BY DEF GenInv, OptionsOK, SeqnoInv, PacketInv, IsConnection, Members, TypeOK
<1>. QED  BY <1>1, GenInvHolds, PTL

(* Every packet is whole and its blocks are those of its own round.        *)
THEOREM PacketsAreWellFormed == Spec => []WireWellFormed
<1>1. GenInv => WireWellFormed
  <2>. SUFFICES ASSUME PacketInv, wire # << >>, KnownType PROVE WireWellFormed
    BY DEF GenInv, WireWellFormed
  <2>1. wire = <<Transport(sent_seqno), Network(pkt_type), Link>>
    BY DEF PacketInv
  <2>2. /\ Len(wire) = 3 /\ wire[1] = Transport(sent_seqno)
        /\ wire[2] = Network(pkt_type) /\ wire[3] = Link
    BY <2>1
  <2>. QED  BY <2>2 DEF WireWellFormed, Transport, Network, Link
<1>. QED  BY <1>1, GenInvHolds, PTL

(* Two words that fit their prompts are what the prompts read.             *)
LEMMA TypedIsRead ==
  ASSUME NEW input \in Inputs, Len(input) >= 2, After15[input[1]] = NoText
  PROVE  /\ IpTyped(input) = input[1]
         /\ MacTyped(AfterIp(input)) = First17[input[2]]
<1>1. input \in Seq(Text) /\ input # << >> /\ Head(input) = input[1]
  BY ConnectionAssumption
<1>2. input[1] \in Text
  BY <1>1
<1>3. Tail(input) # << >> /\ Head(Tail(input)) = input[2]
  BY <1>1
<1>. QED  BY <1>1, <1>2, <1>3, ConnectionAssumption DEF IpTyped, MacTyped, AfterIp

(* What was typed is where the packets go, for whatever is typed within    *)
(* the widths of the prompts, and nothing is sent to what is no IP address *)
(* or no MAC.                                                              *)
THEOREM PacketsGoWhereTyped == Spec => []DestinationIsTyped
<1>1. GenInv => DestinationIsTyped
  <2>. SUFFICES ASSUME PacketInv, wire # << >> PROVE DestinationIsTyped
    BY DEF GenInv, DestinationIsTyped
  <2>1. \E p : wire[Len(wire) - 1] = Network(p) /\ wire[Len(wire)] = Link
    <3>1. CASE KnownType
      <4>1. wire = <<Transport(sent_seqno), Network(pkt_type), Link>>
        BY <3>1 DEF PacketInv
      <4>2. Len(wire) = 3 /\ wire[2] = Network(pkt_type) /\ wire[3] = Link
        BY <4>1
      <4>. QED  BY <4>2
    <3>2. CASE ~ KnownType
      <4>1. wire = <<Network("uninitialised"), Link>>
        BY <3>2 DEF PacketInv
      <4>2. Len(wire) = 2 /\ wire[1] = Network("uninitialised") /\ wire[2] = Link
        BY <4>1
      <4>. QED  BY <4>2
    <3>. QED  BY <3>1, <3>2
  <2>2. /\ wire[Len(wire) - 1].dst = conn.rx_addr
        /\ wire[Len(wire)].dst = conn.rx_octets
        /\ wire[Len(wire)].whole = (conn.length >= 6)
    BY <2>1 DEF Network, Link
  <2>3. /\ conn = SetRxInteractively(NewConnection, typed)
        /\ typed \in Inputs /\ conn.rx_addr # NoAddress /\ conn.rx_octets # Null
    BY DEF PacketInv
  <2>4. ASSUME TypedFits
        PROVE  /\ conn.rx_addr = name2addr4[Or(Loopback, typed[1])]
               /\ conn.rx_octets = Or(ZeroMac, typed[2])
               /\ hex_length[Or(ZeroMac, typed[2])] # 0
               /\ conn.length = hex_length[Or(ZeroMac, typed[2])]
    <3>1. /\ IpTyped(typed) = typed[1]
          /\ MacTyped(AfterIp(typed)) = typed[2]
      BY <2>3, <2>4, TypedIsRead DEF TypedFits
    <3>2. /\ conn.rx_addr = name2addr4[Or(Loopback, typed[1])]
          /\ conn.rx_octets = HexAton(Or(ZeroMac, typed[2]))
          /\ conn.length = hex_length[Or(ZeroMac, typed[2])]
      BY <2>3, <3>1, RxSet DEF SetRxInteractively
    <3>. QED  BY <2>3, <3>2 DEF HexAton
  <2>. QED  BY <2>2, <2>3, <2>4 DEF DestinationIsTyped
<1>. QED  BY <1>1, GenInvHolds, PTL
=============================================================================
