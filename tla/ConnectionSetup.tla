-------------------------- MODULE ConnectionSetup --------------------------
(***************************************************************************)
(* The addresses of the generator: each is kept as a text and in the       *)
(* binary form that libnet makes of it.  The public calls are operators    *)
(* from the object's state to its next one, and the steps of ConnSpec.     *)
(* libnet and the console are external: name2addr4, hex_length and the     *)
(* functions of the width.                                                 *)
(***************************************************************************)
EXTENDS Naturals, Sequences

CONSTANTS
  Text,         \* what is typed or passed to a setter
  NoText,       \* the empty one
  YesText,      \* the texts that start with a y
  Loopback,     \* "127.0.0.1"
  ZeroMac,      \* "00:00:00:00:00:00"
  Null,         \* a null pointer
  Unset,        \* a member the constructor leaves as it is
  NoAddress,    \* -1, also the address 255.255.255.255
  name2addr4,   \* text -> IP address, NoAddress where it is none
  hex_length,   \* text -> octets libnet_hex_aton reads, 0 where it fails
  First15,      \* text -> its first 15 characters
  After15,      \* text -> the others, NoText where there are none
  First17,      \* text -> its first 17 characters
  Inputs        \* what may be typed: sequences of words

ASSUME ConnectionAssumption ==
  /\ {NoText, Loopback, ZeroMac} \cup YesText \subseteq Text
  /\ DOMAIN name2addr4 = Text
  /\ hex_length \in [Text -> Nat]
  /\ First15 \in [Text -> Text]
  /\ After15 \in [Text -> Text]
  /\ First17 \in [Text -> Text]
  /\ \A t \in Text : After15[t] = NoText => First15[t] = t
  /\ \A input \in Inputs : input \in Seq(Text)

VARIABLE conn   \* the object

(* rx_addr and tx_addr are _rx_ip and _tx_ip, rx_octets and tx_octets      *)
(* _rx_mac and _tx_mac, which are known by the text they were read from.   *)
NewConnection ==
  [rx_ip |-> NoText, rx_mac |-> NoText, tx_ip |-> NoText, tx_mac |-> NoText,
   rx_addr |-> Unset, tx_addr |-> Unset,
   rx_octets |-> Unset, tx_octets |-> Unset, length |-> Unset]

HexAton(text) == IF hex_length[text] = 0 THEN Null ELSE text

Or(default, text) == IF text \in YesText THEN default ELSE text

SetRxIp(c, text) ==
  [c EXCEPT !.rx_ip = Or(Loopback, text),
               !.rx_addr = name2addr4[Or(Loopback, text)]]

SetRxMac(c, text) ==
  [c EXCEPT !.rx_mac = Or(ZeroMac, text),
               !.rx_octets = HexAton(Or(ZeroMac, text)),
               !.length = hex_length[Or(ZeroMac, text)]]

(* It is the receiver's text that is converted (line 37).                  *)
SetTxIp(c, text) ==
  [c EXCEPT !.tx_ip = text, !.tx_addr = name2addr4[c.rx_ip]]

(* The length is shared with the receiver's address.                       *)
SetTxMac(c, text) ==
  [c EXCEPT !.tx_mac = text, !.tx_octets = HexAton(text),
               !.length = hex_length[text]]

(* Slip: the sender's addresses first.                                     *)
SetParametersTxFirst(c, tx_mac, tx_ip, rx_mac, rx_ip) ==
  SetRxMac(SetRxIp(SetTxMac(SetTxIp(c, tx_ip), tx_mac), rx_ip), rx_mac)

SetParameters(c, tx_mac, tx_ip, rx_mac, rx_ip) ==
  SetTxMac(SetTxIp(SetRxMac(SetRxIp(c, rx_ip), rx_mac), tx_ip), tx_mac)

(* Only the texts: the binary forms stay.                                  *)
SetDefaultParameters(c) ==
  [c EXCEPT !.rx_ip = NoText, !.rx_mac = NoText,
               !.tx_ip = NoText, !.tx_mac = NoText]
-----------------------------------------------------------------------------
(* cin >> temp: the next word of the input, as much of it as the width     *)
(* allows; nothing is left of the string at the end of the input.          *)
IpTyped(input) == IF input = << >> THEN NoText ELSE First15[Head(input)]

MacTyped(input) == IF input = << >> THEN NoText ELSE First17[Head(input)]

(* What is too long for an IP address is left for the next prompt.         *)
AfterIp(input) ==
  IF input = << >> THEN << >>
  ELSE IF After15[Head(input)] = NoText THEN Tail(input)
  ELSE <<After15[Head(input)]>> \o Tail(input)

(* set_rx_parameters_interactively and set_tx_parameters_interactively.    *)
SetRxInteractively(c, input) ==
  SetRxMac(SetRxIp(c, IpTyped(input)), MacTyped(AfterIp(input)))

SetTxInteractively(c, input) ==
  SetTxMac(SetTxIp(c, IpTyped(input)), MacTyped(AfterIp(input)))
-----------------------------------------------------------------------------
ConnInit == conn = NewConnection

(* Any call of any public operation (ConnectionSetup.h).                   *)
ConnNext ==
  \/ \E text \in Text :
       \/ conn' = SetRxIp(conn, text)
       \/ conn' = SetRxMac(conn, text)
       \/ conn' = SetTxIp(conn, text)
       \/ conn' = SetTxMac(conn, text)
  \/ \E tx_mac, tx_ip, rx_mac, rx_ip \in Text :
       conn' = SetParameters(conn, tx_mac, tx_ip, rx_mac, rx_ip)
  \/ conn' = SetDefaultParameters(conn)
  \/ \E input \in Inputs :
       \/ conn' = SetRxInteractively(conn, input)
       \/ conn' = SetTxInteractively(conn, input)

ConnSpec == ConnInit /\ [][ConnNext]_conn

(* After every call, set_parameters would leave what it leaves of a new    *)
(* object: it calls the setters that look at each other's fields, or share *)
(* one, in an order in which they find only its own arguments.             *)
(* (set_tx_ip alone leaves the address of whatever rx_ip was before.)      *)
SetParametersForgets ==
  [][conn' # conn =>
       \A tx_mac, tx_ip, rx_mac, rx_ip \in Text :
         SetParameters(conn', tx_mac, tx_ip, rx_mac, rx_ip) =
           SetParameters(NewConnection, tx_mac, tx_ip, rx_mac, rx_ip)]_conn
=============================================================================
