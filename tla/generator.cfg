SPECIFICATION Spec
CONSTANTS
  Text <- AllTexts
  NoText = ""
  YesText = {"y"}
  Loopback = "127.0.0.1"
  ZeroMac = "00:00:00:00:00:00"
  NoAddress = invalid
  Null = null
  Unset = unset
  name2addr4 <- Addresses
  hex_length <- Octets
  First15 <- Cut15
  After15 <- Rest15
  First17 <- Cut17
  Inputs <- SomeInputs
  PktTypes = {"udp", "icmp", "tcp"}
  Rates <- SomeRates
  Second = 1000000
  MaxFailures = 2
  HalfRange = 7
INVARIANT TypeOK
INVARIANT WireWellFormed
INVARIANT DestinationIsTyped
PROPERTY SetParametersForgets
PROPERTY ImplementsStream
CHECK_DEADLOCK FALSE
