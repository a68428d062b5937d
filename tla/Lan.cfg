SPECIFICATION LanSpec
CONSTANTS
  Master = m
  Ports = {m}
  Ids = {s1, s2}
  MaxTTL = 20
  BadTTL = BadTTL
  DevRole = "MASTER"
  FirstOctet = 1
  OctetMax = 5
  OwnAddr = OwnAddr
  NoFrame = NoFrame
  Frames <- InfoFrames
  MsgTxInterval = 5
  MaxFaults = 2
INVARIANTS LanTypeOK LiveSlavesKept AddressAgreed AddressesUnique
PROPERTY SlaveListed
