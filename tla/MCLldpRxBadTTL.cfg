SPECIFICATION Spec
CONSTANTS
  Ports = {p1}
  Ids = {n1, n2}
  MaxTTL = 2
  BadTTL = BadTTL
  DevRole = "MASTER"
  FirstOctet = 1
  OctetMax = 4
  OwnAddr = OwnAddr
  NoFrame = NoFrame
  TTLsSent = {2}
  SetIps = {}
  Strangers = {}
  Wireless = {n1, n2}
  Frames <- HalfBadFrames
INVARIANTS
  BadTTLDiscarded
