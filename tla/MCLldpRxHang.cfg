SPECIFICATION FairSpec
CONSTANTS
  Ports = {p1, p2}
  Ids = {n1}
  MaxTTL = 2
  BadTTL = BadTTL
  DevRole = "MASTER"
  FirstOctet = 1
  OctetMax = 3
  OwnAddr = OwnAddr
  NoFrame = NoFrame
  TTLsSent = {2}
  SetIps = {}
  Strangers = {}
  Wireless = {n1}
  Frames <- OtherVendorFrames
PROPERTIES
  PendingFrameTaken
CHECK_DEADLOCK FALSE
