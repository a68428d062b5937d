SPECIFICATION FairSpec
CONSTANTS
  Ports = {p1}
  Ids = {n1, n2}
  MaxTTL = 4
  BadTTL = BadTTL
  DevRole = "SLAVE"
  FirstOctet = 1
  OctetMax = 3
  OwnAddr = OwnAddr
  NoFrame = NoFrame
  TTLsSent = {0, 4, BadTTL}
  SetIps = {1, 2}
  Strangers = {}
  Wireless = {n1, n2}
  Frames <- SlaveFrames
PROPERTIES
  PendingFrameTaken
  SilentForgotten
  ImplementsTable
