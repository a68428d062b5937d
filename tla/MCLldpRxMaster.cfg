SPECIFICATION Spec
SYMMETRY Symmetry
CONSTANTS
  Ports = {p1, p2}
  Ids = {n1, n2, s1}
  MaxTTL = 4
  BadTTL = BadTTL
  DevRole = "MASTER"
  FirstOctet = 1
  OctetMax = 4
  OwnAddr = OwnAddr
  NoFrame = NoFrame
  TTLsSent = {4}
  SetIps = {}
  Strangers = {s1}
  Wireless = {n1}
  Frames <- MasterFrames
INVARIANTS
  TypeOK
  UniqueMsap
  GrantRecorded
  DistinctAddresses
  FileCoversCache
  Connected
  AgeFlagExact
  NeverBroadcast
PROPERTIES
  NoIllegalTransition
  ExpiredNeverRevived
  OnlyExpiredDeleted
  AddressStable
CHECK_DEADLOCK FALSE
