SPECIFICATION Spec
CONSTANTS
  Ids = {n1}
  MaxTTL = 1
  BadTTL = BadTTL
  OctetMax = 1
  OwnAddr = OwnAddr
  TextLengths = {0, 511}
  MaxModules = 3
  ModulesKept = 2
  OddTypes = {0, 1, 2, 6, 127}
  MaxOdd = 4
  None = None
INVARIANTS
  TypeOK
  OnHeader
  ParseMatches
  Balanced
PROPERTIES
  ParseEnds
CHECK_DEADLOCK FALSE
