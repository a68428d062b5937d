SPECIFICATION FairSpec
CONSTANTS
  Ports = {p1, p2}
  MsgTxInterval = 5
  MsgTxHold = 4
  TxDelay = 2
  ReinitDelay = 2
  MaxLost = 2
INVARIANTS
  TypeOK
  FramesRegular
  NeverDropped
  Inv
PROPERTIES
  FramesSpaced
  FramesForever
