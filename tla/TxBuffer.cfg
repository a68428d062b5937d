SPECIFICATION Spec
CONSTANTS
  Ports = {p1, p2}
  InfoOptions = 4
  WifiOptions = 1
  MinSize = 8
  BufferSlots = 9
INVARIANTS
  TypeOK
  WholeWhenAlone
  IdleBufferClear
