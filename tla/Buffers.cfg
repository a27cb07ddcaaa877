\* Two buffers share three blocks of two bytes.
SPECIFICATION Spec
CONSTANTS
  Buffers = {f1, f2}
  Blocks = {b1, b2, b3}
  NoBlock = NoBlock
  CollectorSize = 1
  Cap = 2
  Lengths = {3}
  Steps = {1, 2}
  Ring = 2
SYMMETRY Symmetric
INVARIANTS
  TypeOK
  OneOwner
  RoomIsExact
  SizeIsUnread
  AdvanceWithinData
PROPERTY ImplementsStreams
