\* One buffer of two blocks of two bytes.
SPECIFICATION Spec
CONSTANTS
  Buffers = {f1}
  Blocks = {b1, b2}
  NoBlock = NoBlock
  CollectorSize = 1
  Cap = 2
  Lengths = {3}
  Steps = {1, 2}
  Ring = 5
SYMMETRY Symmetric
INVARIANT CopiedIsUnread
