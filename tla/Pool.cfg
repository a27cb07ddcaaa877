\* Three pointers, three block addresses, a collection every third advance.
SPECIFICATION Spec
CONSTANTS
  Handles = {h1, h2, h3}
  Blocks = {b1, b2, b3}
  NoBlock = NoBlock
  BlockSize = 4
  LargeSize = 2
  Sizes = {0, 1, 2, 3}
  CollectRound = 3
SYMMETRY Symmetric
INVARIANTS
  TypeOK
  CurrentInChain
  RefCountExact
  NoOverlap
  NullBlockOnlyWhenIdle
