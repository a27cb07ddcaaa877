\* Four items under three keys; hashes of three bits.
SPECIFICATION DictionarySpec
CONSTANTS
  i1 = i1
  i2 = i2
  i3 = i3
  i4 = i4
  Nodes = {i1, i2, i3, i4}
  Null = Null
  Keys = {1, 2, 3}
  KeyOf <- FourKeys
  HashOf <- Hashes
  HashBound = 8
INVARIANT InsertedIsFound
