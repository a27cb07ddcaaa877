------------------------------ MODULE Dictionary ------------------------------
(***************************************************************************)
(* The dictionary of libNGX (src/Core/Support/Dictionary.cpp): items that  *)
(* are nodes of an RBTree, compared by the 32-bit hash of their key and,   *)
(* for equal hashes, by the key itself.                                    *)
(***************************************************************************)
EXTENDS RBTree, Naturals

CONSTANTS
  Keys,      \* keys in the order of strcmp: a set of naturals
  KeyOf,     \* the key of each item
  HashOf,    \* HashFn of each key
  HashBound  \* 2^32: the number of hash values

ASSUME DictionaryAssumption ==
  /\ Keys \subseteq Nat
  /\ KeyOf \in [Nodes -> Keys]
  /\ HashBound \in Nat \ {0}
  /\ HashOf \in [Keys -> 0 .. HashBound - 1]

Items == Nodes

VARIABLES
  items,   \* the pointers of the tree and of its items
  inside   \* history: items inserted with answer 1 and not removed since

dictionaryVars == <<items, inside>>

DictionaryInit == items = NewTree /\ inside = {}

\* Is a - b, an int32_t in the code, positive?
PositiveDiff(a, b) ==
  LET d == (a + HashBound - b) % HashBound IN 0 < d /\ 2 * d < HashBound

\* The order of key k against key m, as the code's operator- decides it: a key
\* of hash 0 is taken for one of the same hash.
Greater(k, m) ==
  IF HashOf[k] = 0 \/ HashOf[k] = HashOf[m] THEN k > m
  ELSE PositiveDiff(HashOf[k], HashOf[m])

\* Find: down from Root to the item of key k, Null if there is none.
Find(k) ==
  LET to[p \in Items] ==
        LET q == IF Greater(k, KeyOf[p]) THEN items.right[p] ELSE items.left[p] IN
        IF KeyOf[p] = k THEN p ELSE IF q = Null THEN Null ELSE to[q]
  IN  IF items.root = Null THEN Null ELSE to[items.root]

InsertItem(i) ==
  IF Find(KeyOf[i]) # Null THEN UNCHANGED dictionaryVars
  ELSE /\ items' = Insert(items, i, {m \in Items : Greater(KeyOf[i], KeyOf[m])})
       /\ inside' = inside \cup {i}

\* The item found is removed, which need not be the item given.
RemoveItem(i) ==
  LET f == Find(KeyOf[i]) IN
  /\ f # Null
  /\ items' = Remove(items, f)
  /\ inside' = inside \ {f}

DictionaryNext == \E i \in Items : InsertItem(i) \/ RemoveItem(i)
DictionarySpec == DictionaryInit /\ [][DictionaryNext]_dictionaryVars

-----------------------------------------------------------------------------
\* Every variable has the values its declaration in the code allows.
DictionaryTypeOK == items \in Trees /\ inside \subseteq Items

\* Items form a list through their Parent pointers, as timers do: insertion in
\* any order, removal and lookup never reach a rotation.
FixupsAreDead == Flat(items) /\ ~items.fixup

\* The test inserts its items and finds each of them (DictionaryTest.cpp:42).
InsertedIsFound == \A i \in inside : Find(KeyOf[i]) # Null
================================================================================
