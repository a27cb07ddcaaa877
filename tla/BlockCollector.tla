----------------------------- MODULE BlockCollector -----------------------------
(***************************************************************************)
(* The collector buffers take their memory blocks from and give them back  *)
(* to (src/Core/Support/BufferMemoryBlockCollector.cpp).  Get and Put run  *)
(* under the collector's spin lock, so each is one step.                   *)
(***************************************************************************)
EXTENDS Naturals, Sequences

CONSTANTS
  Blocks,         \* addresses blocks are built at; bounds their number
  NoBlock,
  CollectorSize   \* the number of blocks the collector may keep

ASSUME CollectorAssumption == NoBlock \notin Blocks /\ CollectorSize \in Nat

VARIABLES
  free,   \* the blocks behind CollectorSentinel
  room,   \* CollectorSize, which counts what may still be kept
  heap    \* blocks built and not destroyed

collectorVars == <<free, room, heap>>

CollectorInit == free = <<>> /\ room = CollectorSize /\ heap = {}

\* Get: the oldest block kept, or else a new one; null when malloc refuses.
Get(b) ==
  IF free # <<>>
    THEN /\ b = Head(free)
         /\ free' = Tail(free) /\ room' = room + 1
         /\ UNCHANGED heap
    ELSE /\ b \in (Blocks \ heap) \cup {NoBlock}
         /\ heap' = heap \cup ({b} \ {NoBlock})
         /\ UNCHANGED <<free, room>>

\* Mutant: a block is kept without being counted.
PutUncounted(b) ==
  IF room = 0
    THEN heap' = heap \ {b} /\ UNCHANGED <<free, room>>
    ELSE free' = Append(free, b) /\ UNCHANGED <<room, heap>>

\* Put: kept while there is room, destroyed otherwise.
Put(b) ==
  IF room = 0
    THEN heap' = heap \ {b} /\ UNCHANGED <<free, room>>
    ELSE /\ free' = Append(free, b) /\ room' = room - 1
         /\ UNCHANGED heap

-----------------------------------------------------------------------------
\* The room left and the blocks kept add up to the size configured: the
\* unsigned counter of the collector never wraps and no more is ever kept.
RoomIsExact == room + Len(free) = CollectorSize
===============================================================================
