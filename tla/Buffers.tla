-------------------------------- MODULE Buffers --------------------------------
(***************************************************************************)
(* The receive buffers of libNGX (src/Core/Support/Buffer.cpp and          *)
(* BoundCursor.cpp): a chain of memory blocks, filled at Cursor.Bound and  *)
(* read from Cursor.Position, with blocks taken from and given back to one *)
(* collector that several buffers share.                                   *)
(*                                                                         *)
(* A buffer belongs to one connection, whose events one worker handles, so *)
(* its operations do not overlap; between two calls of the collector other *)
(* buffers go on.  The user of a buffer receives, takes a copy of its      *)
(* cursor (operator>>), advances the copy, gives it back (operator<<) and  *)
(* calls GC.  He receives nothing while he holds a copy, since operator<<  *)
(* overwrites Bound as well, and nothing between giving a copy back that   *)
(* has reached the end (its Position is null) and GC.                      *)
(***************************************************************************)
EXTENDS BlockCollector, Integers, Functions

CONSTANTS
  Buffers,
  Cap,      \* End - Start of a block
  Lengths,  \* lengths given to ReadBytes
  Steps,    \* by how much cursors are advanced
  Ring      \* bytes are numbered modulo Ring, which tells those of a block apart

ASSUME BuffersAssumption ==
  /\ Cap \in Nat \ {0} /\ Ring \in Nat /\ Cap <= Ring
  /\ Lengths \subseteq Nat /\ Steps \subseteq Nat \ {0}

VARIABLES
  head,   \* HeadBlock of each buffer
  next,   \* NextBlock of each block
  mem,    \* the bytes of each block
  cur,    \* Cursor of each buffer: Position and Bound
  copy,   \* the cursor its user holds, or NoCursor
  pc,     \* where each buffer is: "idle", "bytes", "connection", "gc", "dead"
  left,   \* DataLength of the ReadBytes under way
  sent    \* the number of the next byte of the peer, modulo Ring

bufferVars == <<head, next, mem, cur, copy, pc, left, sent>>
vars == <<collectorVars, bufferVars>>

Null == [block |-> NoBlock, off |-> 0]
At(k, o) == [block |-> k, off |-> o]
Addresses == {Null} \cup [block : Blocks, off : 0 .. Cap]
NoCursor == [pos |-> At(NoBlock, 1), bound |-> At(NoBlock, 1)]
NullCursor == [pos |-> Null, bound |-> Null]

Junk == Ring   \* what a block holds before anything is written to it

Init ==
  /\ CollectorInit
  /\ head = [b \in Buffers |-> NoBlock]
  /\ next = [k \in Blocks |-> NoBlock]
  /\ mem = [k \in Blocks |-> [i \in 1 .. Cap |-> Junk]]
  /\ cur = [b \in Buffers |-> NullCursor]
  /\ copy = [b \in Buffers |-> NoCursor]
  /\ pc = [b \in Buffers |-> "idle"]
  /\ left = [b \in Buffers |-> 0]
  /\ sent = [b \in Buffers |-> 0]

-----------------------------------------------------------------------------
(* Cursors. *)

\* The blocks from k along NextBlock.
Chain[k \in Blocks \cup {NoBlock}] ==
  IF k = NoBlock THEN <<>> ELSE <<k>> \o Chain[next[k]]

\* The block of the Position is also that of the Bound.
OneBlock(c) == c.pos.block = c.bound.block

Dead == At(NoBlock, 1)   \* the null next block is dereferenced

\* The block i blocks behind k, NoBlock beyond the end of the chain.
Hop(k, i) ==
  LET to[j \in 0 .. i] ==
        IF j = 0 THEN k ELSE IF to[j - 1] = NoBlock THEN NoBlock ELSE next[to[j - 1]]
  IN to[i]

\* Mutant: the last byte of a block is taken for its End.
MovedEarly(c, n) ==
  LET far == c.pos.off + n
      k == Hop(c.pos.block, (far + 1) \div Cap)
      o == far % Cap
  IN IF k = NoBlock THEN Dead
     ELSE IF k = c.bound.block /\ o >= c.bound.off THEN Null
     ELSE At(k, o)

\* operator+ on the Position of a cursor whose Position is not null, by n > 0:
\* null at or beyond the Bound.  Blocks are passed whole, and where the n bytes
\* end at the End of one nothing is compared: the next block is there or not.
Moved(c, n) ==
  LET far == c.pos.off + n
      k == Hop(c.pos.block, far \div Cap)
      o == far % Cap
  IN IF k = NoBlock THEN Dead
     ELSE IF k = c.bound.block /\ o >= c.bound.off /\ (far < Cap \/ o > 0) THEN Null
     ELSE At(k, o)

\* The bytes from the Start of k to the Bound of c.  Without a Bound behind k the
\* code answers 0 or dereferences null; here that counts as nothing.
Rest(c, k) ==
  LET from[d \in Blocks \cup {NoBlock}] ==
        IF d = NoBlock THEN 0 ELSE IF d = c.bound.block THEN c.bound.off ELSE Cap + from[next[d]]
  IN from[k]

\* Mutant: the rest of the first block is counted from its start.
SizeFromStart(c) == IF c.pos = Null THEN 0 ELSE Rest(c, c.pos.block)

\* Size.  Its loop goes on to the next block before it adds the size of a
\* block, so it adds that of the last in place of that of the first: the same.
Size(c) ==
  CASE c.pos = Null -> 0
    [] c.pos # Null /\ OneBlock(c) -> c.bound.off - c.pos.off
    [] OTHER -> Cap - c.pos.off + Rest(c, next[c.pos.block])

\* operator!: the cursor is at its end.
Ended(c) == c.pos = Null \/ (OneBlock(c) /\ c.pos.off >= c.bound.off)

\* What ReadBytes of a cursor copies when n bytes are asked for, until it
\* finds no next block.  A first block that is not the last counts with its
\* whole size wherever the Position is; what lies behind its End is Junk.
Copied(c, n) ==
  LET Span(k, o) == IF k = c.bound.block THEN c.bound.off - o ELSE Cap
      Piece(k, o, m) == [i \in 1 .. m |-> IF o + i <= Cap THEN mem[k][o + i] ELSE Junk]
      From[m \in 0 .. n, k \in Blocks, o \in 0 .. Cap] ==
        IF m <= Span(k, o) THEN Piece(k, o, m)
        ELSE IF next[k] = NoBlock THEN <<>>
        ELSE Piece(k, o, Span(k, o)) \o From[m - Span(k, o), next[k], 0]
  IN IF c.pos = Null THEN <<>> ELSE From[n, c.pos.block, c.pos.off]

\* CmpBytes, whose loop is that of ReadBytes: no next block means false.
Compares(c, s) == IF c.pos = Null THEN s = <<>> ELSE Copied(c, Len(s)) = s

-----------------------------------------------------------------------------
(* Receiving.  ReadBytes and ReadConnection write at the Bound. *)

Go(b, where) == pc' = [pc EXCEPT ![b] = where]

\* The n next bytes of the peer are written at the Bound.
Write(b, n) ==
  LET k == cur[b].bound.block
      o == cur[b].bound.off
  IN /\ mem' = [mem EXCEPT ![k] =
          [i \in 1 .. Cap |-> IF i \in o + 1 .. o + n THEN (sent[b] + i - o - 1) % Ring ELSE @[i]]]
     /\ sent' = [sent EXCEPT ![b] = (@ + n) % Ring]

\* The user may receive into b.
MayReceive(b) ==
  /\ pc[b] = "idle" /\ copy[b] = NoCursor
  /\ head[b] # NoBlock => cur[b].pos # Null

\* The call begins with a first block, or ends without one (ENOMEM).
Begin(b, where) ==
  /\ MayReceive(b)
  /\ IF head[b] # NoBlock
       THEN Go(b, where) /\ UNCHANGED <<collectorVars, head, cur>>
       ELSE \E k \in Blocks \cup {NoBlock} :
         /\ Get(k)
         /\ IF k = NoBlock THEN UNCHANGED <<head, cur, pc>>
            ELSE /\ head' = [head EXCEPT ![b] = k]
                 /\ cur' = [cur EXCEPT ![b] = [pos |-> At(k, 0), bound |-> At(k, 0)]]
                 /\ Go(b, where)
  /\ UNCHANGED <<next, mem, copy, sent>>

ReadBytes(b) ==
  /\ Begin(b, "bytes")
  /\ \E n \in Lengths : left' = [left EXCEPT ![b] = n]

ReadConnection(b) == Begin(b, "connection") /\ UNCHANGED left

RoomPastEnd(b) == Cap + 1 - cur[b].bound.off   \* mutant: End included
Room(b) == Cap - cur[b].bound.off

\* Mutant: the new block is not linked to the one before.
LinkNothing(b, k) == UNCHANGED next
\* SetNextBlock on the block of the Bound.
Link(b, k) == next' = [next EXCEPT ![cur[b].bound.block] = k]

\* ReadBytes: the data does not fit.  The block is filled only when there is
\* another; without one the call fails, and what it wrote before stays.
BytesGrow(b) ==
  /\ pc[b] = "bytes" /\ left[b] > Room(b)
  /\ \E k \in Blocks \cup {NoBlock} :
       /\ Get(k)
       /\ IF k = NoBlock
            THEN Go(b, "idle") /\ UNCHANGED <<next, mem, cur, left, sent>>
            ELSE /\ Write(b, Room(b))
                 /\ left' = [left EXCEPT ![b] = @ - Room(b)]
                 /\ Link(b, k)
                 /\ cur' = [cur EXCEPT ![b].bound = At(k, 0)]
                 /\ UNCHANGED pc
  /\ UNCHANGED <<head, copy>>

BytesLast(b) ==
  /\ pc[b] = "bytes" /\ left[b] <= Room(b)
  /\ Write(b, left[b])
  /\ cur' = [cur EXCEPT ![b].bound.off = @ + left[b]]
  /\ left' = [left EXCEPT ![b] = 0]
  /\ Go(b, "idle")
  /\ UNCHANGED <<collectorVars, head, next, copy>>

\* ReadConnection: the block is full.
ConnectionGrow(b) ==
  /\ pc[b] = "connection" /\ Room(b) = 0
  /\ \E k \in Blocks \cup {NoBlock} :
       /\ Get(k)
       /\ IF k = NoBlock
            THEN Go(b, "idle") /\ UNCHANGED <<next, cur>>
            ELSE /\ Link(b, k)
                 /\ cur' = [cur EXCEPT ![b].bound = At(k, 0)]
                 /\ UNCHANGED pc
  /\ UNCHANGED <<head, mem, copy, left, sent>>

\* recv() delivers some bytes, at most as many as the block has room for ...
Recv(b) ==
  /\ pc[b] = "connection"
  /\ \E n \in 1 .. Room(b) :
       /\ Write(b, n)
       /\ cur' = [cur EXCEPT ![b].bound.off = @ + n]
  /\ UNCHANGED <<collectorVars, head, next, copy, pc, left>>

\* ... or says that there are none, that the peer is gone, or an error.
RecvEnds(b) ==
  /\ pc[b] = "connection" /\ Room(b) > 0
  /\ Go(b, "idle")
  /\ UNCHANGED <<collectorVars, head, next, mem, cur, copy, left, sent>>

-----------------------------------------------------------------------------
(* Consuming. *)

\* operator>>.
Take(b) ==
  /\ pc[b] = "idle" /\ copy[b] = NoCursor
  /\ copy' = [copy EXCEPT ![b] = cur[b]]
  /\ UNCHANGED <<collectorVars, head, next, mem, cur, pc, left, sent>>

\* The copy moves on, or the program ends in a null dereference.
Advance(b) ==
  /\ pc[b] = "idle" /\ copy[b] # NoCursor /\ copy[b].pos # Null
  /\ \E n \in Steps :
       LET p == Moved(copy[b], n) IN
       IF p = Dead THEN Go(b, "dead") /\ UNCHANGED copy
       ELSE copy' = [copy EXCEPT ![b].pos = p] /\ UNCHANGED pc
  /\ UNCHANGED <<collectorVars, head, next, mem, cur, left, sent>>

\* isEmpty of the buffer asks whether its cursor would be at its end one byte
\* further on, and so answers true with one byte left as well; an answer changes
\* nothing.  With the last byte of a full last block left it moves over the End
\* of that block, and the program ends in a null dereference.
IsEmpty(b) ==
  /\ pc[b] = "idle"
  /\ cur[b].pos # Null /\ Moved(cur[b], 1) = Dead
  /\ Go(b, "dead")
  /\ UNCHANGED <<collectorVars, head, next, mem, cur, copy, left, sent>>

\* operator<<, or the copy is thrown away.
Give(b) ==
  /\ pc[b] = "idle" /\ copy[b] # NoCursor
  /\ cur' \in {cur, [cur EXCEPT ![b] = copy[b]]}
  /\ copy' = [copy EXCEPT ![b] = NoCursor]
  /\ UNCHANGED <<collectorVars, head, next, mem, pc, left, sent>>

\* Reset, also by the destructor: GC with a null cursor.
Reset(b) ==
  /\ pc[b] = "idle" /\ copy[b] = NoCursor
  /\ cur' = [cur EXCEPT ![b] = NullCursor]
  /\ Go(b, "gc")
  /\ UNCHANGED <<collectorVars, head, next, mem, copy, left, sent>>

GC(b) ==
  /\ pc[b] = "idle"
  /\ Go(b, "gc")
  /\ UNCHANGED <<collectorVars, head, next, mem, cur, copy, left, sent>>

\* Mutant: the blocks before that of the Bound are given back.
Received(b) == cur[b].bound.block

\* What GC stops at: the block of the Position.
Read(b) == cur[b].pos.block

\* The loop of GC: blocks before that of the Position go back one by one, all
\* of them when the Position is null.  Put resets the block's NextBlock, and
\* what a block held is lost when it is given back.
Collect(b) ==
  /\ pc[b] = "gc"
  /\ IF head[b] \notin {NoBlock, Read(b)}
       THEN /\ Put(head[b])
            /\ head' = [head EXCEPT ![b] = next[head[b]]]
            /\ next' = [next EXCEPT ![head[b]] = NoBlock]
            /\ mem' = [mem EXCEPT ![head[b]] = [i \in 1 .. Cap |-> Junk]]
            /\ UNCHANGED pc
       ELSE Go(b, "idle") /\ UNCHANGED <<collectorVars, head, next, mem>>
  /\ UNCHANGED <<cur, copy, left, sent>>

\* No thread has died, and with it the program.
Alive == \A b \in Buffers : pc[b] # "dead"

Next ==
  \/ Alive /\ \E b \in Buffers :
       \/ ReadBytes(b) \/ BytesGrow(b) \/ BytesLast(b)
       \/ ReadConnection(b) \/ ConnectionGrow(b) \/ Recv(b) \/ RecvEnds(b)
       \/ Take(b) \/ Advance(b) \/ IsEmpty(b) \/ Give(b)
       \/ Reset(b) \/ GC(b) \/ Collect(b)
  \/ ~Alive /\ UNCHANGED vars

Spec == Init /\ [][Next]_vars

-----------------------------------------------------------------------------
(* Properties. *)

Cursors == [pos : Addresses, bound : Addresses]

\* Every variable has the values its declaration in the code allows.
TypeOK ==
  /\ free \in Seq(Blocks) /\ room \in 0 .. CollectorSize /\ heap \subseteq Blocks
  /\ head \in [Buffers -> Blocks \cup {NoBlock}]
  /\ next \in [Blocks -> Blocks \cup {NoBlock}]
  /\ mem \in [Blocks -> [1 .. Cap -> 0 .. Ring]]
  /\ cur \in [Buffers -> Cursors] /\ copy \in [Buffers -> Cursors \cup {NoCursor}]
  /\ pc \in [Buffers -> {"idle", "bytes", "connection", "gc", "dead"}]
  /\ left \in [Buffers -> Nat]
  /\ sent \in [Buffers -> 0 .. Ring - 1]

\* Buffers that give blocks back and get them again while others do the same
\* never share one: each block that exists is in one chain or kept by the
\* collector, once, and none is lost.
OneOwner ==
  /\ heap = Range(free) \cup UNION {Range(Chain[head[b]]) : b \in Buffers}
  /\ IsInjective(free)
  /\ \A b \in Buffers :
       /\ IsInjective(Chain[head[b]])
       /\ Range(Chain[head[b]]) \cap Range(free) = {}
       /\ \A other \in Buffers \ {b} : Range(Chain[head[b]]) \cap Range(Chain[head[other]]) = {}

\* The cursors that can be used: those of the buffers and the copies.
InUse == {c \in Range(cur) \cup Range(copy) : c # NoCursor}

\* The bytes from the Start of k to the Bound of c, and from Position to Bound.
Content(c, k) ==
  LET from[d \in Blocks \cup {NoBlock}] ==
        IF d = NoBlock THEN <<Junk>>
        ELSE IF d = c.bound.block THEN SubSeq(mem[d], 1, c.bound.off)
        ELSE mem[d] \o from[next[d]]
  IN from[k]

Unread(c) ==
  LET bytes == Content(c, c.pos.block)
  IN IF c.pos = Null THEN <<>> ELSE SubSeq(bytes, c.pos.off + 1, Len(bytes))

\* Size() is the number of bytes a cursor still has to read, over any number
\* of blocks, and operator! answers true exactly when there is none.
SizeIsUnread ==
  \A c \in InUse :
    /\ Size(c) = Len(Unread(c))
    /\ Ended(c) <=> Unread(c) = <<>>

\* Advancing a cursor within its data never leaves the chain, except by all of
\* the data when the last block is full to its End.
AdvanceWithinData ==
  \A c \in InUse, n \in Steps :
    c.pos # Null /\ Moved(c, n) = Dead =>
      \/ n > Len(Unread(c))
      \/ n = Len(Unread(c)) /\ c.bound.off = Cap

\* What a cursor's ReadBytes copies, and CmpBytes compares with, are the bytes
\* from its Position on ("Read data from cursor position").
CopiedIsUnread ==
  \A c \in InUse : \A n \in 0 .. Len(Unread(c)) :
    /\ Copied(c, n) = SubSeq(Unread(c), 1, n)
    /\ Compares(c, SubSeq(Unread(c), 1, n))

\* Each buffer is a queue of bytes, whatever blocks it shares with others.
Streams == INSTANCE ByteStreams WITH content <- [b \in Buffers |-> Unread(cur[b])]

\* Every step of the buffers is a step of the queues or is invisible in them.
ImplementsStreams == Streams!StreamSpec
================================================================================
