--------------------------------- MODULE Pool ---------------------------------
(***************************************************************************)
(* The memory pool of libNGX (src/Core/Support/Pool.cpp): a chain of       *)
(* blocks carved from the front, each with a count of the pointers still   *)
(* out, and a current block the next request is tried on first.  Freeing a *)
(* pointer only lowers the count; blocks nobody points into are given back *)
(* by collect(), which the pool calls by itself every CollectRound-th time *)
(* it has to leave its current block.                                      *)
(*                                                                         *)
(* Sizes are in units of the smallest request.  A handle stands for a      *)
(* pointer held by the user of the pool, who frees each pointer once and   *)
(* gives all of them up when he resets the pool.                           *)
(***************************************************************************)
EXTENDS Integers, Sequences, FiniteSets

CONSTANTS
  Handles,       \* pointers the user can hold at a time
  Blocks,        \* addresses blocks are created at; bounds their number
  NoBlock,
  BlockSize,     \* BLOCK_SIZE, bytes of data in a block
  LargeSize,     \* BLOCK_SIZE - 2 * sizeof(PoolMemoryBlock)
  Sizes,         \* the sizes requested
  CollectRound   \* POOL_COLLECT_ROUND

ASSUME PoolAssumption ==
  /\ BlockSize \in Nat /\ LargeSize \in Nat /\ LargeSize < BlockSize
  /\ Sizes \subseteq Nat
  /\ CollectRound \in Nat \ {0}
  /\ NoBlock \notin Blocks
  /\ IsFiniteSet(Handles)

VARIABLES
  chain,     \* the blocks from HeadBlock along Next
  current,   \* CurrentBlock, or NoBlock when it is null
  used,      \* Pos - Start of each block
  refs,      \* RefCount of each block
  round,     \* AllocateRound modulo CollectRound
  held,      \* what each handle points to: [block, at, size], or NoPointer
  crash      \* "no", "null block" or "recursion": how the program died

poolVars == <<chain, current, used, refs, round>>
vars == <<poolVars, held, crash>>

NoPointer == [block |-> NoBlock, at |-> 0, size |-> 0]
\* A pointer to memory of malloc, outside every block.
Foreign(n) == [block |-> NoBlock, at |-> 1, size |-> n]
InChain == {chain[i] : i \in 1 .. Len(chain)}
Idle == {h \in Handles : held[h] = NoPointer}

Init ==
  /\ chain = <<>> /\ current = NoBlock
  /\ used = [b \in Blocks |-> 0]
  /\ refs = [b \in Blocks |-> 0]
  /\ round = 0
  /\ held = [h \in Handles |-> NoPointer]
  /\ crash = "no"

-----------------------------------------------------------------------------
FitsFromPos(b, u, n) == u[b] < BlockSize       \* mutant: the size is forgotten
FitsExactly(b, u, n) == u[b] + n <= BlockSize  \* mutant: End included

\* PoolMemoryBlock::allocate: the request must end strictly before End.
Fits(b, u, n) == u[b] + n < BlockSize

\* The block's allocate called on block b with usage u and counts r; what does not
\* fit is answered with null.
TakeFrom(h, b, n, u, r) ==
  IF Fits(b, u, n)
    THEN /\ used' = [u EXCEPT ![b] = @ + n]
         /\ refs' = [r EXCEPT ![b] = @ + 1]
         /\ held' = [held EXCEPT ![h] = [block |-> b, at |-> u[b], size |-> n]]
         /\ crash' = crash
    ELSE used' = u /\ refs' = r /\ UNCHANGED <<held, crash>>

\* CurrentBlock->allocate with CurrentBlock null.
NullBlock(u, r) ==
  /\ crash' = "null block"
  /\ used' = u /\ refs' = r /\ UNCHANGED held

\* collect() drops the blocks nobody points into and starts again at the head.
KeptShared(c, r) == SelectSeq(c, LAMBDA b : r[b] > 1)  \* mutant: off by one

\* The chain is linked anew, block by block, from those that have pointers out.
Kept(c, r) ==
  LET upTo[i \in 0 .. Len(c)] ==
        IF i = 0 THEN <<>>
        ELSE IF r[c[i]] # 0 THEN Append(upTo[i - 1], c[i]) ELSE upTo[i - 1]
  IN upTo[Len(c)]
HeadOf(c) == IF c = <<>> THEN NoBlock ELSE Head(c)

Next1(b) == \* the block after b, NoBlock at the end of the chain
  LET later == {i \in 1 .. Len(chain) - 1 : chain[i] = b}
  IN  IF later = {} THEN NoBlock ELSE chain[(CHOOSE i \in later : TRUE) + 1]

\* newBlock found no memory: allocate returns null.
Refused == UNCHANGED vars

\* The current block is left for the next of chain c; u, r are usage and counts.
\* Every CollectRound-th time the pool is collected before the request is tried
\* again: the block just reached has no pointer out unless it is an old one.
Advance(h, n, c, b, u, r) ==
  /\ round' = (round + 1) % CollectRound
  /\ IF round' = 0
       THEN /\ chain' = Kept(c, r)
            /\ current' = HeadOf(chain')
       ELSE chain' = c /\ current' = b
  /\ IF current' = NoBlock THEN NullBlock(u, r) ELSE TakeFrom(h, current', n, u, r)

\* The head block is created on the first request (also after a collect or a
\* reset that left none).
AllocateFirst(h, n) ==
  /\ chain = <<>>
  /\ \/ \E b \in Blocks :
          /\ chain' = <<b>> /\ current' = b
          /\ round' = round
          /\ IF n > LargeSize
               THEN /\ held' = [held EXCEPT ![h] = Foreign(n)]
                    /\ used' = [used EXCEPT ![b] = 0]
                    /\ refs' = [refs EXCEPT ![b] = 0]
                    /\ crash' = crash
               ELSE TakeFrom(h, b, n, [used EXCEPT ![b] = 0], [refs EXCEPT ![b] = 0])
     \/ \* no memory for it: CurrentBlock stays null and is used all the same
        /\ UNCHANGED <<chain, current, round>>
        /\ IF n > LargeSize
             THEN /\ held' = [held EXCEPT ![h] = Foreign(n)]
                  /\ UNCHANGED <<used, refs, crash>>
             ELSE NullBlock(used, refs)

\* A request of no bytes is answered with null, but not the first one.
AllocateNothing(n) == chain # <<>> /\ n = 0 /\ UNCHANGED vars

AllocateLarge(h, n) ==
  /\ chain # <<>> /\ n > LargeSize
  /\ held' = [held EXCEPT ![h] = Foreign(n)]
  /\ UNCHANGED <<poolVars, crash>>

AllocateHere(h, n) ==
  /\ chain # <<>> /\ n \in 1 .. LargeSize
  /\ Fits(current, used, n)
  /\ TakeFrom(h, current, n, used, refs)
  /\ UNCHANGED <<chain, current, round>>

AllocateNext(h, n) ==
  /\ chain # <<>> /\ n \in 1 .. LargeSize
  /\ ~Fits(current, used, n)
  /\ Next1(current) # NoBlock
  /\ Advance(h, n, chain, Next1(current), used, refs)

AllocateNew(h, n) ==
  /\ chain # <<>> /\ n \in 1 .. LargeSize
  /\ ~Fits(current, used, n)
  /\ Next1(current) = NoBlock
  /\ \/ Refused
     \/ \E b \in Blocks \ InChain :
          Advance(h, n, Append(chain, b), b,
                  [used EXCEPT ![b] = 0], [refs EXCEPT ![b] = 0])

Allocate ==
  \E h \in Idle, n \in Sizes :
    \/ AllocateFirst(h, n) \/ AllocateNothing(n) \/ AllocateLarge(h, n)
    \/ AllocateHere(h, n) \/ AllocateNext(h, n) \/ AllocateNew(h, n)

\* free(): the block that holds the pointer loses one reference.  A pointer of
\* no block makes Pool::free call itself with the same pointer, without end.
Free(h) ==
  /\ held[h] # NoPointer
  /\ IF held[h].block = NoBlock
       THEN crash' = "recursion" /\ UNCHANGED <<poolVars, held>>
       ELSE /\ refs' = [refs EXCEPT ![held[h].block] = @ - 1]
            /\ held' = [held EXCEPT ![h] = NoPointer]
            /\ UNCHANGED <<chain, current, used, round, crash>>

\* Mutant: CurrentBlock is left where it was.
CollectKeepsCurrent ==
  /\ chain # <<>>
  /\ chain' = Kept(chain, refs)
  /\ UNCHANGED <<current, used, refs, round, held, crash>>

Collect ==
  /\ chain # <<>>
  /\ chain' = Kept(chain, refs)
  /\ current' = HeadOf(chain')
  /\ UNCHANGED <<used, refs, round, held, crash>>

\* reset() and the destructor: every block goes, whoever points into it.
Reset ==
  /\ chain' = <<>> /\ current' = NoBlock /\ round' = 0
  /\ held' = [h \in Handles |->
                IF held[h].block = NoBlock THEN held[h] ELSE NoPointer]
  /\ UNCHANGED <<used, refs, crash>>

\* A dead program takes no step.
Dead == crash # "no" /\ UNCHANGED vars

Next ==
  \/ crash = "no" /\ Allocate
  \/ crash = "no" /\ \E h \in Handles : Free(h)
  \/ crash = "no" /\ (Collect \/ Reset)
  \/ Dead

Spec == Init /\ [][Next]_vars

-----------------------------------------------------------------------------
Pointer(b) == {h \in Handles : held[h].block = b}
LastPointer == {h \in Handles : held[h].block # NoBlock}

\* Every variable has the values its declaration in the code allows; no block
\* is filled beyond its size.
TypeOK ==
  /\ chain \in Seq(Blocks) /\ current \in Blocks \cup {NoBlock}
  /\ used \in [Blocks -> 0 .. BlockSize] /\ refs \in [Blocks -> Int]
  /\ round \in 0 .. CollectRound - 1
  /\ \A h \in Handles : held[h].block \in Blocks \cup {NoBlock}
  /\ crash \in {"no", "null block", "recursion"}

\* CurrentBlock is a block of the chain, and null exactly when there is none:
\* collect and the failing paths of allocate never leave it at a block that
\* was given back.  No block occurs twice in the chain, which would make free
\* and collect loop for ever.
CurrentInChain ==
  /\ crash = "no" => IF chain = <<>> THEN current = NoBlock ELSE current \in InChain
  /\ Cardinality(InChain) = Len(chain)

\* RefCount of a block of the chain is the number of pointers still out, so
\* collect, which frees a block on RefCount = 0, never frees one in use; and no
\* pointer leads to a block that is gone.
RefCountExact ==
  /\ \A b \in InChain : refs[b] = Cardinality(Pointer(b))
  /\ \A h \in LastPointer : held[h].block \in InChain

\* Two pointers that are out never share a byte, and none passes the end of
\* its block: reused blocks start from the front, but only when they are new.
NoOverlap ==
  \A h \in LastPointer :
    /\ held[h].at + held[h].size < BlockSize
    /\ \A g \in LastPointer \ {h} :
         held[g].block = held[h].block =>
           \/ held[g].at + held[g].size <= held[h].at
           \/ held[h].at + held[h].size <= held[g].at

\* The pool uses a null CurrentBlock only when it has no pointer out: with
\* memory available, it takes a periodic collect that gives back every block,
\* the one allocate has just created included.
NullBlockOnlyWhenIdle == crash = "null block" => LastPointer = {} /\ current = NoBlock
=============================================================================
