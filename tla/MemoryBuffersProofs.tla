-------------------------- MODULE MemoryBuffersProofs --------------------------
(* What a buffer holds is what its writer took, and a refusal means that the   *)
(* buffer is full, for any sizes and texts.                                    *)
EXTENDS MemoryBuffers, SequenceTheorems, TLAPS

\* Bytes of a buffer, those that nobody has written included
Held == Bytes \cup {Junk}

BufferTypes ==
    /\ mem \in Seq(Held) /\ Len(mem) <= MaxSize
    /\ accepted \in Seq(Bytes)
    /\ Cursor \in 0..(Wrap - 1)
    /\ limit \in 0..MaxSize
    /\ null \in BOOLEAN

\* As long as nothing has happened that the code makes no provision for; of a
\* buffer that is null nothing has been written
Kept ==
    lost = {} =>
        /\ fault # "outside"
        /\ fault = "none" => /\ Cursor = Len(accepted) /\ Cursor <= Len(mem)
                             /\ \A k \in 1..Cursor : mem[k] = accepted[k]
                             /\ null => Cursor = 0

\* The bytes from the start of m on are those of s
Begins(s, m) == Len(s) <= Len(m) /\ \A k \in 1..Len(s) : m[k] = s[k]

BufferInv == BufferTypes /\ Kept

\* A size_t that does not wrap, and one that wraps at most once
LEMMA NoWrap == ASSUME NEW n \in 0..(Wrap - 1) PROVE n % Wrap = n
BY MemoryBuffersAssumption

LEMMA WrapOnce == ASSUME NEW n \in Nat, n < 2 * Wrap PROVE n % Wrap = IF n < Wrap THEN n ELSE n - Wrap
BY MemoryBuffersAssumption

\* What is below a size, and is not when one is added, was one below it
LEMMA NextWrap ==
    ASSUME NEW n \in Nat, n + 1 < 2 * Wrap, NEW size \in Nat, size < Wrap,
           ~(n % Wrap >= size), (n + 1) % Wrap >= size
    PROVE  (n + 1) % Wrap = size
<1>1. n % Wrap = IF n < Wrap THEN n ELSE n - Wrap  BY WrapOnce, MemoryBuffersAssumption
<1>2. (n + 1) % Wrap = IF n + 1 < Wrap THEN n + 1 ELSE n + 1 - Wrap  BY WrapOnce, MemoryBuffersAssumption
<1> QED  BY <1>1, <1>2, MemoryBuffersAssumption

LEMMA WrapRange == ASSUME NEW n \in Int PROVE n % Wrap \in 0..(Wrap - 1)
BY MemoryBuffersAssumption

\* A function on 1..n is a sequence of length n
LEMMA FunctionIsSeq ==
    ASSUME NEW S, NEW n \in Nat, NEW f \in [1..n -> S]
    PROVE  f \in Seq(S) /\ Len(f) = n
<1>1. f \in Seq(S)  BY SeqDef
<1> QED  BY <1>1, LenProperties

LEMMA TextShape == ASSUME NEW t \in Texts PROVE t \in Seq(Bytes) /\ Len(t) \in 1..MaxText
<1>1. PICK n \in 1..MaxText : t \in [1..n -> Bytes]  BY DEF Texts
<1>2. n \in Nat  BY MemoryBuffersAssumption
<1> QED  BY <1>1, <1>2, FunctionIsSeq

\* A buffer that is written keeps its size, and what is outside what is written
LEMMA WrittenShape ==
    ASSUME NEW m \in Seq(Held), NEW p \in Nat, NEW t \in Seq(Held)
    PROVE  /\ Written(m, p, t) \in Seq(Held) /\ Len(Written(m, p, t)) = Len(m)
           /\ \A k \in 1..Len(m) : Written(m, p, t)[k] = IF k \in (p + 1)..(p + Len(t)) THEN t[k - p] ELSE m[k]
<1> DEFINE w == Written(m, p, t)
<1>1. /\ Len(m) \in Nat /\ Len(t) \in Nat
      /\ \A k \in 1..Len(m) : m[k] \in Held
      /\ \A k \in 1..Len(t) : t[k] \in Held
  BY LenProperties
<1>2. w = [k \in 1..Len(m) |-> IF k \in (p + 1)..(p + Len(t)) THEN t[k - p] ELSE m[k]]  BY DEF Written
<1>3. \A k \in 1..Len(m) : k \in (p + 1)..(p + Len(t)) => k - p \in 1..Len(t)  BY <1>1
<1>4. w \in [1..Len(m) -> Held]  BY <1>1, <1>2, <1>3
<1>5. w \in Seq(Held) /\ Len(w) = Len(m)  BY <1>1, <1>4, FunctionIsSeq
<1> QED  BY <1>2, <1>5

LEMMA CopyShape == ASSUME NEW t \in Seq(Bytes) PROVE Copy(t) \in Seq(Bytes) /\ Len(Copy(t)) = Len(t)
<1>1. Len(t) \in Nat /\ \A k \in 1..Len(t) : t[k] \in Bytes  BY LenProperties
<1>2. Copy(t) \in [1..Len(t) -> Bytes]  BY <1>1 DEF Copy, Bytes
<1> QED  BY <1>1, <1>2, FunctionIsSeq

\* Growth: to a size from 1, at most the bound
LEMMA NewSizeShape ==
    ASSUME BufferTypes
    PROVE  /\ NewSize \in Nat \ {0}
           /\ Len(mem) < NewSize \/ (limit # 0 /\ limit <= Len(mem) /\ NewSize = Len(mem))
<1> DEFINE size == IF mem = <<>> THEN DefaultSize ELSE Len(mem)
<1>1. Len(mem) \in Nat /\ limit \in Nat  BY MemoryBuffersAssumption DEF BufferTypes
<1>2. mem = <<>> <=> Len(mem) = 0  BY EmptySeq DEF BufferTypes
<1>3. size \in Nat \ {0} /\ Len(mem) <= size /\ (mem = <<>> => Len(mem) < size)
      /\ (mem # <<>> => size = Len(mem))
  BY <1>1, <1>2, MemoryBuffersAssumption
<1>4. NewSize = IF limit # 0 /\ size >= limit THEN size
                ELSE IF limit # 0 /\ 2 * size > limit THEN limit ELSE 2 * size
  BY DEF NewSize
<1> HIDE DEF size
<1> QED  BY <1>1, <1>3, <1>4

-------------------------------------------------------------------------------
(* What resize leaves. *)

\* A buffer of the right shape, which still has every byte that was taken
Usable(b) == b.mem \in Seq(Held) /\ Len(b.mem) <= MaxSize /\ b.null \in BOOLEAN /\ lost \subseteq b.lost
Intact(b) ==
    b.lost = {} => /\ Cursor = Len(accepted) /\ Cursor <= Len(b.mem)
                   /\ \A k \in 1..Cursor : b.mem[k] = accepted[k]
                   /\ b.null => Cursor = 0

LEMMA SameBuffer ==
    ASSUME BufferInv, fault = "none"
    PROVE  LET b == [mem |-> mem, null |-> null, lost |-> lost] IN Usable(b) /\ Intact(b)
BY DEF BufferInv, BufferTypes, Kept, Usable, Intact

\* The copy may end early only behind a byte at which it may stop: what is lost
\* then is noted, unless nothing that was taken is behind it
LEMMA ResizedShape ==
    ASSUME BufferInv, fault = "none", NEW n \in Nat, NEW memory \in BOOLEAN, memory => n <= MaxSize,
           NEW b \in Resized(n, memory)
    PROVE  /\ Usable(b) /\ Intact(b)
           /\ memory /\ n # 0 => Len(b.mem) = n
           /\ ~memory \/ n = 0 => b.mem = mem
<1> USE DEF BufferInv
<1>1. CASE ~memory \/ n \in {0, Len(mem)}
  <2>1. b = [mem |-> mem, null |-> null, lost |-> lost]  BY <1>1 DEF Resized
  <2> QED  BY <1>1, <2>1, SameBuffer
<1>2. CASE ~(~memory \/ n \in {0, Len(mem)})
  <2> DEFINE least == IF Len(mem) < n THEN Len(mem) ELSE n
             sources == IF null THEN {0} ELSE Copied(least)
  <2>1. PICK k \in sources :
          b = [mem |-> [j \in 1..n |-> IF j <= k THEN mem[j] ELSE Junk],
               null |-> FALSE,
               lost |-> lost \cup {why \in {"shrunk"} : n < Cursor}
                             \cup {why \in {"stop"} : k \in 1..(Cursor - 1) /\ k < n /\ mem[k] \in {Stop, Junk}}]
    BY <1>2 DEF Resized
  <2>2. Len(mem) \in Nat /\ least \in Nat /\ \A j \in 1..Len(mem) : mem[j] \in Held
    BY LenProperties DEF BufferTypes
  <2>3. k \in 0..least /\ (null => k = 0) /\ (~null => k = least \/ (k > 0 /\ mem[k] \in {Stop, Junk}))
    BY <2>1, <2>2 DEF Copied
  <2>4. b.mem = [j \in 1..n |-> IF j <= k THEN mem[j] ELSE Junk]  BY <2>1
  <2>5. b.mem \in [1..n -> Held]
    <3>1. \A j \in 1..n : j <= k => j \in 1..Len(mem)  BY <2>2, <2>3
    <3> QED  BY <2>2, <2>4, <3>1 DEF Held
  <2>6. b.mem \in Seq(Held) /\ Len(b.mem) = n  BY <2>5, FunctionIsSeq
  <2>7. Usable(b)  BY <1>2, <2>1, <2>6 DEF Usable
  <2>8. Intact(b)
    <3> SUFFICES ASSUME b.lost = {} PROVE /\ Cursor = Len(accepted) /\ Cursor <= n
                                         /\ \A j \in 1..Cursor : b.mem[j] = accepted[j]
      BY <2>1, <2>6 DEF Intact
    <3>1. lost = {} /\ ~(n < Cursor)
          /\ ~(k \in 1..(Cursor - 1) /\ k < n /\ mem[k] \in {Stop, Junk})
      BY <2>1
    <3>2. /\ Cursor = Len(accepted) /\ Cursor <= Len(mem) /\ Cursor \in Nat
          /\ \A j \in 1..Cursor : mem[j] = accepted[j]
          /\ null => Cursor = 0
      BY <3>1, MemoryBuffersAssumption DEF Kept, BufferTypes
    <3>3. Cursor <= k
      <4>1. CASE null  BY <3>2, <4>1, <2>3
      <4>2. CASE k = least  BY <2>2, <3>1, <3>2, <4>2
      <4>3. CASE ~null /\ k # least
        <5>1. k > 0 /\ mem[k] \in {Stop, Junk} /\ k < n  BY <2>2, <2>3, <4>3
        <5> QED  BY <2>2, <2>3, <3>1, <3>2, <5>1
      <4> QED  BY <4>1, <4>2, <4>3
    <3>4. \A j \in 1..Cursor : b.mem[j] = mem[j]  BY <2>2, <2>3, <2>4, <3>1, <3>2, <3>3
    <3> QED  BY <3>1, <3>2, <3>4
  <2> QED  BY <1>2, <2>6, <2>7, <2>8
<1> QED  BY <1>1, <1>2

LEMMA CheckShape ==
    ASSUME BufferInv, fault = "none", NEW n \in Nat, NEW memory \in BOOLEAN, Allocates(memory),
           NEW b \in CheckBufferSize(n, memory)
    PROVE  Usable(b) /\ Intact(b)
<1>1. NewSize \in Nat /\ (memory => NewSize <= MaxSize)  BY NewSizeShape DEF BufferInv, Allocates
<1>2. CASE b \in Resized(NewSize, memory)  BY <1>1, <1>2, ResizedShape
<1>3. CASE b \in Resized(0, memory)  BY <1>3, ResizedShape, MemoryBuffersAssumption
<1> QED  BY <1>2, <1>3 DEF CheckBufferSize

-------------------------------------------------------------------------------
(* The steps. *)

\* What is taken is written behind what was taken before, where there is room
LEMMA TakenIsKept ==
    ASSUME NEW old \in Seq(Held), NEW taken \in Seq(Bytes), NEW t \in Seq(Bytes), NEW w \in Seq(Held),
           Begins(taken, old), Begins(t, w), Len(taken) + Len(t) <= Len(old)
    PROVE  Begins(taken \o t, Written(old, Len(taken), w))
<1> USE DEF Begins
<1> DEFINE m == Written(old, Len(taken), w)
           all == taken \o t
<1> DEFINE p == Len(taken)
<1>1. p \in Nat /\ Len(t) \in Nat /\ Len(w) \in Nat /\ Len(old) \in Nat  BY LenProperties
<1>2. /\ Len(m) = Len(old)
      /\ \A k \in 1..Len(old) : m[k] = IF k \in (p + 1)..(p + Len(w)) THEN w[k - p] ELSE old[k]
  BY <1>1, WrittenShape
<1>3. /\ Len(all) = p + Len(t)
      /\ \A k \in 1..(p + Len(t)) : all[k] = IF k <= p THEN taken[k] ELSE t[k - p]
  BY ConcatProperties
<1>4. /\ p + Len(t) <= Len(old) /\ \A k \in 1..p : old[k] = taken[k]
      /\ Len(t) <= Len(w) /\ \A k \in 1..Len(t) : w[k] = t[k]
  OBVIOUS
<1> HIDE DEF p, m, all
<1>5. ASSUME NEW k \in 1..(p + Len(t)) PROVE m[k] = all[k]
  <2>1. k \in Nat /\ k \in 1..Len(old)  BY <1>1, <1>4
  <2>2. CASE k <= p
    <3>1. k \in 1..p /\ k \notin (p + 1)..(p + Len(w))  BY <1>1, <2>1, <2>2
    <3>2. m[k] = old[k] /\ all[k] = taken[k]  BY <1>2, <1>3, <2>1, <2>2, <3>1
    <3> QED  BY <1>4, <3>1, <3>2
  <2>3. CASE k > p
    <3>1. k - p \in 1..Len(t) /\ k \in (p + 1)..(p + Len(w)) /\ ~(k <= p)  BY <1>1, <2>1, <2>3
    <3>2. m[k] = w[k - p] /\ all[k] = t[k - p]  BY <1>2, <1>3, <2>1, <3>1
    <3> QED  BY <1>4, <3>1, <3>2
  <2>4. k <= p \/ k > p  BY <1>1, <2>1
  <2> QED  BY <2>2, <2>3, <2>4
<1>6. Len(all) <= Len(m) /\ \A k \in 1..Len(all) : m[k] = all[k]  BY <1>2, <1>3, <1>4, <1>5
<1> QED  BY <1>6 DEF m, all

\* A text that is not refused fits, with the byte behind it
LEMMA FromStringStep ==
    ASSUME BufferInv, NEW t \in Texts, NEW memory \in BOOLEAN, FromString(t, memory)
    PROVE  BufferInv'
<1> USE MemoryBuffersAssumption
<1>1. t \in Seq(Bytes) /\ Len(t) \in 1..MaxText /\ Len(t) \in Nat  BY TextShape
<1>2. PICK b \in CheckBufferSize(Len(t), memory) :
        /\ null' = b.null
        /\ IF Refused(Len(t), Len(b.mem))
           THEN mem' = b.mem /\ lost' = b.lost /\ UNCHANGED <<Cursor, accepted, fault>>
           ELSE TakeText(t, b)
  BY DEF FromString
<1>3. Usable(b) /\ Intact(b) /\ fault = "none" /\ limit' = limit
  BY <1>1, CheckShape DEF FromString
<1>4. Len(b.mem) \in Nat  BY <1>3, LenProperties DEF Usable
<1>5. CASE Refused(Len(t), Len(b.mem))
  BY <1>2, <1>3, <1>5 DEF BufferInv, BufferTypes, Kept, Usable, Intact
<1>6. CASE ~Refused(Len(t), Len(b.mem))
  <2> DEFINE w == Append(Copy(t), Junk)
             m == Written(b.mem, Cursor, w)
  <2>1. /\ mem' = IF ~b.null THEN m ELSE b.mem
        /\ Cursor' = (Cursor + Len(t)) % Wrap
        /\ accepted' = accepted \o t
        /\ lost' = b.lost \cup {why \in {"nul"} : Copy(t) # t}
        /\ fault' = IF b.null THEN "null"
                    ELSE IF Cursor + Len(t) + 1 > Len(b.mem) THEN "outside" ELSE "none"
    BY <1>2, <1>6 DEF TakeText
  <2>2. Copy(t) \in Seq(Bytes) /\ Len(Copy(t)) = Len(t)  BY <1>1, CopyShape
  <2>3. w \in Seq(Held) /\ Len(w) = Len(t) + 1 /\ \A k \in 1..Len(t) : w[k] = Copy(t)[k]
    <3>1. Copy(t) \in Seq(Held) /\ Junk \in Held  BY <2>2, SeqMonotonic DEF Held
    <3> QED  BY <2>2, <3>1, AppendProperties
  <2>4. Cursor \in Nat /\ b.mem \in Seq(Held)  BY <1>3 DEF BufferInv, BufferTypes, Usable
  <2>5. m \in Seq(Held) /\ Len(m) = Len(b.mem)
    <3> HIDE DEF w
    <3> QED  BY <2>3, <2>4, WrittenShape
  <2>6. BufferTypes'
    <3>1. mem' \in Seq(Held) /\ Len(mem') <= MaxSize  BY <1>3, <2>1, <2>5 DEF Usable
    <3>2. accepted' \in Seq(Bytes)  BY <1>1, <2>1, ConcatProperties DEF BufferInv, BufferTypes
    <3>3. Cursor' \in 0..(Wrap - 1)
      <4>1. Cursor + Len(t) \in Int  BY <1>1, <2>4
      <4> QED  BY <2>1, <4>1, WrapRange
    <3> QED  BY <1>2, <1>3, <3>1, <3>2, <3>3 DEF BufferInv, BufferTypes, Usable
  <2>7. Kept'
    <3> SUFFICES ASSUME lost' = {} PROVE Kept'
      BY DEF Kept
    <3>1. b.lost = {} /\ Copy(t) = t  BY <2>1
    <3>2. Cursor <= Len(b.mem) /\ Cursor <= MaxSize
      BY <1>3, <1>4, <3>1 DEF Intact, Usable
    <3>3. (Cursor + Len(t)) % Wrap = Cursor + Len(t) /\ (Cursor + Len(t) + 1) % Wrap = Cursor + Len(t) + 1
      <4>1. Cursor + Len(t) \in 0..(Wrap - 1) /\ Cursor + Len(t) + 1 \in 0..(Wrap - 1)
        BY <1>1, <2>4, <3>2
      <4> QED  BY <4>1, NoWrap
    <3>4. Cursor + Len(t) + 1 < Len(b.mem)  BY <1>1, <1>4, <1>6, <2>4, <3>3 DEF Refused
    <3>5. fault' # "outside" /\ (fault' = "none" => ~b.null)  BY <1>1, <1>4, <2>1, <2>4, <3>4
    <3>6. Begins(accepted', m) /\ Len(accepted') = Cursor + Len(t)
      <4>1. accepted \in Seq(Bytes) /\ Cursor = Len(accepted)
        BY <1>3, <3>1 DEF BufferInv, BufferTypes, Intact
      <4>2. Begins(accepted, b.mem)  BY <1>3, <3>1 DEF Intact, Begins
      <4>3. Begins(t, w)  BY <1>1, <2>3, <3>1 DEF Begins
      <4>4. Len(accepted) + Len(t) <= Len(b.mem)  BY <1>1, <1>4, <2>4, <3>4, <4>1
      <4> HIDE DEF w
      <4>5. Begins(accepted \o t, Written(b.mem, Len(accepted), w))
        BY <1>1, <2>3, <2>4, <4>1, <4>2, <4>3, <4>4, TakenIsKept
      <4>6. Len(accepted \o t) = Len(accepted) + Len(t)  BY <1>1, <4>1, ConcatProperties
      <4> QED  BY <2>1, <4>1, <4>5, <4>6
    <3> HIDE DEF m, w
    <3>7. CASE fault' = "none"
      <4>1. ~b.null /\ mem' = m /\ Cursor' = Cursor + Len(t)  BY <2>1, <3>3, <3>5, <3>7
      <4>2. Cursor' = Len(accepted')  BY <3>6, <4>1
      <4>3. Cursor' <= Len(mem')  BY <1>1, <1>4, <2>4, <2>5, <3>4, <4>1
      <4>4. \A k \in 1..Cursor' : mem'[k] = accepted'[k]  BY <3>6, <4>1, <4>2 DEF Begins
      <4> QED  BY <1>2, <3>5, <4>1, <4>2, <4>3, <4>4 DEF Kept
    <3> QED  BY <3>5, <3>7 DEF Kept
  <2> QED  BY <2>6, <2>7 DEF BufferInv
<1> QED  BY <1>5, <1>6

\* recv is asked for no more than what fits
LEMMA FromSocketStep ==
    ASSUME BufferInv, NEW n \in 1..MaxText, NEW r \in Texts \cup {<<>>}, NEW memory \in BOOLEAN,
           FromSocket(n, r, memory)
    PROVE  BufferInv'
<1> USE MemoryBuffersAssumption
<1>1. r \in Seq(Bytes) /\ r \in Seq(Held) /\ Len(r) \in Nat /\ n \in Nat
  <2>1. r \in Seq(Bytes)  BY TextShape, EmptySeq
  <2> QED  BY <2>1, SeqMonotonic, LenProperties DEF Held
<1>2. PICK b \in CheckBufferSize(n, memory) :
        /\ Len(r) <= ReadSize(n, Len(b.mem)) /\ (b.null => r = <<>>)
        /\ null' = b.null /\ lost' = b.lost
        /\ mem' = Written(b.mem, Cursor, r)
        /\ fault' = IF r # <<>> /\ Cursor + Len(r) > Len(b.mem) THEN "outside" ELSE "none"
  BY DEF FromSocket
<1>3. /\ Usable(b) /\ Intact(b) /\ fault = "none" /\ limit' = limit
      /\ Cursor' = (Cursor + Len(r)) % Wrap /\ accepted' = accepted \o r
  BY <1>1, CheckShape DEF FromSocket
<1>4. Len(b.mem) \in Nat /\ b.mem \in Seq(Held) /\ Len(b.mem) <= MaxSize /\ Cursor \in 0..(Wrap - 1)
  BY <1>3, LenProperties DEF Usable, BufferInv, BufferTypes
<1>5. mem' \in Seq(Held) /\ Len(mem') = Len(b.mem)  BY <1>1, <1>2, <1>4, WrittenShape
<1>6. BufferTypes'
  <2>1. accepted' \in Seq(Bytes)  BY <1>1, <1>3, ConcatProperties DEF BufferInv, BufferTypes
  <2>2. Cursor' \in 0..(Wrap - 1)
    <3>1. Cursor + Len(r) \in Int  BY <1>1, <1>4
    <3> QED  BY <1>3, <3>1, WrapRange
  <2> QED  BY <1>2, <1>3, <1>4, <1>5, <2>1, <2>2 DEF BufferInv, BufferTypes, Usable
<1>7. Kept'
  <2> SUFFICES ASSUME lost' = {} PROVE Kept'
    BY DEF Kept
  <2>1. b.lost = {} /\ Cursor <= Len(b.mem)  BY <1>2, <1>3 DEF Intact
  <2>2. Cursor + Len(r) <= Len(b.mem)
    <3>1. Cursor + n \in 0..(Wrap - 1) /\ Len(b.mem) - Cursor \in 0..(Wrap - 1)
      <4>1. Cursor \in Nat /\ Cursor <= MaxSize /\ Len(b.mem) <= MaxSize /\ n <= MaxText  BY <1>4, <2>1
      <4>2. Wrap \in Nat /\ MaxSize + MaxText < Wrap  OBVIOUS
      <4>3. Cursor + n \in Nat /\ Cursor + n < Wrap  BY <1>1, <4>1, <4>2
      <4>4. Len(b.mem) - Cursor \in Nat /\ Len(b.mem) - Cursor < Wrap  BY <1>4, <2>1, <4>1, <4>2
      <4> QED  BY <4>2, <4>3, <4>4
    <3>2. (Cursor + n) % Wrap = Cursor + n /\ (Len(b.mem) - Cursor) % Wrap = Len(b.mem) - Cursor
      BY <3>1, NoWrap
    <3>3. ReadSize(n, Len(b.mem)) = IF Cursor + n > Len(b.mem) THEN Len(b.mem) - Cursor ELSE n
      BY <3>2 DEF ReadSize
    <3> QED  BY <1>1, <1>2, <1>4, <3>3
  <2>3. fault' = "none" /\ Cursor' = Cursor + Len(r)
    <3>1. Cursor + Len(r) \in 0..(Wrap - 1)  BY <1>1, <1>4, <2>2
    <3>2. (Cursor + Len(r)) % Wrap = Cursor + Len(r)  BY <3>1, NoWrap
    <3>3. ~(Cursor + Len(r) > Len(b.mem))  BY <1>1, <1>4, <2>2
    <3> QED  BY <1>2, <1>3, <3>2, <3>3
  <2>4. Cursor' = Len(accepted') /\ \A k \in 1..Cursor' : mem'[k] = accepted'[k]
    <3>1. accepted \in Seq(Bytes) /\ Cursor = Len(accepted)
      BY <1>3, <2>1 DEF BufferInv, BufferTypes, Intact
    <3>2. Begins(accepted, b.mem)  BY <1>3, <2>1 DEF Intact, Begins
    <3>3. Begins(r, r)  BY <1>1 DEF Begins
    <3>4. Len(accepted) + Len(r) <= Len(b.mem)  BY <2>2, <3>1
    <3>5. Begins(accepted \o r, Written(b.mem, Len(accepted), r))
      BY <1>1, <1>4, <3>1, <3>2, <3>3, <3>4, TakenIsKept
    <3>6. Len(accepted \o r) = Len(accepted) + Len(r)  BY <1>1, <3>1, ConcatProperties
    <3>7. Begins(accepted', mem') /\ Cursor' = Len(accepted')  BY <1>2, <1>3, <2>3, <3>1, <3>5, <3>6
    <3> QED  BY <3>7 DEF Begins
  <2>5. null' => Cursor' = 0
    <3>1. b.null => r = <<>> /\ Cursor = 0  BY <1>2, <1>3, <2>1 DEF Intact
    <3>2. Len(<<>>) = 0  OBVIOUS
    <3> QED  BY <1>2, <2>3, <3>1, <3>2
  <2>6. Cursor' <= Len(mem')  BY <1>5, <2>2, <2>3
  <2> QED  BY <2>3, <2>4, <2>5, <2>6 DEF Kept
<1> QED  BY <1>6, <1>7 DEF BufferInv

\* What a failed recv does to the cursor is noted
LEMMA FromSocketFailsStep ==
    ASSUME BufferInv, NEW n \in 1..MaxText, NEW memory \in BOOLEAN, FromSocketFails(n, memory)
    PROVE  BufferInv'
<1> USE MemoryBuffersAssumption
<1>1. n \in Nat  OBVIOUS
<1>2. PICK b \in CheckBufferSize(n, memory) :
        LET moves == ReadSize(n, Len(b.mem)) > 0
        IN /\ mem' = b.mem /\ null' = b.null
           /\ Cursor' = IF moves THEN (Cursor - 1) % Wrap ELSE Cursor
           /\ lost' = b.lost \cup {why \in {"error"} : moves}
  BY DEF FromSocketFails
<1>3. Usable(b) /\ Intact(b) /\ fault = "none" /\ UNCHANGED <<limit, accepted, fault>>
  BY <1>1, CheckShape DEF FromSocketFails
<1>4. (Cursor - 1) % Wrap \in 0..(Wrap - 1)
  <2>1. Cursor - 1 \in Int  BY DEF BufferInv, BufferTypes
  <2> QED  BY <2>1, WrapRange
<1>5. BufferTypes'  BY <1>2, <1>3, <1>4 DEF BufferInv, BufferTypes, Usable
<1>6. lost' = {} => b.lost = {} /\ Cursor' = Cursor  BY <1>2
<1>7. Kept'  BY <1>2, <1>3, <1>6 DEF Kept, Intact
<1> QED  BY <1>5, <1>7 DEF BufferInv

\* The application's calls
LEMMA ApplicationSteps ==
    ASSUME BufferInv,
           \/ \E n \in Limits : SetMaximumBufferSize(n)
           \/ \E n \in NewSizes, memory \in BOOLEAN : ResizeBuffer(n, memory)
    PROVE  BufferInv'
<1> USE MemoryBuffersAssumption
<1>1. ASSUME NEW n \in Limits, SetMaximumBufferSize(n) PROVE BufferInv'
  BY <1>1 DEF SetMaximumBufferSize, BufferInv, BufferTypes, Kept
<1>2. ASSUME NEW n \in NewSizes, NEW memory \in BOOLEAN, ResizeBuffer(n, memory) PROVE BufferInv'
  <2>1. n \in Nat /\ n <= MaxSize  OBVIOUS
  <2>2. PICK b \in Resized(n, memory) : mem' = b.mem /\ null' = b.null /\ lost' = b.lost
    BY <1>2 DEF ResizeBuffer
  <2>3. fault = "none" /\ UNCHANGED <<limit, Cursor, accepted, fault>>  BY <1>2 DEF ResizeBuffer
  <2>4. Usable(b) /\ Intact(b)  BY <2>1, <2>3, ResizedShape
  <2> QED  BY <2>2, <2>3, <2>4 DEF BufferInv, BufferTypes, Kept, Usable, Intact
<1> QED  BY <1>1, <1>2

THEOREM BufferInvariance == Spec => []BufferInv
<1>1. ASSUME Init PROVE BufferInv
  <2>1. PICK n \in FirstSizes : mem = [k \in 1..n |-> Junk]  BY <1>1 DEF Init
  <2>2. n \in Nat /\ n <= MaxSize  BY MemoryBuffersAssumption
  <2>3. mem \in Seq(Held) /\ Len(mem) = n  BY <2>1, <2>2, FunctionIsSeq DEF Held
  <2>4. accepted \in Seq(Bytes) /\ Len(accepted) = 0  BY <1>1, EmptySeq DEF Init
  <2>5. /\ null \in {FALSE, mem # <<>>} /\ limit \in Limits /\ Cursor = 0 /\ lost = {}
        /\ fault = "none"
    BY <1>1 DEF Init
  <2>6. null \in BOOLEAN  BY <2>5
  <2>7. BufferTypes  BY <2>2, <2>3, <2>4, <2>5, <2>6, MemoryBuffersAssumption DEF BufferTypes
  <2>8. Kept  BY <2>2, <2>3, <2>4, <2>5 DEF Kept
  <2> QED  BY <2>7, <2>8 DEF BufferInv
<1>2. ASSUME BufferInv, [Next]_vars PROVE BufferInv'
  <2>1. CASE UNCHANGED vars  BY <1>2, <2>1 DEF vars, BufferInv, BufferTypes, Kept
  <2> QED  BY <1>2, <2>1, FromStringStep, FromSocketStep, FromSocketFailsStep, ApplicationSteps DEF Next
<1> QED  BY <1>1, <1>2, PTL DEF Spec

\* What getData gives is what was taken, and nothing is written outside the buffer
\* (MemoryBuffer.cpp:44-118), for any sizes, limits and texts
THEOREM DataIsKept == Spec => []DataIsAccepted
<1>1. ASSUME BufferInv PROVE DataIsAccepted
  <2> SUFFICES ASSUME lost = {}, fault = "none" PROVE SubSeq(mem, 1, Cursor) = accepted
    BY <1>1 DEF BufferInv, Kept, DataIsAccepted
  <2>1. /\ Cursor = Len(accepted) /\ Cursor <= Len(mem) /\ Cursor \in Nat
        /\ \A k \in 1..Cursor : mem[k] = accepted[k]
    BY <1>1, MemoryBuffersAssumption DEF BufferInv, BufferTypes, Kept
  <2>2. accepted \in Seq(Bytes) /\ \A k \in 1..Cursor : accepted[k] \in Bytes
    BY <1>1, <2>1, ElementOfSeq DEF BufferInv, BufferTypes
  <2>3. /\ SubSeq(mem, 1, Cursor) \in Seq(Bytes)
        /\ Len(SubSeq(mem, 1, Cursor)) = Cursor
        /\ \A k \in 1..Cursor : SubSeq(mem, 1, Cursor)[k] = mem[k]
    <3>1. 1 \in Int /\ Cursor \in Int /\ \A k \in 1..Cursor : mem[k] \in Bytes  BY <2>1, <2>2
    <3>2. /\ SubSeq(mem, 1, Cursor) \in Seq(Bytes)
          /\ Len(SubSeq(mem, 1, Cursor)) = IF 1 <= Cursor THEN Cursor - 1 + 1 ELSE 0
          /\ \A k \in 1..(Cursor - 1 + 1) : SubSeq(mem, 1, Cursor)[k] = mem[1 + k - 1]
      BY <3>1, SubSeqProperties
    <3> QED  BY <2>1, <3>2
  <2> QED  BY <2>1, <2>2, <2>3, SeqEqual
<1> QED  BY <1>1, BufferInvariance, PTL

\* A text is refused for good only at the limit, without memory, or when it would
\* leave exactly one byte (MemoryBuffer.cpp:71, :97)
THEOREM RefusedAtLimit == Spec => RefusedMeansFull
<1>1. ASSUME BufferInv, [Next]_vars
      PROVE  [answer'.asked > answer'.wrote /\ Len(mem') <= Len(mem) =>
                 \/ limit # 0 /\ Len(mem) >= limit
                 \/ ~answer'.memory
                 \/ (Cursor + answer'.asked + 1) % Wrap = Len(mem)]_vars
  <2> USE MemoryBuffersAssumption
  <2> SUFFICES ASSUME Next, answer'.asked > answer'.wrote, Len(mem') <= Len(mem), answer'.memory
               PROVE  \/ limit # 0 /\ Len(mem) >= limit
                      \/ (Cursor + answer'.asked + 1) % Wrap = Len(mem)
    BY <1>1
  <2>1. PICK t \in Texts, memory \in BOOLEAN : FromString(t, memory)
    <3>1. answer' = NoAnswer => ~(answer'.asked > answer'.wrote)  BY DEF NoAnswer
    <3> QED  BY <3>1 DEF Next, FromSocket, FromSocketFails, SetMaximumBufferSize, ResizeBuffer
  <2>2. Len(t) \in Nat /\ Len(t) <= MaxText /\ ~(Len(t) > Len(t))  BY TextShape
  <2>3. PICK b \in CheckBufferSize(Len(t), memory) :
          /\ Refused(Len(t), Len(b.mem))
          /\ answer' = [asked |-> Len(t), wrote |-> 0, memory |-> memory] /\ mem' = b.mem
    BY <2>1, <2>2 DEF FromString
  <2>4. memory /\ answer'.asked = Len(t)  BY <2>3
  <2>5. Len(mem) \in Nat /\ Len(mem) <= MaxSize /\ Cursor \in 0..(Wrap - 1)
    BY <1>1, LenProperties DEF BufferInv, BufferTypes
  <2>6. CASE (Cursor + Len(t)) % Wrap >= Len(mem)
    <3>1. fault = "none" /\ b \in Resized(NewSize, memory) /\ NewSize <= MaxSize
      BY <2>1, <2>3, <2>4, <2>6 DEF FromString, CheckBufferSize, Allocates
    <3>2. NewSize \in Nat \ {0}
          /\ (Len(mem) < NewSize \/ (limit # 0 /\ limit <= Len(mem) /\ NewSize = Len(mem)))
      BY <1>1, NewSizeShape DEF BufferInv
    <3>3. Len(b.mem) = NewSize  BY <1>1, <2>4, <3>1, <3>2, ResizedShape
    <3> QED  BY <2>3, <2>5, <3>2, <3>3 DEF BufferInv, BufferTypes
  <2>7. CASE ~((Cursor + Len(t)) % Wrap >= Len(mem))
    <3>1. b \in Resized(0, memory)  BY <2>3, <2>7 DEF CheckBufferSize
    <3>2. b.mem = mem  BY <1>1, <2>1, <3>1, ResizedShape DEF FromString
    <3>3. (Cursor + Len(t) + 1) % Wrap >= Len(mem)  BY <2>3, <3>2 DEF Refused
    <3>4. Cursor + Len(t) \in Nat /\ Cursor + Len(t) < 2 * Wrap
          /\ Cursor + Len(t) + 1 \in Nat /\ Cursor + Len(t) + 1 < 2 * Wrap
      BY <2>2, <2>5
    <3> QED  BY <2>4, <2>5, <2>7, <3>3, <3>4, NextWrap, MemoryBuffersAssumption
  <2> QED  BY <2>6, <2>7
<1> QED  BY <1>1, BufferInvariance, PTL DEF Spec, RefusedMeansFull
===============================================================================
