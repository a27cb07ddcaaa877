----------------------------- MODULE BuffersProofs -----------------------------
(***************************************************************************)
(* Proofs about Buffers, for any number of buffers and blocks and any      *)
(* sizes: who owns a block, what a cursor covers, and that a buffer is a   *)
(* queue of bytes.                                                         *)
(***************************************************************************)
EXTENDS Buffers, WellFoundedInduction, SequenceTheorems, TLAPS

\* Induction over the natural numbers, as a fact about sets.
LEMMA SetInduction ==
  ASSUME NEW S, 0 \in S, \A n \in Nat : n \in S => n + 1 \in S
  PROVE  Nat \subseteq S
<1> DEFINE less == {p \in Nat \X Nat : p[1] < p[2]}
           T == Nat \ S
<1>1. IsWellFoundedOn(less, Nat)
  BY NatLessThanWellFounded, SMT DEF OpToRel
<1>2. SUFFICES ASSUME T # {} PROVE FALSE
  OBVIOUS
<1>3. T \subseteq Nat
  OBVIOUS
<1>4. PICK m \in T : \A k \in T : <<k, m>> \notin less
  <2> HIDE DEF T, less
  <2> QED
    BY <1>1, <1>2, <1>3, WFMin
<1>5. m \in Nat /\ m # 0 /\ m - 1 \in Nat
  OBVIOUS
<1>6. m - 1 \notin T
  <2>1. <<m - 1, m>> \in less
    BY <1>5
  <2> QED
    BY <1>4, <2>1
<1> QED
  BY <1>5, <1>6

-----------------------------------------------------------------------------
(* The inductive invariant.  q[b] lists the blocks of buffer b.            *)

Members(s) == {s[i] : i \in 1 .. Len(s)}
Once(s) == \A i, j \in 1 .. Len(s) : s[i] = s[j] => i = j

\* s lists the blocks from h on along n.
Along(s, h, n) ==
  /\ s \in Seq(Blocks) /\ Once(s)
  /\ h = IF Len(s) = 0 THEN NoBlock ELSE s[1]
  /\ \A i \in 1 .. Len(s) : n[s[i]] = IF i = Len(s) THEN NoBlock ELSE s[i + 1]

Linked(q) == {k \in Blocks : \E b \in Buffers : k \in Members(q[b])}

\* Blocks in no list have no next block.
Owned(q, h, n, f, m) ==
  /\ \A b \in Buffers : Along(q[b], h[b], n)
  /\ \A b, d \in Buffers : b # d => Members(q[b]) \cap Members(q[d]) = {}
  /\ f \in Seq(Blocks) /\ Once(f)
  /\ Linked(q) \cap Members(f) = {}
  /\ m = Linked(q) \cup Members(f)
  /\ \A k \in Blocks : k \notin Linked(q) => n[k] = NoBlock
  /\ \E most \in Nat : \A b \in Buffers : Len(q[b]) <= most

\* The Position of c stands i blocks into s, at a byte or at the Bound, which is
\* in the last block.
Stands(s, c, i) ==
  /\ i \in 1 .. Len(s) /\ c.pos.block = s[i] /\ c.bound.block = s[Len(s)]
  /\ c.pos.off < Cap
  /\ i = Len(s) => c.pos.off <= c.bound.off

Within(s, c) == c.pos = Null \/ \E i \in 1 .. Len(s) : Stands(s, c, i)

\* Where d stands c has stood, or stands.
NotBefore(s, c, d) ==
  \A i, j \in 1 .. Len(s) :
    c.pos.block = s[i] /\ d.pos.block = s[j] => i < j \/ (i = j /\ c.pos.off <= d.pos.off)

Receiving == {"bytes", "connection"}

\* The cursor c of a buffer with the blocks s, and the copy d its user holds.
Reads(s, c, d, where) ==
  /\ Within(s, c)
  /\ where \in Receiving => c.pos # Null /\ d = NoCursor
  /\ d # NoCursor => /\ d.bound = c.bound /\ Within(s, d)
                     /\ d.pos # Null => c.pos # Null /\ NotBefore(s, c, d)

Held(q) ==
  /\ Owned(q, head, next, free, heap)
  /\ \A b \in Buffers : Reads(q[b], cur[b], copy[b], pc[b])

BuffersInv ==
  TypeOK /\ RoomIsExact /\ \E q \in [Buffers -> Seq(Blocks)] : Held(q)

-----------------------------------------------------------------------------
(* Blocks change hands. *)

\* A block the collector hands out is nobody's.
LEMMA Handed ==
  ASSUME NEW q \in [Buffers -> Seq(Blocks)], Owned(q, head, next, free, heap), room \in Nat,
         NEW k \in Blocks, Get(k)
  PROVE  /\ free' \in Seq(Blocks) /\ Once(free')
         /\ k \notin Linked(q) /\ k \notin Members(free')
         /\ Linked(q) \cap Members(free') = {}
         /\ heap' = Linked(q) \cup Members(free') \cup {k}
         /\ next[k] = NoBlock
         /\ room' + Len(free') = room + Len(free) /\ room' \in Nat
<1>0. /\ free \in Seq(Blocks) /\ Once(free) /\ Linked(q) \cap Members(free) = {}
      /\ heap = Linked(q) \cup Members(free) /\ NoBlock \notin Blocks
      /\ \A i \in Blocks : i \notin Linked(q) => next[i] = NoBlock
  BY CollectorAssumption DEF Owned
<1>1. CASE free # <<>>
  <2>1. k = Head(free) /\ free' = Tail(free) /\ room' = room + 1 /\ heap' = heap
    BY <1>1 DEF Get
  <2>2. /\ Len(free) \in Nat /\ Len(free) >= 1 /\ k = free[1]
        /\ free' \in Seq(Blocks) /\ Len(free') = Len(free) - 1
        /\ \A i \in 1 .. Len(free') : free'[i] = free[i + 1]
    BY <1>0, <1>1, <2>1
  <2>3. Once(free')
    BY <1>0, <2>2 DEF Once
  <2>5. k \notin Members(free')
    <3>1. ASSUME NEW i \in 1 .. Len(free'), k = free'[i] PROVE FALSE
      <4>1. i + 1 \in 1 .. Len(free) /\ 1 \in 1 .. Len(free) /\ free[i + 1] = free[1]
        BY <2>2, <3>1
      <4> QED
        BY <1>0, <4>1 DEF Once
    <3> QED
      BY <3>1 DEF Members
  <2>4. Members(free) = Members(free') \cup {k}
    <3>1. ASSUME NEW i \in 1 .. Len(free) PROVE free[i] \in Members(free') \cup {k}
      <4>1. CASE i = 1
        BY <2>2, <4>1
      <4>2. CASE i # 1
        <5>1. i - 1 \in 1 .. Len(free') /\ free'[i - 1] = free[i]
          BY <2>2, <4>2
        <5> QED
          BY <5>1 DEF Members
      <4> QED
        BY <4>1, <4>2
    <3>2. ASSUME NEW i \in 1 .. Len(free') PROVE free'[i] \in Members(free)
      <4>1. i + 1 \in 1 .. Len(free) /\ free'[i] = free[i + 1]
        BY <2>2
      <4> QED
        BY <4>1 DEF Members
    <3>3. k \in Members(free)
      BY <2>2 DEF Members
    <3> QED
      BY <3>1, <3>2, <3>3 DEF Members
  <2> QED
    BY <1>0, <2>1, <2>2, <2>3, <2>4, <2>5
<1>2. CASE free = <<>>
  <2>1. k \in Blocks \ heap /\ heap' = heap \cup {k} /\ free' = free /\ room' = room
    BY <1>0, <1>2 DEF Get
  <2> QED
    BY <1>0, <2>1
<1> QED
  BY <1>1, <1>2

\* There was none to hand out.
LEMMA NoneHanded ==
  ASSUME free \in Seq(Blocks), Get(NoBlock)
  PROVE  UNCHANGED <<free, room, heap>>
<1>1. free = <<>>
  <2>1. ASSUME free # <<>> PROVE FALSE
    <3>1. Head(free) \in Blocks
      BY <2>1
    <3> QED
      BY <2>1, <3>1, CollectorAssumption DEF Get
  <2> QED
    BY <2>1
<1> QED
  BY <1>1 DEF Get

\* A block given back is kept by the collector or is no more.
LEMMA TakenBack ==
  ASSUME free \in Seq(Blocks), Once(free), NEW k \in Blocks, k \notin Members(free),
         room \in Nat, Put(k)
  PROVE  /\ free' \in Seq(Blocks) /\ Once(free')
         /\ \/ Members(free') = Members(free) \cup {k} /\ heap' = heap
            \/ Members(free') = Members(free) /\ heap' = heap \ {k}
         /\ room' + Len(free') = room + Len(free) /\ room' \in Nat
<1>1. CASE room = 0
  BY <1>1 DEF Put
<1>2. CASE room # 0
  <2>1. free' = Append(free, k) /\ room' = room - 1 /\ heap' = heap
    BY <1>2 DEF Put
  <2>2. /\ free' \in Seq(Blocks) /\ Len(free) \in Nat /\ Len(free') = Len(free) + 1
        /\ free'[Len(free) + 1] = k
        /\ \A i \in 1 .. Len(free) : free'[i] = free[i]
    BY <2>1
  <2>3. \A i : i \in 1 .. Len(free) + 1 <=> i \in 1 .. Len(free) \/ i = Len(free) + 1
    BY <2>2
  <2>4. Members(free') = Members(free) \cup {k}
    BY <2>2, <2>3 DEF Members
  <2>5. Once(free')
    BY <2>2, <2>3 DEF Once, Members
  <2> QED
    BY <1>2, <2>1, <2>2, <2>4, <2>5
<1> QED
  BY <1>1, <1>2

\* Links of other blocks do not matter to a list.
LEMMA AlongElsewhere ==
  ASSUME NEW s, NEW h, NEW n, NEW m, Along(s, h, n), \A k \in Members(s) : m[k] = n[k]
  PROVE  Along(s, h, m)
<1>1. \A i \in 1 .. Len(s) : m[s[i]] = n[s[i]]
  BY DEF Members
<1> QED
  BY <1>1 DEF Along

\* A block is linked behind the last one, or is the first.
LEMMA AlongGrows ==
  ASSUME NEW s, NEW h, NEW n \in [Blocks -> Blocks \cup {NoBlock}], Along(s, h, n),
         NEW k \in Blocks, k \notin Members(s), n[k] = NoBlock,
         NEW g, g = IF Len(s) = 0 THEN k ELSE h,
         NEW m, m = IF Len(s) = 0 THEN n ELSE [n EXCEPT ![s[Len(s)]] = k]
  PROVE  Along(Append(s, k), g, m)
<1> DEFINE t == Append(s, k)
<1>1. /\ s \in Seq(Blocks) /\ Once(s) /\ Len(s) \in Nat
      /\ h = IF Len(s) = 0 THEN NoBlock ELSE s[1]
      /\ \A i \in 1 .. Len(s) : n[s[i]] = IF i = Len(s) THEN NoBlock ELSE s[i + 1]
      /\ \A i \in 1 .. Len(s) : s[i] \in Blocks /\ s[i] # k
  BY DEF Along, Members
<1>2. /\ t \in Seq(Blocks) /\ Len(t) = Len(s) + 1 /\ t[Len(s) + 1] = k
      /\ \A i \in 1 .. Len(s) : t[i] = s[i]
  BY <1>1
<1> HIDE DEF t
<1>3. \A i : i \in 1 .. Len(s) + 1 <=> i \in 1 .. Len(s) \/ i = Len(s) + 1
  BY <1>1
<1>4. Once(t)
  BY <1>1, <1>2, <1>3 DEF Once
<1>5. g = t[1]
  BY <1>1, <1>2
<1>6. ASSUME NEW i \in 1 .. Len(t)
      PROVE  m[t[i]] = IF i = Len(t) THEN NoBlock ELSE t[i + 1]
  <2>1. CASE i = Len(s) + 1
    BY <1>1, <1>2, <2>1
  <2>2. CASE i \in 1 .. Len(s) /\ i = Len(s)
    BY <1>1, <1>2, <2>2
  <2>3. CASE i \in 1 .. Len(s) /\ i # Len(s)
    <3>1. s[i] # s[Len(s)] /\ i + 1 \in 1 .. Len(s) /\ Len(s) # 0
      BY <1>1, <2>3 DEF Once
    <3>2. m[s[i]] = n[s[i]]
      BY <1>1, <2>3, <3>1
    <3> QED
      BY <1>1, <1>2, <2>3, <3>1, <3>2
  <2> QED
    BY <1>2, <1>3, <2>1, <2>2, <2>3
<1> QED
  BY <1>2, <1>4, <1>5, <1>6 DEF Along, t

\* The first block leaves the list.
LEMMA AlongShrinks ==
  ASSUME NEW s, NEW h, NEW n \in [Blocks -> Blocks \cup {NoBlock}], Along(s, h, n), h # NoBlock
  PROVE  /\ h \in Blocks /\ h \in Members(s) /\ Len(s) >= 1 /\ h = s[1]
         /\ h \notin Members(Tail(s)) /\ Members(s) = Members(Tail(s)) \cup {h}
         /\ Along(Tail(s), n[h], [n EXCEPT ![h] = NoBlock])
<1> DEFINE t == Tail(s)
           m == [n EXCEPT ![h] = NoBlock]
<1>1. /\ s \in Seq(Blocks) /\ Once(s) /\ Len(s) \in Nat /\ Len(s) >= 1 /\ h = s[1]
      /\ \A i \in 1 .. Len(s) : n[s[i]] = IF i = Len(s) THEN NoBlock ELSE s[i + 1]
      /\ \A i \in 1 .. Len(s) : s[i] \in Blocks
  BY DEF Along
<1>2. /\ t \in Seq(Blocks) /\ Len(t) = Len(s) - 1
      /\ \A i \in 1 .. Len(t) : t[i] = s[i + 1]
  BY <1>1
<1> HIDE DEF t
<1>3. ASSUME NEW i \in 1 .. Len(t) PROVE i + 1 \in 1 .. Len(s) /\ t[i] = s[i + 1] /\ t[i] # h
  BY <1>1, <1>2 DEF Once
<1>4. h \in Blocks /\ h \in Members(s) /\ h \notin Members(t)
  <2>1. 1 \in 1 .. Len(s)
    BY <1>1
  <2> QED
    BY <1>1, <1>3, <2>1 DEF Members
<1>5. Members(s) = Members(t) \cup {h}
  <2>1. ASSUME NEW i \in 1 .. Len(s) PROVE s[i] \in Members(t) \cup {h}
    <3>1. CASE i = 1
      BY <1>1, <3>1
    <3>2. CASE i # 1
      <4>1. i - 1 \in 1 .. Len(t) /\ t[i - 1] = s[i]
        BY <1>1, <1>2, <3>2
      <4> QED
        BY <4>1 DEF Members
    <3> QED
      BY <3>1, <3>2
  <2>2. ASSUME NEW i \in 1 .. Len(t) PROVE t[i] \in Members(s)
    BY <1>3 DEF Members
  <2> QED
    BY <1>4, <2>1, <2>2 DEF Members
<1>6. Once(t)
  BY <1>1, <1>2, <1>3 DEF Once
<1>7. n[h] = IF Len(t) = 0 THEN NoBlock ELSE t[1]
  <2>1. 1 \in 1 .. Len(s)
    BY <1>1
  <2>2. n[h] = IF 1 = Len(s) THEN NoBlock ELSE s[1 + 1]
    BY <1>1, <2>1
  <2>3. Len(s) # 1 => 1 \in 1 .. Len(t)
    BY <1>1, <1>2
  <2> QED
    BY <1>1, <1>2, <2>2, <2>3
<1>8. ASSUME NEW i \in 1 .. Len(t)
      PROVE  m[t[i]] = IF i = Len(t) THEN NoBlock ELSE t[i + 1]
  <2>1. m[t[i]] = n[s[i + 1]]
    BY <1>1, <1>3
  <2>2. i # Len(t) => i + 1 \in 1 .. Len(t)
    BY <1>1, <1>2
  <2>3. (i = Len(t) <=> i + 1 = Len(s)) /\ (i + 1) + 1 = i + 2
    BY <1>1, <1>2
  <2>4. i # Len(t) => t[i + 1] = s[i + 2]
    BY <1>2, <2>2
  <2> HIDE DEF m
  <2> QED
    BY <1>1, <1>3, <2>1, <2>3, <2>4
<1>9. Along(t, n[h], m)
  BY <1>2, <1>6, <1>7, <1>8 DEF Along
<1> QED
  BY <1>1, <1>4, <1>5, <1>9 DEF t

Links == [Blocks -> Blocks \cup {NoBlock}]

\* A buffer gets a block from the collector.
LEMMA Lengthened ==
  ASSUME NEW q \in [Buffers -> Seq(Blocks)], Owned(q, head, next, free, heap), room \in Nat,
         head \in [Buffers -> Blocks \cup {NoBlock}], next \in Links,
         NEW b \in Buffers, NEW k \in Blocks, Get(k),
         NEW h, h = IF Len(q[b]) = 0 THEN [head EXCEPT ![b] = k] ELSE head,
         NEW n, n = IF Len(q[b]) = 0 THEN next ELSE [next EXCEPT ![q[b][Len(q[b])]] = k]
  PROVE  Owned([q EXCEPT ![b] = Append(@, k)], h, n, free', heap')
<1> DEFINE s == q[b]
           t == Append(s, k)
           r == [q EXCEPT ![b] = t]
<1>1. /\ \A d \in Buffers : Along(q[d], head[d], next)
      /\ \A c, d \in Buffers : c # d => Members(q[c]) \cap Members(q[d]) = {}
      /\ \A i \in Blocks : i \notin Linked(q) => next[i] = NoBlock
  BY DEF Owned
<1>2. /\ free' \in Seq(Blocks) /\ Once(free')
      /\ k \notin Linked(q) /\ k \notin Members(free')
      /\ Linked(q) \cap Members(free') = {}
      /\ heap' = Linked(q) \cup Members(free') \cup {k}
      /\ next[k] = NoBlock
  BY Handed
<1>3. s \in Seq(Blocks) /\ Len(s) \in Nat
  OBVIOUS
<1>4. Members(t) = Members(s) \cup {k} /\ Len(t) = Len(s) + 1
  <2>1. /\ Len(t) = Len(s) + 1 /\ t[Len(s) + 1] = k
        /\ \A i \in 1 .. Len(s) : t[i] = s[i]
    BY <1>3
  <2>2. \A i : i \in 1 .. Len(s) + 1 <=> i \in 1 .. Len(s) \/ i = Len(s) + 1
    BY <1>3
  <2> HIDE DEF t
  <2> QED
    BY <2>1, <2>2 DEF Members
<1>5. r[b] = t /\ \A d \in Buffers : d # b => r[d] = q[d]
  OBVIOUS
<1>6. Members(s) \subseteq Blocks /\ \A d \in Buffers : k \notin Members(q[d])
  <2>1. \A d \in Buffers : Members(q[d]) \subseteq Blocks
    BY DEF Members
  <2> QED
    BY <1>2, <2>1 DEF Linked
<1>7. Along(t, h[b], n)
  <2>1. h[b] = IF Len(s) = 0 THEN k ELSE head[b]
    OBVIOUS
  <2>2. Along(s, head[b], next)
    BY <1>1
  <2> HIDE DEF s
  <2> QED
    BY <1>2, <1>3, <1>6, <2>1, <2>2, AlongGrows DEF Links, s
<1>8. ASSUME NEW d \in Buffers, d # b PROVE Along(q[d], h[d], n)
  <2>1. h[d] = head[d] /\ Along(q[d], head[d], next)
    BY <1>1, <1>8
  <2>2. ASSUME NEW i \in Members(q[d]) PROVE n[i] = next[i]
    <3>1. CASE Len(s) = 0
      BY <3>1
    <3>2. CASE Len(s) # 0
      <4>1. Len(s) \in 1 .. Len(s) /\ s[Len(s)] \in Members(s)
        BY <1>3, <3>2 DEF Members
      <4>2. i # s[Len(s)]
        BY <1>1, <1>8, <4>1
      <4>3. i \in Blocks
        BY DEF Members
      <4> QED
        BY <3>2, <4>2, <4>3 DEF Links
    <3> QED
      BY <3>1, <3>2
  <2> QED
    BY <2>1, <2>2, AlongElsewhere
<1> HIDE DEF t, r
<1>9. \A d \in Buffers : Along(r[d], h[d], n)
  BY <1>5, <1>7, <1>8
<1>10. Linked(r) = Linked(q) \cup {k}
  <2>1. \A d \in Buffers : Members(r[d]) = IF d = b THEN Members(q[d]) \cup {k} ELSE Members(q[d])
    BY <1>4, <1>5
  <2> QED
    BY <2>1 DEF Linked
<1>11. \A c, d \in Buffers : c # d => Members(r[c]) \cap Members(r[d]) = {}
  BY <1>1, <1>4, <1>5, <1>6
<1>12. ASSUME NEW i \in Blocks, i \notin Linked(r) PROVE n[i] = NoBlock
  <2>1. i \notin Linked(q) /\ next[i] = NoBlock
    BY <1>1, <1>10, <1>12
  <2>2. Len(s) # 0 => s[Len(s)] \in Linked(q)
    <3>1. Len(s) # 0 => Len(s) \in 1 .. Len(s) /\ s[Len(s)] \in Members(s)
      BY <1>3 DEF Members
    <3> QED
      BY <1>6, <3>1 DEF Linked
  <2> QED
    BY <2>1, <2>2 DEF Links
<1>13. \E most \in Nat : \A d \in Buffers : Len(r[d]) <= most
  <2>1. PICK most \in Nat : \A d \in Buffers : Len(q[d]) <= most
    BY DEF Owned
  <2>2. \A d \in Buffers : Len(r[d]) <= most + 1
    <3>1. \A d \in Buffers : Len(q[d]) \in Nat
      OBVIOUS
    <3> QED
      BY <1>4, <1>5, <2>1, <3>1
  <2>3. most + 1 \in Nat
    OBVIOUS
  <2> QED
    BY <2>2, <2>3
<1>14. Linked(r) \cap Members(free') = {} /\ heap' = Linked(r) \cup Members(free')
  BY <1>2, <1>10
<1>15. Owned(r, h, n, free', heap')
  BY <1>2, <1>9, <1>11, <1>12, <1>13, <1>14 DEF Owned
<1> QED
  BY <1>15 DEF r, t

\* A buffer gives its first block back.
LEMMA Shortened ==
  ASSUME NEW q \in [Buffers -> Seq(Blocks)], Owned(q, head, next, free, heap), room \in Nat,
         head \in [Buffers -> Blocks \cup {NoBlock}], next \in Links,
         NEW b \in Buffers, head[b] # NoBlock, Put(head[b])
  PROVE  Owned([q EXCEPT ![b] = Tail(@)], [head EXCEPT ![b] = next[head[b]]],
               [next EXCEPT ![head[b]] = NoBlock], free', heap')
<1> DEFINE s == q[b]
           t == Tail(s)
           k == head[b]
           r == [q EXCEPT ![b] = t]
           h == [head EXCEPT ![b] = next[k]]
           n == [next EXCEPT ![k] = NoBlock]
<1>1. /\ \A d \in Buffers : Along(q[d], head[d], next)
      /\ \A c, d \in Buffers : c # d => Members(q[c]) \cap Members(q[d]) = {}
      /\ \A i \in Blocks : i \notin Linked(q) => next[i] = NoBlock
      /\ free \in Seq(Blocks) /\ Once(free) /\ Linked(q) \cap Members(free) = {}
      /\ heap = Linked(q) \cup Members(free)
  BY DEF Owned
<1>2. /\ k \in Blocks /\ k \in Members(s) /\ Len(s) >= 1
      /\ k \notin Members(t) /\ Members(s) = Members(t) \cup {k}
      /\ Along(t, next[k], n)
  <2>1. Along(s, k, next)
    BY <1>1
  <2> HIDE DEF s, k
  <2> QED
    BY <2>1, AlongShrinks DEF Links, k
<1>3. /\ r[b] = t /\ h[b] = next[k]
      /\ \A d \in Buffers : d # b => r[d] = q[d] /\ h[d] = head[d] /\ k \notin Members(q[d])
  BY <1>1, <1>2
<1>4. Len(t) <= Len(s)
  BY <1>2
<1>5. k \in Linked(q) /\ k \notin Members(free)
  BY <1>1, <1>2 DEF Linked
<1>6. ASSUME NEW d \in Buffers, d # b PROVE Along(q[d], h[d], n)
  <2>1. Along(q[d], h[d], next)
    BY <1>1, <1>3, <1>6
  <2>2. \A i \in Members(q[d]) : i \in Blocks /\ i # k
    BY <1>3, <1>6 DEF Members
  <2>3. \A i \in Members(q[d]) : n[i] = next[i]
    BY <2>2 DEF Links
  <2> QED
    BY <2>1, <2>3, AlongElsewhere
<1>7. Put(k) /\ k \in Blocks
  BY <1>2
<1> HIDE DEF t, r, k, h
<1>8. /\ free' \in Seq(Blocks) /\ Once(free')
      /\ \/ Members(free') = Members(free) \cup {k} /\ heap' = heap
         \/ Members(free') = Members(free) /\ heap' = heap \ {k}
  BY <1>1, <1>5, <1>7, TakenBack
<1>9. \A d \in Buffers : Along(r[d], h[d], n)
  BY <1>2, <1>3, <1>6
<1>10. Linked(r) = Linked(q) \ {k}
  <2>1. \A d \in Buffers : Members(r[d]) = Members(q[d]) \ {k}
    BY <1>2, <1>3
  <2> QED
    BY <2>1 DEF Linked
<1>11. \A c, d \in Buffers : c # d => Members(r[c]) \cap Members(r[d]) = {}
  <2>1. \A d \in Buffers : Members(r[d]) \subseteq Members(q[d])
    BY <1>2, <1>3
  <2> QED
    BY <1>1, <2>1
<1>12. ASSUME NEW i \in Blocks, i \notin Linked(r) PROVE n[i] = NoBlock
  BY <1>1, <1>10, <1>12 DEF Links
<1>13. \E most \in Nat : \A d \in Buffers : Len(r[d]) <= most
  <2>1. PICK most \in Nat : \A d \in Buffers : Len(q[d]) <= most
    BY DEF Owned
  <2>2. \A d \in Buffers : Len(r[d]) <= most
    <3>1. Len(r[b]) <= Len(q[b]) /\ Len(q[b]) \in Nat /\ Len(r[b]) \in Nat
      <4>1. Len(t) \in Nat
        BY <1>2 DEF Along
      <4> QED
        BY <1>3, <1>4, <4>1
    <3>2. Len(r[b]) <= most
      BY <2>1, <3>1
    <3>3. \A d \in Buffers : d # b => Len(r[d]) <= most
      BY <1>3, <2>1
    <3> QED
      BY <3>2, <3>3
  <2> QED
    BY <2>2
<1>14. Linked(r) \cap Members(free') = {} /\ heap' = Linked(r) \cup Members(free')
  BY <1>1, <1>5, <1>8, <1>10
<1>15. Owned(r, h, n, free', heap')
  BY <1>8, <1>9, <1>11, <1>12, <1>13, <1>14 DEF Owned
<1> QED
  BY <1>15 DEF r, t, h, k

-----------------------------------------------------------------------------
(* Where a cursor goes. *)

LEMMA HopAlong ==
  ASSUME NEW s, NEW h, Along(s, h, next), NEW i \in 1 .. Len(s), NEW n \in Nat
  PROVE  Hop(s[i], n) = IF i + n <= Len(s) THEN s[i + n] ELSE NoBlock
<1> DEFINE step(f) == [j \in 0 .. n |->
                         IF j = 0 THEN s[i]
                         ELSE IF f[j - 1] = NoBlock THEN NoBlock ELSE next[f[j - 1]]]
           at(j) == IF i + j <= Len(s) THEN s[i + j] ELSE NoBlock
           there == [j \in 0 .. n |-> at(j)]
           to == CHOOSE f : f = step(f)
           S == {j \in Nat : j <= n => to[j] = at(j)}
<1>1. /\ Len(s) \in Nat
      /\ \A j \in 1 .. Len(s) : s[j] # NoBlock
      /\ \A j \in 1 .. Len(s) : next[s[j]] = IF j = Len(s) THEN NoBlock ELSE s[j + 1]
  BY CollectorAssumption DEF Along
<1>2. at(0) = s[i]
  BY <1>1
<1>3. ASSUME NEW j \in Nat, j # 0
      PROVE  at(j) = IF at(j - 1) = NoBlock THEN NoBlock ELSE next[at(j - 1)]
  <2>1. CASE i + j <= Len(s)
    <3>1. i + (j - 1) \in 1 .. Len(s) /\ i + (j - 1) # Len(s) /\ (i + (j - 1)) + 1 = i + j
      BY <1>1, <1>3, <2>1
    <3> QED
      BY <1>1, <2>1, <3>1
  <2>2. CASE i + j = Len(s) + 1
    <3>1. i + (j - 1) = Len(s) /\ Len(s) \in 1 .. Len(s) /\ ~(i + j <= Len(s))
      BY <1>1, <1>3, <2>2
    <3> QED
      BY <1>1, <3>1
  <2>3. CASE i + j > Len(s) + 1
    <3>1. ~(i + (j - 1) <= Len(s)) /\ ~(i + j <= Len(s))
      BY <1>1, <1>3, <2>3
    <3> QED
      BY <3>1
  <2> QED
    BY <1>1, <2>1, <2>2, <2>3
<1>4. there = step(there)
  <2> HIDE DEF at
  <2>1. ASSUME NEW j \in 0 .. n
        PROVE  at(j) = IF j = 0 THEN s[i]
                       ELSE IF there[j - 1] = NoBlock THEN NoBlock ELSE next[there[j - 1]]
    <3>1. j # 0 => j \in Nat /\ there[j - 1] = at(j - 1)
      OBVIOUS
    <3> HIDE DEF there
    <3> QED
      BY <1>2, <1>3, <3>1
  <2> QED
    BY <2>1
<1>5. to = step(to)
  <2> HIDE DEF step, there
  <2>1. \E f : f = step(f)
    BY <1>4
  <2> QED
    BY <2>1
<1>6. \A j \in 0 .. n : to[j] = IF j = 0 THEN s[i]
                                ELSE IF to[j - 1] = NoBlock THEN NoBlock ELSE next[to[j - 1]]
  <2> HIDE DEF to
  <2> QED
    BY <1>5
<1>7. Hop(s[i], n) = to[n]
  BY DEF Hop
<1> HIDE DEF to, at
<1>8. 0 \in S
  BY <1>2, <1>6
<1>9. ASSUME NEW j \in Nat, j \in S PROVE j + 1 \in S
  <2>1. SUFFICES ASSUME j + 1 <= n PROVE to[j + 1] = at(j + 1)
    OBVIOUS
  <2>2. to[j] = at(j) /\ j + 1 \in 0 .. n /\ j + 1 # 0 /\ (j + 1) - 1 = j
    BY <1>9, <2>1
  <2> QED
    BY <1>3, <1>6, <2>2
<1>10. n \in S
  <2> HIDE DEF S
  <2> QED
    BY <1>8, <1>9, SetInduction
<1> QED
  BY <1>7, <1>10 DEF at

\* The remainder is less than the divisor.
LEMMA Divided ==
  ASSUME NEW a \in Nat, NEW d \in Nat \ {0}
  PROVE  /\ a \div d \in Nat /\ a % d \in 0 .. d - 1 /\ a = d * (a \div d) + (a % d)
         /\ a < d => a \div d = 0 /\ a % d = a
OBVIOUS

LEMMA CursorTypes ==
  /\ NoBlock \notin Blocks /\ Cap \in Nat \ {0}
  /\ \A a \in Addresses : a.off \in 0 .. Cap /\ (a # Null => a.block \in Blocks)
  /\ \A k \in Blocks, o \in 0 .. Cap :
       At(k, o) \in Addresses /\ At(k, o).block = k /\ At(k, o).off = o /\ At(k, o) # Null
  /\ \A c \in Cursors : c.pos \in Addresses /\ c.bound \in Addresses
<1>1. \A a \in Addresses : a.off \in 0 .. Cap /\ (a # Null => a.block \in Blocks)
  BY BuffersAssumption DEF Addresses, Null
<1>2. \A k \in Blocks, o \in 0 .. Cap :
        At(k, o) \in Addresses /\ At(k, o).block = k /\ At(k, o).off = o /\ At(k, o) # Null
  BY CollectorAssumption DEF Addresses, At, Null
<1>3. \A c \in Cursors : c.pos \in Addresses /\ c.bound \in Addresses
  BY DEF Cursors
<1> QED
  BY <1>1, <1>2, <1>3, CollectorAssumption, BuffersAssumption

\* How many blocks the Position of c passes in n steps, and where in the block it ends.
Whole(c, n) == (c.pos.off + n) \div Cap
Part(c, n) == (c.pos.off + n) % Cap

LEMMA MovedParts ==
  ASSUME NEW c \in Cursors, NEW n \in Nat
  PROVE  /\ c.pos.off \in Nat /\ c.bound.off \in Nat /\ Whole(c, n) \in Nat
         /\ Part(c, n) \in Nat /\ Part(c, n) < Cap /\ Cap \in Nat
         /\ c.pos.off + n = Cap * Whole(c, n) + Part(c, n)
         /\ c.pos.off + n < Cap => Whole(c, n) = 0 /\ Part(c, n) = c.pos.off + n
         /\ Whole(c, n) = 0 => c.pos.off + n < Cap
<1>1. c.pos.off \in Nat /\ c.bound.off \in Nat /\ c.pos.off + n \in Nat /\ Cap \in Nat \ {0}
  BY CursorTypes
<1>2. /\ Whole(c, n) \in Nat /\ Part(c, n) \in 0 .. Cap - 1
      /\ c.pos.off + n = Cap * Whole(c, n) + Part(c, n)
      /\ c.pos.off + n < Cap => Whole(c, n) = 0 /\ Part(c, n) = c.pos.off + n
  <2> DEFINE far == c.pos.off + n
  <2>1. far \in Nat
    BY <1>1
  <2>2. Whole(c, n) = far \div Cap /\ Part(c, n) = far % Cap
    BY DEF Whole, Part
  <2>3. /\ far \div Cap \in Nat /\ far % Cap \in 0 .. Cap - 1
        /\ far = Cap * (far \div Cap) + (far % Cap)
        /\ far < Cap => far \div Cap = 0 /\ far % Cap = far
    <3> HIDE DEF far
    <3> QED
      BY <1>1, <2>1, Divided
  <2> QED
    BY <2>2, <2>3, Zenon
<1>3. Whole(c, n) = 0 => c.pos.off + n < Cap
  BY <1>1, <1>2
<1> QED
  BY <1>1, <1>2, <1>3

\* What operator+ answers, in terms of the list.
LEMMA MovedAlong ==
  ASSUME NEW s, NEW h, Along(s, h, next), NEW c \in Cursors, NEW i \in 1 .. Len(s), Stands(s, c, i),
         NEW n \in Nat
  PROVE  Moved(c, n) = IF i + Whole(c, n) > Len(s) THEN Dead
                       ELSE IF /\ i + Whole(c, n) = Len(s)
                               /\ Part(c, n) >= c.bound.off
                               /\ c.pos.off + n < Cap \/ Part(c, n) > 0
                            THEN Null
                       ELSE At(s[i + Whole(c, n)], Part(c, n))
<1> DEFINE g == i + Whole(c, n)
           last == /\ Part(c, n) >= c.bound.off
                   /\ c.pos.off + n < Cap \/ Part(c, n) > 0
<1>1. /\ s \in Seq(Blocks) /\ Once(s) /\ Len(s) \in Nat /\ NoBlock \notin Blocks
      /\ i \in 1 .. Len(s) /\ c.pos.block = s[i] /\ c.bound.block = s[Len(s)]
  BY CursorTypes DEF Along, Stands
<1>2. Whole(c, n) \in Nat
  BY MovedParts
<1>3. g \in Nat /\ i <= g
  BY <1>1, <1>2
<1>4. Hop(s[i], Whole(c, n)) = IF g <= Len(s) THEN s[g] ELSE NoBlock
  BY <1>1, <1>2, HopAlong
<1>5. Moved(c, n) = IF Hop(s[i], Whole(c, n)) = NoBlock THEN Dead
                    ELSE IF Hop(s[i], Whole(c, n)) = c.bound.block /\ last THEN Null
                    ELSE At(Hop(s[i], Whole(c, n)), Part(c, n))
  BY <1>1, Zenon DEF Moved, Whole, Part
<1> HIDE DEF g, last
<1>6. CASE g <= Len(s)
  <2>1. g \in 1 .. Len(s) /\ Len(s) \in 1 .. Len(s) /\ ~(g > Len(s))
    BY <1>1, <1>3, <1>6
  <2>2. s[g] # NoBlock /\ (s[g] = c.bound.block <=> g = Len(s))
    BY <1>1, <2>1 DEF Once
  <2>3. Moved(c, n) = IF g = Len(s) /\ last THEN Null ELSE At(s[g], Part(c, n))
    BY <1>4, <1>5, <1>6, <2>2
  <2> QED
    BY <2>1, <2>3 DEF g, last
<1>7. CASE ~(g <= Len(s))
  <2>1. g > Len(s)
    BY <1>1, <1>3, <1>7
  <2>2. Moved(c, n) = Dead
    BY <1>4, <1>5, <1>7
  <2> QED
    BY <2>1, <2>2 DEF g
<1> QED
  BY <1>6, <1>7

\* A cursor that is moved stays in its list, behind where it was, or is at its end.
LEMMA MovedWithin ==
  ASSUME NEW s, NEW h, Along(s, h, next), NEW c \in Cursors, Within(s, c), c.pos # Null,
         NEW n \in Nat, Moved(c, n) # Dead,
         NEW d, d = [c EXCEPT !.pos = Moved(c, n)]
  PROVE  d \in Cursors /\ Within(s, d) /\ (d.pos # Null => NotBefore(s, c, d))
<1> DEFINE p == Moved(c, n)
           o == Part(c, n)
           w == Whole(c, n)
<1>1. PICK i \in 1 .. Len(s) : Stands(s, c, i)
  BY DEF Within
<1> DEFINE g == i + w
<1>2. /\ s \in Seq(Blocks) /\ Once(s) /\ Len(s) \in Nat
      /\ i \in 1 .. Len(s) /\ c.pos.block = s[i] /\ c.bound.block = s[Len(s)]
  BY <1>1 DEF Along, Stands
<1>3. /\ c.pos.off \in Nat /\ c.bound.off \in Nat /\ w \in Nat /\ o \in Nat /\ o < Cap /\ Cap \in Nat
      /\ c.pos.off + n < Cap => o = c.pos.off + n
      /\ w = 0 => c.pos.off + n < Cap
  BY MovedParts
<1>4. p = IF g > Len(s) THEN Dead
          ELSE IF g = Len(s) /\ o >= c.bound.off /\ (c.pos.off + n < Cap \/ o > 0) THEN Null
          ELSE At(s[g], o)
  BY <1>1, MovedAlong
<1>5. d.pos = p /\ d.bound = c.bound /\ d = [pos |-> p, bound |-> c.bound]
  BY DEF Cursors
<1> HIDE DEF p, o, w
<1>6. CASE p = Null
  <2>1. d \in Cursors
    BY <1>5, <1>6 DEF Cursors, Addresses
  <2> QED
    BY <1>5, <1>6, <2>1 DEF Within
<1>7. CASE p # Null
  <2>1. g \in 1 .. Len(s) /\ p = At(s[g], o)
    <3>1. ~(g > Len(s)) /\ p = At(s[g], o)
      BY <1>4, <1>7 DEF p
    <3> QED
      BY <1>2, <1>3, <3>1
  <2>2. s[g] \in Blocks /\ o \in 0 .. Cap
    BY <1>2, <1>3, <2>1
  <2>3. d.pos.block = s[g] /\ d.pos.off = o /\ p \in Addresses
    BY <1>5, <2>1, <2>2, CursorTypes
  <2>4. d \in Cursors
    BY <1>5, <2>3, CursorTypes DEF Cursors
  <2>5. g = Len(s) => o <= c.bound.off
    <3>1. g = Len(s) => ~(o >= c.bound.off /\ (c.pos.off + n < Cap \/ o > 0))
      <4>1. ~(g = Len(s) /\ o >= c.bound.off /\ (c.pos.off + n < Cap \/ o > 0))
        BY <1>4, <1>7 DEF p
      <4> QED
        BY <4>1
    <3> QED
      BY <1>2, <1>3, <3>1
  <2>6. Stands(s, d, g)
    BY <1>2, <1>3, <1>5, <2>1, <2>3, <2>5 DEF Stands
  <2>7. NotBefore(s, c, d)
    <3>1. SUFFICES ASSUME NEW x \in 1 .. Len(s), NEW y \in 1 .. Len(s),
                          c.pos.block = s[x], d.pos.block = s[y]
                   PROVE  x < y \/ (x = y /\ c.pos.off <= d.pos.off)
      BY DEF NotBefore
    <3>2. x = i /\ y = g
      BY <1>2, <2>1, <2>3, <3>1 DEF Once
    <3> QED
      BY <1>2, <1>3, <2>3, <3>2
  <2> QED
    BY <2>1, <2>4, <2>6, <2>7 DEF Within
<1> QED
  BY <1>6, <1>7

-----------------------------------------------------------------------------
(* Each step keeps the invariant. *)

Typed ==
  /\ head \in [Buffers -> Blocks \cup {NoBlock}]
  /\ next \in Links
  /\ mem \in [Blocks -> [1 .. Cap -> 0 .. Ring]]
  /\ cur \in [Buffers -> Cursors] /\ copy \in [Buffers -> Cursors \cup {NoCursor}]
  /\ pc \in [Buffers -> {"idle", "bytes", "connection", "gc", "dead"}]
  /\ left \in [Buffers -> Nat]
  /\ sent \in [Buffers -> 0 .. Ring - 1]

\* Other buffers keep their cursors and where they are.
Only(b) == \A d \in Buffers \ {b} : cur'[d] = cur[d] /\ copy'[d] = copy[d] /\ pc'[d] = pc[d]

LEMMA StepKeeps ==
  ASSUME NEW q \in [Buffers -> Seq(Blocks)], Held(q), NEW b \in Buffers, NEW t \in Seq(Blocks),
         Owned([q EXCEPT ![b] = t], head', next', free', heap'),
         RoomIsExact', room' \in Nat, Typed', Only(b),
         Reads(t, cur'[b], copy'[b], pc'[b])
  PROVE  BuffersInv' /\ Held([q EXCEPT ![b] = t])'
<1> DEFINE r == [q EXCEPT ![b] = t]
<1>1. r[b] = t /\ r \in [Buffers -> Seq(Blocks)] /\ \A d \in Buffers \ {b} : r[d] = q[d]
  OBVIOUS
<1> HIDE DEF r
<1>2. Owned(r, head', next', free', heap')
  BY DEF r
<1>3. ASSUME NEW d \in Buffers PROVE Reads(r[d], cur'[d], copy'[d], pc'[d])
  <2>1. CASE d = b
    BY <1>1, <2>1
  <2>2. CASE d # b
    <3>1. Reads(q[d], cur[d], copy[d], pc[d])
      BY DEF Held
    <3>2. r[d] = q[d] /\ cur'[d] = cur[d] /\ copy'[d] = copy[d] /\ pc'[d] = pc[d]
      BY <1>1, <2>2 DEF Only
    <3> QED
      BY <3>1, <3>2
  <2> QED
    BY <2>1, <2>2
<1>4. Held(r)'
  BY <1>2, <1>3 DEF Held
<1>5. free' \in Seq(Blocks) /\ heap' \subseteq Blocks /\ room' \in 0 .. CollectorSize
  <2>1. free' \in Seq(Blocks) /\ heap' = Linked(r) \cup Members(free')
    BY <1>2 DEF Owned
  <2>2. Linked(r) \subseteq Blocks /\ Members(free') \subseteq Blocks
    BY <2>1 DEF Linked, Members
  <2>3. room' + Len(free') = CollectorSize /\ Len(free') \in Nat
    BY <2>1 DEF RoomIsExact
  <2> QED
    BY <2>1, <2>2, <2>3, CollectorAssumption
<1>6. TypeOK'
  BY <1>5 DEF TypeOK, Typed, Links
<1> QED
  BY <1>1, <1>4, <1>6 DEF BuffersInv, r

\* A step that leaves the blocks where they are.
LEMMA CursorStep ==
  ASSUME TypeOK, RoomIsExact, NEW q \in [Buffers -> Seq(Blocks)], Held(q), NEW b \in Buffers,
         UNCHANGED <<collectorVars, head, next>>, Typed', Only(b),
         Reads(q[b], cur'[b], copy'[b], pc'[b])
  PROVE  BuffersInv' /\ Held(q)'
<1>1. [q EXCEPT ![b] = q[b]] = q /\ q[b] \in Seq(Blocks)
  OBVIOUS
<1>2. /\ free' = free /\ room' = room /\ heap' = heap /\ head' = head /\ next' = next
      /\ room \in Nat
  BY CollectorAssumption DEF TypeOK, collectorVars
<1>3. Owned(q, head', next', free', heap')
  BY <1>2 DEF Held
<1>4. RoomIsExact' /\ room' \in Nat
  BY <1>2 DEF RoomIsExact
<1> QED
  BY <1>1, <1>3, <1>4, StepKeeps

LEMMA TypesOf ==
  ASSUME TypeOK
  PROVE  Typed /\ free \in Seq(Blocks) /\ room \in Nat
BY CollectorAssumption DEF TypeOK, Typed, Links

\* What is written keeps a block's memory and the peer's count in range.
LEMMA Written ==
  ASSUME TypeOK, NEW b \in Buffers, NEW n \in Nat, cur[b].bound.block \in Blocks, Write(b, n)
  PROVE  mem' \in [Blocks -> [1 .. Cap -> 0 .. Ring]] /\ sent' \in [Buffers -> 0 .. Ring - 1]
<1> DEFINE k == cur[b].bound.block
           o == cur[b].bound.off
           piece == [i \in 1 .. Cap |-> IF i \in o + 1 .. o + n
                                          THEN (sent[b] + i - o - 1) % Ring ELSE mem[k][i]]
<1>1. mem' = [mem EXCEPT ![k] = piece] /\ sent' = [sent EXCEPT ![b] = (@ + n) % Ring]
  BY DEF Write, TypeOK
<1>2. /\ Ring \in Nat \ {0} /\ Cap \in Nat /\ o \in Nat /\ sent[b] \in Nat
      /\ mem[k] \in [1 .. Cap -> 0 .. Ring]
  <2>1. cur[b] \in Cursors
    BY DEF TypeOK
  <2>2. o \in 0 .. Cap
    BY <2>1, CursorTypes
  <2>3. Ring \in Nat \ {0} /\ Cap \in Nat
    BY BuffersAssumption
  <2>4. sent[b] \in 0 .. Ring - 1
    BY DEF TypeOK
  <2>5. sent[b] \in Nat
    BY <2>3, <2>4
  <2>6. mem[k] \in [1 .. Cap -> 0 .. Ring]
    BY DEF TypeOK
  <2> HIDE DEF k, o
  <2> QED
    BY <2>2, <2>3, <2>5, <2>6
<1>3. (sent[b] + n) % Ring \in 0 .. Ring - 1
  BY <1>2
<1>4. piece \in [1 .. Cap -> 0 .. Ring]
  <2>1. ASSUME NEW i \in 1 .. Cap, i \in o + 1 .. o + n
        PROVE  (sent[b] + i - o - 1) % Ring \in 0 .. Ring
    <3>1. sent[b] + i - o - 1 \in Nat
      <4> HIDE DEF o
      <4>1. i \in Int /\ i >= o + 1
        BY <1>2, <2>1
      <4> QED
        BY <1>2, <4>1
    <3> DEFINE x == sent[b] + i - o - 1
    <3> HIDE DEF x
    <3>2. x \in Nat => x % Ring \in 0 .. Ring
      BY <1>2
    <3> QED
      BY <3>1, <3>2 DEF x
  <2> HIDE DEF k, o
  <2>2. ASSUME NEW i \in 1 .. Cap PROVE mem[k][i] \in 0 .. Ring
    BY <1>2
  <2> QED
    BY <2>1, <2>2
<1> HIDE DEF piece
<1>5. sent' \in [Buffers -> 0 .. Ring - 1]
  BY <1>1, <1>3 DEF TypeOK
<1> QED
  BY <1>1, <1>4, <1>5 DEF TypeOK

\* While a buffer receives its Bound is in its last block.
LEMMA BoundLast ==
  ASSUME TypeOK, NEW q \in [Buffers -> Seq(Blocks)], Held(q), NEW b \in Buffers,
         pc[b] \in Receiving
  PROVE  /\ cur[b] \in Cursors /\ copy[b] = NoCursor /\ Len(q[b]) \in Nat \ {0}
         /\ cur[b].bound.block = q[b][Len(q[b])] /\ cur[b].bound.block \in Blocks
         /\ cur[b].bound.off \in 0 .. Cap /\ Room(b) \in 0 .. Cap
         /\ \E i \in 1 .. Len(q[b]) : Stands(q[b], cur[b], i)
<1>1. cur[b] \in Cursors
  BY DEF TypeOK
<1>2. Reads(q[b], cur[b], copy[b], pc[b])
  BY DEF Held
<1>3. copy[b] = NoCursor /\ \E i \in 1 .. Len(q[b]) : Stands(q[b], cur[b], i)
  BY <1>2 DEF Reads, Within
<1>4. Len(q[b]) \in Nat \ {0} /\ q[b][Len(q[b])] \in Blocks
  BY <1>3
<1>5. cur[b].bound.block = q[b][Len(q[b])]
  BY <1>3 DEF Stands
<1>6. cur[b].bound.off \in 0 .. Cap /\ Cap \in Nat
  BY <1>1, CursorTypes
<1> QED
  BY <1>1, <1>3, <1>4, <1>5, <1>6 DEF Room

\* A call ends, or the collecting begins.
LEMMA Gone ==
  ASSUME TypeOK, RoomIsExact, NEW q \in [Buffers -> Seq(Blocks)], Held(q), NEW b \in Buffers,
         NEW w \in {"idle", "gc", "dead"}, Go(b, w),
         UNCHANGED <<collectorVars, head, next, mem, cur, copy, left, sent>>
  PROVE  BuffersInv' /\ Held(q)'
<1>1. Typed /\ pc' = [pc EXCEPT ![b] = w]
  BY TypesOf DEF Go
<1>2. pc'[b] = w /\ pc' \in [Buffers -> {"idle", "bytes", "connection", "gc", "dead"}]
      /\ \A d \in Buffers \ {b} : pc'[d] = pc[d]
  BY <1>1 DEF Typed
<1>3. Typed' /\ Only(b)
  BY <1>1, <1>2 DEF Typed, Only
<1>4. Reads(q[b], cur'[b], copy'[b], pc'[b])
  <2>1. Reads(q[b], cur[b], copy[b], pc[b]) /\ pc'[b] \notin Receiving
    BY <1>2 DEF Held, Receiving
  <2> QED
    BY <2>1 DEF Reads
<1> QED
  BY <1>3, <1>4, CursorStep

\* Bytes are written up to the End of the last block.
LEMMA Filled ==
  ASSUME TypeOK, RoomIsExact, NEW q \in [Buffers -> Seq(Blocks)], Held(q), NEW b \in Buffers,
         pc[b] \in Receiving, NEW n \in 0 .. Room(b), Write(b, n),
         cur' = [cur EXCEPT ![b].bound.off = @ + n],
         UNCHANGED <<collectorVars, head, next, copy>>,
         pc' = pc \/ Go(b, "idle"), left' \in [Buffers -> Nat]
  PROVE  /\ BuffersInv' /\ Held(q)' /\ Only(b)
         /\ cur'[b].pos = cur[b].pos
         /\ cur'[b].bound = At(cur[b].bound.block, cur[b].bound.off + n)
<1>1. Typed
  BY TypesOf
<1>2. /\ cur[b] \in Cursors /\ copy[b] = NoCursor
      /\ cur[b].bound.block \in Blocks /\ cur[b].bound.off \in 0 .. Cap /\ Room(b) \in 0 .. Cap
  BY BoundLast
<1>3. PICK i \in 1 .. Len(q[b]) : Stands(q[b], cur[b], i)
  BY BoundLast
<1>4. Cap \in Nat /\ n \in Nat /\ cur[b].bound.off + n \in 0 .. Cap
  <2>1. Cap \in Nat /\ cur[b].bound.off \in Nat /\ n \in Nat /\ n <= Room(b)
    BY <1>2, CursorTypes
  <2>2. n <= Cap - cur[b].bound.off
    BY <2>1 DEF Room
  <2> DEFINE o == cur[b].bound.off
  <2>3. o \in Nat /\ n <= Cap - o
    BY <2>1, <2>2
  <2>4. o + n \in 0 .. Cap
    <3> HIDE DEF o
    <3> QED
      BY <2>1, <2>3
  <2> QED
    BY <2>1, <2>4
<1> DEFINE p == At(cur[b].bound.block, cur[b].bound.off + n)
<1>5. cur'[b].pos = cur[b].pos /\ cur'[b].bound = p /\ cur' \in [Buffers -> Cursors]
      /\ \A d \in Buffers \ {b} : cur'[d] = cur[d]
  <2>1. cur' = [cur EXCEPT ![b] = [cur[b] EXCEPT !.bound = [cur[b].bound EXCEPT !.off = @ + n]]]
    BY <1>1 DEF Typed
  <2>2. cur[b].bound \in [block : Blocks, off : 0 .. Cap]
    <3>1. cur[b].bound \in Addresses /\ cur[b].bound # Null
      BY <1>2, CursorTypes DEF Null
    <3> QED
      BY <3>1 DEF Addresses
  <2>3. [cur[b].bound EXCEPT !.off = @ + n] = p
    <3> DEFINE a == cur[b].bound
    <3>1. a \in [block : Blocks, off : 0 .. Cap]
      BY <2>2
    <3> HIDE DEF a
    <3>2. [a EXCEPT !.off = @ + n] = [block |-> a.block, off |-> a.off + n]
      BY <3>1
    <3> QED
      BY <3>2 DEF a, At
  <2>4. p \in Addresses
    BY <1>2, <1>4, CursorTypes
  <2> HIDE DEF p
  <2>5. [cur[b] EXCEPT !.bound = p] \in Cursors
    BY <1>2, <2>4 DEF Cursors
  <2>6. cur' = [cur EXCEPT ![b] = [cur[b] EXCEPT !.bound = p]]
    BY <2>1, <2>3
  <2>7. cur'[b] = [cur[b] EXCEPT !.bound = p]
    BY <1>1, <2>6 DEF Typed
  <2>8. cur'[b].pos = cur[b].pos /\ cur'[b].bound = p
    BY <1>2, <2>7 DEF Cursors
  <2> QED
    BY <1>1, <2>5, <2>6, <2>8 DEF Typed
<1>6. mem' \in [Blocks -> [1 .. Cap -> 0 .. Ring]] /\ sent' \in [Buffers -> 0 .. Ring - 1]
  BY <1>2, <1>4, Written
<1>7. pc' \in [Buffers -> {"idle", "bytes", "connection", "gc", "dead"}]
      /\ \A d \in Buffers \ {b} : pc'[d] = pc[d]
  BY <1>1 DEF Typed, Go
<1>8. Typed' /\ Only(b)
  BY <1>1, <1>5, <1>6, <1>7 DEF Typed, Only
<1>9. Stands(q[b], cur'[b], i)
  <2>1. p.block = cur[b].bound.block /\ p.off = cur[b].bound.off + n
    BY <1>2, <1>4, CursorTypes
  <2>2. cur[b].pos.off \in Nat /\ cur[b].bound.off \in Nat
    BY <1>2, CursorTypes
  <2> HIDE DEF p
  <2> QED
    BY <1>3, <1>4, <1>5, <2>1, <2>2 DEF Stands
<1>10. Reads(q[b], cur'[b], copy'[b], pc'[b])
  <2>1. cur'[b].pos # Null
    BY <1>2, <1>5, BoundLast DEF Held, Reads
  <2> QED
    BY <1>2, <1>9, <2>1 DEF Reads, Within
<1>11. BuffersInv' /\ Held(q)'
  BY <1>8, <1>10, CursorStep
<1> QED
  BY <1>5, <1>8, <1>11

\* A block is linked behind the last and becomes that of the Bound.
LEMMA Grown ==
  ASSUME TypeOK, RoomIsExact, NEW q \in [Buffers -> Seq(Blocks)], Held(q), NEW b \in Buffers,
         pc[b] \in Receiving, NEW k \in Blocks, Get(k), Link(b, k),
         cur' = [cur EXCEPT ![b].bound = At(k, 0)], UNCHANGED <<head, copy, pc>>,
         mem' \in [Blocks -> [1 .. Cap -> 0 .. Ring]], left' \in [Buffers -> Nat],
         sent' \in [Buffers -> 0 .. Ring - 1]
  PROVE  /\ BuffersInv' /\ Held([q EXCEPT ![b] = Append(q[b], k)])' /\ Only(b)
         /\ cur'[b].pos = cur[b].pos /\ cur'[b].bound = At(k, 0)
<1> DEFINE s == q[b]
           t == Append(s, k)
<1>1. Typed /\ room \in Nat /\ Owned(q, head, next, free, heap)
  BY TypesOf DEF Held
<1>2. /\ cur[b] \in Cursors /\ copy[b] = NoCursor /\ Len(s) \in Nat \ {0}
      /\ cur[b].bound.block = s[Len(s)] /\ cur[b].bound.block \in Blocks
  BY BoundLast
<1>3. PICK i \in 1 .. Len(s) : Stands(s, cur[b], i)
  BY BoundLast
<1>4. next' = [next EXCEPT ![s[Len(s)]] = k] /\ next' \in Links
  BY <1>1, <1>2 DEF Link, Typed, Links
<1>5. Owned([q EXCEPT ![b] = t], head', next', free', heap')
  <2>1. head \in [Buffers -> Blocks \cup {NoBlock}] /\ next \in Links
    BY <1>1 DEF Typed
  <2>2. Owned([q EXCEPT ![b] = Append(@, k)], head, next', free', heap')
    <3>1. next' = IF Len(q[b]) = 0 THEN next ELSE [next EXCEPT ![q[b][Len(q[b])]] = k]
      BY <1>2, <1>4
    <3>2. head = IF Len(q[b]) = 0 THEN [head EXCEPT ![b] = k] ELSE head
      BY <1>2
    <3> QED
      BY <1>1, <2>1, <3>1, <3>2, Lengthened
  <2> QED
    BY <2>2
<1>6. RoomIsExact' /\ room' \in Nat
  BY <1>1, Handed DEF RoomIsExact
<1>7. cur'[b].pos = cur[b].pos /\ cur'[b].bound = At(k, 0) /\ cur' \in [Buffers -> Cursors]
      /\ \A d \in Buffers \ {b} : cur'[d] = cur[d]
  <2> DEFINE p == At(k, 0)
  <2>1. p \in Addresses
    BY CursorTypes
  <2> HIDE DEF p
  <2>2. cur' = [cur EXCEPT ![b] = [cur[b] EXCEPT !.bound = p]]
    BY <1>1 DEF Typed, p
  <2>3. [cur[b] EXCEPT !.bound = p] \in Cursors
    BY <1>2, <2>1 DEF Cursors
  <2>4. cur'[b] = [cur[b] EXCEPT !.bound = p]
    BY <1>1, <2>2 DEF Typed
  <2>5. cur'[b].pos = cur[b].pos /\ cur'[b].bound = p
    BY <1>2, <2>4 DEF Cursors
  <2> QED
    BY <1>1, <2>2, <2>3, <2>5 DEF Typed, p
<1>8. Typed' /\ Only(b)
  BY <1>1, <1>4, <1>7 DEF Typed, Only
<1>9. t \in Seq(Blocks) /\ Stands(t, cur'[b], i) /\ i \in 1 .. Len(t)
  <2>1. /\ t \in Seq(Blocks) /\ Len(t) = Len(s) + 1 /\ t[Len(s) + 1] = k /\ t[i] = s[i]
        /\ i \in 1 .. Len(t) /\ i # Len(t)
    BY <1>2
  <2>2. At(k, 0).block = k
    BY DEF At
  <2> HIDE DEF t
  <2> QED
    BY <1>3, <1>7, <2>1, <2>2 DEF Stands
<1>10. Reads(t, cur'[b], copy'[b], pc'[b])
  <2>1. cur'[b].pos # Null
    BY <1>7, BoundLast DEF Held, Reads
  <2> QED
    BY <1>2, <1>9, <2>1 DEF Reads, Within
<1> HIDE DEF t
<1>11. BuffersInv' /\ Held([q EXCEPT ![b] = t])'
  BY <1>5, <1>6, <1>8, <1>9, <1>10, StepKeeps
<1> QED
  BY <1>7, <1>8, <1>11 DEF t

LEMMA BeginStep ==
  ASSUME TypeOK, RoomIsExact, NEW q \in [Buffers -> Seq(Blocks)], Held(q), NEW b \in Buffers,
         NEW w \in Receiving, Begin(b, w), left' \in [Buffers -> Nat]
  PROVE  BuffersInv' /\ \E t \in Seq(Blocks) : Held([q EXCEPT ![b] = t])'
<1>1. Typed /\ room \in Nat /\ free \in Seq(Blocks) /\ Owned(q, head, next, free, heap)
      /\ Reads(q[b], cur[b], copy[b], pc[b])
  BY TypesOf DEF Held
<1>2. /\ copy[b] = NoCursor
      /\ head[b] # NoBlock => cur[b].pos # Null
      /\ pc[b] \notin Receiving
      /\ UNCHANGED <<next, mem, copy, sent>>
  BY DEF Begin, MayReceive, Receiving
<1>0. [q EXCEPT ![b] = q[b]] = q /\ q[b] \in Seq(Blocks)
  OBVIOUS
<1>3. CASE head[b] # NoBlock
  <2>1. UNCHANGED <<collectorVars, head, next, mem, cur, copy, sent>> /\ Go(b, w)
    BY <1>2, <1>3 DEF Begin
  <2>2. pc' \in [Buffers -> {"idle", "bytes", "connection", "gc", "dead"}]
        /\ \A d \in Buffers \ {b} : pc'[d] = pc[d]
    BY <1>1, <2>1 DEF Typed, Go, Receiving
  <2>3. Typed' /\ Only(b)
    <3>1. /\ head' = head /\ next' = next /\ mem' = mem /\ cur' = cur /\ copy' = copy
          /\ sent' = sent
      BY <2>1
    <3>2. Typed'
      BY <1>1, <2>2, <3>1 DEF Typed
    <3> QED
      BY <2>2, <3>1, <3>2 DEF Only
  <2>4. Reads(q[b], cur'[b], copy'[b], pc'[b])
    <3>1. cur'[b] = cur[b] /\ copy'[b] = NoCursor /\ cur[b].pos # Null /\ Within(q[b], cur[b])
      BY <1>1, <1>2, <1>3, <2>1 DEF Reads
    <3> QED
      BY <3>1 DEF Reads
  <2>5. BuffersInv' /\ Held(q)'
    BY <2>1, <2>3, <2>4, CursorStep
  <2> QED
    BY <1>0, <2>5
<1>4. CASE head[b] = NoBlock
  <2>1. PICK k \in Blocks \cup {NoBlock} :
          /\ Get(k)
          /\ IF k = NoBlock THEN UNCHANGED <<head, cur, pc>>
             ELSE /\ head' = [head EXCEPT ![b] = k]
                  /\ cur' = [cur EXCEPT ![b] = [pos |-> At(k, 0), bound |-> At(k, 0)]]
                  /\ Go(b, w)
    BY <1>4 DEF Begin
  <2>2. CASE k = NoBlock
    <3>1. UNCHANGED <<collectorVars, head, next, mem, cur, copy, pc, sent>>
      BY <1>1, <1>2, <2>1, <2>2, NoneHanded DEF collectorVars
    <3>2. Typed' /\ Only(b)
      BY <1>1, <3>1 DEF Typed, Only
    <3>3. Reads(q[b], cur'[b], copy'[b], pc'[b])
      BY <1>1, <3>1
    <3>4. BuffersInv' /\ Held(q)'
      BY <3>1, <3>2, <3>3, CursorStep
    <3> QED
      BY <1>0, <3>4
  <2>3. CASE k # NoBlock
    <3> DEFINE c == [pos |-> At(k, 0), bound |-> At(k, 0)]
               t == Append(q[b], k)
    <3>1. /\ k \in Blocks /\ Get(k) /\ head' = [head EXCEPT ![b] = k]
          /\ cur' = [cur EXCEPT ![b] = c] /\ pc' = [pc EXCEPT ![b] = w]
      BY <2>1, <2>3 DEF Go
    <3>2. Len(q[b]) = 0 /\ q[b] \in Seq(Blocks)
      <4>1. Along(q[b], head[b], next)
        BY <1>1 DEF Owned
      <4>2. \A i \in 1 .. Len(q[b]) : q[b][i] # NoBlock
        BY CollectorAssumption
      <4>3. Len(q[b]) # 0 => 1 \in 1 .. Len(q[b])
        OBVIOUS
      <4> QED
        BY <1>4, <4>1, <4>2, <4>3 DEF Along
    <3>3. Owned([q EXCEPT ![b] = t], head', next', free', heap')
      <4>1. head' = IF Len(q[b]) = 0 THEN [head EXCEPT ![b] = k] ELSE head
        BY <3>1, <3>2
      <4>2. next' = IF Len(q[b]) = 0 THEN next ELSE [next EXCEPT ![q[b][Len(q[b])]] = k]
        BY <1>2, <3>2
      <4>3. head \in [Buffers -> Blocks \cup {NoBlock}] /\ next \in Links
        BY <1>1 DEF Typed
      <4> QED
        BY <1>1, <3>1, <4>1, <4>2, <4>3, Lengthened
    <3>4. RoomIsExact' /\ room' \in Nat
      BY <1>1, <3>1, Handed DEF RoomIsExact
    <3>5. /\ At(k, 0) \in Addresses /\ At(k, 0).block = k /\ At(k, 0).off = 0 /\ At(k, 0) # Null
          /\ Cap \in Nat \ {0}
      <4>1. 0 \in 0 .. Cap
        BY CursorTypes
      <4> QED
        BY <3>1, <4>1, CursorTypes
    <3>6. c \in Cursors
      BY <3>5 DEF Cursors
    <3>7. cur' \in [Buffers -> Cursors] /\ cur'[b] = c /\ \A d \in Buffers \ {b} : cur'[d] = cur[d]
      <4> HIDE DEF c
      <4> QED
        BY <1>1, <3>1, <3>6 DEF Typed
    <3>8. pc' \in [Buffers -> {"idle", "bytes", "connection", "gc", "dead"}]
          /\ \A d \in Buffers \ {b} : pc'[d] = pc[d]
      BY <1>1, <3>1 DEF Typed, Receiving
    <3>9. Typed' /\ Only(b)
      <4>1. head' \in [Buffers -> Blocks \cup {NoBlock}]
        BY <1>1, <3>1 DEF Typed
      <4> QED
        BY <1>1, <1>2, <3>7, <3>8, <4>1 DEF Typed, Only
    <3>10. t \in Seq(Blocks) /\ Len(t) = 1 /\ t[1] = k
      BY <3>1, <3>2
    <3> HIDE DEF t
    <3>11. Stands(t, c, 1)
      <4>1. c.pos = At(k, 0) /\ c.bound = At(k, 0)
        OBVIOUS
      <4>2. 1 \in 1 .. Len(t) /\ t[Len(t)] = k
        BY <3>10
      <4> HIDE DEF c
      <4> QED
        BY <3>5, <3>10, <4>1, <4>2 DEF Stands
    <3>12. Reads(t, cur'[b], copy'[b], pc'[b])
      <4>1. copy'[b] = NoCursor /\ cur'[b] = c
        BY <1>2, <3>7
      <4>2. c.pos # Null
        BY <3>5
      <4>3. 1 \in 1 .. Len(t)
        BY <3>10
      <4> HIDE DEF c
      <4>4. Within(t, c)
        BY <3>11, <4>3 DEF Within
      <4> QED
        BY <4>1, <4>2, <4>4 DEF Reads
    <3>13. BuffersInv' /\ Held([q EXCEPT ![b] = t])'
      BY <3>3, <3>4, <3>9, <3>10, <3>12, StepKeeps
    <3> QED
      BY <3>10, <3>13
  <2> QED
    BY <2>2, <2>3
<1> QED
  BY <1>3, <1>4

LEMMA BytesGrowStep ==
  ASSUME TypeOK, RoomIsExact, NEW q \in [Buffers -> Seq(Blocks)], Held(q), NEW b \in Buffers,
         BytesGrow(b)
  PROVE  BuffersInv'
<1>1. Typed /\ free \in Seq(Blocks) /\ pc[b] \in Receiving
  BY TypesOf DEF BytesGrow, Receiving
<1>2. Room(b) \in 0 .. Cap /\ Cap \in Nat /\ cur[b].bound.block \in Blocks
  BY <1>1, BoundLast, CursorTypes
<1>3. PICK k \in Blocks \cup {NoBlock} :
        /\ Get(k)
        /\ IF k = NoBlock
             THEN Go(b, "idle") /\ UNCHANGED <<next, mem, cur, left, sent>>
             ELSE /\ Write(b, Room(b))
                  /\ left' = [left EXCEPT ![b] = @ - Room(b)]
                  /\ Link(b, k)
                  /\ cur' = [cur EXCEPT ![b].bound = At(k, 0)]
                  /\ UNCHANGED pc
  BY DEF BytesGrow
<1>4. UNCHANGED <<head, copy>> /\ left[b] > Room(b)
  BY DEF BytesGrow
<1>5. CASE k = NoBlock
  <2>1. UNCHANGED <<collectorVars, head, next, mem, cur, copy, left, sent>>
    BY <1>1, <1>3, <1>4, <1>5, NoneHanded DEF collectorVars
  <2> QED
    BY <1>3, <1>5, <2>1, Gone
<1>6. CASE k # NoBlock
  <2>1. left' \in [Buffers -> Nat]
    <3>1. left[b] \in Nat /\ left[b] - Room(b) \in Nat
      BY <1>1, <1>2, <1>4 DEF Typed
    <3> QED
      BY <1>1, <1>3, <1>6, <3>1 DEF Typed
  <2>2. mem' \in [Blocks -> [1 .. Cap -> 0 .. Ring]] /\ sent' \in [Buffers -> 0 .. Ring - 1]
    <3>1. Room(b) \in Nat
      BY <1>2
    <3> QED
      BY <1>2, <1>3, <1>6, <3>1, Written
  <2> QED
    BY <1>1, <1>3, <1>4, <1>6, <2>1, <2>2, Grown
<1> QED
  BY <1>5, <1>6

LEMMA ConnectionGrowStep ==
  ASSUME TypeOK, RoomIsExact, NEW q \in [Buffers -> Seq(Blocks)], Held(q), NEW b \in Buffers,
         ConnectionGrow(b)
  PROVE  BuffersInv'
<1>1. Typed /\ free \in Seq(Blocks) /\ pc[b] \in Receiving
  BY TypesOf DEF ConnectionGrow, Receiving
<1>2. PICK k \in Blocks \cup {NoBlock} :
        /\ Get(k)
        /\ IF k = NoBlock
             THEN Go(b, "idle") /\ UNCHANGED <<next, cur>>
             ELSE /\ Link(b, k)
                  /\ cur' = [cur EXCEPT ![b].bound = At(k, 0)]
                  /\ UNCHANGED pc
  BY DEF ConnectionGrow
<1>3. UNCHANGED <<head, mem, copy, left, sent>>
  BY DEF ConnectionGrow
<1>4. CASE k = NoBlock
  <2>1. UNCHANGED <<collectorVars, head, next, mem, cur, copy, left, sent>>
    BY <1>1, <1>2, <1>3, <1>4, NoneHanded DEF collectorVars
  <2> QED
    BY <1>2, <1>4, <2>1, Gone
<1>5. CASE k # NoBlock
  <2>1. /\ mem' \in [Blocks -> [1 .. Cap -> 0 .. Ring]] /\ left' \in [Buffers -> Nat]
        /\ sent' \in [Buffers -> 0 .. Ring - 1]
    BY <1>1, <1>3 DEF Typed
  <2> QED
    BY <1>1, <1>2, <1>3, <1>5, <2>1, Grown
<1> QED
  BY <1>4, <1>5

LEMMA BytesLastStep ==
  ASSUME TypeOK, RoomIsExact, NEW q \in [Buffers -> Seq(Blocks)], Held(q), NEW b \in Buffers,
         BytesLast(b)
  PROVE  BuffersInv'
<1>1. Typed /\ pc[b] \in Receiving
  BY TypesOf DEF BytesLast, Receiving
<1>2. Room(b) \in 0 .. Cap /\ Cap \in Nat
  BY <1>1, BoundLast, CursorTypes
<1>3. left[b] \in 0 .. Room(b) /\ left' \in [Buffers -> Nat]
  BY <1>1, <1>2 DEF BytesLast, Typed
<1>4. /\ Write(b, left[b]) /\ cur' = [cur EXCEPT ![b].bound.off = @ + left[b]]
      /\ UNCHANGED <<collectorVars, head, next, copy>> /\ Go(b, "idle")
  BY DEF BytesLast
<1> QED
  BY <1>1, <1>3, <1>4, Filled

LEMMA RecvStep ==
  ASSUME TypeOK, RoomIsExact, NEW q \in [Buffers -> Seq(Blocks)], Held(q), NEW b \in Buffers,
         Recv(b)
  PROVE  BuffersInv'
<1>1. Typed /\ pc[b] \in Receiving
  BY TypesOf DEF Recv, Receiving
<1>2. Room(b) \in 0 .. Cap /\ Cap \in Nat
  BY <1>1, BoundLast, CursorTypes
<1>3. PICK n \in 1 .. Room(b) : Write(b, n) /\ cur' = [cur EXCEPT ![b].bound.off = @ + n]
  BY DEF Recv
<1>4. n \in 0 .. Room(b)
  BY <1>2
<1>5. UNCHANGED <<collectorVars, head, next, copy>> /\ pc' = pc /\ left' = left
  BY DEF Recv
<1> QED
  BY <1>1, <1>3, <1>4, <1>5, Filled DEF Typed

LEMMA TakeStep ==
  ASSUME TypeOK, RoomIsExact, NEW q \in [Buffers -> Seq(Blocks)], Held(q), NEW b \in Buffers,
         Take(b)
  PROVE  BuffersInv' /\ Held(q)'
<1>1. Typed /\ Reads(q[b], cur[b], copy[b], pc[b]) /\ Along(q[b], head[b], next)
  BY TypesOf DEF Held, Owned
<1>2. /\ copy' = [copy EXCEPT ![b] = cur[b]] /\ pc[b] = "idle"
      /\ UNCHANGED <<collectorVars, head, next, mem, cur, pc, left, sent>>
  BY DEF Take
<1>3. copy'[b] = cur[b] /\ copy' \in [Buffers -> Cursors \cup {NoCursor}]
      /\ \A d \in Buffers \ {b} : copy'[d] = copy[d]
  BY <1>1, <1>2 DEF Typed
<1>4. Typed' /\ Only(b)
  BY <1>1, <1>2, <1>3 DEF Typed, Only
<1>5. NotBefore(q[b], cur[b], cur[b])
  <2>1. cur[b] \in Cursors
    BY <1>1 DEF Typed
  <2>2. cur[b].pos.off \in Nat
    BY <2>1, CursorTypes
  <2>3. Once(q[b])
    BY <1>1 DEF Along
  <2>4. \A i, j \in 1 .. Len(q[b]) :
          cur[b].pos.block = q[b][i] /\ cur[b].pos.block = q[b][j] => i = j
    BY <2>3 DEF Once
  <2>5. cur[b].pos.off <= cur[b].pos.off
    BY <2>2
  <2> QED
    BY <2>4, <2>5, Zenon DEF NotBefore
<1>6. Reads(q[b], cur'[b], copy'[b], pc'[b])
  BY <1>1, <1>2, <1>3, <1>5 DEF Reads, Receiving
<1> QED
  BY <1>2, <1>4, <1>6, CursorStep

LEMMA NotBeforeOn ==
  ASSUME NEW s, NEW c \in Cursors, NEW d \in Cursors, NEW e \in Cursors, Within(s, d), d.pos # Null,
         Len(s) \in Nat, NotBefore(s, c, d), NotBefore(s, d, e)
  PROVE  NotBefore(s, c, e)
<1>1. PICK x \in 1 .. Len(s) : d.pos.block = s[x]
  BY DEF Within, Stands
<1>2. c.pos.off \in Nat /\ d.pos.off \in Nat /\ e.pos.off \in Nat
  BY CursorTypes
<1>3. SUFFICES ASSUME NEW i \in 1 .. Len(s), NEW j \in 1 .. Len(s),
                      c.pos.block = s[i], e.pos.block = s[j]
               PROVE  i < j \/ (i = j /\ c.pos.off <= e.pos.off)
  BY DEF NotBefore
<1>4. i < x \/ (i = x /\ c.pos.off <= d.pos.off)
  BY <1>1, <1>3 DEF NotBefore
<1>5. x < j \/ (x = j /\ d.pos.off <= e.pos.off)
  BY <1>1, <1>3 DEF NotBefore
<1> QED
  BY <1>2, <1>4, <1>5

LEMMA AdvanceStep ==
  ASSUME TypeOK, RoomIsExact, NEW q \in [Buffers -> Seq(Blocks)], Held(q), NEW b \in Buffers,
         Advance(b)
  PROVE  BuffersInv' /\ Held(q)'
<1>1. Typed /\ Reads(q[b], cur[b], copy[b], pc[b]) /\ Along(q[b], head[b], next)
  BY TypesOf DEF Held, Owned
<1>2. /\ pc[b] = "idle" /\ copy[b] # NoCursor /\ copy[b].pos # Null
      /\ UNCHANGED <<collectorVars, head, next, mem, cur, left, sent>>
  BY DEF Advance
<1>3. PICK n \in Steps : LET p == Moved(copy[b], n) IN
        IF p = Dead THEN Go(b, "dead") /\ UNCHANGED copy
        ELSE copy' = [copy EXCEPT ![b].pos = p] /\ UNCHANGED pc
  BY DEF Advance
<1>4. n \in Nat /\ copy[b] \in Cursors /\ cur[b] \in Cursors /\ Len(q[b]) \in Nat
  BY <1>1, <1>2, BuffersAssumption DEF Typed
<1>5. CASE Moved(copy[b], n) = Dead
  BY <1>2, <1>3, <1>5, Gone
<1>6. CASE Moved(copy[b], n) # Dead
  <2> DEFINE d == [copy[b] EXCEPT !.pos = Moved(copy[b], n)]
  <2>1. copy' = [copy EXCEPT ![b] = d] /\ pc' = pc
    BY <1>1, <1>3, <1>6 DEF Typed
  <2>2. Within(q[b], copy[b]) /\ copy[b].bound = cur[b].bound /\ cur[b].pos # Null
        /\ NotBefore(q[b], cur[b], copy[b])
    BY <1>1, <1>2 DEF Reads
  <2>3. d.bound = cur[b].bound
    BY <1>4, <2>2 DEF Cursors
  <2>4. d \in Cursors /\ Within(q[b], d) /\ (d.pos # Null => NotBefore(q[b], copy[b], d))
    <3> HIDE DEF d
    <3>1. d = [copy[b] EXCEPT !.pos = Moved(copy[b], n)]
      BY DEF d
    <3> QED
      BY <1>1, <1>2, <1>4, <1>6, <2>2, <3>1, MovedWithin
  <2> HIDE DEF d
  <2>5. d.pos # Null => NotBefore(q[b], cur[b], d)
    BY <1>2, <1>4, <2>2, <2>4, NotBeforeOn
  <2>6. copy'[b] = d /\ copy' \in [Buffers -> Cursors \cup {NoCursor}]
        /\ \A e \in Buffers \ {b} : copy'[e] = copy[e]
    BY <1>1, <2>1, <2>4 DEF Typed
  <2>7. Typed' /\ Only(b)
    BY <1>1, <1>2, <2>1, <2>6 DEF Typed, Only
  <2>8. Reads(q[b], cur'[b], copy'[b], pc'[b])
    <3>1. cur'[b] = cur[b] /\ pc'[b] = "idle"
      BY <1>2, <2>1
    <3>2. Reads(q[b], cur[b], d, "idle")
      BY <1>1, <2>2, <2>3, <2>4, <2>5 DEF Reads, Receiving
    <3> QED
      BY <2>6, <3>1, <3>2
  <2> QED
    BY <1>2, <2>7, <2>8, CursorStep
<1> QED
  BY <1>5, <1>6

LEMMA GiveStep ==
  ASSUME TypeOK, RoomIsExact, NEW q \in [Buffers -> Seq(Blocks)], Held(q), NEW b \in Buffers,
         Give(b)
  PROVE  BuffersInv' /\ Held(q)'
<1>1. Typed /\ Reads(q[b], cur[b], copy[b], pc[b])
  BY TypesOf DEF Held
<1>2. /\ cur' = cur \/ cur' = [cur EXCEPT ![b] = copy[b]]
      /\ copy' = [copy EXCEPT ![b] = NoCursor] /\ pc[b] = "idle" /\ copy[b] # NoCursor
      /\ UNCHANGED <<collectorVars, head, next, mem, pc, left, sent>>
  BY DEF Give
<1>3. copy[b] \in Cursors
  BY <1>1, <1>2 DEF Typed
<1>4. /\ copy'[b] = NoCursor /\ copy' \in [Buffers -> Cursors \cup {NoCursor}]
      /\ \A d \in Buffers \ {b} : copy'[d] = copy[d]
  BY <1>1, <1>2 DEF Typed
<1>5. /\ cur'[b] \in {cur[b], copy[b]} /\ cur' \in [Buffers -> Cursors]
      /\ \A d \in Buffers \ {b} : cur'[d] = cur[d]
  BY <1>1, <1>2, <1>3 DEF Typed
<1>6. Typed' /\ Only(b)
  BY <1>1, <1>2, <1>4, <1>5 DEF Typed, Only
<1>7. Reads(q[b], cur'[b], copy'[b], pc'[b])
  <2>1. Within(q[b], cur'[b])
    BY <1>1, <1>2, <1>5 DEF Reads
  <2> QED
    BY <1>2, <1>4, <2>1 DEF Reads, Receiving
<1> QED
  BY <1>2, <1>6, <1>7, CursorStep

LEMMA ResetStep ==
  ASSUME TypeOK, RoomIsExact, NEW q \in [Buffers -> Seq(Blocks)], Held(q), NEW b \in Buffers,
         Reset(b)
  PROVE  BuffersInv' /\ Held(q)'
<1>1. Typed
  BY TypesOf
<1>2. /\ cur' = [cur EXCEPT ![b] = NullCursor] /\ pc' = [pc EXCEPT ![b] = "gc"]
      /\ copy[b] = NoCursor
      /\ UNCHANGED <<collectorVars, head, next, mem, copy, left, sent>>
  BY DEF Reset, Go
<1>3. NullCursor \in Cursors /\ NullCursor.pos = Null
  BY DEF NullCursor, Cursors, Addresses
<1>4. /\ cur'[b] = NullCursor /\ cur' \in [Buffers -> Cursors]
      /\ \A d \in Buffers \ {b} : cur'[d] = cur[d]
  BY <1>1, <1>2, <1>3 DEF Typed
<1>5. /\ pc'[b] = "gc" /\ pc' \in [Buffers -> {"idle", "bytes", "connection", "gc", "dead"}]
      /\ \A d \in Buffers \ {b} : pc'[d] = pc[d]
  BY <1>1, <1>2 DEF Typed
<1>6. Typed' /\ Only(b)
  BY <1>1, <1>2, <1>4, <1>5 DEF Typed, Only
<1>7. Reads(q[b], cur'[b], copy'[b], pc'[b])
  BY <1>2, <1>3, <1>4, <1>5 DEF Reads, Within, Receiving
<1> QED
  BY <1>2, <1>6, <1>7, CursorStep

\* A cursor that is not in the first block does not miss it.
LEMMA WithinTail ==
  ASSUME NEW s \in Seq(Blocks), Len(s) >= 1, NEW c, NEW d, Within(s, c), Within(s, d),
         c.pos # Null => c.pos.block # s[1],
         d.pos # Null => c.pos # Null /\ NotBefore(s, c, d)
  PROVE  /\ Within(Tail(s), c) /\ Within(Tail(s), d)
         /\ d.pos # Null => NotBefore(Tail(s), c, d)
<1> DEFINE t == Tail(s)
<1>1. /\ Len(s) \in Nat /\ t \in Seq(Blocks) /\ Len(t) = Len(s) - 1
      /\ \A i \in 1 .. Len(t) : t[i] = s[i + 1] /\ i + 1 \in 1 .. Len(s)
  OBVIOUS
<1> HIDE DEF t
<1>2. ASSUME NEW e, Within(s, e), e.pos # Null => e.pos.block # s[1]
      PROVE  Within(t, e)
  <2>1. SUFFICES ASSUME e.pos # Null PROVE Within(t, e)
    BY DEF Within
  <2>2. PICK i \in 1 .. Len(s) : Stands(s, e, i)
    BY <1>2, <2>1 DEF Within
  <2>3. i # 1
    BY <1>2, <2>1, <2>2 DEF Stands
  <2>4. i - 1 \in 1 .. Len(t) /\ (i - 1) + 1 = i /\ Len(t) \in 1 .. Len(t)
        /\ Len(t) + 1 = Len(s) /\ (i - 1 = Len(t) <=> i = Len(s))
    BY <1>1, <2>2, <2>3
  <2>5. t[i - 1] = s[i] /\ t[Len(t)] = s[Len(s)]
    BY <1>1, <2>4
  <2>6. Stands(t, e, i - 1)
    BY <2>2, <2>4, <2>5 DEF Stands
  <2> QED
    BY <2>4, <2>6 DEF Within
<1>3. Within(t, c)
  BY <1>2
<1>4. ASSUME d.pos # Null PROVE d.pos.block # s[1] /\ NotBefore(t, c, d)
  <2>1. PICK i \in 1 .. Len(s) : Stands(s, c, i)
    BY <1>4 DEF Within
  <2>2. i # 1 /\ c.pos.block = s[i] /\ 1 \in 1 .. Len(s) /\ NotBefore(s, c, d)
    BY <1>1, <1>4, <2>1 DEF Stands
  <2>3. d.pos.block # s[1]
    <3>1. ASSUME d.pos.block = s[1] PROVE FALSE
      <4>1. i < 1 \/ (i = 1 /\ c.pos.off <= d.pos.off)
        BY <2>2, <3>1 DEF NotBefore
      <4> QED
        BY <2>2, <4>1
    <3> QED
      BY <3>1
  <2>4. NotBefore(t, c, d)
    <3>1. SUFFICES ASSUME NEW x \in 1 .. Len(t), NEW y \in 1 .. Len(t),
                          c.pos.block = t[x], d.pos.block = t[y]
                   PROVE  x < y \/ (x = y /\ c.pos.off <= d.pos.off)
      BY DEF NotBefore
    <3>2. /\ x + 1 \in 1 .. Len(s) /\ y + 1 \in 1 .. Len(s)
          /\ c.pos.block = s[x + 1] /\ d.pos.block = s[y + 1]
      BY <1>1, <3>1
    <3>3. x + 1 < y + 1 \/ (x + 1 = y + 1 /\ c.pos.off <= d.pos.off)
      BY <2>2, <3>2 DEF NotBefore
    <3> QED
      BY <1>1, <3>3
  <2> QED
    BY <2>3, <2>4
<1>5. Within(t, d)
  BY <1>2, <1>4
<1> QED
  BY <1>3, <1>4, <1>5 DEF t

LEMMA CollectStep ==
  ASSUME TypeOK, RoomIsExact, NEW q \in [Buffers -> Seq(Blocks)], Held(q), NEW b \in Buffers,
         Collect(b)
  PROVE  /\ BuffersInv'
         /\ head[b] \notin {NoBlock, Read(b)} => Held([q EXCEPT ![b] = Tail(q[b])])'
<1>1. Typed /\ room \in Nat /\ Reads(q[b], cur[b], copy[b], pc[b])
      /\ Owned(q, head, next, free, heap) /\ Along(q[b], head[b], next)
  BY TypesOf DEF Held, Owned
<1>2. pc[b] = "gc" /\ UNCHANGED <<cur, copy, left, sent>>
  BY DEF Collect
<1>3. CASE head[b] \in {NoBlock, Read(b)}
  <2>1. Go(b, "idle") /\ UNCHANGED <<collectorVars, head, next, mem>>
    BY <1>3 DEF Collect
  <2> QED
    BY <1>2, <1>3, <2>1, Gone
<1>4. CASE head[b] \notin {NoBlock, Read(b)}
  <2> DEFINE s == q[b]
             t == Tail(s)
             k == head[b]
  <2>1. /\ Put(k) /\ head' = [head EXCEPT ![b] = next[k]]
        /\ next' = [next EXCEPT ![k] = NoBlock]
        /\ mem' = [mem EXCEPT ![k] = [i \in 1 .. Cap |-> Junk]]
        /\ pc' = pc /\ k # NoBlock /\ k # cur[b].pos.block
    BY <1>4 DEF Collect, Read
  <2>2. k \in Blocks /\ k \in Members(s) /\ Len(s) >= 1 /\ k = s[1] /\ s \in Seq(Blocks)
    <3>1. next \in [Blocks -> Blocks \cup {NoBlock}] /\ Along(s, k, next) /\ s \in Seq(Blocks)
      BY <1>1 DEF Typed, Links
    <3> HIDE DEF s, k
    <3> QED
      BY <2>1, <3>1, AlongShrinks
  <2>3. t \in Seq(Blocks)
    BY <2>2
  <2>4. Owned([q EXCEPT ![b] = t], head', next', free', heap')
    <3>1. head \in [Buffers -> Blocks \cup {NoBlock}] /\ next \in Links
      BY <1>1 DEF Typed
    <3>2. Owned([q EXCEPT ![b] = Tail(@)], [head EXCEPT ![b] = next[head[b]]],
                [next EXCEPT ![head[b]] = NoBlock], free', heap')
      BY <1>1, <2>1, <3>1, Shortened
    <3> QED
      BY <2>1, <3>2
  <2>5. RoomIsExact' /\ room' \in Nat
    <3>1. free \in Seq(Blocks) /\ Once(free) /\ Linked(q) \cap Members(free) = {}
      BY <1>1 DEF Owned
    <3>2. k \in Linked(q)
      BY <2>2 DEF Linked
    <3>3. k \notin Members(free)
      BY <3>1, <3>2
    <3> HIDE DEF k
    <3>4. room' + Len(free') = room + Len(free) /\ room' \in Nat
      BY <1>1, <2>1, <2>2, <3>1, <3>3, TakenBack
    <3> QED
      BY <3>4 DEF RoomIsExact
  <2>6. next[k] \in Blocks \cup {NoBlock} /\ head' \in [Buffers -> Blocks \cup {NoBlock}]
        /\ next' \in Links
    BY <1>1, <2>1, <2>2 DEF Typed, Links
  <2>7. mem' \in [Blocks -> [1 .. Cap -> 0 .. Ring]]
    <3> DEFINE void == [i \in 1 .. Cap |-> Junk]
    <3>1. void \in [1 .. Cap -> 0 .. Ring]
      BY BuffersAssumption DEF Junk
    <3> HIDE DEF void
    <3>2. mem' = [mem EXCEPT ![k] = void]
      BY <2>1 DEF void
    <3> QED
      BY <1>1, <3>1, <3>2 DEF Typed
  <2>8. Typed' /\ Only(b)
    BY <1>1, <1>2, <2>1, <2>6, <2>7 DEF Typed, Only
  <2>9. Reads(t, cur'[b], copy'[b], pc'[b])
    <3> DEFINE c == cur[b]
               d == copy[b]
    <3>1. cur'[b] = c /\ copy'[b] = d /\ pc'[b] = "gc" /\ Reads(s, c, d, "gc")
      BY <1>1, <1>2, <2>1
    <3>2. c.pos # Null => c.pos.block # s[1]
      BY <2>1, <2>2
    <3> HIDE DEF c, d, s
    <3>3. CASE d = NoCursor
      <4>1. Within(s, c) /\ Within(s, NullCursor) /\ NullCursor.pos = Null
        BY <3>1 DEF Reads, Within, NullCursor
      <4>2. Within(t, c)
        BY <2>2, <3>2, <4>1, WithinTail
      <4> QED
        BY <3>1, <3>3, <4>2 DEF Reads, Receiving
    <3>4. CASE d # NoCursor
      <4>1. /\ Within(s, c) /\ Within(s, d) /\ d.bound = c.bound
            /\ d.pos # Null => c.pos # Null /\ NotBefore(s, c, d)
        BY <3>1, <3>4 DEF Reads
      <4>2. /\ Within(t, c) /\ Within(t, d)
            /\ d.pos # Null => NotBefore(t, c, d)
        BY <2>2, <3>2, <4>1, WithinTail
      <4> HIDE DEF t
      <4> QED
        BY <3>1, <3>4, <4>1, <4>2 DEF Reads, Receiving
    <3> QED
      BY <3>3, <3>4
  <2> HIDE DEF t
  <2>10. BuffersInv' /\ Held([q EXCEPT ![b] = t])'
    BY <2>3, <2>4, <2>5, <2>8, <2>9, StepKeeps
  <2> QED
    BY <2>10 DEF t
<1> QED
  BY <1>3, <1>4

-----------------------------------------------------------------------------
(* The invariant holds. *)

LEMMA BuffersStart == Init => BuffersInv
<1> SUFFICES ASSUME Init PROVE BuffersInv
  OBVIOUS
<1> DEFINE q == [b \in Buffers |-> <<>>]
<1>1. /\ free = <<>> /\ room = CollectorSize /\ heap = {}
      /\ head = [b \in Buffers |-> NoBlock] /\ next = [k \in Blocks |-> NoBlock]
      /\ mem = [k \in Blocks |-> [i \in 1 .. Cap |-> Junk]]
      /\ cur = [b \in Buffers |-> NullCursor] /\ copy = [b \in Buffers |-> NoCursor]
      /\ pc = [b \in Buffers |-> "idle"] /\ left = [b \in Buffers |-> 0]
      /\ sent = [b \in Buffers |-> 0]
  BY DEF Init, CollectorInit
<1>2. CollectorSize \in Nat /\ Cap \in Nat \ {0} /\ Ring \in Nat /\ Ring >= 1
      /\ 0 \in 0 .. Ring - 1
  BY CollectorAssumption, BuffersAssumption
<1>3. TypeOK
  <2>1. NullCursor \in Cursors
    BY DEF NullCursor, Cursors, Addresses
  <2>2. mem \in [Blocks -> [1 .. Cap -> 0 .. Ring]]
    <3>1. Junk \in 0 .. Ring
      BY <1>2 DEF Junk
    <3> QED
      BY <1>1, <3>1
  <2>3. free \in Seq(Blocks) /\ room \in 0 .. CollectorSize /\ heap \subseteq Blocks
    BY <1>1, <1>2
  <2>4. /\ head \in [Buffers -> Blocks \cup {NoBlock}]
        /\ next \in [Blocks -> Blocks \cup {NoBlock}]
        /\ left \in [Buffers -> Nat] /\ sent \in [Buffers -> 0 .. Ring - 1]
    BY <1>1, <1>2
  <2>5. /\ cur \in [Buffers -> Cursors] /\ copy \in [Buffers -> Cursors \cup {NoCursor}]
        /\ pc \in [Buffers -> {"idle", "bytes", "connection", "gc", "dead"}]
    BY <1>1, <2>1
  <2> QED
    BY <2>2, <2>3, <2>4, <2>5 DEF TypeOK
<1>4. RoomIsExact
  BY <1>1, <1>2 DEF RoomIsExact
<1>5. /\ q \in [Buffers -> Seq(Blocks)]
      /\ \A b \in Buffers : q[b] = <<>> /\ q[b] \in Seq(Blocks) /\ Len(q[b]) = 0
  OBVIOUS
<1> HIDE DEF q
<1>6. \A b \in Buffers : Members(q[b]) = {} /\ Along(q[b], head[b], next)
  <2>1. ASSUME NEW b \in Buffers PROVE Members(q[b]) = {} /\ Along(q[b], head[b], next)
    <3>1. 1 .. Len(q[b]) = {} /\ head[b] = NoBlock
      BY <1>1, <1>5
    <3> QED
      BY <1>5, <3>1 DEF Members, Along, Once
  <2> QED
    BY <2>1
<1>7. Linked(q) = {} /\ Members(free) = {} /\ Once(free) /\ free \in Seq(Blocks)
  <2>1. Linked(q) = {}
    BY <1>6 DEF Linked
  <2>2. 1 .. Len(free) = {} /\ free \in Seq(Blocks)
    BY <1>1
  <2> QED
    BY <2>1, <2>2 DEF Members, Once
<1>8. Owned(q, head, next, free, heap)
  <2>1. \E most \in Nat : \A b \in Buffers : Len(q[b]) <= most
    <3>1. 0 \in Nat /\ \A b \in Buffers : Len(q[b]) <= 0
      BY <1>5
    <3> QED
      BY <3>1
  <2>2. \A k \in Blocks : next[k] = NoBlock
    BY <1>1
  <2>3. heap = Linked(q) \cup Members(free) /\ Linked(q) \cap Members(free) = {}
    BY <1>1, <1>7
  <2>4. \A b, d \in Buffers : b # d => Members(q[b]) \cap Members(q[d]) = {}
    BY <1>6
  <2> QED
    BY <1>6, <1>7, <2>1, <2>2, <2>3, <2>4 DEF Owned
<1>9. \A b \in Buffers : Reads(q[b], cur[b], copy[b], pc[b])
  BY <1>1 DEF Reads, Within, NullCursor, Receiving
<1> QED
  BY <1>3, <1>4, <1>5, <1>8, <1>9 DEF BuffersInv, Held

LEMMA BuffersStep == BuffersInv /\ [Next]_vars => BuffersInv'
<1> SUFFICES ASSUME BuffersInv, [Next]_vars PROVE BuffersInv'
  OBVIOUS
<1>1. TypeOK /\ RoomIsExact
  BY DEF BuffersInv
<1>2. PICK q \in [Buffers -> Seq(Blocks)] : Held(q)
  BY DEF BuffersInv
<1>3. CASE UNCHANGED vars
  <2>1. /\ free' = free /\ room' = room /\ heap' = heap /\ head' = head /\ next' = next
        /\ mem' = mem /\ cur' = cur /\ copy' = copy /\ pc' = pc /\ left' = left /\ sent' = sent
    BY <1>3 DEF vars, collectorVars, bufferVars
  <2>2. TypeOK' /\ RoomIsExact'
    BY <1>1, <2>1 DEF TypeOK, RoomIsExact
  <2>3. Held(q)'
    BY <1>2, <2>1 DEF Held
  <2> QED
    BY <2>2, <2>3 DEF BuffersInv
<1>4. ASSUME NEW b \in Buffers,
             \/ ReadBytes(b) \/ BytesGrow(b) \/ BytesLast(b)
             \/ ReadConnection(b) \/ ConnectionGrow(b) \/ Recv(b) \/ RecvEnds(b)
             \/ Take(b) \/ Advance(b) \/ IsEmpty(b) \/ Give(b)
             \/ Reset(b) \/ GC(b) \/ Collect(b)
      PROVE  BuffersInv'
  <2>1. CASE ReadBytes(b)
    <3>1. left' \in [Buffers -> Nat]
      BY <1>1, <2>1, BuffersAssumption DEF ReadBytes, TypeOK
    <3>2. "bytes" \in Receiving /\ Begin(b, "bytes")
      BY <2>1 DEF ReadBytes, Receiving
    <3> QED
      BY <1>1, <1>2, <3>1, <3>2, BeginStep
  <2>2. CASE ReadConnection(b)
    <3>1. left' \in [Buffers -> Nat]
      BY <1>1, <2>2 DEF ReadConnection, TypeOK
    <3>2. "connection" \in Receiving /\ Begin(b, "connection")
      BY <2>2 DEF ReadConnection, Receiving
    <3> QED
      BY <1>1, <1>2, <3>1, <3>2, BeginStep
  <2>3. CASE RecvEnds(b)
    BY <1>1, <1>2, <2>3, Gone DEF RecvEnds
  <2>4. CASE GC(b)
    BY <1>1, <1>2, <2>4, Gone DEF GC
  <2>5. CASE BytesGrow(b)
    BY <1>1, <1>2, <2>5, BytesGrowStep
  <2>6. CASE BytesLast(b)
    BY <1>1, <1>2, <2>6, BytesLastStep
  <2>7. CASE ConnectionGrow(b)
    BY <1>1, <1>2, <2>7, ConnectionGrowStep
  <2>8. CASE Recv(b)
    BY <1>1, <1>2, <2>8, RecvStep
  <2>9. CASE Take(b)
    BY <1>1, <1>2, <2>9, TakeStep
  <2>10. CASE Advance(b)
    BY <1>1, <1>2, <2>10, AdvanceStep
  <2>11. CASE Give(b)
    BY <1>1, <1>2, <2>11, GiveStep
  <2>12. CASE Reset(b)
    BY <1>1, <1>2, <2>12, ResetStep
  <2>13. CASE Collect(b)
    BY <1>1, <1>2, <2>13, CollectStep
  <2>14. CASE IsEmpty(b)
    BY <1>1, <1>2, <2>14, Gone DEF IsEmpty
  <2> QED
    BY <1>4, <2>1, <2>2, <2>3, <2>4, <2>5, <2>6, <2>7, <2>8, <2>9, <2>10, <2>11, <2>12, <2>13,
       <2>14
<1> QED
  BY <1>3, <1>4 DEF Next

LEMMA BuffersInvariant == Spec => []BuffersInv
<1> QED
  BY BuffersStart, BuffersStep, PTL DEF Spec

\* Every variable of the buffers and of their collector keeps the values its
\* declaration allows, however many buffers share the collector.
THEOREM BuffersTypes == Spec => []TypeOK
<1>1. BuffersInv => TypeOK
  BY DEF BuffersInv
<1> QED
  BY <1>1, BuffersInvariant, PTL

\* The collector's unsigned counter never wraps and it never keeps more blocks
\* than it is configured for, whatever the order of Get and Put.
THEOREM CollectorIsExact == Spec => []RoomIsExact
<1>1. BuffersInv => RoomIsExact
  BY DEF BuffersInv
<1> QED
  BY <1>1, BuffersInvariant, PTL

-----------------------------------------------------------------------------
(* What is computed along the links. *)

BlocksOrNone == Blocks \cup {NoBlock}

\* What has fewer than n links before NoBlock.
Near(q, n) ==
  {NoBlock} \cup {k \in Blocks : n # 0 /\ k \notin Linked(q)}
  \cup {k \in Blocks : \E b \in Buffers : \E j \in 1 .. Len(q[b]) : k = q[b][j] /\ Len(q[b]) - j < n}

LEMMA NearSteps ==
  ASSUME NEW q \in [Buffers -> Seq(Blocks)], Owned(q, head, next, free, heap)
  PROVE  /\ Near(q, 0) = {NoBlock}
         /\ \A n \in Nat : \A k \in Near(q, n + 1) : k # NoBlock => next[k] \in Near(q, n)
         /\ \E n \in Nat : BlocksOrNone \subseteq Near(q, n)
<1>1. /\ \A b \in Buffers : Along(q[b], head[b], next)
      /\ \A k \in Blocks : k \notin Linked(q) => next[k] = NoBlock
  BY DEF Owned
<1>2. \A b \in Buffers : \A j \in 1 .. Len(q[b]) : Len(q[b]) \in Nat /\ ~(Len(q[b]) - j < 0)
  OBVIOUS
<1>3. Near(q, 0) = {NoBlock}
  BY <1>2 DEF Near
<1>4. ASSUME NEW n \in Nat, NEW k \in Near(q, n + 1), k # NoBlock PROVE next[k] \in Near(q, n)
  <2>1. CASE k \notin Linked(q)
    <3>1. k \in Blocks
      BY <1>4 DEF Near
    <3> QED
      BY <1>1, <2>1, <3>1 DEF Near
  <2>2. CASE k \in Linked(q)
    <3>0. PICK b \in Buffers : \E j \in 1 .. Len(q[b]) : k = q[b][j] /\ Len(q[b]) - j < n + 1
      BY <1>4, <2>2 DEF Near
    <3>1. PICK j \in 1 .. Len(q[b]) : k = q[b][j] /\ Len(q[b]) - j < n + 1
      BY <3>0
    <3>2. next[k] = IF j = Len(q[b]) THEN NoBlock ELSE q[b][j + 1]
      BY <1>1, <3>1 DEF Along
    <3>3. CASE j = Len(q[b])
      BY <3>2, <3>3 DEF Near
    <3>4. CASE j # Len(q[b])
      <4>1. /\ Len(q[b]) \in Nat /\ j + 1 \in 1 .. Len(q[b]) /\ Len(q[b]) - (j + 1) < n
            /\ q[b][j + 1] \in Blocks
        BY <3>1, <3>4
      <4>2. q[b][j + 1] \in Near(q, n)
        BY <4>1 DEF Near
      <4> QED
        BY <3>2, <3>4, <4>2
    <3> QED
      BY <3>3, <3>4
  <2> QED
    BY <2>1, <2>2
<1>5. \E n \in Nat : BlocksOrNone \subseteq Near(q, n)
  <2>1. PICK most \in Nat : \A b \in Buffers : Len(q[b]) <= most
    BY DEF Owned
  <2>2. ASSUME NEW k \in Blocks PROVE k \in Near(q, most + 1)
    <3>1. CASE k \notin Linked(q)
      BY <2>1, <3>1 DEF Near
    <3>2. CASE k \in Linked(q)
      <4>0. PICK b \in Buffers : \E j \in 1 .. Len(q[b]) : k = q[b][j]
        BY <3>2 DEF Linked, Members
      <4>1. PICK j \in 1 .. Len(q[b]) : k = q[b][j]
        BY <4>0
      <4>2. Len(q[b]) - j < most + 1
        <5>1. Len(q[b]) \in Nat /\ Len(q[b]) <= most
          BY <2>1
        <5> QED
          BY <5>1
      <4> QED
        BY <4>1, <4>2 DEF Near
    <3> QED
      BY <3>1, <3>2
  <2>3. NoBlock \in Near(q, most + 1) /\ most + 1 \in Nat
    BY DEF Near
  <2> QED
    BY <2>2, <2>3 DEF BlocksOrNone
<1> QED
  BY <1>3, <1>4, <1>5

\* What holds of NoBlock, and of a block when it holds of the next one, holds of all.
LEMMA NextInduction ==
  ASSUME NEW q \in [Buffers -> Seq(Blocks)], Owned(q, head, next, free, heap),
         NEW T, NoBlock \in T, \A k \in Blocks : next[k] \in T => k \in T
  PROVE  BlocksOrNone \subseteq T
<1> DEFINE S == {n \in Nat : Near(q, n) \subseteq T}
<1>1. /\ Near(q, 0) = {NoBlock}
      /\ \A n \in Nat : \A k \in Near(q, n + 1) : k # NoBlock => next[k] \in Near(q, n)
      /\ \E n \in Nat : BlocksOrNone \subseteq Near(q, n)
  BY NearSteps
<1>2. \A n \in Nat : \A k \in Near(q, n + 1) : k = NoBlock \/ k \in Blocks
  BY DEF Near
<1>3. 0 \in S
  BY <1>1
<1>4. ASSUME NEW n \in Nat, n \in S PROVE n + 1 \in S
  BY <1>1, <1>2, <1>4
<1>5. Nat \subseteq S
  <2> HIDE DEF S
  <2> QED
    BY <1>3, <1>4, SetInduction
<1> QED
  BY <1>1, <1>5

\* A function that is given at NoBlock and at any other block by its value at
\* the next one exists.
Grounded(V, base, val) ==
  NoBlock \in base /\ \A k \in BlocksOrNone : k \in base => val[k] \in V
Computes(f, base, val, comb) ==
  \A k \in BlocksOrNone : f[k] = IF k \in base THEN val[k] ELSE comb[k][f[next[k]]]

LEMMA NextRecursion ==
  ASSUME NEW q \in [Buffers -> Seq(Blocks)], Owned(q, head, next, free, heap), next \in Links,
         NEW V, NEW base, NEW val, Grounded(V, base, val), NEW comb \in [Blocks -> [V -> V]]
  PROVE  \E f \in [BlocksOrNone -> V] : Computes(f, base, val, comb)
<1>0. NoBlock \in base /\ \A k \in BlocksOrNone : k \in base => val[k] \in V
  BY DEF Grounded
<1> DEFINE val2(f, k) == IF k \in base THEN val[k] ELSE comb[k][f[next[k]]]
           F == [BlocksOrNone -> V]
           S == {n \in Nat : \E f \in F : \A k \in BlocksOrNone : k \in Near(q, n) => f[k] = val2(f, k)}
<1>1. /\ Near(q, 0) = {NoBlock}
      /\ \A n \in Nat : \A k \in Near(q, n + 1) : k # NoBlock => next[k] \in Near(q, n)
      /\ \E n \in Nat : BlocksOrNone \subseteq Near(q, n)
  BY NearSteps
<1>2. /\ NoBlock \in BlocksOrNone
      /\ \A k \in BlocksOrNone : k \notin base => k \in Blocks /\ next[k] \in BlocksOrNone
  BY <1>0 DEF BlocksOrNone, Links
<1>3. \A f \in F : \A k \in BlocksOrNone : val2(f, k) \in V
  BY <1>0, <1>2
<1>4. 0 \in S
  <2> DEFINE f == [k \in BlocksOrNone |-> IF k \in base THEN val[k] ELSE val[NoBlock]]
  <2>1. f \in F
    BY <1>0, <1>2
  <2>2. \A k \in BlocksOrNone : k \in Near(q, 0) => f[k] = val2(f, k)
    BY <1>0, <1>1, <1>2
  <2> HIDE DEF f, val2
  <2> QED
    BY <2>1, <2>2
<1>5. ASSUME NEW n \in Nat, n \in S PROVE n + 1 \in S
  <2>1. PICK f \in F : \A k \in BlocksOrNone : k \in Near(q, n) => f[k] = val2(f, k)
    BY <1>5
  <2> DEFINE g == [k \in BlocksOrNone |-> val2(f, k)]
  <2>2. g \in F
    <3> HIDE DEF val2
    <3> QED
      BY <1>3
  <2>3. ASSUME NEW k \in BlocksOrNone, k \in Near(q, n + 1) PROVE g[k] = val2(g, k)
    <3>1. CASE k \in base
      BY <3>1
    <3>2. CASE k \notin base
      <4>1. k # NoBlock /\ next[k] \in Near(q, n) /\ next[k] \in BlocksOrNone
        BY <1>0, <1>1, <1>2, <2>3, <3>2
      <4>2. g[next[k]] = f[next[k]]
        <5> HIDE DEF val2
        <5> QED
          BY <2>1, <4>1
      <4>3. g[k] = comb[k][f[next[k]]]
        BY <3>2
      <4> HIDE DEF g
      <4> QED
        BY <3>2, <4>2, <4>3
    <3> QED
      BY <3>1, <3>2
  <2> HIDE DEF g, val2
  <2> QED
    BY <2>2, <2>3
<1>6. Nat \subseteq S
  <2> HIDE DEF S
  <2> QED
    BY <1>4, <1>5, SetInduction
<1>7. PICK n \in Nat : BlocksOrNone \subseteq Near(q, n)
  BY <1>1
<1>8. PICK f \in F : \A k \in BlocksOrNone : k \in Near(q, n) => f[k] = val2(f, k)
  BY <1>6
<1> QED
  BY <1>7, <1>8 DEF Computes

LEMMA ChainSteps ==
  ASSUME NEW q \in [Buffers -> Seq(Blocks)], Owned(q, head, next, free, heap), next \in Links
  PROVE  /\ Chain[NoBlock] = <<>>
         /\ \A k \in Blocks : Chain[k] = <<k>> \o Chain[next[k]]
         /\ \A k \in BlocksOrNone : Chain[k] \in Seq(Blocks)
<1> DEFINE comb == [k \in Blocks |-> [s \in Seq(Blocks) |-> <<k>> \o s]]
           val == [k \in {NoBlock} |-> <<>>]
           step(f) == [k \in BlocksOrNone |-> IF k = NoBlock THEN <<>> ELSE <<k>> \o f[next[k]]]
           chain == CHOOSE f : f = step(f)
<1>1. comb \in [Blocks -> [Seq(Blocks) -> Seq(Blocks)]]
  OBVIOUS
<1>2. /\ NoBlock \notin Blocks /\ NoBlock \in BlocksOrNone
      /\ \A k \in Blocks : k # NoBlock /\ k \in BlocksOrNone /\ next[k] \in BlocksOrNone
      /\ \A k \in BlocksOrNone : k # NoBlock => k \in Blocks
  BY CollectorAssumption DEF BlocksOrNone, Links
<1>3. PICK f \in [BlocksOrNone -> Seq(Blocks)] : Computes(f, {NoBlock}, val, comb)
  <2>1. Grounded(Seq(Blocks), {NoBlock}, val)
    BY DEF Grounded
  <2> HIDE DEF comb, val
  <2> QED
    BY <1>1, <2>1, NextRecursion
<1>4. \A k \in BlocksOrNone : f[k] = IF k = NoBlock THEN <<>> ELSE <<k>> \o f[next[k]]
  <2>1. ASSUME NEW k \in Blocks PROVE comb[k][f[next[k]]] = <<k>> \o f[next[k]]
    <3>1. f[next[k]] \in Seq(Blocks)
      BY <1>2
    <3> QED
      BY <3>1
  <2>2. val[NoBlock] = <<>>
    OBVIOUS
  <2> HIDE DEF comb, val
  <2> QED
    BY <1>2, <1>3, <2>1, <2>2 DEF Computes
<1>5. f = step(f)
  BY <1>4
<1>6. chain = step(chain)
  <2> HIDE DEF step
  <2>1. \E g : g = step(g)
    BY <1>5
  <2> QED
    BY <2>1
<1>7. Chain = chain
  BY DEF Chain, BlocksOrNone
<1> HIDE DEF chain
<1>8. \A k \in BlocksOrNone : chain[k] = IF k = NoBlock THEN <<>> ELSE <<k>> \o chain[next[k]]
  BY <1>6
<1>9. \A k \in BlocksOrNone : chain[k] \in Seq(Blocks)
  <2> DEFINE T == {k \in BlocksOrNone : chain[k] \in Seq(Blocks)}
  <2>1. NoBlock \in T
    <3>1. chain[NoBlock] = <<>>
      BY <1>2, <1>8
    <3>2. <<>> \in Seq(Blocks)
      OBVIOUS
    <3>3. chain[NoBlock] \in Seq(Blocks)
      BY <3>1, <3>2
    <3> QED
      BY <1>2, <3>3
  <2>2. ASSUME NEW k \in Blocks, next[k] \in T PROVE k \in T
    <3>1. chain[k] = <<k>> \o chain[next[k]] /\ chain[next[k]] \in Seq(Blocks)
      BY <1>2, <1>8, <2>2
    <3>2. <<k>> \in Seq(Blocks)
      OBVIOUS
    <3>3. chain[k] \in Seq(Blocks)
      BY <3>1, <3>2, ConcatProperties
    <3> QED
      BY <1>2, <3>3
  <2>3. BlocksOrNone \subseteq T
    <3> HIDE DEF T
    <3> QED
      BY <2>1, <2>2, NextInduction
  <2> QED
    BY <2>3
<1> QED
  BY <1>2, <1>7, <1>8, <1>9

\* The blocks from the head of a buffer on are those of its list.
LEMMA ChainIs ==
  ASSUME NEW q \in [Buffers -> Seq(Blocks)], Owned(q, head, next, free, heap), next \in Links,
         NEW b \in Buffers
  PROVE  Chain[head[b]] = q[b]
<1> DEFINE s == q[b]
           T == {k \in BlocksOrNone :
                   \A j \in 1 .. Len(s) : k = s[j] => Chain[k] = SubSeq(s, j, Len(s))}
<1>1. /\ s \in Seq(Blocks) /\ Len(s) \in Nat
      /\ head[b] = IF Len(s) = 0 THEN NoBlock ELSE s[1]
      /\ \A j \in 1 .. Len(s) : s[j] \in Blocks /\ next[s[j]] = IF j = Len(s) THEN NoBlock ELSE s[j + 1]
  BY DEF Owned, Along
<1>2. /\ Chain[NoBlock] = <<>>
      /\ \A k \in Blocks : Chain[k] = <<k>> \o Chain[next[k]]
  BY ChainSteps
<1>3. NoBlock \in T
  BY <1>1, CollectorAssumption DEF BlocksOrNone
<1> HIDE DEF s
<1>4. ASSUME NEW k \in Blocks, next[k] \in T PROVE k \in T
  <2>1. SUFFICES ASSUME NEW j \in 1 .. Len(s), k = s[j] PROVE Chain[k] = SubSeq(s, j, Len(s))
    BY DEF BlocksOrNone
  <2>2. Chain[next[k]] = SubSeq(s, j + 1, Len(s))
    <3>1. CASE j = Len(s)
      <4>1. next[k] = NoBlock
        BY <1>1, <2>1, <3>1
      <4>2. SubSeq(s, j + 1, Len(s)) = <<>>
        BY <1>1, <3>1, SubSeqEmpty
      <4> QED
        BY <1>2, <4>1, <4>2
    <3>2. CASE j # Len(s)
      <4>1. next[k] = s[j + 1] /\ j + 1 \in 1 .. Len(s)
        BY <1>1, <2>1, <3>2
      <4> QED
        BY <1>4, <4>1
    <3> QED
      BY <3>1, <3>2
  <2>3. SubSeq(s, j, Len(s)) = <<s[j]>> \o SubSeq(s, j + 1, Len(s))
    <3>1. Len(s) \in j .. Len(s)
      BY <1>1
    <3> QED
      BY <1>1, <3>1, SubSeqRecursiveFirst
  <2> QED
    BY <1>2, <2>1, <2>2, <2>3
<1>5. BlocksOrNone \subseteq T
  <2> HIDE DEF T
  <2> QED
    BY <1>3, <1>4, NextInduction
<1>6. CASE Len(s) = 0
  <2>1. s = <<>> /\ head[b] = NoBlock
    BY <1>1, <1>6
  <2> QED
    BY <1>2, <2>1 DEF s
<1>7. CASE Len(s) # 0
  <2>1. head[b] = s[1] /\ 1 \in 1 .. Len(s) /\ s[1] \in BlocksOrNone
    BY <1>1, <1>7 DEF BlocksOrNone
  <2>2. Chain[head[b]] = SubSeq(s, 1, Len(s))
    BY <1>5, <2>1
  <2>3. SubSeq(s, 1, Len(s)) = s
    BY <1>1, SubSeqFull
  <2> QED
    BY <2>2, <2>3 DEF s
<1> QED
  BY <1>6, <1>7

LEMMA ListAsFunction ==
  ASSUME NEW s \in Seq(Blocks)
  PROVE  Range(s) = Members(s) /\ (Once(s) => IsInjective(s))
<1>1. DOMAIN s = 1 .. Len(s)
  OBVIOUS
<1>2. Range(s) = Members(s)
  BY <1>1 DEF Range, Members
<1> QED
  BY <1>1, <1>2 DEF Once, IsInjective

\* However buffers, each served by its own worker, take blocks from the one
\* collector and give them back, no block is in two chains, or in a chain and
\* with the collector, and none is lost.
THEOREM BlocksHaveOneOwner == Spec => []OneOwner
<1>1. BuffersInv => OneOwner
  <2>1. SUFFICES ASSUME BuffersInv PROVE OneOwner
    OBVIOUS
  <2>2. PICK q \in [Buffers -> Seq(Blocks)] : Owned(q, head, next, free, heap)
    BY <2>1 DEF BuffersInv, Held
  <2>3. next \in Links
    BY <2>1 DEF BuffersInv, TypeOK, Links
  <2>4. \A b \in Buffers : Chain[head[b]] = q[b]
    BY <2>2, <2>3, ChainIs
  <2>5. /\ \A b \in Buffers : Once(q[b]) /\ q[b] \in Seq(Blocks)
        /\ \A b, d \in Buffers : b # d => Members(q[b]) \cap Members(q[d]) = {}
        /\ free \in Seq(Blocks) /\ Once(free) /\ Linked(q) \cap Members(free) = {}
        /\ heap = Linked(q) \cup Members(free)
    BY <2>2 DEF Owned, Along
  <2>6. /\ \A b \in Buffers : Range(q[b]) = Members(q[b]) /\ IsInjective(q[b])
        /\ Range(free) = Members(free) /\ IsInjective(free)
    BY <2>5, ListAsFunction
  <2>7. Linked(q) = UNION {Range(Chain[head[b]]) : b \in Buffers}
    <3>1. ASSUME NEW k \in Linked(q) PROVE k \in UNION {Range(Chain[head[b]]) : b \in Buffers}
      <4>1. PICK b \in Buffers : k \in Members(q[b])
        BY DEF Linked
      <4>2. k \in Range(Chain[head[b]])
        BY <2>4, <2>6, <4>1
      <4> QED
        BY <4>2
    <3>2. ASSUME NEW b \in Buffers, NEW k \in Range(Chain[head[b]]) PROVE k \in Linked(q)
      <4>1. k \in Members(q[b])
        BY <2>4, <2>6
      <4>2. k \in Blocks
        BY <2>5, <4>1 DEF Members
      <4> QED
        BY <4>1, <4>2 DEF Linked
    <3> QED
      BY <3>1, <3>2
  <2>8. ASSUME NEW b \in Buffers PROVE Members(q[b]) \cap Members(free) = {}
    <3>1. Members(q[b]) \subseteq Linked(q)
      <4>1. Members(q[b]) \subseteq Blocks
        BY <2>5 DEF Members
      <4> QED
        BY <4>1 DEF Linked
    <3> QED
      BY <2>5, <3>1
  <2>9. heap = Range(free) \cup UNION {Range(Chain[head[b]]) : b \in Buffers}
    BY <2>5, <2>6, <2>7
  <2>10. ASSUME NEW b \in Buffers
         PROVE /\ IsInjective(Chain[head[b]])
               /\ Range(Chain[head[b]]) \cap Range(free) = {}
               /\ \A other \in Buffers \ {b} :
                    Range(Chain[head[b]]) \cap Range(Chain[head[other]]) = {}
    BY <2>4, <2>5, <2>6, <2>8
  <2> QED
    BY <2>6, <2>9, <2>10 DEF OneOwner
<1> QED
  BY <1>1, BuffersInvariant, PTL

-----------------------------------------------------------------------------
(* What a cursor has to read. *)

\* The size of the data from a block on is computed block by block.
LEMMA RestSteps ==
  ASSUME NEW q \in [Buffers -> Seq(Blocks)], Owned(q, head, next, free, heap), next \in Links,
         NEW c \in Cursors
  PROVE  /\ Rest(c, NoBlock) = 0
         /\ \A k \in Blocks : Rest(c, k) = IF k = c.bound.block THEN c.bound.off
                                           ELSE Cap + Rest(c, next[k])
         /\ \A k \in BlocksOrNone : Rest(c, k) \in Nat
<1> DEFINE comb == [k \in Blocks |-> [n \in Nat |-> Cap + n]]
           base == {NoBlock, c.bound.block}
           val == [k \in base |-> IF k = NoBlock THEN 0 ELSE c.bound.off]
           step(f) == [k \in BlocksOrNone |-> IF k = NoBlock THEN 0
                                              ELSE IF k = c.bound.block THEN c.bound.off
                                              ELSE Cap + f[next[k]]]
           from == CHOOSE f : f = step(f)
<1>1. Cap \in Nat /\ c.bound.off \in Nat
  BY CursorTypes
<1>2. /\ NoBlock \notin Blocks /\ NoBlock \in BlocksOrNone
      /\ \A k \in Blocks : k # NoBlock /\ k \in BlocksOrNone /\ next[k] \in BlocksOrNone
      /\ \A k \in BlocksOrNone : k # NoBlock => k \in Blocks
  BY CollectorAssumption DEF BlocksOrNone, Links
<1>3. PICK f \in [BlocksOrNone -> Nat] : Computes(f, base, val, comb)
  <2>1. Grounded(Nat, base, val)
    BY <1>1 DEF Grounded
  <2>2. comb \in [Blocks -> [Nat -> Nat]]
    BY <1>1
  <2> HIDE DEF comb, val, base
  <2> QED
    BY <2>1, <2>2, NextRecursion
<1>4. \A k \in BlocksOrNone :
        f[k] = IF k = NoBlock THEN 0 ELSE IF k = c.bound.block THEN c.bound.off
               ELSE Cap + f[next[k]]
  <2>1. ASSUME NEW k \in Blocks PROVE comb[k][f[next[k]]] = Cap + f[next[k]]
    <3>1. f[next[k]] \in Nat
      BY <1>2
    <3> QED
      BY <3>1
  <2>2. \A k \in BlocksOrNone : k \in base <=> k = NoBlock \/ k = c.bound.block
    OBVIOUS
  <2>3. \A k \in base : val[k] = IF k = NoBlock THEN 0 ELSE c.bound.off
    OBVIOUS
  <2> HIDE DEF comb, val, base
  <2> QED
    BY <1>2, <1>3, <2>1, <2>2, <2>3 DEF Computes
<1>5. f = step(f)
  BY <1>4
<1>6. from = step(from)
  <2> HIDE DEF step
  <2>1. \E g : g = step(g)
    BY <1>5
  <2> QED
    BY <2>1
<1>7. \A k : Rest(c, k) = from[k]
  BY DEF Rest, BlocksOrNone
<1> HIDE DEF from
<1>8. \A k \in BlocksOrNone :
        from[k] = IF k = NoBlock THEN 0 ELSE IF k = c.bound.block THEN c.bound.off
                  ELSE Cap + from[next[k]]
  BY <1>6
<1>9. \A k \in BlocksOrNone : from[k] \in Nat
  <2> DEFINE T == {k \in BlocksOrNone : from[k] \in Nat}
  <2>1. NoBlock \in T
    BY <1>2, <1>8
  <2>2. ASSUME NEW k \in Blocks, next[k] \in T PROVE k \in T
    BY <1>1, <1>2, <1>8, <2>2
  <2>3. BlocksOrNone \subseteq T
    <3> HIDE DEF T
    <3> QED
      BY <2>1, <2>2, NextInduction
  <2> QED
    BY <2>3
<1> QED
  BY <1>2, <1>7, <1>8, <1>9

\* So are the bytes.
LEMMA ContentSteps ==
  ASSUME NEW q \in [Buffers -> Seq(Blocks)], Owned(q, head, next, free, heap), next \in Links,
         mem \in [Blocks -> [1 .. Cap -> 0 .. Ring]], NEW c \in Cursors
  PROVE  /\ \A k \in Blocks : Content(c, k) = IF k = c.bound.block
                                                THEN SubSeq(mem[k], 1, c.bound.off)
                                                ELSE mem[k] \o Content(c, next[k])
         /\ \A k \in BlocksOrNone : Content(c, k) \in Seq(0 .. Ring)
<1> DEFINE V == Seq(0 .. Ring)
           comb == [k \in Blocks |-> [s \in V |-> mem[k] \o s]]
           base == {NoBlock, c.bound.block}
           val == [k \in base |-> IF k = NoBlock THEN <<Junk>> ELSE SubSeq(mem[k], 1, c.bound.off)]
           step(f) == [k \in BlocksOrNone |-> IF k = NoBlock THEN <<Junk>>
                                              ELSE IF k = c.bound.block
                                                THEN SubSeq(mem[k], 1, c.bound.off)
                                              ELSE mem[k] \o f[next[k]]]
           from == CHOOSE f : f = step(f)
<1>1. Cap \in Nat /\ c.bound.off \in 0 .. Cap /\ Ring \in Nat
  BY CursorTypes, BuffersAssumption
<1>2. /\ NoBlock \notin Blocks /\ NoBlock \in BlocksOrNone
      /\ \A k \in Blocks : k # NoBlock /\ k \in BlocksOrNone /\ next[k] \in BlocksOrNone
      /\ \A k \in BlocksOrNone : k # NoBlock => k \in Blocks
  BY CollectorAssumption DEF BlocksOrNone, Links
<1>3. /\ <<Junk>> \in V
      /\ \A k \in Blocks : mem[k] \in V /\ SubSeq(mem[k], 1, c.bound.off) \in V
  <2>1. Junk \in 0 .. Ring
    BY <1>1 DEF Junk
  <2>2. \A k \in Blocks : mem[k] \in V
    BY <1>1
  <2>3. ASSUME NEW k \in Blocks PROVE SubSeq(mem[k], 1, c.bound.off) \in V
    <3>1. \A i \in 1 .. c.bound.off : i \in 1 .. Cap
      BY <1>1
    <3>2. \A i \in 1 .. c.bound.off : mem[k][i] \in 0 .. Ring
      BY <3>1
    <3> QED
      BY <1>1, <3>2, SubSeqProperties
  <2> QED
    BY <2>1, <2>2, <2>3
<1>4. \A k \in Blocks : \A s \in V : mem[k] \o s \in V
  BY <1>3, ConcatProperties
<1> HIDE DEF V
<1>5. PICK f \in [BlocksOrNone -> V] : Computes(f, base, val, comb)
  <2>1. Grounded(V, base, val)
    <3>1. \A k \in BlocksOrNone : k \in base => val[k] \in V
      BY <1>2, <1>3
    <3> QED
      BY <3>1 DEF Grounded
  <2>2. comb \in [Blocks -> [V -> V]]
    BY <1>4
  <2> HIDE DEF comb, val, base
  <2> QED
    BY <2>1, <2>2, NextRecursion
<1>6. \A k \in BlocksOrNone :
        f[k] = IF k = NoBlock THEN <<Junk>> ELSE IF k = c.bound.block
                 THEN SubSeq(mem[k], 1, c.bound.off) ELSE mem[k] \o f[next[k]]
  <2>1. ASSUME NEW k \in Blocks PROVE comb[k][f[next[k]]] = mem[k] \o f[next[k]]
    <3>1. f[next[k]] \in V
      BY <1>2
    <3> QED
      BY <3>1
  <2>2. \A k \in BlocksOrNone : k \in base <=> k = NoBlock \/ k = c.bound.block
    OBVIOUS
  <2>3. \A k \in base : val[k] = IF k = NoBlock THEN <<Junk>> ELSE SubSeq(mem[k], 1, c.bound.off)
    OBVIOUS
  <2> HIDE DEF comb, val, base
  <2> QED
    BY <1>2, <1>5, <2>1, <2>2, <2>3 DEF Computes
<1>7. f = step(f)
  BY <1>6
<1>8. from = step(from)
  <2> HIDE DEF step
  <2>1. \E g : g = step(g)
    BY <1>7
  <2> QED
    BY <2>1
<1>9. \A k : Content(c, k) = from[k]
  BY DEF Content, BlocksOrNone
<1> HIDE DEF from
<1>10. \A k \in BlocksOrNone :
         from[k] = IF k = NoBlock THEN <<Junk>> ELSE IF k = c.bound.block
                     THEN SubSeq(mem[k], 1, c.bound.off) ELSE mem[k] \o from[next[k]]
  BY <1>8
<1>11. \A k \in BlocksOrNone : from[k] \in V
  <2> DEFINE T == {k \in BlocksOrNone : from[k] \in V}
  <2>1. NoBlock \in T
    BY <1>2, <1>3, <1>10
  <2>2. ASSUME NEW k \in Blocks, next[k] \in T PROVE k \in T
    BY <1>2, <1>3, <1>4, <1>10, <2>2
  <2>3. BlocksOrNone \subseteq T
    <3> HIDE DEF T
    <3> QED
      BY <2>1, <2>2, NextInduction
  <2> QED
    BY <2>3
<1> QED
  BY <1>2, <1>9, <1>10, <1>11 DEF V

\* From the last position of a list back to the first.
LEMMA Backward ==
  ASSUME NEW n \in Nat, NEW T, n \in T, \A j \in 1 .. n - 1 : j + 1 \in T => j \in T
  PROVE  \A j \in 1 .. n : j \in T
<1> DEFINE S == {m \in Nat : m < n => n - m \in T}
<1>1. 0 \in S
  OBVIOUS
<1>2. ASSUME NEW m \in Nat, m \in S PROVE m + 1 \in S
  <2>1. SUFFICES ASSUME m + 1 < n PROVE n - (m + 1) \in T
    OBVIOUS
  <2> DEFINE j == n - (m + 1)
  <2>2. j \in 1 .. n - 1 /\ j + 1 = n - m /\ n - m \in T
    BY <1>2, <2>1
  <2> QED
    BY <2>2
<1>3. Nat \subseteq S
  <2> HIDE DEF S
  <2> QED
    BY <1>1, <1>2, SetInduction
<1>4. ASSUME NEW j \in 1 .. n PROVE j \in T
  <2>1. n - j \in S /\ n - j < n /\ n - (n - j) = j
    BY <1>3
  <2> QED
    BY <2>1
<1> QED
  BY <1>4

\* The size of n whole blocks.
Span(n) == Cap * n

LEMMA SpanSteps ==
  /\ Span(0) = 0
  /\ \A n \in Nat : Span(n) \in Nat /\ Span(n + 1) = Cap + Span(n)
  /\ \A m, n \in Nat : m <= n => Span(m) <= Span(n)
<1>1. Cap \in Nat
  BY BuffersAssumption
<1>2. \A n \in Nat : Cap * n \in Nat /\ Cap * (n + 1) = Cap + Cap * n
  BY <1>1
<1>3. ASSUME NEW m \in Nat, NEW n \in Nat, m <= n PROVE Cap * m <= Cap * n
  <2>1. PICK d \in Nat : n = m + d
    <3>1. n - m \in Nat /\ n = m + (n - m)
      BY <1>3
    <3> QED
      BY <3>1
  <2>2. Cap * n = Cap * m + Cap * d /\ Cap * d >= 0
    BY <1>1, <2>1
  <2> QED
    BY <1>1, <2>2
<1> QED
  BY <1>1, <1>2, <1>3 DEF Span

\* g[j] is what the blocks of s from the j-th on hold, up to the o-th byte of the last.
Flat(s, o, m, g) ==
  /\ \A j \in 1 .. Len(s) : g[j] \in Seq(0 .. Ring)
  /\ g[Len(s)] = SubSeq(m[s[Len(s)]], 1, o)
  /\ \A j \in 1 .. Len(s) - 1 : g[j] = m[s[j]] \o g[j + 1]

Contents(c, s) == [j \in 1 .. Len(s) |-> Content(c, s[j])]

LEMMA ContentFlat ==
  ASSUME NEW q \in [Buffers -> Seq(Blocks)], Owned(q, head, next, free, heap), next \in Links,
         mem \in [Blocks -> [1 .. Cap -> 0 .. Ring]], NEW c \in Cursors,
         NEW b \in Buffers, Len(q[b]) >= 1, c.bound.block = q[b][Len(q[b])]
  PROVE  /\ Flat(q[b], c.bound.off, mem, Contents(c, q[b]))
         /\ \A j \in 1 .. Len(q[b]) :
              Rest(c, q[b][j]) = Span(Len(q[b]) - j) + c.bound.off
<1> DEFINE s == q[b]
           g == Contents(c, s)
<1>1. /\ s \in Seq(Blocks) /\ Len(s) \in Nat /\ Len(s) \in 1 .. Len(s) /\ Once(s)
      /\ \A j \in 1 .. Len(s) : s[j] \in Blocks /\ next[s[j]] = IF j = Len(s) THEN NoBlock ELSE s[j + 1]
      /\ c.bound.block = s[Len(s)]
  BY DEF Owned, Along
<1>2. /\ \A k \in Blocks : Content(c, k) = IF k = c.bound.block
                                             THEN SubSeq(mem[k], 1, c.bound.off)
                                             ELSE mem[k] \o Content(c, next[k])
      /\ \A k \in BlocksOrNone : Content(c, k) \in Seq(0 .. Ring)
  BY ContentSteps
<1>3. \A k \in Blocks : Rest(c, k) = IF k = c.bound.block THEN c.bound.off
                                     ELSE Cap + Rest(c, next[k])
  BY RestSteps
<1> HIDE DEF s
<1>4. \A j \in 1 .. Len(s) : s[j] = c.bound.block <=> j = Len(s)
  BY <1>1 DEF Once
<1>5. ASSUME NEW j \in 1 .. Len(s) - 1
      PROVE j \in 1 .. Len(s) /\ j # Len(s) /\ j + 1 \in 1 .. Len(s) /\ next[s[j]] = s[j + 1]
  BY <1>1
<1>6. Flat(s, c.bound.off, mem, g)
  <2>1. \A j \in 1 .. Len(s) : g[j] = Content(c, s[j])
    BY DEF Contents
  <2> HIDE DEF g
  <2>2. \A j \in 1 .. Len(s) : g[j] \in Seq(0 .. Ring)
    <3>1. ASSUME NEW j \in 1 .. Len(s) PROVE g[j] \in Seq(0 .. Ring)
      <4>1. s[j] \in BlocksOrNone
        BY <1>1 DEF BlocksOrNone
      <4> QED
        BY <1>2, <2>1, <4>1
    <3> QED
      BY <3>1
  <2>3. g[Len(s)] = SubSeq(mem[s[Len(s)]], 1, c.bound.off)
    BY <1>1, <1>2, <2>1
  <2>4. \A j \in 1 .. Len(s) - 1 : g[j] = mem[s[j]] \o g[j + 1]
    <3>1. ASSUME NEW j \in 1 .. Len(s) - 1 PROVE g[j] = mem[s[j]] \o g[j + 1]
      <4>1. /\ j \in 1 .. Len(s) /\ j + 1 \in 1 .. Len(s) /\ s[j] \in Blocks
            /\ s[j] # c.bound.block /\ next[s[j]] = s[j + 1]
        BY <1>1, <1>4, <1>5
      <4>2. Content(c, s[j]) = mem[s[j]] \o Content(c, s[j + 1])
        BY <1>2, <4>1
      <4> QED
        BY <2>1, <4>1, <4>2
    <3> QED
      BY <3>1
  <2> QED
    BY <2>2, <2>3, <2>4 DEF Flat
<1>7. ASSUME NEW j \in 1 .. Len(s) PROVE Rest(c, s[j]) = Span(Len(s) - j) + c.bound.off
  <2> DEFINE T == {i \in 1 .. Len(s) : Rest(c, s[i]) = Span(Len(s) - i) + c.bound.off}
  <2>1. Cap \in Nat /\ c.bound.off \in Nat
    BY CursorTypes
  <2>2. Len(s) \in T
    <3>1. Rest(c, s[Len(s)]) = c.bound.off /\ Len(s) - Len(s) = 0
      BY <1>1, <1>3
    <3>2. Span(Len(s) - Len(s)) = 0
      BY <3>1, SpanSteps
    <3>3. Rest(c, s[Len(s)]) = Span(Len(s) - Len(s)) + c.bound.off
      BY <2>1, <3>1, <3>2
    <3> QED
      BY <1>1, <3>3
  <2>3. ASSUME NEW i \in 1 .. Len(s) - 1, i + 1 \in T PROVE i \in T
    <3>1. Rest(c, s[i]) = Cap + Rest(c, s[i + 1])
      BY <1>1, <1>3, <1>4, <1>5
    <3>2. Rest(c, s[i + 1]) = Span(Len(s) - (i + 1)) + c.bound.off
      BY <2>3
    <3>3. Span(Len(s) - i) = Cap + Span(Len(s) - (i + 1)) /\ Span(Len(s) - (i + 1)) \in Nat
      <4>1. Len(s) - (i + 1) \in Nat /\ Len(s) - i = (Len(s) - (i + 1)) + 1
        BY <1>1
      <4> QED
        BY <4>1, SpanSteps
    <3>4. Rest(c, s[i]) = Span(Len(s) - i) + c.bound.off
      BY <2>1, <3>1, <3>2, <3>3
    <3> QED
      BY <1>5, <3>4
  <2> HIDE DEF T
  <2>4. j \in T
    BY <1>1, <2>2, <2>3, Backward
  <2> QED
    BY <2>4 DEF T
<1> QED
  BY <1>6, <1>7 DEF s

LEMMA AsSequence ==
  ASSUME NEW n \in Nat, NEW S, NEW f \in [1 .. n -> S]
  PROVE  f \in Seq(S) /\ Len(f) = n
OBVIOUS

\* As many bytes as blocks and the bound say.
LEMMA FlatLen ==
  ASSUME NEW s \in Seq(Blocks), Len(s) >= 1, NEW o \in 0 .. Cap,
         NEW m \in [Blocks -> [1 .. Cap -> 0 .. Ring]], NEW g, Flat(s, o, m, g)
  PROVE  \A j \in 1 .. Len(s) : Len(g[j]) = Span(Len(s) - j) + o
<1>1. Cap \in Nat /\ o \in Nat /\ Len(s) \in Nat
  BY BuffersAssumption
<1>2. ASSUME NEW k \in Blocks PROVE m[k] \in Seq(0 .. Ring) /\ Len(m[k]) = Cap
  <2>1. m[k] \in [1 .. Cap -> 0 .. Ring]
    OBVIOUS
  <2> QED
    BY <1>1, <2>1, AsSequence
<1> DEFINE T == {i \in 1 .. Len(s) : Len(g[i]) = Span(Len(s) - i) + o}
<1>3. Len(s) \in T
  <2>1. s[Len(s)] \in Blocks /\ Len(s) \in 1 .. Len(s) /\ Len(s) - Len(s) = 0
    BY <1>1
  <2> DEFINE w == m[s[Len(s)]]
  <2>2. \A i \in 1 .. o : i \in 1 .. Cap
    BY <1>1
  <2>3. \A i \in 1 .. o : w[i] \in 0 .. Ring
    BY <2>1, <2>2
  <2>4. Len(SubSeq(w, 1, o)) = IF 1 <= o THEN o - 1 + 1 ELSE 0
    <3> HIDE DEF w
    <3> QED
      BY <1>1, <2>3, SubSeqProperties
  <2>5. Len(g[Len(s)]) = o
    BY <1>1, <2>4 DEF Flat
  <2>6. Span(Len(s) - Len(s)) = 0
    BY <2>1, SpanSteps
  <2>7. Len(g[Len(s)]) = Span(Len(s) - Len(s)) + o
    BY <1>1, <2>5, <2>6
  <2> QED
    BY <2>1, <2>7
<1>4. ASSUME NEW i \in 1 .. Len(s) - 1, i + 1 \in T PROVE i \in T
  <2>1. i \in 1 .. Len(s) /\ i + 1 \in 1 .. Len(s) /\ s[i] \in Blocks
    BY <1>1
  <2>2. g[i] = m[s[i]] \o g[i + 1] /\ g[i + 1] \in Seq(0 .. Ring)
    BY <2>1 DEF Flat
  <2>3. Len(g[i]) = Cap + Len(g[i + 1])
    <3> DEFINE S == 0 .. Ring
    <3>1. m[s[i]] \in Seq(S) /\ g[i + 1] \in Seq(S) /\ Len(m[s[i]]) = Cap
      BY <1>2, <2>1, <2>2
    <3> DEFINE x == m[s[i]]
               y == g[i + 1]
    <3>2. x \in Seq(S) /\ y \in Seq(S) /\ Len(x) = Cap /\ g[i] = x \o y
      BY <2>2, <3>1
    <3>3. Len(g[i]) = Cap + Len(y)
      <4> HIDE DEF S, x, y
      <4> QED
        BY <3>2, ConcatProperties
    <3> QED
      BY <3>3
  <2>4. Span(Len(s) - i) = Cap + Span(Len(s) - (i + 1)) /\ Span(Len(s) - (i + 1)) \in Nat
    <3>1. Len(s) - (i + 1) \in Nat /\ Len(s) - i = (Len(s) - (i + 1)) + 1
      BY <1>1
    <3> QED
      BY <3>1, SpanSteps
  <2>5. Len(g[i + 1]) = Span(Len(s) - (i + 1)) + o
    BY <1>4
  <2> QED
    BY <1>1, <2>1, <2>3, <2>4, <2>5
<1> HIDE DEF T
<1>5. \A j \in 1 .. Len(s) : j \in T
  BY <1>1, <1>3, <1>4, Backward
<1> QED
  BY <1>5 DEF T

\* The bytes a cursor in a list has to read, and how many.
LEMMA UnreadOf ==
  ASSUME NEW q \in [Buffers -> Seq(Blocks)], Owned(q, head, next, free, heap), next \in Links,
         mem \in [Blocks -> [1 .. Cap -> 0 .. Ring]], NEW c \in Cursors, c.pos # Null,
         NEW b \in Buffers, NEW i \in 1 .. Len(q[b]), Stands(q[b], c, i)
  PROVE  /\ Unread(c) = SubSeq(Content(c, q[b][i]), c.pos.off + 1, Len(Content(c, q[b][i])))
         /\ Content(c, q[b][i]) \in Seq(0 .. Ring)
         /\ Len(Content(c, q[b][i])) = Span(Len(q[b]) - i) + c.bound.off
         /\ Span(Len(q[b]) - i) \in Nat /\ c.pos.off \in Nat /\ c.pos.off < Cap
         /\ c.bound.off \in 0 .. Cap
         /\ c.pos.off <= Span(Len(q[b]) - i) + c.bound.off
         /\ i # Len(q[b]) => Cap <= Span(Len(q[b]) - i)
         /\ i = Len(q[b]) => Span(Len(q[b]) - i) = 0
         /\ OneBlock(c) <=> i = Len(q[b])
         /\ Len(Unread(c)) = Span(Len(q[b]) - i) + c.bound.off - c.pos.off
         /\ Unread(c) \in Seq(0 .. Ring)
         /\ Size(c) = Len(Unread(c))
<1> DEFINE s == q[b]
           bytes == Content(c, s[i])
           span == Span(Len(s) - i)
           a == c.pos.off
           z == c.bound.off
<1>1. /\ s \in Seq(Blocks) /\ Len(s) \in Nat /\ Len(s) >= 1 /\ Once(s) /\ Len(s) \in 1 .. Len(s)
      /\ \A j \in 1 .. Len(s) : next[s[j]] = IF j = Len(s) THEN NoBlock ELSE s[j + 1]
      /\ c.pos.block = s[i] /\ c.bound.block = s[Len(s)]
      /\ a < Cap /\ (i = Len(s) => a <= z)
  BY DEF Owned, Along, Stands
<1>2. Cap \in Nat /\ a \in Nat /\ z \in 0 .. Cap
  BY CursorTypes
<1>3. /\ Flat(s, z, mem, Contents(c, s))
      /\ \A j \in 1 .. Len(s) : Rest(c, s[j]) = Span(Len(s) - j) + z
  BY <1>1, ContentFlat
<1>4. bytes = Contents(c, s)[i]
  BY DEF Contents
<1> HIDE DEF s, bytes, span, a, z
<1>5. bytes \in Seq(0 .. Ring) /\ Len(bytes) = span + z
  <2>1. \A j \in 1 .. Len(s) : Len(Contents(c, s)[j]) = Span(Len(s) - j) + z
    <3> DEFINE g == Contents(c, s)
    <3>1. Flat(s, z, mem, g)
      BY <1>3
    <3> HIDE DEF g
    <3>2. \A j \in 1 .. Len(s) : Len(g[j]) = Span(Len(s) - j) + z
      <4>1. s \in Seq(Blocks) /\ Len(s) >= 1 /\ z \in 0 .. Cap
        BY <1>1, <1>2
      <4>2. mem \in [Blocks -> [1 .. Cap -> 0 .. Ring]]
        OBVIOUS
      <4> QED
        BY <3>1, <4>1, <4>2, FlatLen
    <3> QED
      BY <3>2 DEF g
  <2>2. i \in 1 .. Len(s)
    BY DEF s
  <2>3. bytes \in Seq(0 .. Ring)
    BY <1>3, <1>4, <2>2 DEF Flat
  <2> QED
    BY <1>4, <2>1, <2>2, <2>3 DEF span
<1>6. i \in 1 .. Len(s)
  BY DEF s
<1>7. span \in Nat /\ (i = Len(s) => span = 0) /\ (i # Len(s) => Cap <= span)
  <2>1. Len(s) - i \in Nat
    BY <1>1, <1>6
  <2>2. i = Len(s) => Len(s) - i = 0
    BY <1>1
  <2>3. i # Len(s) => Len(s) - (i + 1) \in Nat /\ Len(s) - i = (Len(s) - (i + 1)) + 1
    BY <1>1, <1>6
  <2>4. i # Len(s) => Span(Len(s) - i) = Cap + Span(Len(s) - (i + 1)) /\ Span(Len(s) - (i + 1)) \in Nat
    BY <2>3, SpanSteps
  <2>5. Span(Len(s) - i) \in Nat /\ (i = Len(s) => Span(Len(s) - i) = 0)
    BY <2>1, <2>2, SpanSteps
  <2> QED
    BY <1>2, <2>4, <2>5 DEF span
<1>8. a <= span + z
  BY <1>1, <1>2, <1>6, <1>7
<1>9. OneBlock(c) <=> i = Len(s)
  BY <1>1, <1>6 DEF OneBlock, Once
<1>10. Unread(c) = SubSeq(bytes, a + 1, Len(bytes))
  BY <1>1 DEF Unread, bytes, a
<1>11. Unread(c) \in Seq(0 .. Ring) /\ Len(Unread(c)) = span + z - a
  <2> DEFINE R == 0 .. Ring
  <2>1. bytes \in Seq(R) /\ Len(bytes) \in Nat /\ a + 1 \in Int
    BY <1>2, <1>5
  <2> HIDE DEF R
  <2>2. \A x \in a + 1 .. Len(bytes) : bytes[x] \in R
    BY <1>2, <2>1
  <2>3. /\ SubSeq(bytes, a + 1, Len(bytes)) \in Seq(R)
        /\ Len(SubSeq(bytes, a + 1, Len(bytes))) = IF a + 1 <= Len(bytes)
                                                    THEN Len(bytes) - (a + 1) + 1 ELSE 0
    BY <2>1, <2>2, SubSeqProperties
  <2>4. Unread(c) \in Seq(R)
    BY <1>10, <2>3
  <2>5. Len(Unread(c)) = span + z - a
    BY <1>2, <1>5, <1>7, <1>8, <1>10, <2>3
  <2> QED
    BY <2>4, <2>5 DEF R
<1>12. Size(c) = span + z - a
  <2>1. CASE i = Len(s)
    <3>1. Size(c) = z - a
      BY <1>9, <2>1 DEF Size, z, a
    <3> QED
      BY <1>2, <1>7, <2>1, <3>1
  <2>2. CASE i # Len(s)
    <3>1. Size(c) = Cap - a + Rest(c, next[c.pos.block])
      BY <1>9, <2>2 DEF Size, a
    <3>2. i + 1 \in 1 .. Len(s) /\ next[c.pos.block] = s[i + 1]
      BY <1>1, <1>6, <2>2
    <3>3. Rest(c, next[c.pos.block]) = Span(Len(s) - (i + 1)) + z
      BY <1>3, <3>2
    <3>4. Len(s) - (i + 1) \in Nat /\ Len(s) - i = (Len(s) - (i + 1)) + 1
      BY <1>1, <3>2
    <3>5. span = Cap + Span(Len(s) - (i + 1)) /\ Span(Len(s) - (i + 1)) \in Nat
      BY <3>4, SpanSteps DEF span
    <3> QED
      BY <1>2, <3>1, <3>3, <3>5
  <2> QED
    BY <2>1, <2>2
<1> QED
  BY <1>1, <1>2, <1>5, <1>7, <1>8, <1>9, <1>10, <1>11, <1>12, Zenon DEF s, bytes, span, a, z

\* The cursors that can be used are in their buffer's list or at their end.
LEMMA InUseWithin ==
  ASSUME TypeOK, NEW q \in [Buffers -> Seq(Blocks)], Held(q), NEW c \in InUse
  PROVE  c \in Cursors /\ (c.pos # Null => \E b \in Buffers : \E i \in 1 .. Len(q[b]) : Stands(q[b], c, i))
<1>1. PICK b \in Buffers : c = cur[b] \/ (c = copy[b] /\ c # NoCursor)
  <2>1. DOMAIN cur = Buffers /\ DOMAIN copy = Buffers
    BY DEF TypeOK
  <2> QED
    BY <2>1 DEF InUse, Range
<1>2. c \in Cursors
  BY <1>1 DEF TypeOK
<1>3. Within(q[b], c)
  BY <1>1 DEF Held, Reads
<1> QED
  BY <1>2, <1>3 DEF Within

\* Size() counts the bytes that are left to read over any number of blocks of
\* any size, and operator! tells exactly when there is none, for each buffer's
\* cursor and each copy a user has advanced.
THEOREM SizeCountsTheUnread == Spec => []SizeIsUnread
<1>1. BuffersInv => SizeIsUnread
  <2>1. SUFFICES ASSUME BuffersInv, NEW c \in InUse
                 PROVE  /\ Size(c) = Len(Unread(c))
                        /\ Ended(c) <=> Unread(c) = <<>>
    BY DEF SizeIsUnread
  <2>2. PICK q \in [Buffers -> Seq(Blocks)] : Held(q) /\ Owned(q, head, next, free, heap)
    BY <2>1 DEF BuffersInv, Held
  <2>3. TypeOK /\ next \in Links /\ mem \in [Blocks -> [1 .. Cap -> 0 .. Ring]]
    BY <2>1 DEF BuffersInv, TypeOK, Links
  <2>4. c \in Cursors
    BY <2>2, <2>3, InUseWithin
  <2>5. CASE c.pos = Null
    <3>1. Unread(c) = <<>> /\ Size(c) = 0 /\ Ended(c)
      BY <2>5 DEF Unread, Size, Ended
    <3>2. Len(<<>>) = 0
      OBVIOUS
    <3> QED
      BY <3>1, <3>2
  <2>6. CASE c.pos # Null
    <3>0. PICK b \in Buffers : \E i \in 1 .. Len(q[b]) : Stands(q[b], c, i)
      BY <2>2, <2>3, <2>6, InUseWithin
    <3>1. PICK i \in 1 .. Len(q[b]) : Stands(q[b], c, i)
      BY <3>0
    <3> DEFINE s == q[b]
               a == c.pos.off
               z == c.bound.off
               span == Span(Len(s) - i)
    <3>2. /\ span \in Nat /\ a \in Nat /\ a < Cap /\ z \in 0 .. Cap /\ a <= span + z
          /\ i # Len(s) => Cap <= span
          /\ i = Len(s) => span = 0
          /\ OneBlock(c) <=> i = Len(s)
          /\ Len(Unread(c)) = span + z - a
          /\ Unread(c) \in Seq(0 .. Ring)
          /\ Size(c) = Len(Unread(c))
      BY <2>2, <2>3, <2>4, <2>6, <3>1, UnreadOf
    <3>3. Cap \in Nat /\ Len(s) \in Nat
      BY BuffersAssumption
    <3> HIDE DEF a, z, span
    <3>4. Unread(c) = <<>> <=> Len(Unread(c)) = 0
      BY <3>2
    <3>5. Ended(c) <=> i = Len(s) /\ a >= z
      BY <2>6, <3>2 DEF Ended, a, z
    <3>6. Ended(c) <=> Unread(c) = <<>>
      BY <3>2, <3>3, <3>4, <3>5
    <3> QED
      BY <3>2, <3>6
  <2> QED
    BY <2>5, <2>6
<1> QED
  BY <1>1, BuffersInvariant, PTL

\* A cursor that is advanced by no more than it has to read stays in its
\* buffer's chain, unless that is all and the last block is full.
THEOREM AdvanceIsSafe == Spec => []AdvanceWithinData
<1>1. BuffersInv => AdvanceWithinData
  <2>1. SUFFICES ASSUME BuffersInv, NEW c \in InUse, NEW n \in Steps,
                        c.pos # Null, Moved(c, n) = Dead
                 PROVE  \/ n > Len(Unread(c))
                        \/ n = Len(Unread(c)) /\ c.bound.off = Cap
    BY DEF AdvanceWithinData
  <2>2. PICK q \in [Buffers -> Seq(Blocks)] : Held(q) /\ Owned(q, head, next, free, heap)
    BY <2>1 DEF BuffersInv, Held
  <2>3. TypeOK /\ next \in Links /\ mem \in [Blocks -> [1 .. Cap -> 0 .. Ring]]
    BY <2>1 DEF BuffersInv, TypeOK, Links
  <2>4. c \in Cursors /\ n \in Nat /\ Cap \in Nat \ {0}
    BY <2>2, <2>3, InUseWithin, BuffersAssumption
  <2>5. PICK b \in Buffers : \E i \in 1 .. Len(q[b]) : Stands(q[b], c, i)
    BY <2>1, <2>2, <2>3, InUseWithin
  <2>6. PICK i \in 1 .. Len(q[b]) : Stands(q[b], c, i)
    BY <2>5
  <2> DEFINE s == q[b]
             a == c.pos.off
             z == c.bound.off
             w == Whole(c, n)
             o == Part(c, n)
             span == Span(Len(s) - i)
  <2>7. /\ span \in Nat /\ a \in Nat /\ z \in 0 .. Cap /\ a <= span + z
        /\ Len(Unread(c)) = span + z - a
    <3>1. /\ Owned(q, head, next, free, heap) /\ c \in Cursors /\ c.pos # Null
          /\ next \in Links /\ mem \in [Blocks -> [1 .. Cap -> 0 .. Ring]]
      BY <2>1, <2>2, <2>3, <2>4
    <3> QED
      BY <2>6, <3>1, UnreadOf
  <2>8. w \in Nat /\ o \in Nat /\ a + n = Span(w) + o
    BY <2>4, MovedParts DEF Span
  <2>9. s \in Seq(Blocks) /\ Len(s) \in Nat /\ NoBlock \notin Blocks
        /\ Along(s, head[b], next)
    BY <2>2, CollectorAssumption DEF Owned
  <2>10. i + w > Len(s)
    <3>1. Moved(c, n) = IF i + w > Len(s) THEN Dead
                        ELSE IF i + w = Len(s) /\ o >= z /\ (a + n < Cap \/ o > 0) THEN Null
                        ELSE At(s[i + w], o)
      BY <2>4, <2>6, <2>9, MovedAlong
    <3> HIDE DEF s, w, o, a, z
    <3>2. ASSUME ~(i + w > Len(s)) PROVE FALSE
      <4>1. i + w \in 1 .. Len(s)
        <5>1. i \in 1 .. Len(s)
          BY DEF s
        <5> QED
          BY <2>8, <2>9, <3>2, <5>1
      <4>2. s[i + w] \in Blocks
        BY <2>9, <4>1
      <4>3. Dead # Null /\ Dead # At(s[i + w], o)
        BY <2>9, <4>2 DEF Dead, Null, At
      <4> QED
        BY <2>1, <3>1, <3>2, <4>3
    <3> QED
      BY <3>2
  <2> HIDE DEF s, a, z, w, o, span
  <2>11. Cap + span <= Span(w) /\ Span(w) \in Nat
    <3>1. i \in 1 .. Len(s)
      BY DEF s
    <3>2. Len(s) - i \in Nat /\ (Len(s) - i) + 1 \in Nat /\ (Len(s) - i) + 1 <= w
      BY <2>8, <2>9, <2>10, <3>1
    <3>3. Span((Len(s) - i) + 1) = Cap + Span(Len(s) - i)
      BY <3>2, SpanSteps
    <3>4. Span((Len(s) - i) + 1) <= Span(w) /\ Span(w) \in Nat
      BY <2>8, <3>2, SpanSteps
    <3> QED
      BY <3>3, <3>4 DEF span
  <2>12. n > Len(Unread(c)) \/ (n = Len(Unread(c)) /\ z = Cap)
    BY <2>4, <2>7, <2>8, <2>11
  <2> QED
    BY <2>12 DEF z
<1> QED
  BY <1>1, BuffersInvariant, PTL

-----------------------------------------------------------------------------
(* Each buffer is a queue of bytes. *)

\* All but the first a elements of x.
Drop(x, a) == SubSeq(x, a + 1, Len(x))

LEMMA Dropped ==
  ASSUME NEW R, NEW x \in Seq(R), NEW a \in Nat, a <= Len(x)
  PROVE  /\ Drop(x, a) \in Seq(R) /\ Len(Drop(x, a)) = Len(x) - a
         /\ \A i \in 1 .. Len(x) - a : Drop(x, a)[i] = x[a + i]
<1>1. Len(x) \in Nat /\ a + 1 \in Int /\ Len(x) \in Int
  OBVIOUS
<1>2. \A i \in a + 1 .. Len(x) : x[i] \in R
  BY <1>1
<1>3. /\ SubSeq(x, a + 1, Len(x)) \in Seq(R)
      /\ Len(SubSeq(x, a + 1, Len(x))) = IF a + 1 <= Len(x) THEN Len(x) - (a + 1) + 1 ELSE 0
      /\ \A i \in 1 .. Len(x) - (a + 1) + 1 : SubSeq(x, a + 1, Len(x))[i] = x[(a + 1) + i - 1]
  BY <1>1, <1>2, SubSeqProperties
<1>4. Len(x) - (a + 1) + 1 = Len(x) - a /\ \A i \in Int : (a + 1) + i - 1 = a + i
  BY <1>1
<1>5. Len(Drop(x, a)) = Len(x) - a
  BY <1>1, <1>3 DEF Drop
<1>6. \A i \in 1 .. Len(x) - a : Drop(x, a)[i] = x[a + i]
  BY <1>3, <1>4 DEF Drop
<1> QED
  BY <1>3, <1>5, <1>6 DEF Drop

\* What is added behind is not touched when the front is dropped.
LEMMA DropOfConcat ==
  ASSUME NEW R, NEW x \in Seq(R), NEW y \in Seq(R), NEW a \in Nat, a <= Len(x)
  PROVE  Drop(x \o y, a) = Drop(x, a) \o y
<1>1. Len(x) \in Nat /\ Len(y) \in Nat
  OBVIOUS
<1>2. /\ x \o y \in Seq(R) /\ Len(x \o y) = Len(x) + Len(y)
      /\ \A i \in 1 .. Len(x) + Len(y) : (x \o y)[i] = IF i <= Len(x) THEN x[i] ELSE y[i - Len(x)]
  BY ConcatProperties
<1>3. /\ Drop(x, a) \in Seq(R) /\ Len(Drop(x, a)) = Len(x) - a
      /\ \A i \in 1 .. Len(x) - a : Drop(x, a)[i] = x[a + i]
  BY Dropped
<1> DEFINE l == Drop(x \o y, a)
           r == Drop(x, a) \o y
           z == x \o y
           d == Drop(x, a)
<1>4. /\ l \in Seq(R) /\ Len(l) = Len(x) + Len(y) - a
      /\ \A i \in 1 .. Len(x) + Len(y) - a : l[i] = z[a + i]
  <2>1. z \in Seq(R) /\ a <= Len(z) /\ Len(z) = Len(x) + Len(y)
    BY <1>1, <1>2
  <2>2. l = Drop(z, a)
    OBVIOUS
  <2> HIDE DEF z, l
  <2>3. /\ l \in Seq(R) /\ Len(l) = Len(z) - a
        /\ \A i \in 1 .. Len(z) - a : l[i] = z[a + i]
    BY <2>1, <2>2, Dropped
  <2> QED
    BY <2>1, <2>3
<1>5. /\ r \in Seq(R) /\ Len(r) = Len(d) + Len(y)
      /\ \A i \in 1 .. Len(d) + Len(y) : r[i] = IF i <= Len(d) THEN d[i] ELSE y[i - Len(d)]
  <2>1. d \in Seq(R) /\ r = d \o y
    BY <1>3
  <2> HIDE DEF d, r
  <2> QED
    BY <2>1, ConcatProperties
<1>6. Len(d) = Len(x) - a /\ \A i \in 1 .. Len(x) - a : d[i] = x[a + i]
  BY <1>3
<1>7. \A i \in 1 .. Len(x) + Len(y) : z[i] = IF i <= Len(x) THEN x[i] ELSE y[i - Len(x)]
  BY <1>2
<1> HIDE DEF l, r, z, d
<1>8. ASSUME NEW i \in 1 .. Len(l) PROVE l[i] = r[i]
  <2>1. l[i] = z[a + i] /\ a + i \in 1 .. Len(x) + Len(y)
    BY <1>1, <1>4
  <2>2. CASE i <= Len(x) - a
    <3>1. a + i <= Len(x) /\ i \in 1 .. Len(x) - a /\ i <= Len(d) /\ i \in 1 .. Len(d) + Len(y)
      BY <1>1, <1>4, <1>6, <2>2
    <3>2. l[i] = x[a + i] /\ r[i] = d[i]
      BY <1>5, <1>7, <2>1, <3>1
    <3> QED
      BY <1>6, <3>1, <3>2
  <2>3. CASE ~(i <= Len(x) - a)
    <3>1. ~(a + i <= Len(x)) /\ ~(i <= Len(d)) /\ i \in 1 .. Len(d) + Len(y)
          /\ (a + i) - Len(x) = i - Len(d)
      BY <1>1, <1>4, <1>6, <2>3
    <3>2. l[i] = y[(a + i) - Len(x)] /\ r[i] = y[i - Len(d)]
      BY <1>5, <1>7, <2>1, <3>1
    <3> QED
      BY <3>1, <3>2
  <2> QED
    BY <2>2, <2>3
<1>9. Len(l) = Len(r)
  BY <1>1, <1>4, <1>5, <1>6
<1>10. l = r
  BY <1>4, <1>5, <1>8, <1>9, SeqEqual
<1> QED
  BY <1>10 DEF l, r

LEMMA DropTwice ==
  ASSUME NEW R, NEW x \in Seq(R), NEW a \in Nat, a <= Len(x), NEW d, d = Drop(x, a),
         NEW n \in Nat, n <= Len(d)
  PROVE  a + n <= Len(x) /\ Drop(d, n) = Drop(x, a + n)
<1>1. d \in Seq(R) /\ Len(d) = Len(x) - a /\ \A i \in 1 .. Len(x) - a : d[i] = x[a + i]
  BY Dropped
<1>2. Len(x) \in Nat /\ a + n \in Nat /\ a + n <= Len(x)
  BY <1>1
<1> DEFINE l == Drop(d, n)
           r == Drop(x, a + n)
<1>3. l \in Seq(R) /\ Len(l) = Len(d) - n /\ \A i \in 1 .. Len(d) - n : l[i] = d[n + i]
  BY <1>1, Dropped
<1>4. /\ r \in Seq(R) /\ Len(r) = Len(x) - (a + n)
      /\ \A i \in 1 .. Len(x) - (a + n) : r[i] = x[(a + n) + i]
  BY <1>2, Dropped
<1> HIDE DEF l, r
<1>5. Len(l) = Len(r)
  BY <1>1, <1>2, <1>3, <1>4
<1>6. ASSUME NEW i \in 1 .. Len(l) PROVE l[i] = r[i]
  <2>1. /\ i \in 1 .. Len(d) - n /\ n + i \in 1 .. Len(x) - a /\ i \in 1 .. Len(x) - (a + n)
        /\ a + (n + i) = (a + n) + i
    BY <1>1, <1>2, <1>3
  <2>2. l[i] = d[n + i] /\ d[n + i] = x[a + (n + i)] /\ r[i] = x[(a + n) + i]
    BY <1>1, <1>3, <1>4, <2>1
  <2> QED
    BY <2>1, <2>2
<1>7. l = r
  BY <1>3, <1>4, <1>5, <1>6, SeqEqual
<1> QED
  BY <1>2, <1>7 DEF l, r

LEMMA DropFront ==
  ASSUME NEW R, NEW u \in Seq(R), NEW y \in Seq(R), NEW c \in Nat, c <= Len(y)
  PROVE  Drop(u \o y, Len(u) + c) = Drop(y, c)
<1> SUFFICES ASSUME NEW x, x = u \o y, NEW a, a = Len(u) + c
             PROVE  Drop(x, a) = Drop(y, c)
  OBVIOUS
<1>1. /\ x \in Seq(R) /\ Len(u) \in Nat /\ Len(y) \in Nat /\ Len(x) = Len(u) + Len(y)
      /\ \A i \in 1 .. Len(u) + Len(y) : x[i] = IF i <= Len(u) THEN u[i] ELSE y[i - Len(u)]
  BY ConcatProperties
<1>2. a \in Nat /\ a <= Len(x)
  BY <1>1
<1> DEFINE l == Drop(x, a)
           r == Drop(y, c)
<1>3. l \in Seq(R) /\ Len(l) = Len(x) - a /\ \A i \in 1 .. Len(x) - a : l[i] = x[a + i]
  BY <1>1, <1>2, Dropped
<1>4. r \in Seq(R) /\ Len(r) = Len(y) - c /\ \A i \in 1 .. Len(y) - c : r[i] = y[c + i]
  BY Dropped
<1> HIDE DEF l, r
<1>5. Len(l) = Len(r)
  BY <1>1, <1>3, <1>4
<1>6. ASSUME NEW i \in 1 .. Len(l) PROVE l[i] = r[i]
  <2>1. /\ i \in 1 .. Len(x) - a /\ i \in 1 .. Len(y) - c
        /\ a + i \in 1 .. Len(u) + Len(y) /\ ~(a + i <= Len(u)) /\ (a + i) - Len(u) = c + i
    BY <1>1, <1>2, <1>3
  <2>2. l[i] = x[a + i] /\ x[a + i] = y[(a + i) - Len(u)] /\ r[i] = y[c + i]
    BY <1>1, <1>3, <1>4, <2>1
  <2> QED
    BY <2>1, <2>2
<1>7. l = r
  BY <1>3, <1>4, <1>5, <1>6, SeqEqual
<1> QED
  BY <1>7 DEF l, r

\* Dropping more is dropping from the rest.
LEMMA DropMore ==
  ASSUME NEW R, NEW x \in Seq(R), NEW a \in Nat, a <= Len(x), NEW d, d = Drop(x, a),
         NEW e \in Nat, a <= e, e <= Len(x)
  PROVE  \E n \in 0 .. Len(d) : Drop(x, e) = Drop(d, n)
<1> DEFINE n == e - a
<1>0. Len(Drop(x, a)) = Len(x) - a
  BY Dropped
<1>1. Len(d) = Len(x) - a /\ Len(x) \in Nat
  BY <1>0
<1>2. n \in Nat /\ n <= Len(d) /\ n \in 0 .. Len(d) /\ a + n = e
  BY <1>1
<1> HIDE DEF n
<1>3. Drop(d, n) = Drop(x, a + n)
  BY <1>2, DropTwice
<1> QED
  BY <1>2, <1>3

Octets == 0 .. Ring

LEMMA OctetFacts ==
  /\ <<>> \in Seq(Octets)
  /\ \A x, y \in Seq(Octets) : x \o y \in Seq(Octets) /\ Len(x \o y) = Len(x) + Len(y)
  /\ \A x \in Seq(Octets) : x \o <<>> = x /\ <<>> \o x = x /\ Len(x) \in Nat
  /\ \A x, y, z \in Seq(Octets) : (x \o y) \o z = x \o (y \o z)
<1>1. ASSUME NEW x \in Seq(Octets), NEW y \in Seq(Octets)
      PROVE  x \o y \in Seq(Octets) /\ Len(x \o y) = Len(x) + Len(y)
  BY ConcatProperties
<1>2. ASSUME NEW x \in Seq(Octets) PROVE x \o <<>> = x /\ <<>> \o x = x /\ Len(x) \in Nat
  BY ConcatEmptySeq
<1>3. ASSUME NEW x \in Seq(Octets), NEW y \in Seq(Octets), NEW z \in Seq(Octets)
      PROVE  (x \o y) \o z = x \o (y \o z)
  BY ConcatAssociative
<1> QED
  BY <1>1, <1>2, <1>3
Memories == [Blocks -> [1 .. Cap -> 0 .. Ring]]

LEMMA BlockBytes ==
  ASSUME NEW m \in Memories, NEW k \in Blocks
  PROVE  m[k] \in Seq(Octets) /\ Len(m[k]) = Cap
<1>1. m[k] \in [1 .. Cap -> 0 .. Ring] /\ Cap \in Nat
  BY BuffersAssumption DEF Memories
<1> QED
  BY <1>1, AsSequence DEF Octets

\* What h says of a block is what the block holds and what h says of the next.
Follows(s, m, h) == \A j \in 1 .. Len(s) - 1 : h[j] = m[s[j]] \o h[j + 1]

Extends(s, m, o, g, new, h) ==
  Flat(s, o, m, g) /\ h[Len(s)] = g[Len(s)] \o new /\ Follows(s, m, h)

EachExtended(s, g, new, h) == \A j \in 1 .. Len(s) : h[j] = g[j] \o new

\* What is received behind the last byte is added to what each block begins.
LEMMA Extended ==
  ASSUME NEW s \in Seq(Blocks), Len(s) >= 1, NEW m \in Memories, NEW o, NEW g,
         NEW new \in Seq(Octets), NEW h, Extends(s, m, o, g, new, h)
  PROVE  EachExtended(s, g, new, h)
<1> DEFINE T == {j \in 1 .. Len(s) : h[j] = g[j] \o new}
<1>0. Flat(s, o, m, g) /\ h[Len(s)] = g[Len(s)] \o new /\ Follows(s, m, h)
  BY DEF Extends
<1>1. Len(s) \in Nat /\ Len(s) \in T
  BY <1>0
<1>2. ASSUME NEW j \in 1 .. Len(s) - 1, j + 1 \in T PROVE j \in T
  <2>1. j \in 1 .. Len(s) /\ j + 1 \in 1 .. Len(s) /\ s[j] \in Blocks
    BY <1>1
  <2> DEFINE x == m[s[j]]
             y == g[j + 1]
  <2>2. x \in Seq(Octets) /\ y \in Seq(Octets) /\ g[j] = x \o y
    BY <1>0, <2>1, BlockBytes DEF Flat, Octets
  <2>3. h[j] = x \o (y \o new)
    BY <1>0, <1>2 DEF Follows
  <2>4. (x \o y) \o new = x \o (y \o new)
    <3> HIDE DEF x, y
    <3> QED
      BY <2>2, OctetFacts
  <2> HIDE DEF x, y
  <2> QED
    BY <2>1, <2>2, <2>3, <2>4
<1> HIDE DEF T
<1>3. \A j \in 1 .. Len(s) : j \in T
  BY <1>1, <1>2, Backward
<1> QED
  BY <1>3 DEF T, EachExtended

Reaches(g, i, j) ==
  \E u \in Seq(Octets) : g[i] = u \o g[j] /\ (i = j => u = <<>>) /\ (i < j => Len(u) >= Cap)

\* Whole blocks lie between two blocks of a list.
LEMMA Between ==
  ASSUME NEW s \in Seq(Blocks), Len(s) >= 1, NEW m \in Memories, NEW o, NEW g, Flat(s, o, m, g),
         NEW j \in 1 .. Len(s)
  PROVE  \A i \in 1 .. j : Reaches(g, i, j)
<1> DEFINE P(i, u) == g[i] = u \o g[j] /\ (i = j => u = <<>>) /\ (i < j => Len(u) >= Cap)
           T == {i \in 1 .. j : \E u \in Seq(Octets) : P(i, u)}
<1>1. j \in Nat /\ g[j] \in Seq(Octets) /\ Len(s) \in Nat
  BY DEF Flat, Octets
<1>2. j \in T
  <2> DEFINE y == g[j]
  <2>0. y \in Seq(Octets)
    BY <1>1
  <2>1. <<>> \in Seq(Octets) /\ <<>> \o y = y
    <3> HIDE DEF y
    <3> QED
      BY <2>0, OctetFacts
  <2>2. P(j, <<>>)
    BY <1>1, <2>1
  <2>3. j \in 1 .. j
    BY <1>1
  <2> HIDE DEF P, y
  <2> QED
    BY <2>1, <2>2, <2>3
<1>3. ASSUME NEW i \in 1 .. j - 1, i + 1 \in T PROVE i \in T
  <2>1. /\ i \in 1 .. j /\ i \in 1 .. Len(s) - 1 /\ i \in 1 .. Len(s) /\ s[i] \in Blocks
        /\ i < j
    BY <1>1
  <2>2. PICK u \in Seq(Octets) : g[i + 1] = u \o g[j]
    BY <1>3
  <2> DEFINE x == m[s[i]]
             y == g[j]
             v == x \o u
  <2>3. x \in Seq(Octets) /\ Len(x) = Cap /\ g[i] = x \o g[i + 1]
    BY <2>1, BlockBytes DEF Flat
  <2>4. y \in Seq(Octets) /\ g[i] = x \o (u \o y)
    BY <1>1, <2>2, <2>3
  <2>5. v \in Seq(Octets) /\ Len(v) >= Cap /\ g[i] = v \o y
    <3> HIDE DEF x, y
    <3>1. v \in Seq(Octets) /\ Len(v) = Len(x) + Len(u) /\ Len(u) \in Nat
      BY <2>3, OctetFacts
    <3>2. v \o y = x \o (u \o y)
      BY <2>3, <2>4, OctetFacts
    <3>3. Cap \in Nat
      BY BuffersAssumption
    <3> HIDE DEF v
    <3> QED
      BY <2>3, <2>4, <3>1, <3>2, <3>3
  <2>6. P(i, v)
    BY <2>1, <2>5
  <2> HIDE DEF P, v
  <2> QED
    BY <2>1, <2>5, <2>6
<1> HIDE DEF T
<1>4. \A i \in 1 .. j : i \in T
  BY <1>1, <1>2, <1>3, Backward
<1> QED
  BY <1>4 DEF T, Reaches

\* u is what c has to read in the blocks s.
UnreadIn(s, c, m, u) ==
  IF c.pos = Null THEN u = <<>>
  ELSE \E i \in 1 .. Len(s) : \E g :
         Stands(s, c, i) /\ Flat(s, c.bound.off, m, g) /\ u = Drop(g[i], c.pos.off)

Agree(s, m, w) == \A k \in Members(s) : w[k] = m[k]

\* What the blocks hold determines it.
LEMMA SameFlat ==
  ASSUME NEW s \in Seq(Blocks), Len(s) >= 1, NEW m \in Memories, NEW w,
         Agree(s, m, w), NEW o, NEW g, Flat(s, o, m, g), NEW h, Flat(s, o, w, h)
  PROVE  \A j \in 1 .. Len(s) : h[j] = g[j]
<1>1. Len(s) \in 1 .. Len(s) /\ \A j \in 1 .. Len(s) : w[s[j]] = m[s[j]]
  BY DEF Agree, Members
<1>2. \A j \in 1 .. Len(s) : g[j] \in Seq(Octets)
  BY DEF Flat, Octets
<1>3. \A x \in Seq(Octets) : x \o <<>> = x
  BY OctetFacts
<1>4. h[Len(s)] = g[Len(s)] \o <<>>
  <2>1. h[Len(s)] = g[Len(s)]
    BY <1>1 DEF Flat
  <2> QED
    BY <1>1, <1>2, <1>3, <2>1
<1>5. Follows(s, m, h)
  <2>1. ASSUME NEW j \in 1 .. Len(s) - 1 PROVE h[j] = m[s[j]] \o h[j + 1]
    <3>0. j \in 1 .. Len(s) /\ w[s[j]] = m[s[j]]
      BY <1>1
    <3>1. h[j] = w[s[j]] \o h[j + 1]
      BY DEF Flat
    <3> QED
      BY <3>0, <3>1
  <2> QED
    BY <2>1 DEF Follows
<1>6. PICK none : none = <<>> /\ none \in Seq(Octets)
  BY OctetFacts
<1>7. h[Len(s)] = g[Len(s)] \o none
  BY <1>4, <1>6
<1>8. EachExtended(s, g, none, h)
  <2>0. none \in Seq(Octets)
    BY <1>6
  <2>1. Extends(s, m, o, g, none, h)
    BY <1>5, <1>7 DEF Extends
  <2> QED
    BY <2>0, <2>1, Extended
<1> QED
  BY <1>2, <1>3, <1>6, <1>8 DEF EachExtended

\* u is what c has to read.
LEMMA SameUnread ==
  ASSUME NEW s \in Seq(Blocks), Once(s), NEW c, NEW m \in Memories, NEW w,
         Agree(s, m, w), NEW u, NEW v,
         UnreadIn(s, c, m, u), UnreadIn(s, c, w, v)
  PROVE  u = v
<1>1. CASE c.pos = Null
  BY <1>1 DEF UnreadIn
<1>2. CASE c.pos # Null
  <2> DEFINE o == c.bound.off
             a == c.pos.off
  <2>1. PICK i \in 1 .. Len(s) : \E g : Stands(s, c, i) /\ Flat(s, o, m, g) /\ u = Drop(g[i], a)
    BY <1>2 DEF UnreadIn
  <2>2. PICK g : Stands(s, c, i) /\ Flat(s, o, m, g) /\ u = Drop(g[i], a)
    BY <2>1
  <2>3. PICK j \in 1 .. Len(s) : \E h : Stands(s, c, j) /\ Flat(s, o, w, h) /\ v = Drop(h[j], a)
    BY <1>2 DEF UnreadIn
  <2>4. PICK h : Stands(s, c, j) /\ Flat(s, o, w, h) /\ v = Drop(h[j], a)
    BY <2>3
  <2>5. j = i /\ Len(s) >= 1
    <3>1. s[i] = s[j]
      BY <2>2, <2>4 DEF Stands
    <3>2. i = j
      BY <3>1 DEF Once
    <3> QED
      BY <3>2
  <2>6. \A n \in 1 .. Len(s) : h[n] = g[n]
    <3> HIDE DEF o, a
    <3> QED
      BY <2>2, <2>4, <2>5, SameFlat
  <2> HIDE DEF o, a
  <2> QED
    BY <2>2, <2>4, <2>5, <2>6
<1> QED
  BY <1>1, <1>2

Queue(b) == Unread(cur[b])

Reading ==
  \A q \in [Buffers -> Seq(Blocks)] : Held(q) =>
    \A b \in Buffers : UnreadIn(q[b], cur[b], mem, Queue(b))

LEMMA ReadingIs == TypeOK => Reading
<1> SUFFICES ASSUME TypeOK, NEW q \in [Buffers -> Seq(Blocks)], Held(q), NEW b \in Buffers
             PROVE  UnreadIn(q[b], cur[b], mem, Queue(b))
  BY DEF Reading
<1> DEFINE c == cur[b]
           s == q[b]
<1>1. /\ Owned(q, head, next, free, heap) /\ next \in Links /\ c \in Cursors
      /\ mem \in [Blocks -> [1 .. Cap -> 0 .. Ring]] /\ Within(s, c) /\ s \in Seq(Blocks)
  BY TypesOf DEF Held, Typed, Reads
<1>2. CASE c.pos = Null
  <2>1. Unread(c) = <<>>
    BY <1>2 DEF Unread
  <2> QED
    BY <1>2, <2>1 DEF UnreadIn, Queue
<1>3. CASE c.pos # Null
  <2>1. PICK i \in 1 .. Len(s) : Stands(s, c, i)
    BY <1>1, <1>3 DEF Within
  <2>2. Len(s) >= 1 /\ c.bound.block = s[Len(s)]
    BY <1>1, <2>1 DEF Stands
  <2> DEFINE g == Contents(c, s)
             o == c.pos.off
  <2>3. Flat(s, c.bound.off, mem, g)
    <3> HIDE DEF c
    <3> QED
      BY <1>1, <2>2, ContentFlat
  <2>4. Unread(c) = SubSeq(Content(c, s[i]), o + 1, Len(Content(c, s[i])))
    <3> HIDE DEF c
    <3> QED
      BY <1>1, <1>3, <2>1, UnreadOf
  <2>5. g[i] = Content(c, s[i])
    BY DEF Contents
  <2>6. Unread(c) = Drop(g[i], o)
    BY <2>4, <2>5 DEF Drop
  <2> HIDE DEF g, c, s
  <2>7. UnreadIn(s, c, mem, Unread(c))
    BY <1>3, <2>1, <2>3, <2>6 DEF UnreadIn
  <2> QED
    BY <2>7 DEF c, s, Queue
<1> QED
  BY <1>2, <1>3

\* After a step of b that leaves the other buffers' blocks alone.
LEMMA OthersKeep ==
  ASSUME TypeOK, TypeOK', NEW q \in [Buffers -> Seq(Blocks)], Held(q), NEW b \in Buffers,
         NEW t \in Seq(Blocks), Held([q EXCEPT ![b] = t])',
         \A d \in Buffers \ {b} : cur'[d] = cur[d] /\ \A k \in Members(q[d]) : mem'[k] = mem[k]
  PROVE  /\ UnreadIn(q[b], cur[b], mem, Queue(b))
         /\ UnreadIn(t, cur'[b], mem', Queue(b)')
         /\ \A d \in Buffers \ {b} : Queue(d)' = Queue(d)
<1>1. Reading /\ Reading'
  <2>1. TypeOK' => Reading'
    BY ReadingIs, PTL
  <2> QED
    BY <2>1, ReadingIs
<1> DEFINE r == [q EXCEPT ![b] = t]
<1>2. r \in [Buffers -> Seq(Blocks)] /\ r[b] = t /\ \A d \in Buffers \ {b} : r[d] = q[d]
  OBVIOUS
<1> HIDE DEF r
<1>3. \A d \in Buffers : UnreadIn(q[d], cur[d], mem, Queue(d))
  BY <1>1 DEF Reading
<1>4. Held(r)'
  BY DEF r
<1>5. ASSUME NEW d \in Buffers PROVE UnreadIn(r[d], cur'[d], mem', Queue(d)')
  BY <1>1, <1>2, <1>4 DEF Reading
<1>6. ASSUME NEW d \in Buffers \ {b} PROVE Queue(d)' = Queue(d)
  <2> DEFINE s == q[d]
             c == cur[d]
             u == Queue(d)
             v == Queue(d)'
  <2>1. s \in Seq(Blocks) /\ Once(s) /\ mem \in Memories /\ Agree(s, mem, mem')
    BY DEF Held, Owned, Along, TypeOK, Memories, Agree
  <2>2. UnreadIn(s, c, mem, u)
    BY <1>3
  <2>3. UnreadIn(s, c, mem', v)
    BY <1>2, <1>5
  <2> HIDE DEF s, c, u, v
  <2>4. u = v
    BY <2>1, <2>2, <2>3, SameUnread
  <2> QED
    BY <2>4 DEF u, v
<1> QED
  BY <1>2, <1>3, <1>5, <1>6

\* A cursor that stands in a list is not behind its bytes.
LEMMA StandsBefore ==
  ASSUME NEW s \in Seq(Blocks), NEW c \in Cursors, NEW i \in 1 .. Len(s), Stands(s, c, i),
         NEW m \in Memories, NEW g, Flat(s, c.bound.off, m, g)
  PROVE  /\ g[i] \in Seq(Octets) /\ c.pos.off \in Nat /\ c.pos.off <= Len(g[i])
         /\ Len(s) >= 1 /\ Len(s) \in Nat
<1> DEFINE o == c.bound.off
           a == c.pos.off
<1>1. o \in 0 .. Cap /\ a \in Nat /\ Cap \in Nat
  BY CursorTypes
<1>2. a < Cap /\ (i = Len(s) => a <= o)
  BY DEF Stands
<1>3. Len(s) \in Nat /\ Len(s) >= 1 /\ m \in [Blocks -> [1 .. Cap -> 0 .. Ring]] /\ Flat(s, o, m, g)
  BY DEF Memories
<1> HIDE DEF o, a
<1>4. Len(g[i]) = Span(Len(s) - i) + o
  BY <1>1, <1>3, FlatLen
<1>5. i # Len(s) => Cap <= Span(Len(s) - i) /\ Span(Len(s) - i) \in Nat
  <2>1. Span(0 + 1) = Cap + Span(0) /\ Span(0) = 0
    BY SpanSteps
  <2>2. Span(1) = Cap
    BY <1>1, <2>1
  <2>3. i # Len(s) => Len(s) - i \in Nat /\ 1 <= Len(s) - i
    BY <1>3
  <2> QED
    BY <2>2, <2>3, SpanSteps
<1>6. i = Len(s) => Span(Len(s) - i) = 0
  <2>1. i = Len(s) => Len(s) - i = 0
    BY <1>3
  <2> QED
    BY <2>1, SpanSteps
<1>7. a <= Len(g[i])
  BY <1>1, <1>2, <1>4, <1>5, <1>6
<1>8. g[i] \in Seq(Octets)
  BY <1>3 DEF Flat, Octets
<1> QED
  BY <1>1, <1>3, <1>7, <1>8 DEF a

\* The cursor c stands at the i-th of the blocks s, behind which new is received.
Receives(s, c, i, m, g, new, h) ==
  /\ s \in Seq(Blocks) /\ c \in Cursors /\ i \in 1 .. Len(s) /\ Stands(s, c, i)
  /\ m \in Memories /\ new \in Seq(Octets) /\ Extends(s, m, c.bound.off, g, new, h)

\* What is received comes behind what there was to read.
LEMMA ReadMore ==
  ASSUME NEW s, NEW c, NEW i, NEW m, NEW g, NEW new, NEW h, Receives(s, c, i, m, g, new, h)
  PROVE  Drop(h[i], c.pos.off) = Drop(g[i], c.pos.off) \o new
<1> DEFINE o == c.bound.off
           a == c.pos.off
           x == g[i]
<1>0. /\ s \in Seq(Blocks) /\ c \in Cursors /\ i \in 1 .. Len(s) /\ Stands(s, c, i)
      /\ m \in Memories /\ new \in Seq(Octets)
  BY DEF Receives
<1>1. Flat(s, o, m, g) /\ Extends(s, m, o, g, new, h)
  BY DEF Extends, Receives
<1>2. x \in Seq(Octets) /\ a \in Nat /\ a <= Len(x) /\ Len(s) >= 1
  BY <1>0, <1>1, StandsBefore
<1> HIDE DEF o
<1>3. EachExtended(s, g, new, h)
  BY <1>0, <1>1, <1>2, Extended
<1>4. h[i] = x \o new
  BY <1>0, <1>3 DEF EachExtended
<1> HIDE DEF x, a
<1>5. Drop(x \o new, a) = Drop(x, a) \o new
  BY <1>0, <1>2, DropOfConcat
<1>6. Drop(h[i], a) = Drop(x, a) \o new
  BY <1>4, <1>5
<1> QED
  BY <1>6 DEF a, x

\* A cursor that has been advanced has less to read, and that is the end of it.
LEMMA ReadLess ==
  ASSUME NEW s \in Seq(Blocks), Once(s), NEW c \in Cursors, NEW d \in Cursors,
         d.bound = c.bound, NotBefore(s, c, d),
         NEW i \in 1 .. Len(s), Stands(s, c, i), NEW j \in 1 .. Len(s), Stands(s, d, j),
         NEW m \in Memories, NEW g, Flat(s, c.bound.off, m, g), NEW u, u = Drop(g[i], c.pos.off)
  PROVE  \E n \in 0 .. Len(u) : Drop(g[j], d.pos.off) = Drop(u, n)
<1> DEFINE a == c.pos.off
           e == d.pos.off
           x == g[i]
           y == g[j]
<1>1. x \in Seq(Octets) /\ a \in Nat /\ a <= Len(x) /\ a < Cap /\ Len(s) >= 1
  BY StandsBefore DEF Stands
<1>2. y \in Seq(Octets) /\ e \in Nat /\ e <= Len(y)
  <2>1. Flat(s, d.bound.off, m, g)
    OBVIOUS
  <2> QED
    BY <2>1, StandsBefore
<1>3. i < j \/ (i = j /\ a <= e)
  BY DEF NotBefore, Stands
<1>4. PICK z \in Seq(Octets) : x = z \o y /\ (i = j => z = <<>>) /\ (i < j => Len(z) >= Cap)
  <2>1. i \in 1 .. j
    BY <1>3
  <2> DEFINE o == c.bound.off
  <2>2. Flat(s, o, m, g)
    OBVIOUS
  <2> HIDE DEF o, x, y
  <2>3. Reaches(g, i, j)
    BY <1>1, <2>1, <2>2, Between
  <2> QED
    BY <2>3 DEF Reaches, x, y
<1> DEFINE f == Len(z) + e
<1>5. Cap \in Nat /\ Len(z) \in Nat /\ Len(y) \in Nat /\ Len(x) = Len(z) + Len(y)
  <2> HIDE DEF x, y
  <2> QED
    BY <1>2, <1>4, OctetFacts, BuffersAssumption
<1>6. f \in Nat /\ a <= f /\ f <= Len(x)
  <2>1. i = j => Len(z) = 0
    BY <1>4
  <2> HIDE DEF x, y, a, e
  <2> QED
    BY <1>1, <1>2, <1>3, <1>4, <1>5, <2>1
<1>7. Drop(x, f) = Drop(y, e)
  <2>1. x = z \o y /\ f = Len(z) + e
    BY <1>4
  <2> HIDE DEF x, y, e, f
  <2>2. Drop(z \o y, Len(z) + e) = Drop(y, e)
    BY <1>2, DropFront
  <2> QED
    BY <2>1, <2>2
<1>8. \E n \in 0 .. Len(u) : Drop(x, f) = Drop(u, n)
  <2>1. u = Drop(x, a)
    OBVIOUS
  <2> HIDE DEF x, y, a, e, f
  <2> QED
    BY <1>1, <1>6, <2>1, DropMore
<1> QED
  BY <1>7, <1>8

AgreeBehind(s, m, w) == \A k \in Members(s) \ {s[1]} : w[k] = m[k]

\* A block that is given back takes nothing with it.
LEMMA ReadOfTail ==
  ASSUME NEW s \in Seq(Blocks), Once(s), Len(s) >= 1, NEW c \in Cursors,
         c.pos # Null => c.pos.block # s[1],
         NEW m \in Memories, NEW w, AgreeBehind(s, m, w),
         NEW u, UnreadIn(s, c, m, u), NEW v, UnreadIn(Tail(s), c, w, v)
  PROVE  u = v
<1>1. CASE c.pos = Null
  BY <1>1 DEF UnreadIn
<1>2. CASE c.pos # Null
  <2> DEFINE o == c.bound.off
             a == c.pos.off
             t == Tail(s)
  <2>1. PICK i \in 1 .. Len(s) : \E g : Stands(s, c, i) /\ Flat(s, o, m, g) /\ u = Drop(g[i], a)
    BY <1>2 DEF UnreadIn
  <2>2. PICK g : Stands(s, c, i) /\ Flat(s, o, m, g) /\ u = Drop(g[i], a)
    BY <2>1
  <2>3. PICK j \in 1 .. Len(t) : \E h : Stands(t, c, j) /\ Flat(t, o, w, h) /\ v = Drop(h[j], a)
    BY <1>2 DEF UnreadIn
  <2>4. PICK h : Stands(t, c, j) /\ Flat(t, o, w, h) /\ v = Drop(h[j], a)
    BY <2>3
  <2>5. /\ Len(s) \in Nat /\ t \in Seq(Blocks) /\ Len(t) = Len(s) - 1
        /\ \A n \in 1 .. Len(t) : t[n] = s[n + 1]
    OBVIOUS
  <2> HIDE DEF t, o, a
  <2>6. i = j + 1 /\ Len(t) >= 1
    <3>1. j + 1 \in 1 .. Len(s) /\ s[j + 1] = s[i] /\ Len(t) >= 1
      BY <2>2, <2>4, <2>5 DEF Stands
    <3> QED
      BY <3>1 DEF Once
  <2>7. ASSUME NEW n \in 1 .. Len(t)
        PROVE  n + 1 \in 1 .. Len(s) /\ t[n] = s[n + 1] /\ w[t[n]] = m[t[n]]
    <3>1. n + 1 \in 1 .. Len(s) /\ t[n] = s[n + 1] /\ 1 \in 1 .. Len(s) /\ n + 1 # 1
      BY <2>5
    <3>2. s[n + 1] \in Members(s) \ {s[1]}
      BY <3>1 DEF Members, Once
    <3> QED
      BY <3>1, <3>2 DEF AgreeBehind
  <2> DEFINE e == [n \in 1 .. Len(t) |-> g[n + 1]]
  <2>8. Flat(t, o, m, e)
    <3>1. \A n \in 1 .. Len(s) : g[n] \in Seq(0 .. Ring)
      BY <2>2 DEF Flat
    <3>2. ASSUME NEW n \in 1 .. Len(t) PROVE e[n] \in Seq(0 .. Ring)
      BY <2>7, <3>1
    <3>3. e[Len(t)] = SubSeq(m[t[Len(t)]], 1, o)
      <4>1. Len(t) \in 1 .. Len(t) /\ Len(t) + 1 = Len(s)
        BY <2>5, <2>6
      <4>2. e[Len(t)] = g[Len(s)] /\ t[Len(t)] = s[Len(s)]
        BY <2>7, <4>1
      <4> QED
        BY <2>2, <4>2 DEF Flat
    <3>4. ASSUME NEW n \in 1 .. Len(t) - 1 PROVE e[n] = m[t[n]] \o e[n + 1]
      <4>1. /\ n \in 1 .. Len(t) /\ n + 1 \in 1 .. Len(t) /\ n + 1 \in 1 .. Len(s) - 1
        BY <2>5
      <4>2. e[n] = g[n + 1] /\ e[n + 1] = g[(n + 1) + 1] /\ t[n] = s[n + 1]
        BY <2>7, <4>1
      <4>3. g[n + 1] = m[s[n + 1]] \o g[(n + 1) + 1]
        BY <2>2, <4>1 DEF Flat
      <4> QED
        BY <4>2, <4>3
    <3> HIDE DEF e
    <3> QED
      BY <3>2, <3>3, <3>4 DEF Flat
  <2>9. e[j] = g[i]
    BY <2>6
  <2> HIDE DEF e
  <2>10. Agree(t, m, w)
    BY <2>7 DEF Members, Agree
  <2>11. \A n \in 1 .. Len(t) : h[n] = e[n]
    BY <2>4, <2>5, <2>6, <2>8, <2>10, SameFlat
  <2> QED
    BY <2>2, <2>4, <2>9, <2>11
<1> QED
  BY <1>1, <1>2

-----------------------------------------------------------------------------
(* The queues of a step. *)

Peer(b, n) == Streams!Bytes(sent[b], n)

LEMMA PeerBytes ==
  ASSUME NEW b \in Buffers, sent[b] \in Nat, NEW n \in Nat
  PROVE  /\ Peer(b, n) \in Seq(Octets) /\ Len(Peer(b, n)) = n
         /\ \A i \in 1 .. n : Peer(b, n)[i] = (sent[b] + i - 1) % Ring
<1> DEFINE f == [i \in 1 .. n |-> (sent[b] + i - 1) % Ring]
<1>1. Peer(b, n) = f
  BY DEF Peer, Streams!Bytes
<1>2. f \in [1 .. n -> Octets]
  <2>1. ASSUME NEW i \in 1 .. n PROVE (sent[b] + i - 1) % Ring \in Octets
    <3> DEFINE x == sent[b] + i - 1
    <3>1. x \in Nat
      OBVIOUS
    <3> HIDE DEF x
    <3>2. x % Ring \in 0 .. Ring
      BY <3>1, BuffersAssumption
    <3> QED
      BY <3>2 DEF x, Octets
  <2> QED
    BY <2>1
<1> HIDE DEF f
<1>3. f \in Seq(Octets) /\ Len(f) = n
  BY <1>2, AsSequence
<1>4. \A i \in 1 .. n : f[i] = (sent[b] + i - 1) % Ring
  BY DEF f
<1> QED
  BY <1>1, <1>3, <1>4

\* p is w with new in the n places behind the o-th.
Overwrites(p, w, o, n, new) ==
  /\ w \in [1 .. Cap -> Octets] /\ p \in [1 .. Cap -> Octets]
  /\ o \in Nat /\ n \in Nat /\ o + n <= Cap /\ new \in Seq(Octets) /\ Len(new) = n
  /\ \A i \in 1 .. Cap : p[i] = IF i \in o + 1 .. o + n THEN new[i - o] ELSE w[i]

Behind(p, w, o, n, new) == SubSeq(p, 1, o + n) = SubSeq(w, 1, o) \o new

LEMMA WrittenBehind ==
  ASSUME NEW p, NEW w, NEW o, NEW n, NEW new, Overwrites(p, w, o, n, new)
  PROVE  Behind(p, w, o, n, new)
<1>0. /\ w \in [1 .. Cap -> Octets] /\ p \in [1 .. Cap -> Octets]
      /\ o \in Nat /\ n \in Nat /\ o + n <= Cap /\ new \in Seq(Octets) /\ Len(new) = n
  BY DEF Overwrites
<1>1. Cap \in Nat
  BY BuffersAssumption
<1> DEFINE l == SubSeq(p, 1, o + n)
           f == SubSeq(w, 1, o)
           r == f \o new
<1>2. l \in Seq(Octets) /\ Len(l) = o + n /\ \A i \in 1 .. o + n : l[i] = p[i]
  <2> DEFINE e == o + n
  <2>1. e \in Nat /\ \A i \in 1 .. e : p[i] \in Octets
    BY <1>0, <1>1
  <2>2. l = SubSeq(p, 1, e)
    OBVIOUS
  <2> HIDE DEF e, l
  <2>3. /\ l \in Seq(Octets) /\ Len(l) = (IF 1 <= e THEN e - 1 + 1 ELSE 0)
        /\ \A i \in 1 .. e - 1 + 1 : l[i] = p[1 + i - 1]
    BY <1>0, <2>1, <2>2, SubSeqProperties
  <2>4. e - 1 + 1 = e /\ \A i \in Int : 1 + i - 1 = i
    BY <1>0, <2>1
  <2>5. Len(l) = e /\ \A i \in 1 .. e : l[i] = p[i]
    BY <1>0, <2>1, <2>3, <2>4
  <2> QED
    BY <1>0, <2>3, <2>5 DEF e
<1>3. f \in Seq(Octets) /\ Len(f) = o /\ \A i \in 1 .. o : f[i] = w[i]
  <2>1. \A i \in 1 .. o : w[i] \in Octets
    BY <1>0, <1>1
  <2>2. f = SubSeq(w, 1, o)
    OBVIOUS
  <2> HIDE DEF f
  <2>3. /\ f \in Seq(Octets) /\ Len(f) = (IF 1 <= o THEN o - 1 + 1 ELSE 0)
        /\ \A i \in 1 .. o - 1 + 1 : f[i] = w[1 + i - 1]
    BY <1>0, <2>1, <2>2, SubSeqProperties
  <2>4. o - 1 + 1 = o /\ \A i \in Int : 1 + i - 1 = i
    BY <1>0
  <2> QED
    BY <1>0, <2>3, <2>4
<1>4. /\ r \in Seq(Octets) /\ Len(r) = o + n
      /\ \A i \in 1 .. o + n : r[i] = IF i <= o THEN f[i] ELSE new[i - o]
  <2>1. r = f \o new
    OBVIOUS
  <2> HIDE DEF f, r
  <2>2. /\ r \in Seq(Octets) /\ Len(r) = Len(f) + Len(new)
        /\ \A i \in 1 .. Len(f) + Len(new) : r[i] = IF i <= Len(f) THEN f[i] ELSE new[i - Len(f)]
    BY <1>0, <1>3, <2>1, ConcatProperties
  <2> QED
    BY <1>0, <1>3, <2>2
<1> HIDE DEF l, f, r
<1>5. ASSUME NEW i \in 1 .. Len(l) PROVE l[i] = r[i]
  <2>1. i \in 1 .. o + n /\ i \in 1 .. Cap
    BY <1>0, <1>1, <1>2
  <2>2. i <= o => i \in 1 .. o /\ i \notin o + 1 .. o + n
    BY <1>0, <2>1
  <2>3. ~(i <= o) => i \in o + 1 .. o + n
    BY <1>0, <2>1
  <2> QED
    BY <1>0, <1>2, <1>3, <1>4, <2>1, <2>2, <2>3 DEF Overwrites
<1>6. l = r
  BY <1>0, <1>2, <1>4, <1>5, SeqEqual
<1> QED
  BY <1>6 DEF l, r, f, Behind

\* The n next bytes of the peer came behind the Bound of b and nowhere else.
Wrote(b, n) ==
  LET k == cur[b].bound.block
      o == cur[b].bound.off
  IN /\ SubSeq(mem'[k], 1, o + n) = SubSeq(mem[k], 1, o) \o Peer(b, n)
     /\ \A x \in Blocks \ {k} : mem'[x] = mem[x]

LEMMA WriteWrote ==
  ASSUME TypeOK, NEW b \in Buffers, NEW n \in Nat, cur[b].bound.block \in Blocks,
         cur[b].bound.off + n <= Cap, Write(b, n)
  PROVE  Wrote(b, n)
<1> DEFINE k == cur[b].bound.block
           o == cur[b].bound.off
           new == Peer(b, n)
           p == mem'[k]
           w == mem[k]
<1>1. mem' = [mem EXCEPT ![k] = [i \in 1 .. Cap |-> IF i \in o + 1 .. o + n
                                          THEN (sent[b] + i - o - 1) % Ring ELSE w[i]]]
  BY DEF Write, TypeOK
<1>2. p = [i \in 1 .. Cap |-> IF i \in o + 1 .. o + n
                                          THEN (sent[b] + i - o - 1) % Ring ELSE w[i]]
      /\ \A x \in Blocks \ {k} : mem'[x] = mem[x]
  BY <1>1 DEF TypeOK
<1>3. o \in Nat /\ sent[b] \in Nat /\ w \in [1 .. Cap -> Octets] /\ p \in [1 .. Cap -> Octets]
  <2>1. mem' \in [Blocks -> [1 .. Cap -> 0 .. Ring]]
    BY Written
  <2>2. cur[b] \in Cursors /\ sent[b] \in 0 .. Ring - 1
    BY DEF TypeOK
  <2>3. o \in Nat
    BY <2>2, CursorTypes
  <2>4. w \in [1 .. Cap -> Octets] /\ p \in [1 .. Cap -> Octets]
    BY <2>1 DEF TypeOK, Octets
  <2>5. sent[b] \in Nat
    BY <2>2, BuffersAssumption
  <2> QED
    BY <2>3, <2>4, <2>5
<1>4. new \in Seq(Octets) /\ Len(new) = n /\ \A i \in 1 .. n : new[i] = (sent[b] + i - 1) % Ring
  BY <1>3, PeerBytes
<1>5. ASSUME NEW i \in 1 .. Cap
      PROVE  p[i] = IF i \in o + 1 .. o + n THEN new[i - o] ELSE w[i]
  <2>1. p[i] = IF i \in o + 1 .. o + n THEN (sent[b] + i - o - 1) % Ring ELSE w[i]
    BY <1>2
  <2> HIDE DEF p, w, new, o
  <2>2. i \in o + 1 .. o + n => i - o \in 1 .. n /\ sent[b] + i - o - 1 = sent[b] + (i - o) - 1
    BY <1>3
  <2>3. i \in o + 1 .. o + n => new[i - o] = (sent[b] + (i - o) - 1) % Ring
    BY <1>4, <2>2
  <2> QED
    BY <2>1, <2>2, <2>3
<1>6. Behind(p, w, o, n, new)
  <2>1. o + n <= Cap
    OBVIOUS
  <2>2. Overwrites(p, w, o, n, new)
    BY <1>3, <1>4, <1>5, <2>1 DEF Overwrites
  <2> HIDE DEF p, w, new, o
  <2> QED
    BY <2>2, WrittenBehind
<1> QED
  BY <1>2, <1>6 DEF Wrote, Behind

\* What receiving leaves alone.
LEMMA ElsewhereSame ==
  ASSUME TypeOK, NEW q \in [Buffers -> Seq(Blocks)], Held(q), NEW b \in Buffers,
         pc[b] \in Receiving, NEW n, Wrote(b, n), NEW d \in Buffers \ {b}
  PROVE  \A k \in Members(q[d]) : mem'[k] = mem[k]
<1> DEFINE k == cur[b].bound.block
<1>1. k = q[b][Len(q[b])] /\ Len(q[b]) \in Nat \ {0}
  BY BoundLast
<1>2. k \in Members(q[b])
  <2>1. Len(q[b]) \in 1 .. Len(q[b])
    BY <1>1
  <2> QED
    BY <1>1, <2>1 DEF Members
<1>3. Members(q[b]) \cap Members(q[d]) = {} /\ q[d] \in Seq(Blocks)
  BY DEF Held, Owned
<1>4. Members(q[d]) \subseteq Blocks
  BY <1>3 DEF Members
<1>5. \A x \in Blocks \ {k} : mem'[x] = mem[x]
  BY DEF Wrote
<1> HIDE DEF k
<1> QED
  BY <1>2, <1>3, <1>4, <1>5

\* Bytes in the last block.
LEMMA FilledReads ==
  ASSUME TypeOK, TypeOK', NEW q \in [Buffers -> Seq(Blocks)], Held(q), Held(q)',
         NEW b \in Buffers, pc[b] \in Receiving, NEW n \in Nat, Wrote(b, n), Only(b),
         cur'[b].pos = cur[b].pos,
         cur'[b].bound = At(cur[b].bound.block, cur[b].bound.off + n)
  PROVE  /\ Queue(b)' = Queue(b) \o Peer(b, n)
         /\ \A d \in Buffers \ {b} : Queue(d)' = Queue(d)
<1> DEFINE s == q[b]
           c == cur[b]
           e == cur'[b]
           o == cur[b].bound.off
           new == Peer(b, n)
<1>1. [q EXCEPT ![b] = q[b]] = q /\ s \in Seq(Blocks)
  OBVIOUS
<1>2. /\ UnreadIn(s, c, mem, Queue(b)) /\ UnreadIn(s, e, mem', Queue(b)')
      /\ \A d \in Buffers \ {b} : Queue(d)' = Queue(d)
  <2>1. Held([q EXCEPT ![b] = q[b]])'
    BY <1>1
  <2>2. \A d \in Buffers \ {b} : cur'[d] = cur[d] /\ \A k \in Members(q[d]) : mem'[k] = mem[k]
    BY ElsewhereSame DEF Only
  <2> QED
    BY <1>1, <2>1, <2>2, OthersKeep
<1>3. /\ c \in Cursors /\ c.pos # Null /\ Once(s) /\ Len(s) \in Nat \ {0}
      /\ c.bound.block = s[Len(s)]
  BY BoundLast DEF Held, Reads, Owned, Along
<1>4. sent[b] \in Nat /\ new \in Seq(Octets)
  <2>1. sent[b] \in Nat
    BY BuffersAssumption DEF TypeOK
  <2> QED
    BY <2>1, PeerBytes
<1>5. e.pos = c.pos /\ e.bound.off = o + n
  BY DEF At
<1>6. SubSeq(mem'[s[Len(s)]], 1, o + n) = SubSeq(mem[s[Len(s)]], 1, o) \o new
      /\ \A x \in Blocks \ {s[Len(s)]} : mem'[x] = mem[x]
  BY <1>3 DEF Wrote
<1> DEFINE z == o + n
           a == c.pos.off
           u == Queue(b)
           v == Queue(b)'
<1>7. PICK i \in 1 .. Len(s) : \E g : Stands(s, c, i) /\ Flat(s, o, mem, g) /\ u = Drop(g[i], a)
  BY <1>2, <1>3 DEF UnreadIn
<1>8. PICK g : Stands(s, c, i) /\ Flat(s, o, mem, g) /\ u = Drop(g[i], a)
  BY <1>7
<1>9. PICK j \in 1 .. Len(s) : \E h : Stands(s, e, j) /\ Flat(s, z, mem', h) /\ v = Drop(h[j], a)
  BY <1>2, <1>3, <1>5 DEF UnreadIn
<1>10. PICK h : Stands(s, e, j) /\ Flat(s, z, mem', h) /\ v = Drop(h[j], a)
  BY <1>9
<1>11. j = i
  BY <1>3, <1>5, <1>8, <1>10 DEF Stands, Once
<1>12. Extends(s, mem, o, g, new, h)
  <2>1. h[Len(s)] = g[Len(s)] \o new
    <3>1. h[Len(s)] = SubSeq(mem'[s[Len(s)]], 1, z) /\ g[Len(s)] = SubSeq(mem[s[Len(s)]], 1, o)
      BY <1>8, <1>10 DEF Flat
    <3> HIDE DEF new, s, o
    <3> QED
      BY <1>6, <3>1
  <2>2. ASSUME NEW x \in 1 .. Len(s) - 1 PROVE h[x] = mem[s[x]] \o h[x + 1]
    <3>1. x \in 1 .. Len(s) /\ Len(s) \in 1 .. Len(s) /\ x # Len(s)
      BY <1>3
    <3>2. s[x] \in Blocks \ {s[Len(s)]}
      BY <1>1, <1>3, <3>1 DEF Once
    <3>3. h[x] = mem'[s[x]] \o h[x + 1]
      BY <1>10 DEF Flat
    <3> HIDE DEF s
    <3> QED
      BY <1>6, <3>2, <3>3
  <2> QED
    BY <1>8, <2>1, <2>2 DEF Extends, Follows
<1>13. mem \in Memories
  BY DEF TypeOK, Memories
<1> HIDE DEF s, new, o, z, u, v, c
<1>14. Drop(h[i], c.pos.off) = Drop(g[i], c.pos.off) \o new
  <2>1. Extends(s, mem, c.bound.off, g, new, h)
    BY <1>12 DEF c, o
  <2>2. Receives(s, c, i, mem, g, new, h)
    BY <1>1, <1>3, <1>4, <1>8, <1>13, <2>1 DEF Receives
  <2> QED
    BY <2>2, ReadMore
<1>15. v = u \o new
  BY <1>8, <1>10, <1>11, <1>14
<1> QED
  BY <1>2, <1>15 DEF u, v, new

\* Bytes up to the End of the last block, behind which there is a new one.
LEMMA GrownReads ==
  ASSUME TypeOK, TypeOK', NEW q \in [Buffers -> Seq(Blocks)], Held(q), NEW b \in Buffers,
         NEW k \in Blocks, Held([q EXCEPT ![b] = Append(q[b], k)])',
         pc[b] \in Receiving, NEW n \in Nat, n = Room(b), Wrote(b, n), Only(b),
         cur'[b].pos = cur[b].pos, cur'[b].bound = At(k, 0)
  PROVE  /\ Queue(b)' = Queue(b) \o Peer(b, n)
         /\ \A d \in Buffers \ {b} : Queue(d)' = Queue(d)
<1> DEFINE s == q[b]
           t == Append(s, k)
           c == cur[b]
           e == cur'[b]
           o == cur[b].bound.off
           new == Peer(b, n)
<1>1. s \in Seq(Blocks) /\ t \in Seq(Blocks) /\ [q EXCEPT ![b] = t][b] = t
  OBVIOUS
<1>2. /\ UnreadIn(s, c, mem, Queue(b)) /\ UnreadIn(t, e, mem', Queue(b)')
      /\ \A d \in Buffers \ {b} : Queue(d)' = Queue(d)
  <2>1. Held([q EXCEPT ![b] = t])'
    OBVIOUS
  <2>2. \A d \in Buffers \ {b} : cur'[d] = cur[d] /\ \A x \in Members(q[d]) : mem'[x] = mem[x]
    BY ElsewhereSame DEF Only
  <2> HIDE DEF t
  <2> QED
    BY <1>1, <2>1, <2>2, OthersKeep
<1>3. /\ c \in Cursors /\ c.pos # Null /\ Once(s) /\ Len(s) \in Nat \ {0}
      /\ c.bound.block = s[Len(s)] /\ o \in 0 .. Cap
  BY BoundLast DEF Held, Reads, Owned, Along
<1>4. sent[b] \in Nat /\ new \in Seq(Octets)
  <2>1. sent[b] \in Nat
    BY BuffersAssumption DEF TypeOK
  <2> QED
    BY <2>1, PeerBytes
<1>5. e.pos = c.pos /\ e.bound.off = 0
  BY DEF At
<1>6. SubSeq(mem'[s[Len(s)]], 1, Cap) = SubSeq(mem[s[Len(s)]], 1, o) \o new
      /\ \A x \in Blocks \ {s[Len(s)]} : mem'[x] = mem[x]
  <2>1. o + n = Cap
    BY <1>3, BuffersAssumption DEF Room
  <2> QED
    BY <1>3, <2>1 DEF Wrote
<1>7. /\ Len(t) = Len(s) + 1 /\ t[Len(s) + 1] = k
      /\ \A x \in 1 .. Len(s) : t[x] = s[x] /\ x \in 1 .. Len(t)
      /\ Once(t)
  <2>1. /\ Len(t) = Len(s) + 1 /\ t[Len(s) + 1] = k
        /\ \A x \in 1 .. Len(s) : t[x] = s[x] /\ x \in 1 .. Len(t)
    BY <1>1
  <2> DEFINE r == [q EXCEPT ![b] = t]
  <2>2. Held(r)'
    OBVIOUS
  <2>3. r[b] = t
    BY <1>1
  <2> HIDE DEF r, t
  <2>4. Once(t)
    BY <2>2, <2>3 DEF Held, Owned, Along
  <2> QED
    BY <2>1, <2>4
<1> DEFINE a == c.pos.off
           u == Queue(b)
           v == Queue(b)'
<1> HIDE DEF t
<1>8. PICK i \in 1 .. Len(s) : \E g : Stands(s, c, i) /\ Flat(s, o, mem, g) /\ u = Drop(g[i], a)
  BY <1>2, <1>3 DEF UnreadIn
<1>9. PICK g : Stands(s, c, i) /\ Flat(s, o, mem, g) /\ u = Drop(g[i], a)
  BY <1>8
<1>10. PICK j \in 1 .. Len(t) : \E h : Stands(t, e, j) /\ Flat(t, 0, mem', h) /\ v = Drop(h[j], a)
  BY <1>2, <1>3, <1>5 DEF UnreadIn
<1>11. PICK h : Stands(t, e, j) /\ Flat(t, 0, mem', h) /\ v = Drop(h[j], a)
  BY <1>10
<1>12. j = i
  <2>1. t[j] = t[i]
    BY <1>5, <1>7, <1>9, <1>11 DEF Stands
  <2> QED
    BY <1>7, <2>1 DEF Once
<1>13. mem \in Memories /\ mem' \in Memories
  BY DEF TypeOK, Memories
<1>14. Extends(s, mem, o, g, new, h)
  <2>1. h[Len(s)] = g[Len(s)] \o new
    <3> DEFINE w == mem'[s[Len(s)]]
    <3>1. Len(s) \in 1 .. Len(t) - 1 /\ Len(s) \in 1 .. Len(s) /\ s[Len(s)] \in Blocks
      BY <1>1, <1>3, <1>7
    <3>2. h[Len(s)] = mem'[t[Len(s)]] \o h[Len(s) + 1] /\ t[Len(s)] = s[Len(s)]
      BY <1>7, <1>11, <3>1 DEF Flat
    <3>3. h[Len(s) + 1] = SubSeq(mem'[t[Len(t)]], 1, 0)
      BY <1>7, <1>11 DEF Flat
    <3>4. h[Len(s) + 1] = <<>>
      BY <3>3, SubSeqEmpty
    <3>5. w \in Seq(Octets) /\ Len(w) = Cap
      BY <1>13, <3>1, BlockBytes
    <3> HIDE DEF w
    <3>6. w \o <<>> = w
      BY <3>5, OctetFacts
    <3>7. SubSeq(w, 1, Cap) = w
      BY <3>5, SubSeqFull
    <3>8. h[Len(s)] = w
      BY <3>2, <3>4, <3>6 DEF w
    <3>9. g[Len(s)] = SubSeq(mem[s[Len(s)]], 1, o)
      BY <1>9 DEF Flat
    <3>10. SubSeq(w, 1, Cap) = SubSeq(mem[s[Len(s)]], 1, o) \o new
      BY <1>6 DEF w
    <3> HIDE DEF new, s, o
    <3> QED
      BY <3>7, <3>8, <3>9, <3>10
  <2>2. ASSUME NEW x \in 1 .. Len(s) - 1 PROVE h[x] = mem[s[x]] \o h[x + 1]
    <3>1. /\ x \in 1 .. Len(s) /\ Len(s) \in 1 .. Len(s) /\ x # Len(s)
          /\ x \in 1 .. Len(t) - 1
      BY <1>3, <1>7
    <3>2. s[x] \in Blocks \ {s[Len(s)]} /\ t[x] = s[x]
      <4>1. s[x] # s[Len(s)]
        BY <1>3, <3>1 DEF Once
      <4>2. s[x] \in Blocks /\ t[x] = s[x]
        BY <1>1, <1>7, <3>1
      <4> QED
        BY <4>1, <4>2
    <3>3. h[x] = mem'[t[x]] \o h[x + 1]
      BY <1>11, <3>1 DEF Flat
    <3> HIDE DEF s
    <3> QED
      BY <1>6, <3>2, <3>3
  <2> QED
    BY <1>9, <2>1, <2>2 DEF Extends, Follows
<1> HIDE DEF s, new, o, u, v, c
<1>15. Drop(h[i], c.pos.off) = Drop(g[i], c.pos.off) \o new
  <2>1. Extends(s, mem, c.bound.off, g, new, h)
    BY <1>14 DEF c, o
  <2>2. Receives(s, c, i, mem, g, new, h)
    BY <1>1, <1>3, <1>4, <1>9, <1>13, <2>1 DEF Receives
  <2> QED
    BY <2>2, ReadMore
<1>16. v = u \o new
  BY <1>9, <1>11, <1>12, <1>15
<1> QED
  BY <1>2, <1>16 DEF u, v, new

-----------------------------------------------------------------------------
(* Each step is one of the queues, or invisible in them. *)

Queues == [b \in Buffers |-> Unread(cur[b])]
StreamStep == [Streams!StreamNext]_<<Queues, sent>>

LEMMA Invisible ==
  ASSUME \A b \in Buffers : Queue(b)' = Queue(b), sent' = sent
  PROVE  StreamStep
<1>1. Queues' = Queues
  BY DEF Queues, Queue
<1> QED
  BY <1>1 DEF StreamStep

LEMMA ReceivedStep ==
  ASSUME TypeOK, NEW b \in Buffers, NEW n \in 0 .. Ring,
         Queue(b) \in Seq(Octets), Queue(b)' = Queue(b) \o Peer(b, n),
         \A d \in Buffers \ {b} : Queue(d)' = Queue(d),
         sent' = [sent EXCEPT ![b] = (@ + n) % Ring]
  PROVE  StreamStep
<1>1. Ring \in Nat \ {0} /\ sent \in [Buffers -> 0 .. Ring - 1] /\ sent[b] \in Nat /\ n \in Nat
      /\ sent[b] < Ring
  <2>1. sent \in [Buffers -> 0 .. Ring - 1] /\ Ring \in Nat \ {0}
    BY BuffersAssumption DEF TypeOK
  <2>2. sent[b] \in 0 .. Ring - 1
    BY <2>1
  <2> QED
    BY <2>1, <2>2
<1>2. CASE n = 0
  <2>1. Peer(b, n) = <<>>
    <3>1. Peer(b, n) \in Seq(Octets) /\ Len(Peer(b, n)) = 0
      BY <1>1, <1>2, PeerBytes
    <3> DEFINE x == Peer(b, n)
    <3> HIDE DEF x
    <3>2. x \in Seq(Octets) /\ Len(x) = 0 => x = <<>>
      OBVIOUS
    <3> QED
      BY <3>1, <3>2 DEF x
  <2>2. Queue(b)' = Queue(b)
    <3> DEFINE x == Queue(b)
    <3>1. x \in Seq(Octets) /\ Queue(b)' = x \o Peer(b, n)
      OBVIOUS
    <3> HIDE DEF x
    <3>2. x \o <<>> = x
      BY <3>1, OctetFacts
    <3>3. Queue(b)' = x
      BY <2>1, <3>1, <3>2
    <3> QED
      BY <3>3 DEF x
  <2>3. (sent[b] + n) % Ring = sent[b]
    <3> DEFINE a == sent[b]
    <3>1. a \in Nat /\ a < Ring /\ Ring \in Nat \ {0}
      BY <1>1
    <3> HIDE DEF a
    <3>2. a % Ring = a
      BY <3>1, Divided
    <3>3. a + n = a
      BY <1>2, <3>1
    <3> QED
      BY <3>2, <3>3 DEF a
  <2>4. sent' = sent
    BY <1>1, <2>3
  <2> QED
    BY <2>2, <2>4, Invisible
<1>3. CASE n # 0
  <2>1. n \in 1 .. Ring
    BY <1>1, <1>3
  <2>2. Queues' = [Queues EXCEPT ![b] = @ \o Streams!Bytes(sent[b], n)]
    <3>1. \A d \in Buffers : Queues[d] = Queue(d) /\ Queues'[d] = Queue(d)'
      BY DEF Queues, Queue
    <3>2. Queues = [d \in Buffers |-> Queue(d)] /\ Queues' = [d \in Buffers |-> Queue(d)']
      BY DEF Queues, Queue
    <3> DEFINE new == Peer(b, n)
    <3>3. Queues' = [Queues EXCEPT ![b] = Queues[b] \o new]
      <4> HIDE DEF new
      <4>1. Queue(b)' = Queue(b) \o new
        BY DEF new
      <4> QED
        BY <3>1, <3>2, <4>1
    <3> QED
      BY <3>3 DEF Peer
  <2>3. Streams!Receive(b, n)
    BY <2>2 DEF Streams!Receive, Queues
  <2>4. Streams!StreamNext
    BY <2>1, <2>3 DEF Streams!StreamNext
  <2> QED
    BY <2>4 DEF StreamStep
<1> QED
  BY <1>2, <1>3

LEMMA ConsumedStep ==
  ASSUME NEW b \in Buffers, Queue(b) \in Seq(Octets), NEW n \in 0 .. Len(Queue(b)),
         Queue(b)' = Drop(Queue(b), n), \A d \in Buffers \ {b} : Queue(d)' = Queue(d),
         sent' = sent
  PROVE  StreamStep
<1>1. CASE n = 0
  <2> DEFINE x == Queue(b)
  <2>1. x \in Seq(Octets)
    OBVIOUS
  <2> HIDE DEF x
  <2>2. SubSeq(x, 0 + 1, Len(x)) = x
    BY <2>1, SubSeqFull
  <2>3. Queue(b)' = Queue(b)
    BY <1>1, <2>2 DEF Drop, x
  <2> QED
    BY <2>3, Invisible
<1>2. CASE n # 0
  <2>1. n \in 1 .. Len(Queue(b)) /\ Queue(b) = Queues[b]
    BY <1>2 DEF Queues, Queue
  <2>2. Queues' = [Queues EXCEPT ![b] = SubSeq(@, n + 1, Len(@))]
    <3>1. \A d \in Buffers : Queues[d] = Queue(d) /\ Queues'[d] = Queue(d)'
      BY DEF Queues, Queue
    <3>2. Queues = [d \in Buffers |-> Queue(d)] /\ Queues' = [d \in Buffers |-> Queue(d)']
      BY DEF Queues, Queue
    <3>3. Queues' = [Queues EXCEPT ![b] = Drop(Queues[b], n)]
      BY <3>1, <3>2
    <3> QED
      BY <3>3 DEF Drop
  <2>3. Streams!Consume(b, n)
    BY <2>2 DEF Streams!Consume, Queues
  <2>4. Streams!StreamNext
    BY <2>1, <2>3 DEF Streams!StreamNext, Queues
  <2> QED
    BY <2>4 DEF StreamStep
<1> QED
  BY <1>1, <1>2

LEMMA QueueBytes ==
  ASSUME TypeOK, NEW q \in [Buffers -> Seq(Blocks)], Held(q), NEW b \in Buffers
  PROVE  Queue(b) \in Seq(Octets)
<1> DEFINE s == q[b]
           c == cur[b]
           u == Queue(b)
<1>1. UnreadIn(s, c, mem, u) /\ s \in Seq(Blocks) /\ c \in Cursors /\ mem \in Memories
  BY ReadingIs DEF Reading, TypeOK, Memories
<1> HIDE DEF s, c
<1>2. CASE c.pos = Null
  BY <1>1, <1>2, OctetFacts DEF UnreadIn
<1>3. CASE c.pos # Null
  <2>1. PICK i \in 1 .. Len(s) : \E g :
          Stands(s, c, i) /\ Flat(s, c.bound.off, mem, g) /\ u = Drop(g[i], c.pos.off)
    BY <1>1, <1>3 DEF UnreadIn
  <2>2. PICK g : Stands(s, c, i) /\ Flat(s, c.bound.off, mem, g) /\ u = Drop(g[i], c.pos.off)
    BY <2>1
  <2> DEFINE x == g[i]
             a == c.pos.off
  <2>3. x \in Seq(Octets) /\ a \in Nat /\ a <= Len(x) /\ u = Drop(x, a)
    BY <1>1, <2>2, StandsBefore
  <2> HIDE DEF x, a, u
  <2>4. Drop(x, a) \in Seq(Octets)
    BY <2>3, Dropped
  <2> QED
    BY <2>3, <2>4 DEF u
<1> QED
  BY <1>2, <1>3

\* What a buffer has to read is in its blocks, their links and its cursor.
LEMMA Stays ==
  ASSUME UNCHANGED <<next, mem>>, NEW b \in Buffers, cur'[b] = cur[b]
  PROVE  Queue(b)' = Queue(b)
BY DEF Queue, Unread, Content

LEMMA Silent ==
  ASSUME UNCHANGED <<next, mem, cur, sent>>
  PROVE  StreamStep
<1>1. \A b \in Buffers : Queue(b)' = Queue(b)
  BY Stays
<1> QED
  BY <1>1, Invisible

LEMMA EmptiedStep ==
  ASSUME NEW b \in Buffers, Queue(b) \in Seq(Octets), Queue(b)' = <<>>,
         \A d \in Buffers \ {b} : Queue(d)' = Queue(d), sent' = sent
  PROVE  StreamStep
<1> DEFINE x == Queue(b)
           n == Len(x)
<1>1. x \in Seq(Octets) /\ n \in Nat /\ n <= Len(x)
  BY OctetFacts
<1>2. Drop(x, n) = <<>>
  <2> HIDE DEF x
  <2>1. Drop(x, n) \in Seq(Octets) /\ Len(Drop(x, n)) = Len(x) - n
    BY <1>1, Dropped
  <2> DEFINE y == Drop(x, n)
  <2>2. y \in Seq(Octets) /\ Len(y) = 0
    BY <1>1, <2>1
  <2> HIDE DEF y
  <2>3. y = <<>>
    BY <2>2
  <2> QED
    BY <2>3 DEF y
<1>3. n \in 0 .. Len(Queue(b)) /\ Queue(b)' = Drop(Queue(b), n)
  BY <1>1, <1>2
<1> HIDE DEF n, x
<1> QED
  BY <1>3, ConsumedStep

-----------------------------------------------------------------------------
(* What each action is to the queues. *)

LEMMA BeginStream ==
  ASSUME TypeOK, RoomIsExact, NEW q \in [Buffers -> Seq(Blocks)], Held(q), NEW b \in Buffers,
         NEW w \in Receiving, Begin(b, w), left' \in [Buffers -> Nat]
  PROVE  StreamStep
<1>1. UNCHANGED <<next, mem, sent>>
  BY DEF Begin
<1>2. CASE head[b] # NoBlock
  BY <1>1, <1>2, Silent DEF Begin
<1>3. CASE head[b] = NoBlock
  <2>1. PICK k \in Blocks \cup {NoBlock} :
          IF k = NoBlock THEN UNCHANGED <<head, cur, pc>>
          ELSE /\ head' = [head EXCEPT ![b] = k]
               /\ cur' = [cur EXCEPT ![b] = [pos |-> At(k, 0), bound |-> At(k, 0)]]
               /\ Go(b, w)
    BY <1>3 DEF Begin
  <2>2. CASE k = NoBlock
    BY <1>1, <2>1, <2>2, Silent
  <2>3. CASE k # NoBlock
    <3> DEFINE e == cur'[b]
    <3>1. k \in Blocks /\ e = [pos |-> At(k, 0), bound |-> At(k, 0)]
          /\ \A d \in Buffers \ {b} : cur'[d] = cur[d]
      BY <2>1, <2>3 DEF TypeOK
    <3>2. \A d \in Buffers \ {b} : Queue(d)' = Queue(d)
      BY <1>1, <3>1, Stays
    <3>3. Queue(b) = <<>>
      <4>1. Along(q[b], head[b], next) /\ Within(q[b], cur[b])
        BY DEF Held, Owned, Reads
      <4> DEFINE s == q[b]
      <4>2. s \in Seq(Blocks) /\ NoBlock \notin Blocks
            /\ NoBlock = IF Len(s) = 0 THEN NoBlock ELSE s[1]
        BY <1>3, <4>1, CollectorAssumption DEF Along
      <4>3. Len(s) = 0
        <5> HIDE DEF s
        <5> QED
          BY <4>2
      <4>4. cur[b].pos = Null
        BY <4>1, <4>3 DEF Within
      <4> QED
        BY <4>4 DEF Queue, Unread
    <3>4. Queue(b)' = <<>>
      <4>1. BuffersInv' /\ \E t \in Seq(Blocks) : Held([q EXCEPT ![b] = t])'
        BY BeginStep
      <4>2. PICK t \in Seq(Blocks) : Held([q EXCEPT ![b] = t])'
        BY <4>1
      <4>3. TypeOK'
        BY <4>1 DEF BuffersInv
      <4>4. UnreadIn(t, e, mem', Queue(b)')
        <5>1. \A d \in Buffers \ {b} : cur'[d] = cur[d] /\ \A x \in Members(q[d]) : mem'[x] = mem[x]
          BY <1>1, <3>1
        <5> QED
          BY <4>2, <4>3, <5>1, OthersKeep
      <4>5. Once(t)
        <5> DEFINE r == [q EXCEPT ![b] = t]
        <5>1. Held(r)' /\ r[b] = t
          BY <4>2
        <5> HIDE DEF r
        <5> QED
          BY <5>1 DEF Held, Owned, Along
      <4>6. e.pos = At(k, 0) /\ e.bound = At(k, 0) /\ e.pos # Null
            /\ e.pos.block = k /\ e.bound.block = k /\ e.pos.off = 0 /\ e.bound.off = 0
        BY <3>1, CollectorAssumption DEF At, Null
      <4> DEFINE v == Queue(b)'
      <4> HIDE DEF e
      <4>7. PICK i \in 1 .. Len(t) : \E g :
              Stands(t, e, i) /\ Flat(t, 0, mem', g) /\ v = Drop(g[i], 0)
        BY <4>4, <4>6 DEF UnreadIn
      <4>8. PICK g : Stands(t, e, i) /\ Flat(t, 0, mem', g) /\ v = Drop(g[i], 0)
        BY <4>7
      <4>9. i = Len(t)
        <5>1. t[i] = t[Len(t)] /\ Len(t) \in 1 .. Len(t)
          BY <4>6, <4>8 DEF Stands
        <5> QED
          BY <4>5, <5>1 DEF Once
      <4>10. g[i] = <<>>
        <5>1. g[i] = SubSeq(mem'[t[Len(t)]], 1, 0)
          BY <4>8, <4>9 DEF Flat
        <5> QED
          BY <5>1, SubSeqEmpty
      <4>11. Drop(<<>>, 0) = <<>>
        BY SubSeqEmpty DEF Drop
      <4> QED
        BY <4>8, <4>10, <4>11
    <3> QED
      BY <1>1, <3>2, <3>3, <3>4, Invisible
  <2> QED
    BY <2>2, <2>3
<1> QED
  BY <1>2, <1>3

LEMMA GiveStream ==
  ASSUME TypeOK, RoomIsExact, NEW q \in [Buffers -> Seq(Blocks)], Held(q), NEW b \in Buffers,
         Give(b)
  PROVE  StreamStep
<1>1. /\ cur' = cur \/ cur' = [cur EXCEPT ![b] = copy[b]]
      /\ copy[b] # NoCursor /\ UNCHANGED <<next, mem, sent>>
  BY DEF Give
<1>2. CASE cur' = cur
  BY <1>1, <1>2, Silent
<1>3. CASE cur' = [cur EXCEPT ![b] = copy[b]]
  <2>1. Queue(b) \in Seq(Octets)
    BY QueueBytes
  <2>2. cur'[b] = copy[b] /\ \A d \in Buffers \ {b} : cur'[d] = cur[d]
    BY <1>3 DEF TypeOK
  <2>3. \A d \in Buffers \ {b} : Queue(d)' = Queue(d)
    BY <1>1, <2>2, Stays
  <2> DEFINE s == q[b]
             c == cur[b]
             d == copy[b]
             u == Queue(b)
             v == Queue(b)'
  <2>4. /\ s \in Seq(Blocks) /\ Once(s) /\ c \in Cursors /\ d \in Cursors /\ mem \in Memories
        /\ d.bound = c.bound /\ (d.pos # Null => c.pos # Null /\ NotBefore(s, c, d))
    BY <1>1 DEF Held, Owned, Along, Reads, TypeOK, Memories
  <2>5. UnreadIn(s, c, mem, u) /\ UnreadIn(s, d, mem, v)
    <3>1. BuffersInv' /\ Held(q)'
      BY GiveStep
    <3>2. TypeOK' /\ [q EXCEPT ![b] = q[b]] = q
      BY <3>1 DEF BuffersInv
    <3>3. \A x \in Buffers \ {b} : cur'[x] = cur[x] /\ \A k \in Members(q[x]) : mem'[k] = mem[k]
      BY <1>1, <2>2
    <3>4. Held([q EXCEPT ![b] = s])'
      BY <3>1, <3>2
    <3>5. UnreadIn(s, c, mem, u) /\ UnreadIn(s, cur'[b], mem', v)
      BY <2>4, <3>2, <3>3, <3>4, OthersKeep
    <3> QED
      BY <1>1, <2>2, <3>5
  <2> HIDE DEF s, c, d, u, v
  <2>6. CASE d.pos = Null
    <3>1. v = <<>>
      BY <2>5, <2>6 DEF UnreadIn
    <3> QED
      BY <1>1, <2>1, <2>3, <3>1, EmptiedStep DEF v
  <2>7. CASE d.pos # Null
    <3>1. PICK i \in 1 .. Len(s) : \E g :
            Stands(s, c, i) /\ Flat(s, c.bound.off, mem, g) /\ u = Drop(g[i], c.pos.off)
      BY <2>4, <2>5, <2>7 DEF UnreadIn
    <3>2. PICK g : Stands(s, c, i) /\ Flat(s, c.bound.off, mem, g) /\ u = Drop(g[i], c.pos.off)
      BY <3>1
    <3>3. PICK j \in 1 .. Len(s) : \E h :
            Stands(s, d, j) /\ Flat(s, c.bound.off, mem, h) /\ v = Drop(h[j], d.pos.off)
      BY <2>4, <2>5, <2>7 DEF UnreadIn
    <3>4. PICK h : Stands(s, d, j) /\ Flat(s, c.bound.off, mem, h) /\ v = Drop(h[j], d.pos.off)
      BY <3>3
    <3>5. h[j] = g[j]
      <4>1. Agree(s, mem, mem) /\ Len(s) >= 1
        BY <2>4 DEF Agree
      <4> DEFINE o == c.bound.off
      <4>2. Flat(s, o, mem, g) /\ Flat(s, o, mem, h)
        BY <3>2, <3>4
      <4> HIDE DEF o
      <4>3. \A x \in 1 .. Len(s) : h[x] = g[x]
        BY <2>4, <4>1, <4>2, SameFlat
      <4> QED
        BY <4>3
    <3>6. \E n \in 0 .. Len(u) : Drop(g[j], d.pos.off) = Drop(u, n)
      BY <2>4, <2>7, <3>2, <3>4, ReadLess
    <3>7. PICK n \in 0 .. Len(u) : v = Drop(u, n)
      BY <3>4, <3>5, <3>6
    <3>8. n \in 0 .. Len(Queue(b)) /\ Queue(b)' = Drop(Queue(b), n)
      BY <3>7 DEF u, v
    <3> QED
      BY <1>1, <2>1, <2>3, <3>8, ConsumedStep
  <2> QED
    BY <2>6, <2>7
<1> QED
  BY <1>1, <1>2, <1>3

LEMMA ResetStream ==
  ASSUME TypeOK, RoomIsExact, NEW q \in [Buffers -> Seq(Blocks)], Held(q), NEW b \in Buffers,
         Reset(b)
  PROVE  StreamStep
<1>1. cur' = [cur EXCEPT ![b] = NullCursor] /\ UNCHANGED <<next, mem, sent>>
  BY DEF Reset
<1>2. cur'[b] = NullCursor /\ \A d \in Buffers \ {b} : cur'[d] = cur[d]
  BY <1>1 DEF TypeOK
<1>3. \A d \in Buffers \ {b} : Queue(d)' = Queue(d)
  BY <1>1, <1>2, Stays
<1>4. Queue(b)' = <<>>
  <2>1. cur'[b].pos = Null
    BY <1>2 DEF NullCursor
  <2> QED
    BY <2>1 DEF Queue, Unread
<1>5. Queue(b) \in Seq(Octets)
  BY QueueBytes
<1> QED
  BY <1>1, <1>3, <1>4, <1>5, EmptiedStep

\* Bytes in the last block are received.
LEMMA FillStream ==
  ASSUME TypeOK, RoomIsExact, NEW q \in [Buffers -> Seq(Blocks)], Held(q), NEW b \in Buffers,
         pc[b] \in Receiving, NEW n \in 0 .. Room(b), Write(b, n),
         cur' = [cur EXCEPT ![b].bound.off = @ + n],
         UNCHANGED <<collectorVars, head, next, copy>>,
         pc' = pc \/ Go(b, "idle"), left' \in [Buffers -> Nat]
  PROVE  StreamStep
<1>1. /\ BuffersInv' /\ Held(q)' /\ Only(b) /\ cur'[b].pos = cur[b].pos
      /\ cur'[b].bound = At(cur[b].bound.block, cur[b].bound.off + n)
  BY Filled
<1>2. TypeOK'
  BY <1>1 DEF BuffersInv
<1>3. /\ cur[b].bound.block \in Blocks /\ cur[b].bound.off \in 0 .. Cap /\ Room(b) \in 0 .. Cap
      /\ Cap \in Nat
  BY BoundLast, CursorTypes
<1>4. n \in Nat /\ cur[b].bound.off + n <= Cap /\ n \in 0 .. Ring
  <2> DEFINE o == cur[b].bound.off
  <2>1. o \in Nat /\ Cap \in Nat /\ Ring \in Nat /\ Cap <= Ring /\ n \in Nat /\ n <= Cap - o
    BY <1>3, BuffersAssumption DEF Room
  <2> HIDE DEF o
  <2>2. n \in Nat /\ o + n <= Cap /\ n \in 0 .. Ring
    BY <2>1
  <2> QED
    BY <2>2 DEF o
<1>5. Wrote(b, n)
  BY <1>3, <1>4, WriteWrote
<1>6. /\ Queue(b)' = Queue(b) \o Peer(b, n)
      /\ \A d \in Buffers \ {b} : Queue(d)' = Queue(d)
  BY <1>1, <1>2, <1>4, <1>5, FilledReads
<1>7. sent' = [sent EXCEPT ![b] = (@ + n) % Ring]
  BY DEF Write
<1>8. Queue(b) \in Seq(Octets)
  BY QueueBytes
<1> QED
  BY <1>4, <1>6, <1>7, <1>8, ReceivedStep

LEMMA BytesLastStream ==
  ASSUME TypeOK, RoomIsExact, NEW q \in [Buffers -> Seq(Blocks)], Held(q), NEW b \in Buffers,
         BytesLast(b)
  PROVE  StreamStep
<1>1. Typed /\ pc[b] \in Receiving
  BY TypesOf DEF BytesLast, Receiving
<1>2. Room(b) \in 0 .. Cap /\ Cap \in Nat
  BY <1>1, BoundLast, CursorTypes
<1>3. left[b] \in 0 .. Room(b) /\ left' \in [Buffers -> Nat]
  BY <1>1, <1>2 DEF BytesLast, Typed
<1>4. /\ Write(b, left[b]) /\ cur' = [cur EXCEPT ![b].bound.off = @ + left[b]]
      /\ UNCHANGED <<collectorVars, head, next, copy>> /\ Go(b, "idle")
  BY DEF BytesLast
<1> QED
  BY <1>1, <1>3, <1>4, FillStream

LEMMA RecvStream ==
  ASSUME TypeOK, RoomIsExact, NEW q \in [Buffers -> Seq(Blocks)], Held(q), NEW b \in Buffers,
         Recv(b)
  PROVE  StreamStep
<1>1. Typed /\ pc[b] \in Receiving
  BY TypesOf DEF Recv, Receiving
<1>2. Room(b) \in 0 .. Cap /\ Cap \in Nat
  BY <1>1, BoundLast, CursorTypes
<1>3. PICK n \in 1 .. Room(b) : Write(b, n) /\ cur' = [cur EXCEPT ![b].bound.off = @ + n]
  BY DEF Recv
<1>4. n \in 0 .. Room(b)
  BY <1>2
<1>5. UNCHANGED <<collectorVars, head, next, copy>> /\ pc' = pc /\ left' = left
  BY DEF Recv
<1> QED
  BY <1>1, <1>3, <1>4, <1>5, FillStream DEF Typed

\* So are bytes up to the End of the last block, behind which a new one is linked.
LEMMA GrowStream ==
  ASSUME TypeOK, RoomIsExact, NEW q \in [Buffers -> Seq(Blocks)], Held(q), NEW b \in Buffers,
         pc[b] \in Receiving, NEW k \in Blocks, Get(k), Link(b, k),
         cur' = [cur EXCEPT ![b].bound = At(k, 0)], UNCHANGED <<head, copy, pc>>,
         mem' \in Memories, left' \in [Buffers -> Nat], sent' \in [Buffers -> 0 .. Ring - 1],
         NEW n, n = Room(b), Wrote(b, n), sent' = [sent EXCEPT ![b] = (@ + n) % Ring]
  PROVE  StreamStep
<1>1. /\ BuffersInv' /\ Held([q EXCEPT ![b] = Append(q[b], k)])' /\ Only(b)
      /\ cur'[b].pos = cur[b].pos /\ cur'[b].bound = At(k, 0)
  BY Grown DEF Memories
<1>2. TypeOK'
  BY <1>1 DEF BuffersInv
<1>3. n \in Nat /\ n \in 0 .. Ring
  <2>1. n \in 0 .. Cap
    BY BoundLast
  <2>2. Cap \in Nat /\ Ring \in Nat /\ Cap <= Ring
    BY BuffersAssumption
  <2> QED
    BY <2>1, <2>2
<1>4. /\ Queue(b)' = Queue(b) \o Peer(b, n)
      /\ \A d \in Buffers \ {b} : Queue(d)' = Queue(d)
  BY <1>1, <1>2, <1>3, GrownReads
<1>5. Queue(b) \in Seq(Octets)
  BY QueueBytes
<1> QED
  BY <1>3, <1>4, <1>5, ReceivedStep

LEMMA BytesGrowStream ==
  ASSUME TypeOK, RoomIsExact, NEW q \in [Buffers -> Seq(Blocks)], Held(q), NEW b \in Buffers,
         BytesGrow(b)
  PROVE  StreamStep
<1>1. Typed /\ pc[b] \in Receiving
  BY TypesOf DEF BytesGrow, Receiving
<1>2. /\ Room(b) \in 0 .. Cap /\ Cap \in Nat /\ cur[b].bound.block \in Blocks
      /\ cur[b].bound.off \in 0 .. Cap
  BY <1>1, BoundLast, CursorTypes
<1>3. PICK k \in Blocks \cup {NoBlock} :
        /\ Get(k)
        /\ IF k = NoBlock
             THEN Go(b, "idle") /\ UNCHANGED <<next, mem, cur, left, sent>>
             ELSE /\ Write(b, Room(b))
                  /\ left' = [left EXCEPT ![b] = @ - Room(b)]
                  /\ Link(b, k)
                  /\ cur' = [cur EXCEPT ![b].bound = At(k, 0)]
                  /\ UNCHANGED pc
  BY DEF BytesGrow
<1>4. UNCHANGED <<head, copy>> /\ left[b] > Room(b)
  BY DEF BytesGrow
<1>5. CASE k = NoBlock
  BY <1>3, <1>5, Silent
<1>6. CASE k # NoBlock
  <2>1. left' \in [Buffers -> Nat]
    <3>1. left[b] \in Nat /\ left[b] - Room(b) \in Nat
      BY <1>1, <1>2, <1>4 DEF Typed
    <3> QED
      BY <1>1, <1>3, <1>6, <3>1 DEF Typed
  <2>2. mem' \in Memories /\ sent' \in [Buffers -> 0 .. Ring - 1]
    <3>1. Room(b) \in Nat
      BY <1>2
    <3> QED
      BY <1>2, <1>3, <1>6, <3>1, Written DEF Memories
  <2> DEFINE n == Room(b)
  <2>3. n \in Nat /\ cur[b].bound.off + n <= Cap /\ Write(b, n)
    BY <1>2, <1>3, <1>6 DEF Room
  <2>4. sent' = [sent EXCEPT ![b] = (@ + n) % Ring]
    BY <2>3 DEF Write
  <2> HIDE DEF n
  <2>5. Wrote(b, n)
    BY <1>2, <2>3, WriteWrote
  <2>6. n = Room(b)
    BY DEF n
  <2> QED
    BY <1>1, <1>3, <1>4, <1>6, <2>1, <2>2, <2>4, <2>5, <2>6, GrowStream
<1> QED
  BY <1>5, <1>6

\* In ReadConnection the block is full, and a new one is linked for nothing yet.
LEMMA ConnectionGrowStream ==
  ASSUME TypeOK, RoomIsExact, NEW q \in [Buffers -> Seq(Blocks)], Held(q), NEW b \in Buffers,
         ConnectionGrow(b)
  PROVE  StreamStep
<1>1. Typed /\ pc[b] \in Receiving
  BY TypesOf DEF ConnectionGrow, Receiving
<1>2. PICK k \in Blocks \cup {NoBlock} :
        /\ Get(k)
        /\ IF k = NoBlock
             THEN Go(b, "idle") /\ UNCHANGED <<next, cur>>
             ELSE /\ Link(b, k)
                  /\ cur' = [cur EXCEPT ![b].bound = At(k, 0)]
                  /\ UNCHANGED pc
  BY DEF ConnectionGrow
<1>3. UNCHANGED <<head, mem, copy, left, sent>> /\ Room(b) = 0
  BY DEF ConnectionGrow
<1>4. CASE k = NoBlock
  BY <1>2, <1>3, <1>4, Silent
<1>5. CASE k # NoBlock
  <2>1. sent \in [Buffers -> 0 .. Ring - 1] /\ Ring \in Nat \ {0} /\ sent[b] \in Nat
        /\ sent[b] < Ring
    <3>1. sent \in [Buffers -> 0 .. Ring - 1] /\ Ring \in Nat \ {0}
      BY BuffersAssumption DEF TypeOK
    <3> QED
      BY <3>1
  <2>2. mem' \in Memories /\ left' \in [Buffers -> Nat] /\ sent' \in [Buffers -> 0 .. Ring - 1]
    BY <1>1, <1>3 DEF Typed, Memories
  <2>3. sent' = [sent EXCEPT ![b] = (@ + 0) % Ring]
    <3> DEFINE a == sent[b]
    <3>1. a \in Nat /\ a < Ring /\ Ring \in Nat \ {0} /\ a + 0 = a
      BY <2>1
    <3> HIDE DEF a
    <3>2. (a + 0) % Ring = a
      BY <3>1, Divided
    <3>3. (sent[b] + 0) % Ring = sent[b]
      BY <3>2 DEF a
    <3> QED
      BY <1>3, <2>1, <3>3
  <2>4. Wrote(b, 0)
    <3> DEFINE p == Peer(b, 0)
               w == mem[cur[b].bound.block]
               o == cur[b].bound.off
               x == SubSeq(w, 1, o)
    <3>1. p \in Seq(Octets) /\ Len(p) = 0
      BY <2>1, PeerBytes
    <3>2. p = <<>>
      <4> HIDE DEF p
      <4> QED
        BY <3>1
    <3>3. cur[b].bound.block \in Blocks /\ o \in 0 .. Cap /\ Cap \in Nat /\ mem \in Memories
      BY <1>1, BoundLast, BuffersAssumption DEF TypeOK, Memories
    <3>4. w \in Seq(Octets) /\ Len(w) = Cap
      BY <3>3, BlockBytes
    <3>5. x \in Seq(Octets)
      <4> HIDE DEF w, o
      <4> QED
        BY <3>3, <3>4
    <3>6. x \o <<>> = x
      <4> HIDE DEF x
      <4> QED
        BY <3>5, OctetFacts
    <3>7. o + 0 = o
      BY <3>3
    <3>8. mem' = mem
      BY <1>3
    <3>9. SubSeq(w, 1, o + 0) = x \o p
      BY <3>2, <3>6, <3>7
    <3> QED
      BY <3>8, <3>9 DEF Wrote
  <2>5. 0 = Room(b)
    BY <1>3
  <2>6. k \in Blocks /\ Get(k) /\ Link(b, k) /\ cur' = [cur EXCEPT ![b].bound = At(k, 0)]
        /\ UNCHANGED <<head, copy, pc>>
    BY <1>2, <1>3, <1>5
  <2> QED
    BY <1>1, <2>2, <2>3, <2>4, <2>5, <2>6, GrowStream
<1> QED
  BY <1>4, <1>5

\* A block that was read is given back: nothing changes.
LEMMA CollectStream ==
  ASSUME TypeOK, RoomIsExact, NEW q \in [Buffers -> Seq(Blocks)], Held(q), NEW b \in Buffers,
         Collect(b)
  PROVE  StreamStep
<1>1. UNCHANGED <<cur, sent>>
  BY DEF Collect
<1>2. CASE head[b] \in {NoBlock, Read(b)}
  <2>1. UNCHANGED <<next, mem>>
    BY <1>2 DEF Collect
  <2> QED
    BY <1>1, <2>1, Silent
<1>3. CASE head[b] \notin {NoBlock, Read(b)}
  <2> DEFINE s == q[b]
             k == head[b]
             c == cur[b]
             t == Tail(s)
             u == Queue(b)
             v == Queue(b)'
  <2>1. /\ mem' = [mem EXCEPT ![k] = [i \in 1 .. Cap |-> Junk]]
        /\ k # NoBlock /\ k # c.pos.block
    BY <1>3 DEF Collect, Read
  <2>2. k \in Blocks /\ k \in Members(s) /\ Len(s) >= 1 /\ k = s[1] /\ s \in Seq(Blocks) /\ Once(s)
    <3>1. next \in [Blocks -> Blocks \cup {NoBlock}] /\ Along(s, k, next) /\ s \in Seq(Blocks)
          /\ Once(s)
      BY DEF TypeOK, Held, Owned, Along
    <3> HIDE DEF s, k
    <3> QED
      BY <2>1, <3>1, AlongShrinks
  <2>3. \A x \in Blocks \ {k} : mem'[x] = mem[x]
    BY <2>1 DEF TypeOK
  <2>4. \A d \in Buffers \ {b} : cur'[d] = cur[d] /\ \A x \in Members(q[d]) : mem'[x] = mem[x]
    <3>1. ASSUME NEW d \in Buffers \ {b}, NEW x \in Members(q[d]) PROVE mem'[x] = mem[x]
      <4>1. Members(s) \cap Members(q[d]) = {} /\ q[d] \in Seq(Blocks)
        BY DEF Held, Owned
      <4>2. x \in Blocks
        BY <4>1 DEF Members
      <4>3. x # k
        BY <2>2, <4>1
      <4> QED
        BY <2>3, <4>2, <4>3
    <3> QED
      BY <1>1, <3>1
  <2>5. BuffersInv' /\ Held([q EXCEPT ![b] = t])'
    BY <1>3, CollectStep
  <2>6. TypeOK' /\ t \in Seq(Blocks)
    BY <2>2, <2>5 DEF BuffersInv
  <2>7. /\ UnreadIn(s, c, mem, u) /\ UnreadIn(t, c, mem', v)
        /\ \A d \in Buffers \ {b} : Queue(d)' = Queue(d)
    <3>1. cur'[b] = c
      BY <1>1
    <3>2. /\ UnreadIn(q[b], cur[b], mem, Queue(b)) /\ UnreadIn(t, cur'[b], mem', Queue(b)')
          /\ \A d \in Buffers \ {b} : Queue(d)' = Queue(d)
      <4> HIDE DEF t
      <4> QED
        BY <2>4, <2>5, <2>6, OthersKeep
    <3> QED
      BY <3>1, <3>2
  <2>8. c \in Cursors /\ mem \in Memories /\ (c.pos # Null => c.pos.block # s[1])
    BY <2>1, <2>2 DEF TypeOK, Memories
  <2>9. AgreeBehind(s, mem, mem')
    <3>1. Members(s) \subseteq Blocks
      BY <2>2 DEF Members
    <3> QED
      BY <2>2, <2>3, <3>1 DEF AgreeBehind
  <2>10. UnreadIn(Tail(s), c, mem', v)
    BY <2>7
  <2> HIDE DEF s, k, c, t, u, v
  <2>11. u = v
    BY <2>2, <2>7, <2>8, <2>9, <2>10, ReadOfTail
  <2>12. \A d \in Buffers : Queue(d)' = Queue(d)
    BY <2>7, <2>11 DEF u, v
  <2> QED
    BY <1>1, <2>12, Invisible
<1> QED
  BY <1>2, <1>3

LEMMA StreamsStart == Init => Streams!StreamInit
<1> SUFFICES ASSUME Init PROVE Streams!StreamInit
  OBVIOUS
<1>1. ASSUME NEW b \in Buffers PROVE Unread(cur[b]) = <<>>
  <2>1. cur[b].pos = Null
    BY DEF Init, NullCursor
  <2> QED
    BY <2>1 DEF Unread
<1>2. sent = [b \in Buffers |-> 0]
  BY DEF Init
<1> QED
  BY <1>1, <1>2 DEF Streams!StreamInit

LEMMA StreamsStep == BuffersInv /\ [Next]_vars => StreamStep
<1> SUFFICES ASSUME BuffersInv, [Next]_vars PROVE StreamStep
  OBVIOUS
<1>1. TypeOK /\ RoomIsExact
  BY DEF BuffersInv
<1>2. PICK q \in [Buffers -> Seq(Blocks)] : Held(q)
  BY DEF BuffersInv
<1>3. CASE UNCHANGED vars
  <2>1. UNCHANGED <<next, mem, cur, sent>>
    BY <1>3 DEF vars, bufferVars
  <2> QED
    BY <2>1, Silent
<1>4. ASSUME NEW b \in Buffers,
             \/ ReadBytes(b) \/ BytesGrow(b) \/ BytesLast(b)
             \/ ReadConnection(b) \/ ConnectionGrow(b) \/ Recv(b) \/ RecvEnds(b)
             \/ Take(b) \/ Advance(b) \/ IsEmpty(b) \/ Give(b)
             \/ Reset(b) \/ GC(b) \/ Collect(b)
      PROVE  StreamStep
  <2>1. CASE ReadBytes(b)
    <3>1. left' \in [Buffers -> Nat]
      BY <1>1, <2>1, BuffersAssumption DEF ReadBytes, TypeOK
    <3>2. "bytes" \in Receiving /\ Begin(b, "bytes")
      BY <2>1 DEF ReadBytes, Receiving
    <3> QED
      BY <1>1, <1>2, <3>1, <3>2, BeginStream
  <2>2. CASE ReadConnection(b)
    <3>1. left' \in [Buffers -> Nat]
      BY <1>1, <2>2 DEF ReadConnection, TypeOK
    <3>2. "connection" \in Receiving /\ Begin(b, "connection")
      BY <2>2 DEF ReadConnection, Receiving
    <3> QED
      BY <1>1, <1>2, <3>1, <3>2, BeginStream
  <2>3. CASE RecvEnds(b) \/ GC(b) \/ Take(b) \/ Advance(b) \/ IsEmpty(b)
    <3>1. UNCHANGED <<next, mem, cur, sent>>
      BY <2>3 DEF RecvEnds, GC, Take, Advance, IsEmpty
    <3> QED
      BY <3>1, Silent
  <2>4. CASE BytesGrow(b)
    BY <1>1, <1>2, <2>4, BytesGrowStream
  <2>5. CASE BytesLast(b)
    BY <1>1, <1>2, <2>5, BytesLastStream
  <2>6. CASE ConnectionGrow(b)
    BY <1>1, <1>2, <2>6, ConnectionGrowStream
  <2>7. CASE Recv(b)
    BY <1>1, <1>2, <2>7, RecvStream
  <2>8. CASE Give(b)
    BY <1>1, <1>2, <2>8, GiveStream
  <2>9. CASE Reset(b)
    BY <1>1, <1>2, <2>9, ResetStream
  <2>10. CASE Collect(b)
    BY <1>1, <1>2, <2>10, CollectStream
  <2> QED
    BY <1>4, <2>1, <2>2, <2>3, <2>4, <2>5, <2>6, <2>7, <2>8, <2>9, <2>10
<1> QED
  BY <1>3, <1>4 DEF Next

\* Every buffer is a queue of bytes: whatever blocks it takes from and gives back
\* to the collector it shares, bytes are received at the end and consumed at the
\* front, in order, each once, and no step of another buffer is seen in it.
THEOREM BuffersAreQueues == Spec => ImplementsStreams
<1>1. Spec => []BuffersInv
  BY BuffersInvariant
<1>2. Init => Streams!StreamInit
  BY StreamsStart
<1>3. BuffersInv /\ [Next]_vars => [Streams!StreamNext]_<<Queues, sent>>
  BY StreamsStep DEF StreamStep
<1> QED
  BY <1>1, <1>2, <1>3, PTL DEF Spec, ImplementsStreams, Streams!StreamSpec, Queues

================================================================================
