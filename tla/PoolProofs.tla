------------------------------ MODULE PoolProofs ------------------------------
(***************************************************************************)
(* Proofs about Pool, for any number of pointers and blocks, and any sizes *)
(* of blocks and requests.                                                 *)
(***************************************************************************)
EXTENDS Pool, FiniteSetTheorems, WellFoundedInduction, SequenceTheorems, TLAPS

\* Induction over the natural numbers, as a fact about sets.
LEMMA SetInduction ==
  ASSUME NEW S, 0 \in S, \A n \in Nat : n \in S => n + 1 \in S
  PROVE  Nat \subseteq S
<1> DEFINE less == {p \in Nat \X Nat : p[1] < p[2]}
           T == Nat \ S
<1>1. IsWellFoundedOn(less, Nat)
  BY NatLessThanWellFounded, SMT DEF OpToRel
<1>2. SUFFICES ASSUME T # {} PROVE FALSE
  OBVIOUS
<1>3. T \subseteq Nat
  OBVIOUS
<1>4. PICK m \in T : \A k \in T : <<k, m>> \notin less
  <2> HIDE DEF T, less
  <2> QED
    BY <1>1, <1>2, <1>3, WFMin
<1>5. m \in Nat /\ m # 0 /\ m - 1 \in Nat
  OBVIOUS
<1>6. m - 1 \notin T
  <2>1. <<m - 1, m>> \in less
    BY <1>5
  <2> QED
    BY <1>4, <2>1
<1> QED
  BY <1>5, <1>6

-----------------------------------------------------------------------------
(* What collect() keeps. *)

Members(s) == {s[i] : i \in 1 .. Len(s)}
Once(s) == \A i, j \in 1 .. Len(s) : s[i] = s[j] => i = j

\* f[i] is what the loop of collect() has linked after i blocks of c.
LinkedUpTo(c, r, n, f) ==
  f = [i \in 0 .. n |->
         IF i = 0 THEN <<>>
         ELSE IF r[c[i]] # 0 THEN Append(f[i - 1], c[i]) ELSE f[i - 1]]

LEMMA LinkedExists ==
  ASSUME NEW c, NEW r, NEW n \in Nat
  PROVE  \E f : LinkedUpTo(c, r, n, f)
<1> DEFINE S == {m \in Nat : \E f : LinkedUpTo(c, r, m, f)}
<1>1. 0 \in S
  <2> DEFINE f == [i \in 0 .. 0 |-> <<>>]
  <2>1. LinkedUpTo(c, r, 0, f)
    BY DEF LinkedUpTo
  <2> QED
    BY <2>1
<1>2. ASSUME NEW m \in Nat, m \in S PROVE m + 1 \in S
  <2>1. PICK f : LinkedUpTo(c, r, m, f)
    BY <1>2
  <2> DEFINE e == IF r[c[m + 1]] # 0 THEN Append(f[m], c[m + 1]) ELSE f[m]
             g == [i \in 0 .. m + 1 |-> IF i = m + 1 THEN e ELSE f[i]]
             h == [i \in 0 .. m + 1 |->
                     IF i = 0 THEN <<>>
                     ELSE IF r[c[i]] # 0 THEN Append(g[i - 1], c[i]) ELSE g[i - 1]]
  <2>2. \A i \in 0 .. m : f[i] = IF i = 0 THEN <<>>
                                 ELSE IF r[c[i]] # 0 THEN Append(f[i - 1], c[i]) ELSE f[i - 1]
    BY <2>1 DEF LinkedUpTo
  <2>3. ASSUME NEW i \in 0 .. m + 1 PROVE g[i] = h[i]
    <3>1. CASE i = m + 1
      <4>1. g[m] = f[m] /\ i # 0 /\ i - 1 = m
        BY <3>1
      <4>2. g[i] = e
        BY <3>1
      <4> HIDE DEF g
      <4> QED
        BY <3>1, <4>1, <4>2
    <3>2. CASE i = 0
      BY <2>2, <3>2
    <3>3. CASE i \in 1 .. m
      <4>1. g[i] = f[i] /\ g[i - 1] = f[i - 1] /\ i \in 0 .. m
        BY <3>3
      <4>2. h[i] = IF r[c[i]] # 0 THEN Append(g[i - 1], c[i]) ELSE g[i - 1]
        BY <3>3
      <4> HIDE DEF g, h
      <4> QED
        BY <2>2, <3>3, <4>1, <4>2
    <3> QED
      BY <3>1, <3>2, <3>3
  <2>4. g = h
    BY <2>3
  <2>5. LinkedUpTo(c, r, m + 1, g)
    <3> HIDE DEF g
    <3> QED
      BY <2>4 DEF LinkedUpTo
  <2> QED
    BY <2>5
<1> HIDE DEF S
<1>3. Nat \subseteq S
  BY <1>1, <1>2, SetInduction
<1> QED
  BY <1>3 DEF S

\* What the loop has linked are the blocks in use among those it has passed, in
\* a list that has none of them twice.
LEMMA LinkedAreInUse ==
  ASSUME NEW c \in Seq(Blocks), Once(c), NEW r, NEW f, LinkedUpTo(c, r, Len(c), f)
  PROVE  /\ f[Len(c)] \in Seq(Blocks) /\ Once(f[Len(c)])
         /\ Members(f[Len(c)]) = {b \in Members(c) : r[b] # 0}
<1> DEFINE Fine(s, n) ==
             /\ s \in Seq(Blocks) /\ Once(s)
             /\ \A b : b \in Members(s) <=> \E j \in 1 .. n : b = c[j] /\ r[b] # 0
           S == {n \in Nat : n <= Len(c) => Fine(f[n], n)}
<1>1. \A i \in 0 .. Len(c) :
        f[i] = IF i = 0 THEN <<>>
               ELSE IF r[c[i]] # 0 THEN Append(f[i - 1], c[i]) ELSE f[i - 1]
  BY DEF LinkedUpTo
<1>2. 0 \in S
  <2>1. f[0] = <<>>
    BY <1>1
  <2>2. <<>> \in Seq(Blocks) /\ Once(<<>>) /\ Members(<<>>) = {}
    BY DEF Once, Members
  <2>3. Fine(<<>>, 0)
    <3>1. 1 .. 0 = {}
      OBVIOUS
    <3> QED
      BY <2>2, <3>1
  <2> HIDE DEF Fine
  <2> QED
    BY <2>1, <2>3
<1>3. ASSUME NEW n \in Nat, n \in S PROVE n + 1 \in S
  <2>1. SUFFICES ASSUME n + 1 <= Len(c) PROVE Fine(f[n + 1], n + 1)
    OBVIOUS
  <2>2. Fine(f[n], n)
    BY <1>3, <2>1
  <2>3. n + 1 \in 1 .. Len(c) /\ c[n + 1] \in Blocks
    BY <2>1
  <2>4. CASE r[c[n + 1]] # 0
    <3> DEFINE s == f[n]
               t == f[n + 1]
    <3>1. t = Append(s, c[n + 1])
      <4>1. n + 1 \in 0 .. Len(c) /\ n + 1 # 0 /\ (n + 1) - 1 = n
        BY <2>3
      <4> QED
        BY <1>1, <2>4, <4>1
    <3>2. s \in Seq(Blocks) /\ Once(s)
          /\ \A b : b \in Members(s) <=> \E j \in 1 .. n : b = c[j] /\ r[b] # 0
      BY <2>2
    <3> HIDE DEF s
    <3>3. /\ t \in Seq(Blocks) /\ Len(t) = Len(s) + 1 /\ t[Len(s) + 1] = c[n + 1]
          /\ \A i \in 1 .. Len(s) : t[i] = s[i]
      BY <2>3, <3>1, <3>2
    <3> HIDE DEF t
    <3>4. \A b : b \in Members(t) <=> b \in Members(s) \/ b = c[n + 1]
      <4>1. Len(s) \in Nat
        BY <3>2
      <4>2. \A b : b \in Members(t) <=> \E i \in 1 .. Len(s) + 1 : b = t[i]
        BY <3>3 DEF Members
      <4>3. \A b : b \in Members(s) <=> \E i \in 1 .. Len(s) : b = s[i]
        BY DEF Members
      <4>4. \A i : i \in 1 .. Len(s) + 1 <=> i \in 1 .. Len(s) \/ i = Len(s) + 1
        BY <4>1
      <4> QED
        BY <3>3, <4>2, <4>3, <4>4
    <3>5. c[n + 1] \notin Members(s)
      <4>1. ASSUME NEW j \in 1 .. n, c[n + 1] = c[j] PROVE FALSE
        BY <2>3, <4>1 DEF Once
      <4> QED
        BY <3>2, <4>1
    <3>6. Once(t)
      <4>1. Len(s) \in Nat
        BY <3>2
      <4> QED
        BY <3>2, <3>3, <3>5, <4>1 DEF Once, Members
    <3>7. \A b : b \in Members(t) <=> \E j \in 1 .. n + 1 : b = c[j] /\ r[b] # 0
      <4>1. \A j : j \in 1 .. n + 1 <=> j \in 1 .. n \/ j = n + 1
        OBVIOUS
      <4> QED
        BY <2>4, <3>2, <3>4, <4>1
    <3> QED
      BY <3>3, <3>6, <3>7 DEF t
  <2>5. CASE r[c[n + 1]] = 0
    <3>1. f[n + 1] = f[n]
      <4>1. n + 1 \in 0 .. Len(c) /\ n + 1 # 0 /\ (n + 1) - 1 = n
        BY <2>3
      <4> QED
        BY <1>1, <2>5, <4>1
    <3>2. \A b : (\E j \in 1 .. n : b = c[j] /\ r[b] # 0)
             <=> (\E j \in 1 .. n + 1 : b = c[j] /\ r[b] # 0)
      <4>1. \A j : j \in 1 .. n + 1 <=> j \in 1 .. n \/ j = n + 1
        OBVIOUS
      <4> QED
        BY <2>5, <4>1
    <3> QED
      BY <2>2, <3>1, <3>2
  <2> QED
    BY <2>4, <2>5
<1>4. Len(c) \in S
  <2>1. Len(c) \in Nat
    OBVIOUS
  <2> HIDE DEF S
  <2> QED
    BY <1>2, <1>3, <2>1, SetInduction
<1>5. Fine(f[Len(c)], Len(c))
  BY <1>4
<1> HIDE DEF S
<1> QED
  BY <1>5 DEF Members

LEMMA KeptFacts ==
  ASSUME NEW c \in Seq(Blocks), Once(c), NEW r
  PROVE  /\ Kept(c, r) \in Seq(Blocks) /\ Once(Kept(c, r))
         /\ Members(Kept(c, r)) = {b \in Members(c) : r[b] # 0}
<1> DEFINE f == CHOOSE f : LinkedUpTo(c, r, Len(c), f)
<1>1. LinkedUpTo(c, r, Len(c), f)
  BY LinkedExists
<1>2. Kept(c, r) = f[Len(c)]
  BY DEF Kept, LinkedUpTo
<1> HIDE DEF f
<1> QED
  BY <1>1, <1>2, LinkedAreInUse

-----------------------------------------------------------------------------
(* The inductive invariant, as a relation between the chain, the usage and *)
(* the counts of its blocks and the pointers that are out, so that it can  *)
(* be followed through a request that takes several steps.                 *)

Pointers == [block : Blocks \cup {NoBlock}, at : Nat, size : Nat]
Into(b, p) == {h \in Handles : p[h].block = b}
Behind(x, y) == x.at + x.size <= y.at

PoolTypes(c, u, r, p) ==
  /\ c \in Seq(Blocks) /\ Once(c)
  /\ u \in [Blocks -> 0 .. BlockSize - 1] /\ r \in [Blocks -> Int]
  /\ p \in [Handles -> Pointers]

Counted(c, r, p) == \A b \in Members(c) : r[b] = Cardinality(Into(b, p))

PointersLead(c, u, p) ==
  \A h \in Handles : p[h].block # NoBlock =>
    p[h].block \in Members(c) /\ p[h].at + p[h].size <= u[p[h].block]

Apart(p) ==
  \A g, h \in Handles :
    g # h /\ p[g].block = p[h].block /\ p[h].block # NoBlock =>
      Behind(p[g], p[h]) \/ Behind(p[h], p[g])

Sound(c, u, r, p) ==
  PoolTypes(c, u, r, p) /\ Counted(c, r, p) /\ PointersLead(c, u, p) /\ Apart(p)

LEMMA IntoFinite == \A b, p : IsFiniteSet(Into(b, p)) /\ Cardinality(Into(b, p)) \in Nat
<1> SUFFICES ASSUME NEW b, NEW p PROVE IsFiniteSet(Into(b, p)) /\ Cardinality(Into(b, p)) \in Nat
  OBVIOUS
<1>1. Into(b, p) \in SUBSET Handles
  BY DEF Into
<1> QED
  BY <1>1, PoolAssumption, FS_Subset, FS_CardinalityType

\* p and q differ at most in what h points to.
OnlyMoves(h, p, q) == \A g \in Handles \ {h} : q[g] = p[g]

\* A pointer that led nowhere, or elsewhere, leads into block b now.
LEMMA IntoGrows ==
  ASSUME NEW p, NEW q, NEW h \in Handles, NEW b, OnlyMoves(h, p, q),
         p[h].block # b, q[h].block = b
  PROVE  Cardinality(Into(b, q)) = Cardinality(Into(b, p)) + 1
<1>1. Into(b, q) = Into(b, p) \cup {h} /\ h \notin Into(b, p)
  BY DEF Into, OnlyMoves
<1>2. IsFiniteSet(Into(b, p))
  BY IntoFinite
<1>3. Cardinality(Into(b, p) \cup {h}) = Cardinality(Into(b, p)) + 1
  BY <1>1, <1>2, FS_AddElement
<1> QED
  BY <1>1, <1>3

\* A pointer into block b leads elsewhere now, or nowhere.
LEMMA IntoShrinks ==
  ASSUME NEW p, NEW q, NEW h \in Handles, NEW b, OnlyMoves(h, p, q),
         p[h].block = b, q[h].block # b
  PROVE  Cardinality(Into(b, q)) = Cardinality(Into(b, p)) - 1
<1>1. Into(b, q) = Into(b, p) \ {h} /\ h \in Into(b, p)
  BY DEF Into, OnlyMoves
<1>2. IsFiniteSet(Into(b, p))
  BY IntoFinite
<1>3. Cardinality(Into(b, p) \ {h}) = Cardinality(Into(b, p)) - 1
  BY <1>1, <1>2, FS_RemoveElement
<1> QED
  BY <1>1, <1>3

\* Neither before nor now does the pointer that changes lead into block b.
LEMMA IntoStays ==
  ASSUME NEW p, NEW q, NEW h \in Handles, NEW b, OnlyMoves(h, p, q),
         p[h].block # b, q[h].block # b
  PROVE  Into(b, q) = Into(b, p)
BY DEF Into, OnlyMoves

\* The block's allocate, on any block of the chain with room for the request.
LEMMA TakeSound ==
  ASSUME NEW c, NEW u, NEW r, NEW p, Sound(c, u, r, p),
         NEW h \in Handles, p[h] = NoPointer, NEW b \in Members(c), NEW n \in Nat, Fits(b, u, n)
  PROVE  Sound(c, [u EXCEPT ![b] = @ + n], [r EXCEPT ![b] = @ + 1],
               [p EXCEPT ![h] = [block |-> b, at |-> u[b], size |-> n]])
<1> DEFINE x == [block |-> b, at |-> u[b], size |-> n]
           v == [u EXCEPT ![b] = @ + n]
           s == [r EXCEPT ![b] = @ + 1]
           q == [p EXCEPT ![h] = x]
<1>0. /\ c \in Seq(Blocks) /\ Once(c)
      /\ u \in [Blocks -> 0 .. BlockSize - 1] /\ r \in [Blocks -> Int]
      /\ p \in [Handles -> Pointers] /\ DOMAIN p = Handles
      /\ BlockSize \in Nat /\ NoBlock \notin Blocks
  BY PoolAssumption DEF Sound, PoolTypes
<1>1. b \in Blocks /\ u[b] \in Nat /\ u[b] + n \in 0 .. BlockSize - 1
  <2>1. b \in Blocks
    BY <1>0 DEF Members
  <2> QED
    BY <1>0, <2>1 DEF Fits
<1>2. x.block = b /\ x.at = u[b] /\ x.size = n /\ x \in Pointers
  BY <1>1 DEF Pointers
<1>3. p[h].block = NoBlock /\ p[h].block # b
  BY <1>0, <1>1 DEF NoPointer
<1> HIDE DEF x
<1>4. PoolTypes(c, v, s, q)
  BY <1>0, <1>1, <1>2 DEF PoolTypes
<1>5. OnlyMoves(h, p, q) /\ q[h] = x
  BY <1>0 DEF OnlyMoves
<1>6. Counted(c, s, q)
  <2> HIDE DEF q
  <2>1. ASSUME NEW d \in Members(c) PROVE s[d] = Cardinality(Into(d, q))
    <3>1. d \in Blocks /\ r[d] = Cardinality(Into(d, p))
      BY <1>0 DEF Sound, Counted, Members
    <3>2. CASE d = b
      <4>1. s[d] = r[d] + 1
        BY <1>0, <3>1, <3>2
      <4>2. Cardinality(Into(d, q)) = Cardinality(Into(d, p)) + 1
        BY <1>2, <1>3, <1>5, <3>2, IntoGrows
      <4> QED
        BY <3>1, <4>1, <4>2
    <3>3. CASE d # b
      <4>1. s[d] = r[d]
        BY <1>0, <3>1, <3>3
      <4>2. p[h].block # d
        BY <1>0, <1>3, <3>1
      <4>3. Into(d, q) = Into(d, p)
        BY <1>2, <1>5, <3>3, <4>2, IntoStays
      <4> QED
        BY <3>1, <4>1, <4>3
    <3> QED
      BY <3>2, <3>3
  <2> QED
    BY <2>1 DEF Counted
<1>7. \A d \in Blocks : v[d] = IF d = b THEN u[b] + n ELSE u[d]
  BY <1>0, <1>1
<1>8. ASSUME NEW d \in Blocks PROVE u[d] \in Nat /\ v[d] \in Nat /\ u[d] <= v[d]
  <2>1. u[d] \in Nat
    BY <1>0
  <2> HIDE DEF v
  <2>2. CASE d = b
    BY <1>1, <1>7, <2>1, <2>2
  <2>3. CASE d # b
    BY <1>7, <2>1, <2>3
  <2> QED
    BY <2>2, <2>3
<1>9. \A g \in Handles : p[g].block # NoBlock =>
        /\ p[g].block \in Members(c) /\ p[g].block \in Blocks /\ p[g].at \in Nat /\ p[g].size \in Nat
        /\ p[g].at + p[g].size <= u[p[g].block]
  BY <1>0 DEF Sound, PointersLead, Pointers
<1> HIDE DEF q, v
<1>10. \A g \in Handles : g # h => q[g] = p[g]
  BY <1>5 DEF OnlyMoves
<1>11. PointersLead(c, v, q)
  <2>1. ASSUME NEW g \in Handles, q[g].block # NoBlock
        PROVE  q[g].block \in Members(c) /\ q[g].at + q[g].size <= v[q[g].block]
    <3>1. CASE g = h
      BY <1>1, <1>2, <1>5, <1>7, <3>1
    <3>2. CASE g # h
      <4>1. q[g] = p[g] /\ p[g].block # NoBlock
        BY <1>10, <2>1, <3>2
      <4>2. u[p[g].block] <= v[p[g].block] /\ u[p[g].block] \in Nat /\ v[p[g].block] \in Nat
        BY <1>9, <1>8, <4>1
      <4> QED
        BY <1>9, <4>1, <4>2
    <3> QED
      BY <3>1, <3>2
  <2> QED
    BY <2>1 DEF PointersLead
<1>12. Apart(q)
  <2>1. ASSUME NEW g \in Handles, g # h, p[g].block = b PROVE Behind(p[g], x)
    BY <1>0, <1>1, <1>2, <1>9, <2>1 DEF Behind
  <2>2. \A g, k \in Handles :
          g # k /\ p[g].block = p[k].block /\ p[k].block # NoBlock =>
            Behind(p[g], p[k]) \/ Behind(p[k], p[g])
    BY DEF Sound, Apart
  <2> QED
    BY <1>2, <1>5, <1>10, <2>1, <2>2 DEF Apart
<1> QED
  BY <1>4, <1>6, <1>11, <1>12 DEF Sound, x, v, q

\* A block that is not in the chain joins it at the end, empty.
LEMMA FreshSound ==
  ASSUME NEW c, NEW u, NEW r, NEW p, Sound(c, u, r, p), NEW b \in Blocks, b \notin Members(c)
  PROVE  /\ Sound(Append(c, b), [u EXCEPT ![b] = 0], [r EXCEPT ![b] = 0], p)
         /\ b \in Members(Append(c, b))
<1> DEFINE d == Append(c, b)
           v == [u EXCEPT ![b] = 0]
           s == [r EXCEPT ![b] = 0]
<1>1. /\ c \in Seq(Blocks) /\ Once(c) /\ Len(c) \in Nat
      /\ u \in [Blocks -> 0 .. BlockSize - 1] /\ r \in [Blocks -> Int]
      /\ p \in [Handles -> Pointers]
      /\ BlockSize - 1 \in Nat /\ NoBlock \notin Blocks
  BY PoolAssumption DEF Sound, PoolTypes
<1>2. /\ d \in Seq(Blocks) /\ Len(d) = Len(c) + 1 /\ d[Len(c) + 1] = b
      /\ \A i \in 1 .. Len(c) : d[i] = c[i]
  BY <1>1
<1>3. /\ v \in [Blocks -> 0 .. BlockSize - 1] /\ s \in [Blocks -> Int]
      /\ \A e \in Blocks : e # b => v[e] = u[e] /\ s[e] = r[e]
      /\ s[b] = 0
  BY <1>1
<1> HIDE DEF d, v, s
<1>4. \A e : e \in Members(d) <=> e \in Members(c) \/ e = b
  <2>1. \A e : e \in Members(d) <=> \E i \in 1 .. Len(c) + 1 : e = d[i]
    BY <1>2 DEF Members
  <2>2. \A e : e \in Members(c) <=> \E i \in 1 .. Len(c) : e = c[i]
    BY DEF Members
  <2>3. \A i : i \in 1 .. Len(c) + 1 <=> i \in 1 .. Len(c) \/ i = Len(c) + 1
    BY <1>1
  <2> QED
    BY <1>2, <2>1, <2>2, <2>3
<1>5. Once(d)
  <2>1. \A i \in 1 .. Len(c) : c[i] \in Members(c)
    BY DEF Members
  <2>2. ASSUME NEW i \in 1 .. Len(d), NEW j \in 1 .. Len(d), d[i] = d[j] PROVE i = j
    <3>1. CASE i \in 1 .. Len(c) /\ j \in 1 .. Len(c)
      BY <1>1, <1>2, <2>2, <3>1 DEF Once
    <3>2. CASE i \in 1 .. Len(c) /\ j = Len(c) + 1
      BY <1>2, <2>1, <2>2, <3>2
    <3>3. CASE i = Len(c) + 1 /\ j \in 1 .. Len(c)
      BY <1>2, <2>1, <2>2, <3>3
    <3>4. \A k \in 1 .. Len(d) : k \in 1 .. Len(c) \/ k = Len(c) + 1
      BY <1>1, <1>2
    <3> QED
      BY <3>1, <3>2, <3>3, <3>4
  <2> QED
    BY <2>2 DEF Once
<1>6. PointersLead(c, u, p) /\ Apart(p) /\ Counted(c, r, p) /\ Members(c) \subseteq Blocks
  BY <1>1 DEF Sound, Members
<1>7. PointersLead(d, v, p)
  BY <1>3, <1>4, <1>6 DEF PointersLead
<1>8. Counted(d, s, p)
  <2>1. Into(b, p) = {}
    <3>1. \A h \in Handles : p[h].block # b
      BY <1>1, <1>6 DEF PointersLead
    <3> QED
      BY <3>1 DEF Into
  <2>2. Cardinality(Into(b, p)) = 0
    BY <2>1, FS_EmptySet
  <2> QED
    BY <1>3, <1>4, <1>6, <2>2 DEF Counted
<1>9. Sound(d, v, s, p)
  BY <1>1, <1>2, <1>3, <1>5, <1>6, <1>7, <1>8 DEF Sound, PoolTypes
<1> QED
  BY <1>4, <1>9 DEF d, v, s

\* collect() drops no block a pointer leads into.
LEMMA KeptSound ==
  ASSUME NEW c, NEW u, NEW r, NEW p, Sound(c, u, r, p)
  PROVE  Sound(Kept(c, r), u, r, p)
<1> DEFINE k == Kept(c, r)
<1>1. PoolTypes(c, u, r, p) /\ PointersLead(c, u, p) /\ Apart(p) /\ Counted(c, r, p)
  BY DEF Sound
<1>2. k \in Seq(Blocks) /\ Once(k) /\ Members(k) = {b \in Members(c) : r[b] # 0}
  BY <1>1, KeptFacts DEF PoolTypes
<1> HIDE DEF k
<1>3. \A h \in Handles : p[h].block # NoBlock => r[p[h].block] # 0
  <2>1. SUFFICES ASSUME NEW h \in Handles, p[h].block # NoBlock PROVE r[p[h].block] # 0
    OBVIOUS
  <2> DEFINE b == p[h].block
  <2>2. b \in Members(c) /\ h \in Into(b, p)
    BY <1>1, <2>1 DEF PointersLead, Into
  <2>3. Cardinality(Into(b, p)) # 0
    BY <2>2, IntoFinite, FS_EmptySet
  <2> QED
    BY <1>1, <2>2, <2>3 DEF Counted
<1>4. PoolTypes(k, u, r, p)
  BY <1>1, <1>2 DEF PoolTypes
<1>5. PointersLead(k, u, p)
  BY <1>1, <1>2, <1>3 DEF PointersLead
<1>6. Counted(k, r, p)
  BY <1>1, <1>2 DEF Counted
<1> QED
  BY <1>1, <1>4, <1>5, <1>6 DEF Sound, k

\* When collect() keeps no block, no pointer is out.
LEMMA NothingKept ==
  ASSUME NEW u, NEW r, NEW p, Sound(<<>>, u, r, p)
  PROVE  \A h \in Handles : p[h].block = NoBlock
BY DEF Sound, PointersLead, Members

\* A pointer to memory of malloc, or to none, replaces one of that kind.
LEMMA ForeignSound ==
  ASSUME NEW c, NEW u, NEW r, NEW p, Sound(c, u, r, p), NEW h \in Handles, p[h].block = NoBlock,
         NEW x \in Pointers, x.block = NoBlock
  PROVE  Sound(c, u, r, [p EXCEPT ![h] = x])
<1> DEFINE q == [p EXCEPT ![h] = x]
<1>1. PoolTypes(c, u, r, p) /\ PointersLead(c, u, p) /\ Apart(p) /\ Counted(c, r, p)
  BY DEF Sound
<1>2. q \in [Handles -> Pointers] /\ q[h] = x /\ OnlyMoves(h, p, q)
  BY <1>1 DEF PoolTypes, OnlyMoves
<1> HIDE DEF q
<1>3. \A g \in Handles : g # h => q[g] = p[g]
  BY <1>2 DEF OnlyMoves
<1>4. Counted(c, r, q)
  <2>1. \A b \in Members(c) : b # NoBlock
    BY <1>1, PoolAssumption DEF PoolTypes, Members
  <2>2. \A b \in Members(c) : Into(b, q) = Into(b, p)
    BY <1>2, <2>1, IntoStays
  <2> QED
    BY <1>1, <2>2 DEF Counted
<1>5. PointersLead(c, u, q)
  BY <1>1, <1>2, <1>3 DEF PointersLead
<1>6. Apart(q)
  BY <1>1, <1>2, <1>3 DEF Apart
<1> QED
  BY <1>1, <1>2, <1>4, <1>5, <1>6 DEF Sound, PoolTypes, q

\* free() on a pointer into a block.
LEMMA FreeSound ==
  ASSUME NEW c, NEW u, NEW r, NEW p, Sound(c, u, r, p), NEW h \in Handles, p[h].block # NoBlock
  PROVE  Sound(c, u, [r EXCEPT ![p[h].block] = @ - 1], [p EXCEPT ![h] = NoPointer])
<1> DEFINE b == p[h].block
           q == [p EXCEPT ![h] = NoPointer]
           s == [r EXCEPT ![b] = @ - 1]
<1>1. PoolTypes(c, u, r, p) /\ PointersLead(c, u, p) /\ Apart(p) /\ Counted(c, r, p)
  BY DEF Sound
<1>2. /\ NoPointer \in Pointers /\ NoPointer.block = NoBlock
      /\ b # NoBlock /\ b \in Members(c) /\ Members(c) \subseteq Blocks
      /\ r \in [Blocks -> Int]
  <2>1. NoPointer \in Pointers /\ NoPointer.block = NoBlock
    BY DEF Pointers, NoPointer
  <2>2. b # NoBlock /\ b \in Members(c)
    BY <1>1 DEF PointersLead
  <2>3. Members(c) \subseteq Blocks /\ r \in [Blocks -> Int]
    BY <1>1 DEF PoolTypes, Members
  <2> QED
    BY <2>1, <2>2, <2>3
<1>3. q \in [Handles -> Pointers] /\ q[h] = NoPointer /\ OnlyMoves(h, p, q)
  BY <1>1, <1>2 DEF PoolTypes, OnlyMoves
<1>4. \A g \in Handles : g # h => q[g] = p[g]
  BY <1>3 DEF OnlyMoves
<1>5. s \in [Blocks -> Int] /\ s[b] = r[b] - 1 /\ \A d \in Blocks : d # b => s[d] = r[d]
  BY <1>2
<1> HIDE DEF q, s
<1>6. Counted(c, s, q)
  <2>1. ASSUME NEW d \in Members(c) PROVE s[d] = Cardinality(Into(d, q))
    <3>1. d \in Blocks /\ d # NoBlock /\ r[d] = Cardinality(Into(d, p))
      BY <1>1, <1>2, PoolAssumption DEF Counted
    <3>2. CASE d = b
      <4>1. Cardinality(Into(d, q)) = Cardinality(Into(d, p)) - 1
        BY <1>2, <1>3, <3>1, <3>2, IntoShrinks
      <4> QED
        BY <1>5, <3>1, <3>2, <4>1
    <3>3. CASE d # b
      <4>1. Into(d, q) = Into(d, p)
        BY <1>2, <1>3, <3>1, <3>3, IntoStays
      <4> QED
        BY <1>5, <3>1, <3>3, <4>1
    <3> QED
      BY <3>2, <3>3
  <2> QED
    BY <2>1 DEF Counted
<1>7. PointersLead(c, u, q)
  BY <1>1, <1>2, <1>3, <1>4 DEF PointersLead
<1>8. Apart(q)
  BY <1>1, <1>2, <1>3, <1>4 DEF Apart
<1> QED
  BY <1>1, <1>3, <1>5, <1>6, <1>7, <1>8 DEF Sound, PoolTypes, q, s

-----------------------------------------------------------------------------
(* The operations of the pool. *)

PoolInv ==
  /\ Sound(chain, used, refs, held)
  /\ IF chain = <<>> THEN current = NoBlock ELSE current \in InChain
  /\ round \in 0 .. CollectRound - 1 /\ crash \in {"no", "null block", "recursion"}
  /\ NullBlockOnlyWhenIdle

LEMMA InChainMembers == InChain = Members(chain)
BY DEF InChain, Members

LEMMA InitPool == Init => PoolInv
<1> SUFFICES ASSUME Init PROVE PoolInv
  OBVIOUS
<1> USE DEF Init
<1>1. /\ <<>> \in Seq(Blocks) /\ Once(<<>>) /\ Members(<<>>) = {} /\ NoPointer \in Pointers
      /\ NoPointer.block = NoBlock
  BY DEF Once, Members, NoPointer, Pointers
<1>2. PoolTypes(chain, used, refs, held)
  BY <1>1, PoolAssumption DEF PoolTypes
<1>3. Counted(chain, refs, held) /\ PointersLead(chain, used, held) /\ Apart(held)
  BY <1>1 DEF Counted, PointersLead, Apart
<1>4. 0 \in 0 .. CollectRound - 1
  BY PoolAssumption
<1> QED
  BY <1>2, <1>3, <1>4 DEF PoolInv, Sound, NullBlockOnlyWhenIdle

\* The block's allocate, whether the request fits or not.
LEMMA TakeStep ==
  ASSUME NEW c, NEW u, NEW r, Sound(c, u, r, held), crash = "no",
         NEW h \in Idle, NEW b \in Members(c), NEW n \in Nat, TakeFrom(h, b, n, u, r)
  PROVE  Sound(c, used', refs', held') /\ crash' = "no"
<1>1. h \in Handles /\ held[h] = NoPointer
  BY DEF Idle
<1>2. CASE Fits(b, u, n)
  BY <1>1, <1>2, TakeSound DEF TakeFrom
<1>3. CASE ~Fits(b, u, n)
  BY <1>3 DEF TakeFrom
<1> QED
  BY <1>2, <1>3

\* The first block of a list that has one is in it.
LEMMA HeadInside ==
  ASSUME NEW c \in Seq(Blocks)
  PROVE  IF c = <<>> THEN HeadOf(c) = NoBlock ELSE HeadOf(c) \in Members(c) /\ HeadOf(c) \in Blocks
<1>1. CASE c # <<>>
  <2>1. Head(c) = c[1] /\ 1 \in 1 .. Len(c) /\ c[1] \in Blocks
    BY <1>1
  <2> QED
    BY <1>1, <2>1 DEF HeadOf, Members
<1> QED
  BY <1>1 DEF HeadOf

LEMMA NextInside == ASSUME NEW b, Next1(b) # NoBlock PROVE Next1(b) \in InChain
<1> DEFINE later == {i \in 1 .. Len(chain) - 1 : chain[i] = b}
<1>1. later # {} /\ Next1(b) = chain[(CHOOSE i \in later : TRUE) + 1]
  BY DEF Next1
<1>2. (CHOOSE i \in later : TRUE) \in later
  BY <1>1
<1> HIDE DEF later
<1>3. PICK i \in later : Next1(b) = chain[i + 1]
  BY <1>1, <1>2
<1>4. i + 1 \in 1 .. Len(chain)
  BY <1>3 DEF later
<1> QED
  BY <1>3, <1>4 DEF InChain

\* allocate after it has left its current block for block b.
LEMMA AdvanceStep ==
  ASSUME PoolInv, crash = "no", NEW h \in Idle, NEW n \in Nat,
         NEW c, NEW b \in Members(c), NEW u, NEW r, Sound(c, u, r, held), Advance(h, n, c, b, u, r)
  PROVE  PoolInv'
<1>1. c \in Seq(Blocks) /\ Members(c) \subseteq Blocks /\ NoBlock \notin Blocks /\ Once(c)
  BY PoolAssumption DEF Sound, PoolTypes, Members
<1>2. round' \in 0 .. CollectRound - 1
  BY PoolAssumption DEF PoolInv, Advance
<1>3. CASE round' # 0
  <2>1. chain' = c /\ current' = b /\ TakeFrom(h, b, n, u, r)
    BY <1>1, <1>3 DEF Advance
  <2>2. Sound(chain', used', refs', held') /\ crash' = "no"
    BY <2>1, TakeStep
  <2>3. chain' # <<>> /\ current' \in InChain'
    BY <2>1 DEF Members, InChain
  <2> QED
    BY <1>2, <2>2, <2>3 DEF PoolInv, NullBlockOnlyWhenIdle
<1>4. CASE round' = 0
  <2> DEFINE k == Kept(c, r)
  <2>1. chain' = k /\ current' = HeadOf(k) /\ Sound(k, u, r, held)
    BY <1>4, KeptSound DEF Advance
  <2> HIDE DEF k
  <2>2. k \in Seq(Blocks)
    BY <2>1 DEF Sound, PoolTypes
  <2>3. CASE k = <<>>
    <3>1. current' = NoBlock /\ NullBlock(u, r)
      BY <2>1, <2>3 DEF HeadOf, Advance
    <3>2. crash' = "null block" /\ used' = u /\ refs' = r /\ held' = held
      BY <3>1 DEF NullBlock
    <3>3. Sound(chain', used', refs', held') /\ \A g \in Handles : held'[g].block = NoBlock
      BY <2>1, <2>3, <3>2, NothingKept
    <3> QED
      BY <1>2, <2>1, <2>3, <3>1, <3>2, <3>3 DEF PoolInv, NullBlockOnlyWhenIdle, LastPointer
  <2>4. CASE k # <<>>
    <3>1. current' \in Members(k) /\ current' # NoBlock
      BY <1>1, <2>1, <2>2, <2>4, HeadInside
    <3>2. TakeFrom(h, current', n, u, r)
      BY <3>1 DEF Advance
    <3>3. Sound(chain', used', refs', held') /\ crash' = "no"
      BY <2>1, <3>1, <3>2, TakeStep
    <3>4. chain' # <<>> /\ current' \in InChain'
      BY <2>1, <2>4, <3>1 DEF Members, InChain
    <3> QED
      BY <1>2, <3>3, <3>4 DEF PoolInv, NullBlockOnlyWhenIdle
  <2> QED
    BY <2>3, <2>4
<1> QED
  BY <1>3, <1>4

LEMMA AllocateFirstStep ==
  ASSUME PoolInv, crash = "no", NEW h \in Idle, NEW n \in Sizes, AllocateFirst(h, n)
  PROVE  PoolInv'
<1>1. /\ h \in Handles /\ held[h].block = NoBlock /\ n \in Nat
      /\ Foreign(n) \in Pointers /\ Foreign(n).block = NoBlock
      /\ round \in 0 .. CollectRound - 1 /\ current = NoBlock /\ chain = <<>>
      /\ Sound(<<>>, used, refs, held)
  BY PoolAssumption DEF Idle, NoPointer, Foreign, Pointers, PoolInv, AllocateFirst
<1>2. \A g \in Handles : held[g].block = NoBlock
  BY <1>1, NothingKept
<1>3. ASSUME NEW b \in Blocks, chain' = <<b>>, current' = b, round' = round,
             IF n > LargeSize
               THEN /\ held' = [held EXCEPT ![h] = Foreign(n)]
                    /\ used' = [used EXCEPT ![b] = 0]
                    /\ refs' = [refs EXCEPT ![b] = 0]
                    /\ crash' = crash
               ELSE TakeFrom(h, b, n, [used EXCEPT ![b] = 0], [refs EXCEPT ![b] = 0])
      PROVE  PoolInv'
  <2> DEFINE v == [used EXCEPT ![b] = 0]
             s == [refs EXCEPT ![b] = 0]
  <2>1. Sound(<<b>>, v, s, held) /\ b \in Members(<<b>>)
    <3>1. b \notin Members(<<>>)
      BY DEF Members
    <3>2. Append(<<>>, b) = <<b>>
      OBVIOUS
    <3> QED
      BY <1>1, <3>1, <3>2, FreshSound
  <2> HIDE DEF v, s
  <2>2. Sound(chain', used', refs', held') /\ crash' = "no"
    <3>1. CASE n > LargeSize
      <4>1. held' = [held EXCEPT ![h] = Foreign(n)] /\ used' = v /\ refs' = s /\ crash' = "no"
        BY <1>3, <3>1 DEF v, s
      <4> QED
        BY <1>1, <1>3, <2>1, <4>1, ForeignSound
    <3>2. CASE ~(n > LargeSize)
      <4>1. TakeFrom(h, b, n, v, s)
        BY <1>3, <3>2 DEF v, s
      <4> QED
        BY <1>1, <1>3, <2>1, <4>1, TakeStep
    <3> QED
      BY <3>1, <3>2
  <2>3. chain' # <<>> /\ current' \in InChain'
    BY <1>3, <2>1, InChainMembers DEF InChain, Members
  <2> QED
    BY <1>1, <1>3, <2>2, <2>3 DEF PoolInv, NullBlockOnlyWhenIdle
<1>4. ASSUME UNCHANGED <<chain, current, round>>,
             IF n > LargeSize
               THEN /\ held' = [held EXCEPT ![h] = Foreign(n)]
                    /\ UNCHANGED <<used, refs, crash>>
               ELSE NullBlock(used, refs)
      PROVE  PoolInv'
  <2>1. CASE n > LargeSize
    <3>1. Sound(chain', used', refs', held')
      BY <1>1, <1>4, <2>1, ForeignSound
    <3> QED
      BY <1>1, <1>4, <2>1, <3>1 DEF PoolInv, NullBlockOnlyWhenIdle
  <2>2. CASE ~(n > LargeSize)
    <3>1. used' = used /\ refs' = refs /\ held' = held /\ crash' = "null block"
      BY <1>4, <2>2 DEF NullBlock
    <3> QED
      BY <1>1, <1>2, <1>4, <3>1 DEF PoolInv, NullBlockOnlyWhenIdle, LastPointer
  <2> QED
    BY <2>1, <2>2
<1> QED
  BY <1>3, <1>4 DEF AllocateFirst

\* A step that leaves the pool as it is, or changes only pointers of malloc.
LEMMA LargeStep ==
  ASSUME PoolInv, crash = "no", NEW h \in Idle, NEW n \in Sizes, AllocateLarge(h, n)
  PROVE  PoolInv'
<1>1. /\ h \in Handles /\ held[h].block = NoBlock
      /\ Foreign(n) \in Pointers /\ Foreign(n).block = NoBlock
  BY PoolAssumption DEF Idle, NoPointer, Foreign, Pointers
<1>2. /\ UNCHANGED <<chain, current, used, refs, round, crash>>
      /\ held' = [held EXCEPT ![h] = Foreign(n)]
  BY DEF AllocateLarge, poolVars
<1>3. Sound(chain', used', refs', held')
  BY <1>1, <1>2, ForeignSound DEF PoolInv
<1> QED
  BY <1>2, <1>3 DEF PoolInv, NullBlockOnlyWhenIdle, InChain

LEMMA HereStep ==
  ASSUME PoolInv, crash = "no", NEW h \in Idle, NEW n \in Sizes, AllocateHere(h, n)
  PROVE  PoolInv'
<1>1. /\ chain # <<>> /\ current \in Members(chain) /\ n \in Nat
      /\ TakeFrom(h, current, n, used, refs) /\ UNCHANGED <<chain, current, round>>
      /\ Sound(chain, used, refs, held)
  BY PoolAssumption, InChainMembers DEF AllocateHere, PoolInv
<1>2. Sound(chain, used', refs', held') /\ crash' = "no"
  BY <1>1, TakeStep
<1> QED
  BY <1>1, <1>2 DEF PoolInv, NullBlockOnlyWhenIdle, InChain

LEMMA NewStep ==
  ASSUME PoolInv, crash = "no", NEW h \in Idle, NEW n \in Sizes, AllocateNew(h, n)
  PROVE  PoolInv'
<1>1. CASE Refused
  BY <1>1 DEF Refused, vars, poolVars, PoolInv, NullBlockOnlyWhenIdle, InChain, LastPointer
<1>2. ASSUME NEW b \in Blocks \ InChain,
             Advance(h, n, Append(chain, b), b, [used EXCEPT ![b] = 0], [refs EXCEPT ![b] = 0])
      PROVE  PoolInv'
  <2>1. Sound(chain, used, refs, held) /\ b \notin Members(chain) /\ b \in Blocks /\ n \in Nat
    BY InChainMembers, PoolAssumption DEF PoolInv
  <2>2. /\ Sound(Append(chain, b), [used EXCEPT ![b] = 0], [refs EXCEPT ![b] = 0], held)
        /\ b \in Members(Append(chain, b))
    BY <2>1, FreshSound
  <2> QED
    BY <1>2, <2>1, <2>2, AdvanceStep
<1> QED
  BY <1>1, <1>2 DEF AllocateNew

LEMMA NextStep ==
  ASSUME PoolInv, crash = "no", NEW h \in Idle, NEW n \in Sizes, AllocateNext(h, n)
  PROVE  PoolInv'
<1>1. /\ Next1(current) \in Members(chain) /\ n \in Nat /\ Sound(chain, used, refs, held)
      /\ Advance(h, n, chain, Next1(current), used, refs)
  BY NextInside, InChainMembers, PoolAssumption DEF AllocateNext, PoolInv
<1> QED
  BY <1>1, AdvanceStep

LEMMA FreeStep == ASSUME PoolInv, crash = "no", NEW h \in Handles, Free(h) PROVE PoolInv'
<1>1. CASE held[h].block = NoBlock
  <2>1. crash' = "recursion" /\ UNCHANGED <<chain, current, used, refs, round, held>>
    BY <1>1 DEF Free, poolVars
  <2> QED
    BY <2>1 DEF PoolInv, NullBlockOnlyWhenIdle, InChain
<1>2. CASE held[h].block # NoBlock
  <2>1. /\ refs' = [refs EXCEPT ![held[h].block] = @ - 1]
        /\ held' = [held EXCEPT ![h] = NoPointer]
        /\ UNCHANGED <<chain, current, used, round, crash>>
    BY <1>2 DEF Free
  <2>2. Sound(chain', used', refs', held')
    BY <1>2, <2>1, FreeSound DEF PoolInv
  <2> QED
    BY <2>1, <2>2 DEF PoolInv, NullBlockOnlyWhenIdle, InChain
<1> QED
  BY <1>1, <1>2

LEMMA CollectStep == ASSUME PoolInv, crash = "no", Collect PROVE PoolInv'
<1>1. /\ chain' = Kept(chain, refs) /\ current' = HeadOf(chain')
      /\ UNCHANGED <<used, refs, round, held, crash>>
  BY DEF Collect
<1>2. Sound(chain', used', refs', held')
  BY <1>1, KeptSound DEF PoolInv
<1>3. IF chain' = <<>> THEN current' = NoBlock ELSE current' \in InChain'
  <2>1. chain' \in Seq(Blocks) /\ InChain' = Members(chain')
    BY <1>2 DEF Sound, PoolTypes, InChain, Members
  <2> QED
    BY <1>1, <2>1, HeadInside
<1> QED
  BY <1>1, <1>2, <1>3 DEF PoolInv, NullBlockOnlyWhenIdle

LEMMA ResetStep == ASSUME PoolInv, crash = "no", Reset PROVE PoolInv'
<1>1. /\ chain' = <<>> /\ current' = NoBlock /\ round' = 0
      /\ held' = [h \in Handles |-> IF held[h].block = NoBlock THEN held[h] ELSE NoPointer]
      /\ UNCHANGED <<used, refs, crash>>
  BY DEF Reset
<1>2. /\ <<>> \in Seq(Blocks) /\ Once(<<>>) /\ Members(<<>>) = {}
      /\ NoPointer \in Pointers /\ NoPointer.block = NoBlock /\ 0 \in 0 .. CollectRound - 1
  BY PoolAssumption DEF Once, Members, NoPointer, Pointers
<1>3. \A h \in Handles : held'[h].block = NoBlock
  BY <1>1, <1>2
<1>4. PoolTypes(chain', used', refs', held')
  BY <1>1, <1>2 DEF PoolInv, Sound, PoolTypes
<1>5. Counted(chain', refs', held') /\ PointersLead(chain', used', held') /\ Apart(held')
  BY <1>1, <1>2, <1>3 DEF Counted, PointersLead, Apart
<1> QED
  BY <1>1, <1>2, <1>4, <1>5 DEF PoolInv, Sound, NullBlockOnlyWhenIdle

LEMMA PoolStep == ASSUME PoolInv, [Next]_vars PROVE PoolInv'
<1>1. CASE UNCHANGED vars
  BY <1>1 DEF vars, poolVars, PoolInv, NullBlockOnlyWhenIdle, InChain, LastPointer
<1>2. ASSUME crash = "no", NEW h \in Idle, NEW n \in Sizes,
             \/ AllocateFirst(h, n) \/ AllocateNothing(n) \/ AllocateLarge(h, n)
             \/ AllocateHere(h, n) \/ AllocateNext(h, n) \/ AllocateNew(h, n)
      PROVE  PoolInv'
  <2>1. CASE AllocateNothing(n)
    BY <1>1, <2>1 DEF AllocateNothing
  <2> QED
    BY <1>2, <2>1, AllocateFirstStep, LargeStep, HereStep, NextStep, NewStep
<1>3. ASSUME crash = "no", NEW h \in Handles, Free(h) PROVE PoolInv'
  BY <1>3, FreeStep
<1>4. ASSUME crash = "no", Collect \/ Reset PROVE PoolInv'
  BY <1>4, CollectStep, ResetStep
<1> QED
  BY <1>1, <1>2, <1>3, <1>4 DEF Next, Allocate, Dead

LEMMA PoolInvariance == Spec => []PoolInv
<1>1. Init => PoolInv
  BY InitPool
<1>2. PoolInv /\ [Next]_vars => PoolInv'
  BY PoolStep
<1> QED
  BY <1>1, <1>2, PTL DEF Spec

\* Every variable keeps its type, and no block is filled to its End.
THEOREM PoolTypeCorrect == Spec => []TypeOK
<1>1. PoolInv => TypeOK
  <2> SUFFICES ASSUME PoolInv PROVE TypeOK
    OBVIOUS
  <2>1. PoolTypes(chain, used, refs, held)
    BY DEF PoolInv, Sound
  <2>2. current \in Blocks \cup {NoBlock}
    <3>1. InChain \subseteq Blocks
      BY <2>1 DEF PoolTypes, InChain
    <3> QED
      BY <3>1 DEF PoolInv
  <2>3. used \in [Blocks -> 0 .. BlockSize]
    BY <2>1, PoolAssumption DEF PoolTypes
  <2>4. \A h \in Handles : held[h].block \in Blocks \cup {NoBlock}
    BY <2>1 DEF PoolTypes, Pointers
  <2> QED
    BY <2>1, <2>2, <2>3, <2>4 DEF PoolInv, PoolTypes, TypeOK
<1> QED
  BY <1>1, PoolInvariance, PTL

\* CurrentBlock is a block of the chain whenever there is one, and the chain
\* never closes on itself.
THEOREM CurrentIsInChain == Spec => []CurrentInChain
<1>1. PoolInv => CurrentInChain
  <2> SUFFICES ASSUME PoolInv PROVE CurrentInChain
    OBVIOUS
  <2> DEFINE S == 1 .. Len(chain)
  <2>1. chain \in Seq(Blocks) /\ Once(chain) /\ Len(chain) \in Nat
    <3>1. PoolTypes(chain, used, refs, held)
      BY DEF PoolInv, Sound
    <3> QED
      BY <3>1 DEF PoolTypes
  <2>2. IsFiniteSet(S) /\ Cardinality(S) = Len(chain)
    <3>1. \A i \in Nat : IsFiniteSet(1 .. i) /\ Cardinality(1 .. i) = i
      BY FS_Interval
    <3> QED
      BY <2>1, <3>1
  <2>3. chain \in Surjection(S, InChain) /\ chain \in Injection(S, InChain)
    <3>1. chain \in [S -> InChain]
      <4>1. chain \in [S -> Blocks] /\ \A i \in S : chain[i] \in InChain
        BY <2>1 DEF InChain
      <4> HIDE DEF S
      <4> QED
        BY <4>1
    <3>2. \A b \in InChain : \E i \in S : chain[i] = b
      BY DEF InChain
    <3>3. \A i, j \in S : chain[i] = chain[j] => i = j
      BY <2>1 DEF Once
    <3> HIDE DEF S
    <3>4. chain \in Surjection(S, InChain)
      BY <3>1, <3>2 DEF Surjection
    <3>5. chain \in Injection(S, InChain)
      BY <3>1, <3>3 DEF Injection, IsInjective
    <3> QED
      BY <3>4, <3>5
  <2>5. Cardinality(InChain) = Cardinality(S)
    BY <2>2, <2>3, FS_Surjection
  <2> QED
    BY <2>2, <2>5 DEF PoolInv, CurrentInChain
<1> QED
  BY <1>1, PoolInvariance, PTL

\* RefCount counts the pointers that are out and no pointer outlives its block,
\* so collect() frees no block in use.
THEOREM RefCountIsExact == Spec => []RefCountExact
<1>1. PoolInv => RefCountExact
  <2> SUFFICES ASSUME PoolInv PROVE RefCountExact
    OBVIOUS
  <2>1. Counted(chain, refs, held) /\ PointersLead(chain, used, held)
    BY DEF PoolInv, Sound
  <2>2. \A b : Pointer(b) = Into(b, held)
    BY DEF Pointer, Into
  <2> QED
    BY <2>1, <2>2, InChainMembers DEF Counted, PointersLead, RefCountExact, LastPointer
<1> QED
  BY <1>1, PoolInvariance, PTL

\* Pointers that are out share no byte and stay within their blocks, for blocks
\* and requests of any size.
THEOREM PointersNeverOverlap == Spec => []NoOverlap
<1>1. PoolInv => NoOverlap
  <2> SUFFICES ASSUME PoolInv, NEW h \in LastPointer
               PROVE  /\ held[h].at + held[h].size < BlockSize
                      /\ \A g \in LastPointer \ {h} :
                           held[g].block = held[h].block =>
                             \/ held[g].at + held[g].size <= held[h].at
                             \/ held[h].at + held[h].size <= held[g].at
    BY DEF NoOverlap
  <2>1. PoolTypes(chain, used, refs, held) /\ PointersLead(chain, used, held) /\ Apart(held)
    BY DEF PoolInv, Sound
  <2>2. h \in Handles /\ held[h].block # NoBlock
    BY DEF LastPointer
  <2>3. /\ used[held[h].block] \in 0 .. BlockSize - 1
        /\ held[h].at \in Nat /\ held[h].size \in Nat
        /\ held[h].at + held[h].size <= used[held[h].block]
    BY <2>1, <2>2 DEF PoolTypes, PointersLead, Pointers
  <2> QED
    BY <2>1, <2>2, <2>3, PoolAssumption DEF Apart, Behind, LastPointer
<1> QED
  BY <1>1, PoolInvariance, PTL

\* The pool never uses a null CurrentBlock while a pointer into it is out.
THEOREM NullBlockWhenIdle == Spec => []NullBlockOnlyWhenIdle
<1>1. PoolInv => NullBlockOnlyWhenIdle
  BY DEF PoolInv
<1> QED
  BY <1>1, PoolInvariance, PTL
=============================================================================
