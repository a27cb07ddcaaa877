----------------------------- MODULE FlatTreeProofs -----------------------------
(***************************************************************************)
(* What insert and remove do to a tree in which no node has a child: they  *)
(* keep it so, and neither reaches a rotation.  Hence, for any set of      *)
(* timers, any intervals and any length of time, and for any set of items, *)
(* keys and hashes, the timer tree and a dictionary stay without children. *)
(***************************************************************************)
EXTENDS EventDomain, Dictionary, TLAPS

\* A flat tree in which no rotation has been asked for.
Settled(t) == t \in Trees /\ Flat(t) /\ ~t.fixup

\* The walk of insert() ends where it begins.
LEMMA BottomOfFlat ==
  ASSUME NEW t \in Trees, Flat(t), NEW m \in Nodes, NEW lesser
  PROVE  Bottom(t, m, lesser) = m
<1> DEFINE below(p) == IF p \in lesser THEN t.right[p] ELSE t.left[p]
           step(f) == [p \in Nodes |-> IF below(p) = Null THEN p ELSE f[below(p)]]
           last == CHOOSE f : f = step(f)
<1>1. \A p \in Nodes : below(p) = Null
  BY DEF Flat
<1>2. \E f : f = step(f)
  <2>1. [p \in Nodes |-> p] = step([p \in Nodes |-> p])
    BY <1>1
  <2> QED BY <2>1
<1>3. last = step(last)
  <2> HIDE DEF step
  <2> QED BY <1>2
<1>4. last[m] = m
  BY <1>1, <1>3
<1> QED BY <1>4 DEF Bottom

\* Inserting keeps the tree settled: the new Root is black and so is its parent.
LEMMA InsertSettled ==
  ASSUME NEW t, Settled(t), NEW n \in Nodes, NEW lesser
  PROVE  Settled(Insert(t, n, lesser))
<1> DEFINE p == IF t.root = Null THEN Null ELSE Bottom(t, t.root, lesser)
           u == [t EXCEPT !.root = n, !.parent[n] = p,
                          !.left[n] = Null, !.right[n] = Null]
<1>1. t \in Trees /\ Flat(t) /\ ~t.fixup
  BY DEF Settled
<1>2. p = t.root
  BY <1>1, BottomOfFlat, NodesAssumption DEF Trees
<1>3. p \in Nodes \cup {Null}
  BY <1>1, <1>2 DEF Trees
<1>4. /\ u \in Trees /\ u.root = n /\ u.parent[n] = p
      /\ u.black = t.black /\ ~u.fixup
      /\ \A q \in Nodes : u.left[q] = Null /\ u.right[q] = Null
  BY <1>1, <1>3 DEF Trees, Flat
<1> HIDE DEF u, p
<1>5. ~(u.parent[n] # Null /\ ~u.black[u.parent[n]])
  BY <1>1, <1>2, <1>4 DEF Flat
<1>6. InsertColor(u, n) = [u EXCEPT !.black[n] = TRUE]
  BY <1>4, <1>5 DEF InsertColor
<1>7. Settled([u EXCEPT !.black[n] = TRUE])
  BY <1>4 DEF Settled, Flat, Trees
<1> QED BY <1>6, <1>7 DEF Insert, u, p

\* Child pointers that are null already may be set to null.
LEMMA NilSettled ==
  ASSUME NEW t, Settled(t), NEW q \in Nodes
  PROVE  Settled([t EXCEPT !.left[q] = Null]) /\ Settled([t EXCEPT !.right[q] = Null])
<1>1. t \in Trees /\ t.left[q] = Null /\ t.right[q] = Null
  BY DEF Settled, Flat
<1>2. [t EXCEPT !.left[q] = Null] = t
  BY <1>1 DEF Trees
<1>3. [t EXCEPT !.right[q] = Null] = t
  BY <1>1 DEF Trees
<1> QED
  BY <1>2, <1>3

\* Removing a node without children only cuts it out of its parent.
LEMMA RemoveSettled ==
  ASSUME NEW t, Settled(t), NEW n \in Nodes
  PROVE  Settled(Remove(t, n))
<1> DEFINE u == [t EXCEPT !.parent[n] = n, !.left[n] = Null, !.right[n] = Null]
           p == t.parent[n]
<1>1. t \in Trees /\ Flat(t) /\ ~t.fixup
  BY DEF Settled
<1>2. p \in Nodes \cup {Null}
  BY <1>1 DEF Trees
<1>3. Settled(u)
  BY <1>1 DEF Settled, Flat, Trees
<1>4. Settled([u EXCEPT !.root = Null])
  BY <1>3 DEF Settled, Flat, Trees
<1>5. ASSUME p # Null
      PROVE  Settled([u EXCEPT !.left[p] = Null]) /\ Settled([u EXCEPT !.right[p] = Null])
  <2>1. p \in Nodes /\ Settled(u)
    BY <1>2, <1>3, <1>5
  <2>2. Settled([u EXCEPT !.left[p] = Null])
    BY <2>1, NilSettled
  <2>3. Settled([u EXCEPT !.right[p] = Null])
    BY <2>1, NilSettled
  <2> QED
    BY <2>2, <2>3
<1>6. t.left[n] = Null /\ t.right[n] = Null
  BY <1>1 DEF Flat
<1> QED BY <1>4, <1>5, <1>6 DEF Remove

\* A new tree is settled.
LEMMA NewTreeSettled == Settled(NewTree)
BY DEF Settled, NewTree, Trees, Flat

-----------------------------------------------------------------------------
(* Timers.  The invariant adds what insert and remove need to be applied: the types of the timers. *)

TimersInv == TimersTypeOK /\ Settled(tree)

\* Intervals are natural numbers, as uint64_t is.
LEMMA IntervalsAreNat ==
  ASSUME TimersTypeOK, NEW n \in Timers
  PROVE  interval[n] \in Nat /\ now \in Nat
<1>1. interval[n] \in Intervals \cup {0}
  BY DEF TimersTypeOK
<1>2. Intervals \cup {0} \subseteq Nat
  BY TimersAssumption
<1>3. now \in Nat
  BY TimersAssumption DEF TimersTypeOK
<1> QED BY <1>1, <1>2, <1>3

\* No timer, no clock: the initial states satisfy the invariant.
LEMMA TimersInitially == TimersInit => TimersInv
<1> SUFFICES ASSUME TimersInit PROVE TimersInv
  OBVIOUS
<1>1. Settled(tree)
  BY NewTreeSettled DEF TimersInit
<1>2. TimersTypeOK
  <2>1. tree \in Trees
    BY <1>1 DEF Settled
  <2>2. now \in 0 .. MaxTime
    BY TimersAssumption DEF TimersInit
  <2>3. mode \in [Timers -> Modes] /\ interval \in [Timers -> Intervals \cup {0}]
        /\ stamp \in [Timers -> Nat]
    BY DEF TimersInit, Modes
  <2> QED BY <2>1, <2>2, <2>3 DEF TimersTypeOK
<1> QED BY <1>1, <1>2 DEF TimersInv

\* A timer that is stopped, if it is attached, leaves a settled tree.
LEMMA StoppedSettled ==
  ASSUME Settled(tree), NEW n \in Timers
  PROVE  Settled(IF IsAttached(tree, n) THEN Remove(tree, n) ELSE tree)
BY RemoveSettled DEF Timers

\* setOnce, setInterval.
LEMMA SetKeeps ==
  ASSUME TimersInv, NEW n \in Timers, NEW m \in Modes, NEW i \in Intervals,
         Set(n, m, i), UNCHANGED now
  PROVE  TimersInv'
<1>1. TimersTypeOK /\ Settled(tree) /\ now \in Nat /\ i \in Nat
  BY TimersAssumption DEF TimersInv, TimersTypeOK
<1>2. mode' \in [Timers -> Modes] /\ interval' \in [Timers -> Intervals \cup {0}]
  BY <1>1 DEF Set, TimersTypeOK
<1>3. CASE IsAttached(tree, n) \/ i = 0
  <2>1. UNCHANGED <<tree, stamp, now>>
    BY <1>3 DEF Set
  <2> QED BY <1>1, <1>2, <2>1 DEF TimersInv, TimersTypeOK
<1>4. CASE ~(IsAttached(tree, n) \/ i = 0)
  <2>1. /\ stamp' = [stamp EXCEPT ![n] = now + i]
        /\ tree' = Insert(tree, n, Earlier(stamp', n))
    BY <1>4 DEF Set, Attach
  <2>2. Settled(tree')
    BY <1>1, <2>1, InsertSettled DEF Timers
  <2>3. stamp' \in [Timers -> Nat]
    BY <1>1, <2>1 DEF TimersTypeOK
  <2>4. tree' \in Trees
    BY <2>2 DEF Settled
  <2> QED BY <1>1, <1>2, <2>2, <2>3, <2>4 DEF TimersInv, TimersTypeOK
<1> QED BY <1>3, <1>4

LEMMA StopKeeps ==
  ASSUME TimersInv, NEW n \in Timers, Stop(n), UNCHANGED now
  PROVE  TimersInv'
<1>1. Settled(tree')
  BY StoppedSettled DEF TimersInv, Stop
<1>2. tree' \in Trees
  BY <1>1 DEF Settled
<1> QED BY <1>1, <1>2 DEF TimersInv, TimersTypeOK, Stop, timerVars

LEMMA ExpireKeeps ==
  ASSUME TimersInv, NEW n \in Timers, Expire(n), UNCHANGED now
  PROVE  TimersInv'
<1> DEFINE stopped == IF IsAttached(tree, n) THEN Remove(tree, n) ELSE tree
<1>1. TimersTypeOK /\ Settled(tree) /\ now \in Nat /\ interval[n] \in Nat
  BY IntervalsAreNat DEF TimersInv
<1>2. Settled(stopped)
  BY <1>1, StoppedSettled
<1>3. Settled(tree')
  <2>1. Settled(Insert(stopped, n, Earlier(stamp', n)))
    BY <1>2, InsertSettled DEF Timers
  <2>2. tree' = stopped \/ tree' = Insert(stopped, n, Earlier(stamp', n))
    BY DEF Expire, Attach
  <2> QED BY <1>2, <2>1, <2>2
<1>4. stamp' \in [Timers -> Nat]
  BY <1>1 DEF Expire, TimersTypeOK
<1>5. tree' \in Trees
  BY <1>3 DEF Settled
<1> QED BY <1>1, <1>3, <1>4, <1>5 DEF TimersInv, TimersTypeOK, Expire

\* The invariant is inductive.
LEMMA TimersStep ==
  TimersInv /\ [TimersNext]_<<tree, timerVars, now>> => TimersInv'
<1> SUFFICES ASSUME TimersInv, [TimersNext]_<<tree, timerVars, now>>
             PROVE  TimersInv'
  OBVIOUS
<1>1. CASE \E n \in Timers : Operation(n) /\ UNCHANGED now
  <2>1. PICK n \in Timers : Operation(n) /\ UNCHANGED now
    BY <1>1
  <2>2. CASE \E m \in Modes, i \in Intervals : Set(n, m, i)
    BY <2>1, <2>2, SetKeeps
  <2>3. CASE Stop(n)
    BY <2>1, <2>3, StopKeeps
  <2>4. CASE Expire(n)
    BY <2>1, <2>4, ExpireKeeps
  <2> QED BY <2>1, <2>2, <2>3, <2>4 DEF Operation
<1>2. CASE Tick
  <2>1. now' \in 0 .. MaxTime
    BY <1>2, TimersAssumption DEF TimersInv, TimersTypeOK, Tick
  <2> QED BY <1>2, <2>1 DEF TimersInv, TimersTypeOK, Tick, timerVars
<1>3. CASE UNCHANGED <<tree, timerVars, now>>
  BY <1>3 DEF TimersInv, TimersTypeOK, timerVars
<1> QED BY <1>1, <1>2, <1>3 DEF TimersNext

LEMMA TimersInvariance == TimersSpec => []TimersInv
BY TimersInitially, TimersStep, PTL DEF TimersSpec

\* The variables of the timer tree always have the declared types: the uint64_t
\* arithmetic on the timestamps never goes below zero.
THEOREM TimerTypes == TimersSpec => []TimersTypeOK
<1>1. TimersInv => TimersTypeOK
  BY DEF TimersInv
<1> QED BY <1>1, TimersInvariance, PTL

\* No sequence of timer operations, on any number of timers, ever gives a node
\* of the timer tree a child: rotations and recolouring are dead code.
THEOREM TimersNeverRotate == TimersSpec => []TimersAreFlat
<1>1. TimersInv => TimersAreFlat
  BY DEF TimersInv, Settled, TimersAreFlat
<1> QED BY <1>1, TimersInvariance, PTL

-----------------------------------------------------------------------------
(* What the operations do to the Parent pointers and to Root of a flat tree. *)

LEMMA FlatInsert ==
  ASSUME NEW t, Settled(t), NEW n \in Nodes, NEW lesser
  PROVE  /\ Insert(t, n, lesser).root = n
         /\ Insert(t, n, lesser).parent = [t.parent EXCEPT ![n] = t.root]
<1> DEFINE p == IF t.root = Null THEN Null ELSE Bottom(t, t.root, lesser)
           u == [t EXCEPT !.root = n, !.parent[n] = p,
                          !.left[n] = Null, !.right[n] = Null]
<1>1. t \in Trees /\ Flat(t) /\ ~t.fixup
  BY DEF Settled
<1>2. p = t.root
  BY <1>1, BottomOfFlat, NodesAssumption DEF Trees
<1>3. u.root = n /\ u.parent = [t.parent EXCEPT ![n] = p] /\ u.black = t.black /\ u.parent[n] = p
  BY <1>1 DEF Trees
<1> HIDE DEF u, p
<1>4. ~(u.parent[n] # Null /\ ~u.black[u.parent[n]])
  BY <1>1, <1>2, <1>3 DEF Flat
<1>5. InsertColor(u, n) = [u EXCEPT !.black[n] = TRUE]
  BY <1>3, <1>4 DEF InsertColor
<1>6. InsertColor(u, n).root = u.root /\ InsertColor(u, n).parent = u.parent
  BY <1>5
<1> QED BY <1>2, <1>3, <1>6 DEF Insert, u, p

LEMMA FlatRemove ==
  ASSUME NEW t, Settled(t), NEW n \in Nodes
  PROVE  /\ Remove(t, n).root = IF t.parent[n] = Null THEN Null ELSE t.root
         /\ Remove(t, n).parent = [t.parent EXCEPT ![n] = n]
<1> DEFINE u == [t EXCEPT !.parent[n] = n, !.left[n] = Null, !.right[n] = Null]
           p == t.parent[n]
<1>1. t \in Trees /\ t.left[n] = Null /\ t.right[n] = Null
  BY DEF Settled, Flat
<1>2. u.root = t.root /\ u.parent = [t.parent EXCEPT ![n] = n]
  BY <1>1 DEF Trees
<1>3. Remove(t, n) = IF p = Null THEN [u EXCEPT !.root = Null]
                     ELSE IF t.left[p] = n THEN [u EXCEPT !.left[p] = Null]
                     ELSE [u EXCEPT !.right[p] = Null]
  BY <1>1 DEF Remove
<1>4. u \in Trees
  BY <1>1 DEF Trees
<1> HIDE DEF u
<1>5. /\ [u EXCEPT !.root = Null].root = Null /\ [u EXCEPT !.root = Null].parent = u.parent
      /\ [u EXCEPT !.left[p] = Null].root = u.root /\ [u EXCEPT !.left[p] = Null].parent = u.parent
      /\ [u EXCEPT !.right[p] = Null].root = u.root /\ [u EXCEPT !.right[p] = Null].parent = u.parent
  BY <1>4 DEF Trees
<1> QED
  BY <1>2, <1>3, <1>5

LEMMA FlatNext ==
  ASSUME NEW t, Settled(t), NEW n \in Nodes
  PROVE  NextOf(t, n) = IF IsAttached(t, n) THEN t.parent[n] ELSE Null
<1> DEFINE step(f) == [p \in Nodes |->
             LET q == t.parent[p] IN IF q = Null \/ p # t.right[q] THEN q ELSE f[q]]
           up == CHOOSE f : f = step(f)
<1>1. t \in Trees /\ \A p \in Nodes : t.right[p] = Null /\ t.parent[p] \in Nodes \cup {Null} /\ p # Null
  BY NodesAssumption DEF Settled, Flat, Trees
<1>2. step([p \in Nodes |-> t.parent[p]]) = [p \in Nodes |-> t.parent[p]]
  BY <1>1
<1>3. up = step(up)
  <2>1. \E f : f = step(f)
    BY <1>2
  <2> HIDE DEF step
  <2> QED
    BY <2>1
<1>4. up[n] = t.parent[n]
  BY <1>1, <1>3
<1> HIDE DEF up
<1>5. NextOf(t, n) = IF t.parent[n] = n THEN Null ELSE up[n]
  BY <1>1 DEF NextOf, up
<1> QED
  BY <1>4, <1>5 DEF IsAttached

LEMMA FlatBegin ==
  ASSUME NEW t, Settled(t)
  PROVE  Begin(t) = t.root
<1> DEFINE step(f) == [p \in Nodes |-> IF t.left[p] = Null THEN p ELSE f[t.left[p]]]
           first == CHOOSE f : f = step(f)
<1>1. t \in Trees /\ \A p \in Nodes : t.left[p] = Null
  BY DEF Settled, Flat
<1>2. step([p \in Nodes |-> p]) = [p \in Nodes |-> p]
  BY <1>1
<1>3. first = step(first)
  <2>1. \E f : f = step(f)
    BY <1>2
  <2> HIDE DEF step
  <2> QED
    BY <2>1
<1>4. \A p \in Nodes : first[p] = p
  BY <1>1, <1>3
<1> HIDE DEF first
<1>5. \A p \in Nodes : Leftmost(t, p) = p
  BY <1>4 DEF Leftmost, first
<1> QED
  BY <1>1, <1>5 DEF Begin, Trees

-----------------------------------------------------------------------------
(* Any number of timers are served as TimerService promises, but for what     *)
(* remove() leaves behind.                                                    *)

\* Root, and the parent of every attached timer, are attached or null.
Chain(t) ==
  /\ t.root # Null => IsAttached(t, t.root)
  /\ \A n \in Nodes : IsAttached(t, n) /\ t.parent[n] # Null => IsAttached(t, t.parent[n])

\* Until a timer is removed while another is set the attached timers form a
\* chain, and the pass is at one of them; no interval is beyond the clock.
ServedInv ==
  /\ TimersInv
  /\ \A n \in Timers : interval[n] <= MaxTime
  /\ ts \in Nat /\ ts <= now
  /\ it \in Timers \cup {Null} /\ (it # Null => lpc = "emit")
  /\ intact \in BOOLEAN
  /\ intact => Chain(tree) /\ (it # Null => IsAttached(tree, it))

\* What the service sees of the domain, and the steps ServedUnlessStale allows.
Armed == {n \in Timers : IsAttached(tree, n)}
Repeats == {n \in Timers : mode[n] = "interval" /\ interval[n] # 0}
ServiceStep == [Service!ServiceNext]_(Service!serviceVars)
ServedStep ==
  \/ ServiceStep
  \/ ~intact /\ (FiresDetached \/ SetIsLost)
  \/ RespawnIsLost

\* A step that touches neither timers nor their count.
LEMMA QuietStep ==
  ASSUME UNCHANGED <<tree, timerVars, now, beat>>
  PROVE  ServiceStep
BY DEF ServiceStep, Service!serviceVars, timerVars

LEMMA ModeChanges ==
  ASSUME NEW n \in Timers, TimersTypeOK, NEW m \in Modes, NEW i,
         mode' = [mode EXCEPT ![n] = m], interval' = [interval EXCEPT ![n] = i]
  PROVE  Service!ChangeMode(n)
<1>1. Repeats' = Repeats \cup {n} \/ Repeats' = Repeats \ {n}
  <2>1. /\ mode'[n] = m /\ interval'[n] = i
        /\ \A d \in Timers \ {n} : mode'[d] = mode[d] /\ interval'[d] = interval[d]
    BY DEF TimersTypeOK
  <2>2. CASE m = "interval" /\ i # 0
    <3>1. Repeats' = Repeats \cup {n}
      BY <2>1, <2>2 DEF Repeats
    <3> QED BY <3>1
  <2>3. CASE ~(m = "interval" /\ i # 0)
    <3>1. Repeats' = Repeats \ {n}
      BY <2>1, <2>3 DEF Repeats
    <3> QED BY <3>1
  <2> QED BY <2>2, <2>3
<1> QED
  BY <1>1 DEF Service!ChangeMode, Repeats

\* A timer linked above Root, and one whose links are cut, alone change.
LEMMA Linked ==
  ASSUME NEW n \in Timers, Settled(tree), Settled(tree'),
         tree'.parent = [tree.parent EXCEPT ![n] = tree'.parent[n]]
  PROVE  /\ tree'.parent[n] # n => Armed' = Armed \cup {n}
         /\ tree'.parent[n] = n => Armed' = Armed \ {n}
         /\ \A d \in Nodes \ {n} : tree'.parent[d] = tree.parent[d]
<1>1. \A d \in Nodes \ {n} : tree'.parent[d] = tree.parent[d]
  BY DEF Settled, Trees, Timers
<1> QED
  BY <1>1 DEF Armed, IsAttached, Timers

\* setOnce and setInterval.
LEMMA ServedSet ==
  ASSUME ServedInv, it = Null, NEW n \in Timers, NEW m \in Modes, NEW i \in Intervals,
         now + i <= MaxTime, Set(n, m, i), UNCHANGED <<now, loopVars, beat, intact>>
  PROVE  ServedInv' /\ ServedStep
<1>1. /\ TimersInv /\ TimersTypeOK /\ Settled(tree) /\ n \in Nodes /\ n # Null
      /\ now \in Nat /\ i \in Nat /\ MaxTime \in Nat
  BY TimersAssumption, NodesAssumption DEF ServedInv, TimersInv, TimersTypeOK, Timers
<1>2. TimersInv' /\ Settled(tree')
  <2>1. TimersInv'
    BY <1>1, SetKeeps
  <2> QED
    BY <2>1 DEF TimersInv
<1>3. mode' = [mode EXCEPT ![n] = m] /\ interval' = [interval EXCEPT ![n] = i]
  BY DEF Set
<1>4. \A d \in Timers : interval'[d] <= MaxTime
  BY <1>1, <1>3 DEF TimersTypeOK, ServedInv
<1>5. /\ it' = Null /\ ts' = ts /\ now' = now /\ ts \in Nat /\ ts <= now /\ beat' = beat
      /\ intact' = intact /\ intact \in BOOLEAN /\ (intact => Chain(tree))
  BY DEF loopVars, ServedInv
<1>6. Service!ChangeMode(n)
  BY <1>1, <1>3, ModeChanges
<1>7. ASSUME intact => Chain(tree') PROVE ServedInv'
  BY <1>2, <1>4, <1>5, <1>7 DEF ServedInv
<1>8. CASE IsAttached(tree, n) \/ i = 0
  <2>1. UNCHANGED <<tree, stamp>>
    BY <1>8 DEF Set
  <2>2. ServedInv'
    BY <1>5, <1>7, <2>1
  <2>3. Service!Adjust(n)
    BY <1>5, <1>6, <2>1 DEF Service!Adjust
  <2> QED BY <2>2, <2>3 DEF ServedStep, ServiceStep, Service!ServiceNext
<1>9. CASE ~(IsAttached(tree, n) \/ i = 0)
  <2>1. stamp' = [stamp EXCEPT ![n] = now + i] /\ tree' = Insert(tree, n, Earlier(stamp', n))
    BY <1>9 DEF Set, Attach
  <2>2. tree'.root = n /\ tree'.parent = [tree.parent EXCEPT ![n] = tree.root]
    BY <1>1, <2>1, FlatInsert
  <2>3. tree'.parent[n] = tree.root /\ tree.root \in Nodes \cup {Null}
    BY <1>1, <2>2 DEF Settled, Trees
  <2>4. \A d \in Nodes \ {n} : tree'.parent[d] = tree.parent[d]
    BY <1>1, <1>2, <2>2, <2>3, Linked
  <2>5. CASE tree.root = n
    <3>1. ~intact
      BY <1>1, <1>5, <1>9, <2>5 DEF Chain
    <3>2. SetIsLost
      BY <1>1, <1>9, <2>5 DEF SetIsLost
    <3> QED
      BY <1>7, <3>1, <3>2 DEF ServedStep
  <2>6. CASE tree.root # n
    <3>1. Armed' = Armed \cup {n}
      BY <1>1, <1>2, <2>2, <2>3, <2>6, Linked
    <3>2. intact => Chain(tree')
      <4> SUFFICES ASSUME intact PROVE Chain(tree')
        OBVIOUS
      <4>1. IsAttached(tree', n)
        BY <2>3, <2>6 DEF IsAttached
      <4>2. \A d \in Nodes : IsAttached(tree, d) => IsAttached(tree', d)
        BY <2>4, <4>1 DEF IsAttached
      <4>3. tree'.parent[n] # Null => IsAttached(tree', tree'.parent[n])
        BY <1>5, <2>3, <4>2 DEF Chain
      <4>4. ASSUME NEW d \in Nodes \ {n}, IsAttached(tree', d), tree'.parent[d] # Null
            PROVE  IsAttached(tree', tree'.parent[d])
        <5>1. tree'.parent[d] = tree.parent[d] /\ IsAttached(tree, d)
          BY <2>4, <4>4 DEF IsAttached
        <5>2. tree.parent[d] \in Nodes
          BY <1>1, <4>4, <5>1 DEF Settled, Trees
        <5> QED
          BY <1>5, <4>2, <4>4, <5>1, <5>2 DEF Chain
      <4> QED
        BY <2>2, <4>1, <4>3, <4>4 DEF Chain
    <3>3. now + i \in now + 1 .. MaxTime
      BY <1>1, <1>9
    <3>4. n \notin Armed
      BY <1>9 DEF Armed
    <3>5. Service!Arm(n)
      BY <1>5, <1>6, <2>1, <3>1, <3>3, <3>4 DEF Service!Arm, Armed
    <3> QED
      BY <1>7, <3>2, <3>5 DEF ServedStep, ServiceStep, Service!ServiceNext
  <2> QED
    BY <2>5, <2>6
<1> QED BY <1>8, <1>9

\* The last attached timer of a chain is above none, and its removal leaves an
\* empty tree.
LEMMA LastOfChain ==
  ASSUME Settled(tree), Chain(tree), NEW n \in Timers, IsAttached(tree, n),
         \A d \in Timers \ {n} : ~IsAttached(tree, d)
  PROVE  tree.parent[n] = Null /\ tree.root \in {n, Null}
<1>1. tree.parent[n] \in Nodes \cup {Null} /\ tree.root \in Nodes \cup {Null} /\ n \in Nodes
  BY DEF Settled, Trees, Timers
<1>2. tree.parent[n] # n
  BY DEF IsAttached
<1>3. ASSUME tree.parent[n] # Null PROVE FALSE
  <2>1. IsAttached(tree, tree.parent[n])
    BY <1>1, <1>3 DEF Chain
  <2> QED
    BY <1>1, <1>2, <1>3, <2>1 DEF Timers
<1> QED
  BY <1>1, <1>3 DEF Chain, Timers

LEMMA ServedStop ==
  ASSUME ServedInv, it = Null, NEW n \in Timers, Stop(n), Removal(n),
         UNCHANGED <<now, loopVars, beat>>
  PROVE  ServedInv' /\ ServedStep
<1>1. /\ TimersInv /\ TimersTypeOK /\ Settled(tree) /\ n \in Nodes
  BY DEF ServedInv, TimersInv, Timers
<1>2. TimersInv' /\ Settled(tree')
  <2>1. TimersInv'
    BY <1>1, StopKeeps
  <2> QED
    BY <2>1 DEF TimersInv
<1>3. /\ it' = Null /\ ts' = ts /\ now' = now /\ ts \in Nat /\ ts <= now /\ beat' = beat
      /\ mode' = mode /\ interval' = interval /\ stamp' = stamp
      /\ intact \in BOOLEAN /\ (intact => Chain(tree))
      /\ \A d \in Timers : interval[d] <= MaxTime
  BY DEF loopVars, timerVars, Stop, ServedInv
<1>4. intact' \in BOOLEAN
  BY <1>3 DEF Removal
<1>5. ASSUME intact' => Chain(tree') PROVE ServedInv'
  BY <1>2, <1>3, <1>4, <1>5 DEF ServedInv
<1>6. CASE ~IsAttached(tree, n)
  <2>1. tree' = tree
    BY <1>6 DEF Stop
  <2>2. intact' = intact
    BY <1>3, <1>6 DEF Removal
  <2> QED
    BY <1>3, <1>5, <2>1, <2>2, QuietStep DEF timerVars, ServedStep
<1>7. CASE IsAttached(tree, n)
  <2>1. tree' = Remove(tree, n)
    BY <1>7 DEF Stop
  <2>2. /\ tree'.root = IF tree.parent[n] = Null THEN Null ELSE tree.root
        /\ tree'.parent = [tree.parent EXCEPT ![n] = n]
    BY <1>1, <2>1, FlatRemove
  <2>3. tree'.parent[n] = n
    BY <1>1, <2>2 DEF Settled, Trees
  <2>4. /\ Armed' = Armed \ {n}
        /\ \A d \in Nodes \ {n} : tree'.parent[d] = tree.parent[d]
    BY <1>1, <1>2, <2>2, <2>3, Linked
  <2>5. ASSUME intact' PROVE Chain(tree')
    <3>1. intact /\ \A d \in Timers \ {n} : ~IsAttached(tree, d)
      BY <1>7, <2>5 DEF Removal
    <3>2. tree.parent[n] = Null
      BY <1>1, <1>3, <1>7, <3>1, LastOfChain
    <3>3. \A d \in Nodes : ~IsAttached(tree', d)
      BY <2>3, <2>4, <3>1 DEF IsAttached, Timers
    <3> QED
      BY <2>2, <3>2, <3>3 DEF Chain
  <2>6. n \in Armed
    BY <1>7 DEF Armed
  <2>7. Service!Disarm(n)
    BY <1>3, <2>4, <2>6 DEF Service!Disarm, Armed
  <2> QED
    BY <1>5, <2>5, <2>7 DEF ServedStep, ServiceStep, Service!ServiceNext
<1> QED BY <1>6, <1>7

\* Expiry: the timer the pass is at fires.
LEMMA ServedFire ==
  ASSUME ServedInv, EmitTimer
  PROVE  ServedInv' /\ ServedStep
<1> DEFINE n == it
<1>1. /\ TimersInv /\ TimersTypeOK /\ Settled(tree) /\ n \in Timers /\ n \in Nodes /\ n # Null
      /\ stamp[n] <= ts /\ ts \in Nat /\ ts <= now /\ now \in Nat /\ interval[n] \in Nat
      /\ interval[n] <= MaxTime /\ now <= MaxTime /\ MaxTime \in Nat /\ stamp[n] \in Nat
      /\ intact \in BOOLEAN /\ lpc = "emit"
      /\ intact => Chain(tree) /\ IsAttached(tree, n)
      /\ \A d \in Timers : interval[d] <= MaxTime
  BY IntervalsAreNat, TimersAssumption
     DEF EmitTimer, Expired, ServedInv, TimersInv, TimersTypeOK, Timers
<1>2. /\ Expire(n) /\ it' = NextOf(tree, n) /\ now' = now /\ lpc' = lpc /\ ts' = ts
      /\ beat' = [beat EXCEPT ![n] = 1 - @] /\ Removal(n)
  BY DEF EmitTimer
<1>3. TimersInv' /\ Settled(tree')
  <2>1. TimersInv'
    BY <1>1, <1>2, ExpireKeeps
  <2> QED
    BY <2>1 DEF TimersInv
<1>4. it' = IF IsAttached(tree, n) THEN tree.parent[n] ELSE Null
  BY <1>1, <1>2, FlatNext
<1>5. it' \in Timers \cup {Null}
  BY <1>1, <1>4 DEF Settled, Trees, Timers
<1>6. mode' = mode /\ interval' = interval
  BY <1>2 DEF Expire
<1>7. /\ intact' \in BOOLEAN
      /\ intact' => /\ intact
                    /\ IsAttached(tree, n) => \A d \in Timers \ {n} : ~IsAttached(tree, d)
  BY <1>1, <1>2 DEF Removal
<1>8. intact' => it' = Null /\ tree.parent[n] = Null
  BY <1>1, <1>4, <1>7, LastOfChain
<1> HIDE DEF n
<1>9. ASSUME intact' => Chain(tree') PROVE ServedInv'
  BY <1>1, <1>2, <1>3, <1>5, <1>6, <1>7, <1>8, <1>9 DEF ServedInv
<1>10. CASE ~IsAttached(tree, n)
  <2>1. ~intact /\ ~intact'
    BY <1>1, <1>7, <1>10
  <2>2. FiresDetached
    BY <1>10 DEF FiresDetached, n
  <2> QED
    BY <1>9, <2>1, <2>2 DEF ServedStep
<1>11. CASE IsAttached(tree, n)
  <2>1. /\ Remove(tree, n).root = IF tree.parent[n] = Null THEN Null ELSE tree.root
        /\ Remove(tree, n).parent = [tree.parent EXCEPT ![n] = n]
        /\ Settled(Remove(tree, n))
    BY <1>1, FlatRemove, RemoveSettled
  <2>2. n \in Armed /\ stamp[n] <= now
    BY <1>1, <1>11 DEF Armed
  <2>3. CASE mode[n] = "interval" /\ interval[n] # 0
    <3>1. stamp' = [stamp EXCEPT ![n] = now + interval[n]]
          /\ tree' = Insert(Remove(tree, n), n, Earlier(stamp', n))
      BY <1>2, <1>11, <2>3 DEF Expire, Attach
    <3>2. tree'.root = n
          /\ tree'.parent = [Remove(tree, n).parent EXCEPT ![n] = Remove(tree, n).root]
      BY <1>1, <2>1, <3>1, FlatInsert
    <3>3. tree'.parent[n] = Remove(tree, n).root
          /\ tree'.parent = [tree.parent EXCEPT ![n] = tree'.parent[n]]
      BY <1>1, <2>1, <3>2 DEF Settled, Trees
    <3>4. \A d \in Nodes \ {n} : tree'.parent[d] = tree.parent[d]
      BY <1>1, <1>3, <3>3, Linked
    <3>5. ASSUME intact' PROVE Chain(tree')
      <4>1. tree'.parent[n] = Null /\ \A d \in Nodes \ {n} : ~IsAttached(tree, d)
        BY <1>7, <1>8, <1>11, <2>1, <3>3, <3>5 DEF Timers
      <4>2. \A d \in Nodes \ {n} : ~IsAttached(tree', d)
        BY <3>4, <4>1 DEF IsAttached
      <4>3. IsAttached(tree', n)
        BY <1>1, <4>1 DEF IsAttached
      <4> QED
        BY <3>2, <4>1, <4>2, <4>3 DEF Chain
    <3>6. CASE n = tree.root /\ tree.parent[n] # Null
      <4>1. RespawnIsLost
        BY <2>3, <3>6 DEF RespawnIsLost, n
      <4> QED
        BY <1>9, <3>5, <4>1 DEF ServedStep
    <3>7. CASE ~(n = tree.root /\ tree.parent[n] # Null)
      <4>1. tree'.parent[n] # n
        BY <1>1, <2>1, <3>3, <3>7
      <4>2. Armed' = Armed \cup {n}
        BY <1>1, <1>3, <3>3, <4>1, Linked
      <4>3. Armed' = Armed /\ n \in Repeats /\ Repeats' = Repeats
        BY <1>1, <1>6, <2>2, <2>3, <4>2 DEF Repeats
      <4>4. now + interval[n] \in now + 1 .. 2 * MaxTime
        BY <1>1, <2>3
      <4>5. Service!Fire(n)
        BY <1>2, <2>2, <3>1, <4>3, <4>4 DEF Service!Fire, Armed, Repeats
      <4> QED
        BY <1>1, <1>9, <3>5, <4>5 DEF ServedStep, ServiceStep, Service!ServiceNext
    <3> QED
      BY <3>6, <3>7
  <2>4. CASE ~(mode[n] = "interval" /\ interval[n] # 0)
    <3>1. stamp' = stamp /\ tree' = Remove(tree, n)
      BY <1>2, <1>11, <2>4 DEF Expire
    <3>2. tree'.parent[n] = n
      BY <1>1, <2>1, <3>1 DEF Settled, Trees
    <3>3. /\ Armed' = Armed \ {n}
          /\ \A d \in Nodes \ {n} : tree'.parent[d] = tree.parent[d]
      BY <1>1, <1>3, <2>1, <3>1, <3>2, Linked
    <3>4. ASSUME intact' PROVE Chain(tree')
      <4>1. \A d \in Nodes : ~IsAttached(tree', d)
        BY <1>7, <1>11, <3>2, <3>3, <3>4 DEF IsAttached, Timers
      <4> QED
        BY <1>8, <2>1, <3>1, <3>4, <4>1 DEF Chain
    <3>5. n \notin Repeats /\ Repeats' = Repeats
      BY <1>6, <2>4 DEF Repeats
    <3>6. Service!Fire(n)
      BY <1>2, <2>2, <3>1, <3>3, <3>5 DEF Service!Fire, Armed, Repeats
    <3> QED
      BY <1>1, <1>9, <3>4, <3>6 DEF ServedStep, ServiceStep, Service!ServiceNext
  <2> QED
    BY <2>3, <2>4
<1> QED BY <1>10, <1>11

LEMMA ServedStart == Init => ServedInv /\ Service!ServiceInit
<1> SUFFICES ASSUME Init PROVE ServedInv /\ Service!ServiceInit
  OBVIOUS
<1>1. /\ TimersInit /\ lpc = "out" /\ it = Null /\ ts = 0
      /\ beat = [d \in Timers |-> 0] /\ intact = TRUE
  BY DEF Init
<1>2. TimersInv
  BY <1>1, TimersInitially
<1>3. /\ tree = NewTree /\ mode = [d \in Timers |-> "once"] /\ interval = [d \in Timers |-> 0]
      /\ stamp = [d \in Timers |-> 0] /\ now = 0 /\ MaxTime \in Nat
  BY <1>1, TimersAssumption DEF TimersInit
<1>4. tree.root = Null /\ \A d \in Nodes : ~IsAttached(tree, d)
  BY <1>3 DEF NewTree, IsAttached
<1>5. ServedInv
  BY <1>1, <1>2, <1>3, <1>4 DEF ServedInv, Chain
<1>6. Armed = {} /\ Repeats = {}
  BY <1>3, <1>4 DEF Armed, Repeats, Timers
<1> QED
  BY <1>1, <1>3, <1>5, <1>6 DEF Service!ServiceInit, Armed, Repeats

LEMMA ServedNext ==
  ASSUME ServedInv, [Next]_vars
  PROVE  ServedInv' /\ ServedStep
<1>1. /\ TimersInv /\ TimersTypeOK /\ Settled(tree) /\ ts \in Nat /\ ts <= now /\ now \in Nat
      /\ it \in Timers \cup {Null} /\ (it # Null => lpc = "emit")
      /\ intact \in BOOLEAN /\ (intact => Chain(tree) /\ (it # Null => IsAttached(tree, it)))
      /\ \A d \in Timers : interval[d] <= MaxTime
  BY TimersAssumption DEF ServedInv, TimersInv, TimersTypeOK
\* Steps that leave the timers alone and the pass where it is, or at another place.
<1>2. ASSUME UNCHANGED <<tree, timerVars, now, beat, intact>>,
             it' \in Timers \cup {Null}, it' # Null => lpc' = "emit",
             ts' \in Nat /\ ts' <= now,
             intact => (it' # Null => IsAttached(tree, it'))
      PROVE  ServedInv' /\ ServedStep
  <2>1. TimersInv'
    BY <1>1, <1>2 DEF TimersInv, TimersTypeOK, timerVars
  <2>2. ServedInv'
    BY <1>1, <1>2, <2>1 DEF ServedInv, timerVars
  <2> QED
    BY <1>2, <2>2, QuietStep DEF ServedStep
<1>3. ASSUME UNCHANGED <<tree, timerVars, now, loopVars, histVars>>
      PROVE  ServedInv' /\ ServedStep
  BY <1>1, <1>2, <1>3 DEF loopVars, histVars
<1>4. CASE Poll
  BY <1>1, <1>2, <1>4 DEF Poll, histVars
<1>5. CASE Destroy
  BY <1>1, <1>2, <1>5 DEF Destroy, histVars
<1>6. CASE Dispatch
  BY <1>1, <1>2, <1>6 DEF Dispatch, histVars
<1>7. CASE EmitBegin
  <2>1. /\ it' = tree.root /\ ts' = now /\ lpc' = "emit"
        /\ UNCHANGED <<tree, timerVars, now, beat, intact>>
    BY <1>1, <1>7, FlatBegin DEF EmitBegin, histVars
  <2>2. tree.root \in Timers \cup {Null}
    BY <1>1 DEF Settled, Trees, Timers
  <2> QED
    BY <1>1, <1>2, <2>1, <2>2 DEF Chain
<1>8. CASE EmitBusy
  <2>1. it \in Timers /\ it' = NextOf(tree, it) /\ ts' = ts /\ lpc' = "emit"
        /\ UNCHANGED <<tree, timerVars, now, beat, intact>>
    BY <1>1, <1>8 DEF EmitBusy, Expired, histVars
  <2>2. it' = IF IsAttached(tree, it) THEN tree.parent[it] ELSE Null
    BY <1>1, <2>1, FlatNext DEF Timers
  <2>3. it' \in Timers \cup {Null}
    BY <1>1, <2>1, <2>2 DEF Settled, Trees, Timers
  <2>4. intact => (it' # Null => IsAttached(tree, it'))
    BY <1>1, <2>1, <2>2 DEF Chain, Timers
  <2> QED
    BY <1>1, <1>2, <2>1, <2>3, <2>4
<1>9. CASE EmitTimer
  BY <1>9, ServedFire
<1>10. CASE EmitEnd
  BY <1>1, <1>2, <1>10 DEF EmitEnd, histVars
<1>11. CASE Joined
  BY <1>1, <1>2, <1>11 DEF Joined, histVars
<1>12. ASSUME TimerCall, UNCHANGED <<now, loopVars, beat>>, it = Null
       PROVE  ServedInv' /\ ServedStep
  <2>1. PICK n \in Timers :
          \/ \E m \in Modes, i \in Intervals :
               now + i <= MaxTime /\ Set(n, m, i) /\ UNCHANGED intact
          \/ Stop(n) /\ Removal(n)
    BY <1>12 DEF TimerCall
  <2>2. CASE \E m \in Modes, i \in Intervals :
               now + i <= MaxTime /\ Set(n, m, i) /\ UNCHANGED intact
    BY <1>12, <2>2, ServedSet
  <2>3. CASE Stop(n) /\ Removal(n)
    BY <1>12, <2>3, ServedStop
  <2> QED
    BY <2>1, <2>2, <2>3
<1>13. ASSUME NEW w \in Workers, WorkerStep(w) \/ Call(w)
       PROVE  ServedInv' /\ ServedStep
  <2>1. CASE Operate(w)
    <3>1. it = Null
      BY <1>1, <2>1 DEF Operate, LockFree
    <3> QED
      BY <1>12, <2>1, <3>1 DEF Operate
  <2>2. CASE ~Operate(w)
    <3>1. UNCHANGED <<tree, timerVars, now, loopVars, histVars>>
      BY <1>13, <2>2 DEF WorkerStep, Handle, HandlerEnds, WorkerExits, Call
    <3> QED
      BY <1>3, <3>1
  <2> QED
    BY <2>1, <2>2
<1>14. CASE AppCall
  BY <1>1, <1>12, <1>14 DEF AppCall
<1>15. CASE TimePasses
  <2>1. now' = now + 1 /\ UNCHANGED <<tree, timerVars, loopVars, beat, intact>> /\ now < MaxTime
    BY <1>15 DEF TimePasses, Tick, histVars
  <2>2. TimersInv'
    BY <1>1, <2>1, TimersAssumption DEF TimersInv, TimersTypeOK, timerVars
  <2>3. ServedInv'
    BY <1>1, <2>1, <2>2 DEF ServedInv, timerVars, loopVars
  <2>4. Service!Tick
    BY <2>1 DEF Service!Tick, timerVars
  <2> QED
    BY <2>3, <2>4 DEF ServedStep, ServiceStep, Service!ServiceNext
<1>16. CASE UNCHANGED vars
  BY <1>3, <1>16 DEF vars
<1> QED
  BY <1>4, <1>5, <1>6, <1>7, <1>8, <1>9, <1>10, <1>11, <1>13, <1>14, <1>15, <1>16
     DEF Next, LoopStep

\* For any number of timers, whatever the subscribers, workers and intervals,
\* every step of the domain (EventDomain.cpp:16-36, TimerTree.cpp:16-92) is one of
\* the timer service, or one of the three in which RBTree::remove has left a
\* detached timer within reach: a timer that is set fires only when its deadline
\* has passed, once, and is then disarmed or armed for a later time.
THEOREM TimersAreServed == Spec => ServedUnlessStale
<1>1. Init => ServedInv /\ Service!ServiceInit
  BY ServedStart
<1>2. ServedInv /\ [Next]_vars
        => ServedInv' /\ [\/ [Service!ServiceNext]_(Service!serviceVars)
                          \/ ~intact /\ (FiresDetached \/ SetIsLost)
                          \/ RespawnIsLost]_vars
  BY ServedNext DEF ServedStep, ServiceStep
<1> QED
  BY <1>1, <1>2, PTL DEF Spec, ServedUnlessStale

-----------------------------------------------------------------------------
(* Dictionaries. *)

\* A lookup in a flat tree ends at Root, with Root or with nothing.
LEMMA FindInFlat ==
  ASSUME Settled(items), NEW k \in Keys
  PROVE  Find(k) \in Nodes \cup {Null}
<1> DEFINE q(p) == IF Greater(k, KeyOf[p]) THEN items.right[p] ELSE items.left[p]
           step(f) == [p \in Items |->
                         IF KeyOf[p] = k THEN p ELSE IF q(p) = Null THEN Null ELSE f[q(p)]]
           to == CHOOSE f : f = step(f)
           here == [p \in Items |-> IF KeyOf[p] = k THEN p ELSE Null]
<1>1. \A p \in Nodes : q(p) = Null
  BY DEF Settled, Flat
<1>2. here = step(here)
  BY <1>1 DEF Items
<1>3. to = step(to)
  <2> HIDE DEF step, here
  <2>1. \E f : f = step(f)
    BY <1>2
  <2> QED BY <2>1
<1>4. \A p \in Nodes : to[p] \in Nodes \cup {Null}
  BY <1>1, <1>3 DEF Items
<1>5. items.root \in Nodes \cup {Null}
  BY DEF Settled, Trees
<1> QED BY <1>4, <1>5 DEF Find

\* The invariant holds initially and is kept by every operation.
LEMMA DictionaryInvariance == DictionarySpec => [](Settled(items) /\ inside \subseteq Items)
<1> DEFINE DInv == Settled(items) /\ inside \subseteq Items
<1>1. DictionaryInit => DInv
  BY NewTreeSettled DEF DictionaryInit
<1>2. DInv /\ [DictionaryNext]_dictionaryVars => DInv'
  <2> SUFFICES ASSUME DInv, [DictionaryNext]_dictionaryVars PROVE DInv'
    OBVIOUS
  <2>1. ASSUME NEW i \in Items, InsertItem(i) PROVE DInv'
    <3>1. CASE UNCHANGED dictionaryVars
      BY <3>1 DEF dictionaryVars
    <3>2. CASE /\ items' = Insert(items, i, {m \in Items : Greater(KeyOf[i], KeyOf[m])})
               /\ inside' = inside \cup {i}
      BY <2>1, <3>2, InsertSettled DEF Items
    <3> QED BY <2>1, <3>1, <3>2 DEF InsertItem
  <2>2. ASSUME NEW i \in Items, RemoveItem(i) PROVE DInv'
    <3>1. KeyOf[i] \in Keys
      BY <2>2, DictionaryAssumption DEF Items
    <3>2. Find(KeyOf[i]) \in Nodes
      BY <2>2, <3>1, FindInFlat DEF RemoveItem
    <3> QED BY <2>2, <3>2, RemoveSettled DEF RemoveItem
  <2>3. CASE UNCHANGED dictionaryVars
    BY <2>3 DEF dictionaryVars
  <2> QED BY <2>1, <2>2, <2>3 DEF DictionaryNext
<1> QED BY <1>1, <1>2, PTL DEF DictionarySpec

\* The pointers of a dictionary and of its items always are null or an item
\* (RBTree.cpp:172-275 links and unlinks them).
THEOREM DictionaryTypes == DictionarySpec => []DictionaryTypeOK
<1>1. Settled(items) /\ inside \subseteq Items => DictionaryTypeOK
  BY DEF Settled, DictionaryTypeOK
<1> QED BY <1>1, DictionaryInvariance, PTL

\* Whatever is inserted and removed, the tree of a dictionary never reaches a
\* rotation: it is as flat as that of the timers, and for the same reason.
THEOREM DictionaryNeverRotates == DictionarySpec => []FixupsAreDead
<1>1. Settled(items) /\ inside \subseteq Items => FixupsAreDead
  BY DEF Settled, FixupsAreDead
<1> QED BY <1>1, DictionaryInvariance, PTL
=============================================================================
