-------------------------- MODULE HTTPMessagesProofs --------------------------
(***************************************************************************)
(* Proofs about HTTPMessages, for any messages, whatever their length.     *)
(***************************************************************************)
EXTENDS HTTPMessages, SequenceTheorems, WellFoundedInduction, TLAPS

\* Induction over the natural numbers, as a fact about sets.
LEMMA SetInduction ==
  ASSUME NEW S, 0 \in S, \A n \in Nat : n \in S => n + 1 \in S
  PROVE  Nat \subseteq S
<1> DEFINE less == {q \in Nat \X Nat : q[1] < q[2]}
           T == Nat \ S
<1>1. IsWellFoundedOn(less, Nat)
  BY NatLessThanWellFounded, SMT DEF OpToRel
<1>2. SUFFICES ASSUME T # {} PROVE FALSE
  OBVIOUS
<1>3. T \subseteq Nat
  OBVIOUS
<1>4. PICK m \in T : \A k \in T : <<k, m>> \notin less
  <2> HIDE DEF T, less
  <2> QED
    BY <1>1, <1>2, <1>3, WFMin
<1>5. m \in Nat /\ m # 0 /\ m - 1 \in Nat
  OBVIOUS
<1>6. m - 1 \notin T
  <2>1. <<m - 1, m>> \in less
    BY <1>5
  <2> QED
    BY <1>4, <2>1
<1> QED
  BY <1>5, <1>6

-----------------------------------------------------------------------------
(* The loops.  Those of the automata and the one over the headers are the same
   loop around another turn. *)

Twice(b, again, i) == IF b.i = i /\ b.st \notin Ends THEN again ELSE b
Onward(loop, in, a) ==
  CASE loop = "headers" -> IF a.answer = "reading" THEN NextHeader(in, a) ELSE a
    [] loop = "header" ->
         IF a.st \in Ends THEN a ELSE Twice(HeaderStep(in, a), HeaderStep(in, HeaderStep(in, a)), a.i)
    [] loop = "line" ->
         IF a.st \in Ends THEN a ELSE Twice(LineStep(in, a), LineStep(in, LineStep(in, a)), a.i)
    [] loop = "response" ->
         IF a.st \in Ends THEN a ELSE Twice(ResponseStep(in, a), ResponseStep(in, ResponseStep(in, a)), a.i)

Turns(loop, in, first, from, to, f) ==
  f = [k \in from .. to |-> IF k = from THEN first ELSE Onward(loop, in, f[k - 1])]

LEMMA LoopRuns ==
  ASSUME NEW loop, NEW in, NEW first, NEW from \in Int, NEW to \in Int, from <= to
  PROVE  \E f : Turns(loop, in, first, from, to, f)
<1> DEFINE S == {n \in Nat : \E f : Turns(loop, in, first, from, from + n, f)}
<1>1. 0 \in S
  <2> DEFINE f == [k \in from .. from + 0 |-> first]
  <2>1. f = [k \in from .. from + 0 |-> IF k = from THEN first ELSE Onward(loop, in, f[k - 1])]
    <3>1. \A k \in from .. from + 0 : k = from
      OBVIOUS
    <3> QED BY <3>1
  <2> HIDE DEF f
  <2> QED BY <2>1 DEF Turns
<1>2. ASSUME NEW n \in Nat, n \in S PROVE n + 1 \in S
  <2>1. PICK f : Turns(loop, in, first, from, from + n, f)
    BY <1>2
  <2> DEFINE g == [k \in from .. from + (n + 1) |-> IF k <= from + n THEN f[k] ELSE Onward(loop, in, f[from + n])]
  <2>2. \A k \in from .. from + n : f[k] = IF k = from THEN first ELSE Onward(loop, in, f[k - 1])
    BY <2>1 DEF Turns
  <2>3. \A k \in from .. from + (n + 1) : g[k] = IF k = from THEN first ELSE Onward(loop, in, g[k - 1])
    <3> TAKE k \in from .. from + (n + 1)
    <3>1. CASE k <= from + n
      <4>1. g[k] = f[k] /\ (k # from => g[k - 1] = f[k - 1])
        BY <3>1
      <4> HIDE DEF g
      <4> QED BY <2>2, <3>1, <4>1
    <3>2. CASE k = from + (n + 1)
      <4>1. k # from /\ g[k] = Onward(loop, in, f[from + n]) /\ g[k - 1] = f[from + n]
        BY <3>2
      <4> HIDE DEF g
      <4> QED BY <4>1
    <3> QED BY <3>1, <3>2
  <2>4. g = [k \in from .. from + (n + 1) |-> g[k]]
    OBVIOUS
  <2> HIDE DEF g
  <2>5. Turns(loop, in, first, from, from + (n + 1), g)
    BY <2>3, <2>4 DEF Turns
  <2> QED BY <2>5
<1>3. to - from \in S
  <2> HIDE DEF S
  <2> QED BY <1>1, <1>2, SetInduction
<1>4. from + (to - from) = to
  OBVIOUS
<1> QED BY <1>3, <1>4

\* What a loop is after its last turn.
Looped(loop, in, first, from, to) == (CHOOSE f : Turns(loop, in, first, from, to, f))[to]

-----------------------------------------------------------------------------
(* Header lines. *)
HeaderStates == {"HDR_START", "HDR_NAME", "HDR_SPACE_BEFORE_VALUE", "HDR_VALUE",
                 "HDR_SPACE_AFTER_VALUE", "HDR_IGNORE_LINE", "HDR_ALMOST_DONE",
                 "HDR_HEADER_ALMOST_DONE"}

HeaderMarks == {"HeaderStart", "HeaderEnd", "ValueStart", "ValueEnd"}

\* Marks of a header line, all at the byte.
Here(m) == DOMAIN m \subseteq HeaderMarks /\ \A k \in DOMAIN m : m[k] = 0

\* What is true of every rule of the state st.
Leads(q, st) ==
  /\ q.to \in HeaderStates \cup Ends
  /\ q.back = FALSE
  /\ q.to = "NOMORE" => st = "HDR_HEADER_ALMOST_DONE"
  /\ Here(q.marks)

LEMMA NoMarks == Here(<<>>)
<1>1. DOMAIN <<>> = {}
  OBVIOUS
<1> QED BY <1>1 DEF Here

LEMMA HereOverlaid ==
  ASSUME NEW m, NEW n, Here(m), Here(n)
  PROVE  Here(m @@ n)
BY DEF Here, @@

LEMMA HeaderGo ==
  ASSUME NEW st, NEW on, NEW to, to \in (HeaderStates \cup Ends) \ {"NOMORE"}
  PROVE  Leads(Go(on, to), st)
BY NoMarks DEF Go, Leads
LEMMA HeaderAt ==
  ASSUME NEW st, NEW on, NEW to, to \in (HeaderStates \cup Ends) \ {"NOMORE"}, NEW m, Here(m)
  PROVE  Leads(At(m, Go(on, to)), st)
<1> DEFINE r == Go(on, to)
           q == At(m, r)
<1>1. q.to = to /\ q.back = FALSE /\ q.marks = m @@ <<>>
  BY DEF Go, At
<1>2. Here(m @@ <<>>)
  BY NoMarks, HereOverlaid
<1> HIDE DEF q
<1>3. Leads(q, st)
  BY <1>1, <1>2 DEF Leads
<1> QED BY <1>3 DEF q, r
LEMMA HeaderHeres ==
  /\ Here([HeaderStart |-> 0, ValueStart |-> 0])
  /\ Here([HeaderStart |-> 0, ValueStart |-> 0] @@ [ValueEnd |-> 0])
  /\ Here([HeaderEnd |-> 0])
  /\ Here([HeaderEnd |-> 0, ValueStart |-> 0, ValueEnd |-> 0])
  /\ Here([ValueStart |-> 0, ValueEnd |-> 0])
  /\ Here([ValueStart |-> 0])
  /\ Here([ValueEnd |-> 0])
<1>1. /\ Here([HeaderStart |-> 0, ValueStart |-> 0])
      /\ Here([HeaderEnd |-> 0])
      /\ Here([HeaderEnd |-> 0, ValueStart |-> 0, ValueEnd |-> 0])
      /\ Here([ValueStart |-> 0, ValueEnd |-> 0])
      /\ Here([ValueStart |-> 0])
      /\ Here([ValueEnd |-> 0])
  BY DEF Here, HeaderMarks
<1> QED BY <1>1, HereOverlaid
LEMMA HeaderLast ==
  ASSUME NEW on, NEW to \in Ends
  PROVE  Leads(Go(on, to), "HDR_HEADER_ALMOST_DONE")
BY NoMarks DEF Go, Leads
LEMMA HeaderTable ==
  ASSUME NEW st \in HeaderStates, NEW r \in HeaderRules[st]
  PROVE  Leads(r, st)
<1> USE DEF HeaderStates, Ends
<1>1. CASE st = "HDR_START"
  BY <1>1, HeaderGo, HeaderAt, HeaderHeres DEF HeaderRules
<1>2. CASE st = "HDR_NAME"
  BY <1>2, HeaderGo, HeaderAt, HeaderHeres DEF HeaderRules
<1>3. CASE st = "HDR_SPACE_BEFORE_VALUE"
  BY <1>3, HeaderGo, HeaderAt, HeaderHeres DEF HeaderRules
<1>4. CASE st = "HDR_VALUE"
  BY <1>4, HeaderGo, HeaderAt, HeaderHeres DEF HeaderRules
<1>5. CASE st = "HDR_SPACE_AFTER_VALUE"
  BY <1>5, HeaderGo, HeaderAt, HeaderHeres DEF HeaderRules
<1>6. CASE st = "HDR_IGNORE_LINE"
  BY <1>6, HeaderGo DEF HeaderRules
<1>7. CASE st = "HDR_ALMOST_DONE"
  BY <1>7, HeaderGo DEF HeaderRules
<1>8. CASE st = "HDR_HEADER_ALMOST_DONE"
  BY <1>8, HeaderLast DEF HeaderRules
<1> QED BY <1>1, <1>2, <1>3, <1>4, <1>5, <1>6, <1>7, <1>8

-----------------------------------------------------------------------------
(* One turn, and header lines. *)

Parts == {"st", "i", "marks", "flags", "numbers"}

\* What the rule r makes of the automaton a.
Moved(r, a, b) ==
  /\ DOMAIN b = Parts
  /\ b.st = r.to
  /\ b.i = IF r.back \/ r.to \in Ends THEN a.i ELSE a.i + 1
  /\ b.marks = [k \in DOMAIN r.marks |-> a.i + r.marks[k]] @@ a.marks
  /\ b.flags = a.flags \cup r.flags

LEMMA StepMoves ==
  ASSUME NEW table, NEW a, NEW c
  PROVE  \/ Step(table, a, c) = [a EXCEPT !.st = "BAD"]
         \/ \E r \in table[a.st] : Moved(r, a, Step(table, a, c))
<1> DEFINE fits == {r \in table[a.st] : c \in r.on}
           r == CHOOSE r \in fits : TRUE
<1>1. CASE fits = {}
  BY <1>1 DEF Step
<1>2. CASE fits # {}
  <2>1. r \in table[a.st]
    BY <1>2
  <2>2. Step(table, a, c) = Fire(r, a, c)
    BY <1>2 DEF Step
  <2> HIDE DEF r
  <2>3. Fire(r, a, c) = [a EXCEPT !.st = "BAD"] \/ Moved(r, a, Fire(r, a, c))
    <3> DEFINE read == IF r.digit = "" THEN <<>>
                ELSE r.digit :> (IF r.over = -1 THEN 0 ELSE 10 * a.numbers[r.digit]) + ValueOf(c)
               numbers == r.put @@ read @@ a.numbers
               flags == a.flags \cup r.flags
               b == [st |-> r.to,
                     i |-> IF r.back \/ r.to \in Ends THEN a.i ELSE a.i + 1,
                     marks |-> [k \in DOMAIN r.marks |-> a.i + r.marks[k]] @@ a.marks,
                     flags |-> flags, numbers |-> numbers]
    <3>1. Fire(r, a, c) = [a EXCEPT !.st = "BAD"] \/ Fire(r, a, c) = b
      BY DEF Fire
    <3>2. Moved(r, a, b)
      <4>1. flags = a.flags \cup r.flags
        OBVIOUS
      <4> HIDE DEF numbers, flags
      <4> QED BY <4>1 DEF Moved, Parts
    <3> HIDE DEF b
    <3> QED BY <3>1, <3>2
  <2> QED BY <2>1, <2>2, <2>3
<1> QED BY <1>1, <1>2

\* An automaton that began at off and has read the bytes before k: its marks lie
\* between.
HeaderMarked(off, i, marks) == DOMAIN marks = HeaderMarks /\ \A m \in HeaderMarks : marks[m] \in off .. i
HeaderSafe(off, k, a) ==
  /\ DOMAIN a = Parts
  /\ a.st \in HeaderStates \cup Ends
  /\ a.i \in Nat /\ off <= a.i
  /\ IF a.st \in Ends THEN a.i < k ELSE a.i = k
  /\ a.st \in {"HDR_HEADER_ALMOST_DONE", "NOMORE"} => off < a.i
  /\ HeaderMarked(off, a.i, a.marks)

LEMMA HeaderMarksMoved ==
  ASSUME NEW off \in Nat, NEW i \in Nat, off <= i, NEW marks, HeaderMarked(off, i, marks),
         NEW j \in {i, i + 1}, NEW m, Here(m)
  PROVE  HeaderMarked(off, j, [k \in DOMAIN m |-> i + m[k]] @@ marks)
<1> DEFINE new == [k \in DOMAIN m |-> i + m[k]]
           all == new @@ marks
<1>1. DOMAIN all = HeaderMarks
  BY DEF Here, HeaderMarked, @@
<1>2. \A k \in HeaderMarks : all[k] = IF k \in DOMAIN m THEN i + m[k] ELSE marks[k]
  BY <1>1 DEF @@
<1> HIDE DEF all
<1>3. ASSUME NEW k \in HeaderMarks PROVE all[k] \in off .. j
  <2>1. CASE k \in DOMAIN m
    <3>1. m[k] = 0
      BY <2>1 DEF Here
    <3>2. all[k] = i
      BY <1>2, <2>1, <3>1
    <3> QED BY <3>2
  <2>2. CASE k \notin DOMAIN m
    <3>1. all[k] = marks[k] /\ marks[k] \in off .. i
      BY <1>2, <2>2 DEF HeaderMarked
    <3> QED BY <3>1
  <2> QED BY <2>1, <2>2
<1>4. HeaderMarked(off, j, all)
  BY <1>1, <1>3 DEF HeaderMarked
<1> QED BY <1>4 DEF all

LEMMA HeaderTurn ==
  ASSUME NEW off \in Nat, NEW k \in Nat, NEW a, HeaderSafe(off, k, a), a.st \notin Ends, NEW in
  PROVE  /\ HeaderSafe(off, k + 1, HeaderStep(in, a))
         /\ HeaderStep(in, a).st \in Ends \/ HeaderStep(in, a).i # a.i
<1> DEFINE b == HeaderStep(in, a)
<1>1. a.st \in HeaderStates /\ a.i = k /\ off <= a.i /\ DOMAIN a = Parts /\ HeaderMarked(off, a.i, a.marks)
  BY DEF HeaderSafe
<1>2. b = [a EXCEPT !.st = "BAD"] \/ \E r \in HeaderRules[a.st] : Moved(r, a, b)
  BY StepMoves DEF HeaderStep
<1> HIDE DEF b
<1>3. CASE b = [a EXCEPT !.st = "BAD"]
  <2>1. b.st = "BAD" /\ b.i = a.i /\ DOMAIN b = Parts /\ b.marks = a.marks
    BY <1>1, <1>3 DEF Parts
  <2>2. HeaderSafe(off, k + 1, b) /\ b.st \in Ends
    BY <1>1, <2>1 DEF HeaderSafe, Ends
  <2> QED BY <2>2 DEF b
<1>4. CASE \E r \in HeaderRules[a.st] : Moved(r, a, b)
  <2>1. PICK r \in HeaderRules[a.st] : Moved(r, a, b)
    BY <1>4
  <2>2. Leads(r, a.st)
    BY <1>1, HeaderTable
  <2>3. /\ DOMAIN b = Parts /\ b.st = r.to /\ b.st \in HeaderStates \cup Ends
        /\ b.i = IF b.st \in Ends THEN a.i ELSE a.i + 1
        /\ b.st = "NOMORE" => a.st = "HDR_HEADER_ALMOST_DONE"
    BY <2>1, <2>2 DEF Moved, Leads
  <2>4. a.st = "HDR_HEADER_ALMOST_DONE" => off < a.i
    BY DEF HeaderSafe
  <2>5. "HDR_HEADER_ALMOST_DONE" \notin Ends
    BY DEF Ends
  <2>6. HeaderMarked(off, b.i, b.marks)
    <3>1. Here(r.marks) /\ b.marks = [m \in DOMAIN r.marks |-> a.i + r.marks[m]] @@ a.marks
      BY <2>1, <2>2 DEF Moved, Leads
    <3>2. b.i \in {a.i, a.i + 1}
      BY <2>3
    <3> QED BY <1>1, <3>1, <3>2, HeaderMarksMoved
  <2>7. HeaderSafe(off, k + 1, b)
    BY <1>1, <2>3, <2>4, <2>5, <2>6 DEF HeaderSafe
  <2> QED BY <1>1, <2>3, <2>7 DEF b
<1> QED BY <1>2, <1>3, <1>4

LEMMA HeaderOnward ==
  ASSUME NEW off \in Nat, NEW k \in Nat, NEW a, HeaderSafe(off, k, a), NEW in
  PROVE  HeaderSafe(off, k + 1, Onward("header", in, a))
<1>1. Onward("header", in, a) =
        IF a.st \in Ends THEN a ELSE Twice(HeaderStep(in, a), HeaderStep(in, HeaderStep(in, a)), a.i)
  BY DEF Onward
<1>2. CASE a.st \in Ends
  BY <1>1, <1>2 DEF HeaderSafe
<1>3. CASE a.st \notin Ends
  BY <1>1, <1>3, HeaderTurn DEF Twice
<1> QED BY <1>2, <1>3

LEMMA LoopIs ==
  ASSUME NEW loop, NEW in, NEW first, NEW from \in Int, NEW to \in Int, from <= to
  PROVE  \E f : /\ f[from] = first
                /\ \A k \in from + 1 .. to : f[k] = Onward(loop, in, f[k - 1])
                /\ Looped(loop, in, first, from, to) = f[to]
<1> DEFINE f == CHOOSE f : Turns(loop, in, first, from, to, f)
<1>1. Turns(loop, in, first, from, to, f)
  BY LoopRuns
<1>2. Looped(loop, in, first, from, to) = f[to]
  BY DEF Looped
<1> HIDE DEF f
<1>3. \A k \in from .. to : f[k] = IF k = from THEN first ELSE Onward(loop, in, f[k - 1])
  BY <1>1 DEF Turns
<1>4. f[from] = first /\ \A k \in from + 1 .. to : f[k] = Onward(loop, in, f[k - 1])
  BY <1>3
<1> QED BY <1>2, <1>4

LEMMA HeaderLooped ==
  ASSUME NEW off \in Nat, NEW from \in Nat, NEW to \in Nat, from <= to, NEW in, NEW first,
         HeaderSafe(off, from, first)
  PROVE  HeaderSafe(off, to, Looped("header", in, first, from, to))
<1>1. PICK f : /\ f[from] = first
               /\ \A k \in from + 1 .. to : f[k] = Onward("header", in, f[k - 1])
               /\ Looped("header", in, first, from, to) = f[to]
  BY LoopIs
<1> DEFINE S == {n \in Nat : from + n <= to => HeaderSafe(off, from + n, f[from + n])}
<1>2. 0 \in S
  BY <1>1
<1>3. ASSUME NEW n \in Nat, n \in S PROVE n + 1 \in S
  <2>1. SUFFICES ASSUME from + (n + 1) <= to PROVE HeaderSafe(off, from + (n + 1), f[from + (n + 1)])
    OBVIOUS
  <2>2. HeaderSafe(off, from + n, f[from + n])
    BY <1>3, <2>1
  <2>3. f[from + (n + 1)] = Onward("header", in, f[from + n])
    BY <1>1, <2>1
  <2>4. from + (n + 1) = from + n + 1 /\ from + n \in Nat
    OBVIOUS
  <2> QED BY <2>2, <2>3, <2>4, HeaderOnward
<1>4. to - from \in S
  <2> HIDE DEF S
  <2> QED BY <1>2, <1>3, SetInduction
<1>5. from + (to - from) = to
  OBVIOUS
<1> QED BY <1>1, <1>4, <1>5

LEMMA HeaderBegins ==
  ASSUME NEW off \in Nat
  PROVE  LET first == Start("HDR_START", off, HeaderMarks, <<>>)
         IN first.i = off /\ HeaderSafe(off, off, first)
<1> DEFINE first == Start("HDR_START", off, HeaderMarks, <<>>)
<1>1. /\ first.i = off /\ first.st = "HDR_START" /\ DOMAIN first = Parts
      /\ first.marks = [k \in HeaderMarks |-> off]
  BY DEF Start, Parts
<1> HIDE DEF first
<1>2. HeaderMarked(off, off, first.marks)
  BY <1>1 DEF HeaderMarked
<1>3. first.i = off /\ HeaderSafe(off, off, first)
  BY <1>1, <1>2 DEF HeaderSafe, HeaderStates, Ends
<1> QED BY <1>3 DEF first

\* A header line leaves an offset in the text, and one that was read is behind
\* its first byte.
LEMMA HeaderWithin ==
  ASSUME NEW in, Len(in) \in Nat, NEW off \in Nat, off <= Len(in)
  PROVE  /\ ParseHeader(in, off).off \in off .. Len(in)
         /\ ParseHeader(in, off).answer = "OK" => ParseHeader(in, off).off # off
         /\ ParseHeader(in, off).answer # "reading"
<1> DEFINE first == Start("HDR_START", off, {"HeaderStart", "HeaderEnd", "ValueStart", "ValueEnd"}, <<>>)
           a == HeaderRun(in, first)
<1>1. first.i = off /\ HeaderSafe(off, off, first)
  BY HeaderBegins DEF HeaderMarks
<1>2. ParseHeader(in, off) = HeaderAnswer(in, off, a)
  BY DEF ParseHeader
<1> HIDE DEF first
<1>3. HeaderSafe(off, Len(in), a)
  <2>1. CASE off < Len(in)
    <3>1. a = Looped("header", in, first, off, Len(in))
      BY <1>1, <2>1 DEF HeaderRun, Run, Read, Looped, Turns, Onward, Twice
    <3> QED BY <1>1, <3>1, HeaderLooped
  <2>2. CASE off = Len(in)
    <3>1. a = first
      BY <1>1, <2>2 DEF HeaderRun, Run
    <3> QED BY <1>1, <2>2, <3>1
  <2> QED BY <2>1, <2>2
<1> DEFINE r == HeaderAnswer(in, off, a)
<1> HIDE DEF a
<1>4. CASE a.st = "NOMORE"
  <2>1. r.answer = "ENOENT" /\ r.off = off + 2
    BY <1>4 DEF HeaderAnswer, Ends
  <2>2. off < a.i /\ a.i < Len(in) /\ a.i \in Nat
    BY <1>3, <1>4 DEF HeaderSafe, Ends
  <2> QED BY <1>2, <2>1, <2>2
<1>5. CASE a.st # "NOMORE" /\ r.answer # "OK"
  <2>1. r.off = off /\ r.answer # "reading"
    BY <1>5 DEF HeaderAnswer, Unfinished, Ends
  <2> QED BY <1>2, <1>5, <2>1
<1>6. CASE a.st # "NOMORE" /\ r.answer = "OK"
  <2>1. a.st = "DONE" /\ r.off = a.i + 1
    BY <1>6 DEF HeaderAnswer, Ends
  <2>2. off <= a.i /\ a.i < Len(in) /\ a.i \in Nat
    BY <1>3, <2>1 DEF HeaderSafe, Ends
  <2> QED BY <1>2, <1>6, <2>1, <2>2
<1> QED BY <1>4, <1>5, <1>6

-----------------------------------------------------------------------------
(* The header block. *)

Members == {"state", "answer", "method", "size", "version", "code", "flags", "fields", "off",
            "headers", "body"}

\* What parseHeaders has made of q after n turns.
BlockSafe(in, q, n, r) ==
  /\ DOMAIN r = Members
  /\ r.off \in q.off .. Len(in)
  /\ r.answer = "reading" => q.off + n <= r.off
  /\ r.state = q.state /\ r.size = q.size /\ r.fields = q.fields /\ r.body = q.body

LEMMA BlockOnward ==
  ASSUME NEW in, Len(in) \in Nat, NEW q, q.off \in Nat, NEW n \in Nat, NEW r, BlockSafe(in, q, n, r)
  PROVE  BlockSafe(in, q, n + 1, Onward("headers", in, r))
<1> DEFINE h == ParseHeader(in, r.off)
           store == Store(r.headers, [name |-> h.name, value |-> h.value])
           s == Onward("headers", in, r)
<1>1. CASE r.answer # "reading"
  <2>1. s = r
    BY <1>1 DEF Onward
  <2> QED BY <1>1, <2>1 DEF BlockSafe
<1>2. CASE r.answer = "reading"
  <2>1. s = CASE h.answer = "OK" -> [[r EXCEPT !.off = h.off] EXCEPT !.headers = store]
              [] h.answer = "ENOENT" -> [[r EXCEPT !.off = h.off] EXCEPT !.answer = "OK"]
              [] OTHER -> [[r EXCEPT !.off = h.off] EXCEPT !.answer = h.answer]
    <3>1. s = NextHeader(in, r)
      BY <1>2 DEF Onward
    <3>2. [r EXCEPT !.off = h.off].headers = r.headers
      BY DEF BlockSafe, Members
    <3> QED BY <3>1, <3>2 DEF NextHeader
  <2>2. /\ r.off \in Nat /\ r.off <= Len(in) /\ q.off + n <= r.off /\ DOMAIN r = Members
        /\ q.off <= r.off
    BY <1>2 DEF BlockSafe
  <2>3. h.off \in r.off .. Len(in) /\ (h.answer = "OK" => h.off # r.off) /\ h.answer # "reading"
    BY <2>2, HeaderWithin
  <2> HIDE DEF h, store
  <2>4. /\ DOMAIN s = Members /\ s.off = h.off
        /\ s.state = r.state /\ s.size = r.size /\ s.fields = r.fields /\ s.body = r.body
    BY <2>1, <2>2 DEF Members
  <2>5. s.answer = "reading" => h.answer = "OK"
    BY <2>1, <2>2, <2>3 DEF Members
  <2>6. h.off \in q.off .. Len(in) /\ (h.answer = "OK" => q.off + (n + 1) <= h.off)
    BY <2>2, <2>3
  <2> HIDE DEF s
  <2>7. BlockSafe(in, q, n + 1, s)
    BY <2>4, <2>5, <2>6 DEF BlockSafe
  <2> QED BY <2>7 DEF s
<1> QED BY <1>1, <1>2

\* The turns of parseHeaders.
BlockRun(in, f, n) == \A k \in 1 .. n : f[k] = Onward("headers", in, f[k - 1])

LEMMA HeadersRun ==
  ASSUME NEW in, Len(in) \in Nat, NEW q, DOMAIN q = Members, q.off \in Nat, q.off <= Len(in), q.off # 0
  PROVE  \E f : /\ f[0] = [q EXCEPT !.answer = "reading"]
                /\ BlockRun(in, f, Len(in) - q.off + 1)
                /\ parseHeaders(in, q) = f[Len(in) - q.off + 1]
                /\ \A k \in 0 .. Len(in) - q.off + 1 : BlockSafe(in, q, k, f[k])
<1> DEFINE turns == Len(in) - q.off + 1
           first == [q EXCEPT !.answer = "reading"]
           r == parseHeaders(in, q)
<1>1. r = Looped("headers", in, first, 0, turns)
  BY DEF parseHeaders, Looped, Turns, Onward
<1>2. turns \in Nat
  OBVIOUS
<1>3. BlockSafe(in, q, 0, first)
  BY DEF BlockSafe, Members
<1>4. PICK f : /\ f[0] = first
               /\ \A k \in 1 .. turns : f[k] = Onward("headers", in, f[k - 1])
               /\ r = f[turns]
  <2> HIDE DEF r, turns, first
  <2>1. 0 + 1 = 1 /\ 0 \in Int /\ turns \in Int /\ 0 <= turns
    BY <1>2
  <2> QED BY <1>1, <2>1, LoopIs
<1> DEFINE S == {n \in Nat : n <= turns => BlockSafe(in, q, n, f[n])}
<1>5. 0 \in S
  BY <1>3, <1>4
<1>6. ASSUME NEW n \in Nat, n \in S PROVE n + 1 \in S
  <2>1. SUFFICES ASSUME n + 1 <= turns PROVE BlockSafe(in, q, n + 1, f[n + 1])
    OBVIOUS
  <2>2. BlockSafe(in, q, n, f[n])
    BY <1>6, <2>1
  <2>3. f[n + 1] = Onward("headers", in, f[n])
    BY <1>4, <2>1
  <2> QED BY <2>2, <2>3, BlockOnward
<1>7. \A k \in 0 .. turns : BlockSafe(in, q, k, f[k])
  <2>1. Nat \subseteq S
    <3> HIDE DEF S, turns
    <3> QED BY <1>5, <1>6, SetInduction
  <2> QED BY <1>2, <2>1
<1> HIDE DEF first, turns, r
<1>8. BlockRun(in, f, turns)
  BY <1>4 DEF BlockRun
<1> QED BY <1>4, <1>7, <1>8 DEF first, turns, r

\* parseHeaders leaves an offset in the text, and it ends.
LEMMA HeadersWithin ==
  ASSUME NEW in, Len(in) \in Nat, NEW q, DOMAIN q = Members, q.off \in Nat, q.off <= Len(in)
  PROVE  LET r == parseHeaders(in, q)
         IN /\ BlockSafe(in, q, 0, r)
            /\ r.answer # "reading"
<1> DEFINE turns == Len(in) - q.off + 1
           r == parseHeaders(in, q)
<1>1. CASE q.off = 0
  <2>1. r = [q EXCEPT !.answer = "EBADE"]
    BY <1>1 DEF parseHeaders
  <2> HIDE DEF r
  <2>2. DOMAIN r = Members /\ r.off = q.off /\ r.answer = "EBADE" /\ r.state = q.state /\ r.size = q.size
        /\ r.fields = q.fields /\ r.body = q.body
    BY <2>1 DEF Members
  <2>3. BlockSafe(in, q, 0, r) /\ r.answer # "reading"
    BY <2>2 DEF BlockSafe
  <2> QED BY <2>3 DEF r
<1>2. CASE q.off # 0
  <2>1. BlockSafe(in, q, turns, r) /\ turns \in Nat
    <3>1. PICK f : r = f[turns] /\ \A k \in 0 .. turns : BlockSafe(in, q, k, f[k])
      BY <1>2, HeadersRun
    <3>2. turns \in 0 .. turns /\ turns \in Nat
      OBVIOUS
    <3> QED BY <3>1, <3>2
  <2> HIDE DEF r
  <2>2. r.answer # "reading" /\ BlockSafe(in, q, 0, r)
    BY <2>1 DEF BlockSafe
  <2> QED BY <2>2 DEF r
<1> QED BY <1>1, <1>2

-----------------------------------------------------------------------------
(* The request line. *)

LineStates ==
  {"RL_SPACEBEFOREURI", "RL_SCHEMA", "RL_SCHEMASLASH", "RL_SCHEMASLASHSLASH", "RL_HOSTSTART",
   "RL_HOST", "RL_HOSTEND", "RL_HOSTIPLITERIAL", "RL_PORT", "RL_HOSTHTTP09",
   "RL_AFTERSLASHINURI", "RL_CHECKURI", "RL_URI", "RL_CHECKURIHTTP09", "RL_HTTP09",
   "RL_HTTP_H", "RL_HTTP_HT", "RL_HTTP_HTT", "RL_HTTP_HTTP", "RL_FIRSTMAJORDIGIT",
   "RL_MAJORDIGIT", "RL_FIRSTMINORDIGIT", "RL_MINORDIGIT", "RL_SPACEAFTERDIGIT", "RL_ALMOSTDONE"}

\* Where a rule may go back to, and the marks that may lie before the automaton
\* began.
Resumed == {"RL_CHECKURI", "RL_URI"}
Loose == {"URIEnd", "HTTPEnd"}

RuleParts == {"on", "to", "marks", "flags", "put", "digit", "over", "back"}

\* Marks of the request line, none more than top behind the byte.
Offsets(m, top) ==
  /\ DOMAIN m \subseteq LineMarks
  /\ \A k \in DOMAIN m : m[k] \in Int /\ m[k] <= top /\ (k \notin Loose => 0 <= m[k])

\* What is true of every rule of the state st.
LineFine(r, st) ==
  /\ DOMAIN r = RuleParts
  /\ r.to \in LineStates \cup Ends
  /\ r.back \in BOOLEAN
  /\ r.back => r.to \in Resumed /\ st \notin Resumed
  /\ Offsets(r.marks, IF r.back \/ r.to \in Ends THEN 1 ELSE 2)

LEMMA LineGo ==
  ASSUME NEW st, NEW on, NEW to \in LineStates \cup Ends
  PROVE  LineFine(Go(on, to), st)
<1>1. Offsets(Go(on, to).marks, IF FALSE \/ to \in Ends THEN 1 ELSE 2)
  <2>1. Go(on, to).marks = <<>> /\ DOMAIN <<>> = {}
    BY DEF Go
  <2> QED BY <2>1 DEF Offsets
<1>2. DOMAIN Go(on, to) = RuleParts /\ Go(on, to).to = to /\ Go(on, to).back = FALSE
  BY DEF Go, RuleParts
<1> QED BY <1>1, <1>2 DEF LineFine

\* A rule with other flags, numbers or digits is as good.
LEMMA LineSame ==
  ASSUME NEW st, NEW r, LineFine(r, st), NEW q, DOMAIN q = RuleParts, q.to = r.to, q.back = r.back,
         q.marks = r.marks
  PROVE  LineFine(q, st)
BY DEF LineFine

LEMMA LineFlag == ASSUME NEW st, NEW r, LineFine(r, st), NEW f PROVE LineFine(Flag(f, r), st)
<1>1. DOMAIN r = RuleParts
  BY DEF LineFine
<1> QED BY <1>1, LineSame DEF Flag, RuleParts

LEMMA LineNine == ASSUME NEW st, NEW r, LineFine(r, st) PROVE LineFine(Nine(r), st)
<1>1. DOMAIN r = RuleParts
  BY DEF LineFine
<1> DEFINE n == [minor |-> 9]
           q == [r EXCEPT !.put = n]
<1>2. Nine(r) = q
  BY DEF Nine, Put
<1> HIDE DEF n
<1>3. LineFine(q, st)
  BY <1>1, LineSame DEF RuleParts
<1> QED BY <1>2, <1>3

LEMMA LineDigit ==
  ASSUME NEW st, NEW r, LineFine(r, st), NEW n, NEW over
  PROVE  LineFine(First(n, r), st) /\ LineFine(More(n, over, r), st)
<1>1. DOMAIN r = RuleParts
  BY DEF LineFine
<1>2. LineFine(First(n, r), st)
  BY <1>1, LineSame DEF First, RuleParts
<1>3. LineFine(More(n, over, r), st)
  BY <1>1, LineSame DEF More, RuleParts
<1> QED BY <1>2, <1>3

LEMMA LineBack ==
  ASSUME NEW st, st \notin Resumed, NEW on, NEW to \in Resumed, NEW f
  PROVE  LineFine(Flag(f, Back(Go(on, to))), st)
<1> DEFINE r == Back(Go(on, to))
<1>1. DOMAIN r = RuleParts /\ r.to = to /\ r.back = TRUE /\ r.marks = <<>>
  BY DEF Back, Go, RuleParts
<1>2. DOMAIN <<>> = {}
  OBVIOUS
<1> HIDE DEF r
<1>3. Offsets(r.marks, 1)
  BY <1>1, <1>2 DEF Offsets
<1>4. LineFine(r, st)
  BY <1>1, <1>3 DEF LineFine, Resumed, LineStates
<1> QED BY <1>4, LineFlag DEF r

LEMMA Overlaid ==
  ASSUME NEW m, NEW n, NEW top, Offsets(m, top), Offsets(n, top)
  PROVE  Offsets(m @@ n, top)
BY DEF Offsets, @@

LEMMA LineAt ==
  ASSUME NEW st, NEW r, LineFine(r, st), NEW m, Offsets(m, 1)
  PROVE  LineFine(At(m, r), st)
<1> DEFINE q == At(m, r)
<1>1. DOMAIN r = RuleParts
  BY DEF LineFine
<1>2. DOMAIN q = RuleParts /\ q.to = r.to /\ q.back = r.back /\ q.marks = m @@ r.marks
  <2> DEFINE n == m @@ r.marks
  <2>1. q = [r EXCEPT !.marks = n]
    BY DEF At
  <2> HIDE DEF n, q
  <2>2. DOMAIN q = RuleParts /\ q.to = r.to /\ q.back = r.back /\ q.marks = n
    BY <1>1, <2>1 DEF RuleParts
  <2> QED BY <2>2 DEF n
<1>3. Offsets(m, 2)
  BY DEF Offsets
<1> HIDE DEF q
<1>4. Offsets(q.marks, IF r.back \/ r.to \in Ends THEN 1 ELSE 2)
  BY <1>2, <1>3, Overlaid DEF LineFine
<1>5. LineFine(q, st)
  BY <1>2, <1>4 DEF LineFine
<1> QED BY <1>5 DEF q

LEMMA LineFar ==
  ASSUME NEW st, NEW on, NEW to \in LineStates, NEW m, Offsets(m, 2)
  PROVE  LineFine(At(m, Go(on, to)), st)
<1> DEFINE r == Go(on, to)
           q == At(m, r)
<1>1. DOMAIN r = RuleParts /\ r.to = to /\ r.back = FALSE /\ r.marks = <<>>
  BY DEF RuleParts, Go
<1> HIDE DEF r
<1>2. DOMAIN q = RuleParts /\ q.to = r.to /\ q.back = r.back /\ q.marks = m @@ r.marks
  <2> DEFINE n == m @@ r.marks
  <2>1. q = [r EXCEPT !.marks = n]
    BY DEF At
  <2> HIDE DEF n, q
  <2>2. DOMAIN q = RuleParts /\ q.to = r.to /\ q.back = r.back /\ q.marks = n
    BY <1>1, <2>1 DEF RuleParts
  <2> QED BY <2>2 DEF n
<1>3. Offsets(<<>>, 2)
  <2>1. DOMAIN <<>> = {}
    OBVIOUS
  <2> QED BY <2>1 DEF Offsets
<1> HIDE DEF q
<1>4. Offsets(q.marks, 2)
  BY <1>1, <1>2, <1>3, Overlaid
<1>5. to \notin Ends
  BY DEF LineStates, Ends
<1>6. LineFine(q, st)
  BY <1>1, <1>2, <1>4, <1>5 DEF LineFine
<1> QED BY <1>6 DEF q, r

LEMMA LineOffsets ==
  /\ Offsets([RequestLineEnd |-> 1], 1)
  /\ Offsets([HTTPStart |-> 0], 1)
  /\ Offsets([URIStart |-> 0], 1)
  /\ Offsets([SchemeStart |-> 0], 1)
  /\ Offsets([SchemeEnd |-> 0], 1)
  /\ Offsets([HostEnd |-> 0], 1)
  /\ Offsets([PortStart |-> 1], 1)
  /\ Offsets([URIStart |-> 1, URIEnd |-> 2], 2)
  /\ Offsets([HostStart |-> 0], 1)
  /\ Offsets([HostEnd |-> 1], 1)
  /\ Offsets([PortEnd |-> 0, URIStart |-> 0], 1)
  /\ Offsets([PortEnd |-> 0, URIStart |-> 1, URIEnd |-> 2], 2)
  /\ Offsets([ArgumentStart |-> 1], 1)
  /\ Offsets([URIEnd |-> 0], 1)
  /\ Offsets([URIEnd |-> -1], 1)
  /\ Offsets([URIEnd |-> -2, RequestLineEnd |-> 1], 1)
  /\ Offsets([URIEnd |-> 0, RequestLineEnd |-> 1], 1)
  /\ Offsets([HTTPEnd |-> 0], 1)
  /\ Offsets([HTTPEnd |-> -1, RequestLineEnd |-> 1], 1)
  /\ Offsets([HTTPEnd |-> 1], 1)
BY DEF Offsets, LineMarks, Loose

\* The shapes of most rules.
LEMMA LineShapes ==
  ASSUME NEW st, NEW on, NEW to \in LineStates \cup Ends
  PROVE  /\ LineFine(Go(on, to), st)
         /\ LineFine(Nine(Go(on, to)), st)
         /\ \A f : LineFine(Flag(f, Go(on, to)), st)
         /\ \A m : Offsets(m, 1) => LineFine(At(m, Go(on, to)), st) /\ LineFine(Nine(At(m, Go(on, to))), st)
<1>1. LineFine(Go(on, to), st)
  BY LineGo
<1>2. LineFine(Nine(Go(on, to)), st)
  BY <1>1, LineNine
<1>3. ASSUME NEW f PROVE LineFine(Flag(f, Go(on, to)), st)
  BY <1>1, LineFlag
<1>4. ASSUME NEW m, Offsets(m, 1)
      PROVE  LineFine(At(m, Go(on, to)), st) /\ LineFine(Nine(At(m, Go(on, to))), st)
  BY <1>1, <1>4, LineAt, LineNine
<1> QED BY <1>1, <1>2, <1>3, <1>4
LEMMA LineTargets ==
  ASSUME NEW st, NEW to \in LineStates
  PROVE  \A r \in AfterTarget(to) : LineFine(r, st)
BY LineShapes, LineOffsets DEF AfterTarget, LineStates, Ends

LEMMA LineHosts ==
  ASSUME NEW st
  PROVE  /\ \A r \in HostEndRules : LineFine(r, st)
         /\ \A r \in InHost : LineFine(r, st)
<1>1. \A r \in HostEndRules : LineFine(r, st)
  BY LineGo, LineAt, LineFar, LineOffsets DEF HostEndRules, LineStates, Ends
<1> QED BY <1>1, LineGo DEF InHost, LineStates, Ends

LEMMA LineURIs ==
  ASSUME NEW st
  PROVE  \A r \in ToURI : LineFine(r, st)
BY LineGo, LineFlag, LineAt, LineOffsets DEF ToURI, LineStates, Ends

LEMMA FineSchemeRules ==
  \A st \in DOMAIN SchemeRules : \A r \in SchemeRules[st] : LineFine(r, st)
<1> USE DEF LineStates, Ends
<1>1. \A r \in SchemeRules["RL_SPACEBEFOREURI"] : LineFine(r, "RL_SPACEBEFOREURI")
  BY LineGo, LineAt, LineOffsets DEF SchemeRules
<1>2. \A r \in SchemeRules["RL_SCHEMA"] : LineFine(r, "RL_SCHEMA")
  BY LineGo, LineAt, LineOffsets DEF SchemeRules
<1>3. \A r \in SchemeRules["RL_SCHEMASLASH"] : LineFine(r, "RL_SCHEMASLASH")
  BY LineGo DEF SchemeRules
<1>4. \A r \in SchemeRules["RL_SCHEMASLASHSLASH"] : LineFine(r, "RL_SCHEMASLASHSLASH")
  BY LineGo DEF SchemeRules
<1>5. DOMAIN SchemeRules = {"RL_SPACEBEFOREURI", "RL_SCHEMA", "RL_SCHEMASLASH", "RL_SCHEMASLASHSLASH"}
  BY DEF SchemeRules
<1> QED BY <1>1, <1>2, <1>3, <1>4, <1>5

LEMMA FineHostRules ==
  \A st \in DOMAIN HostRules : \A r \in HostRules[st] : LineFine(r, st)
<1> USE DEF LineStates, Ends
<1>1. \A r \in HostRules["RL_HOSTSTART"] : LineFine(r, "RL_HOSTSTART")
  BY LineHosts, LineGo, LineAt, LineOffsets DEF HostRules
<1>2. \A r \in HostRules["RL_HOST"] : LineFine(r, "RL_HOST")
  BY LineHosts DEF HostRules
<1>3. \A r \in HostRules["RL_HOSTEND"] : LineFine(r, "RL_HOSTEND")
  BY LineHosts DEF HostRules
<1>4. \A r \in HostRules["RL_HOSTIPLITERIAL"] : LineFine(r, "RL_HOSTIPLITERIAL")
  BY LineGo, LineAt, LineOffsets DEF HostRules
<1>5. \A r \in HostRules["RL_PORT"] : LineFine(r, "RL_PORT")
  BY LineGo, LineAt, LineFar, LineOffsets DEF HostRules
<1>6. \A r \in HostRules["RL_HOSTHTTP09"] : LineFine(r, "RL_HOSTHTTP09")
  BY LineTargets DEF HostRules
<1>7. DOMAIN HostRules = {"RL_HOSTSTART", "RL_HOST", "RL_HOSTEND", "RL_HOSTIPLITERIAL", "RL_PORT", "RL_HOSTHTTP09"}
  BY DEF HostRules
<1> QED BY <1>1, <1>2, <1>3, <1>4, <1>5, <1>6, <1>7

LEMMA FineURIRules ==
  \A st \in DOMAIN URIRules : \A r \in URIRules[st] : LineFine(r, st)
<1> USE DEF LineStates, Ends
<1>1. \A r \in URIRules["RL_AFTERSLASHINURI"] : LineFine(r, "RL_AFTERSLASHINURI")
  BY LineURIs, LineShapes, LineOffsets DEF URIRules
<1>2. \A r \in URIRules["RL_CHECKURI"] : LineFine(r, "RL_CHECKURI")
  BY LineURIs, LineShapes, LineOffsets DEF URIRules
<1>3. \A r \in URIRules["RL_URI"] : LineFine(r, "RL_URI")
  BY LineShapes, LineOffsets DEF URIRules
<1>4. DOMAIN URIRules = {"RL_AFTERSLASHINURI", "RL_CHECKURI", "RL_URI"}
  BY DEF URIRules
<1> QED BY <1>1, <1>2, <1>3, <1>4

LEMMA FineSpaceRules ==
  \A st \in DOMAIN SpaceRules : \A r \in SpaceRules[st] : LineFine(r, st)
<1> USE DEF LineStates, Ends
<1>1. \A r \in SpaceRules["RL_CHECKURIHTTP09"] : LineFine(r, "RL_CHECKURIHTTP09")
  BY LineTargets, LineBack DEF SpaceRules, Resumed
<1>2. \A r \in SpaceRules["RL_HTTP09"] : LineFine(r, "RL_HTTP09")
  BY LineTargets, LineBack DEF SpaceRules, Resumed
<1>3. DOMAIN SpaceRules = {"RL_CHECKURIHTTP09", "RL_HTTP09"}
  BY DEF SpaceRules
<1> QED BY <1>1, <1>2, <1>3

LEMMA FineVersionRules ==
  \A st \in DOMAIN VersionRules : \A r \in VersionRules[st] : LineFine(r, st)
<1> USE DEF LineStates, Ends
<1>1. \A r \in VersionRules["RL_HTTP_H"] : LineFine(r, "RL_HTTP_H")
  BY LineGo DEF VersionRules
<1>2. \A r \in VersionRules["RL_HTTP_HT"] : LineFine(r, "RL_HTTP_HT")
  BY LineGo DEF VersionRules
<1>3. \A r \in VersionRules["RL_HTTP_HTT"] : LineFine(r, "RL_HTTP_HTT")
  BY LineGo DEF VersionRules
<1>4. \A r \in VersionRules["RL_HTTP_HTTP"] : LineFine(r, "RL_HTTP_HTTP")
  BY LineGo DEF VersionRules
<1>5. \A r \in VersionRules["RL_FIRSTMAJORDIGIT"] : LineFine(r, "RL_FIRSTMAJORDIGIT")
  BY LineGo, LineDigit DEF VersionRules
<1>6. \A r \in VersionRules["RL_MAJORDIGIT"] : LineFine(r, "RL_MAJORDIGIT")
  BY LineGo DEF VersionRules
<1>7. \A r \in VersionRules["RL_FIRSTMINORDIGIT"] : LineFine(r, "RL_FIRSTMINORDIGIT")
  BY LineGo, LineDigit DEF VersionRules
<1>8. \A r \in VersionRules["RL_MINORDIGIT"] : LineFine(r, "RL_MINORDIGIT")
  BY LineGo, LineAt, LineDigit, LineOffsets DEF VersionRules
<1>9. \A r \in VersionRules["RL_SPACEAFTERDIGIT"] : LineFine(r, "RL_SPACEAFTERDIGIT")
  BY LineGo, LineAt, LineOffsets DEF VersionRules
<1>10. \A r \in VersionRules["RL_ALMOSTDONE"] : LineFine(r, "RL_ALMOSTDONE")
  BY LineGo, LineAt, LineOffsets DEF VersionRules
<1>11. DOMAIN VersionRules = {"RL_HTTP_H", "RL_HTTP_HT", "RL_HTTP_HTT", "RL_HTTP_HTTP", "RL_FIRSTMAJORDIGIT", "RL_MAJORDIGIT", "RL_FIRSTMINORDIGIT", "RL_MINORDIGIT", "RL_SPACEAFTERDIGIT", "RL_ALMOSTDONE"}
  BY DEF VersionRules
<1> QED BY <1>1, <1>2, <1>3, <1>4, <1>5, <1>6, <1>7, <1>8, <1>9, <1>10, <1>11

FineRules(table) == \A st \in DOMAIN table : \A r \in table[st] : LineFine(r, st)

LEMMA FineOverlaid ==
  ASSUME NEW s, NEW t, FineRules(s), FineRules(t)
  PROVE  FineRules(s @@ t) /\ DOMAIN (s @@ t) = DOMAIN s \cup DOMAIN t
BY DEF FineRules, @@

LEMMA LineTable ==
  ASSUME NEW st \in LineStates, NEW r \in LineRules[st]
  PROVE  LineFine(r, st)
<1>1. /\ FineRules(SchemeRules) /\ FineRules(HostRules) /\ FineRules(URIRules)
      /\ FineRules(SpaceRules) /\ FineRules(VersionRules)
  BY FineSchemeRules, FineHostRules, FineURIRules, FineSpaceRules, FineVersionRules DEF FineRules
<1>2. LineStates \subseteq DOMAIN SchemeRules \cup DOMAIN HostRules \cup DOMAIN URIRules
                            \cup DOMAIN SpaceRules \cup DOMAIN VersionRules
  BY DEF LineStates, SchemeRules, HostRules, URIRules, SpaceRules, VersionRules
<1> DEFINE t1 == SchemeRules @@ HostRules
           t2 == t1 @@ URIRules
           t3 == t2 @@ SpaceRules
<1>3. LineRules = t3 @@ VersionRules
  BY DEF LineRules
<1>4. FineRules(t1) /\ DOMAIN t1 = DOMAIN SchemeRules \cup DOMAIN HostRules
  BY <1>1, FineOverlaid
<1> HIDE DEF t1
<1>5. FineRules(t2) /\ DOMAIN t2 = DOMAIN t1 \cup DOMAIN URIRules
  BY <1>1, <1>4, FineOverlaid
<1> HIDE DEF t2
<1>6. FineRules(t3) /\ DOMAIN t3 = DOMAIN t2 \cup DOMAIN SpaceRules
  BY <1>1, <1>5, FineOverlaid
<1> HIDE DEF t3
<1>7. FineRules(LineRules) /\ DOMAIN LineRules = DOMAIN t3 \cup DOMAIN VersionRules
  BY <1>1, <1>3, <1>6, FineOverlaid
<1>8. st \in DOMAIN LineRules
  BY <1>2, <1>4, <1>5, <1>6, <1>7
<1> QED BY <1>7, <1>8 DEF FineRules

\* An automaton that has read the bytes before k: its marks are at most one byte
\* further than the byte it looks at.
MarksSafe(i, marks) ==
  /\ DOMAIN marks = LineMarks
  /\ \A m \in LineMarks : /\ marks[m] \in Int
                          /\ marks[m] <= i + 1
                          /\ m \notin Loose => 0 <= marks[m]
LineSafe(k, a) ==
  /\ DOMAIN a = Parts
  /\ a.st \in LineStates \cup Ends
  /\ a.i \in Nat
  /\ IF a.st \in Ends THEN a.i < k ELSE a.i = k
  /\ MarksSafe(a.i, a.marks)

LEMMA MarksMoved ==
  ASSUME NEW i \in Nat, NEW marks, MarksSafe(i, marks), NEW j \in {i, i + 1}, NEW m,
         Offsets(m, IF j = i THEN 1 ELSE 2)
  PROVE  MarksSafe(j, [k \in DOMAIN m |-> i + m[k]] @@ marks)
<1> DEFINE new == [k \in DOMAIN m |-> i + m[k]]
           all == new @@ marks
<1>1. DOMAIN all = LineMarks
  BY DEF Offsets, MarksSafe, @@
<1>2. \A k \in LineMarks : all[k] = IF k \in DOMAIN m THEN i + m[k] ELSE marks[k]
  BY <1>1 DEF @@
<1> HIDE DEF all
<1>3. ASSUME NEW k \in LineMarks PROVE all[k] \in Int /\ all[k] <= j + 1 /\ (k \notin Loose => 0 <= all[k])
  <2>1. CASE k \in DOMAIN m
    <3>1. m[k] \in Int /\ m[k] <= (IF j = i THEN 1 ELSE 2) /\ (k \notin Loose => 0 <= m[k])
      BY <2>1 DEF Offsets
    <3>2. all[k] = i + m[k]
      BY <1>2, <2>1
    <3> QED BY <3>1, <3>2
  <2>2. CASE k \notin DOMAIN m
    <3>1. all[k] = marks[k]
      BY <1>2, <2>2
    <3>2. marks[k] \in Int /\ marks[k] <= i + 1 /\ (k \notin Loose => 0 <= marks[k])
      BY DEF MarksSafe
    <3> QED BY <3>1, <3>2
  <2> QED BY <2>1, <2>2
<1>4. MarksSafe(j, all)
  BY <1>1, <1>3 DEF MarksSafe
<1> QED BY <1>4 DEF all

LEMMA LineTurn ==
  ASSUME NEW k \in Nat, NEW a, LineSafe(k, a), a.st \notin Ends, NEW in
  PROVE  \/ /\ LineSafe(k + 1, LineStep(in, a))
            /\ LineStep(in, a).st \in Ends \/ LineStep(in, a).i # a.i
         \/ /\ LineSafe(k, LineStep(in, a)) /\ LineStep(in, a).i = a.i
            /\ LineStep(in, a).st \in Resumed /\ a.st \notin Resumed
<1> DEFINE b == LineStep(in, a)
<1>1. a.st \in LineStates /\ a.i = k /\ DOMAIN a = Parts /\ MarksSafe(a.i, a.marks)
  BY DEF LineSafe
<1>2. b = [a EXCEPT !.st = "BAD"] \/ \E r \in LineRules[a.st] : Moved(r, a, b)
  BY StepMoves DEF LineStep
<1> HIDE DEF b
<1>3. CASE b = [a EXCEPT !.st = "BAD"]
  <2>1. b.st = "BAD" /\ b.i = a.i /\ DOMAIN b = Parts /\ b.marks = a.marks
    BY <1>1, <1>3 DEF Parts
  <2>2. LineSafe(k + 1, b) /\ b.st \in Ends
    BY <1>1, <2>1 DEF LineSafe, Ends
  <2> QED BY <2>2 DEF b
<1>4. CASE \E r \in LineRules[a.st] : Moved(r, a, b)
  <2>1. PICK r \in LineRules[a.st] : Moved(r, a, b)
    BY <1>4
  <2>2. LineFine(r, a.st)
    BY <1>1, LineTable
  <2>3. /\ DOMAIN b = Parts /\ b.st = r.to /\ b.st \in LineStates \cup Ends /\ r.back \in BOOLEAN
        /\ b.i = IF r.back \/ r.to \in Ends THEN a.i ELSE a.i + 1
        /\ r.back => r.to \in Resumed /\ a.st \notin Resumed
    BY <2>1, <2>2 DEF Moved, LineFine
  <2>4. MarksSafe(b.i, b.marks)
    <3>1. Offsets(r.marks, IF b.i = a.i THEN 1 ELSE 2) /\ b.i \in {a.i, a.i + 1}
      BY <1>1, <2>2, <2>3 DEF LineFine
    <3>2. b.marks = [m \in DOMAIN r.marks |-> a.i + r.marks[m]] @@ a.marks
      BY <2>1 DEF Moved
    <3> QED BY <1>1, <3>1, <3>2, MarksMoved
  <2>5. "RL_CHECKURI" \notin Ends /\ "RL_URI" \notin Ends
    BY DEF Ends
  <2>6. CASE r.back
    <3>1. b.i = a.i /\ b.st \in Resumed /\ a.st \notin Resumed /\ b.st \notin Ends
      BY <2>3, <2>5, <2>6 DEF Resumed
    <3>2. LineSafe(k, b)
      BY <1>1, <2>3, <2>4, <3>1 DEF LineSafe
    <3> QED BY <3>1, <3>2 DEF b
  <2>7. CASE ~r.back
    <3>1. b.i = IF b.st \in Ends THEN a.i ELSE a.i + 1
      BY <2>3, <2>7
    <3>2. LineSafe(k + 1, b)
      BY <1>1, <2>3, <2>4, <3>1 DEF LineSafe
    <3> QED BY <1>1, <3>1, <3>2 DEF b
  <2> QED BY <2>3, <2>6, <2>7
<1> QED BY <1>2, <1>3, <1>4

LEMMA LineOnward ==
  ASSUME NEW k \in Nat, NEW a, LineSafe(k, a), NEW in
  PROVE  LineSafe(k + 1, Onward("line", in, a))
<1> DEFINE b == LineStep(in, a)
<1>1. Onward("line", in, a) = IF a.st \in Ends THEN a ELSE Twice(b, LineStep(in, b), a.i)
  BY DEF Onward
<1> HIDE DEF b
<1>2. CASE a.st \in Ends
  BY <1>1, <1>2 DEF LineSafe
<1>3. CASE a.st \notin Ends
  <2>1. CASE LineSafe(k + 1, b) /\ (b.st \in Ends \/ b.i # a.i)
    BY <1>1, <1>3, <2>1 DEF Twice
  <2>2. CASE LineSafe(k, b) /\ b.i = a.i /\ b.st \in Resumed
    <3>1. b.st \notin Ends
      BY <2>2 DEF Resumed, Ends
    <3>2. LineSafe(k + 1, LineStep(in, b))
      BY <2>2, <3>1, LineTurn
    <3> QED BY <1>1, <1>3, <2>2, <3>1, <3>2 DEF Twice
  <2> QED BY <1>3, <2>1, <2>2, LineTurn DEF b
<1> QED BY <1>2, <1>3

LEMMA LineLooped ==
  ASSUME NEW from \in Nat, NEW to \in Nat, from <= to, NEW in, NEW first, LineSafe(from, first)
  PROVE  LineSafe(to, Looped("line", in, first, from, to))
<1>1. PICK f : /\ f[from] = first
               /\ \A k \in from + 1 .. to : f[k] = Onward("line", in, f[k - 1])
               /\ Looped("line", in, first, from, to) = f[to]
  BY LoopIs
<1> DEFINE S == {n \in Nat : from + n <= to => LineSafe(from + n, f[from + n])}
<1>2. 0 \in S
  BY <1>1
<1>3. ASSUME NEW n \in Nat, n \in S PROVE n + 1 \in S
  <2>1. SUFFICES ASSUME from + (n + 1) <= to PROVE LineSafe(from + (n + 1), f[from + (n + 1)])
    OBVIOUS
  <2>2. LineSafe(from + n, f[from + n])
    BY <1>3, <2>1
  <2>3. f[from + (n + 1)] = Onward("line", in, f[from + n])
    BY <1>1, <2>1
  <2>4. from + (n + 1) = from + n + 1 /\ from + n \in Nat
    OBVIOUS
  <2> QED BY <2>2, <2>3, <2>4, LineOnward
<1>4. to - from \in S
  <2> HIDE DEF S
  <2> QED BY <1>2, <1>3, SetInduction
<1>5. from + (to - from) = to
  OBVIOUS
<1> QED BY <1>1, <1>4, <1>5

\* Fields that lie in the first n bytes.
FieldsWithin(fields, n) ==
  \A f \in DOMAIN fields : /\ fields[f][1] \in Nat
                           /\ fields[f][1 + 1] \in Nat
                           /\ fields[f][1] <= fields[f][1 + 1]
                           /\ fields[f][1 + 1] <= n

LEMMA FieldsOverlaid ==
  ASSUME NEW f, NEW g, NEW n, FieldsWithin(f, n), FieldsWithin(g, n)
  PROVE  FieldsWithin(f @@ g, n) /\ DOMAIN f \subseteq DOMAIN (f @@ g)
BY DEF FieldsWithin, @@

LEMMA FieldOf ==
  ASSUME NEW name, NEW from \in Nat, NEW to \in Int, NEW n \in Int, to <= n, from <= to
  PROVE  FieldsWithin(name :> <<from, to>>, n)
BY DEF FieldsWithin, :>

LEMMA NoField == ASSUME NEW n PROVE FieldsWithin(<<>>, n)
<1>1. DOMAIN <<>> = {}
  OBVIOUS
<1> QED BY <1>1 DEF FieldsWithin

LEMMA LineFieldsWithin ==
  ASSUME NEW n \in Nat, NEW i \in Nat, i < n, NEW m, MarksSafe(i, m), NEW had, FieldsWithin(had, n)
  PROVE  FieldsWithin(LineFields(m, had), n) /\ "RequestLine" \in DOMAIN LineFields(m, had)
<1> DEFINE part(name, from, to) == IF to >= from THEN name :> <<from, to>> ELSE <<>>
           e1 == part("RequestLine", 0, m.RequestLineEnd)
           e2 == part("Scheme", m.SchemeStart, m.SchemeEnd)
           e3 == part("Host", m.HostStart, m.HostEnd)
           e4 == part("Port", m.PortStart, m.PortEnd)
           e5 == part("Protocol", m.HTTPStart, m.HTTPEnd)
           e6 == part("URI", m.URIStart, m.URIEnd)
           e7 == IF m.ArgumentStart > m.URIStart THEN part("Argument", m.ArgumentStart, m.URIEnd) ELSE <<>>
<1>1. \A k \in LineMarks : m[k] \in Int /\ m[k] <= n /\ (k \notin Loose => m[k] \in Nat)
  BY DEF MarksSafe
<1>2. ASSUME NEW name, NEW from \in Nat, NEW to \in Int, to <= n PROVE FieldsWithin(part(name, from, to), n)
  BY <1>2, FieldOf, NoField
<1>3. /\ m.RequestLineEnd \in Nat /\ m.SchemeStart \in Nat /\ m.HostStart \in Nat /\ m.PortStart \in Nat
      /\ m.HTTPStart \in Nat /\ m.URIStart \in Nat /\ m.ArgumentStart \in Nat
  BY <1>1 DEF LineMarks, Loose
<1>4. /\ m.SchemeEnd \in Int /\ m.HostEnd \in Int /\ m.PortEnd \in Int /\ m.HTTPEnd \in Int
      /\ m.URIEnd \in Int /\ m.RequestLineEnd <= n /\ m.SchemeEnd <= n /\ m.HostEnd <= n
      /\ m.PortEnd <= n /\ m.HTTPEnd <= n /\ m.URIEnd <= n
  BY <1>1 DEF LineMarks
<1>5. "RequestLine" \in DOMAIN e1
  BY <1>3 DEF :>
<1> HIDE DEF part
<1>6. FieldsWithin(e1, n) /\ FieldsWithin(e2, n) /\ FieldsWithin(e3, n) /\ FieldsWithin(e4, n)
      /\ FieldsWithin(e5, n) /\ FieldsWithin(e6, n)
  BY <1>2, <1>3, <1>4
<1>7. FieldsWithin(e7, n)
  BY <1>2, <1>3, <1>4, NoField
<1>8. LineFields(m, had) = e1 @@ e2 @@ e3 @@ e4 @@ e5 @@ e6 @@ e7 @@ had
  BY DEF LineFields, part
<1> HIDE DEF e1, e2, e3, e4, e5, e6, e7
<1> DEFINE s2 == e1 @@ e2
           s3 == s2 @@ e3
           s4 == s3 @@ e4
           s5 == s4 @@ e5
           s6 == s5 @@ e6
           s7 == s6 @@ e7
<1>10. FieldsWithin(s2, n) /\ "RequestLine" \in DOMAIN s2
  BY <1>5, <1>6, FieldsOverlaid
<1>11. LineFields(m, had) = s7 @@ had
  BY <1>8
<1> HIDE DEF s2
<1>12. FieldsWithin(s3, n) /\ "RequestLine" \in DOMAIN s3
  BY <1>6, <1>10, FieldsOverlaid
<1> HIDE DEF s3
<1>13. FieldsWithin(s4, n) /\ "RequestLine" \in DOMAIN s4
  BY <1>6, <1>12, FieldsOverlaid
<1> HIDE DEF s4
<1>14. FieldsWithin(s5, n) /\ "RequestLine" \in DOMAIN s5
  BY <1>6, <1>13, FieldsOverlaid
<1> HIDE DEF s5
<1>15. FieldsWithin(s6, n) /\ "RequestLine" \in DOMAIN s6
  BY <1>6, <1>14, FieldsOverlaid
<1> HIDE DEF s6
<1>16. FieldsWithin(s7, n) /\ "RequestLine" \in DOMAIN s7
  BY <1>7, <1>15, FieldsOverlaid
<1> HIDE DEF s7
<1> QED BY <1>11, <1>16, FieldsOverlaid

\* The request line leaves fields in the text, and has an end when it was read.
LEMMA LineWithin ==
  ASSUME NEW in, Len(in) \in Nat, NEW size \in Nat, NEW method, NEW had, FieldsWithin(had, Len(in))
  PROVE  LET r == parseRequestline(in, size, method, had)
         IN /\ "fields" \in DOMAIN r => FieldsWithin(r.fields, Len(in))
            /\ r.answer = "OK" => /\ "fields" \in DOMAIN r
                                  /\ r.fields.RequestLine[1 + 1] \in 0 .. Len(in)
<1> DEFINE first == Start("RL_SPACEBEFOREURI", size, LineMarks, [major |-> 0, minor |-> 0])
           a == LineRun(in, first)
           r == LineAnswer(in, a, method, had)
<1>1. parseRequestline(in, size, method, had) = r
  BY DEF parseRequestline
<1>2. first.i = size /\ first.st = "RL_SPACEBEFOREURI" /\ LineSafe(size, first)
  <2>1. first.i = size /\ first.st = "RL_SPACEBEFOREURI" /\ DOMAIN first = Parts
        /\ first.marks = [k \in LineMarks |-> size]
    BY DEF Start, Parts
  <2> HIDE DEF first
  <2>2. MarksSafe(size, first.marks)
    BY <2>1 DEF MarksSafe
  <2> QED BY <2>1, <2>2 DEF LineSafe, LineStates, Ends
<1> HIDE DEF first
<1>3. CASE size < Len(in)
  <2>1. a = Looped("line", in, first, size, Len(in))
    BY <1>2, <1>3 DEF LineRun, Run, Read, Looped, Turns, Onward, Twice
  <2>2. LineSafe(Len(in), a)
    <3> HIDE DEF a
    <3> QED BY <1>2, <1>3, <2>1, LineLooped
  <2> HIDE DEF a
  <2>3. CASE a.st # "DONE" \/ a.marks.RequestLineEnd >= Len(in)
    <3>1. r = [answer |-> "EFAULT", flags |-> a.flags] \/ r = [answer |-> "EAGAIN", flags |-> a.flags]
      BY <2>3 DEF LineAnswer
    <3>2. "fields" \notin DOMAIN r /\ r.answer # "OK"
      BY <3>1
    <3> QED BY <1>1, <3>2
  <2>4. CASE a.st = "DONE" /\ ~(a.marks.RequestLineEnd >= Len(in))
    <3> DEFINE answer == IF a.numbers.major * 1000 + a.numbers.minor = 9 /\ method # "GET" THEN "EFAULT" ELSE "OK"
               version == a.numbers.major * 1000 + a.numbers.minor
               fields == LineFields(a.marks, had)
    <3>1. r = [answer |-> answer, flags |-> a.flags, fields |-> fields, version |-> version]
      BY <2>4 DEF LineAnswer
    <3>2. a.i \in Nat /\ a.i < Len(in) /\ MarksSafe(a.i, a.marks)
      BY <2>2, <2>4 DEF LineSafe, Ends
    <3>3. FieldsWithin(fields, Len(in)) /\ "RequestLine" \in DOMAIN fields
      BY <3>2, LineFieldsWithin
    <3> HIDE DEF fields, answer, version
    <3>4. r.fields = fields /\ "fields" \in DOMAIN r
      BY <3>1
    <3>5. fields.RequestLine[1 + 1] \in 0 .. Len(in)
      BY <3>3 DEF FieldsWithin
    <3> HIDE DEF r
    <3> QED BY <1>1, <3>3, <3>4, <3>5
  <2> QED BY <2>3, <2>4
<1>4. CASE ~(size < Len(in))
  <2>1. a = first
    BY <1>2, <1>4 DEF LineRun, Run
  <2> HIDE DEF a
  <2>2. r = [answer |-> "EAGAIN", flags |-> a.flags]
    BY <1>2, <2>1 DEF LineAnswer
  <2>3. "fields" \notin DOMAIN r /\ r.answer # "OK"
    BY <2>2
  <2> QED BY <1>1, <2>3
<1> QED BY <1>3, <1>4

-----------------------------------------------------------------------------
(* The status line. *)

ResponseStates ==
  {"RL_START", "RL_H", "RL_HT", "RL_HTT", "RL_HTTP", "RL_FIRST_MAJOR_DIGIT", "RL_MAJOR_DIGIT",
   "RL_FIRST_MINOR_DIGIT", "RL_MINOR_DIGIT", "RL_STATUS", "RL_SPACE_AFTER_STATUS",
   "RL_STATUS_TEXT", "RL_ALMOST_DONE"}

\* Marks of the status line, none more than top behind the byte.
StatusOffsets(m, top) ==
  /\ DOMAIN m \subseteq ResponseMarks
  /\ \A k \in DOMAIN m : m[k] \in Int /\ m[k] <= top /\ (k # "StatusCodeEnd" => 0 <= m[k])

\* What is true of every rule.
StatusFine(r) ==
  /\ DOMAIN r = RuleParts
  /\ r.to \in ResponseStates \cup Ends
  /\ r.back = FALSE
  /\ StatusOffsets(r.marks, IF r.to \in Ends THEN 0 ELSE 1)

LEMMA StatusGo ==
  ASSUME NEW on, NEW to \in ResponseStates \cup Ends
  PROVE  StatusFine(Go(on, to))
<1>1. StatusOffsets(Go(on, to).marks, IF to \in Ends THEN 0 ELSE 1)
  <2>1. Go(on, to).marks = <<>> /\ DOMAIN <<>> = {}
    BY DEF Go
  <2> QED BY <2>1 DEF StatusOffsets
<1>2. DOMAIN Go(on, to) = RuleParts /\ Go(on, to).to = to /\ Go(on, to).back = FALSE
  BY DEF Go, RuleParts
<1> QED BY <1>1, <1>2 DEF StatusFine

LEMMA StatusDigit ==
  ASSUME NEW r, StatusFine(r), NEW n, NEW over
  PROVE  StatusFine(First(n, r)) /\ StatusFine(More(n, over, r))
<1>1. DOMAIN r = RuleParts
  BY DEF StatusFine
<1>2. ASSUME NEW q, DOMAIN q = RuleParts, q.to = r.to, q.back = r.back, q.marks = r.marks
      PROVE  StatusFine(q)
  BY <1>2 DEF StatusFine
<1>3. StatusFine(First(n, r))
  BY <1>1, <1>2 DEF First, RuleParts
<1>4. StatusFine(More(n, over, r))
  BY <1>1, <1>2 DEF More, RuleParts
<1> QED BY <1>3, <1>4

LEMMA StatusAt ==
  ASSUME NEW r, StatusFine(r), NEW m, StatusOffsets(m, IF r.to \in Ends THEN 0 ELSE 1)
  PROVE  StatusFine(At(m, r))
<1> DEFINE n == m @@ r.marks
           q == At(m, r)
<1>1. DOMAIN r = RuleParts
  BY DEF StatusFine
<1>2. q = [r EXCEPT !.marks = n]
  BY DEF At
<1>3. StatusOffsets(n, IF r.to \in Ends THEN 0 ELSE 1)
  BY DEF StatusFine, StatusOffsets, @@
<1> HIDE DEF n, q
<1>4. DOMAIN q = RuleParts /\ q.to = r.to /\ q.back = r.back /\ q.marks = n
  BY <1>1, <1>2 DEF RuleParts
<1>5. StatusFine(q)
  BY <1>3, <1>4 DEF StatusFine
<1> QED BY <1>5 DEF q

LEMMA StatusMarked ==
  ASSUME NEW on, NEW to \in ResponseStates \cup Ends, NEW m,
         StatusOffsets(m, IF to \in Ends THEN 0 ELSE 1)
  PROVE  /\ StatusFine(At(m, Go(on, to)))
         /\ \A n, over : StatusFine(At(m, More(n, over, Go(on, to))))
<1> DEFINE r == Go(on, to)
<1>1. StatusFine(r) /\ r.to = to
  BY StatusGo DEF Go
<1> HIDE DEF r
<1>2. StatusFine(At(m, r))
  BY <1>1, StatusAt
<1>3. ASSUME NEW n, NEW over PROVE StatusFine(At(m, More(n, over, r)))
  <2> DEFINE q == More(n, over, r)
  <2>1. q.to = to
    BY <1>1 DEF More, StatusFine, RuleParts
  <2>2. StatusFine(q)
    BY <1>1, StatusDigit
  <2> HIDE DEF q
  <2>3. StatusFine(At(m, q))
    BY <2>1, <2>2, StatusAt
  <2> QED BY <2>3 DEF q
<1> QED BY <1>2, <1>3 DEF r

LEMMA StatusMarks ==
  /\ StatusOffsets([StatusCodeStart |-> 1], 1)
  /\ StatusOffsets([StatusCodeEnd |-> 1], 1)
  /\ StatusOffsets([StatusTextStart |-> 1], 1)
  /\ StatusOffsets([StatusTextEnd |-> 0], 1)
  /\ StatusOffsets([StatusLineEnd |-> 0], 0)
  /\ StatusOffsets([StatusCodeEnd |-> -1, StatusLineEnd |-> 0], 0)
BY DEF StatusOffsets, ResponseMarks

LEMMA ResponseTable ==
  ASSUME NEW st \in ResponseStates, NEW r \in ResponseRules[st]
  PROVE  StatusFine(r)
<1> USE DEF ResponseStates, Ends
<1>1. CASE st = "RL_START"
  BY <1>1, StatusGo DEF ResponseRules
<1>2. CASE st = "RL_H"
  BY <1>2, StatusGo DEF ResponseRules
<1>3. CASE st = "RL_HT"
  BY <1>3, StatusGo DEF ResponseRules
<1>4. CASE st = "RL_HTT"
  BY <1>4, StatusGo DEF ResponseRules
<1>5. CASE st = "RL_HTTP"
  BY <1>5, StatusGo DEF ResponseRules
<1>6. CASE st = "RL_FIRST_MAJOR_DIGIT"
  BY <1>6, StatusGo, StatusDigit DEF ResponseRules
<1>7. CASE st = "RL_MAJOR_DIGIT"
  BY <1>7, StatusGo, StatusDigit DEF ResponseRules
<1>8. CASE st = "RL_FIRST_MINOR_DIGIT"
  BY <1>8, StatusGo, StatusDigit DEF ResponseRules
<1>9. CASE st = "RL_MINOR_DIGIT"
  <2>1. StatusFine(At([StatusCodeStart |-> 1], Go({" "}, "RL_STATUS")))
    BY StatusMarked, StatusMarks
  <2>2. StatusFine(More("minor", 99, Go(NonZero, "RL_MINOR_DIGIT")))
    BY StatusGo, StatusDigit
  <2> QED BY <1>9, <2>1, <2>2 DEF ResponseRules
<1>10. CASE st = "RL_STATUS"
  BY <1>10, StatusGo, StatusMarked, StatusMarks DEF ResponseRules
<1>11. CASE st = "RL_SPACE_AFTER_STATUS"
  <2>1. /\ StatusFine(At([StatusTextStart |-> 1], Go({" ", "."}, "RL_STATUS_TEXT")))
        /\ StatusFine(At([StatusLineEnd |-> 0], Go({LF}, "DONE")))
    BY StatusMarked, StatusMarks
  <2>2. StatusFine(Go({CR}, "RL_ALMOST_DONE"))
    BY StatusGo
  <2> QED BY <1>11, <2>1, <2>2 DEF ResponseRules
<1>12. CASE st = "RL_STATUS_TEXT"
  BY <1>12, StatusGo, StatusMarked, StatusMarks DEF ResponseRules
<1>13. CASE st = "RL_ALMOST_DONE"
  BY <1>13, StatusMarked, StatusMarks DEF ResponseRules
<1> QED BY <1>1, <1>2, <1>3, <1>4, <1>5, <1>6, <1>7, <1>8, <1>9, <1>10, <1>11, <1>12, <1>13

\* An automaton that has read the bytes before k: no mark is behind the byte it
\* looks at.
StatusMarksSafe(i, marks) ==
  /\ DOMAIN marks = ResponseMarks
  /\ \A m \in ResponseMarks : /\ marks[m] \in Int
                              /\ marks[m] <= i
                              /\ m # "StatusCodeEnd" => 0 <= marks[m]
ResponseSafe(k, a) ==
  /\ DOMAIN a = Parts
  /\ a.st \in ResponseStates \cup Ends
  /\ a.i \in Nat
  /\ IF a.st \in Ends THEN a.i < k ELSE a.i = k
  /\ StatusMarksSafe(a.i, a.marks)

LEMMA StatusMarksMoved ==
  ASSUME NEW i \in Nat, NEW marks, StatusMarksSafe(i, marks), NEW j \in {i, i + 1}, NEW m,
         StatusOffsets(m, IF j = i THEN 0 ELSE 1)
  PROVE  StatusMarksSafe(j, [k \in DOMAIN m |-> i + m[k]] @@ marks)
<1> DEFINE new == [k \in DOMAIN m |-> i + m[k]]
           all == new @@ marks
<1>1. DOMAIN all = ResponseMarks
  BY DEF StatusOffsets, StatusMarksSafe, @@
<1>2. \A k \in ResponseMarks : all[k] = IF k \in DOMAIN m THEN i + m[k] ELSE marks[k]
  BY <1>1 DEF @@
<1> HIDE DEF all
<1>3. ASSUME NEW k \in ResponseMarks
      PROVE  all[k] \in Int /\ all[k] <= j /\ (k # "StatusCodeEnd" => 0 <= all[k])
  <2>1. CASE k \in DOMAIN m
    <3>1. m[k] \in Int /\ m[k] <= (IF j = i THEN 0 ELSE 1) /\ (k # "StatusCodeEnd" => 0 <= m[k])
      BY <2>1 DEF StatusOffsets
    <3>2. all[k] = i + m[k]
      BY <1>2, <2>1
    <3> QED BY <3>1, <3>2
  <2>2. CASE k \notin DOMAIN m
    <3>1. all[k] = marks[k]
      BY <1>2, <2>2
    <3>2. marks[k] \in Int /\ marks[k] <= i /\ (k # "StatusCodeEnd" => 0 <= marks[k])
      BY DEF StatusMarksSafe
    <3> QED BY <3>1, <3>2
  <2> QED BY <2>1, <2>2
<1>4. StatusMarksSafe(j, all)
  BY <1>1, <1>3 DEF StatusMarksSafe
<1> QED BY <1>4 DEF all

LEMMA ResponseTurn ==
  ASSUME NEW k \in Nat, NEW a, ResponseSafe(k, a), a.st \notin Ends, NEW in
  PROVE  /\ ResponseSafe(k + 1, ResponseStep(in, a))
         /\ ResponseStep(in, a).st \in Ends \/ ResponseStep(in, a).i # a.i
<1> DEFINE b == Step(ResponseRules, a, in[a.i + 1])
           c == ResponseStep(in, a)
<1>1. a.st \in ResponseStates /\ a.i = k /\ DOMAIN a = Parts /\ StatusMarksSafe(a.i, a.marks)
  BY DEF ResponseSafe
<1>2. c = b \/ (b.st = "RL_STATUS" /\ c = [b EXCEPT !.st = "RL_SPACE_AFTER_STATUS"])
  BY DEF ResponseStep
<1>3. b = [a EXCEPT !.st = "BAD"] \/ \E r \in ResponseRules[a.st] : Moved(r, a, b)
  BY StepMoves
<1> HIDE DEF b, c
<1>4. ResponseSafe(k + 1, b) /\ (b.st \in Ends \/ b.i # a.i)
  <2>1. CASE b = [a EXCEPT !.st = "BAD"]
    <3>1. b.st = "BAD" /\ b.i = a.i /\ DOMAIN b = Parts /\ b.marks = a.marks
      BY <1>1, <2>1 DEF Parts
    <3> QED BY <1>1, <3>1 DEF ResponseSafe, Ends
  <2>2. CASE \E r \in ResponseRules[a.st] : Moved(r, a, b)
    <3>1. PICK r \in ResponseRules[a.st] : Moved(r, a, b)
      BY <2>2
    <3>2. StatusFine(r)
      BY <1>1, ResponseTable
    <3>3. /\ DOMAIN b = Parts /\ b.st = r.to /\ b.st \in ResponseStates \cup Ends
          /\ b.i = IF r.to \in Ends THEN a.i ELSE a.i + 1
      BY <3>1, <3>2 DEF Moved, StatusFine
    <3>4. StatusOffsets(r.marks, IF b.i = a.i THEN 0 ELSE 1) /\ b.i \in {a.i, a.i + 1}
      BY <1>1, <3>2, <3>3 DEF StatusFine
    <3>5. b.marks = [m \in DOMAIN r.marks |-> a.i + r.marks[m]] @@ a.marks
      BY <3>1 DEF Moved
    <3>6. StatusMarksSafe(b.i, b.marks)
      BY <1>1, <3>4, <3>5, StatusMarksMoved
    <3> QED BY <1>1, <3>3, <3>6 DEF ResponseSafe
  <2> QED BY <1>3, <2>1, <2>2
<1>5. CASE c = b
  BY <1>4, <1>5 DEF c
<1>6. CASE b.st = "RL_STATUS" /\ c = [b EXCEPT !.st = "RL_SPACE_AFTER_STATUS"]
  <2>1. DOMAIN c = Parts /\ c.st = "RL_SPACE_AFTER_STATUS" /\ c.i = b.i /\ c.marks = b.marks
    BY <1>4, <1>6 DEF ResponseSafe, Parts
  <2>2. ResponseSafe(k + 1, c) /\ c.i # a.i
    BY <1>4, <1>6, <2>1 DEF ResponseSafe, ResponseStates, Ends
  <2> QED BY <2>2 DEF c
<1> QED BY <1>2, <1>5, <1>6

LEMMA ResponseOnward ==
  ASSUME NEW k \in Nat, NEW a, ResponseSafe(k, a), NEW in
  PROVE  ResponseSafe(k + 1, Onward("response", in, a))
<1>1. Onward("response", in, a) =
        IF a.st \in Ends THEN a ELSE Twice(ResponseStep(in, a), ResponseStep(in, ResponseStep(in, a)), a.i)
  BY DEF Onward
<1>2. CASE a.st \in Ends
  BY <1>1, <1>2 DEF ResponseSafe
<1>3. CASE a.st \notin Ends
  BY <1>1, <1>3, ResponseTurn DEF Twice
<1> QED BY <1>2, <1>3

LEMMA ResponseLooped ==
  ASSUME NEW from \in Nat, NEW to \in Nat, from <= to, NEW in, NEW first, ResponseSafe(from, first)
  PROVE  ResponseSafe(to, Looped("response", in, first, from, to))
<1>1. PICK f : /\ f[from] = first
               /\ \A k \in from + 1 .. to : f[k] = Onward("response", in, f[k - 1])
               /\ Looped("response", in, first, from, to) = f[to]
  BY LoopIs
<1> DEFINE S == {n \in Nat : from + n <= to => ResponseSafe(from + n, f[from + n])}
<1>2. 0 \in S
  BY <1>1
<1>3. ASSUME NEW n \in Nat, n \in S PROVE n + 1 \in S
  <2>1. SUFFICES ASSUME from + (n + 1) <= to
                 PROVE  ResponseSafe(from + (n + 1), f[from + (n + 1)])
    OBVIOUS
  <2>2. ResponseSafe(from + n, f[from + n])
    BY <1>3, <2>1
  <2>3. f[from + (n + 1)] = Onward("response", in, f[from + n])
    BY <1>1, <2>1
  <2>4. from + (n + 1) = from + n + 1 /\ from + n \in Nat
    OBVIOUS
  <2> QED BY <2>2, <2>3, <2>4, ResponseOnward
<1>4. to - from \in S
  <2> HIDE DEF S
  <2> QED BY <1>2, <1>3, SetInduction
<1>5. from + (to - from) = to
  OBVIOUS
<1> QED BY <1>1, <1>4, <1>5

LEMMA StatusFieldsWithin ==
  ASSUME NEW n \in Nat, NEW i \in Nat, i + 1 < n, NEW m, StatusMarksSafe(i, m), NEW had,
         FieldsWithin(had, n)
  PROVE  LET part(name, from, to, more) == IF to > from THEN name :> <<from, to + more>> ELSE <<>>
         IN FieldsWithin(part("StatusCodeStr", m.StatusCodeStart, m.StatusCodeEnd, 0)
                           @@ part("StatusText", m.StatusTextStart, m.StatusTextEnd, 0)
                           @@ part("StatusLine", m.StatusLineStart, m.StatusLineEnd, 1) @@ had, n)
<1> DEFINE part(name, from, to, more) == IF to > from THEN name :> <<from, to + more>> ELSE <<>>
           e1 == part("StatusCodeStr", m.StatusCodeStart, m.StatusCodeEnd, 0)
           e2 == part("StatusText", m.StatusTextStart, m.StatusTextEnd, 0)
           e3 == part("StatusLine", m.StatusLineStart, m.StatusLineEnd, 1)
<1>1. /\ m.StatusCodeStart \in Nat /\ m.StatusTextStart \in Nat /\ m.StatusLineStart \in Nat
      /\ m.StatusCodeEnd \in Int /\ m.StatusTextEnd \in Int /\ m.StatusLineEnd \in Int
      /\ m.StatusCodeEnd <= i /\ m.StatusTextEnd <= i /\ m.StatusLineEnd <= i
  BY DEF StatusMarksSafe, ResponseMarks
<1>2. ASSUME NEW name, NEW from \in Nat, NEW to \in Int, NEW more \in {0, 1}, to <= i
      PROVE  FieldsWithin(part(name, from, to, more), n)
  <2>1. to + more \in Int /\ to + more <= n /\ (to > from => from <= to + more)
    BY <1>2
  <2> QED BY <1>2, <2>1, FieldOf, NoField
<1> HIDE DEF part
<1>3. FieldsWithin(e1, n) /\ FieldsWithin(e2, n) /\ FieldsWithin(e3, n)
  BY <1>1, <1>2
<1> HIDE DEF e1, e2, e3
<1>4. FieldsWithin(e1 @@ e2, n)
  BY <1>3, FieldsOverlaid
<1>5. FieldsWithin((e1 @@ e2) @@ e3, n)
  BY <1>3, <1>4, FieldsOverlaid
<1>6. FieldsWithin(((e1 @@ e2) @@ e3) @@ had, n)
  BY <1>5, FieldsOverlaid
<1> QED BY <1>6 DEF e1, e2, e3, part

\* The status line leaves fields in the text.
LEMMA StatusWithin ==
  ASSUME NEW in, Len(in) \in Nat, NEW code, NEW had, FieldsWithin(had, Len(in))
  PROVE  LET r == parseResponseline(in, code, had)
         IN r.answer = "OK" => FieldsWithin(r.fields, Len(in))
<1> DEFINE first == Start("RL_START", 0, ResponseMarks, [major |-> 0, minor |-> 0, status |-> code])
           a == ResponseRun(in, first)
           r == StatusAnswer(in, a, had)
<1>1. parseResponseline(in, code, had) = r
  BY DEF parseResponseline
<1>2. first.i = 0 /\ ResponseSafe(0, first)
  <2>1. first.i = 0 /\ first.st = "RL_START" /\ DOMAIN first = Parts
        /\ first.marks = [k \in ResponseMarks |-> 0]
    BY DEF Start, Parts
  <2> HIDE DEF first
  <2>2. StatusMarksSafe(0, first.marks)
    BY <2>1 DEF StatusMarksSafe
  <2> QED BY <2>1, <2>2 DEF ResponseSafe, ResponseStates, Ends
<1> HIDE DEF first
<1>3. ResponseSafe(Len(in), a)
  <2>1. CASE 0 < Len(in)
    <3>1. a = Looped("response", in, first, 0, Len(in))
      BY <1>2, <2>1 DEF ResponseRun, Run, Read, Looped, Turns, Onward, Twice
    <3> HIDE DEF a
    <3> QED BY <1>2, <2>1, <3>1, ResponseLooped
  <2>2. CASE Len(in) = 0
    <3>1. a = first
      BY <1>2, <2>2 DEF ResponseRun, Run
    <3> QED BY <1>2, <2>2, <3>1
  <2> QED BY <2>1, <2>2
<1> HIDE DEF a
<1>4. CASE a.st # "DONE" \/ a.i + 1 >= Len(in)
  <2>1. r = [answer |-> "EINVAL", code |-> a.numbers.status] \/ r = [answer |-> "EAGAIN", code |-> a.numbers.status]
    BY <1>4 DEF StatusAnswer
  <2>2. r.answer # "OK"
    BY <2>1
  <2> QED BY <1>1, <2>2
<1>5. CASE a.st = "DONE" /\ ~(a.i + 1 >= Len(in))
  <2> DEFINE m == a.marks
             part(name, from, to, more) == IF to > from THEN name :> <<from, to + more>> ELSE <<>>
             fields == part("StatusCodeStr", m.StatusCodeStart, m.StatusCodeEnd, 0)
                         @@ part("StatusText", m.StatusTextStart, m.StatusTextEnd, 0)
                         @@ part("StatusLine", m.StatusLineStart, m.StatusLineEnd, 1) @@ had
             version == a.numbers.major * 1000 + a.numbers.minor
             status == a.numbers.status
  <2>1. r = [answer |-> "OK", code |-> status, version |-> version, fields |-> fields]
    BY <1>5 DEF StatusAnswer
  <2>2. a.i \in Nat /\ a.i + 1 < Len(in) /\ StatusMarksSafe(a.i, m)
    BY <1>3, <1>5 DEF ResponseSafe, Ends
  <2>3. FieldsWithin(fields, Len(in))
    <3> HIDE DEF m
    <3> QED BY <2>2, StatusFieldsWithin
  <2> HIDE DEF fields, version, status
  <2>4. r.fields = fields
    BY <2>1
  <2> HIDE DEF r
  <2> QED BY <1>1, <2>3, <2>4
<1> QED BY <1>4, <1>5

-----------------------------------------------------------------------------
(* The method. *)

LEMMA SmallestOf ==
  ASSUME NEW T \in SUBSET Nat, T # {}
  PROVE  \E m \in T : \A k \in T : m <= k
<1> DEFINE S == {n \in Nat : \A k \in T : n <= k}
<1>1. SUFFICES ASSUME \A m \in T : \E k \in T : ~(m <= k) PROVE FALSE
  OBVIOUS
<1>2. 0 \in S
  OBVIOUS
<1>3. ASSUME NEW n \in Nat, n \in S PROVE n + 1 \in S
  <2>1. n \notin T
    BY <1>1, <1>3
  <2>2. \A k \in T : k \in Nat /\ n <= k /\ k # n
    BY <1>3, <2>1
  <2> QED BY <2>2
<1>4. Nat \subseteq S
  <2> HIDE DEF S
  <2> QED BY <1>2, <1>3, SetInduction
<1>5. PICK t \in T : TRUE
  OBVIOUS
<1>6. t + 1 \in S
  BY <1>4
<1> QED BY <1>5, <1>6

\* Where the method begins, behind CR and LF, and where the word may end.
Begins(in, k) == /\ \A j \in 0 .. (k - 1) : ByteAt(in, j) \in {CR, LF}
                 /\ ByteAt(in, k) \notin {CR, LF}
MayEnd(in, first, k) == ByteAt(in, first + k) = " " /\ (k = 3 \/ Len(in) > k + 1)

\* A byte that may begin a method.
OfMethod(c) == c \in CharSet(UpperText) \cup {"_", "-"}

\* The method is the z bytes from first on.
MethodAt(in, first, z) ==
  /\ first \in 0 .. Len(in) /\ Len(in) - first >= 5
  /\ Begins(in, first)
  /\ OfMethod(in[first + 1])
  /\ z \in 3 .. 9 /\ MayEnd(in, first, z)
  /\ \A k \in 3 .. 9 : MayEnd(in, first, k) => z <= k

LEMMA MethodIs ==
  ASSUME NEW in \in Seq(Bytes), NEW method, parseMethod(in, method).answer = "OK"
  PROVE  \E first \in Nat, z \in Nat : MethodAt(in, first, z)
<1> DEFINE first == CHOOSE k \in 0 .. Len(in) : /\ \A j \in 0 .. (k - 1) : ByteAt(in, j) \in {CR, LF}
                                                /\ ByteAt(in, k) \notin {CR, LF}
           space == {k \in 3 .. 9 : ByteAt(in, first + k) = " " /\ (k = 3 \/ Len(in) > k + 1)}
           size == CHOOSE k \in space : \A j \in space : k <= j
           text == Text(in, first, first + size)
           r == parseMethod(in, method)
           odd == first < Len(in) /\ ~OfMethod(in[first + 1])
           short == Len(in) - first < 5
<1>1. Len(in) \in Nat
  OBVIOUS
<1>2. first \in 0 .. Len(in) /\ Begins(in, first)
  <2> DEFINE T == {k \in 0 .. Len(in) : ByteAt(in, k) \notin {CR, LF}}
  <2>1. Len(in) \in T
    BY <1>1 DEF ByteAt, CR, LF
  <2>2. T \in SUBSET Nat
    BY <1>1
  <2>3. PICK m \in T : \A k \in T : m <= k
    <3> HIDE DEF T
    <3> QED BY <2>1, <2>2, SmallestOf
  <2>4. \A j \in 0 .. (m - 1) : ByteAt(in, j) \in {CR, LF}
    <3> SUFFICES ASSUME NEW j \in 0 .. (m - 1) PROVE ByteAt(in, j) \in {CR, LF}
      OBVIOUS
    <3>1. m \in 0 .. Len(in) /\ j \in 0 .. Len(in) /\ j < m
      BY <1>1, <2>3
    <3>2. j \notin T
      <4> HIDE DEF T
      <4> QED BY <2>3, <3>1
    <3> QED BY <3>1, <3>2
  <2>5. \E k \in 0 .. Len(in) : Begins(in, k)
    BY <2>3, <2>4 DEF Begins
  <2>6. first = CHOOSE k \in 0 .. Len(in) : Begins(in, k)
    BY DEF Begins
  <2> HIDE DEF first
  <2> QED BY <2>5, <2>6
<1>3. r = IF odd THEN [answer |-> "EFAULT"]
          ELSE IF short THEN [answer |-> "EAGAIN"]
          ELSE IF space = {} THEN [answer |-> "EFAULT"]
          ELSE MethodWord(text, method)
  BY DEF parseMethod, OfMethod
<1> HIDE DEF first
<1>4. ~odd /\ ~short /\ space # {}
  <2>1. r.answer = "OK"
    OBVIOUS
  <2> HIDE DEF odd, short, space, text, r
  <2> QED BY <1>3, <2>1
<1>5. \A k : k \in space <=> k \in 3 .. 9 /\ MayEnd(in, first, k)
  BY DEF MayEnd
<1> HIDE DEF space
<1>6. \E k \in space : \A j \in space : k <= j
  <2>1. space \in SUBSET Nat
    BY <1>5
  <2> QED BY <1>4, <2>1, SmallestOf
<1>7. PICK z \in space : \A j \in space : z <= j
  BY <1>6
<1>8. z \in 3 .. 9 /\ MayEnd(in, first, z) /\ \A k \in 3 .. 9 : MayEnd(in, first, k) => z <= k
  BY <1>5, <1>7
<1>9. Len(in) - first >= 5 /\ OfMethod(in[first + 1])
  BY <1>1, <1>2, <1>4
<1> QED BY <1>2, <1>8, <1>9 DEF MethodAt

LEMMA MethodFound ==
  ASSUME NEW in \in Seq(Bytes), NEW method, NEW first \in Nat, NEW z \in Nat, MethodAt(in, first, z)
  PROVE  parseMethod(in, method) = MethodWord(Text(in, first, first + z), method)
<1> DEFINE begin == CHOOSE k \in 0 .. Len(in) : /\ \A j \in 0 .. (k - 1) : ByteAt(in, j) \in {CR, LF}
                                                /\ ByteAt(in, k) \notin {CR, LF}
           space == {k \in 3 .. 9 : ByteAt(in, begin + k) = " " /\ (k = 3 \/ Len(in) > k + 1)}
           size == CHOOSE k \in space : \A j \in space : k <= j
           text == Text(in, begin, begin + size)
           r == parseMethod(in, method)
           odd == begin < Len(in) /\ ~OfMethod(in[begin + 1])
           short == Len(in) - begin < 5
<1>1. first \in 0 .. Len(in) /\ first \in Nat /\ Len(in) \in Nat /\ Begins(in, first)
  BY DEF MethodAt
<1>2. ASSUME NEW k \in 0 .. Len(in), Begins(in, k) PROVE k = first
  <2>0. k \in Nat
    BY <1>1
  <2>1. k < first => k \in 0 .. (first - 1)
    BY <1>1, <2>0
  <2>2. first < k => first \in 0 .. (k - 1)
    BY <1>1, <2>0
  <2>3. ~(k < first) /\ ~(first < k)
    BY <1>1, <1>2, <2>1, <2>2 DEF Begins
  <2> QED BY <1>1, <2>0, <2>3
<1>3. begin = first
  <2>1. begin = CHOOSE k \in 0 .. Len(in) : Begins(in, k)
    BY DEF Begins
  <2> HIDE DEF begin
  <2> QED BY <1>1, <1>2, <2>1
<1>4. r = IF odd THEN [answer |-> "EFAULT"]
          ELSE IF short THEN [answer |-> "EAGAIN"]
          ELSE IF space = {} THEN [answer |-> "EFAULT"]
          ELSE MethodWord(text, method)
  BY DEF parseMethod, OfMethod
<1> HIDE DEF begin
<1>5. \A k : k \in space <=> k \in 3 .. 9 /\ MayEnd(in, first, k)
  BY <1>3 DEF MayEnd
<1>6. ~odd /\ ~short
  BY <1>1, <1>3 DEF MethodAt
<1> HIDE DEF odd, short, space, r
<1>7. z \in space /\ \A k \in space : z <= k /\ k \in 3 .. 9 /\ z \in 3 .. 9
  BY <1>5 DEF MethodAt
<1>8. size = z
  <2>1. \A k \in space : (\A j \in space : k <= j) => k = z
    BY <1>7
  <2> QED BY <1>7, <2>1
<1> HIDE DEF size
<1>9. r = MethodWord(text, method)
  <2> HIDE DEF text
  <2> QED BY <1>4, <1>6, <1>7
<1> QED BY <1>3, <1>8, <1>9 DEF r

LEMMA EndsInText ==
  ASSUME NEW in, NEW first, NEW k, MayEnd(in, first, k)
  PROVE  first + k < Len(in) /\ (k = 3 \/ Len(in) > k + 1)
<1>1. CASE first + k < Len(in)
  BY <1>1 DEF MayEnd
<1>2. CASE ~(first + k < Len(in))
  <2>1. ByteAt(in, first + k) = "NUL"
    BY <1>2 DEF ByteAt
  <2> QED BY <2>1 DEF MayEnd
<1> QED BY <1>1, <1>2

\* The length of a method that was read.
LEMMA MethodWithin ==
  ASSUME NEW in \in Seq(Bytes), NEW method
  PROVE  LET r == parseMethod(in, method) IN r.answer = "OK" => r.size \in Nat
<1> DEFINE r == parseMethod(in, method)
<1>1. SUFFICES ASSUME r.answer = "OK" PROVE r.size \in Nat
  OBVIOUS
<1>2. PICK first \in Nat, z \in Nat : MethodAt(in, first, z)
  BY <1>1, MethodIs
<1> DEFINE text == Text(in, first, first + z)
           word == CHOOSE w \in Word : Chars(w) = text
           w == MethodWord(text, method)
<1>3. r = w
  BY <1>2, MethodFound
<1>4. Len(text) \in Nat
  <2>1. first + z < Len(in) /\ Len(in) \in Nat
    BY <1>2, EndsInText DEF MethodAt
  <2>2. first + 1 \in 1 .. Len(in) + 1 /\ first + z \in (first + 1) - 1 .. Len(in)
    BY <2>1
  <2>3. text \in Seq(Bytes)
    BY <2>2, SubSeqProperties DEF Text
  <2> QED BY <2>3
<1> HIDE DEF text, r
<1>5. \/ w = [answer |-> "OK", size |-> Len(text), method |-> word]
      \/ w = [answer |-> "OK", size |-> 4, method |-> method]
      \/ w.answer # "OK"
  BY DEF MethodWord
<1> HIDE DEF word, w
<1> QED BY <1>1, <1>3, <1>4, <1>5

-----------------------------------------------------------------------------
(* A call of parse. *)

LEMMA FieldsStay ==
  ASSUME NEW fields, NEW n \in Nat, NEW m \in Nat, n <= m, FieldsWithin(fields, n)
  PROVE  FieldsWithin(fields, m)
BY DEF FieldsWithin

\* The states in which HeadersOffset has been set.
LineRead == {"HTTP_PARSE_HEADER", "HTTP_PARSE_HEADERS", "HTTP_HEADER_DONE"}

\* A parser that has been given n bytes at most.
ParserSafe(q, n) ==
  /\ DOMAIN q = Members
  /\ q.size \in Nat
  /\ q.off \in 0 .. n
  /\ FieldsWithin(q.fields, n)
  /\ q.state = "HTTP_HEADER_DONE" => q.body \in Nat /\ q.body < n
  /\ q.off # 0 => q.state \in LineRead

\* What a case of parse makes of the parser q.
Handed(q, r, n) == ParserSafe(r, n) /\ q.off <= r.off

LEMMA HandedOn ==
  ASSUME NEW n \in Nat, NEW q, NEW r, NEW s, ParserSafe(q, n), Handed(q, r, n), Handed(r, s, n)
  PROVE  Handed(q, s, n)
<1>1. q.off \in Int /\ r.off \in Int /\ s.off \in Int
  BY DEF Handed, ParserSafe
<1> QED BY <1>1 DEF Handed

LEMMA BodyAfter ==
  ASSUME NEW in, Len(in) \in Nat, NEW q, ParserSafe(q, Len(in)),
         q.state \in {"HTTP_PARSE_HEADER", "HTTP_PARSE_HEADERS"}
  PROVE  Handed(q, Body(in, parseHeaders(in, q)), Len(in))
<1> DEFINE r == parseHeaders(in, q)
           b == Body(in, r)
<1>1. BlockSafe(in, q, 0, r)
  BY HeadersWithin DEF ParserSafe
<1> HIDE DEF r
<1>2. /\ DOMAIN r = Members /\ r.off \in Nat /\ r.off <= Len(in) /\ q.off <= r.off
      /\ r.state = q.state /\ r.size \in Nat /\ FieldsWithin(r.fields, Len(in))
  BY <1>1 DEF BlockSafe, ParserSafe
<1>3. b = r \/ (r.off < Len(in) /\ b = [r EXCEPT !.state = "HTTP_HEADER_DONE", !.body = r.off])
  <2>1. CASE r.answer # "OK" \/ r.off >= Len(in)
    BY <2>1 DEF Body
  <2>2. CASE ~(r.answer # "OK" \/ r.off >= Len(in))
    BY <1>2, <2>2 DEF Body
  <2> QED BY <2>1, <2>2
<1> HIDE DEF b
<1>4. CASE b = r
  BY <1>2, <1>4 DEF b, r, Handed, ParserSafe, LineRead
<1>5. CASE r.off < Len(in) /\ b = [r EXCEPT !.state = "HTTP_HEADER_DONE", !.body = r.off]
  <2>1. /\ DOMAIN b = Members /\ b.off = r.off /\ b.size = r.size /\ b.fields = r.fields
        /\ b.state = "HTTP_HEADER_DONE" /\ b.body = r.off
    BY <1>2, <1>5 DEF Members
  <2>2. Handed(q, b, Len(in))
    BY <1>2, <1>5, <2>1 DEF Handed, ParserSafe, LineRead
  <2> QED BY <2>2 DEF b, r
<1> QED BY <1>3, <1>4, <1>5

LEMMA MethodAfter ==
  ASSUME NEW in \in Seq(Bytes), NEW q, ParserSafe(q, Len(in)), q.state \in {"HTTP_INIT", "HTTP_PARSE_METHOD"}
  PROVE  Handed(q, Method(q, parseMethod(in, q.method)), Len(in))
<1> DEFINE r == parseMethod(in, q.method)
           b == Method(q, r)
<1>0. Len(in) \in Nat
  OBVIOUS
<1>1. r.answer = "OK" => r.size \in Nat
  BY MethodWithin
<1> HIDE DEF r
<1>2. q.off = 0 /\ DOMAIN q = Members /\ q.size \in Nat /\ FieldsWithin(q.fields, Len(in))
  BY DEF ParserSafe, LineRead
<1>3. /\ DOMAIN b = Members /\ b.off = q.off /\ b.fields = q.fields
      /\ b.state \in {"HTTP_PARSE_METHOD", "HTTP_PARSE_REQUEST_LINE"}
      /\ b.size = IF r.answer = "OK" THEN r.size ELSE q.size
  <2>1. CASE r.answer # "OK"
    <3>1. b = [q EXCEPT !.state = "HTTP_PARSE_METHOD", !.answer = r.answer]
      BY <2>1 DEF Method
    <3> QED BY <1>2, <2>1, <3>1 DEF Members
  <2>2. CASE r.answer = "OK"
    <3>1. b = [q EXCEPT !.state = "HTTP_PARSE_REQUEST_LINE", !.answer = "OK",
                        !.method = r.method, !.size = r.size]
      BY <2>2 DEF Method
    <3> QED BY <1>2, <2>2, <3>1 DEF Members
  <2> QED BY <2>1, <2>2
<1> HIDE DEF b
<1>4. b.size \in Nat
  BY <1>1, <1>2, <1>3
<1>5. Handed(q, b, Len(in))
  BY <1>0, <1>2, <1>3, <1>4 DEF Handed, ParserSafe
<1> QED BY <1>5 DEF b, r

LEMMA LineAfter ==
  ASSUME NEW in, Len(in) \in Nat, NEW q, ParserSafe(q, Len(in)), q.state = "HTTP_PARSE_REQUEST_LINE"
  PROVE  Handed(q, Line(in, q, parseRequestline(in, q.size, q.method, q.fields)), Len(in))
<1> DEFINE r == parseRequestline(in, q.size, q.method, q.fields)
           b == Line(in, q, r)
           flags == q.flags \cup r.flags
           fields == IF "fields" \in DOMAIN r THEN r.fields ELSE q.fields
           version == IF "version" \in DOMAIN r THEN r.version ELSE q.version
           known == [q EXCEPT !.answer = r.answer, !.flags = flags, !.fields = fields, !.version = version]
           off == r.fields.RequestLine[2]
<1>1. q.off = 0 /\ DOMAIN q = Members /\ q.size \in Nat /\ FieldsWithin(q.fields, Len(in))
  BY DEF ParserSafe, LineRead
<1>2. /\ "fields" \in DOMAIN r => FieldsWithin(r.fields, Len(in))
      /\ r.answer = "OK" => "fields" \in DOMAIN r /\ r.fields.RequestLine[1 + 1] \in 0 .. Len(in)
  BY <1>1, LineWithin
<1>3. FieldsWithin(fields, Len(in)) /\ (r.answer = "OK" => off \in 0 .. Len(in))
  BY <1>1, <1>2
<1>4. b = IF r.answer # "OK" THEN known ELSE [known EXCEPT !.state = "HTTP_PARSE_HEADER", !.off = off]
  BY <1>1 DEF Line, Members
<1> HIDE DEF r, flags, fields, version, off, b
<1>5. DOMAIN known = Members /\ known.off = 0 /\ known.size = q.size /\ known.fields = fields
      /\ known.state = q.state
  BY <1>1 DEF Members
<1> HIDE DEF known
<1>6. /\ DOMAIN b = Members /\ b.size = q.size /\ b.fields = fields
      /\ IF r.answer # "OK" THEN b.off = 0 /\ b.state = q.state
                            ELSE b.off = off /\ b.state = "HTTP_PARSE_HEADER"
  BY <1>4, <1>5 DEF Members
<1>7. Handed(q, b, Len(in))
  BY <1>1, <1>3, <1>6 DEF Handed, ParserSafe, LineRead
<1> QED BY <1>7 DEF b, r

LEMMA StatusAfter ==
  ASSUME NEW in, Len(in) \in Nat, NEW q, ParserSafe(q, Len(in)),
         q.state \in {"HTTP_INIT", "HTTP_PARSE_RESPONSE_LINE"}
  PROVE  Handed(q, StatusLine(in, q, parseResponseline(in, q.code, q.fields)), Len(in))
<1> DEFINE r == parseResponseline(in, q.code, q.fields)
           b == StatusLine(in, q, r)
           known == [q EXCEPT !.answer = r.answer, !.code = r.code]
           off == IF "StatusLine" \in DOMAIN r.fields
                  THEN r.fields.StatusLine[2] - r.fields.StatusLine[1] ELSE 0
           fields == r.fields
           version == r.version
<1>1. q.off = 0 /\ DOMAIN q = Members /\ q.size \in Nat /\ FieldsWithin(q.fields, Len(in))
  BY DEF ParserSafe, LineRead
<1>2. r.answer = "OK" => FieldsWithin(fields, Len(in))
  BY <1>1, StatusWithin
<1>3. b = IF r.answer # "OK" THEN [known EXCEPT !.state = "HTTP_PARSE_RESPONSE_LINE"]
          ELSE [known EXCEPT !.state = "HTTP_PARSE_HEADERS", !.version = version, !.fields = fields,
                             !.off = off]
  BY DEF StatusLine
<1> HIDE DEF r, b
<1>4. r.answer = "OK" => off \in 0 .. Len(in)
  <2>1. CASE "StatusLine" \in DOMAIN r.fields /\ r.answer = "OK"
    <3> DEFINE f == r.fields.StatusLine
    <3>1. f[1] \in Nat /\ f[1 + 1] \in Nat /\ f[1] <= f[1 + 1] /\ f[1 + 1] <= Len(in)
      BY <1>2, <2>1 DEF FieldsWithin
    <3>2. off = f[1 + 1] - f[1]
      BY <2>1
    <3> HIDE DEF off, f
    <3> QED BY <3>1, <3>2
  <2>2. CASE "StatusLine" \notin DOMAIN r.fields
    BY <2>2
  <2> QED BY <2>1, <2>2
<1> HIDE DEF off, fields, version
<1>5. DOMAIN known = Members /\ known.off = 0 /\ known.size = q.size /\ known.fields = q.fields
  BY <1>1 DEF Members
<1> HIDE DEF known
<1>6. /\ DOMAIN b = Members /\ b.size = q.size
      /\ IF r.answer # "OK" THEN b.off = 0 /\ b.state = "HTTP_PARSE_RESPONSE_LINE" /\ b.fields = q.fields
                            ELSE b.off = off /\ b.state = "HTTP_PARSE_HEADERS" /\ b.fields = fields
  BY <1>3, <1>5 DEF Members
<1>7. Handed(q, b, Len(in))
  BY <1>1, <1>2, <1>4, <1>6 DEF Handed, ParserSafe, LineRead
<1> QED BY <1>7 DEF b, r

\* A call leaves a parser within its input, with HeadersOffset no smaller.
LEMMA ParseHanded ==
  ASSUME NEW kind, NEW in \in Seq(Bytes), NEW q, ParserSafe(q, Len(in))
  PROVE  Handed(q, Parse(kind, in, q), Len(in))
<1>1. Len(in) \in Nat
  OBVIOUS
<1>2. ASSUME NEW r, ParserSafe(r, Len(in)) PROVE Handed(r, r, Len(in))
  BY <1>2 DEF Handed, ParserSafe
<1>3. ASSUME NEW r, ParserSafe(r, Len(in)) PROVE Handed(r, CaseMethod(in, r), Len(in))
  BY <1>2, <1>3, MethodAfter DEF CaseMethod
<1>4. ASSUME NEW r, ParserSafe(r, Len(in)) PROVE Handed(r, CaseLine(in, r), Len(in))
  BY <1>1, <1>2, <1>4, LineAfter DEF CaseLine
<1>5. ASSUME NEW r, ParserSafe(r, Len(in)) PROVE Handed(r, CaseHeader(in, r), Len(in))
  BY <1>1, <1>2, <1>5, BodyAfter DEF CaseHeader
<1>6. ASSUME NEW r, ParserSafe(r, Len(in)) PROVE Handed(r, CaseStatus(in, r), Len(in))
  BY <1>1, <1>2, <1>6, StatusAfter DEF CaseStatus
<1>7. ASSUME NEW r, ParserSafe(r, Len(in)) PROVE Handed(r, CaseHeaders(in, r), Len(in))
  BY <1>1, <1>2, <1>7, BodyAfter DEF CaseHeaders
<1>8. Handed(q, ParseRequest(in, q), Len(in))
  <2> DEFINE r == CaseMethod(in, q)
             s == CaseLine(in, r)
             t == CaseHeader(in, s)
  <2>1. ParseRequest(in, q) = t
    BY DEF ParseRequest
  <2>2. Handed(q, r, Len(in))
    BY <1>3
  <2> HIDE DEF r
  <2>3. ParserSafe(r, Len(in))
    BY <2>2 DEF Handed
  <2>4. Handed(r, s, Len(in))
    BY <1>4, <2>3
  <2> HIDE DEF s
  <2>5. ParserSafe(s, Len(in)) /\ Handed(q, s, Len(in))
    BY <1>1, <2>2, <2>4, HandedOn DEF Handed
  <2>6. Handed(s, t, Len(in))
    BY <1>5, <2>5
  <2> HIDE DEF t
  <2> QED BY <1>1, <2>1, <2>5, <2>6, HandedOn
<1>9. Handed(q, ParseResponse(in, q), Len(in))
  <2> DEFINE r == CaseStatus(in, q)
             s == CaseHeaders(in, r)
  <2>1. ParseResponse(in, q) = s
    BY DEF ParseResponse
  <2>2. Handed(q, r, Len(in))
    BY <1>6
  <2> HIDE DEF r
  <2>3. ParserSafe(r, Len(in))
    BY <2>2 DEF Handed
  <2>4. Handed(r, s, Len(in))
    BY <1>7, <2>3
  <2> HIDE DEF s
  <2> QED BY <1>1, <2>1, <2>2, <2>4, HandedOn
<1>10. CASE q.state = "HTTP_HEADER_DONE"
  <2> DEFINE b == [q EXCEPT !.answer = "OK"]
  <2>1. Parse(kind, in, q) = b
    BY <1>10 DEF Parse
  <2>2. /\ DOMAIN b = Members /\ b.off = q.off /\ b.size = q.size /\ b.fields = q.fields
        /\ b.state = q.state /\ b.body = q.body
    BY DEF ParserSafe, Members
  <2> HIDE DEF b
  <2>3. Handed(q, b, Len(in))
    BY <2>2 DEF Handed, ParserSafe
  <2> QED BY <2>1, <2>3
<1> QED BY <1>8, <1>9, <1>10 DEF Parse

-----------------------------------------------------------------------------
(* Going on with more bytes: what was read of a prefix is read of the text. *)

Prefix(s, t) == Len(s) <= Len(t) /\ \A i \in 1 .. Len(s) : s[i] = t[i]

LEMMA TextOfPrefix ==
  ASSUME NEW s \in Seq(Bytes), NEW t \in Seq(Bytes), Prefix(s, t),
         NEW from \in Nat, NEW to \in Nat, from <= to, to <= Len(s)
  PROVE  Text(s, from, to) = Text(t, from, to)
<1> DEFINE x == SubSeq(s, from + 1, to)
           y == SubSeq(t, from + 1, to)
<1>1. Len(s) \in Nat /\ Len(t) \in Nat /\ Len(s) <= Len(t)
  BY DEF Prefix
<1>2. /\ from + 1 \in 1 .. Len(s) + 1 /\ to \in (from + 1) - 1 .. Len(s)
      /\ from + 1 \in 1 .. Len(t) + 1 /\ to \in (from + 1) - 1 .. Len(t)
  BY <1>1
<1>3. /\ x \in Seq(Bytes) /\ Len(x) = to - (from + 1) + 1
      /\ \A i \in 1 .. to - (from + 1) + 1 : x[i] = s[(from + 1) + i - 1]
  BY <1>2, SubSeqProperties
<1>4. /\ y \in Seq(Bytes) /\ Len(y) = to - (from + 1) + 1
      /\ \A i \in 1 .. to - (from + 1) + 1 : y[i] = t[(from + 1) + i - 1]
  BY <1>2, SubSeqProperties
<1>5. ASSUME NEW i \in 1 .. to - (from + 1) + 1 PROVE s[(from + 1) + i - 1] = t[(from + 1) + i - 1]
  <2>1. (from + 1) + i - 1 \in 1 .. Len(s)
    BY <1>1
  <2> QED BY <2>1 DEF Prefix
<1> HIDE DEF x, y
<1>6. Len(x) = Len(y) /\ \A i \in 1 .. Len(x) : x[i] = y[i]
  BY <1>3, <1>4, <1>5
<1>7. x = y
  BY <1>3, <1>4, <1>6, SeqEqual
<1> QED BY <1>7 DEF Text, x, y

\* The three automata.
Automata == {"header", "line", "response"}
Safe(loop, off, k, a) ==
  CASE loop = "header" -> HeaderSafe(off, k, a)
    [] loop = "line" -> LineSafe(k, a)
    [] loop = "response" -> ResponseSafe(k, a)

LEMMA SafeOnward ==
  ASSUME NEW loop \in Automata, NEW off \in Nat, NEW k \in Nat, NEW a, Safe(loop, off, k, a), NEW in
  PROVE  Safe(loop, off, k + 1, Onward(loop, in, a))
<1>1. CASE loop = "header"
  BY <1>1, HeaderOnward DEF Safe
<1>2. CASE loop = "line"
  BY <1>2, LineOnward DEF Safe
<1>3. CASE loop = "response"
  BY <1>3, ResponseOnward DEF Safe
<1> QED BY <1>1, <1>2, <1>3 DEF Automata

LEMMA SafeAt ==
  ASSUME NEW loop \in Automata, NEW off, NEW k, NEW a, Safe(loop, off, k, a)
  PROVE  DOMAIN a = Parts /\ a.i \in Nat /\ IF a.st \in Ends THEN a.i < k ELSE a.i = k
BY DEF Automata, Safe, HeaderSafe, LineSafe, ResponseSafe

LEMMA EndStays ==
  ASSUME NEW loop \in Automata, NEW in, NEW a, a.st \in Ends
  PROVE  Onward(loop, in, a) = a
BY DEF Automata, Onward

\* A turn at a byte that both texts have.
LEMMA HeaderStepAgrees ==
  ASSUME NEW s \in Seq(Bytes), NEW t \in Seq(Bytes), Prefix(s, t), NEW off \in Nat, NEW k \in Nat,
         k < Len(s), NEW a, HeaderSafe(off, k, a), a.st \notin Ends
  PROVE  HeaderStep(s, a) = HeaderStep(t, a)
<1> DEFINE begins == a.marks.HeaderStart
           isStatus(in) == begins + 4 <= a.i /\ Text(in, begins, begins + 4) = Chars("HTTP")
<1>1. a.i = k /\ begins \in Nat
  BY DEF HeaderSafe, HeaderMarked, HeaderMarks
<1>2. s[a.i + 1] = t[a.i + 1]
  BY <1>1 DEF Prefix
<1>3. isStatus(s) = isStatus(t)
  <2>1. CASE begins + 4 <= a.i
    <3>1. Text(s, begins, begins + 4) = Text(t, begins, begins + 4)
      <4> HIDE DEF begins
      <4>1. begins + 4 \in Nat /\ begins <= begins + 4 /\ begins + 4 <= Len(s)
        BY <1>1, <2>1
      <4> QED BY <1>1, <4>1, TextOfPrefix
    <3> QED BY <3>1
  <2>2. CASE ~(begins + 4 <= a.i)
    BY <2>2
  <2> QED BY <2>1, <2>2
<1>4. ASSUME NEW in
      PROVE  HeaderStep(in, a) = IF a.st = "HDR_NAME" /\ in[a.i + 1] = "/" /\ ~isStatus(in)
                                 THEN [a EXCEPT !.st = "BAD"] ELSE Step(HeaderRules, a, in[a.i + 1])
  BY DEF HeaderStep
<1> HIDE DEF isStatus
<1> QED BY <1>2, <1>3, <1>4

LEMMA OnwardAgrees ==
  ASSUME NEW loop \in Automata, NEW s \in Seq(Bytes), NEW t \in Seq(Bytes), Prefix(s, t), NEW off \in Nat,
         NEW k \in Nat, k < Len(s), NEW a, Safe(loop, off, k, a)
  PROVE  Onward(loop, s, a) = Onward(loop, t, a)
<1>1. CASE a.st \in Ends
  BY <1>1, EndStays
<1>2. CASE a.st \notin Ends
  <2>1. a.i = k /\ s[k + 1] = t[k + 1]
    BY <1>2, SafeAt DEF Prefix
  <2>2. CASE loop = "header"
    <3>1. HeaderSafe(off, k, a)
      BY <2>2 DEF Safe
    <3>2. HeaderStep(s, a) = HeaderStep(t, a)
      BY <1>2, <3>1, HeaderStepAgrees
    <3>3. HeaderStep(s, a).st \in Ends \/ HeaderStep(s, a).i # a.i
      BY <1>2, <3>1, HeaderTurn
    <3>4. \A in : Onward(loop, in, a) = Twice(HeaderStep(in, a), HeaderStep(in, HeaderStep(in, a)), a.i)
      BY <1>2, <2>2 DEF Onward
    <3> QED BY <3>2, <3>3, <3>4 DEF Twice
  <2>3. CASE loop = "line"
    <3>1. \A b : b.i = k => LineStep(s, b) = LineStep(t, b)
      BY <2>1 DEF LineStep
    <3>2. \A in : Onward(loop, in, a) = Twice(LineStep(in, a), LineStep(in, LineStep(in, a)), a.i)
      BY <1>2, <2>3 DEF Onward
    <3> QED BY <2>1, <3>1, <3>2 DEF Twice
  <2>4. CASE loop = "response"
    <3>1. \A b : b.i = k => ResponseStep(s, b) = ResponseStep(t, b)
      BY <2>1 DEF ResponseStep
    <3>2. \A in : Onward(loop, in, a) = Twice(ResponseStep(in, a), ResponseStep(in, ResponseStep(in, a)), a.i)
      BY <1>2, <2>4 DEF Onward
    <3> QED BY <2>1, <3>1, <3>2 DEF Twice
  <2> QED BY <2>2, <2>3, <2>4 DEF Automata
<1> QED BY <1>1, <1>2

\* Flags are only added.
LEMMA LineStepFlags ==
  ASSUME NEW in, NEW a, DOMAIN a = Parts
  PROVE  a.flags \subseteq LineStep(in, a).flags
<1> DEFINE b == LineStep(in, a)
<1>1. b = [a EXCEPT !.st = "BAD"] \/ \E r \in LineRules[a.st] : Moved(r, a, b)
  BY StepMoves DEF LineStep
<1> HIDE DEF b
<1>2. CASE b = [a EXCEPT !.st = "BAD"]
  <2>1. b.flags = a.flags
    BY <1>2 DEF Parts
  <2> QED BY <2>1 DEF b
<1>3. CASE \E r \in LineRules[a.st] : Moved(r, a, b)
  <2>1. PICK r \in LineRules[a.st] : b.flags = a.flags \cup r.flags
    BY <1>3 DEF Moved
  <2> QED BY <2>1 DEF b
<1> QED BY <1>1, <1>2, <1>3

LEMMA LineOnwardFlags ==
  ASSUME NEW k \in Nat, NEW a, LineSafe(k, a), NEW in
  PROVE  a.flags \subseteq Onward("line", in, a).flags
<1> DEFINE b == LineStep(in, a)
<1>1. Onward("line", in, a) = IF a.st \in Ends THEN a ELSE Twice(b, LineStep(in, b), a.i)
  BY DEF Onward
<1>2. CASE a.st \in Ends
  BY <1>1, <1>2
<1>3. CASE a.st \notin Ends
  <2>1. a.flags \subseteq b.flags
    BY LineStepFlags DEF LineSafe
  <2>2. DOMAIN b = Parts
    BY <1>3, LineTurn DEF LineSafe
  <2> HIDE DEF b
  <2>3. b.flags \subseteq LineStep(in, b).flags
    BY <2>2, LineStepFlags
  <2> QED BY <1>1, <1>3, <2>1, <2>3 DEF Twice
<1> QED BY <1>2, <1>3

\* Where an automaton is after a text, and where it is after a longer one.
Beyond(loop, a, b) == (a.st \in Ends => b = a) /\ (loop = "line" => a.flags \subseteq b.flags)

LEMMA BeyondOnward ==
  ASSUME NEW loop \in Automata, NEW off \in Nat, NEW k \in Nat, NEW in, NEW a, NEW b, Safe(loop, off, k, b),
         Beyond(loop, a, b)
  PROVE  Beyond(loop, a, Onward(loop, in, b))
<1> DEFINE c == Onward(loop, in, b)
<1>1. a.st \in Ends => c = a
  BY EndStays DEF Beyond
<1>2. loop = "line" => b.flags \subseteq c.flags
  BY LineOnwardFlags DEF Safe
<1> HIDE DEF c
<1>3. Beyond(loop, a, c)
  BY <1>1, <1>2 DEF Beyond
<1> QED BY <1>3 DEF c

LEMMA TurnsBeyond ==
  ASSUME NEW loop \in Automata, NEW in, NEW off \in Nat, NEW from \in Nat, NEW to \in Nat, from <= to,
         NEW f, Safe(loop, off, from, f[from]),
         \A k \in from + 1 .. to : f[k] = Onward(loop, in, f[k - 1])
  PROVE  Beyond(loop, f[from], f[to])
<1> DEFINE T == {k \in Nat : from + k <= to =>
                   Safe(loop, off, from + k, f[from + k]) /\ Beyond(loop, f[from], f[from + k])}
<1>1. 0 \in T
  <2>1. from + 0 = from
    OBVIOUS
  <2> QED BY <2>1 DEF Beyond
<1>2. ASSUME NEW k \in Nat, k \in T PROVE k + 1 \in T
  <2> DEFINE i == from + k
  <2>1. SUFFICES ASSUME i + 1 <= to
                 PROVE  Safe(loop, off, i + 1, f[i + 1]) /\ Beyond(loop, f[from], f[i + 1])
    OBVIOUS
  <2>2. i \in Nat /\ i <= to /\ i + 1 \in from + 1 .. to
    BY <2>1
  <2>3. Safe(loop, off, i, f[i]) /\ Beyond(loop, f[from], f[i])
    BY <1>2, <2>2
  <2> HIDE DEF i, T
  <2>4. f[i + 1] = Onward(loop, in, f[i])
    <3>1. (i + 1) - 1 = i
      BY <2>2
    <3> QED BY <2>2, <3>1
  <2> QED BY <2>2, <2>3, <2>4, SafeOnward, BeyondOnward
<1>3. to - from \in T
  <2> HIDE DEF T
  <2> QED BY <1>1, <1>2, SetInduction
<1>4. from + (to - from) = to
  OBVIOUS
<1> QED BY <1>3, <1>4

LEMMA LoopBeyond ==
  ASSUME NEW loop \in Automata, NEW in, NEW off \in Nat, NEW from \in Nat, NEW to \in Nat, from <= to,
         NEW first, Safe(loop, off, from, first)
  PROVE  Beyond(loop, first, Looped(loop, in, first, from, to))
<1>1. PICK f : /\ f[from] = first
               /\ \A k \in from + 1 .. to : f[k] = Onward(loop, in, f[k - 1])
               /\ Looped(loop, in, first, from, to) = f[to]
  BY LoopIs
<1>2. Safe(loop, off, from, f[from])
  BY <1>1
<1>3. Beyond(loop, f[from], f[to])
  BY <1>1, <1>2, TurnsBeyond
<1> QED BY <1>1, <1>3

\* The states f of a loop, turn by turn.
Loops(loop, in, first, from, to, f) ==
  /\ f[from] = first
  /\ \A k \in from + 1 .. to : f[k] = Onward(loop, in, f[k - 1])
  /\ Looped(loop, in, first, from, to) = f[to]

LEMMA LoopGoes ==
  ASSUME NEW loop, NEW in, NEW first, NEW from \in Nat, NEW to \in Nat, from <= to
  PROVE  \E f : Loops(loop, in, first, from, to, f)
BY LoopIs DEF Loops

LEMMA RunsAgree ==
  ASSUME NEW loop \in Automata, NEW s \in Seq(Bytes), NEW t \in Seq(Bytes), Prefix(s, t), NEW off \in Nat,
         NEW from \in Nat, from <= Len(s), NEW first, Safe(loop, off, from, first)
  PROVE  /\ Safe(loop, off, Len(s), Looped(loop, s, first, from, Len(s)))
         /\ Beyond(loop, Looped(loop, s, first, from, Len(s)), Looped(loop, t, first, from, Len(t)))
<1> DEFINE m == Len(s)
           n == Len(t)
<1>1. m \in Nat /\ n \in Nat /\ m <= n /\ from <= m /\ from <= n /\ from \in Int
  BY DEF Prefix
<1> HIDE DEF m, n
<1>2. PICK f : Loops(loop, s, first, from, m, f)
  BY <1>1, LoopGoes
<1>3. PICK g : Loops(loop, t, first, from, n, g)
  BY <1>1, LoopGoes
<1> DEFINE S == {k \in Nat : from + k <= m => f[from + k] = g[from + k] /\ Safe(loop, off, from + k, f[from + k])}
<1>4. 0 \in S
  <2>1. from + 0 = from
    BY <1>1
  <2> QED BY <1>2, <1>3, <2>1 DEF Loops
<1>5. ASSUME NEW k \in Nat, k \in S PROVE k + 1 \in S
  <2> DEFINE i == from + k
  <2>1. SUFFICES ASSUME i + 1 <= m PROVE f[i + 1] = g[i + 1] /\ Safe(loop, off, i + 1, f[i + 1])
    OBVIOUS
  <2>2. i \in Nat /\ i < m /\ i <= m /\ i + 1 \in from + 1 .. m /\ i + 1 \in from + 1 .. n
    BY <1>1, <2>1
  <2>3. f[i] = g[i] /\ Safe(loop, off, i, f[i])
    BY <1>5, <2>2
  <2> HIDE DEF i, S
  <2>4. f[i + 1] = Onward(loop, s, f[i]) /\ g[i + 1] = Onward(loop, t, g[i])
    <3>1. (i + 1) - 1 = i
      BY <2>2
    <3> QED BY <1>2, <1>3, <2>2, <3>1 DEF Loops
  <2>5. Onward(loop, s, f[i]) = Onward(loop, t, f[i])
    BY <2>2, <2>3, OnwardAgrees DEF m
  <2> QED BY <2>2, <2>3, <2>4, <2>5, SafeOnward
<1>6. f[m] = g[m] /\ Safe(loop, off, m, f[m])
  <2>1. m - from \in S
    <3>1. m - from \in Nat
      BY <1>1
    <3> HIDE DEF S
    <3> QED BY <1>4, <1>5, <3>1, SetInduction
  <2>2. from + (m - from) = m
    BY <1>1
  <2> QED BY <1>1, <2>1, <2>2
<1> HIDE DEF S
<1>7. Beyond(loop, g[m], g[n])
  <2>1. \A k \in m + 1 .. n : g[k] = Onward(loop, t, g[k - 1])
    BY <1>1, <1>3 DEF Loops
  <2>2. Safe(loop, off, m, g[m])
    BY <1>6
  <2> QED BY <1>1, <2>1, <2>2, TurnsBeyond
<1> QED BY <1>2, <1>3, <1>6, <1>7 DEF m, n, Loops

\* The same for the loops as they are called, which do not begin at or behind
\* the end of the text.
After(loop, in, first) ==
  CASE loop = "header" -> HeaderRun(in, first)
    [] loop = "line" -> LineRun(in, first)
    [] loop = "response" -> ResponseRun(in, first)

LEMMA AfterLooped ==
  ASSUME NEW loop \in Automata, NEW in, Len(in) \in Nat, NEW first, first.i \in Nat
  PROVE  After(loop, in, first) =
           IF first.i < Len(in) THEN Looped(loop, in, first, first.i, Len(in)) ELSE first
<1>1. CASE loop = "header"
  <2>1. After(loop, in, first) = HeaderRun(in, first)
    BY <1>1 DEF After
  <2> QED BY <1>1, <2>1 DEF HeaderRun, Run, Read, Looped, Turns, Onward, Twice
<1>2. CASE loop = "line"
  <2>1. After(loop, in, first) = LineRun(in, first)
    BY <1>2 DEF After
  <2> QED BY <1>2, <2>1 DEF LineRun, Run, Read, Looped, Turns, Onward, Twice
<1>3. CASE loop = "response"
  <2>1. After(loop, in, first) = ResponseRun(in, first)
    BY <1>3 DEF After
  <2> QED BY <1>3, <2>1 DEF ResponseRun, Run, Read, Looped, Turns, Onward, Twice
<1> QED BY <1>1, <1>2, <1>3 DEF Automata

LEMMA AfterAgrees ==
  ASSUME NEW loop \in Automata, NEW s \in Seq(Bytes), NEW t \in Seq(Bytes), Prefix(s, t), NEW off \in Nat,
         NEW first, first.i \in Nat, first.st \notin Ends, Safe(loop, off, first.i, first)
  PROVE  LET a == After(loop, s, first)
             b == After(loop, t, first)
         IN /\ Beyond(loop, a, b)
            /\ a.st \in Ends => Safe(loop, off, Len(s), a)
<1> DEFINE a == After(loop, s, first)
           b == After(loop, t, first)
<1>1. Len(s) \in Nat /\ Len(t) \in Nat /\ Len(s) <= Len(t)
  BY DEF Prefix
<1>2. /\ a = IF first.i < Len(s) THEN Looped(loop, s, first, first.i, Len(s)) ELSE first
      /\ b = IF first.i < Len(t) THEN Looped(loop, t, first, first.i, Len(t)) ELSE first
  BY <1>1, AfterLooped
<1> HIDE DEF a, b
<1>3. CASE first.i < Len(s)
  <2>1. first.i <= Len(s) /\ first.i < Len(t)
    BY <1>1, <1>3
  <2>2. Safe(loop, off, Len(s), a) /\ Beyond(loop, a, b)
    BY <1>2, <1>3, <2>1, RunsAgree
  <2> QED BY <2>2 DEF a, b
<1>4. CASE ~(first.i < Len(s))
  <2>1. a = first
    BY <1>2, <1>4
  <2>2. loop = "line" => a.flags \subseteq b.flags
    <3>1. SUFFICES ASSUME loop = "line" PROVE first.flags \subseteq b.flags
      BY <2>1
    <3>2. CASE first.i < Len(t)
      <4>1. Beyond(loop, first, Looped(loop, t, first, first.i, Len(t)))
        BY <1>1, <3>2, LoopBeyond
      <4> QED BY <1>2, <3>1, <3>2, <4>1 DEF Beyond
    <3>3. CASE ~(first.i < Len(t))
      BY <1>2, <3>3
    <3> QED BY <3>2, <3>3
  <2>3. Beyond(loop, a, b)
    BY <2>1, <2>2 DEF Beyond
  <2> QED BY <2>1, <2>3 DEF a, b
<1> QED BY <1>3, <1>4

\* A header that was read, or the end of the headers, is found again in a longer
\* text; what was not read leaves the offset where it was.
LEMMA HeaderAgrees ==
  ASSUME NEW s \in Seq(Bytes), NEW t \in Seq(Bytes), Prefix(s, t), NEW off \in Nat
  PROVE  IF ParseHeader(s, off).answer \in {"OK", "ENOENT"}
         THEN ParseHeader(t, off) = ParseHeader(s, off)
         ELSE ParseHeader(s, off).off = off
<1> DEFINE first == Start("HDR_START", off, HeaderMarks, <<>>)
           a == HeaderRun(s, first)
           b == HeaderRun(t, first)
           m == a.marks
           r == HeaderAnswer(s, off, a)
           q == HeaderAnswer(t, off, b)
<1>1. ParseHeader(s, off) = r /\ ParseHeader(t, off) = q
  BY DEF ParseHeader, HeaderMarks
<1>2. first.i = off /\ HeaderSafe(off, off, first) /\ first.st \notin Ends
  BY HeaderBegins DEF Start, Ends
<1>3. (a.st \in Ends => b = a) /\ (a.st \in Ends => HeaderSafe(off, Len(s), a))
  <2> HIDE DEF first
  <2>1. After("header", s, first) = a /\ After("header", t, first) = b
    BY DEF After
  <2>2. "header" \in Automata /\ first.i \in Nat /\ Safe("header", off, first.i, first)
    BY <1>2 DEF Automata, Safe
  <2> HIDE DEF a, b
  <2>3. Beyond("header", a, b) /\ (a.st \in Ends => Safe("header", off, Len(s), a))
    BY <1>2, <2>1, <2>2, AfterAgrees
  <2> QED BY <2>3 DEF Beyond, Safe
<1> HIDE DEF a, b, first
<1>4. CASE a.st \notin Ends \/ a.st = "BAD"
  <2>1. r.off = off /\ r.answer \in {"EAGAIN", "EINVAL"}
    BY <1>4 DEF HeaderAnswer, Ends, Unfinished
  <2> QED BY <1>1, <2>1
<1>5. CASE a.st = "NOMORE"
  <2>1. r = [answer |-> "ENOENT", off |-> off + 2] /\ q = [answer |-> "ENOENT", off |-> off + 2]
    BY <1>3, <1>5 DEF HeaderAnswer, Ends
  <2> QED BY <1>1, <2>1
<1>6. CASE a.st = "DONE"
  <2>1. b = a /\ HeaderSafe(off, Len(s), a) /\ a.st \in Ends
    BY <1>3, <1>6 DEF Ends
  <2> DEFINE short == m.HeaderEnd <= m.HeaderStart \/ m.ValueEnd <= m.ValueStart
             read(in) == [answer |-> "OK", off |-> a.i + 1,
                          name |-> replaceCoreHeader(Text(in, m.HeaderStart, m.HeaderEnd)),
                          value |-> Text(in, m.ValueStart, m.ValueEnd)]
  <2>2. /\ r = IF short THEN [answer |-> "EINVAL", off |-> off] ELSE read(s)
        /\ q = IF short THEN [answer |-> "EINVAL", off |-> off] ELSE read(t)
    BY <1>6, <2>1 DEF HeaderAnswer, Ends
  <2>3. CASE short
    BY <1>1, <2>2, <2>3
  <2>4. CASE ~short
    <3>1. /\ m.HeaderStart \in Nat /\ m.HeaderEnd \in Nat /\ m.ValueStart \in Nat /\ m.ValueEnd \in Nat
          /\ m.HeaderEnd <= Len(s) /\ m.ValueEnd <= Len(s)
      <4>1. a.i \in Nat /\ a.i < Len(s) /\ HeaderMarked(off, a.i, m) /\ Len(s) \in Nat
        BY <2>1 DEF HeaderSafe
      <4>2. \A k \in HeaderMarks : m[k] \in Nat /\ m[k] <= Len(s)
        BY <4>1 DEF HeaderMarked
      <4> QED BY <4>2 DEF HeaderMarks
    <3>2. m.HeaderStart <= m.HeaderEnd /\ m.ValueStart <= m.ValueEnd
      BY <2>4, <3>1
    <3>3. /\ Text(s, m.HeaderStart, m.HeaderEnd) = Text(t, m.HeaderStart, m.HeaderEnd)
          /\ Text(s, m.ValueStart, m.ValueEnd) = Text(t, m.ValueStart, m.ValueEnd)
      <4> HIDE DEF m
      <4> QED BY <3>1, <3>2, TextOfPrefix
    <3>4. read(s) = read(t) /\ read(s).answer = "OK"
      BY <3>3
    <3> QED BY <1>1, <2>2, <2>4, <3>4
  <2> QED BY <2>3, <2>4
<1> QED BY <1>4, <1>5, <1>6 DEF Ends

LEMMA BytesAgree ==
  ASSUME NEW s \in Seq(Bytes), NEW t \in Seq(Bytes), Prefix(s, t), NEW k \in Nat, k < Len(s)
  PROVE  ByteAt(s, k) = ByteAt(t, k) /\ s[k + 1] = t[k + 1]
<1>1. Len(s) \in Nat /\ Len(t) \in Nat /\ Len(s) <= Len(t)
  BY DEF Prefix
<1>2. k + 1 \in 1 .. Len(s)
  BY <1>1
<1>3. s[k + 1] = t[k + 1]
  BY <1>2 DEF Prefix
<1> QED BY <1>1, <1>3 DEF ByteAt

\* A method that was read is read in a longer text.
LEMMA MethodAgrees ==
  ASSUME NEW s \in Seq(Bytes), NEW t \in Seq(Bytes), Prefix(s, t), NEW method,
         parseMethod(s, method).answer = "OK"
  PROVE  parseMethod(t, method) = parseMethod(s, method)
<1>1. Len(s) \in Nat /\ Len(t) \in Nat /\ Len(s) <= Len(t)
  BY DEF Prefix
<1>2. PICK first \in Nat, z \in Nat : MethodAt(s, first, z)
  BY MethodIs
<1>3. /\ first \in Nat /\ first < Len(s) /\ Len(s) - first >= 5 /\ z \in 3 .. 9
      /\ Begins(s, first) /\ MayEnd(s, first, z)
      /\ OfMethod(s[first + 1])
  BY <1>1, <1>2 DEF MethodAt
<1>4. first \in 0 .. Len(t) /\ first < Len(t) /\ Len(t) - first >= 5
  BY <1>1, <1>3
<1>5. first + z \in Nat /\ first + z < Len(s)
  <2>1. first + z < Len(s)
    BY <1>3, EndsInText
  <2> QED BY <1>3, <2>1
<1>6. ASSUME NEW k \in Nat, k < Len(s) PROVE ByteAt(s, k) = ByteAt(t, k)
  BY <1>6, BytesAgree
<1>7. Begins(t, first)
  <2>1. \A j \in 0 .. first : ByteAt(s, j) = ByteAt(t, j)
    <3> SUFFICES ASSUME NEW j \in 0 .. first PROVE ByteAt(s, j) = ByteAt(t, j)
      OBVIOUS
    <3>1. j \in Nat /\ j < Len(s)
      BY <1>1, <1>3
    <3> QED BY <1>6, <3>1
  <2>2. first \in 0 .. first /\ \A j \in 0 .. (first - 1) : j \in 0 .. first
    BY <1>3
  <2> QED BY <1>3, <2>1, <2>2 DEF Begins
<1>8. MayEnd(t, first, z)
  <2>1. ByteAt(s, first + z) = ByteAt(t, first + z)
    BY <1>5, <1>6
  <2>2. Len(s) > z + 1 => Len(t) > z + 1
    BY <1>1, <1>3
  <2> QED BY <1>3, <2>1, <2>2 DEF MayEnd
<1>9. ASSUME NEW k \in 3 .. 9, MayEnd(t, first, k) PROVE z <= k
  <2>1. SUFFICES ASSUME k < z PROVE FALSE
    BY <1>3
  <2>2. ByteAt(s, first + k) = ByteAt(t, first + k)
    <3>1. first + k \in Nat /\ first + k < Len(s)
      BY <1>1, <1>3, <1>5, <2>1
    <3> QED BY <1>6, <3>1
  <2>3. Len(s) > k + 1
    <3>1. Len(s) > z + 1
      <4>1. z = 3 \/ Len(s) > z + 1
        BY <1>3, EndsInText
      <4> QED BY <1>3, <2>1, <4>1
    <3> QED BY <1>1, <1>3, <2>1, <3>1
  <2>4. MayEnd(s, first, k)
    BY <1>9, <2>2, <2>3 DEF MayEnd
  <2>5. z <= k
    BY <1>2, <2>4 DEF MethodAt
  <2> QED BY <1>3, <2>1, <2>5
<1>10. Text(s, first, first + z) = Text(t, first, first + z)
  <2>1. first <= first + z /\ first + z <= Len(s)
    BY <1>1, <1>3, <1>5
  <2> QED BY <1>3, <1>5, <2>1, TextOfPrefix
<1>11. s[first + 1] = t[first + 1]
  BY <1>3, BytesAgree
<1>12. MethodAt(t, first, z)
  BY <1>3, <1>4, <1>7, <1>8, <1>9, <1>11 DEF MethodAt
<1> QED BY <1>2, <1>10, <1>12, MethodFound

LEMMA OverlaidTwice ==
  ASSUME NEW f, NEW g
  PROVE  f @@ (f @@ g) = f @@ g
<1> DEFINE h == f @@ g
           x == f @@ h
<1>1. DOMAIN h = DOMAIN f \cup DOMAIN g /\ \A k \in DOMAIN h : h[k] = IF k \in DOMAIN f THEN f[k] ELSE g[k]
  BY DEF @@
<1>2. h = [k \in DOMAIN h |-> h[k]]
  BY DEF @@
<1> HIDE DEF h
<1>3. x = [k \in DOMAIN f \cup DOMAIN h |-> IF k \in DOMAIN f THEN f[k] ELSE h[k]]
  BY DEF @@
<1> HIDE DEF x
<1>4. DOMAIN f \cup DOMAIN h = DOMAIN h
  BY <1>1
<1>5. x = [k \in DOMAIN h |-> h[k]]
  BY <1>1, <1>3, <1>4
<1> QED BY <1>2, <1>5 DEF x, h

LEMMA LineFieldsTwice == \A m : LineFields(m, LineFields(m, <<>>)) = LineFields(m, <<>>)
<1> TAKE m
<1> DEFINE part(name, from, to) == IF to >= from THEN name :> <<from, to>> ELSE <<>>
           all == part("RequestLine", 0, m.RequestLineEnd) @@ part("Scheme", m.SchemeStart, m.SchemeEnd)
                    @@ part("Host", m.HostStart, m.HostEnd) @@ part("Port", m.PortStart, m.PortEnd)
                    @@ part("Protocol", m.HTTPStart, m.HTTPEnd) @@ part("URI", m.URIStart, m.URIEnd)
                    @@ (IF m.ArgumentStart > m.URIStart THEN part("Argument", m.ArgumentStart, m.URIEnd) ELSE <<>>)
<1>1. \A had : LineFields(m, had) = all @@ had
  BY DEF LineFields
<1> HIDE DEF all
<1> QED BY <1>1, OverlaidTwice

Refused(answer) == answer # "OK"

\* What a request line came to, with the fields in it or without.
LineRecord(r) ==
  \/ \E answer, flags, fields, version :
       r = [answer |-> answer, flags |-> flags, fields |-> fields, version |-> version]
  \/ \E answer, flags : Refused(answer) /\ r = [answer |-> answer, flags |-> flags]

\* A request line that has its fields has them in a longer text, also when it is
\* refused and read again; the flags of a longer one are more.
LEMMA LineAgrees ==
  ASSUME NEW s \in Seq(Bytes), NEW t \in Seq(Bytes), Prefix(s, t), NEW size \in Nat, NEW method
  PROVE  LET r == parseRequestline(s, size, method, <<>>)
             q == parseRequestline(t, size, method, <<>>)
         IN /\ LineRecord(r) /\ LineRecord(q)
            /\ "fields" \in DOMAIN r => q = r /\ parseRequestline(t, size, method, r.fields) = r
            /\ r.flags \subseteq q.flags
<1> DEFINE first == Start("RL_SPACEBEFOREURI", size, LineMarks, [major |-> 0, minor |-> 0])
           a == LineRun(s, first)
           b == LineRun(t, first)
           r == parseRequestline(s, size, method, <<>>)
           q == parseRequestline(t, size, method, <<>>)
           twice == parseRequestline(t, size, method, r.fields)
<1>1. /\ r = LineAnswer(s, a, method, <<>>)
      /\ \A had : parseRequestline(t, size, method, had) = LineAnswer(t, b, method, had)
  BY DEF parseRequestline
<1>2. first.i = size /\ first.st = "RL_SPACEBEFOREURI" /\ LineSafe(size, first) /\ first.st \notin Ends
  <2>1. first.i = size /\ first.st = "RL_SPACEBEFOREURI" /\ DOMAIN first = Parts
        /\ first.marks = [k \in LineMarks |-> size]
    BY DEF Start, Parts
  <2> HIDE DEF first
  <2>2. MarksSafe(size, first.marks)
    BY <2>1 DEF MarksSafe
  <2> QED BY <2>1, <2>2 DEF LineSafe, LineStates, Ends
<1>3. (a.st \in Ends => b = a) /\ a.flags \subseteq b.flags
  <2> HIDE DEF first
  <2>1. After("line", s, first) = a /\ After("line", t, first) = b
    BY DEF After
  <2>2. "line" \in Automata /\ first.i \in Nat /\ Safe("line", 0, first.i, first) /\ 0 \in Nat
    BY <1>2 DEF Automata, Safe
  <2> HIDE DEF a, b
  <2>3. Beyond("line", a, b)
    BY <1>2, <2>1, <2>2, AfterAgrees
  <2> QED BY <2>3 DEF Beyond
<1> HIDE DEF a, b, first
<1> DEFINE code(c) == IF c.numbers.major * 1000 + c.numbers.minor = 9 /\ method # "GET" THEN "EFAULT" ELSE "OK"
           version(c) == c.numbers.major * 1000 + c.numbers.minor
           fields(c, had) == LineFields(c.marks, had)
           flags(c) == c.flags
           done(c, in) == c.st = "DONE" /\ ~(c.marks.RequestLineEnd >= Len(in))
           read(c, had) == [answer |-> code(c), flags |-> flags(c), fields |-> fields(c, had), version |-> version(c)]
<1>4. ASSUME NEW c, NEW in, NEW had
      PROVE  LineAnswer(in, c, method, had) =
               IF done(c, in) THEN read(c, had)
               ELSE [answer |-> IF c.st = "BAD" THEN "EFAULT" ELSE "EAGAIN", flags |-> flags(c)]
  BY DEF LineAnswer
<1>5. done(a, s) => b = a /\ done(b, t)
  <2> SUFFICES ASSUME done(a, s) PROVE b = a /\ done(b, t)
    OBVIOUS
  <2>1. b = a
    BY <1>3 DEF Ends
  <2>2. a.marks.RequestLineEnd \in Int
    <3>1. 0 \in Nat /\ first.i \in Nat /\ Safe("line", 0, first.i, first) /\ "line" \in Automata
      BY <1>2 DEF Automata, Safe
    <3>2. LET c == After("line", s, first) IN c.st \in Ends => Safe("line", 0, Len(s), c)
      BY <1>2, <3>1, AfterAgrees
    <3>3. After("line", s, first) = a /\ a.st \in Ends
      BY DEF After, a, Ends
    <3>4. LineSafe(Len(s), a)
      BY <3>2, <3>3 DEF Safe
    <3> QED BY <3>4 DEF LineSafe, MarksSafe, LineMarks
  <2>3. Len(s) \in Nat /\ Len(t) \in Nat /\ Len(s) <= Len(t)
    BY DEF Prefix
  <2> QED BY <2>1, <2>2, <2>3
<1> HIDE DEF r, done
<1>6. fields(a, fields(a, <<>>)) = fields(a, <<>>)
  BY LineFieldsTwice
<1> HIDE DEF code, version, fields, flags
<1>7. ASSUME NEW c, NEW in
      PROVE  LineRecord(LineAnswer(in, c, method, <<>>)) /\ LineAnswer(in, c, method, <<>>).flags = flags(c)
  <2>1. CASE done(c, in)
    BY <1>4, <2>1 DEF LineRecord
  <2>2. CASE ~done(c, in)
    <3> DEFINE answer == IF c.st = "BAD" THEN "EFAULT" ELSE "EAGAIN"
    <3>1. Refused(answer)
      BY DEF Refused
    <3>2. LineAnswer(in, c, method, <<>>) = [answer |-> answer, flags |-> flags(c)]
      BY <1>4, <2>2
    <3> HIDE DEF answer
    <3> QED BY <3>1, <3>2 DEF LineRecord
  <2> QED BY <2>1, <2>2
<1>8. LineRecord(r) /\ LineRecord(q) /\ r.flags \subseteq q.flags
  BY <1>1, <1>3, <1>7 DEF flags
<1>9. ASSUME "fields" \in DOMAIN r PROVE q = r /\ twice = r
  <2>1. done(a, s)
    <3>1. SUFFICES ASSUME ~done(a, s) PROVE "fields" \notin DOMAIN r
      BY <1>9
    <3> DEFINE answer == IF a.st = "BAD" THEN "EFAULT" ELSE "EAGAIN"
    <3>2. r = [answer |-> answer, flags |-> flags(a)]
      BY <1>1, <1>4, <3>1
    <3> HIDE DEF answer
    <3> QED BY <3>2
  <2>2. b = a /\ done(a, t)
    BY <1>5, <2>1
  <2>3. r = read(a, <<>>) /\ q = read(a, <<>>) /\ twice = read(a, r.fields)
    BY <1>1, <1>4, <2>1, <2>2
  <2>4. r.fields = fields(a, <<>>)
    BY <2>3
  <2> QED BY <1>6, <2>3, <2>4
<1> QED BY <1>8, <1>9 DEF r

-----------------------------------------------------------------------------
(* Going on with a request line or a status line. *)

Known(q, answer, flags, fields, version) ==
  [q EXCEPT !.answer = answer, !.flags = flags, !.fields = fields, !.version = version]

LEMMA KnownTwice ==
  ASSUME NEW q, DOMAIN q = Members, NEW a, NEW b, NEW c, NEW d, NEW answer, NEW flags, NEW fields, NEW version
  PROVE  Known(Known(q, a, b, c, d), answer, flags, fields, version) = Known(q, answer, flags, fields, version)
<1> DEFINE k == Known(q, a, b, c, d)
           x == Known(k, answer, flags, fields, version)
           y == Known(q, answer, flags, fields, version)
<1>1. DOMAIN k = Members /\ \A m \in Members : m \notin {"answer", "flags", "fields", "version"} => k[m] = q[m]
  BY DEF Known, Members
<1> HIDE DEF k
<1>2. /\ x = [m \in Members |-> x[m]] /\ y = [m \in Members |-> y[m]]
  BY <1>1 DEF Known
<1>3. \A m \in Members : x[m] = y[m]
  BY <1>1 DEF Known, Members
<1> HIDE DEF x, y
<1> QED BY <1>2, <1>3 DEF x, y, k

LEMMA KnownParts ==
  ASSUME NEW q, DOMAIN q = Members, NEW answer, NEW flags, NEW fields, NEW version
  PROVE  LET k == Known(q, answer, flags, fields, version)
         IN /\ DOMAIN k = Members /\ k.answer = answer /\ k.flags = flags /\ k.fields = fields
            /\ k.version = version /\ k.state = q.state /\ k.size = q.size /\ k.method = q.method
            /\ k.off = q.off
BY DEF Known, Members

\* What Line makes of a parser.
LineLeaves(q, answer, flags, fields, version) ==
  LET k == Known(q, answer, flags, fields, version)
  IN IF answer # "OK" THEN k ELSE [k EXCEPT !.state = "HTTP_PARSE_HEADER", !.off = fields.RequestLine[2]]

LEMMA LineOfFields ==
  ASSUME NEW in, NEW q, DOMAIN q = Members, NEW answer, NEW flags, NEW fields, NEW version, NEW r,
         r = [answer |-> answer, flags |-> flags, fields |-> fields, version |-> version],
         NEW all, all = q.flags \cup flags
  PROVE  Line(in, q, r) = LineLeaves(q, answer, all, fields, version)
<1> DEFINE f == IF "fields" \in DOMAIN r THEN r.fields ELSE q.fields
           v == IF "version" \in DOMAIN r THEN r.version ELSE q.version
           u == q.flags \cup r.flags
           k == Known(q, r.answer, u, f, v)
           off == r.fields.RequestLine[2]
<1>1. Line(in, q, r) = IF r.answer # "OK" THEN k ELSE [k EXCEPT !.state = "HTTP_PARSE_HEADER", !.off = off]
  BY DEF Line, Known, Members
<1>2. f = fields /\ v = version /\ r.answer = answer /\ u = all /\ off = fields.RequestLine[2]
  OBVIOUS
<1> HIDE DEF f, v, u, off
<1> QED BY <1>1, <1>2 DEF LineLeaves

LEMMA LineOfNone ==
  ASSUME NEW in, NEW q, DOMAIN q = Members, NEW answer, Refused(answer), NEW flags, NEW r,
         r = [answer |-> answer, flags |-> flags], NEW all, all = q.flags \cup flags,
         q.fields = <<>>, q.version = 0
  PROVE  Line(in, q, r) = Known(q, answer, all, <<>>, 0)
<1> DEFINE f == IF "fields" \in DOMAIN r THEN r.fields ELSE q.fields
           v == IF "version" \in DOMAIN r THEN r.version ELSE q.version
           u == q.flags \cup r.flags
           k == Known(q, r.answer, u, f, v)
<1>1. r.answer # "OK" => Line(in, q, r) = k
  BY DEF Line, Known, Members
<1>2. f = <<>> /\ v = 0 /\ r.answer = answer /\ u = all
  OBVIOUS
<1> HIDE DEF f, v, u
<1> QED BY <1>1, <1>2 DEF Refused

\* A line that was read is read in a longer text; one that was not is read again,
\* and becomes what it is when it is read at once.
LEMMA LineResumed ==
  ASSUME NEW s \in Seq(Bytes), NEW t \in Seq(Bytes), Prefix(s, t), NEW q, DOMAIN q = Members, q.size \in Nat,
         q.flags = {}, q.fields = <<>>, q.version = 0
  PROVE  LET r == parseRequestline(s, q.size, q.method, <<>>)
             l == Line(s, q, r)
             whole == Line(t, q, parseRequestline(t, q.size, q.method, <<>>))
         IN IF r.answer = "OK" THEN l = whole /\ l.state = "HTTP_PARSE_HEADER"
            ELSE /\ Line(t, l, parseRequestline(t, l.size, l.method, l.fields)) = whole
                 /\ l.state = q.state
<1> DEFINE r == parseRequestline(s, q.size, q.method, <<>>)
           h == parseRequestline(t, q.size, q.method, <<>>)
           l == Line(s, q, r)
           whole == Line(t, q, h)
<1>1. /\ LineRecord(r) /\ LineRecord(h) /\ r.flags \subseteq h.flags
      /\ "fields" \in DOMAIN r => h = r /\ parseRequestline(t, q.size, q.method, r.fields) = r
  BY LineAgrees
<1> HIDE DEF r, h
<1>2. CASE "fields" \in DOMAIN r
  <2>1. PICK answer, flags, fields, version :
          r = [answer |-> answer, flags |-> flags, fields |-> fields, version |-> version]
    <3>1. ASSUME NEW answer, NEW flags, r = [answer |-> answer, flags |-> flags] PROVE FALSE
      BY <1>2, <3>1
    <3> QED BY <1>1, <3>1 DEF LineRecord
  <2> DEFINE k == Known(q, answer, flags, fields, version)
             off == fields.RequestLine[2]
  <2>2. r.answer = answer /\ r.fields = fields /\ h = r /\ parseRequestline(t, q.size, q.method, fields) = r
    BY <1>1, <1>2, <2>1
  <2>3. flags = q.flags \cup flags
    OBVIOUS
  <2>4. /\ l = LineLeaves(q, answer, flags, fields, version)
        /\ whole = LineLeaves(q, answer, flags, fields, version)
    BY <2>1, <2>2, <2>3, LineOfFields
  <2>5. /\ DOMAIN k = Members /\ k.answer = answer /\ k.flags = flags /\ k.fields = fields
        /\ k.state = q.state /\ k.size = q.size /\ k.method = q.method
    BY KnownParts
  <2>6. CASE answer = "OK"
    <3>1. l = [k EXCEPT !.state = "HTTP_PARSE_HEADER", !.off = off]
      BY <2>4, <2>6 DEF LineLeaves
    <3> HIDE DEF k, off
    <3>2. l.state = "HTTP_PARSE_HEADER"
      BY <2>5, <3>1 DEF Members
    <3> HIDE DEF l, whole
    <3> QED BY <2>2, <2>4, <2>6, <3>2 DEF l, whole, r, h
  <2>7. CASE answer # "OK"
    <3> DEFINE again == Line(t, l, parseRequestline(t, l.size, l.method, l.fields))
    <3>1. l = k /\ whole = k
      BY <2>4, <2>7 DEF LineLeaves
    <3>2. again = Line(t, k, r)
      <4> HIDE DEF k, l, whole
      <4> QED BY <2>2, <2>5, <3>1
    <3>3. Line(t, k, r) = LineLeaves(k, answer, flags, fields, version)
      <4> HIDE DEF k
      <4>1. flags = k.flags \cup flags
        BY <2>5
      <4> QED BY <2>1, <2>5, <4>1, LineOfFields
    <3>4. LineLeaves(k, answer, flags, fields, version) = k
      <4>1. Known(k, answer, flags, fields, version) = k
        BY KnownTwice
      <4> QED BY <2>7, <4>1 DEF LineLeaves
    <3> HIDE DEF k, l, whole
    <3>5. again = whole /\ l.state = q.state
      BY <2>5, <3>1, <3>2, <3>3, <3>4
    <3> HIDE DEF again
    <3> QED BY <2>2, <2>7, <3>5 DEF l, whole, again, r, h
  <2> QED BY <2>6, <2>7
<1>3. CASE "fields" \notin DOMAIN r
  <2>1. PICK answer, flags : Refused(answer) /\ r = [answer |-> answer, flags |-> flags]
    <3>1. ASSUME NEW answer, NEW flags, NEW fields, NEW version,
                 r = [answer |-> answer, flags |-> flags, fields |-> fields, version |-> version]
          PROVE  FALSE
      BY <1>3, <3>1
    <3> QED BY <1>1, <3>1 DEF LineRecord
  <2> DEFINE k == Known(q, answer, flags, <<>>, 0)
             again == Line(t, l, parseRequestline(t, l.size, l.method, l.fields))
  <2>2. l = k /\ r.answer = answer /\ r.flags = flags
    <3>1. flags = q.flags \cup flags
      OBVIOUS
    <3>2. l = Known(q, answer, flags, <<>>, 0)
      BY <2>1, <3>1, LineOfNone
    <3> QED BY <2>1, <3>2
  <2>3. /\ DOMAIN k = Members /\ k.answer = answer /\ k.flags = flags /\ k.fields = <<>>
        /\ k.state = q.state /\ k.size = q.size /\ k.method = q.method /\ k.version = 0
    BY KnownParts
  <2>4. again = Line(t, k, h)
    <3> HIDE DEF k, l
    <3> QED BY <2>2, <2>3 DEF h
  <2>5. flags \subseteq h.flags
    BY <1>1, <2>2
  <2>6. Line(t, k, h) = Line(t, q, h)
    <3>1. CASE \E a, f, g, v : h = [answer |-> a, flags |-> f, fields |-> g, version |-> v]
      <4>1. PICK a, f, g, v : h = [answer |-> a, flags |-> f, fields |-> g, version |-> v]
        BY <3>1
      <4>2. f = h.flags
        BY <4>1
      <4>3. f = k.flags \cup f /\ f = q.flags \cup f
        BY <2>3, <2>5, <4>2
      <4>4. Known(k, a, f, g, v) = Known(q, a, f, g, v)
        BY KnownTwice
      <4> HIDE DEF k
      <4>5. Line(t, k, h) = LineLeaves(k, a, f, g, v)
        BY <2>3, <4>1, <4>3, LineOfFields
      <4>6. Line(t, q, h) = LineLeaves(q, a, f, g, v)
        BY <4>1, <4>3, LineOfFields
      <4> QED BY <4>4, <4>5, <4>6 DEF LineLeaves
    <3>2. CASE \E a, f : Refused(a) /\ h = [answer |-> a, flags |-> f]
      <4>1. PICK a, f : Refused(a) /\ h = [answer |-> a, flags |-> f]
        BY <3>2
      <4>2. f = h.flags
        BY <4>1
      <4>3. f = k.flags \cup f /\ f = q.flags \cup f
        BY <2>3, <2>5, <4>2
      <4>4. Known(k, a, f, <<>>, 0) = Known(q, a, f, <<>>, 0)
        BY KnownTwice
      <4> HIDE DEF k
      <4>5. Line(t, k, h) = Known(k, a, f, <<>>, 0)
        BY <2>3, <4>1, <4>3, LineOfNone
      <4>6. Line(t, q, h) = Known(q, a, f, <<>>, 0)
        BY <4>1, <4>3, LineOfNone
      <4> QED BY <4>4, <4>5, <4>6
    <3> QED BY <1>1, <3>1, <3>2 DEF LineRecord
  <2> HIDE DEF k, l, whole, again
  <2>7. again = whole /\ l.state = q.state /\ r.answer # "OK"
    BY <2>1, <2>2, <2>3, <2>4, <2>6 DEF whole, Refused
  <2> QED BY <2>7 DEF l, whole, again, r, h
<1> QED BY <1>2, <1>3

\* A status line that was read is read in a longer text.
LEMMA StatusAgrees ==
  ASSUME NEW s \in Seq(Bytes), NEW t \in Seq(Bytes), Prefix(s, t), NEW code, NEW had,
         parseResponseline(s, code, had).answer = "OK"
  PROVE  parseResponseline(t, code, had) = parseResponseline(s, code, had)
<1> DEFINE first == Start("RL_START", 0, ResponseMarks, [major |-> 0, minor |-> 0, status |-> code])
           a == ResponseRun(s, first)
           b == ResponseRun(t, first)
           r == StatusAnswer(s, a, had)
<1>1. parseResponseline(s, code, had) = r /\ parseResponseline(t, code, had) = StatusAnswer(t, b, had)
  BY DEF parseResponseline
<1>2. first.i = 0 /\ first.st \notin Ends /\ ResponseSafe(0, first)
  <2>1. first.i = 0 /\ first.st = "RL_START" /\ DOMAIN first = Parts
        /\ first.marks = [k \in ResponseMarks |-> 0]
    BY DEF Start, Parts
  <2> HIDE DEF first
  <2>2. StatusMarksSafe(0, first.marks)
    BY <2>1 DEF StatusMarksSafe
  <2> QED BY <2>1, <2>2 DEF ResponseSafe, ResponseStates, Ends
<1>3. a.st \in Ends => b = a /\ ResponseSafe(Len(s), a)
  <2> HIDE DEF first
  <2>1. After("response", s, first) = a /\ After("response", t, first) = b
    BY DEF After
  <2>2. "response" \in Automata /\ first.i \in Nat /\ Safe("response", 0, first.i, first) /\ 0 \in Nat
    BY <1>2 DEF Automata, Safe
  <2> HIDE DEF a, b
  <2>3. Beyond("response", a, b) /\ (a.st \in Ends => Safe("response", 0, Len(s), a))
    BY <1>2, <2>1, <2>2, AfterAgrees
  <2> QED BY <2>3 DEF Beyond, Safe
<1> HIDE DEF a, b, first
<1>4. ~(a.st # "DONE" \/ a.i + 1 >= Len(s))
  <2>1. SUFFICES ASSUME a.st # "DONE" \/ a.i + 1 >= Len(s) PROVE r.answer # "OK"
    BY <1>1
  <2> DEFINE answer == IF a.st # "DONE" THEN "EINVAL" ELSE "EAGAIN"
             status == a.numbers.status
  <2>2. r = [answer |-> answer, code |-> status] /\ answer # "OK"
    BY <2>1 DEF StatusAnswer
  <2> HIDE DEF answer, status, r
  <2> QED BY <2>2
<1>5. b = a /\ a.i \in Nat
  BY <1>3, <1>4 DEF ResponseSafe, Ends
<1>6. ~(a.st # "DONE" \/ a.i + 1 >= Len(t))
  <2>1. Len(s) \in Nat /\ Len(t) \in Nat /\ Len(s) <= Len(t)
    BY DEF Prefix
  <2> QED BY <1>4, <1>5, <2>1
<1>7. StatusAnswer(t, a, had) = r
  BY <1>4, <1>6 DEF StatusAnswer
<1> QED BY <1>1, <1>5, <1>7

LEMMA StatusResumed ==
  ASSUME NEW s \in Seq(Bytes), NEW t \in Seq(Bytes), Prefix(s, t), NEW q, DOMAIN q = Members
  PROVE  LET r == parseResponseline(s, q.code, q.fields)
             l == StatusLine(s, q, r)
             whole == StatusLine(t, q, parseResponseline(t, q.code, q.fields))
         IN IF r.answer = "OK" THEN l = whole /\ l.state = "HTTP_PARSE_HEADERS"
            ELSE /\ l.code = q.code => StatusLine(t, l, parseResponseline(t, l.code, l.fields)) = whole
                 /\ l.state = "HTTP_PARSE_RESPONSE_LINE"
<1> DEFINE r == parseResponseline(s, q.code, q.fields)
           h == parseResponseline(t, q.code, q.fields)
           l == StatusLine(s, q, r)
           whole == StatusLine(t, q, h)
<1>1. CASE r.answer = "OK"
  <2>1. h = r
    BY <1>1, StatusAgrees
  <2> HIDE DEF r, h
  <2>2. l = whole
    BY <2>1 DEF StatusLine
  <2>3. l.state = "HTTP_PARSE_HEADERS"
    <3> DEFINE known == [q EXCEPT !.answer = r.answer, !.code = r.code]
               off == IF "StatusLine" \in DOMAIN r.fields
                      THEN r.fields.StatusLine[2] - r.fields.StatusLine[1] ELSE 0
    <3>1. l = [known EXCEPT !.state = "HTTP_PARSE_HEADERS", !.version = r.version, !.fields = r.fields, !.off = off]
      BY <1>1 DEF StatusLine
    <3>2. DOMAIN known = Members
      OBVIOUS
    <3> HIDE DEF known, off, l
    <3> QED BY <3>1, <3>2 DEF Members
  <2> HIDE DEF l, whole
  <2> QED BY <1>1, <2>2, <2>3 DEF l, whole, r, h
<1>2. CASE r.answer # "OK"
  <2> DEFINE again == StatusLine(t, l, parseResponseline(t, l.code, l.fields))
  <2> HIDE DEF r
  <2>1. l = [q EXCEPT !.answer = r.answer, !.code = r.code, !.state = "HTTP_PARSE_RESPONSE_LINE"]
    BY <1>2 DEF StatusLine
  <2> HIDE DEF l
  <2>2. /\ DOMAIN l = Members /\ l.state = "HTTP_PARSE_RESPONSE_LINE" /\ l.fields = q.fields
        /\ \A m \in Members \ {"answer", "code", "state"} : l[m] = q[m]
    BY <2>1 DEF Members
  <2>3. ASSUME l.code = q.code PROVE again = whole
    <3>1. again = StatusLine(t, l, h)
      BY <2>2, <2>3
    <3> HIDE DEF h, again, whole
    <3> DEFINE off == IF "StatusLine" \in DOMAIN h.fields
                      THEN h.fields.StatusLine[2] - h.fields.StatusLine[1] ELSE 0
               x == StatusLine(t, l, h)
               y == StatusLine(t, q, h)
               of(z) == IF h.answer # "OK"
                        THEN [z EXCEPT !.answer = h.answer, !.code = h.code, !.state = "HTTP_PARSE_RESPONSE_LINE"]
                        ELSE [z EXCEPT !.answer = h.answer, !.code = h.code, !.state = "HTTP_PARSE_HEADERS",
                                       !.version = h.version, !.fields = h.fields, !.off = off]
    <3>2. x = of(l) /\ y = of(q)
      BY DEF StatusLine
    <3> HIDE DEF off
    <3>3. of(l) = [m \in Members |-> of(l)[m]] /\ of(q) = [m \in Members |-> of(q)[m]]
      <4>1. CASE h.answer # "OK"
        BY <2>2, <4>1
      <4>2. CASE h.answer = "OK"
        BY <2>2, <4>2
      <4> QED BY <4>1, <4>2
    <3>4. \A m \in Members : of(l)[m] = of(q)[m]
      <4>1. CASE h.answer # "OK"
        BY <2>2, <4>1 DEF Members
      <4>2. CASE h.answer = "OK"
        BY <2>2, <4>2 DEF Members
      <4> QED BY <4>1, <4>2
    <3> HIDE DEF of
    <3> QED BY <3>1, <3>2, <3>3, <3>4 DEF whole
  <2> HIDE DEF again, whole
  <2> QED BY <1>2, <2>2, <2>3 DEF again, l, whole, r
<1> QED BY <1>1, <1>2

\* A method that was read is read in a longer text; before that, nothing is kept.
LEMMA MethodResumed ==
  ASSUME NEW s \in Seq(Bytes), NEW t \in Seq(Bytes), Prefix(s, t), NEW q, DOMAIN q = Members
  PROVE  LET r == parseMethod(s, q.method)
             l == Method(q, r)
             whole == Method(q, parseMethod(t, q.method))
         IN IF r.answer = "OK" THEN l = whole /\ l.state = "HTTP_PARSE_REQUEST_LINE"
            ELSE /\ Method(l, parseMethod(t, l.method)) = whole
                 /\ l.state = "HTTP_PARSE_METHOD"
<1> DEFINE r == parseMethod(s, q.method)
           h == parseMethod(t, q.method)
           l == Method(q, r)
           whole == Method(q, h)
<1>1. CASE r.answer = "OK"
  <2>1. h = r
    BY <1>1, MethodAgrees
  <2> HIDE DEF r, h
  <2>2. l.state = "HTTP_PARSE_REQUEST_LINE"
    BY <1>1 DEF Method, Members
  <2> HIDE DEF l
  <2> QED BY <1>1, <2>1, <2>2 DEF l, r, h
<1>2. CASE r.answer # "OK"
  <2> DEFINE again == Method(l, parseMethod(t, l.method))
  <2> HIDE DEF r
  <2>1. l = [q EXCEPT !.state = "HTTP_PARSE_METHOD", !.answer = r.answer]
    BY <1>2 DEF Method
  <2> HIDE DEF l
  <2>2. /\ DOMAIN l = Members /\ l.state = "HTTP_PARSE_METHOD" /\ l.method = q.method
        /\ \A m \in Members \ {"answer", "state"} : l[m] = q[m]
    BY <2>1 DEF Members
  <2>3. again = Method(l, h)
    BY <2>2
  <2>4. Method(l, h) = Method(q, h)
    <3> HIDE DEF h
    <3> DEFINE of(z) == IF h.answer # "OK" THEN [z EXCEPT !.state = "HTTP_PARSE_METHOD", !.answer = h.answer]
                        ELSE [z EXCEPT !.state = "HTTP_PARSE_REQUEST_LINE", !.answer = "OK",
                                       !.method = h.method, !.size = h.size]
    <3>1. Method(l, h) = of(l) /\ Method(q, h) = of(q)
      BY DEF Method
    <3>2. of(l) = [m \in Members |-> of(l)[m]] /\ of(q) = [m \in Members |-> of(q)[m]]
      <4>1. CASE h.answer # "OK"
        BY <2>2, <4>1
      <4>2. CASE h.answer = "OK"
        BY <2>2, <4>2
      <4> QED BY <4>1, <4>2
    <3>3. \A m \in Members : of(l)[m] = of(q)[m]
      <4>1. CASE h.answer # "OK"
        BY <2>2, <4>1 DEF Members
      <4>2. CASE h.answer = "OK"
        BY <2>2, <4>2 DEF Members
      <4> QED BY <4>1, <4>2
    <3> HIDE DEF of
    <3> QED BY <3>1, <3>2, <3>3
  <2> HIDE DEF again, whole
  <2> QED BY <1>2, <2>2, <2>3, <2>4 DEF again, l, whole, r
<1> QED BY <1>1, <1>2

-----------------------------------------------------------------------------
(* Going on with the header block. *)

IsParser(r) == r = [m \in Members |-> r[m]]

LEMMA BlockStays ==
  ASSUME NEW in, NEW f, NEW n \in Nat, BlockRun(in, f, n), NEW j \in 0 .. n, f[j].answer # "reading"
  PROVE  f[n] = f[j]
<1> DEFINE S == {k \in Nat : j + k <= n => f[j + k] = f[j]}
<1>1. 0 \in S
  OBVIOUS
<1>2. ASSUME NEW k \in Nat, k \in S PROVE k + 1 \in S
  <2>1. SUFFICES ASSUME j + (k + 1) <= n PROVE f[j + (k + 1)] = f[j]
    OBVIOUS
  <2>2. f[j + k] = f[j]
    BY <1>2, <2>1
  <2>3. f[j + (k + 1)] = Onward("headers", in, f[j + k])
    <3>1. j + (k + 1) \in 1 .. n /\ (j + (k + 1)) - 1 = j + k
      BY <2>1
    <3> QED BY <3>1 DEF BlockRun
  <2> QED BY <2>2, <2>3 DEF Onward
<1>3. n - j \in S
  <2>1. n - j \in Nat
    OBVIOUS
  <2> HIDE DEF S
  <2> QED BY <1>1, <1>2, <2>1, SetInduction
<1>4. j + (n - j) = n
  OBVIOUS
<1> QED BY <1>3, <1>4

LEMMA BlockShift ==
  ASSUME NEW in, NEW f, NEW n \in Nat, BlockRun(in, f, n), NEW h, NEW m \in Nat, BlockRun(in, h, m),
         NEW j \in Nat, j + m <= n, h[0] = f[j]
  PROVE  h[m] = f[j + m]
<1> DEFINE S == {k \in Nat : k <= m => h[k] = f[j + k]}
<1>1. 0 \in S
  OBVIOUS
<1>2. ASSUME NEW k \in Nat, k \in S PROVE k + 1 \in S
  <2>1. SUFFICES ASSUME k + 1 <= m PROVE h[k + 1] = f[j + (k + 1)]
    OBVIOUS
  <2>2. h[k] = f[j + k]
    BY <1>2, <2>1
  <2>3. f[j + (k + 1)] = Onward("headers", in, f[j + k])
    <3>1. j + (k + 1) \in 1 .. n /\ (j + (k + 1)) - 1 = j + k
      BY <2>1
    <3> QED BY <3>1 DEF BlockRun
  <2>4. h[k + 1] = Onward("headers", in, h[k])
    <3>1. k + 1 \in 1 .. m /\ (k + 1) - 1 = k
      BY <2>1
    <3> QED BY <3>1 DEF BlockRun
  <2> QED BY <2>2, <2>3, <2>4
<1>3. m \in S
  <2> HIDE DEF S
  <2> QED BY <1>1, <1>2, SetInduction
<1> QED BY <1>3

\* What the turns over s have made of the parser, the turns over t make of it as
\* well, up to the line that s does not hold.
BlockFollows(a, g, n) ==
  \/ a.answer \in {"reading", "OK"} /\ g[n] = a /\ IsParser(a)
  \/ /\ a.answer \notin {"reading", "OK"}
     /\ \E m \in 0 .. n : /\ g[m] = [a EXCEPT !.answer = "reading"]
                          /\ IsParser(a)

LEMMA BlockTurn ==
  ASSUME NEW s \in Seq(Bytes), NEW t \in Seq(Bytes), Prefix(s, t), NEW a, IsParser(a), a.off \in Nat,
         a.off <= Len(s), a.answer = "reading"
  PROVE  LET b == Onward("headers", s, a)
         IN /\ IsParser(b)
            /\ IF b.answer \in {"reading", "OK"} THEN Onward("headers", t, a) = b
               ELSE a = [b EXCEPT !.answer = "reading"]
<1> DEFINE r == ParseHeader(s, a.off)
           store == Store(a.headers, [name |-> r.name, value |-> r.value])
           next == [a EXCEPT !.off = r.off]
           b == Onward("headers", s, a)
<1>0. DOMAIN a = Members
  BY DEF IsParser
<1>1. b = CASE r.answer = "OK" -> [next EXCEPT !.headers = store]
            [] r.answer = "ENOENT" -> [next EXCEPT !.answer = "OK"]
            [] OTHER -> [next EXCEPT !.answer = r.answer]
  <2>1. b = NextHeader(s, a)
    BY DEF Onward
  <2>2. next.headers = a.headers
    BY <1>0 DEF Members
  <2> QED BY <2>1, <2>2 DEF NextHeader
<1>2. r.answer \in {"OK", "ENOENT"} => Onward("headers", t, a) = b
  <2>1. SUFFICES ASSUME r.answer \in {"OK", "ENOENT"} PROVE Onward("headers", t, a) = b
    OBVIOUS
  <2>2. ParseHeader(t, a.off) = r
    BY <2>1, HeaderAgrees
  <2>3. Onward("headers", t, a) = NextHeader(t, a) /\ b = NextHeader(s, a)
    BY DEF Onward
  <2> HIDE DEF b
  <2> QED BY <2>2, <2>3 DEF NextHeader
<1>3. r.answer \notin {"OK", "ENOENT"} => r.off = a.off
  BY HeaderAgrees
<1> HIDE DEF r, store
<1>4. DOMAIN next = Members /\ next.answer = "reading" /\ \A m \in Members \ {"off"} : next[m] = a[m]
  BY <1>0 DEF Members
<1>5. next.off = r.off
  BY <1>0 DEF Members
<1> HIDE DEF next
<1>6. b = [m \in Members |-> b[m]]
  <2>1. CASE r.answer = "OK"
    <3>1. b = [next EXCEPT !.headers = store]
      BY <1>1, <2>1
    <3> QED BY <1>4, <3>1
  <2>2. CASE r.answer = "ENOENT"
    <3>1. b = [next EXCEPT !.answer = "OK"]
      BY <1>1, <2>2
    <3> QED BY <1>4, <3>1
  <2>3. CASE r.answer \notin {"OK", "ENOENT"}
    <3>1. b = [next EXCEPT !.answer = r.answer]
      BY <1>1, <2>3
    <3> QED BY <1>4, <3>1
  <2> QED BY <2>1, <2>2, <2>3
<1>7. b.answer \notin {"reading", "OK"} => a = [b EXCEPT !.answer = "reading"]
  <2>1. SUFFICES ASSUME b.answer \notin {"reading", "OK"} PROVE a = [b EXCEPT !.answer = "reading"]
    OBVIOUS
  <2>2. r.answer \notin {"OK", "ENOENT"}
    <3>1. CASE r.answer = "OK"
      <4>1. b = [next EXCEPT !.headers = store]
        BY <1>1, <3>1
      <4>2. b.answer = "reading"
        BY <1>4, <4>1 DEF Members
      <4> QED BY <2>1, <4>2
    <3>2. CASE r.answer = "ENOENT"
      <4>1. b = [next EXCEPT !.answer = "OK"]
        BY <1>1, <3>2
      <4>2. b.answer = "OK"
        BY <1>4, <4>1 DEF Members
      <4> QED BY <2>1, <4>2
    <3> QED BY <3>1, <3>2
  <2>3. b = [next EXCEPT !.answer = r.answer]
    BY <1>1, <2>2
  <2> HIDE DEF b
  <2>4. DOMAIN b = Members /\ \A m \in Members \ {"answer"} : b[m] = a[m]
    BY <1>3, <1>4, <1>5, <2>2, <2>3 DEF Members
  <2> DEFINE c == [b EXCEPT !.answer = "reading"]
  <2>5. c = [m \in Members |-> c[m]]
    BY <2>4
  <2>6. \A m \in Members : c[m] = a[m]
    BY <2>4 DEF Members
  <2> HIDE DEF c
  <2> QED BY <2>5, <2>6 DEF IsParser, c
<1>8. b.answer \in {"reading", "OK"} => Onward("headers", t, a) = b
  <2>1. SUFFICES ASSUME b.answer \in {"reading", "OK"}, r.answer \notin {"OK", "ENOENT"} PROVE FALSE
    BY <1>2
  <2>2. b = [next EXCEPT !.answer = r.answer]
    BY <1>1, <2>1
  <2>3. r.answer # "reading"
    <3>1. Len(s) \in Nat
      OBVIOUS
    <3> QED BY <3>1, HeaderWithin DEF r
  <2> HIDE DEF b
  <2>4. b.answer = r.answer
    BY <1>4, <2>2 DEF Members
  <2> QED BY <2>1, <2>3, <2>4
<1> HIDE DEF b
<1>9. IsParser(b) /\ IF b.answer \in {"reading", "OK"} THEN Onward("headers", t, a) = b
                     ELSE a = [b EXCEPT !.answer = "reading"]
  BY <1>6, <1>7, <1>8 DEF IsParser
<1> QED BY <1>9 DEF b

LEMMA BlockFollowed ==
  ASSUME NEW s \in Seq(Bytes), NEW t \in Seq(Bytes), Prefix(s, t), NEW q, q.off \in Nat,
         NEW f, NEW g, NEW n \in Nat, BlockRun(s, f, n), BlockRun(t, g, n), f[0] = g[0], IsParser(f[0]),
         f[0].answer = "reading", \A k \in 0 .. n : BlockSafe(s, q, k, f[k])
  PROVE  BlockFollows(f[n], g, n)
<1> DEFINE S == {k \in Nat : k <= n => BlockFollows(f[k], g, k)}
<1>1. 0 \in S
  <2>1. BlockFollows(f[0], g, 0)
    BY DEF BlockFollows
  <2> QED BY <2>1
<1>2. ASSUME NEW k \in Nat, k \in S PROVE k + 1 \in S
  <2>1. SUFFICES ASSUME k + 1 <= n PROVE BlockFollows(f[k + 1], g, k + 1)
    OBVIOUS
  <2>2. BlockFollows(f[k], g, k)
    BY <1>2, <2>1
  <2>3. f[k + 1] = Onward("headers", s, f[k]) /\ g[k + 1] = Onward("headers", t, g[k])
    <3>1. k + 1 \in 1 .. n /\ (k + 1) - 1 = k
      BY <2>1
    <3> QED BY <3>1 DEF BlockRun
  <2> DEFINE a == f[k]
             b == f[k + 1]
  <2>4. CASE a.answer = "reading"
    <3>1. g[k] = a /\ IsParser(a)
      BY <2>2, <2>4 DEF BlockFollows
    <3>2. a.off \in Nat /\ a.off <= Len(s)
      <4>1. k \in 0 .. n /\ Len(s) \in Nat
        BY <2>1
      <4>2. BlockSafe(s, q, k, a)
        BY <4>1
      <4> QED BY <4>1, <4>2 DEF BlockSafe
    <3>3. b = Onward("headers", s, a) /\ g[k + 1] = Onward("headers", t, a)
      BY <2>3, <3>1
    <3> HIDE DEF a, b
    <3>4. /\ IsParser(b)
          /\ IF b.answer \in {"reading", "OK"} THEN g[k + 1] = b ELSE a = [b EXCEPT !.answer = "reading"]
      BY <2>4, <3>1, <3>2, <3>3, BlockTurn
    <3>5. k \in 0 .. k + 1 /\ g[k] = a
      BY <3>1
    <3>6. BlockFollows(b, g, k + 1)
      BY <3>4, <3>5 DEF BlockFollows
    <3> QED BY <3>6 DEF b
  <2>5. CASE a.answer # "reading"
    <3>1. b = a
      BY <2>3, <2>5 DEF Onward
    <3>2. CASE a.answer = "OK"
      <4>1. g[k] = a /\ IsParser(a)
        BY <2>2, <3>2 DEF BlockFollows
      <4>2. g[k + 1] = a
        BY <2>3, <2>5, <4>1 DEF Onward
      <4> QED BY <3>1, <3>2, <4>1, <4>2 DEF BlockFollows
    <3>3. CASE a.answer # "OK"
      <4> HIDE DEF a, b
      <4>1. PICK m \in 0 .. k : g[m] = [a EXCEPT !.answer = "reading"] /\ IsParser(a)
        BY <2>2, <2>5, <3>3 DEF BlockFollows, a
      <4>2. m \in 0 .. k + 1
        OBVIOUS
      <4>3. BlockFollows(a, g, k + 1)
        BY <2>5, <3>3, <4>1, <4>2 DEF BlockFollows
      <4> QED BY <3>1, <4>3 DEF b
    <3> QED BY <3>2, <3>3
  <2> QED BY <2>4, <2>5
<1>3. n \in S
  <2> HIDE DEF S
  <2> QED BY <1>1, <1>2, SetInduction
<1> QED BY <1>3

\* A header block that was read to its end is read so in a longer text; one that
\* was not is gone on with at its first line that was not read, and becomes what
\* it is when it is read at once.
LEMMA HeadersAgree ==
  ASSUME NEW s \in Seq(Bytes), NEW t \in Seq(Bytes), Prefix(s, t), NEW q, DOMAIN q = Members, q.off \in Nat,
         q.off <= Len(s)
  PROVE  LET r == parseHeaders(s, q)
         IN IF r.answer = "OK" THEN parseHeaders(t, q) = r
            ELSE parseHeaders(t, r) = parseHeaders(t, q)
<1> DEFINE r == parseHeaders(s, q)
           whole == parseHeaders(t, q)
<1>0. Len(s) \in Nat /\ Len(t) \in Nat /\ Len(s) <= Len(t) /\ q.off <= Len(t)
  BY DEF Prefix
<1>1. CASE q.off = 0
  <2>1. r = [q EXCEPT !.answer = "EBADE"] /\ whole = [q EXCEPT !.answer = "EBADE"]
    BY <1>1 DEF parseHeaders
  <2> HIDE DEF r, whole
  <2>2. DOMAIN r = Members /\ r.off = 0 /\ r.answer = "EBADE" /\ r = [m \in Members |-> r[m]]
    BY <1>1, <2>1 DEF Members
  <2>3. parseHeaders(t, r) = [r EXCEPT !.answer = "EBADE"]
    BY <2>2 DEF parseHeaders
  <2>4. [r EXCEPT !.answer = "EBADE"] = r
    BY <2>2
  <2> QED BY <2>1, <2>2, <2>3, <2>4 DEF r, whole
<1>2. CASE q.off # 0
  <2> DEFINE ns == Len(s) - q.off + 1
             nt == Len(t) - q.off + 1
             first == [q EXCEPT !.answer = "reading"]
  <2>1. PICK f : /\ f[0] = first /\ BlockRun(s, f, ns) /\ r = f[ns]
                 /\ \A k \in 0 .. ns : BlockSafe(s, q, k, f[k])
    BY <1>0, <1>2, HeadersRun
  <2>2. PICK g : /\ g[0] = first /\ BlockRun(t, g, nt) /\ whole = g[nt]
                 /\ \A k \in 0 .. nt : BlockSafe(t, q, k, g[k])
    BY <1>0, <1>2, HeadersRun
  <2>3. ns \in Nat /\ nt \in Nat /\ ns <= nt
    BY <1>0
  <2>4. IsParser(first) /\ first.answer = "reading"
    BY DEF IsParser, Members
  <2>5. r.answer # "reading" /\ whole.answer # "reading"
    BY <1>0, HeadersWithin
  <2> HIDE DEF r, whole, first, ns, nt
  <2>6. BlockRun(t, g, ns)
    BY <2>2, <2>3 DEF BlockRun
  <2>7. BlockFollows(r, g, ns)
    <3>1. f[0] = g[0] /\ IsParser(f[0]) /\ f[0].answer = "reading" /\ \A k \in 0 .. ns : BlockSafe(s, q, k, f[k])
      BY <2>1, <2>2, <2>4
    <3>2. BlockFollows(f[ns], g, ns)
      BY <2>1, <2>3, <2>6, <3>1, BlockFollowed
    <3> QED BY <2>1, <3>2
  <2>8. CASE r.answer = "OK"
    <3>1. g[ns] = r
      BY <2>7, <2>8 DEF BlockFollows
    <3>2. ns \in 0 .. nt /\ g[ns].answer # "reading"
      BY <2>3, <2>5, <3>1
    <3>3. g[nt] = g[ns]
      BY <2>2, <2>3, <3>2, BlockStays
    <3> QED BY <2>2, <2>8, <3>1, <3>3 DEF r, whole
  <2>9. CASE r.answer # "OK"
    <3>1. PICK m \in 0 .. ns : g[m] = [r EXCEPT !.answer = "reading"] /\ IsParser(r)
      BY <2>5, <2>7, <2>9 DEF BlockFollows
    <3>2. DOMAIN r = Members /\ g[m].answer = "reading" /\ g[m].off = r.off
      BY <3>1 DEF IsParser, Members
    <3>3. BlockSafe(t, q, m, g[m]) /\ m \in Nat
      BY <2>2, <2>3
    <3>4. r.off \in Nat /\ r.off <= Len(t) /\ q.off + m <= r.off /\ r.off # 0
      BY <1>0, <1>2, <3>2, <3>3 DEF BlockSafe
    <3> DEFINE again == parseHeaders(t, r)
               turns == Len(t) - r.off + 1
    <3>5. PICK h : h[0] = [r EXCEPT !.answer = "reading"] /\ BlockRun(t, h, turns) /\ again = h[turns]
      BY <1>0, <3>2, <3>4, HeadersRun
    <3>6. again.answer # "reading"
      BY <1>0, <3>2, <3>4, HeadersWithin
    <3>7. turns \in Nat /\ m + turns <= nt
      <4>1. \A l, o, k, w \in Nat : o <= l /\ w + k <= o =>
              l - o + 1 \in Nat /\ k + (l - o + 1) <= l - w + 1
        OBVIOUS
      <4>2. Len(t) \in Nat /\ q.off \in Nat
        BY <1>0
      <4> QED BY <3>3, <3>4, <4>1, <4>2 DEF nt
    <3> HIDE DEF again, turns
    <3>8. h[turns] = g[m + turns]
      BY <2>2, <2>3, <3>1, <3>3, <3>5, <3>7, BlockShift
    <3>9. m + turns \in 0 .. nt /\ g[m + turns].answer # "reading"
      BY <2>3, <3>3, <3>5, <3>6, <3>7, <3>8
    <3>10. g[nt] = g[m + turns]
      BY <2>2, <2>3, <3>9, BlockStays
    <3> QED BY <2>2, <2>9, <3>5, <3>8, <3>10 DEF r, whole, again
  <2> QED BY <2>8, <2>9
<1> QED BY <1>1, <1>2

LEMMA BlockResumed ==
  ASSUME NEW s \in Seq(Bytes), NEW t \in Seq(Bytes), Prefix(s, t), NEW q, DOMAIN q = Members, q.off \in Nat,
         q.off <= Len(s), q.state \in {"HTTP_PARSE_HEADER", "HTTP_PARSE_HEADERS"}
  PROVE  LET b == Body(s, parseHeaders(s, q))
             whole == Body(t, parseHeaders(t, q))
         IN /\ b.state \in {q.state, "HTTP_HEADER_DONE"}
            /\ b.answer # "OK" => b.state = q.state /\ Body(t, parseHeaders(t, b)) = whole
            /\ b.state = "HTTP_HEADER_DONE" => [b EXCEPT !.answer = "OK"] = b /\ b = whole
<1> DEFINE r == parseHeaders(s, q)
           h == parseHeaders(t, q)
           b == Body(s, r)
           whole == Body(t, h)
<1>1. IF r.answer = "OK" THEN h = r ELSE parseHeaders(t, r) = h
  BY HeadersAgree
<1>2. DOMAIN r = Members /\ r.off \in Nat /\ r.off <= Len(s) /\ r.state = q.state
  <2>1. Len(s) \in Nat
    OBVIOUS
  <2>2. BlockSafe(s, q, 0, r)
    BY <2>1, HeadersWithin
  <2> QED BY <2>1, <2>2 DEF BlockSafe
<1>3. Len(s) \in Nat /\ Len(t) \in Nat /\ Len(s) <= Len(t)
  BY DEF Prefix
<1> DEFINE again == Body(t, parseHeaders(t, b))
           done == [b EXCEPT !.answer = "OK"]
<1> HIDE DEF r, h
<1>4. CASE r.answer # "OK"
  <2>1. b = r
    BY <1>4 DEF Body
  <2>2. b.state = q.state /\ again = whole /\ b.state # "HTTP_HEADER_DONE"
    BY <1>1, <1>2, <1>4, <2>1
  <2> HIDE DEF b, again, whole
  <2> QED BY <2>2 DEF b, again, whole, r, h
<1>5. CASE r.answer = "OK" /\ r.off >= Len(s)
  <2>1. b = r
    BY <1>5 DEF Body
  <2>2. b.state = q.state /\ b.answer = "OK" /\ b.state # "HTTP_HEADER_DONE"
    BY <1>2, <1>5, <2>1
  <2> HIDE DEF b, again, whole
  <2> QED BY <2>2 DEF b, again, whole, r, h
<1>6. CASE r.answer = "OK" /\ r.off < Len(s)
  <2>1. b = [r EXCEPT !.state = "HTTP_HEADER_DONE", !.body = r.off]
    BY <1>2, <1>3, <1>6 DEF Body
  <2>2. whole = [r EXCEPT !.state = "HTTP_HEADER_DONE", !.body = r.off]
    <3>1. h = r /\ ~(r.off >= Len(t))
      BY <1>1, <1>2, <1>3, <1>6
    <3> QED BY <1>6, <3>1 DEF Body
  <2> HIDE DEF b, whole
  <2>3. b.state = "HTTP_HEADER_DONE" /\ b.answer = "OK" /\ DOMAIN b = Members /\ b = [m \in Members |-> b[m]]
    BY <1>2, <1>6, <2>1 DEF Members
  <2>4. done = b
    BY <2>3
  <2> HIDE DEF again, done
  <2> QED BY <2>1, <2>2, <2>3, <2>4 DEF b, again, done, whole, r, h
<1> QED BY <1>2, <1>3, <1>4, <1>5, <1>6

-----------------------------------------------------------------------------
(* Going on with a message. *)

\* The parser has kept its place: parse has not answered 0 before there was a
\* body, nor kept digits of a status line it has to read again.
InPlace(code, q) ==
  /\ ~(q.answer = "OK" /\ q.state # "HTTP_HEADER_DONE")
  /\ ~(q.state = "HTTP_PARSE_RESPONSE_LINE" /\ q.code # code)

LEMMA FreshParts ==
  ASSUME NEW code, NEW n \in Nat
  PROVE  LET f == Fresh(code)
         IN /\ ParserSafe(f, n) /\ DOMAIN f = Members /\ f.state = "HTTP_INIT" /\ f.code = code
            /\ f.flags = {} /\ f.fields = <<>> /\ f.version = 0
<1> DEFINE f == Fresh(code)
<1>1. /\ DOMAIN f = Members /\ f.size = 0 /\ f.off = 0 /\ f.fields = <<>> /\ f.state = "HTTP_INIT"
      /\ f.code = code /\ f.flags = {} /\ f.version = 0
  BY DEF Fresh, Members
<1> HIDE DEF f
<1>2. ParserSafe(f, n)
  BY <1>1, NoField DEF ParserSafe
<1> QED BY <1>1, <1>2 DEF f

LEMMA MethodKeeps ==
  ASSUME NEW q, DOMAIN q = Members, NEW r
  PROVE  LET m == Method(q, r)
         IN m.flags = q.flags /\ m.fields = q.fields /\ m.version = q.version
<1> DEFINE m == Method(q, r)
<1>1. CASE r.answer # "OK"
  <2>1. m = [q EXCEPT !.state = "HTTP_PARSE_METHOD", !.answer = r.answer]
    BY <1>1 DEF Method
  <2> HIDE DEF m
  <2>2. m.flags = q.flags /\ m.fields = q.fields /\ m.version = q.version
    BY <2>1 DEF Members
  <2> QED BY <2>2 DEF m
<1>2. CASE r.answer = "OK"
  <2>1. m = [q EXCEPT !.state = "HTTP_PARSE_REQUEST_LINE", !.answer = "OK", !.method = r.method, !.size = r.size]
    BY <1>2 DEF Method
  <2> HIDE DEF m
  <2>2. m.flags = q.flags /\ m.fields = q.fields /\ m.version = q.version
    BY <2>1 DEF Members
  <2> QED BY <2>2 DEF m
<1> QED BY <1>1, <1>2

LEMMA RequestResumed ==
  ASSUME NEW s \in Seq(Bytes), NEW t \in Seq(Bytes), Prefix(s, t), NEW code,
         NEW kind, kind = "request"
  PROVE  LET q == Parse(kind, s, Fresh(code))
         IN q.state # "HTTP_INIT" /\ (InPlace(code, q) => Parse(kind, t, q) = Parse(kind, t, Fresh(code)))
<1> DEFINE f == Fresh(code)
           rm == parseMethod(s, f.method)
           m == CaseMethod(s, f)
           l == CaseLine(s, m)
           q == CaseHeader(s, l)
           tm == CaseMethod(t, f)
           tl == CaseLine(t, tm)
           tq == CaseHeader(t, tl)
<1>1. /\ ParserSafe(f, Len(s)) /\ DOMAIN f = Members /\ f.state = "HTTP_INIT" /\ f.flags = {}
      /\ f.fields = <<>> /\ f.version = 0
  <2>1. Len(s) \in Nat
    OBVIOUS
  <2> QED BY <2>1, FreshParts
<1> HIDE DEF f
<1>2. Parse(kind, s, f) = q /\ Parse(kind, t, f) = tq
  BY <1>1 DEF Parse, ParseRequest
<1>3. m = Method(f, rm) /\ tm = Method(f, parseMethod(t, f.method))
  BY <1>1 DEF CaseMethod
<1>4. IF rm.answer = "OK" THEN m = tm /\ m.state = "HTTP_PARSE_REQUEST_LINE"
      ELSE Method(m, parseMethod(t, m.method)) = tm /\ m.state = "HTTP_PARSE_METHOD"
  <2> HIDE DEF m, tm
  <2> QED BY <1>1, <1>3, MethodResumed
<1>5. ParserSafe(m, Len(s)) /\ DOMAIN m = Members
  <2>1. Handed(f, m, Len(s))
    BY <1>1, <1>3, MethodAfter
  <2> HIDE DEF m
  <2> QED BY <2>1 DEF Handed, ParserSafe
<1>6. m.flags = {} /\ m.fields = <<>> /\ m.version = 0
  <2> HIDE DEF m, rm
  <2> QED BY <1>1, <1>3, MethodKeeps
<1>7. ASSUME NEW x, x.state # "HTTP_HEADER_DONE"
      PROVE  Parse(kind, t, x) = CaseHeader(t, CaseLine(t, CaseMethod(t, x)))
  BY <1>7 DEF Parse, ParseRequest
<1> HIDE DEF m, tm
<1>8. CASE rm.answer # "OK"
  <2>1. m.state = "HTTP_PARSE_METHOD" /\ Method(m, parseMethod(t, m.method)) = tm
    BY <1>4, <1>8
  <2>2. q = m
    BY <2>1 DEF CaseLine, CaseHeader
  <2>3. CaseMethod(t, m) = tm
    BY <2>1 DEF CaseMethod
  <2> HIDE DEF l, q, tl
  <2>4. Parse(kind, t, q) = tq /\ q.state # "HTTP_INIT"
    BY <1>7, <2>1, <2>2, <2>3 DEF tl
  <2> QED BY <1>2, <2>4 DEF f
<1>9. CASE rm.answer = "OK"
  <2> DEFINE r == parseRequestline(s, m.size, m.method, <<>>)
  <2>1. m = tm /\ m.state = "HTTP_PARSE_REQUEST_LINE" /\ m.size \in Nat
    BY <1>4, <1>5, <1>9 DEF ParserSafe
  <2>2. l = Line(s, m, r) /\ tl = Line(t, m, parseRequestline(t, m.size, m.method, <<>>))
    BY <1>6, <2>1 DEF CaseLine
  <2> HIDE DEF l, tl
  <2>3. IF r.answer = "OK" THEN l = tl /\ l.state = "HTTP_PARSE_HEADER"
        ELSE Line(t, l, parseRequestline(t, l.size, l.method, l.fields)) = tl /\ l.state = m.state
    BY <1>5, <1>6, <2>1, <2>2, LineResumed
  <2> HIDE DEF r
  <2>4. CASE r.answer # "OK"
    <3>1. l.state = "HTTP_PARSE_REQUEST_LINE" /\ Line(t, l, parseRequestline(t, l.size, l.method, l.fields)) = tl
      BY <2>1, <2>3, <2>4
    <3>2. q = l /\ CaseMethod(t, l) = l
      BY <3>1 DEF CaseMethod, CaseHeader
    <3>3. CaseLine(t, l) = tl
      BY <3>1 DEF CaseLine
    <3> HIDE DEF q, tq
    <3>4. Parse(kind, t, q) = tq /\ q.state # "HTTP_INIT"
      BY <1>7, <3>1, <3>2, <3>3 DEF tq
    <3> QED BY <1>2, <3>4 DEF f
  <2>5. CASE r.answer = "OK"
    <3>1. l = tl /\ l.state = "HTTP_PARSE_HEADER"
      BY <2>3, <2>5
    <3>2. DOMAIN l = Members /\ l.off \in Nat /\ l.off <= Len(s)
      <4>1. Len(s) \in Nat
        OBVIOUS
      <4>2. Handed(m, l, Len(s))
        BY <1>5, <1>6, <2>1, <2>2, <4>1, LineAfter DEF r
      <4> QED BY <4>1, <4>2 DEF Handed, ParserSafe
    <3>3. q = Body(s, parseHeaders(s, l)) /\ tq = Body(t, parseHeaders(t, l))
      BY <3>1 DEF CaseHeader
    <3> HIDE DEF q, tq
    <3>4. /\ q.state \in {l.state, "HTTP_HEADER_DONE"}
          /\ q.answer # "OK" => q.state = l.state /\ Body(t, parseHeaders(t, q)) = tq
          /\ q.state = "HTTP_HEADER_DONE" => [q EXCEPT !.answer = "OK"] = q /\ q = tq
      BY <3>1, <3>2, <3>3, BlockResumed
    <3>5. q.state # "HTTP_INIT"
      BY <3>1, <3>4
    <3>6. ASSUME InPlace(code, q) PROVE Parse(kind, t, q) = tq
      <4>1. CASE q.state = "HTTP_HEADER_DONE"
        BY <3>4, <4>1 DEF Parse
      <4>2. CASE q.state # "HTTP_HEADER_DONE"
        <5>1. q.state = "HTTP_PARSE_HEADER" /\ Body(t, parseHeaders(t, q)) = tq
          BY <3>1, <3>4, <3>6, <4>2 DEF InPlace
        <5>2. CaseMethod(t, q) = q /\ CaseLine(t, q) = q
          BY <5>1 DEF CaseMethod, CaseLine
        <5> QED BY <1>7, <4>2, <5>1, <5>2 DEF CaseHeader
      <4> QED BY <4>1, <4>2
    <3> QED BY <1>2, <3>5, <3>6 DEF f
  <2> QED BY <2>4, <2>5
<1> QED BY <1>8, <1>9

LEMMA ResponseResumed ==
  ASSUME NEW s \in Seq(Bytes), NEW t \in Seq(Bytes), Prefix(s, t), NEW code,
         NEW kind, kind # "request"
  PROVE  LET q == Parse(kind, s, Fresh(code))
         IN q.state # "HTTP_INIT" /\ (InPlace(code, q) => Parse(kind, t, q) = Parse(kind, t, Fresh(code)))
<1> DEFINE f == Fresh(code)
           r == parseResponseline(s, f.code, f.fields)
           l == CaseStatus(s, f)
           q == CaseHeaders(s, l)
           tl == CaseStatus(t, f)
           tq == CaseHeaders(t, tl)
<1>0. Len(s) \in Nat
  OBVIOUS
<1>1. ParserSafe(f, Len(s)) /\ DOMAIN f = Members /\ f.state = "HTTP_INIT" /\ f.code = code
  BY <1>0, FreshParts
<1> HIDE DEF f
<1>2. Parse(kind, s, f) = q /\ Parse(kind, t, f) = tq
  BY <1>1 DEF Parse, ParseResponse
<1>3. l = StatusLine(s, f, r) /\ tl = StatusLine(t, f, parseResponseline(t, f.code, f.fields))
  BY <1>1 DEF CaseStatus
<1>4. IF r.answer = "OK" THEN l = tl /\ l.state = "HTTP_PARSE_HEADERS"
      ELSE /\ l.code = code => StatusLine(t, l, parseResponseline(t, l.code, l.fields)) = tl
           /\ l.state = "HTTP_PARSE_RESPONSE_LINE"
  <2> HIDE DEF l, tl
  <2> QED BY <1>1, <1>3, StatusResumed
<1>5. DOMAIN l = Members /\ l.off \in Nat /\ l.off <= Len(s)
  <2>1. Handed(f, l, Len(s))
    BY <1>0, <1>1, <1>3, StatusAfter
  <2> HIDE DEF l
  <2> QED BY <1>0, <2>1 DEF Handed, ParserSafe
<1>6. ASSUME NEW x, x.state # "HTTP_HEADER_DONE"
      PROVE  Parse(kind, t, x) = CaseHeaders(t, CaseStatus(t, x))
  BY <1>6 DEF Parse, ParseResponse
<1> HIDE DEF l, tl, r
<1>7. CASE r.answer # "OK"
  <2>1. l.state = "HTTP_PARSE_RESPONSE_LINE"
    BY <1>4, <1>7
  <2>2. q = l
    BY <2>1 DEF CaseHeaders
  <2>3. ASSUME InPlace(code, q) PROVE Parse(kind, t, q) = tq
    <3>1. StatusLine(t, l, parseResponseline(t, l.code, l.fields)) = tl
      BY <1>4, <1>7, <2>1, <2>2, <2>3 DEF InPlace
    <3>2. CaseStatus(t, l) = tl
      BY <2>1, <3>1 DEF CaseStatus
    <3> HIDE DEF q, tq
    <3> QED BY <1>6, <2>1, <2>2, <3>2 DEF tq
  <2> HIDE DEF q, tq
  <2> QED BY <1>2, <2>1, <2>2, <2>3 DEF f
<1>8. CASE r.answer = "OK"
  <2>1. l = tl /\ l.state = "HTTP_PARSE_HEADERS"
    BY <1>4, <1>8
  <2>2. q = Body(s, parseHeaders(s, l)) /\ tq = Body(t, parseHeaders(t, l))
    BY <2>1 DEF CaseHeaders
  <2> HIDE DEF q, tq
  <2>3. /\ q.state \in {l.state, "HTTP_HEADER_DONE"}
        /\ q.answer # "OK" => q.state = l.state /\ Body(t, parseHeaders(t, q)) = tq
        /\ q.state = "HTTP_HEADER_DONE" => [q EXCEPT !.answer = "OK"] = q /\ q = tq
    BY <1>5, <2>1, <2>2, BlockResumed
  <2>4. ASSUME InPlace(code, q) PROVE Parse(kind, t, q) = tq
    <3>1. CASE q.state = "HTTP_HEADER_DONE"
      BY <2>3, <3>1 DEF Parse
    <3>2. CASE q.state # "HTTP_HEADER_DONE"
      <4>1. q.state = "HTTP_PARSE_HEADERS" /\ Body(t, parseHeaders(t, q)) = tq
        BY <2>1, <2>3, <2>4, <3>2 DEF InPlace
      <4>2. CaseStatus(t, q) = q
        BY <4>1 DEF CaseStatus
      <4> QED BY <1>6, <3>2, <4>1, <4>2 DEF CaseHeaders
    <3> QED BY <3>1, <3>2
  <2> QED BY <1>2, <2>1, <2>3, <2>4 DEF f
<1> QED BY <1>7, <1>8

\* A parser that has kept its place in s ends, with t, where a new one ends.
LEMMA ParseResumed ==
  ASSUME NEW s \in Seq(Bytes), NEW t \in Seq(Bytes), Prefix(s, t), NEW code, NEW kind
  PROVE  LET q == Parse(kind, s, Fresh(code))
         IN q.state # "HTTP_INIT" /\ (InPlace(code, q) => Parse(kind, t, q) = Parse(kind, t, Fresh(code)))
<1>1. CASE kind = "request"
  BY <1>1, RequestResumed
<1>2. CASE kind # "request"
  BY <1>2, ResponseResumed
<1> QED BY <1>1, <1>2

-----------------------------------------------------------------------------
(* The specification. *)

\* The invariant: besides what WithinInput says, the length of the method is a
\* number and HeadersOffset is 0 until a line is read, where the loops begin.
HTTPInv ==
  /\ msg \in Messages
  /\ got \in 0 .. Len(msg.bytes)
  /\ ParserSafe(p, got)

LEMMA HTTPInvImplies == HTTPInv => WithinInput
<1> SUFFICES ASSUME HTTPInv PROVE WithinInput
  OBVIOUS
<1>1. \A f \in DOMAIN p.fields : 0 <= p.fields[f][1] /\ p.fields[f][1] <= p.fields[f][2] /\ p.fields[f][2] <= got
  <2>1. \A f \in DOMAIN p.fields : /\ p.fields[f][1] \in Nat
                                   /\ p.fields[f][1] <= p.fields[f][1 + 1]
                                   /\ p.fields[f][1 + 1] <= got
    BY DEF HTTPInv, ParserSafe, FieldsWithin
  <2>2. \A f \in DOMAIN p.fields : p.fields[f][1] \in Nat => 0 <= p.fields[f][1]
    OBVIOUS
  <2> QED BY <2>1, <2>2
<1>2. got \in Nat
  <2>1. Len(msg.bytes) \in Nat
    BY MessagesAssumption DEF HTTPInv
  <2> QED BY <2>1 DEF HTTPInv
<1>3. p.off <= got /\ (p.state = "HTTP_HEADER_DONE" => p.body < got)
  BY <1>2 DEF HTTPInv, ParserSafe
<1> QED BY <1>1, <1>3 DEF WithinInput

LEMMA HTTPInvHolds == Init => HTTPInv
<1> SUFFICES ASSUME Init PROVE HTTPInv
  OBVIOUS
<1>1. msg \in Messages /\ got = 0 /\ p = Fresh(junk)
  BY DEF Init
<1>2. Len(msg.bytes) \in Nat
  BY <1>1, MessagesAssumption
<1>3. /\ DOMAIN p = Members /\ p.size = 0 /\ p.off = 0 /\ p.fields = <<>> /\ p.state = "HTTP_INIT"
  BY <1>1 DEF Fresh, Members
<1>4. ParserSafe(p, 0)
  BY <1>3, NoField DEF ParserSafe
<1> QED BY <1>1, <1>2, <1>4 DEF HTTPInv

\* A step gives the parser as many bytes as before or more.
LEMMA ReceiveHanded ==
  ASSUME HTTPInv, NEW n \in got .. Len(msg.bytes), Receive(n)
  PROVE  HTTPInv' /\ p.off <= p'.off
<1> DEFINE in == SubSeq(msg.bytes, 1, n)
<1>1. msg \in Messages /\ msg.bytes \in Seq(Bytes) /\ Len(msg.bytes) \in Nat
  BY MessagesAssumption DEF HTTPInv
<1>2. got \in Nat /\ n \in Nat /\ got <= n /\ n <= Len(msg.bytes)
  BY <1>1 DEF HTTPInv
<1>3. in \in Seq(Bytes) /\ Len(in) = n
  <2>1. 1 \in 1 .. Len(msg.bytes) + 1 /\ n \in 1 - 1 .. Len(msg.bytes)
    BY <1>1, <1>2
  <2> QED BY <1>1, <1>2, <2>1, SubSeqProperties
<1>4. ParserSafe(p, n)
  <2>1. ParserSafe(p, got)
    BY DEF HTTPInv
  <2> QED BY <1>2, <2>1, FieldsStay DEF ParserSafe
<1>5. got' = n /\ p' = Parse(msg.kind, in, p) /\ msg' = msg
  BY DEF Receive
<1> HIDE DEF in
<1>6. Handed(p, p', n)
  BY <1>3, <1>4, <1>5, ParseHanded
<1> QED BY <1>1, <1>2, <1>5, <1>6 DEF HTTPInv, Handed, ParserSafe

LEMMA HTTPInvInductive == HTTPInv /\ [Next]_vars => HTTPInv'
<1> SUFFICES ASSUME HTTPInv, [Next]_vars PROVE HTTPInv'
  OBVIOUS
<1>1. CASE Next
  BY <1>1, ReceiveHanded DEF Next
<1>2. CASE UNCHANGED vars
  BY <1>2 DEF vars, HTTPInv
<1> QED BY <1>1, <1>2

LEMMA HTTPInvAlways == Spec => []HTTPInv
BY HTTPInvHolds, HTTPInvInductive, PTL DEF Spec

\* Whatever is sent and however it is cut, no StringRef and no offset that the
\* parsers keep reaches behind the bytes received, and the body they announce
\* has a first byte (HTTPRequest.cpp:537-554, HTTPHeader.cpp:192-208).
THEOREM ParsersStayWithin == Spec => []WithinInput
BY HTTPInvAlways, HTTPInvImplies, PTL

\* However a message is cut, HeadersOffset never goes back: no call reads a
\* header again that an earlier call stored (HTTPRequest.cpp:688-697).
THEOREM HeadersGoOn == Spec => [][p.off <= p'.off]_vars
<1>1. HTTPInv /\ [Next]_vars => [p.off <= p'.off]_vars
  <2> SUFFICES ASSUME HTTPInv, Next PROVE p.off <= p'.off
    OBVIOUS
  <2> QED BY ReceiveHanded DEF Next
<1> QED BY <1>1, HTTPInvAlways, PTL DEF Spec

-----------------------------------------------------------------------------
(* Cutting a message. *)

LEMMA PrefixOfMessage ==
  ASSUME NEW m \in Seq(Bytes), NEW k \in Nat, NEW n \in Nat, k <= n, n <= Len(m)
  PROVE  /\ SubSeq(m, 1, k) \in Seq(Bytes) /\ SubSeq(m, 1, n) \in Seq(Bytes)
         /\ Prefix(SubSeq(m, 1, k), SubSeq(m, 1, n))
<1> DEFINE s == SubSeq(m, 1, k)
           t == SubSeq(m, 1, n)
<1>1. Len(m) \in Nat /\ k <= Len(m)
  OBVIOUS
<1>2. 1 \in 1 .. Len(m) + 1 /\ k \in 1 - 1 .. Len(m) /\ n \in 1 - 1 .. Len(m)
  BY <1>1
<1>3. s \in Seq(Bytes) /\ Len(s) = k - 1 + 1 /\ \A i \in 1 .. k - 1 + 1 : s[i] = m[1 + i - 1]
  BY <1>2, SubSeqProperties
<1>4. t \in Seq(Bytes) /\ Len(t) = n - 1 + 1 /\ \A i \in 1 .. n - 1 + 1 : t[i] = m[1 + i - 1]
  BY <1>2, SubSeqProperties
<1> HIDE DEF s, t
<1>5. k - 1 + 1 = k /\ n - 1 + 1 = n
  OBVIOUS
<1>6. Prefix(s, t)
  BY <1>3, <1>4, <1>5 DEF Prefix
<1> QED BY <1>3, <1>4, <1>6 DEF s, t

\* The invariant: while the parser has kept its place, it is new, or it is what
\* one call makes of a new one.
ResumeInv ==
  ~early /\ ~spoiled =>
    IF p.state = "HTTP_INIT" THEN p = Fresh(junk) ELSE p = Parse(msg.kind, Input, Fresh(junk))

LEMMA ResumeInvHolds == Init => ResumeInv
<1> SUFFICES ASSUME Init PROVE ResumeInv
  OBVIOUS
<1>1. p = Fresh(junk)
  BY DEF Init
<1>2. p.state = "HTTP_INIT"
  BY <1>1 DEF Fresh
<1> QED BY <1>1, <1>2 DEF ResumeInv

LEMMA ResumeInvReceive ==
  ASSUME HTTPInv, ResumeInv, NEW n \in got .. Len(msg.bytes), Receive(n)
  PROVE  ResumeInv'
<1> DEFINE s == SubSeq(msg.bytes, 1, got)
           t == SubSeq(msg.bytes, 1, n)
           new == Fresh(junk)
<1>1. SUFFICES ASSUME ~early', ~spoiled'
      PROVE  p'.state # "HTTP_INIT" /\ p' = Parse(msg.kind, t, new)
  BY DEF ResumeInv, Input, Receive
<1>2. p' = Parse(msg.kind, t, p) /\ ~early /\ ~spoiled /\ InPlace(junk, p)
  BY <1>1 DEF Receive, InPlace
<1>3. msg \in Messages /\ msg.bytes \in Seq(Bytes) /\ Len(msg.bytes) \in Nat /\ got \in Nat /\ n \in Nat
      /\ got <= n /\ n <= Len(msg.bytes)
  <2>1. msg.bytes \in Seq(Bytes) /\ got \in 0 .. Len(msg.bytes) /\ msg \in Messages
    BY MessagesAssumption DEF HTTPInv
  <2> QED BY <2>1
<1>4. s \in Seq(Bytes) /\ t \in Seq(Bytes) /\ Prefix(s, t) /\ Prefix(t, t)
  <2>1. n <= n
    BY <1>3
  <2> QED BY <1>3, <2>1, PrefixOfMessage
<1>5. p.state = "HTTP_INIT" => p = new
  BY <1>2 DEF ResumeInv
<1>6. p.state # "HTTP_INIT" => p = Parse(msg.kind, s, new)
  BY <1>2 DEF ResumeInv, Input
<1> HIDE DEF s, t
<1>7. Parse(msg.kind, t, new).state # "HTTP_INIT"
  BY <1>4, ParseResumed
<1>8. InPlace(junk, Parse(msg.kind, s, new)) =>
        Parse(msg.kind, t, Parse(msg.kind, s, new)) = Parse(msg.kind, t, new)
  BY <1>4, ParseResumed
<1> HIDE DEF new
<1> QED BY <1>2, <1>5, <1>6, <1>7, <1>8

LEMMA ResumeInvAlways == Spec => []ResumeInv
<1>1. HTTPInv /\ ResumeInv /\ [Next]_vars => ResumeInv'
  <2> SUFFICES ASSUME HTTPInv, ResumeInv, [Next]_vars PROVE ResumeInv'
    OBVIOUS
  <2>1. CASE Next
    BY <2>1, ResumeInvReceive DEF Next
  <2>2. CASE UNCHANGED vars
    BY <2>2 DEF vars, ResumeInv, Input
  <2> QED BY <2>1, <2>2
<1> QED BY <1>1, HTTPInvAlways, ResumeInvHolds, PTL DEF Spec

\* Whatever is sent and wherever it is cut, State, HeadersOffset and the fields
\* kept between the calls are enough to go on from: the parser is in the state
\* in which one call with all of the bytes leaves a new one (HTTPRequest.cpp:703-726,
\* HTTPResponse.cpp:202-220).  Excepted are an answer 0 before there is a body,
\* and digits of a status line that is read again.
THEOREM ResumingIsRestarting == Spec => []ResumeIsRestart
<1>1. ResumeInv => ResumeIsRestart
  BY DEF ResumeInv, ResumeIsRestart
<1> QED BY <1>1, ResumeInvAlways, PTL

=============================================================================
