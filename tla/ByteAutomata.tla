----------------------------- MODULE ByteAutomata -----------------------------
(* The loops over switch (State) with which libNGX reads HTTP, as tables.  A   *)
(* byte is a string of one character, CR or LF; a text is a sequence of bytes, *)
(* and a position in it is the offset the code has in it: the byte at offset   *)
(* i is in[i + 1].  NUL, which ends every loop like the end of the text, the   *)
(* bytes above 0x7f, which index tables with a negative char, and the rest of  *)
(* ASCII, which every automaton takes for bytes that occur here, do not occur  *)
EXTENDS Integers, Sequences

\* A function that maps one value, and a function f laid over g
x :> y == [k \in {x} |-> y]
f @@ g == [k \in DOMAIN f \cup DOMAIN g |-> IF k \in DOMAIN f THEN f[k] ELSE g[k]]

CR == "CR"
LF == "LF"
Chars(s) == [k \in 1..Len(s) |-> SubSeq(s, k, k)]
CharSet(s) == {SubSeq(s, k, k) : k \in 1..Len(s)}
Newline == <<CR, LF>>

LowerText == "abcdefghijklmnopqrstuvwxyz"
UpperText == "ABCDEFGHIJKLMNOPQRSTUVWXYZ"
Alpha == CharSet(LowerText) \cup CharSet(UpperText)
Digit == CharSet("0123456789")
Bytes == Alpha \cup Digit \cup CharSet(" !\"#$%&'()*+,-./:;<=>?@[\\]^_{|}~") \cup {CR, LF}

\* common_header.h: the bytes of a URI that need no look
usual == Bytes \ (CharSet(" #%+./?") \cup {CR, LF})

ValueOf(c) == (CHOOSE k \in 1..10 : SubSeq("0123456789", k, k) = c) - 1

\* Hash.h: the table lower_case, applied where it is not zero
LowerFn == [c \in Bytes |-> IF \E k \in 1..26 : SubSeq(UpperText, k, k) = c
                            THEN LET k == CHOOSE k \in 1..26 : SubSeq(UpperText, k, k) = c
                                 IN SubSeq(LowerText, k, k)
                            ELSE c]
LowerCase(text) == [k \in 1..Len(text) |-> LowerFn[text[k]]]
\* Hash.h: the bytes whose lower_case is not zero
Named == Alpha \cup Digit \cup {"-"}

-------------------------------------------------------------------------------
\* One case of a switch: on the bytes `on` the automaton goes to `to`.  Marks
\* are positions relative to the byte; digit is a number that takes the byte
\* (over = -1: as its first digit), refused when it was above over before
Go(on, to) == [on |-> on, to |-> to, marks |-> <<>>, flags |-> {}, put |-> <<>>,
               digit |-> "", over |-> -1, back |-> FALSE]
At(marks, r) == [r EXCEPT !.marks = marks @@ @]
Flag(f, r) == [r EXCEPT !.flags = @ \cup {f}]
Put(numbers, r) == [r EXCEPT !.put = numbers]
First(name, r) == [r EXCEPT !.digit = name]
More(name, over, r) == [r EXCEPT !.digit = name, !.over = over]
Back(r) == [r EXCEPT !.back = TRUE]

Ends == {"DONE", "BAD", "NOMORE"}

\* An automaton at offset i, all of its marks there
Start(st, i, marks, numbers) ==
    [st |-> st, i |-> i, marks |-> [k \in marks |-> i], flags |-> {}, numbers |-> numbers]

Fire(r, a, c) ==
    LET read == IF r.digit = "" THEN <<>>
                ELSE r.digit :> (IF r.over = -1 THEN 0 ELSE 10 * a.numbers[r.digit]) + ValueOf(c)
    IN IF r.digit # "" /\ r.over # -1 /\ a.numbers[r.digit] > r.over
       THEN [a EXCEPT !.st = "BAD"]
       ELSE [st |-> r.to,
             i |-> IF r.back \/ r.to \in Ends THEN a.i ELSE a.i + 1,
             marks |-> [k \in DOMAIN r.marks |-> a.i + r.marks[k]] @@ a.marks,
             flags |-> a.flags \cup r.flags,
             numbers |-> r.put @@ read @@ a.numbers]

\* One turn of the loop
Step(table, a, c) ==
    LET fits == {r \in table[a.st] : c \in r.on}
    IN IF fits = {} THEN [a EXCEPT !.st = "BAD"] ELSE Fire(CHOOSE r \in fits : TRUE, a, c)

\* The loop, byte by byte, until an end or the end of the text.  After a turn
\* that goes back, the next one reads the same byte
Read(turn(_, _), in, a) ==
    LET b == turn(in, a)
    IN IF b.i = a.i /\ b.st \notin Ends THEN turn(in, b) ELSE b
Run(turn(_, _), in, start) ==
    LET run[k \in start.i..Len(in)] ==
          IF k = start.i THEN start
          ELSE LET a == run[k - 1] IN IF a.st \in Ends THEN a ELSE Read(turn, in, a)
    IN IF start.i < Len(in) THEN run[Len(in)] ELSE start

\* The text between two marks
Text(in, from, to) == SubSeq(in, from + 1, to)
===============================================================================
