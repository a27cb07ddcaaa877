----------------------------- MODULE ResponseLine -----------------------------
(* HTTPResponse.cpp: the status line.                                          *)
EXTENDS ByteAutomata

NonZero == Digit \ {"0"}
NoLimit == 10000000

ResponseRules ==
    [RL_START |-> {Go({"H"}, "RL_H")},
     RL_H |-> {Go({"T"}, "RL_HT")},
     RL_HT |-> {Go({"T"}, "RL_HTT")},
     RL_HTT |-> {Go({"P"}, "RL_HTTP")},
     RL_HTTP |-> {Go({"/"}, "RL_FIRST_MAJOR_DIGIT")},
     RL_FIRST_MAJOR_DIGIT |-> {First("major", Go(NonZero, "RL_MAJOR_DIGIT"))},
     RL_MAJOR_DIGIT |->
       {Go({"."}, "RL_FIRST_MINOR_DIGIT"), More("major", 99, Go(NonZero, "RL_MAJOR_DIGIT"))},
     RL_FIRST_MINOR_DIGIT |-> {First("minor", Go(NonZero, "RL_MINOR_DIGIT"))},
     RL_MINOR_DIGIT |->
       {At([StatusCodeStart |-> 1], Go({" "}, "RL_STATUS")),
        More("minor", 99, Go(NonZero, "RL_MINOR_DIGIT"))},
     RL_STATUS |->
       {Go({" "}, "RL_STATUS"),
        At([StatusCodeEnd |-> 1], More("status", NoLimit, Go(Digit, "RL_STATUS")))},
     RL_SPACE_AFTER_STATUS |->
       {At([StatusTextStart |-> 1], Go({" ", "."}, "RL_STATUS_TEXT")), Go({CR}, "RL_ALMOST_DONE"),
        At([StatusLineEnd |-> 0], Go({LF}, "DONE"))},
     RL_STATUS_TEXT |->
       {At([StatusTextEnd |-> 0], Go({CR}, "RL_ALMOST_DONE")),
        \* A LF without CR ends the code where the text should end
        At([StatusCodeEnd |-> -1, StatusLineEnd |-> 0], Go({LF}, "DONE")),
        Go(Bytes \ {CR, LF}, "RL_STATUS_TEXT")},
     RL_ALMOST_DONE |-> {At([StatusLineEnd |-> 0], Go({LF}, "DONE"))}]

\* The code ends with its third byte, or above 999
ResponseStep(in, a) ==
    LET c == in[a.i + 1]
        b == Step(ResponseRules, a, c)
    IN IF /\ a.st = "RL_STATUS" /\ b.st = "RL_STATUS" /\ c \in Digit
          /\ \/ b.marks.StatusCodeEnd - b.marks.StatusCodeStart = 3
             \/ b.numbers.status > 999
       THEN [b EXCEPT !.st = "RL_SPACE_AFTER_STATUS"] ELSE b

ResponseRun(in, a) == Run(ResponseStep, in, a)

ResponseMarks == {"StatusCodeStart", "StatusCodeEnd", "StatusTextStart", "StatusTextEnd",
                  "StatusLineStart", "StatusLineEnd"}

\* The answer for the automaton a, where it stopped
StatusAnswer(in, a, had) ==
    LET m == a.marks
        part(name, from, to, more) == IF to > from THEN name :> <<from, to + more>> ELSE <<>>
    IN IF a.st # "DONE" \/ a.i + 1 >= Len(in)
       THEN [answer |-> IF a.st # "DONE" THEN "EINVAL" ELSE "EAGAIN", code |-> a.numbers.status]
       ELSE [answer |-> "OK", code |-> a.numbers.status,
             version |-> a.numbers.major * 1000 + a.numbers.minor,
             fields |-> part("StatusCodeStr", m.StatusCodeStart, m.StatusCodeEnd, 0)
                     @@ part("StatusText", m.StatusTextStart, m.StatusTextEnd, 0)
                     @@ part("StatusLine", m.StatusLineStart, m.StatusLineEnd, 1) @@ had]

\* parseResponseline: StatusCode goes on from the value it has, and keeps what
\* the digits of an unfinished line made of it
parseResponseline(in, code, had) ==
    StatusAnswer(in, ResponseRun(in, Start("RL_START", 0, ResponseMarks,
                                           [major |-> 0, minor |-> 0, status |-> code])), had)
===============================================================================
