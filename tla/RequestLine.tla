------------------------------ MODULE RequestLine ------------------------------
(* HTTPRequest.cpp: the method, the request line, and the target by itself.    *)
EXTENDS ByteAutomata

\* Every text is followed by a NUL, which is the byte read at or behind its end
ByteAt(in, k) == IF k < Len(in) THEN in[k + 1] ELSE "NUL"

\* parseMethod: the words by their length.  A word of four letters with an O in
\* the middle needs no other match, and leaves Method as it was
Word == {"GET", "PUT", "POST", "COPY", "MOVE", "LOCK", "HEAD", "MKCOL", "PATCH", "TRACE",
         "DELETE", "UNLOCK", "OPTIONS", "PROPFIND", "PROPPATCH"}

MethodWord(text, method) ==
    IF \E w \in Word : Chars(w) = text
    THEN [answer |-> "OK", size |-> Len(text), method |-> CHOOSE w \in Word : Chars(w) = text]
    ELSE IF Len(text) = 4 /\ text[2] = "O" THEN [answer |-> "OK", size |-> 4, method |-> method]
    ELSE [answer |-> IF Len(text) = 3 THEN "EINVAL" ELSE "EFAULT"]

parseMethod(in, method) ==
    LET first == CHOOSE k \in 0..Len(in) : /\ \A j \in 0..(k - 1) : ByteAt(in, j) \in {CR, LF}
                                           /\ ByteAt(in, k) \notin {CR, LF}
        space == {k \in 3..9 : ByteAt(in, first + k) = " " /\ (k = 3 \/ Len(in) > k + 1)}
        size == CHOOSE k \in space : \A j \in space : k <= j
    IN IF first < Len(in) /\ in[first + 1] \notin CharSet(UpperText) \cup {"_", "-"}
       THEN [answer |-> "EFAULT"]
       ELSE IF Len(in) - first < 5 THEN [answer |-> "EAGAIN"]
       ELSE IF space = {} THEN [answer |-> "EFAULT"]
       ELSE MethodWord(Text(in, first, first + size), method)

-------------------------------------------------------------------------------
\* parseRequestline: HTTPMinor becomes 9 where the line ends without a version
Nine(r) == Put([minor |-> 9], r)
\* What may follow the target: the end of the line, or the version
AfterTarget(st) ==
    {Go({" "}, st), Nine(Go({CR}, "RL_ALMOSTDONE")),
     Nine(At([RequestLineEnd |-> 1], Go({LF}, "DONE"))),
     At([HTTPStart |-> 0], Go({"H"}, "RL_HTTP_H"))}

SchemeRules ==
    [RL_SPACEBEFOREURI |->
       {At([URIStart |-> 0], Go({"/"}, "RL_AFTERSLASHINURI")),
        At([SchemeStart |-> 0], Go(Alpha, "RL_SCHEMA")), Go({" "}, "RL_SPACEBEFOREURI")},
     RL_SCHEMA |->
       {Go(Alpha \cup Digit \cup {"+", "-", "."}, "RL_SCHEMA"),
        At([SchemeEnd |-> 0], Go({":"}, "RL_SCHEMASLASH"))},
     RL_SCHEMASLASH |-> {Go({"/"}, "RL_SCHEMASLASHSLASH")},
     RL_SCHEMASLASHSLASH |-> {Go({"/"}, "RL_HOSTSTART")}]

HostEndRules ==
    {At([HostEnd |-> 0], r) : r \in
       {At([PortStart |-> 1], Go({":"}, "RL_PORT")),
        At([URIStart |-> 0], Go({"/"}, "RL_AFTERSLASHINURI")),
        At([URIStart |-> 1, URIEnd |-> 2], Go({" "}, "RL_CHECKURIHTTP09"))}}
\* CR | 0x20 is '-': a CR passes for a byte of the host
InHost == {Go(Alpha \cup Digit \cup {".", "-", CR}, "RL_HOST")} \cup HostEndRules

HostRules ==
    [RL_HOSTSTART |->
       {At([HostStart |-> 0], r) : r \in InHost \cup {Go({"["}, "RL_HOSTIPLITERIAL")}},
     RL_HOST |-> InHost,
     RL_HOSTEND |-> HostEndRules,
     RL_HOSTIPLITERIAL |->
       {Go(Alpha \cup Digit \cup {":", "-", ".", "_", "~"}, "RL_HOSTIPLITERIAL"),
        At([HostEnd |-> 1], Go({"]"}, "RL_HOSTEND"))},
     RL_PORT |->
       {Go(Digit, "RL_PORT"),
        At([PortEnd |-> 0, URIStart |-> 0], Go({"/"}, "RL_AFTERSLASHINURI")),
        At([PortEnd |-> 0, URIStart |-> 1, URIEnd |-> 2], Go({" "}, "RL_HOSTHTTP09"))},
     RL_HOSTHTTP09 |-> AfterTarget("RL_HOSTHTTP09")]

\* Bytes after which the target needs another look
ToURI == {Flag("QuotedURI", Go({"%"}, "RL_URI")), Flag("ComplexURI", Go({"#"}, "RL_URI")),
          At([ArgumentStart |-> 1], Go({"?"}, "RL_URI"))}

URIRules ==
    [RL_AFTERSLASHINURI |->
       ToURI \cup
       {Go(usual, "RL_CHECKURI"), Flag("ComplexURI", Go({".", "/"}, "RL_URI")),
        Flag("PlusInURI", Go({"+"}, "RL_AFTERSLASHINURI")),
        At([URIEnd |-> 0], Go({" "}, "RL_CHECKURIHTTP09")),
        Nine(At([URIEnd |-> -1], Go({CR}, "RL_ALMOSTDONE"))),
        Nine(At([URIEnd |-> -2, RequestLineEnd |-> 1], Go({LF}, "DONE")))},
     RL_CHECKURI |->
       ToURI \cup
       {Go(usual \cup {"."}, "RL_CHECKURI"), Go({"/"}, "RL_AFTERSLASHINURI"),
        Flag("PlusInURI", Go({"+"}, "RL_CHECKURI")),
        At([URIEnd |-> 0], Go({" "}, "RL_CHECKURIHTTP09")),
        Nine(At([URIEnd |-> 0], Go({CR}, "RL_ALMOSTDONE"))),
        \* RequestLineEnd stays where it is
        Nine(At([URIEnd |-> 0], Go({LF}, "DONE")))},
     RL_URI |->
       {Go(usual \cup {"%", "+", ".", "/"}, "RL_URI"), Flag("ComplexURI", Go({"#"}, "RL_URI")),
        At([ArgumentStart |-> 1], Go({"?"}, "RL_URI")),
        At([URIEnd |-> 0], Go({" "}, "RL_HTTP09")),
        Nine(At([URIEnd |-> 0], Go({CR}, "RL_ALMOSTDONE"))),
        At([URIEnd |-> 0, RequestLineEnd |-> 1], Go({LF}, "DONE"))}]

\* A space that no version follows belongs to the target
SpaceRules ==
    LET again(st) == Flag("SpaceInURI", Back(Go(Bytes \ {" ", "H", CR, LF}, st)))
    IN [RL_CHECKURIHTTP09 |-> AfterTarget("RL_CHECKURIHTTP09") \cup {again("RL_CHECKURI")},
        RL_HTTP09 |-> AfterTarget("RL_HTTP09") \cup {again("RL_URI")}]

\* A major version that is not 1 is refused at its first or second digit
VersionRules ==
    [RL_HTTP_H |-> {Go({"T"}, "RL_HTTP_HT")},
     RL_HTTP_HT |-> {Go({"T"}, "RL_HTTP_HTT")},
     RL_HTTP_HTT |-> {Go({"P"}, "RL_HTTP_HTTP")},
     RL_HTTP_HTTP |-> {Go({"/"}, "RL_FIRSTMAJORDIGIT")},
     RL_FIRSTMAJORDIGIT |-> {First("major", Go({"1"}, "RL_MAJORDIGIT"))},
     RL_MAJORDIGIT |-> {Go({"."}, "RL_FIRSTMINORDIGIT")},
     RL_FIRSTMINORDIGIT |-> {First("minor", Go(Digit, "RL_MINORDIGIT"))},
     RL_MINORDIGIT |->
       {At([HTTPEnd |-> 0], Go({CR}, "RL_ALMOSTDONE")),
        At([HTTPEnd |-> -1, RequestLineEnd |-> 1], Go({LF}, "DONE")),
        Go({" "}, "RL_SPACEAFTERDIGIT"),
        At([HTTPEnd |-> 1], More("minor", 99, Go(Digit, "RL_MINORDIGIT")))},
     RL_SPACEAFTERDIGIT |->
       {Go({" "}, "RL_SPACEAFTERDIGIT"), Go({CR}, "RL_ALMOSTDONE"),
        At([RequestLineEnd |-> 1], Go({LF}, "DONE"))},
     RL_ALMOSTDONE |-> {At([RequestLineEnd |-> 1], Go({LF}, "DONE"))}]

LineRules == SchemeRules @@ HostRules @@ URIRules @@ SpaceRules @@ VersionRules

LineStep(in, a) == Step(LineRules, a, in[a.i + 1])
LineRun(in, a) == Run(LineStep, in, a)

LineMarks == {"ArgumentStart", "RequestLineEnd", "SchemeStart", "SchemeEnd", "HostStart", "HostEnd",
              "PortStart", "PortEnd", "HTTPStart", "HTTPEnd", "URIStart", "URIEnd"}

\* The fields between the marks m; a field whose end is before its start keeps
\* what it had
LineFields(m, had) ==
    LET part(name, from, to) == IF to >= from THEN name :> <<from, to>> ELSE <<>>
    IN part("RequestLine", 0, m.RequestLineEnd) @@ part("Scheme", m.SchemeStart, m.SchemeEnd)
       @@ part("Host", m.HostStart, m.HostEnd) @@ part("Port", m.PortStart, m.PortEnd)
       @@ part("Protocol", m.HTTPStart, m.HTTPEnd) @@ part("URI", m.URIStart, m.URIEnd)
       @@ (IF m.ArgumentStart > m.URIStart THEN part("Argument", m.ArgumentStart, m.URIEnd) ELSE <<>>)
       @@ had

\* The answer for the automaton a, where it stopped
LineAnswer(in, a, method, had) ==
    LET version == a.numbers.major * 1000 + a.numbers.minor
    IN IF a.st # "DONE" \/ a.marks.RequestLineEnd >= Len(in)
       THEN [answer |-> IF a.st = "BAD" THEN "EFAULT" ELSE "EAGAIN", flags |-> a.flags]
       ELSE [answer |-> IF version = 9 /\ method # "GET" THEN "EFAULT" ELSE "OK",
             flags |-> a.flags, fields |-> LineFields(a.marks, had), version |-> version]

\* parseRequestline: it begins behind as many bytes as the method has
parseRequestline(in, size, method, had) ==
    LineAnswer(in, LineRun(in, Start("RL_SPACEBEFOREURI", size, LineMarks, [major |-> 0, minor |-> 0])),
               method, had)

-------------------------------------------------------------------------------
\* parseRequestURI: the flags of a target by itself (no caller in the library)
TargetRules ==
    LET uri == {Flag("QuotedURI", Go({"%"}, "URI_URI")), Flag("ComplexURI", Go({"#"}, "URI_URI")),
                At([ArgumentStart |-> 1], Go({"?"}, "URI_URI"))}
    IN [URI_START |-> {Go({"/"}, "URI_AFTER_SLASH_IN_URI")},
        URI_AFTER_SLASH_IN_URI |->
          uri \cup {Go(usual \cup {CR, LF}, "URI_CHECK_URI"),
                    Flag("SpaceInURI", Go({" "}, "URI_CHECK_URI")),
                    Flag("ComplexURI", Go({".", "/"}, "URI_URI")),
                    Flag("PlusInURI", Go({"+"}, "URI_AFTER_SLASH_IN_URI"))},
        URI_CHECK_URI |->
          uri \cup {Go(usual \cup {".", CR, LF}, "URI_CHECK_URI"),
                    Go({"/"}, "URI_AFTER_SLASH_IN_URI"),
                    Flag("SpaceInURI", Go({" "}, "URI_CHECK_URI")),
                    Flag("PlusInURI", Go({"+"}, "URI_CHECK_URI"))},
        \* Its test of usual shifts by 31 more, so only a space and a # matter
        URI_URI |->
          {Flag("SpaceInURI", Go({" "}, "URI_URI")), Flag("ComplexURI", Go({"#"}, "URI_URI")),
           Go(Bytes \ {" ", "#"}, "URI_URI")}]

TargetStep(in, a) == Step(TargetRules, a, in[a.i + 1])
TargetRun(in, a) == Run(TargetStep, in, a)

parseRequestURI(in) == TargetRun(in, Start("URI_START", 0, {"ArgumentStart"}, <<>>))
===============================================================================
