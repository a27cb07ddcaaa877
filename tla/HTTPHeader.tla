------------------------------ MODULE HTTPHeader ------------------------------
(* HTTPHeader.cpp: one line of a header block, and the line written back.      *)
(* A name is known by its lower-case text: two names have the same             *)
(* murmurhash2(_, true) exactly when they differ in case only (the hash is     *)
(* taken to be free of collisions)                                             *)
EXTENDS ByteAutomata

ConstCoreHeader ==
    {"Host", "Connection", "If-Modified-Since", "If-Unmodified-Since", "If-Match",
     "If-None-Match", "UserAgent", "Referer", "Content-Length", "Content-Range",
     "Content-Type", "Range", "If-Range", "Transfer-Encoding", "TE", "Expect", "Upgrade",
     "Accept-Encoding", "Via", "Authorization", "Keep-Alive", "X-Forward-For", "X-Real-IP",
     "Accept", "Accept-Language", "Depth", "Destination", "Overwrite", "Date", "Cookie"}

CoreHeaderMap == [key \in {LowerCase(Chars(h)) : h \in ConstCoreHeader} |->
                    Chars(CHOOSE h \in ConstCoreHeader : LowerCase(Chars(h)) = key)]

\* A core header is known by its own spelling, whatever the message has
replaceCoreHeader(name) ==
    LET key == LowerCase(name)
    IN IF key \in DOMAIN CoreHeaderMap THEN CoreHeaderMap[key] ELSE name

HeaderRules ==
    [HDR_START |->
       LET here == [HeaderStart |-> 0, ValueStart |-> 0]
       IN {At(here @@ [ValueEnd |-> 0], Go({CR}, "HDR_HEADER_ALMOST_DONE")),
           At(here @@ [ValueEnd |-> 0], Go({LF}, "DONE")),
           At(here, Go(Named \cup {"_"}, "HDR_NAME"))},
     HDR_NAME |->
       LET bare == [HeaderEnd |-> 0, ValueStart |-> 0, ValueEnd |-> 0]
       IN {Go(Named \cup {"_"}, "HDR_NAME"),
           At([HeaderEnd |-> 0], Go({":"}, "HDR_SPACE_BEFORE_VALUE")),
           At(bare, Go({CR}, "HDR_ALMOST_DONE")),
           At(bare, Go({LF}, "DONE")),
           Go({"/"}, "HDR_IGNORE_LINE")},
     HDR_SPACE_BEFORE_VALUE |->
       LET none == [ValueStart |-> 0, ValueEnd |-> 0]
       IN {Go({" "}, "HDR_SPACE_BEFORE_VALUE"),
           At(none, Go({CR}, "HDR_ALMOST_DONE")),
           At(none, Go({LF}, "DONE")),
           At([ValueStart |-> 0], Go(Bytes \ {" ", CR, LF}, "HDR_VALUE"))},
     HDR_VALUE |->
       {At([ValueEnd |-> 0], Go({" "}, "HDR_SPACE_AFTER_VALUE")),
        At([ValueEnd |-> 0], Go({CR}, "HDR_ALMOST_DONE")),
        At([ValueEnd |-> 0], Go({LF}, "DONE")),
        Go(Bytes \ {" ", CR, LF}, "HDR_VALUE")},
     HDR_SPACE_AFTER_VALUE |->
       {Go({" "}, "HDR_SPACE_AFTER_VALUE"), Go({CR}, "HDR_ALMOST_DONE"), Go({LF}, "DONE"),
        Go(Bytes \ {" ", CR, LF}, "HDR_VALUE")},
     HDR_IGNORE_LINE |-> {Go({LF}, "HDR_START"), Go(Bytes \ {LF}, "HDR_IGNORE_LINE")},
     HDR_ALMOST_DONE |-> {Go({LF}, "DONE"), Go({CR}, "HDR_ALMOST_DONE")},
     HDR_HEADER_ALMOST_DONE |-> {Go({LF}, "NOMORE")}]

\* A line may only be ignored when it begins like a status line; with a slash
\* among the first four bytes it does not
HeaderStep(in, a) ==
    LET begins == a.marks.HeaderStart
        isStatus == begins + 4 <= a.i /\ Text(in, begins, begins + 4) = Chars("HTTP")
    IN IF a.st = "HDR_NAME" /\ in[a.i + 1] = "/" /\ ~isStatus
       THEN [a EXCEPT !.st = "BAD"] ELSE Step(HeaderRules, a, in[a.i + 1])

HeaderRun(in, a) == Run(HeaderStep, in, a)

\* The offset after a line that is not complete; a bug: what was read is skipped
UnfinishedSkips(off, a) == a.i
Unfinished(off, a) == off

\* What the automaton a, where it stopped, answers, the offset it leaves, the header
HeaderAnswer(in, off, a) ==
    LET m == a.marks
        fails(code) == [answer |-> code, off |-> off]
    IN CASE a.st = "NOMORE" -> [answer |-> "ENOENT", off |-> off + 2]
         [] a.st = "BAD" -> fails("EINVAL")
         [] a.st \notin Ends -> [answer |-> "EAGAIN", off |-> Unfinished(off, a)]
         [] a.st = "DONE" ->
              IF m.HeaderEnd <= m.HeaderStart \/ m.ValueEnd <= m.ValueStart THEN fails("EINVAL")
              ELSE [answer |-> "OK", off |-> a.i + 1,
                    name |-> replaceCoreHeader(Text(in, m.HeaderStart, m.HeaderEnd)),
                    value |-> Text(in, m.ValueStart, m.ValueEnd)]

\* HTTPHeader::parse
ParseHeader(in, off) ==
    HeaderAnswer(in, off, HeaderRun(in, Start("HDR_START", off,
                              {"HeaderStart", "HeaderEnd", "ValueStart", "ValueEnd"}, <<>>)))

\* HTTPHeader::write
WriteHeader(h) ==
    IF h.name # <<>> /\ h.value # <<>>
    THEN h.name \o Chars(": ") \o h.value \o Newline ELSE <<>>
===============================================================================
