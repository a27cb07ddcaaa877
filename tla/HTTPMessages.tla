----------------------------- MODULE HTTPMessages -----------------------------
(* HTTPRequest::parse and HTTPResponse::parse while a message arrives: each    *)
(* call is given everything received so far, and goes on where State and       *)
(* HeadersOffset of the calls before it say.                                   *)
EXTENDS HTTPHeader, RequestLine, ResponseLine

CONSTANTS
    Messages,     \* what peers send: [kind, bytes, want], want being the message
                  \* as it was composed, or NotComposed
    NotComposed,
    Junk          \* values of members the constructor leaves alone: a StatusCode

ASSUME MessagesAssumption == \A m \in Messages : m.bytes \in Seq(Bytes)

VARIABLES
    msg,       \* the message
    got,       \* bytes of it in the buffer
    junk,      \* StatusCode of the response object as it was created
    p,         \* the HTTPRequest or HTTPResponse, and what parse answered last
    early,     \* a call answered 0 with nothing behind the headers, and State
               \* at the headers: what comes next is parsed as another header
    spoiled    \* digits of an unfinished status line are in StatusCode

vars == <<msg, got, junk, p, early, spoiled>>

-------------------------------------------------------------------------------
NoMethod == "unset"
\* A parser as it is constructed
Fresh(code) ==
    [state |-> "HTTP_INIT", answer |-> "none", method |-> NoMethod, size |-> 0, version |-> 0,
     code |-> code, flags |-> {}, fields |-> <<>>, off |-> 0, headers |-> <<>>, body |-> 0]

\* The last header of a name is the one that counts; a bug: the first
StoreBehind(headers, h) == Append(headers, h)
Store(headers, h) ==
    LET same == {k \in 1..Len(headers) : LowerCase(headers[k].name) = LowerCase(h.name)}
    IN IF same = {} THEN Append(headers, h)
       ELSE [headers EXCEPT ![CHOOSE k \in same : \A j \in same : k <= j] = h]

\* parseHeaders, of the request and of the response: header after header
NextHeader(in, q) ==
    LET r == ParseHeader(in, q.off)
        next == [q EXCEPT !.off = r.off]
    IN CASE r.answer = "OK" -> [next EXCEPT !.headers = Store(@, [name |-> r.name, value |-> r.value])]
         [] r.answer = "ENOENT" -> [next EXCEPT !.answer = "OK"]
         [] OTHER -> [next EXCEPT !.answer = r.answer]
parseHeaders(in, q) ==
    LET turns == Len(in) - q.off + 1     \* a header is a byte at least
        read[n \in 0..turns] ==
          IF n = 0 THEN [q EXCEPT !.answer = "reading"]
          ELSE LET r == read[n - 1] IN IF r.answer = "reading" THEN NextHeader(in, r) ELSE r
    IN IF q.off = 0 THEN [q EXCEPT !.answer = "EBADE"] ELSE read[turns]

\* The body begins where the headers end, when something is there; a bug: always
BodyAnyway(in, q) ==
    IF q.answer # "OK" THEN q ELSE [q EXCEPT !.state = "HTTP_HEADER_DONE", !.body = q.off]
Body(in, q) ==
    IF q.answer # "OK" \/ q.off >= Len(in) THEN q
    ELSE [q EXCEPT !.state = "HTTP_HEADER_DONE", !.body = q.off]

Line(in, q, r) ==
    LET known == [q EXCEPT !.answer = r.answer, !.flags = @ \cup r.flags,
                           !.fields = IF "fields" \in DOMAIN r THEN r.fields ELSE @,
                           !.version = IF "version" \in DOMAIN r THEN r.version ELSE @]
    IN IF r.answer # "OK" THEN known
       ELSE [known EXCEPT !.state = "HTTP_PARSE_HEADER", !.off = r.fields.RequestLine[2]]

Method(q, r) ==
    IF r.answer # "OK" THEN [q EXCEPT !.state = "HTTP_PARSE_METHOD", !.answer = r.answer]
    ELSE [q EXCEPT !.state = "HTTP_PARSE_REQUEST_LINE", !.answer = "OK",
                   !.method = r.method, !.size = r.size]

\* The cases of HTTPRequest::parse, each of which falls through to the next
CaseHeader(in, q) ==
    IF q.state = "HTTP_PARSE_HEADER" THEN Body(in, parseHeaders(in, q)) ELSE q
CaseLine(in, q) ==
    IF q.state = "HTTP_PARSE_REQUEST_LINE"
    THEN Line(in, q, parseRequestline(in, q.size, q.method, q.fields)) ELSE q
CaseMethod(in, q) ==
    IF q.state \in {"HTTP_INIT", "HTTP_PARSE_METHOD"} THEN Method(q, parseMethod(in, q.method)) ELSE q
ParseRequest(in, q) == CaseHeader(in, CaseLine(in, CaseMethod(in, q)))

StatusLine(in, q, r) ==
    LET known == [q EXCEPT !.answer = r.answer, !.code = r.code]
    IN IF r.answer # "OK" THEN [known EXCEPT !.state = "HTTP_PARSE_RESPONSE_LINE"]
       ELSE [known EXCEPT !.state = "HTTP_PARSE_HEADERS", !.version = r.version, !.fields = r.fields,
                          !.off = IF "StatusLine" \in DOMAIN r.fields
                                  THEN r.fields.StatusLine[2] - r.fields.StatusLine[1] ELSE 0]

\* HTTPResponse::parse
CaseStatus(in, q) ==
    IF q.state \in {"HTTP_INIT", "HTTP_PARSE_RESPONSE_LINE"}
    THEN StatusLine(in, q, parseResponseline(in, q.code, q.fields)) ELSE q
CaseHeaders(in, q) ==
    IF q.state = "HTTP_PARSE_HEADERS" THEN Body(in, parseHeaders(in, q)) ELSE q
ParseResponse(in, q) == CaseHeaders(in, CaseStatus(in, q))

Parse(kind, in, q) ==
    IF q.state = "HTTP_HEADER_DONE" THEN [q EXCEPT !.answer = "OK"]
    ELSE IF kind = "request" THEN ParseRequest(in, q) ELSE ParseResponse(in, q)

-------------------------------------------------------------------------------
Init ==
    /\ msg \in Messages
    /\ junk \in IF msg.kind = "response" THEN Junk ELSE {0}
    /\ got = 0
    /\ p = Fresh(junk)
    /\ early = FALSE
    /\ spoiled = FALSE

\* The buffer holds n bytes, and the handler calls parse
Receive(n) ==
    /\ got' = n
    /\ p' = Parse(msg.kind, SubSeq(msg.bytes, 1, n), p)
    /\ early' = (early \/ (p.answer = "OK" /\ p.state # "HTTP_HEADER_DONE"))
    /\ spoiled' = (spoiled \/ (p.state = "HTTP_PARSE_RESPONSE_LINE" /\ p.code # junk))
    /\ UNCHANGED <<msg, junk>>

Next == \E n \in got..Len(msg.bytes) : Receive(n)

Spec == Init /\ [][Next]_vars

-------------------------------------------------------------------------------
Input == SubSeq(msg.bytes, 1, got)

\* However a message is cut into pieces, the parser ends where one call with
\* the same bytes ends: State, HeadersOffset and the fields kept between calls
\* (HTTPRequest.cpp:703-726, HTTPResponse.cpp:202-220) are enough to go on from.
\* The two ways in which the code is known to lose its place are excepted
ResumeIsRestart ==
    p.state # "HTTP_INIT" /\ ~early /\ ~spoiled => p = Parse(msg.kind, Input, Fresh(junk))

\* No StringRef and no offset the parsers keep reaches behind the bytes received
\* (HTTPRequest.cpp:537-554, HTTPHeader.cpp:192-208), and the body they announce
\* has a first byte
WithinInput ==
    /\ \A f \in DOMAIN p.fields : /\ 0 <= p.fields[f][1]
                                  /\ p.fields[f][1] <= p.fields[f][2]
                                  /\ p.fields[f][2] <= got
    /\ p.off <= got
    /\ p.state = "HTTP_HEADER_DONE" => p.body < got

\* A composed message is read as it was composed, whatever its cuts, but for the
\* two in which the parser loses its place: method, target, argument, version and
\* body; exactly the headers that count, core ones under their own spelling
\* (HTTPHeader.cpp:211 writes what HTTPHeader.cpp:56 reads); the flags a target by
\* itself has (HTTPRequest.cpp:560); the digits of the status and its text.  The
\* number made of those digits stands behind the one nobody set: StatusCode has no
\* initial value (HTTPResponse.h:18), and three digits are added to what it has
Reads(f) == IF f \in DOMAIN p.fields THEN Text(msg.bytes, p.fields[f][1], p.fields[f][2]) ELSE <<>>

ParsedIsWritten ==
    LET w == msg.want
    IN w # NotComposed /\ p.state = "HTTP_HEADER_DONE" /\ ~early /\ ~spoiled =>
        /\ p.version = w.version
        /\ Text(msg.bytes, p.body, Len(msg.bytes)) = w.body
        /\ {p.headers[k] : k \in DOMAIN p.headers} = w.headers
        /\ msg.kind = "request" =>
             /\ p.method = w.method
             /\ Reads("URI") = w.target
             /\ Reads("Argument") = w.argument
             /\ p.flags = parseRequestURI(w.target).flags
             /\ Reads("Protocol") = w.protocol
        /\ msg.kind = "response" =>
             /\ Reads("StatusCodeStr") = w.digits
             /\ Reads("StatusText") = w.text
             /\ p.code = 1000 * junk + w.code
===============================================================================
