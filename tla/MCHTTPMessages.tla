---------------------------- MODULE MCHTTPMessages ----------------------------
(* Messages for TLC: composed ones, written with HTTPHeader::write and read    *)
(* back, and broken ones whose every piece must still be read like the whole.  *)
EXTENDS HTTPMessages

HeaderOf(name, value) == [name |-> Chars(name), value |-> Chars(value)]
\* Header blocks as they are written, and the headers a reader should have: the
\* last one of a name, core headers under their own spelling
Blocks ==
    {[written |-> <<>>, read |-> {}],
     [written |-> <<HeaderOf("A_b", "c d")>>, read |-> {HeaderOf("A_b", "c d")}],
     [written |-> <<HeaderOf("date", "1"), HeaderOf("x", "2"), HeaderOf("DATE", "3 4"), HeaderOf("X", "5")>>,
      read |-> {HeaderOf("Date", "3 4"), HeaderOf("X", "5")}]}
NoHeaders == CHOOSE h \in Blocks : h.read = {}

RECURSIVE Written(_)
Written(headers) == IF headers = <<>> THEN Newline
                    ELSE WriteHeader(Head(headers)) \o Written(Tail(headers))

Target(path, argument) == [text |-> Chars(path \o argument), argument |-> Chars(argument)]

Request(method, target, headers) ==
    LET protocol == "HTTP/1.1"
    IN [kind |-> "request",
        bytes |-> Chars(method) \o Chars(" ") \o target.text \o Chars(" ") \o Chars(protocol)
                  \o Newline \o Written(headers.written) \o Chars("b"),
        want |-> [method |-> method, target |-> target.text, argument |-> target.argument,
                  protocol |-> Chars(protocol), version |-> 1001, headers |-> headers.read,
                  body |-> Chars("b")]]

Methods == Word
Plain == Target("/a", "")
\* The argument is what the last question mark has behind it
Targets == {Target("/", ""), Target("/a/b", ""), Target("/.a", ""), Target("/%41?", "x"),
            Target("/a?b=c?", "d"), Target("/a#b", ""), Target("/a//b", ""), Target("/+a+", ""),
            Target("/a b", ""), Target("/?", "x y"), Target("/a?", "q/#"), Target("/.?", "")}

Response(digits, code, text, headers) ==
    [kind |-> "response",
     bytes |-> Chars("HTTP/1.1 ") \o Chars(digits) \o (IF text = "" THEN <<>> ELSE Chars(" " \o text))
               \o Newline \o Written(headers.written) \o Chars("b"),
     want |-> [version |-> 1001, digits |-> Chars(digits), code |-> code, text |-> Chars(text),
               headers |-> headers.read, body |-> Chars("b")]]

Composed ==
    {Request(m, Plain, NoHeaders) : m \in Methods} \cup {Request("GET", t, NoHeaders) : t \in Targets}
    \cup {Request("GET", Plain, h) : h \in Blocks}
    \cup {Response("200", 200, "OK", h) : h \in Blocks}
    \cup {Response("404", 404, "Not x", NoHeaders), Response("099", 99, "", NoHeaders)}

Odd(kind, bytes) == [kind |-> kind, bytes |-> bytes, want |-> NotComposed]
OddLines ==
    {"XOXX /a HTTP/1.1", "HEAR /a HTTP/1.1", "GOT /a HTTP/1.1", "get /a HTTP/1.1", "DELETED /a HTTP/1.1",
     "GET http://h/a HTTP/1.1", "GET a+b://h.i:80/a?b HTTP/1.0", "GET x://[::1]:8/ HTTP/1.1",
     "GET x://h HTTP/1.1", "GET x://h:8 HTTP/1.1", "GET x:/h", "GET /a", "GET  /a/ ", "GET /a?b",
     "PUT /a", "GET /a HTTP/2.0", "GET /a HTTP/1.123 ", "GET /a HTTP/1.1234", "GET /a HTP", "GET /"}
OddHeaders == {"A/b", "A:b ", "A:", "A", "A b", "HTTP/1", "_:  b  c ", "A:b\\c"}
OddStatus == {"HTTP/1.1 200", "HTTP/1.1 2x", "HTTP/12.3  20.a", "HTTP/1.0 200 a", "HTTP/1.1 2000", "HTP"}

Broken ==
    {Odd("request", Chars(l) \o eol \o Newline \o Chars("b")) : l \in OddLines, eol \in {<<LF>>, Newline}}
    \cup {Odd("request", Newline \o Chars("GET / HTTP/1.1") \o Newline \o Newline)}
    \cup {Odd("request", Chars("GET / HTTP/1.1") \o Newline \o Chars(h) \o eol \o Chars("x: y") \o Newline
                         \o Newline \o Chars("b")) : h \in OddHeaders, eol \in {<<LF>>, Newline}}
    \cup {Odd("response", Chars(l) \o eol \o Newline \o Chars("b")) : l \in OddStatus, eol \in {<<LF>>, Newline}}

MCMessages == Composed \cup Broken
MCJunk == {0, 7, 1234}
===============================================================================
