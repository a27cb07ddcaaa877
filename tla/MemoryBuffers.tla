----------------------------- MODULE MemoryBuffers -----------------------------
(* A WritableMemoryBuffer and the BufferWriter that fills it.  The writer has  *)
(* the buffer grow when a text or what a socket has may not fit; the           *)
(* application may resize the buffer behind the writer's back, and change the  *)
(* limit.  HTTPConnection keeps two such pairs, and HTTPHeader::write, the     *)
(* tests and the parsers use them.                                             *)
EXTENDS Integers, Sequences

CONSTANTS
    Plain, Stop, Nul,   \* bytes: 0x01, at which memccpy ends, 0x00, at which strncpy does, others
    Junk,               \* a byte nobody has written
    FirstSizes,         \* sizes of the buffer to begin with
    DefaultSize,        \* what a buffer of size 0 is taken for (128 in the code)
    Limits,             \* values of MaximumBufferSize; 0 is no limit
    NewSizes,           \* sizes the application resizes it to
    MaxSize, MaxText,   \* bounds: size of a buffer, length of a text or of what is received
    MaxTaken,           \* bound: bytes taken in all
    Wrap                \* a size_t is a number below Wrap (2^64 in the code)

ASSUME MemoryBuffersAssumption ==
    /\ {Stop, Nul, Junk} \cap Plain = {} /\ Stop # Nul /\ Junk \notin {Stop, Nul}
    /\ MaxSize \in Nat /\ MaxTaken \in Nat /\ MaxText \in Nat \ {0} /\ DefaultSize \in 1..MaxSize
    /\ FirstSizes \cup NewSizes \subseteq 0..MaxSize /\ Limits \subseteq 0..MaxSize
    /\ Wrap \in Nat /\ Wrap > 2 * (MaxSize + MaxText + 1)

Bytes == Plain \cup {Stop, Nul}
Texts == UNION {[1..n -> Bytes] : n \in 1..MaxText}

VARIABLES
    mem,        \* the bytes from BufferStart to BufferEnd
    null,       \* BufferStart is null, though BufferEnd is not: NewBuffer got no memory
    limit,      \* MaximumBufferSize
    Cursor,     \* of the writer
    answer,     \* of fromString: the size asked for and the size written
    accepted,   \* every byte a call has taken so far
    lost,       \* what has happened that the code makes no provision for
    fault       \* a byte was written through null, or outside the buffer

vars == <<mem, null, limit, Cursor, answer, accepted, lost, fault>>

NoAnswer == [asked |-> 0, wrote |-> 0, memory |-> TRUE]

Init ==
    /\ \E n \in FirstSizes : mem = [k \in 1..n |-> Junk]
    /\ null \in {FALSE, mem # <<>>}
    /\ limit \in Limits
    /\ Cursor = 0
    /\ answer = NoAnswer
    /\ accepted = <<>>
    /\ lost = {}
    /\ fault = "none"

-------------------------------------------------------------------------------
(* WritableMemoryBuffer. *)

\* memccpy(new, old, 1, n) ends behind the first byte 1; an unknown byte may be one.
\* A bug: the last byte is not copied
CopiedShort(n) == {IF n = 0 THEN 0 ELSE n - 1}
Copied(n) ==
    {k \in 0..n : /\ \A j \in 1..(k - 1) : mem[j] # Stop
                  /\ k = n \/ (k > 0 /\ mem[k] \in {Stop, Junk})}

\* The ways in which resize may end: [mem, null, lost].  To the same size or to
\* none it does nothing, nor when there is no memory
Resized(n, memory) ==
    IF ~memory \/ n \in {0, Len(mem)} THEN {[mem |-> mem, null |-> null, lost |-> lost]}
    ELSE {[mem |-> [j \in 1..n |-> IF j <= k THEN mem[j] ELSE Junk],
           null |-> FALSE,
           lost |-> lost \cup {why \in {"shrunk"} : n < Cursor}
                         \cup {why \in {"stop"} : k \in 1..(Cursor - 1) /\ k < n /\ mem[k] \in {Stop, Junk}}] :
            k \in IF null THEN {0} ELSE Copied(IF Len(mem) < n THEN Len(mem) ELSE n)}

-------------------------------------------------------------------------------
(* BufferWriter. *)

\* What CheckBufferSize makes of the size: it is doubled once, up to the limit
NewSize ==
    LET size == IF mem = <<>> THEN DefaultSize ELSE Len(mem)
    IN IF limit # 0 /\ size >= limit THEN size
       ELSE IF limit # 0 /\ 2 * size > limit THEN limit ELSE 2 * size

\* CheckBufferSize, before n bytes are written: the buffers it may leave.  A bug:
\* a buffer that n bytes would fill is not full
CheckLate(n, memory) ==
    IF (Cursor + n) % Wrap > Len(mem) THEN Resized(NewSize, memory) ELSE Resized(0, memory)
CheckBufferSize(n, memory) ==
    IF (Cursor + n) % Wrap >= Len(mem) THEN Resized(NewSize, memory) ELSE Resized(0, memory)

\* fromString answers 0
Refused(n, size) == (Cursor + n + 1) % Wrap >= size

\* The buffer m with the text t from the offset p on
Written(m, p, t) ==
    [k \in 1..Len(m) |-> IF k \in (p + 1)..(p + Len(t)) THEN t[k - p] ELSE m[k]]

\* strncpy fills up with NUL from the first NUL on
Copy(t) == [k \in 1..Len(t) |-> IF \E j \in 1..k : t[j] = Nul THEN Nul ELSE t[k]]

Allocates(memory) == memory => NewSize <= MaxSize

\* The text and the byte behind it, whatever that is, are copied to Cursor
TakeText(t, b) ==
    /\ mem' = IF ~b.null THEN Written(b.mem, Cursor, Append(Copy(t), Junk)) ELSE b.mem
    /\ Cursor' = (Cursor + Len(t)) % Wrap
    /\ Len(accepted) + Len(t) <= MaxTaken
    /\ accepted' = accepted \o t
    /\ lost' = b.lost \cup {why \in {"nul"} : Copy(t) # t}
    /\ fault' = IF b.null THEN "null"
                ELSE IF Cursor + Len(t) + 1 > Len(b.mem) THEN "outside" ELSE "none"

\* fromString, fromByte
FromString(t, memory) ==
    /\ fault = "none" /\ Allocates(memory)
    /\ \E b \in CheckBufferSize(Len(t), memory) :
         /\ null' = b.null
         /\ IF Refused(Len(t), Len(b.mem))
            THEN /\ answer' = [asked |-> Len(t), wrote |-> 0, memory |-> memory]
                 /\ mem' = b.mem /\ lost' = b.lost
                 /\ UNCHANGED <<Cursor, accepted, fault>>
            ELSE /\ answer' = [asked |-> Len(t), wrote |-> Len(t), memory |-> memory]
                 /\ TakeText(t, b)
    /\ UNCHANGED limit

\* How much fromSocket asks recv for: what is left when there is not enough
ReadSize(n, size) == IF (Cursor + n) % Wrap > size THEN (size - Cursor) % Wrap ELSE n

\* fromSocket, when recv gives r; a closed connection gives nothing
FromSocket(n, r, memory) ==
    /\ fault = "none" /\ Allocates(memory)
    /\ \E b \in CheckBufferSize(n, memory) :
         /\ Len(r) <= ReadSize(n, Len(b.mem)) /\ (b.null => r = <<>>)
         /\ null' = b.null /\ lost' = b.lost
         /\ mem' = Written(b.mem, Cursor, r)
         /\ fault' = IF r # <<>> /\ Cursor + Len(r) > Len(b.mem) THEN "outside" ELSE "none"
    /\ Cursor' = (Cursor + Len(r)) % Wrap
    /\ Len(accepted) + Len(r) <= MaxTaken
    /\ accepted' = accepted \o r
    /\ answer' = NoAnswer
    /\ UNCHANGED limit

\* When recv fails, -1 is added to the cursor: the test is of ReadSize.  Bound:
\* one failure that has this effect
FromSocketFails(n, memory) ==
    /\ fault = "none" /\ Allocates(memory)
    /\ \E b \in CheckBufferSize(n, memory) :
         LET moves == ReadSize(n, Len(b.mem)) > 0
         IN /\ moves => "error" \notin lost
            /\ mem' = b.mem /\ null' = b.null
            /\ Cursor' = IF moves THEN (Cursor - 1) % Wrap ELSE Cursor
            /\ lost' = b.lost \cup {why \in {"error"} : moves}
    /\ answer' = NoAnswer
    /\ UNCHANGED <<limit, accepted, fault>>

-------------------------------------------------------------------------------
(* The application. *)

SetMaximumBufferSize(n) ==
    /\ fault = "none"
    /\ limit' = n
    /\ answer' = NoAnswer
    /\ UNCHANGED <<mem, null, Cursor, accepted, lost, fault>>

ResizeBuffer(n, memory) ==
    /\ fault = "none"
    /\ \E b \in Resized(n, memory) : mem' = b.mem /\ null' = b.null /\ lost' = b.lost
    /\ answer' = NoAnswer
    /\ UNCHANGED <<limit, Cursor, accepted, fault>>

Next ==
    \/ \E t \in Texts, memory \in BOOLEAN : FromString(t, memory)
    \/ \E n \in 1..MaxText, r \in Texts \cup {<<>>}, memory \in BOOLEAN : FromSocket(n, r, memory)
    \/ \E n \in 1..MaxText, memory \in BOOLEAN : FromSocketFails(n, memory)
    \/ \E n \in Limits : SetMaximumBufferSize(n)
    \/ \E n \in NewSizes, memory \in BOOLEAN : ResizeBuffer(n, memory)

Spec == Init /\ [][Next]_vars

-------------------------------------------------------------------------------
\* getData gives exactly the bytes that fromString and fromSocket took, however
\* often the buffer grew in between (MemoryBuffer.cpp:44, :71-89), and nothing is
\* written outside the buffer, the byte behind each text included (:97-101,
\* :112-118).  Four things the code makes no provision for are excepted: a byte 1
\* inside what is copied to another buffer, a NUL inside a text, a recv that
\* fails, and a buffer made smaller than what is in it
DataIsAccepted ==
    lost = {} =>
        /\ fault # "outside"
        /\ fault = "none" => /\ Cursor = Len(accepted) /\ Cursor <= Len(mem)
                             /\ SubSeq(mem, 1, Cursor) = accepted

\* A text is refused for good only at the limit, without memory, or when it would
\* leave exactly one byte (MemoryBuffer.cpp:71 finds room where :97 finds none);
\* otherwise each refusal leaves a larger buffer
RefusedMeansFull ==
    [][answer'.asked > answer'.wrote /\ Len(mem') <= Len(mem) =>
          \/ limit # 0 /\ Len(mem) >= limit
          \/ ~answer'.memory
          \/ (Cursor + answer'.asked + 1) % Wrap = Len(mem)]_vars
===============================================================================
