------------------------------ MODULE ByteStreams ------------------------------
(***************************************************************************)
(* What buffers promise, without blocks, cursors or a collector: each is a *)
(* queue of bytes.  Bytes are received at its end and consumed at its      *)
(* front, in order, each once, whatever the other buffers do.              *)
(***************************************************************************)
EXTENDS Naturals, Sequences

CONSTANTS Buffers, Ring

VARIABLES
  content,  \* the bytes received and not consumed
  sent      \* the number of the next byte of the peer, modulo Ring

StreamInit ==
  /\ content = [b \in Buffers |-> <<>>]
  /\ sent = [b \in Buffers |-> 0]

\* The n bytes of a peer from number first on.
Bytes(first, n) == [i \in 1 .. n |-> (first + i - 1) % Ring]

Receive(b, n) ==
  /\ content' = [content EXCEPT ![b] = @ \o Bytes(sent[b], n)]
  /\ sent' = [sent EXCEPT ![b] = (@ + n) % Ring]

Consume(b, n) ==
  /\ content' = [content EXCEPT ![b] = SubSeq(@, n + 1, Len(@))]
  /\ UNCHANGED sent

StreamNext ==
  \E b \in Buffers :
    \/ \E n \in 1 .. Ring : Receive(b, n)
    \/ \E n \in 1 .. Len(content[b]) : Consume(b, n)

StreamSpec == StreamInit /\ [][StreamNext]_<<content, sent>>
================================================================================
