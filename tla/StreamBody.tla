----------------------------- MODULE StreamBody -----------------------------
(***************************************************************************)
(* The bodies of stream messages: compressMessage (compression.go) in      *)
(* streamPublisher.Publish, and the decompression in the message handler   *)
(* of streamSubscribe (amqp091.go).                                        *)
(*                                                                         *)
(* A body is the sequence of its sizes: what the client wrote and, for     *)
(* every layer of gzip around it, the size with that layer.  How well a    *)
(* body compresses is an input.                                            *)
(***************************************************************************)
EXTENDS Integers, Sequences

CONSTANTS
    BodyLimit,    \* compressionSizeLimit
    BodySizes,    \* sizes of bodies, compressed or not
    MaxPublished  \* bound: messages published

ASSUME BodyAssumption == BodyLimit \in Nat /\ BodySizes \subseteq Nat /\ MaxPublished \in Nat

VARIABLES
    written,  \* messages as the clients published them
    wire,     \* the same messages as the stream holds them
    read      \* and as the consumer's client gets them

bodyVars == <<written, wire, read>>

\* Headers[transferEncodingHeaderName]: absent, or gzip.
Marks == {"", "gzip"}
Bodies == UNION {[1..n -> BodySizes] : n \in 1..3}
StreamMessages == [body : Bodies, mark : Marks]

BodyTypeOK ==
    /\ written \in Seq(StreamMessages) /\ wire \in Seq(StreamMessages)
    /\ read \in Seq(StreamMessages)
    /\ Len(read) <= Len(wire) /\ Len(wire) = Len(written) /\ Len(wire) <= MaxPublished

BodyInit == written = << >> /\ wire = << >> /\ read = << >>

Size(m) == m.body[Len(m.body)]

bodyOverLimit(size) == size > BodyLimit

\* compressMessage, where the compressed body has the given size.
compressMessage(m, size) ==
    IF bodyOverLimit(Size(m)) /\ size < Size(m) /\ ~bodyOverLimit(size)
    THEN [body |-> Append(m.body, size), mark |-> "gzip"] ELSE m

\* Slip: the header is kept after decompression.
decompressKeepsMark(m) ==
    IF m.mark = "gzip" /\ Len(m.body) > 1
    THEN [m EXCEPT !.body = SubSeq(m.body, 1, Len(m.body) - 1)] ELSE m

\* The handler: a body that is marked loses a layer and the mark, one that is no
\* gzip stays as it is.
decompressBody(m) ==
    IF m.mark = "gzip" /\ Len(m.body) > 1
    THEN [body |-> SubSeq(m.body, 1, Len(m.body) - 1), mark |-> ""] ELSE m
-----------------------------------------------------------------------------
\* Publish.  A message that could not be made smaller is sent as it is; what the
\* client library refuses does not reach the stream.
PublishBody(m, size) ==
    /\ Len(wire) < MaxPublished
    /\ written' = Append(written, m)
    /\ wire' = Append(wire, compressMessage(m, size))
    /\ UNCHANGED read

ReadBody ==
    /\ Len(read) < Len(wire)
    /\ read' = Append(read, decompressBody(wire[Len(read) + 1]))
    /\ UNCHANGED <<written, wire>>

\* A client writes a body of its own, compressed by itself or not.
BodyNext ==
    \/ \E m \in StreamMessages, size \in BodySizes : Len(m.body) < 3 /\ PublishBody(m, size)
    \/ ReadBody
-----------------------------------------------------------------------------
\* Compression is invisible to clients ("isolates the change to this service
\* (avoiding updates to all client libraries)", compression.go): what a consumer
\* reads is what was written, whatever its size, unless its producer has marked
\* the message as gzip itself.
BodyUnchanged ==
    \A i \in 1..Len(read) : written[i].mark = "" => read[i] = written[i]
=============================================================================
