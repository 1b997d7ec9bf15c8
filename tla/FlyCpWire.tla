------------------------------ MODULE FlyCpWire ------------------------------
(***************************************************************************)
(* fly cp and the session, with what they exchange as the text that is on  *)
(* the connection: FlyCp moves whole messages, Wire says how they are      *)
(* written and read.                                                       *)
(***************************************************************************)
EXTENDS FlyCp, Wire

CONSTANTS
    Samples,    \* values that may be written
    Arriving    \* texts that may arrive, well formed or not

\* fly cp sends arrays, and the session answers tables of four columns.
ASSUME FlyCpWireAssumption ==
    /\ {"f", "l", "s", "r", "w", "F", "E", "0"} \subseteq Byte
    /\ Nesting > 0 /\ MaxLen >= 4 /\ Samples \subseteq Values /\ Arriving \subseteq Bytes

\* A block fills the buffer of fly cp, and that of a read stream: it is a blob
\* of the greatest size, and its bytes may be any.
Block == [i \in 1..MaxBlobSize |-> IF i = 1 THEN Nl ELSE "*"]

Tag(s) == Decimal(s)
File   == <<"f">>

\* sendCommand, and the frames of an upload.
ClientValue(in) ==
    IF in.op = "data" THEN Tagged(Blob(Block), Tag(in.slot))
    ELSE IF in.op = "end" THEN Tagged(Null, Tag(in.slot))
    ELSE IF in.op = "ping" THEN Array(<<String(<<"l">>), String(File)>>)
    ELSE Array(<<String(<<"s">>),
                 String(IF in.op = "read" THEN <<"r">> ELSE <<"w">>),
                 String(File)>>)

\* The row of a file: kind, name, size and time.
Listing == Add(NoRows, <<String(<<"F">>), String(File), Integer(12),
                         String(<<"0">>)>>)

Failure == Error(<<"E">>, <<"e">>)

\* STREAM is the second message of fly cp; another error answers a frame that
\* was refused, and carries its tag.
OpenedBy == 2

ServerValue(m) ==
    IF m.kind = "chunk" THEN Tagged(Blob(Block), Tag(slot[m.obj]))
    ELSE IF m.kind = "last" THEN Tagged(Null, Tag(slot[m.obj]))
    ELSE IF m.kind = "id" THEN Integer(slot[m.obj])
    ELSE IF m.kind = "err"
         THEN IF m.n = OpenedBy THEN Failure ELSE Tagged(Failure, Tag(0))
    ELSE IF m.n \in found THEN Listing ELSE Failure

ClientValues == [i \in DOMAIN toServer |-> ClientValue(toServer[i])]
ServerValues == [i \in DOMAIN toClient |-> ServerValue(toClient[i])]

-----------------------------------------------------------------------------
(* Properties.  Those about Samples and Arriving are about the format      *)
(* alone; they are asked of a connection that is still fresh.              *)

\* A text reads back as the values it was made of; while the last byte is
\* missing, as all of them but the last one.
ReadsAs(values) ==
    LET n    == Len(values)
        text == AllTexts(values)
        most == readMany(n - 1, WireReader, SubSeq(text, 1, Len(text) - 1))
    IN  /\ readMany(n, WireReader, text) = Read(values, <<>>)
        /\ n > 0 => /\ most = Read(SubSeq(values, 1, n - 1), most.rest)
                    /\ ReadNext(most.rest).end # "none"

\* Whatever is on its way between fly cp and the session, in one direction or
\* the other, is read as the messages that were sent, in their order, and no
\* message is read before all of it has arrived.
ArrivesAsSent ==
    /\ ReadsAs(ClientValues)
    /\ ReadsAs(ServerValues)

Fresh == cp = "start" /\ rpc = "new" /\ kpc = "new" /\ wpc = "new"

\* What is written reads back as it was, and the reader stops at its end,
\* whatever comes after it: values nest, and a blob may hold any byte.
ReadsBack ==
    Fresh => \A v \in Samples : \A more \in {<<>>, <<"1">>, <<Nl>>, Text(Null)} :
        ReadNext(Text(v) \o more) = Read(v, more)

\* Of a value that is cut short nothing is ever taken for a value: neither the
\* part that arrived, nor, after the error, something inside that part.
CutIsNoticed ==
    Fresh => \A v \in Samples : \A k \in 0..(Len(Text(v)) - 1) :
        LET r == ReadNext(SubSeq(Text(v), 1, k))
        IN  r.end \in {"io", "format"} /\ r.rest = <<>>

\* The answer to malformed input is one message for its reader, or the byte
\* that was not expected is a newline: it goes into the answer as it is, which
\* then ends too early, and the client finds a message more than was sent.
ComplaintIsOneMessage ==
    Fresh => \A txt \in Arriving :
        LET r == ReadNext(txt)
        IN  r.end = "format" =>
                \/ r.odd = <<Nl>>
                \/ /\ Complaint(r) \in Values
                   /\ ReadNext(Text(Complaint(r))) = Read(Complaint(r), <<>>)
=============================================================================
