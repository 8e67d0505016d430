----------------------------- MODULE SSEReader ------------------------------
(***************************************************************************)
(* The reader of server-sent events (internal/prober/sse.go), one line at  *)
(* a time.  The value of a "data" line is a piece of a JSON document: piece *)
(* `part` of the `parts` lines the document is written on.  What the code  *)
(* does by joining lines with a newline and decoding the result is a test  *)
(* that the pieces are those of one document, in order.                    *)
(***************************************************************************)
EXTENDS Naturals, Sequences

\* The local variables of Next: the event type seen, the data lines so far
\* (none: hasData is false).
FreshReader == [event |-> "", data |-> <<>>]

Blank          == [field |-> "blank", value |-> ""]
Comment        == [field |-> "other", value |-> ""]
EventLine(t)   == [field |-> "event", value |-> t]
DataLine(d)    == [field |-> "data", value |-> d]

Fragment(doc, part, parts) == [doc |-> doc, part |-> part, parts |-> parts]

Fragments(docs) == [doc : docs, part : Nat, parts : Nat]

LinesOf(events, docs) == {Blank, Comment}
                           \cup [field : {"event"}, value : events]
                           \cup [field : {"data"}, value : Fragments(docs)]

\* Slip: an event type stands until its event is complete.
AfterLineFirstType(reader, line) ==
    CASE line.field = "event" -> [reader EXCEPT !.event = IF @ = "" THEN line.value ELSE @]
      [] line.field = "data"  -> [reader EXCEPT !.data = Append(@, line.value)]
      [] line.field = "blank" -> IF reader.data = <<>> THEN reader ELSE FreshReader
      [] OTHER                -> reader

\* The reader after a line.  A blank line ends an event that has data; one
\* without data leaves the event type for the lines that follow.  Comments and
\* other fields are skipped.
AfterLine(reader, line) ==
    CASE line.field = "event" -> [reader EXCEPT !.event = line.value]
      [] line.field = "data"  -> [reader EXCEPT !.data = Append(@, line.value)]
      [] line.field = "blank" -> IF reader.data = <<>> THEN reader ELSE FreshReader
      [] OTHER                -> reader

\* Whether Next returns an event on this line ...
Emits(reader, line) == line.field = "blank" /\ reader.data # <<>>

\* ... and on the end of the stream.
EmitsAtEOF(reader) == reader.data # <<>>

\* Whether the data is one whole document, and which.
Decodes(data) ==
    /\ Len(data) = data[1].parts
    /\ \A i \in DOMAIN data : data[i] = Fragment(data[1].doc, i, Len(data))

Document(data) == data[1].doc
=============================================================================
