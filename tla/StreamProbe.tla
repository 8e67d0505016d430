---------------------------- MODULE StreamProbe -----------------------------
(***************************************************************************)
(* One probe: the four protocol clients of internal/prober against a       *)
(* provider that may stall, hang up in the middle of a frame, or answer    *)
(* with an error, followed by the check of expect_pattern in               *)
(* Scheduler.probe.  (Azure is the OpenAI client under another URL.)       *)
(*                                                                         *)
(* The provider's text is a sequence of pieces, numbered in the order it   *)
(* produces them, so that a lost, repeated or reordered piece shows.  A    *)
(* pattern is the number of the piece it looks for, 0 for no pattern.      *)
(***************************************************************************)
EXTENDS SSEReader, ErrorTypes

CONSTANTS
    Targets,    \* [proto, stream, pattern] of the targets considered
    Usages,     \* the token counts a provider may report
    Statuses,   \* HTTP status codes a provider may answer with
    Words,      \* words that may occur in an error body
    MaxFrames   \* bound: frames of one stream

Protocols == {"openai", "openai-responses", "anthropic", "google"}

\* The token fields of ProbeResult, and a protocol's usage object under the
\* same names: cached is prompt_tokens_details.cached_tokens, input_tokens_details.
\* cached_tokens, cachedContentTokenCount or cache_read_input_tokens, and so on.
UsageSet == [in : Nat, out : Nat, total : Nat, cached : Nat, reasoning : Nat, creation : Nat]

NoUsage ==
    [in |-> 0, out |-> 0, total |-> 0, cached |-> 0, reasoning |-> 0, creation |-> 0]

ASSUME TargetAssumption ==
    Targets \subseteq [proto : Protocols, stream : BOOLEAN, pattern : Nat]

ASSUME ProviderAssumption ==
    /\ Usages \subseteq UsageSet
    /\ NoUsage \in Usages
    /\ Statuses \subseteq Nat \ {0, 200}
    /\ MaxFrames \in Nat

VARIABLES
    target,       \* the target probed
    phase,        \* where the client is
    reader,       \* the SSEReader
    result,       \* ProbeResult; text is textBuf until the stream is over
    wire,         \* lines sent and not yet read
    open,         \* the provider has not closed the stream
    said,         \* history: the frames the provider has sent
    pieces,       \* history: how many pieces of text are in them
    cut,          \* history: the stream was closed before its end
    interrupted   \* history: the cause that ended the request, "" if none

serverVars == <<wire, open, said, pieces, cut>>
vars == <<target, phase, reader, result, serverVars, interrupted>>

Phases == {"dialing", "reading", "body", "ended", "recorded"}

Result == [success : BOOLEAN, ttft : BOOLEAN, text : Seq(Nat),
           usage : UsageSet,
           errType : HTTPErrorClasses \cup NetworkClasses
                       \cup {"", "parse_error", "validation_error"},
           status : Nat]

\* IsStreaming; the Anthropic and Google clients do not ask.
Streams(t) == t.stream \/ t.proto \in {"anthropic", "google"}

-----------------------------------------------------------------------------
(* What the provider sends.  A document is the data of one frame.          *)

Docs == [json : BOOLEAN, done : BOOLEAN, texts : Seq(Nat), usage : UsageSet]

Doc(texts, usage) == [json |-> TRUE, done |-> FALSE, texts |-> texts, usage |-> usage]
NotJSON  == [json |-> FALSE, done |-> FALSE, texts |-> <<>>, usage |-> NoUsage]
DoneDoc  == [json |-> FALSE, done |-> TRUE, texts |-> <<>>, usage |-> NoUsage]

\* The next k pieces of text.
NextPieces(k) == [i \in 1 .. k |-> pieces + i]

\* The types of events; OpenAI and Google send none.
EventTypes == {"", "response.created", "response.output_text.delta",
               "response.completed", "response.failed", "response.incomplete",
               "ping", "message_start", "content_block_delta", "message_delta",
               "message_stop", "error"}

DocsWith(lengths, usages) ==
    [json : {TRUE}, done : {FALSE}, texts : {NextPieces(k) : k \in lengths}, usage : usages]

\* Responses backends that leave the total to the client.
Totalless == {[u EXCEPT !.total = 0] : u \in Usages}

\* The frames a provider may send next.  Anthropic's error event is
\* overloaded_error, with which a stream ends.
NextFrames(proto) ==
    CASE proto = "openai" ->
           [event : {""}, doc : DocsWith(0 .. 1, Usages) \cup {NotJSON, DoneDoc}]
      [] proto = "google" ->
           [event : {""}, doc : DocsWith(0 .. 1, Usages) \cup DocsWith({2}, {NoUsage})
                                  \cup {NotJSON}]
      [] proto = "openai-responses" ->
           [event : {"response.output_text.delta"}, doc : DocsWith(0 .. 1, {NoUsage})]
             \cup [event : {"response.completed", "response.failed", "response.incomplete"},
                   doc : DocsWith({0}, Usages \cup Totalless)]
             \cup [event : {"response.created", "response.failed"}, doc : {NotJSON}]
      [] proto = "anthropic" ->
           [event : {"content_block_delta"}, doc : DocsWith(0 .. 1, {NoUsage})]
             \cup [event : {"message_start", "message_delta"}, doc : DocsWith({0}, Usages)]
             \cup [event : {"ping", "message_stop", "error"}, doc : DocsWith({0}, {NoUsage})]
             \cup [event : {"message_delta"}, doc : {NotJSON}]

Terminal(frame) ==
    \/ frame.doc.done
    \/ frame.event \in {"message_stop", "error", "response.completed",
                        "response.failed", "response.incomplete"}

Terminated == said # <<>> /\ Terminal(said[Len(said)])

\* The two ways to write a frame: the document on one line, or on two with a
\* comment (a keep-alive) between them.
Lines(frame, split) ==
    (IF frame.event = "" THEN <<>> ELSE <<EventLine(frame.event)>>)
      \o (IF split THEN <<DataLine(Fragment(frame.doc, 1, 2)), Comment,
                          DataLine(Fragment(frame.doc, 2, 2))>>
                   ELSE <<DataLine(Fragment(frame.doc, 1, 1))>>)
      \o <<Blank>>

-----------------------------------------------------------------------------
(* What the clients make of an event.  doc.json is false for data that does *)
(* not decode: the loop goes on with the next event.                       *)

WithText(res, texts) ==
    IF texts = <<>> THEN res
    ELSE [res EXCEPT !.text = @ \o texts, !.ttft = TRUE]

\* A usage object without the count of cache writes, which Chat Completions,
\* Responses and Gemini do not know.
Copied(u) == [u EXCEPT !.creation = 0]

\* Slip: a detail that is absent from a report is left alone.
WithTotalKeepsDetails(res, u) ==
    IF u.total = 0 THEN res
    ELSE [res EXCEPT !.usage = [Copied(u) EXCEPT !.cached =
                                  IF @ = 0 THEN res.usage.cached ELSE @]]

\* The streaming loops of OpenAI and Google: a report with a total replaces all.
WithTotal(res, u) == IF u.total > 0 THEN [res EXCEPT !.usage = Copied(u)] ELSE res

OpenAIChunk(res, event, doc) ==
    IF ~doc.json THEN res
    ELSE WithTotal(WithText(res, doc.texts), doc.usage)

\* Only the first non-empty part of the first chunk with text is kept.
GoogleChunk(res, event, doc) ==
    IF ~doc.json THEN res
    ELSE LET parts == IF res.ttft \/ doc.texts = <<>> THEN doc.texts
                      ELSE <<Head(doc.texts)>>
         IN  WithTotal(WithText(res, parts), doc.usage)

\* applyResponsesUsage.
WithResponsesUsage(res, u) ==
    IF u.in = 0 /\ u.out = 0 /\ u.total = 0 THEN res
    ELSE [res EXCEPT !.usage = [Copied(u) EXCEPT !.total = IF @ > 0 THEN @ ELSE u.in + u.out]]

ResponsesEvent(res, event, doc) ==
    CASE ~doc.json -> res
      [] doc.json /\ event = "response.output_text.delta" -> WithText(res, doc.texts)
      [] doc.json /\ event \in {"response.completed", "response.failed",
                                "response.incomplete"} -> WithResponsesUsage(res, doc.usage)
      [] OTHER -> res

Larger(m, n) == IF m > n THEN m ELSE n

\* applyAnthropicUsage: the larger of what was reported, field by field; it
\* knows no reasoning tokens and no total.
WithAnthropicUsage(res, u) ==
    [res EXCEPT !.usage.in = Larger(@, u.in), !.usage.out = Larger(@, u.out),
                !.usage.cached = Larger(@, u.cached),
                !.usage.creation = Larger(@, u.creation)]

AnthropicEvent(res, event, doc) ==
    CASE ~doc.json -> res
      [] doc.json /\ event = "content_block_delta" -> WithText(res, doc.texts)
      [] doc.json /\ event \in {"message_start", "message_delta"} ->
           WithAnthropicUsage(res, doc.usage)
      [] OTHER -> res

Absorb(res, event, doc) ==
    CASE target.proto = "openai"           -> OpenAIChunk(res, event, doc)
      [] target.proto = "google"           -> GoogleChunk(res, event, doc)
      [] target.proto = "openai-responses" -> ResponsesEvent(res, event, doc)
      [] target.proto = "anthropic"        -> AnthropicEvent(res, event, doc)

\* The events at which a client stops reading ...
Stops(event, doc) ==
    \/ target.proto = "openai" /\ doc.done
    \/ target.proto = "anthropic" /\ event = "message_stop"

\* ... and those with which the provider takes back what it said.
Fails(event) ==
    target.proto = "openai-responses"
      /\ event \in {"response.failed", "response.incomplete"}

-----------------------------------------------------------------------------
Init ==
    /\ target \in Targets
    /\ phase = "dialing"
    /\ reader = FreshReader
    /\ result = [success |-> FALSE, ttft |-> FALSE, text |-> <<>>,
                 usage |-> NoUsage, errType |-> "", status |-> 0]
    /\ wire = <<>>
    /\ open = TRUE
    /\ said = <<>>
    /\ pieces = 0
    /\ cut = FALSE
    /\ interrupted = ""

\* Every early return of Probe: the result carries an error and its type.
FailAs(errType) ==
    /\ phase' = "ended"
    /\ result' = [result EXCEPT !.errType = errType]

\* client.Do fails.  ("reset" is also a URL that cannot be parsed.)
DialFails(cause) ==
    /\ phase = "dialing"
    /\ FailAs(NetworkClass(cause))
    /\ interrupted' = cause
    /\ UNCHANGED <<target, reader, serverVars>>

\* An answer other than 200.
Refused(code, words) ==
    /\ phase = "dialing"
    /\ phase' = "ended"
    /\ result' = [result EXCEPT !.status = code, !.errType = HTTPErrorClass(code, words)]
    /\ UNCHANGED <<target, reader, serverVars, interrupted>>

Accepted ==
    /\ phase = "dialing"
    /\ phase' = IF Streams(target) THEN "reading" ELSE "body"
    /\ result' = [result EXCEPT !.status = 200]
    /\ UNCHANGED <<target, reader, serverVars, interrupted>>

\* The provider sends a frame.  (Only when all before it was read: a client
\* does the same whatever waits behind the line it reads.)
SendFrame(frame, split) ==
    /\ phase = "reading" /\ open /\ wire = <<>>
    /\ Len(said) < MaxFrames
    /\ ~Terminated
    /\ said' = Append(said, frame)
    /\ pieces' = pieces + Len(frame.doc.texts)
    /\ wire' = Lines(frame, split)
    /\ UNCHANGED <<target, phase, reader, result, open, cut, interrupted>>

\* An event type with no data: nothing that counts as a frame.
SendBareEvent ==
    /\ phase = "reading" /\ open /\ wire = <<>>
    /\ ~Terminated
    /\ wire' = <<EventLine("ping"), Blank>>
    /\ UNCHANGED <<target, phase, reader, result, open, said, pieces, cut, interrupted>>

\* The stream ends; of the lines on the way only the first n arrive.
CloseStream(n) ==
    /\ phase = "reading" /\ open
    /\ n <= Len(wire)
    /\ open' = FALSE
    /\ wire' = SubSeq(wire, 1, n)
    /\ cut' = (n < Len(wire) \/ (target.proto # "google" /\ ~Terminated))
    /\ UNCHANGED <<target, phase, reader, result, said, pieces, interrupted>>

\* The code after the loop.
Concluded(res) ==
    [res EXCEPT !.success = res.ttft,
                !.errType = IF res.ttft THEN "" ELSE "parse_error",
                !.usage.total = IF target.proto = "anthropic" /\ @ = 0
                                THEN res.usage.in + res.usage.out ELSE @]

\* Slip: a failed response ends the loop like any other.
DispatchKeepsFailed(event, doc) ==
    IF Stops(event, doc) \/ Fails(event)
    THEN phase' = "ended" /\ result' = Concluded(Absorb(result, event, doc))
    ELSE result' = Absorb(result, event, doc) /\ UNCHANGED phase

\* The body of the loop, for an event Next returned.
Dispatch(event, doc) ==
    IF Stops(event, doc)
    THEN phase' = "ended" /\ result' = Concluded(result)
    ELSE IF Fails(event)
    THEN /\ phase' = "ended"
         /\ result' = [Absorb(result, event, doc) EXCEPT !.errType = "api_error"]
    ELSE result' = Absorb(result, event, doc) /\ UNCHANGED phase

Decoded(data) == IF Decodes(data) THEN Document(data) ELSE NotJSON

ReadLine ==
    /\ phase = "reading"
    /\ wire # <<>>
    /\ wire' = Tail(wire)
    /\ reader' = AfterLine(reader, Head(wire))
    /\ IF Emits(reader, Head(wire))
       THEN Dispatch(reader.event, Decoded(reader.data))
       ELSE UNCHANGED <<phase, result>>
    /\ UNCHANGED <<target, open, said, pieces, cut, interrupted>>

\* The end of the stream: a last event without its blank line counts; then
\* Next returns io.EOF and the loop is over.
ReadEOF ==
    /\ phase = "reading"
    /\ wire = <<>> /\ ~open
    /\ reader' = FreshReader
    /\ IF EmitsAtEOF(reader)
       THEN Dispatch(reader.event, Decoded(reader.data))
       ELSE phase' = "ended" /\ result' = Concluded(result)
    /\ UNCHANGED <<target, serverVars, interrupted>>

\* Reading fails: the connection is reset, a line is too long for the scanner
\* (both "reset"), or the context is cancelled.
ReadFails(cause) ==
    /\ phase \in {"reading", "body"}
    /\ FailAs("parse_error")
    /\ interrupted' = cause
    /\ UNCHANGED <<target, reader, serverVars>>

\* Slip: the deadline covers the connection only.
ExpireWhileDialing ==
    /\ phase = "dialing"
    /\ FailAs(NetworkClass("deadline"))
    /\ interrupted' = "deadline"
    /\ UNCHANGED <<target, reader, serverVars>>

\* The timeout of the probe strikes.
Expire ==
    \/ DialFails("deadline")
    \/ ReadFails("deadline")

\* A body that was asked for in one piece, or one that does not parse.
ReceiveBody(doc) ==
    /\ phase = "body"
    /\ phase' = "ended"
    /\ result' =
         IF ~doc.json THEN [result EXCEPT !.errType = "parse_error"]
         ELSE LET new == IF target.proto = "openai" THEN [result EXCEPT !.usage = Copied(doc.usage)]
                         ELSE WithResponsesUsage(result, doc.usage)
              IN  [new EXCEPT !.text = doc.texts, !.ttft = TRUE,
                              !.success = doc.texts # <<>>,
                              !.errType = IF doc.texts # <<>> THEN "" ELSE "parse_error"]
    /\ UNCHANGED <<target, reader, serverVars, interrupted>>

Matches(pattern, text) == pattern = 0 \/ \E i \in DOMAIN text : text[i] = pattern

\* Slip: the outcome is overruled, its type is not.
RecordUntyped ==
    /\ phase = "ended"
    /\ phase' = "recorded"
    /\ result' = IF result.success /\ ~Matches(target.pattern, result.text)
                 THEN [result EXCEPT !.success = FALSE]
                 ELSE result
    /\ UNCHANGED <<target, reader, serverVars, interrupted>>

\* Back in Scheduler.probe: expect_pattern may overrule a success.
Record ==
    /\ phase = "ended"
    /\ phase' = "recorded"
    /\ result' = IF result.success /\ ~Matches(target.pattern, result.text)
                 THEN [result EXCEPT !.success = FALSE, !.errType = "validation_error"]
                 ELSE result
    /\ UNCHANGED <<target, reader, serverVars, interrupted>>

Provider ==
    \/ \E frame \in NextFrames(target.proto) :
         \E split \in {FALSE, frame.doc.json} : SendFrame(frame, split)
    \/ SendBareEvent
    \/ \E n \in 0 .. Len(wire) : CloseStream(n)

Client ==
    \/ \E cause \in Causes \ {"deadline"} : DialFails(cause)
    \/ \E code \in Statuses, words \in SUBSET Words : Refused(code, words)
    \/ Accepted
    \/ ReadLine
    \/ ReadEOF
    \/ \E cause \in {"reset", "canceled"} : ReadFails(cause)
    \/ \E u \in Usages, k \in 0 .. 1 : ReceiveBody(Doc(NextPieces(k), u))
    \/ ReceiveBody(NotJSON)
    \/ Record

Next == Provider \/ Client \/ Expire

Spec == Init /\ [][Next]_vars

\* A client goes on while it can, and the timeout always strikes in the end.
FairSpec == Spec /\ WF_vars(Record) /\ WF_vars(Expire)

-----------------------------------------------------------------------------
(* Properties.                                                             *)

\* Types of the variables.
TypeOK ==
    /\ target \in Targets
    /\ phase \in Phases
    /\ reader \in [event : EventTypes, data : Seq(Fragments(Docs))]
    /\ result \in Result
    /\ wire \in Seq(LinesOf(EventTypes, Docs))
    /\ said \in Seq([event : EventTypes, doc : Docs]) /\ Len(said) <= MaxFrames
    /\ pieces \in Nat
    /\ open \in BOOLEAN /\ cut \in BOOLEAN
    /\ interrupted \in Causes \cup {""}

\* Every probe that is not a success is counted under an error type, and no
\* success is; a success has an answer and text; the status label is 0 exactly
\* for the network-layer failures.
FailuresNamed ==
    phase = "recorded" =>
        /\ result.success <=> result.errType = ""
        /\ result.success => result.status = 200 /\ result.text # <<>>
        /\ result.status = 0 <=> result.errType \in NetworkClasses

ReadToTheEnd == phase = "recorded" /\ Streams(target) /\ result.success /\ ~cut

\* The pieces after the first of the first frame with text: the Google client
\* leaves them out (see ValidationHonest).
Skipped ==
    LET talk  == {n \in DOMAIN said : said[n].doc.texts # <<>>}
        first == CHOOSE n \in talk : \A m \in talk : n <= m
    IN  IF target.proto = "google" /\ talk # {} THEN 2 .. Len(said[first].doc.texts) ELSE {}

\* A stream that was read to its end yields the text the provider produced: on
\* whatever lines it was written, no other piece lost, none repeated or out of
\* order, and none taken for an event of another type that came without data.
TextExact ==
    ReadToTheEnd =>
        /\ {result.text[i] : i \in DOMAIN result.text} = (1 .. pieces) \ Skipped
        /\ \A i, j \in DOMAIN result.text : i < j => result.text[i] < result.text[j]

Reports(events) ==
    {said[i].doc.usage : i \in {j \in DOMAIN said :
                                  said[j].doc.json /\ said[j].event \in events}}

Greatest(values) == CHOOSE v \in values : \A w \in values : w <= v

\* The last report that says anything, of those that count.
LastReport ==
    LET reports == {j \in DOMAIN said : said[j].doc.json /\ said[j].doc.usage.total > 0}
    IN  IF reports = {} THEN NoUsage ELSE said[Greatest(reports)].doc.usage

\* The token counts of such a probe are what the provider reported: those of
\* the last report for OpenAI and Google and of the final object for Responses,
\* if it counts any (never the input tokens of one report next to the cached ones
\* of another), and for Anthropic the complete picture "either ordering yields".
UsageExact ==
    ReadToTheEnd =>
        CASE target.proto \in {"openai", "google"} -> result.usage = Copied(LastReport)
          [] target.proto = "openai-responses" ->
               LET u == said[Len(said)].doc.usage
                   t == IF u.total > 0 THEN u.total ELSE u.in + u.out
               IN  result.usage = IF t = 0 THEN NoUsage ELSE [Copied(u) EXCEPT !.total = t]
          [] target.proto = "anthropic" ->
               LET us == Reports({"message_start", "message_delta"})
               IN  /\ \A f \in {"in", "out", "cached", "creation"} :
                         result.usage[f] = Greatest({u[f] : u \in us} \cup {0})
                   /\ result.usage.total = result.usage.in + result.usage.out
                   /\ result.usage.reasoning = 0

\* A response the provider declared failed is never a success, whatever was
\* said before.
FailureStands ==
    phase = "recorded" /\ target.proto = "openai-responses" /\ Terminated /\ ~cut
      /\ said[Len(said)].event \in {"response.failed", "response.incomplete"}
        => ~result.success

\* "overloaded: Provider overloaded (HTTP 529 or Anthropic overloaded_error)": also
\* when the provider says so in an error event, the last one of its stream.
OverloadNamed ==
    phase = "recorded" /\ ~cut /\ interrupted = "" /\ Terminated
      /\ said[Len(said)].event = "error"
        => result.errType = "overloaded"

\* A probe ends, also with a provider that stalls.
ProbeEnds == phase = "dialing" ~> phase = "recorded"

\* "validation_error: Response didn't match expect_pattern": it is not reported
\* when what the pattern looks for is in the text of a complete response.
ValidationHonest ==
    phase = "recorded" /\ ~cut /\ result.errType = "validation_error" =>
        target.pattern \notin 1 .. pieces

\* "timeout: Request timed out", "canceled: Request canceled".
InterruptionNamed ==
    phase = "recorded" =>
        /\ interrupted = "deadline" => result.errType = "timeout"
        /\ interrupted = "canceled" => result.errType = "canceled"
=============================================================================
