---------------------------- MODULE StreamProofs ----------------------------
(***************************************************************************)
(* Proofs about a probe, for every target, provider and bound: the types,  *)
(* that whatever the provider does the outcome is named, that a failure    *)
(* the provider declares is never taken for a success, and that a success  *)
(* has the text and the token counts the provider sent, all of them.       *)
(***************************************************************************)
EXTENDS StreamProbe, SequenceTheorems, TLAPS

Events == [event : EventTypes, doc : Docs]

\* What errType may be.
ErrTypes == HTTPErrorClasses \cup NetworkClasses \cup {"", "parse_error", "validation_error"}

\* A result while the client goes on, and one it returns.
Going(res) ==
    /\ res \in Result
    /\ res.success = FALSE /\ res.errType = "" /\ res.status = 200
    /\ res.ttft = TRUE => res.text # <<>>

Named(res) ==
    /\ res \in Result
    /\ res.success = TRUE <=> res.errType = ""
    /\ res.success = TRUE => res.status = 200 /\ res.text # <<>>
    /\ res.status = 0 <=> res.errType \in NetworkClasses

Outcome ==
    /\ phase = "dialing" => /\ result.success = FALSE /\ result.errType = ""
                            /\ result.status = 0 /\ result.ttft = FALSE
    /\ phase \in {"reading", "body"} => Going(result)
    /\ phase \in {"ended", "recorded"} => Named(result)

-----------------------------------------------------------------------------
(* Error classes.                                                          *)

LEMMA NetworkClassNames ==
    NetworkClasses = {"timeout", "canceled", "tls_error", "dns_error",
                      "connection_refused", "network"}
BY DEF NetworkClasses, NetworkClass, Causes

LEMMA HTTPErrorClassNames ==
    HTTPErrorClasses = {"overloaded", "quota_exceeded", "context_length",
                        "content_filter", "rate_limit", "auth",
                        "http_5xx", "http_4xx", "api_error"}
<1>1. DOMAIN BodyRules = 1 .. 6
    BY DEF BodyRules
<1>2. /\ BodyRules[1].class = "overloaded" /\ BodyRules[2].class = "quota_exceeded"
      /\ BodyRules[3].class = "context_length" /\ BodyRules[4].class = "content_filter"
      /\ BodyRules[5].class = "rate_limit" /\ BodyRules[6].class = "auth"
    BY DEF BodyRules
<1> QED BY <1>1, <1>2 DEF HTTPErrorClasses

\* An HTTP error is never counted as one of the network.
LEMMA HTTPErrorNamed ==
    ASSUME NEW code, NEW words
    PROVE  HTTPErrorClass(code, words) \in HTTPErrorClasses \ (NetworkClasses \cup {""})
<1>1. StatusClass(code) \in HTTPErrorClasses \ (NetworkClasses \cup {""})
    BY HTTPErrorClassNames, NetworkClassNames DEF StatusClass
<1>2. ASSUME BodyClass(words) # ""
      PROVE  BodyClass(words) \in HTTPErrorClasses \ (NetworkClasses \cup {""})
    <2> DEFINE hits == {i \in DOMAIN BodyRules : BodyRules[i].words \cap words # {}}
    <2>0. DOMAIN BodyRules = 1 .. 6
        BY DEF BodyRules
    <2>1. hits \subseteq 1 .. 6 /\ hits # {}
        BY <1>2, <2>0 DEF BodyClass
    <2>2. \E i \in hits : \A j \in hits : i <= j
        BY <2>1
    <2>3. PICK i \in hits : BodyClass(words) = BodyRules[i].class
        BY <1>2, <2>2 DEF BodyClass
    <2>4. i \in DOMAIN BodyRules
        BY <2>3
    <2>5. BodyClass(words) \in HTTPErrorClasses
        BY <2>3, <2>4 DEF HTTPErrorClasses
    <2> QED BY <1>2, <2>5, HTTPErrorClassNames, NetworkClassNames
<1> QED BY <1>1, <1>2 DEF HTTPErrorClass

-----------------------------------------------------------------------------
(* What the provider sends is typed.                                       *)

LEMMA PieceTypes ==
    ASSUME pieces \in Nat
    PROVE  \A k \in 0 .. 2 : NextPieces(k) \in Seq(Nat) /\ Len(NextPieces(k)) = k
BY DEF NextPieces

LEMMA DocTypes ==
    /\ \A texts \in Seq(Nat), u \in UsageSet : Doc(texts, u) \in Docs
    /\ NotJSON \in Docs /\ DoneDoc \in Docs
BY EmptySeq DEF Docs, Doc, NotJSON, DoneDoc, NoUsage, UsageSet

LEMMA FrameTypes ==
    ASSUME pieces \in Nat, NEW proto \in Protocols
    PROVE  NextFrames(proto) \subseteq Events
<1>0. Totalless \subseteq UsageSet /\ Usages \subseteq UsageSet /\ NoUsage \in UsageSet
    BY ProviderAssumption DEF Totalless, UsageSet
<1>1. ASSUME NEW lengths \in SUBSET (0 .. 2), NEW usages \in SUBSET UsageSet
      PROVE  DocsWith(lengths, usages) \subseteq Docs
    <2>1. {NextPieces(k) : k \in lengths} \subseteq Seq(Nat) /\ usages \subseteq UsageSet
        BY PieceTypes
    <2> QED BY <2>1 DEF DocsWith, Docs
<1>2. /\ DocsWith(0 .. 1, Usages) \subseteq Docs /\ DocsWith({2}, {NoUsage}) \subseteq Docs
      /\ DocsWith({0}, Usages) \subseteq Docs
      /\ DocsWith(0 .. 1, {NoUsage}) \subseteq Docs /\ DocsWith({0}, {NoUsage}) \subseteq Docs
      /\ DocsWith({0}, Usages \cup Totalless) \subseteq Docs
    BY <1>0, <1>1, ProviderAssumption
<1>3. CASE proto = "openai"
    BY <1>2, <1>3, DocTypes DEF NextFrames, Events, EventTypes
<1>4. CASE proto = "google"
    BY <1>2, <1>4, DocTypes DEF NextFrames, Events, EventTypes
<1>5. CASE proto = "openai-responses"
    <2>1. ASSUME NEW E \in SUBSET EventTypes, NEW D \in SUBSET Docs
          PROVE  [event : E, doc : D] \subseteq Events
        BY DEF Events
    <2>2. [event : {"response.output_text.delta"}, doc : DocsWith(0 .. 1, {NoUsage})]
            \subseteq Events
        BY <1>2, <2>1 DEF EventTypes
    <2>3. [event : {"response.completed", "response.failed", "response.incomplete"},
           doc : DocsWith({0}, Usages \cup Totalless)] \subseteq Events
        BY <1>2, <2>1 DEF EventTypes
    <2>4. [event : {"response.created", "response.failed"}, doc : {NotJSON}] \subseteq Events
        <3>1. {"response.created", "response.failed"} \in SUBSET EventTypes
            BY DEF EventTypes
        <3>2. {NotJSON} \in SUBSET Docs
            BY DocTypes, Zenon
        <3> QED BY <2>1, <3>1, <3>2
    <2> QED BY <1>5, <2>2, <2>3, <2>4 DEF NextFrames
<1>6. CASE proto = "anthropic"
    BY <1>2, <1>6, DocTypes DEF NextFrames, Events, EventTypes
<1> QED BY <1>3, <1>4, <1>5, <1>6 DEF Protocols

LEMMA TwoLines ==
    ASSUME NEW S, NEW a \in S, NEW b \in S
    PROVE  <<a, b>> \in Seq(S)
OBVIOUS

LEMMA LineTypes ==
    ASSUME NEW frame \in Events, NEW split \in BOOLEAN
    PROVE  Lines(frame, split) \in Seq(LinesOf(EventTypes, Docs))
<1> DEFINE L == LinesOf(EventTypes, Docs)
<1>1. frame.event \in EventTypes /\ frame.doc \in Docs
    BY DEF Events
<1>2. Blank \in L /\ Comment \in L
    BY DEF LinesOf
<1>3. EventLine(frame.event) \in L
    BY <1>1 DEF LinesOf, EventLine
<1>4. \A i, j \in 1 .. 2 : DataLine(Fragment(frame.doc, i, j)) \in L
    BY <1>1 DEF LinesOf, DataLine, Fragment, Fragments
<1> HIDE DEF L
<1> DEFINE a == IF frame.event = "" THEN <<>> ELSE <<EventLine(frame.event)>>
           b == IF split THEN <<DataLine(Fragment(frame.doc, 1, 2)), Comment,
                                DataLine(Fragment(frame.doc, 2, 2))>>
                         ELSE <<DataLine(Fragment(frame.doc, 1, 1))>>
<1>5. a \in Seq(L) /\ b \in Seq(L) /\ <<Blank>> \in Seq(L)
    <2>1. a \in Seq(L)
        <3>1. <<>> \in Seq(L) /\ <<EventLine(frame.event)>> \in Seq(L)
            BY <1>3, EmptySeq
        <3> QED BY <3>1
    <2>2. b \in Seq(L)
        BY <1>2, <1>4
    <2>3. <<Blank>> \in Seq(L)
        BY <1>2
    <2> QED BY <2>1, <2>2, <2>3
<1>6. Lines(frame, split) = a \o b \o <<Blank>>
    BY DEF Lines
<1> HIDE DEF a, b
<1> QED BY <1>5, <1>6, ConcatProperties DEF L

-----------------------------------------------------------------------------
(* What the client makes of it is typed.                                   *)

ReaderType == [event : EventTypes, data : Seq(Fragments(Docs))]

LEMMA ReaderTypes ==
    ASSUME NEW rd \in ReaderType, NEW line \in LinesOf(EventTypes, Docs)
    PROVE  AfterLine(rd, line) \in ReaderType
<1>1. FreshReader \in ReaderType
    BY EmptySeq DEF FreshReader, ReaderType, EventTypes
<1>0. \/ line.field = "blank" \/ line.field = "other"
      \/ line.field = "event" /\ line.value \in EventTypes
      \/ line.field = "data" /\ line.value \in Fragments(Docs)
    <2>1. CASE line \in {Blank, Comment}
        <3>1. Blank.field = "blank" /\ Comment.field = "other"
            BY DEF Blank, Comment
        <3> QED BY <2>1, <3>1
    <2>2. CASE line \in [field : {"event"}, value : EventTypes]
        BY <2>2
    <2>3. CASE line \in [field : {"data"}, value : Fragments(Docs)]
        BY <2>3
    <2> QED BY <2>1, <2>2, <2>3 DEF LinesOf
<1>2. CASE line.field = "event"
    <2>1. line.value \in EventTypes
        BY <1>0, <1>2
    <2> QED BY <1>2, <2>1 DEF AfterLine, ReaderType
<1>3. CASE line.field = "data"
    <2>1. line.value \in Fragments(Docs)
        BY <1>0, <1>3
    <2>2. Append(rd.data, line.value) \in Seq(Fragments(Docs))
        BY <2>1, AppendProperties DEF ReaderType
    <2> QED BY <1>3, <2>2 DEF AfterLine, ReaderType
<1>4. CASE line.field = "blank"
    BY <1>1, <1>4 DEF AfterLine
<1> QED BY <1>2, <1>3, <1>4 DEF AfterLine

LEMMA DecodedTypes ==
    ASSUME NEW data \in Seq(Fragments(Docs)), data # <<>>
    PROVE  Decoded(data) \in Docs
<1>1. data[1] \in Fragments(Docs)
    BY EmptySeq, ElementOfSeq, LenProperties
<1>2. Document(data) \in Docs
    BY <1>1 DEF Document, Fragments
<1> QED BY <1>2, DocTypes DEF Decoded

LEMMA UsageTypes ==
    ASSUME NEW u \in UsageSet, NEW v \in UsageSet
    PROVE  /\ Copied(u) \in UsageSet
           /\ [Copied(u) EXCEPT !.total = IF @ > 0 THEN @ ELSE u.in + u.out] \in UsageSet
           /\ [u EXCEPT !.in = Larger(u.in, v.in), !.out = Larger(u.out, v.out),
                        !.cached = Larger(u.cached, v.cached),
                        !.creation = Larger(u.creation, v.creation)] \in UsageSet
<1>1. /\ u.in \in Nat /\ u.out \in Nat /\ u.cached \in Nat /\ u.creation \in Nat
      /\ v.in \in Nat /\ v.out \in Nat /\ v.cached \in Nat /\ v.creation \in Nat
    BY DEF UsageSet
<1>2. /\ u.in + u.out \in Nat
      /\ Larger(u.in, v.in) \in Nat /\ Larger(u.out, v.out) \in Nat
      /\ Larger(u.cached, v.cached) \in Nat /\ Larger(u.creation, v.creation) \in Nat
    BY <1>1 DEF Larger
<1>3. Copied(u) \in UsageSet
    BY DEF Copied, UsageSet
<1> DEFINE total == IF Copied(u).total > 0 THEN Copied(u).total ELSE u.in + u.out
<1>4. total \in Nat
    BY <1>2, <1>3 DEF UsageSet
<1>5. [Copied(u) EXCEPT !.total = total] \in UsageSet
    <2> HIDE DEF total
    <2> QED BY <1>3, <1>4 DEF UsageSet
<1>6. [u EXCEPT !.in = Larger(u.in, v.in), !.out = Larger(u.out, v.out),
                !.cached = Larger(u.cached, v.cached),
                !.creation = Larger(u.creation, v.creation)] \in UsageSet
    BY <1>2 DEF UsageSet
<1> QED BY <1>3, <1>5, <1>6

\* An event leaves a client that goes on with a result without verdict.
LEMMA TextGoing ==
    ASSUME NEW res, Going(res), NEW texts \in Seq(Nat)
    PROVE  Going(WithText(res, texts))
<1>1. CASE texts = <<>>
    BY <1>1 DEF WithText
<1>2. CASE texts # <<>>
    <2>1. res.text \in Seq(Nat)
        BY DEF Going, Result
    <2>2. res.text \o texts \in Seq(Nat) /\ res.text \o texts # <<>>
        BY <1>2, <2>1, ConcatProperties, ConcatEqualIffEmpty
    <2> QED BY <1>2, <2>2 DEF WithText, Going, Result
<1> QED BY <1>1, <1>2

LEMMA UsageGoing ==
    ASSUME NEW res, Going(res), NEW u \in UsageSet
    PROVE  Going([res EXCEPT !.usage = u])
BY DEF Going, Result

LEMMA TotalGoing ==
    ASSUME NEW res, Going(res), NEW u \in UsageSet
    PROVE  Going(WithTotal(res, u))
<1>1. Copied(u) \in UsageSet
    BY UsageTypes
<1> QED BY <1>1, UsageGoing DEF WithTotal

LEMMA AbsorbGoing ==
    ASSUME NEW res, Going(res), NEW event, NEW doc \in Docs, target.proto \in Protocols
    PROVE  Going(Absorb(res, event, doc))
<1>1. doc.texts \in Seq(Nat) /\ doc.usage \in UsageSet /\ doc.json \in BOOLEAN
    BY DEF Docs
<1>2. CASE target.proto = "openai"
    <2>1. Absorb(res, event, doc) = OpenAIChunk(res, event, doc)
        BY <1>2 DEF Absorb
    <2> QED BY <1>1, <2>1, TextGoing, TotalGoing DEF OpenAIChunk
<1>3. CASE target.proto = "google"
    <2>1. Absorb(res, event, doc) = GoogleChunk(res, event, doc)
        BY <1>3 DEF Absorb
    <2>2. ASSUME doc.texts # <<>> PROVE <<Head(doc.texts)>> \in Seq(Nat)
        <3>1. Head(doc.texts) \in Nat
            BY <1>1, <2>2, HeadTailProperties
        <3> QED BY <3>1
    <2> DEFINE parts == IF res.ttft \/ doc.texts = <<>> THEN doc.texts
                        ELSE <<Head(doc.texts)>>
               new == WithText(res, parts)
    <2>3. parts \in Seq(Nat)
        BY <1>1, <2>2
    <2>4. Going(new)
        BY <2>3, TextGoing
    <2>5. GoogleChunk(res, event, doc) \in {res, WithTotal(new, doc.usage)}
        BY DEF GoogleChunk
    <2> HIDE DEF new
    <2> QED BY <1>1, <2>1, <2>4, <2>5, TotalGoing
<1>4. CASE target.proto = "openai-responses"
    <2>1. Absorb(res, event, doc) = ResponsesEvent(res, event, doc)
        BY <1>4 DEF Absorb
    <2>2. Going(WithResponsesUsage(res, doc.usage))
        BY <1>1, UsageTypes, UsageGoing DEF WithResponsesUsage
    <2> QED BY <1>1, <2>1, <2>2, TextGoing DEF ResponsesEvent
<1>5. CASE target.proto = "anthropic"
    <2>1. Absorb(res, event, doc) = AnthropicEvent(res, event, doc)
        BY <1>5 DEF Absorb
    <2>2. Going(WithAnthropicUsage(res, doc.usage))
        <3> DEFINE v == [res.usage EXCEPT
                            !.in = Larger(res.usage.in, doc.usage.in),
                            !.out = Larger(res.usage.out, doc.usage.out),
                            !.cached = Larger(res.usage.cached, doc.usage.cached),
                            !.creation = Larger(res.usage.creation, doc.usage.creation)]
        <3>1. res.usage \in UsageSet /\ res \in Result
            BY DEF Going, Result
        <3>2. v \in UsageSet
            BY <1>1, <3>1, UsageTypes
        <3>3. WithAnthropicUsage(res, doc.usage) = [res EXCEPT !.usage = v]
            BY <3>1 DEF WithAnthropicUsage, Result, UsageSet
        <3> QED BY <3>2, <3>3, UsageGoing
    <2> QED BY <1>1, <2>1, <2>2, TextGoing DEF AnthropicEvent
<1> QED BY <1>2, <1>3, <1>4, <1>5 DEF Protocols

WithVerdict(res, success, e, u) ==
    [res EXCEPT !.success = success, !.errType = e, !.usage = u]

LEMMA VerdictTypes ==
    ASSUME NEW res \in Result, NEW success \in BOOLEAN, NEW e \in ErrTypes,
           NEW u \in UsageSet
    PROVE  /\ WithVerdict(res, success, e, u) \in Result
           /\ WithVerdict(res, success, e, u).success = success
           /\ WithVerdict(res, success, e, u).errType = e
           /\ WithVerdict(res, success, e, u).status = res.status
           /\ WithVerdict(res, success, e, u).text = res.text
<1>1. WithVerdict(res, success, e, u) \in Result
    BY DEF Result, ErrTypes, WithVerdict
<1> QED BY <1>1 DEF Result, WithVerdict

LEMMA OKIsNotZero == 200 # 0
OBVIOUS

LEMMA Verdict ==
    ASSUME NEW res \in Result, res.status = 200,
           res.success = TRUE <=> res.errType = "",
           res.success = TRUE => res.text # <<>>,
           res.errType \in {"", "parse_error", "api_error", "validation_error"}
    PROVE  Named(res)
<1>1. res.errType \notin NetworkClasses
    BY NetworkClassNames
<1> QED BY <1>1, OKIsNotZero, Zenon DEF Named

LEMMA ConcludedNamed ==
    ASSUME NEW res, Going(res)
    PROVE  Named(Concluded(res))
<1>1. res \in Result /\ res.usage \in UsageSet /\ res.ttft \in BOOLEAN
    BY DEF Going, Result
<1> DEFINE out   == Concluded(res)
           e     == IF res.ttft THEN "" ELSE "parse_error"
           total == IF target.proto = "anthropic" /\ res.usage.total = 0
                    THEN res.usage.in + res.usage.out ELSE res.usage.total
           u     == [res.usage EXCEPT !.total = total]
<1>2. total \in Nat
    BY <1>1 DEF UsageSet
<1>3. u \in UsageSet
    BY <1>1, <1>2 DEF UsageSet
<1>4. out = WithVerdict(res, res.ttft, e, u)
    BY <1>1 DEF Concluded, Result, UsageSet, WithVerdict
<1>5. /\ e \in {"", "parse_error"}
      /\ res.ttft = TRUE <=> e = ""
      /\ res.ttft = TRUE => res.text # <<>>
      /\ res.status = 200
    BY <1>1 DEF Going
<1> HIDE DEF e, u
<1>6. e \in ErrTypes
    BY <1>5 DEF ErrTypes
<1> HIDE DEF out, total
<1>7. /\ out \in Result /\ out.success = res.ttft /\ out.errType = e
      /\ out.status = res.status /\ out.text = res.text
    <2>1. \A t \in BOOLEAN : /\ WithVerdict(res, t, e, u) \in Result
                             /\ WithVerdict(res, t, e, u).success = t
                             /\ WithVerdict(res, t, e, u).errType = e
                             /\ WithVerdict(res, t, e, u).status = res.status
                             /\ WithVerdict(res, t, e, u).text = res.text
        BY <1>1, <1>3, <1>6, VerdictTypes
    <2> QED BY <1>1, <1>4, <2>1, Zenon
<1>8. Named(out)
    BY <1>5, <1>7, Verdict, Zenon
<1> QED BY <1>8 DEF out

\* An early return after an answer.
LEMMA FailedNamed ==
    ASSUME NEW res, Going(res), NEW errType \in {"parse_error", "api_error"}
    PROVE  Named([res EXCEPT !.errType = errType])
<1> DEFINE out == [res EXCEPT !.errType = errType]
<1>1. out \in Result
    BY HTTPErrorClassNames DEF Going, Result
<1>2. out.success = FALSE /\ out.status = 200 /\ out.errType = errType
    BY DEF Going, Result
<1> HIDE DEF out
<1>3. Named(out)
    BY <1>1, <1>2, Verdict
<1> QED BY <1>3 DEF out

\* A request that got no answer, and one that got another than 200.
LEMMA DialNamed ==
    ASSUME NEW res \in Result, res.success = FALSE, res.status = 0,
           NEW e \in NetworkClasses
    PROVE  Named([res EXCEPT !.errType = e])
<1> DEFINE out == [res EXCEPT !.errType = e]
<1>1. e \in ErrTypes /\ e # ""
    BY NetworkClassNames DEF ErrTypes
<1>2. out \in Result
    BY <1>1 DEF Result, ErrTypes
<1>3. out.success = res.success /\ out.status = res.status /\ out.errType = e
    BY DEF Result
<1> HIDE DEF out
<1>4. Named(out)
    BY <1>1, <1>2, <1>3, Zenon DEF Named
<1> QED BY <1>4 DEF out

LEMMA RefusedNamed ==
    ASSUME NEW res \in Result, res.success = FALSE, NEW code \in Nat \ {0},
           NEW e \in HTTPErrorClasses \ (NetworkClasses \cup {""})
    PROVE  Named([res EXCEPT !.status = code, !.errType = e])
<1> DEFINE out == [res EXCEPT !.status = code, !.errType = e]
<1>1. e \in ErrTypes /\ e # "" /\ e \notin NetworkClasses
    BY DEF ErrTypes
<1>2. out \in Result
    BY <1>1 DEF Result, ErrTypes
<1>3. out.success = res.success /\ out.status = code /\ out.errType = e
    BY DEF Result
<1>4. code # 0
    OBVIOUS
<1> HIDE DEF out
<1>5. Named(out)
    BY <1>1, <1>2, <1>3, <1>4, Zenon DEF Named
<1> QED BY <1>5 DEF out

LEMMA OKIsNat == 200 \in Nat
OBVIOUS

LEMMA AcceptedGoing ==
    ASSUME NEW res \in Result, res.success = FALSE, res.errType = "", res.ttft = FALSE
    PROVE  Going([res EXCEPT !.status = 200])
<1> DEFINE out == [res EXCEPT !.status = 200]
<1>1. out \in Result
    BY OKIsNat DEF Result
<1>2. /\ out.success = res.success /\ out.errType = res.errType
      /\ out.ttft = res.ttft
    BY DEF Result
<1>3. out.status = 200
    BY DEF Result
<1> HIDE DEF out
<1>4. Going(out)
    BY <1>1, <1>2, <1>3, Zenon DEF Going
<1> QED BY <1>4 DEF out

\* A body in one piece.
LEMMA BodyNamed ==
    ASSUME NEW res, Going(res), NEW texts \in Seq(Nat), NEW success \in BOOLEAN,
           success = TRUE <=> texts # <<>>,
           NEW e \in {"", "parse_error"}, success = TRUE <=> e = ""
    PROVE  Named([res EXCEPT !.text = texts, !.ttft = TRUE,
                             !.success = success, !.errType = e])
<1> DEFINE out == [res EXCEPT !.text = texts, !.ttft = TRUE,
                              !.success = success, !.errType = e]
<1>1. res \in Result /\ res.status = 200
    BY Zenon DEF Going
<1>2. e \in ErrTypes
    BY DEF ErrTypes
<1>3. out \in Result
    <2>1. res \in Result
        BY <1>1
    <2> QED BY <2>1, <1>2 DEF Result, ErrTypes
<1>4. /\ out.success = success /\ out.errType = e
      /\ out.status = res.status /\ out.text = texts
    <2>1. res \in Result
        BY <1>1
    <2> QED BY <2>1 DEF Result
<1> HIDE DEF out
<1>5. Named(out)
    BY <1>1, <1>3, <1>4, Verdict, Zenon
<1> QED BY <1>5 DEF out

\* expect_pattern overrules a success.
LEMMA OverruledNamed ==
    ASSUME NEW res, Named(res), res.success = TRUE
    PROVE  Named([res EXCEPT !.success = FALSE, !.errType = "validation_error"])
<1> DEFINE out == [res EXCEPT !.success = FALSE, !.errType = "validation_error"]
<1>1. res \in Result /\ res.status = 200
    BY Zenon DEF Named
<1>2. out \in Result
    BY <1>1 DEF Result
<1>3. /\ out.success = FALSE /\ out.status = res.status
    BY <1>1 DEF Result
<1>4. out.errType = "validation_error"
    BY <1>1 DEF Result
<1> HIDE DEF out
<1>5. Named(out)
    BY <1>1, <1>2, <1>3, <1>4, Verdict, Zenon
<1> QED BY <1>5 DEF out

-----------------------------------------------------------------------------
(* The steps.                                                              *)

\* What a step leaves to show, given what it made of phase and result.
Settled ==
    /\ result \in Result /\ phase \in Phases
    /\ Outcome

LEMMA SettledGoing ==
    ASSUME phase' \in {"reading", "body"}, Going(result')
    PROVE  Settled'
<1>1. result' \in Result
    BY Zenon DEF Going
<1> QED BY <1>1 DEF Settled, Outcome, Phases

LEMMA SettledNamed ==
    ASSUME phase' \in {"ended", "recorded"}, Named(result')
    PROVE  Settled'
<1>1. result' \in Result
    BY Zenon DEF Named
<1> QED BY <1>1 DEF Settled, Outcome, Phases

\* The variables other than phase and result.
Surroundings ==
    /\ target \in Targets
    /\ reader \in ReaderType
    /\ wire \in Seq(LinesOf(EventTypes, Docs))
    /\ said \in Seq(Events) /\ Len(said) <= MaxFrames
    /\ pieces \in Nat
    /\ open \in BOOLEAN /\ cut \in BOOLEAN
    /\ interrupted \in Causes \cup {""}

LEMMA TypeParts == TypeOK /\ Outcome <=> Surroundings /\ Settled
BY Zenon DEF TypeOK, Surroundings, Settled, ReaderType, Events

LEMMA SurroundingsInit == Init => Surroundings
<1>1. FreshReader \in ReaderType
    BY EmptySeq DEF FreshReader, ReaderType, EventTypes
<1>2. <<>> \in Seq(LinesOf(EventTypes, Docs)) /\ <<>> \in Seq(Events) /\ Len(<<>>) = 0
    BY EmptySeq
<1>3. 0 <= MaxFrames
    BY ProviderAssumption
<1> SUFFICES ASSUME Init PROVE Surroundings
    OBVIOUS
<1>4. /\ target \in Targets /\ reader \in ReaderType
      /\ wire \in Seq(LinesOf(EventTypes, Docs)) /\ said \in Seq(Events)
    BY <1>1, <1>2 DEF Init
<1>5. Len(said) <= MaxFrames /\ pieces \in Nat
    BY <1>2, <1>3 DEF Init
<1>6. open \in BOOLEAN /\ cut \in BOOLEAN /\ interrupted \in Causes \cup {""}
    BY DEF Init
<1> QED BY <1>4, <1>5, <1>6 DEF Surroundings

LEMMA SettledInit == Init => Settled
<1> SUFFICES ASSUME Init PROVE Settled
    OBVIOUS
<1>1. result = [success |-> FALSE, ttft |-> FALSE, text |-> <<>>,
                usage |-> NoUsage, errType |-> "", status |-> 0] /\ phase = "dialing"
    BY DEF Init
<1>2. NoUsage \in UsageSet /\ <<>> \in Seq(Nat) /\ "" \in ErrTypes
    BY EmptySeq DEF NoUsage, UsageSet, ErrTypes
<1>3. result \in Result
    BY <1>1, <1>2 DEF Result, ErrTypes
<1>4. /\ result.success = FALSE /\ result.ttft = FALSE
    BY <1>1
<1>5. result.errType = ""
    BY <1>1
<1>6. result.status = 0
    BY <1>1
<1> QED BY <1>1, <1>3, <1>4, <1>5, <1>6 DEF Settled, Outcome, Phases

\* Only the provider and the reader change the surroundings.
LEMMA SurroundingsNext ==
    ASSUME Surroundings, [Next]_vars
    PROVE  Surroundings'
<1> USE DEF Surroundings
<1>1. ASSUME NEW frame \in NextFrames(target.proto), NEW split \in {FALSE, frame.doc.json},
             SendFrame(frame, split)
      PROVE  Surroundings'
    <2>1. frame \in Events
        BY FrameTypes, TargetAssumption
    <2>2. split \in BOOLEAN /\ Len(frame.doc.texts) \in Nat
        <3>1. frame.doc \in Docs
            BY <2>1 DEF Events
        <3>2. frame.doc.json \in BOOLEAN /\ frame.doc.texts \in Seq(Nat)
            BY <3>1 DEF Docs
        <3> QED BY <3>2, LenProperties
    <2>3. wire' \in Seq(LinesOf(EventTypes, Docs))
        BY <1>1, <2>1, <2>2, LineTypes DEF SendFrame
    <2>4. said' \in Seq(Events) /\ Len(said') = Len(said) + 1 /\ Len(said) \in Nat
        BY <1>1, <2>1, AppendProperties, LenProperties DEF SendFrame
    <2>5. Len(said') <= MaxFrames
        <3>1. Len(said) < MaxFrames /\ MaxFrames \in Nat
            BY <1>1, ProviderAssumption DEF SendFrame
        <3> HIDE DEF Surroundings
        <3> QED BY <2>4, <3>1
    <2>6. pieces' \in Nat
        <3>1. pieces' = pieces + Len(frame.doc.texts) /\ pieces \in Nat
            BY <1>1 DEF SendFrame
        <3> HIDE DEF Surroundings
        <3> QED BY <2>2, <3>1
    <2>7. UNCHANGED <<target, reader, open, cut, interrupted>>
        BY <1>1 DEF SendFrame
    <2> QED BY <2>3, <2>4, <2>5, <2>6, <2>7
<1>2. ASSUME NEW n \in 0 .. Len(wire), CloseStream(n) PROVE Surroundings'
    <2>1. wire' \in Seq(LinesOf(EventTypes, Docs))
        <3>0. wire \in Seq(LinesOf(EventTypes, Docs)) /\ Len(wire) \in Nat
            BY LenProperties
        <3> HIDE DEF Surroundings
        <3>1. ASSUME NEW i \in 1 .. n PROVE wire[i] \in LinesOf(EventTypes, Docs)
            <4>1. i \in 1 .. Len(wire)
                BY <3>0
            <4> QED BY <3>0, <4>1, ElementOfSeq
        <3>2. n \in Int /\ 1 \in Int
            BY <3>0
        <3> QED BY <1>2, <3>1, <3>2, SubSeqProperties DEF CloseStream
    <2>2. open' \in BOOLEAN /\ cut' \in BOOLEAN
        BY <1>2 DEF CloseStream
    <2> QED BY <1>2, <2>1, <2>2 DEF CloseStream
<1>3. CASE ReadLine
    <2>1. /\ Head(wire) \in LinesOf(EventTypes, Docs)
          /\ Tail(wire) \in Seq(LinesOf(EventTypes, Docs))
        BY <1>3, HeadTailProperties DEF ReadLine
    <2>2. AfterLine(reader, Head(wire)) \in ReaderType
        BY <2>1, ReaderTypes
    <2> QED BY <1>3, <2>1, <2>2 DEF ReadLine
<1>4. CASE ReadEOF
    <2>1. FreshReader \in ReaderType
        BY EmptySeq DEF FreshReader, ReaderType, EventTypes
    <2> QED BY <1>4, <2>1 DEF ReadEOF, serverVars
<1>5. ASSUME NEW cause \in Causes, DialFails(cause) \/ ReadFails(cause)
      PROVE  Surroundings'
    BY <1>5 DEF DialFails, ReadFails, serverVars
<1>6. CASE UNCHANGED <<target, reader, serverVars, interrupted>>
    BY <1>6 DEF serverVars
<1>7. \A code, words, doc :
        Refused(code, words) \/ Accepted \/ ReceiveBody(doc) \/ Record \/ UNCHANGED vars
          => UNCHANGED <<target, reader, serverVars, interrupted>>
    BY Zenon DEF Refused, Accepted, ReceiveBody, Record, vars, serverVars
<1>8. {"deadline", "reset", "canceled"} \subseteq Causes
    BY DEF Causes
<1>12. CASE SendBareEvent
    <2>1. EventLine("ping") \in LinesOf(EventTypes, Docs) /\ Blank \in LinesOf(EventTypes, Docs)
        <3>1. "ping" \in EventTypes
            BY DEF EventTypes
        <3> QED BY <3>1 DEF EventLine, LinesOf
    <2>2. wire' \in Seq(LinesOf(EventTypes, Docs))
        BY <1>12, <2>1, TwoLines DEF SendBareEvent
    <2> QED BY <1>12, <2>2 DEF SendBareEvent
<1> HIDE DEF Surroundings
<1>9. CASE Provider
    BY <1>1, <1>2, <1>9, <1>12 DEF Provider
<1>10. CASE Client
    BY <1>3, <1>4, <1>5, <1>6, <1>7, <1>8, <1>10 DEF Client
<1>11. CASE Expire
    BY <1>5, <1>8, <1>11 DEF Expire
<1> QED BY <1>6, <1>7, <1>9, <1>10, <1>11 DEF Next

\* The body of the loop.
LEMMA DispatchSettled ==
    ASSUME target.proto \in Protocols, phase = "reading", Going(result),
           NEW event, NEW doc \in Docs, Dispatch(event, doc)
    PROVE  Settled'
<1>1. CASE Stops(event, doc)
    BY <1>1, ConcludedNamed, SettledNamed DEF Dispatch
<1>2. CASE ~Stops(event, doc) /\ Fails(event)
    <2>1. Named([Absorb(result, event, doc) EXCEPT !.errType = "api_error"])
        BY AbsorbGoing, FailedNamed
    <2> QED BY <1>2, <2>1, SettledNamed DEF Dispatch
<1>3. CASE ~Stops(event, doc) /\ ~Fails(event)
    BY <1>3, AbsorbGoing, SettledGoing DEF Dispatch
<1> QED BY <1>1, <1>2, <1>3

LEMMA SettledNext ==
    ASSUME Surroundings, Settled, [Next]_vars
    PROVE  Settled'
<1>0. /\ phase = "dialing" => /\ result \in Result
                              /\ result.success = FALSE /\ result.errType = ""
                              /\ result.status = 0 /\ result.ttft = FALSE
      /\ phase \in {"reading", "body"} => Going(result)
      /\ phase \in {"ended", "recorded"} => Named(result)
    BY Zenon DEF Settled, Outcome
<1>1. target.proto \in Protocols
    BY TargetAssumption DEF Surroundings
<1>2. ASSUME NEW cause \in Causes, DialFails(cause) PROVE Settled'
    <2>1. NetworkClass(cause) \in NetworkClasses
        BY DEF NetworkClasses
    <2>2. Named([result EXCEPT !.errType = NetworkClass(cause)])
        BY <1>0, <1>2, <2>1, DialNamed, Zenon DEF DialFails
    <2> QED BY <1>2, <2>2, SettledNamed DEF DialFails, FailAs
<1>3. ASSUME NEW code \in Statuses, NEW words, Refused(code, words) PROVE Settled'
    <2>1. code \in Nat \ {0}
        BY ProviderAssumption
    <2>2. Named([result EXCEPT !.status = code, !.errType = HTTPErrorClass(code, words)])
        BY <1>0, <1>3, <2>1, HTTPErrorNamed, RefusedNamed, Zenon DEF Refused
    <2> QED BY <1>3, <2>2, SettledNamed DEF Refused
<1>4. CASE Accepted
    <2>1. Going([result EXCEPT !.status = 200])
        BY <1>0, <1>4, AcceptedGoing, Zenon DEF Accepted
    <2> QED BY <1>4, <2>1, SettledGoing DEF Accepted
<1>5. CASE ReadLine
    <2>1. CASE Emits(reader, Head(wire))
        <3>1. Decoded(reader.data) \in Docs
            BY <2>1, DecodedTypes DEF Emits, Surroundings, ReaderType
        <3> QED BY <1>0, <1>1, <1>5, <2>1, <3>1, DispatchSettled DEF ReadLine
    <2>2. CASE ~Emits(reader, Head(wire))
        BY <1>0, <1>5, <2>2, SettledGoing DEF ReadLine
    <2> QED BY <2>1, <2>2
<1>6. CASE ReadEOF
    <2>1. CASE EmitsAtEOF(reader)
        <3>1. Decoded(reader.data) \in Docs
            BY <2>1, DecodedTypes DEF EmitsAtEOF, Surroundings, ReaderType
        <3> QED BY <1>0, <1>1, <1>6, <2>1, <3>1, DispatchSettled DEF ReadEOF
    <2>2. CASE ~EmitsAtEOF(reader)
        BY <1>0, <1>6, <2>2, ConcludedNamed, SettledNamed DEF ReadEOF
    <2> QED BY <2>1, <2>2
<1>7. ASSUME NEW cause, ReadFails(cause) PROVE Settled'
    <2>1. Named([result EXCEPT !.errType = "parse_error"])
        BY <1>0, <1>7, FailedNamed DEF ReadFails
    <2> QED BY <1>7, <2>1, SettledNamed DEF ReadFails, FailAs
<1>8. ASSUME NEW doc \in Docs, ReceiveBody(doc) PROVE Settled'
    <2>1. Going(result) /\ doc.json \in BOOLEAN /\ doc.texts \in Seq(Nat) /\ doc.usage \in UsageSet
        BY <1>0, <1>8 DEF ReceiveBody, Docs
    <2>2. CASE ~doc.json
        <3>1. Named([result EXCEPT !.errType = "parse_error"])
            BY <2>1, FailedNamed
        <3> QED BY <1>8, <2>2, <3>1, SettledNamed DEF ReceiveBody
    <2>3. CASE doc.json
        <3> DEFINE new == IF target.proto = "openai" THEN [result EXCEPT !.usage = Copied(doc.usage)]
                          ELSE WithResponsesUsage(result, doc.usage)
                   success == doc.texts # <<>>
                   e == IF doc.texts # <<>> THEN "" ELSE "parse_error"
        <3>1. Going(new)
            BY <2>1, UsageGoing, UsageTypes DEF WithResponsesUsage
        <3>2. /\ success \in BOOLEAN /\ (success = TRUE <=> doc.texts # <<>>)
              /\ e \in {"", "parse_error"} /\ (success = TRUE <=> e = "")
            OBVIOUS
        <3>3. phase' = "ended" /\ result' = [new EXCEPT !.text = doc.texts, !.ttft = TRUE,
                                                        !.success = success, !.errType = e]
            BY <1>8, <2>3 DEF ReceiveBody
        <3> HIDE DEF new, success, e
        <3>4. Named(result')
            BY <2>1, <3>1, <3>2, <3>3, BodyNamed
        <3> QED BY <3>3, <3>4, SettledNamed
    <2> QED BY <2>1, <2>2, <2>3
<1>9. CASE Record
    <2>1. Named(result) /\ result.success \in BOOLEAN
        BY <1>0, <1>9 DEF Record, Named, Result
    <2>2. CASE result.success /\ ~Matches(target.pattern, result.text)
        BY <1>9, <2>1, <2>2, OverruledNamed, SettledNamed DEF Record
    <2>3. CASE ~(result.success /\ ~Matches(target.pattern, result.text))
        BY <1>9, <2>1, <2>3, SettledNamed DEF Record
    <2> QED BY <2>2, <2>3
<1>10. CASE UNCHANGED <<phase, result>>
    BY <1>10 DEF Settled, Outcome
<1>11. Provider \/ UNCHANGED vars => UNCHANGED <<phase, result>>
    BY DEF Provider, SendFrame, SendBareEvent, CloseStream, vars
<1>12. \A u \in Usages, k \in 0 .. 1 : Doc(NextPieces(k), u) \in Docs
    <2>1. \A k \in 0 .. 1 : NextPieces(k) \in Seq(Nat)
        <3>1. pieces \in Nat
            BY DEF Surroundings
        <3>2. \A k \in 0 .. 1 : k \in 0 .. 2
            OBVIOUS
        <3> QED BY <3>1, <3>2, PieceTypes, Zenon
    <2>2. Usages \subseteq UsageSet
        BY ProviderAssumption
    <2> QED BY <2>1, <2>2, DocTypes
<1>13. NotJSON \in Docs /\ "deadline" \in Causes
    BY DocTypes DEF Causes
<1>14. CASE Client
    BY <1>2, <1>3, <1>4, <1>5, <1>6, <1>7, <1>8, <1>9, <1>12, <1>13, <1>14 DEF Client
<1>15. CASE Expire
    BY <1>2, <1>7, <1>13, <1>15 DEF Expire
<1> QED BY <1>10, <1>11, <1>14, <1>15 DEF Next

\* Probe in the four clients and probe in scheduler.go: the variables keep
\* their types, whatever the provider sends.
THEOREM TypeCorrect == Spec => []TypeOK
<1> DEFINE Inv == Surroundings /\ Settled
<1>1. Init => Inv
    BY SurroundingsInit, SettledInit
<1>2. Inv /\ [Next]_vars => Inv'
    BY SurroundingsNext, SettledNext
<1>3. Inv => TypeOK
    BY TypeParts
<1> QED BY <1>1, <1>2, <1>3, PTL DEF Spec

\* The outcome of a probe (openai_compat.go, openai_responses.go, anthropic.go,
\* google.go, errors.go): a probe that is not a success has an error type and a
\* success has none, an answer and text; the status label is 0 exactly for
\* failures of the network.
THEOREM EveryFailureNamed == Spec => []FailuresNamed
<1> DEFINE Inv == Surroundings /\ Settled
<1>1. Init => Inv
    BY SurroundingsInit, SettledInit
<1>2. Inv /\ [Next]_vars => Inv'
    BY SurroundingsNext, SettledNext
<1>3. Inv => FailuresNamed
    <2>1. ASSUME Inv, phase = "recorded"
          PROVE  Named(result) /\ result.success \in BOOLEAN
        BY <2>1 DEF Settled, Outcome, Result
    <2> QED BY <2>1, Zenon DEF FailuresNamed, Named
<1> QED BY <1>1, <1>2, <1>3, PTL DEF Spec

-----------------------------------------------------------------------------
(* A failure the provider declared reaches the client.                     *)

FailEvents == {"response.failed", "response.incomplete"}

Last == said[Len(said)]

Declared ==
    /\ target.proto = "openai-responses" /\ ~cut
    /\ said # <<>> /\ Last.event \in FailEvents

\* What is still to be read of a frame, and what was read of it.
Ahead(frame) ==
    LET whole  == DataLine(Fragment(frame.doc, 1, 1))
        first  == DataLine(Fragment(frame.doc, 1, 2))
        second == DataLine(Fragment(frame.doc, 2, 2))
    IN  \/ \/ wire = <<EventLine(frame.event), whole, Blank>>
           \/ wire = <<EventLine(frame.event), first, Comment, second, Blank>>
        \/ /\ reader.event = frame.event
           /\ wire = <<whole, Blank>> \/ wire = <<first, Comment, second, Blank>>
        \/ /\ reader.event = frame.event /\ reader.data # <<>>
           /\ \/ wire = <<Comment, second, Blank>>
              \/ wire = <<second, Blank>>
              \/ wire = <<Blank>>

\* Only the end of a stream cuts it.
Uncut == open => ~cut

Failing ==
    /\ phase \in {"dialing", "body"} => said = <<>>
    /\ phase = "reading" /\ Declared => Ahead(Last)
    /\ phase \in {"ended", "recorded"} /\ Declared => result.success = FALSE

LEMMA BlankLine ==
    ASSUME NEW rd
    PROVE  Emits(rd, Blank) <=> rd.data # <<>>
<1>1. Blank.field = "blank"
    BY DEF Blank
<1> QED BY <1>1, Zenon DEF Emits

LEMMA EventLineRead ==
    ASSUME NEW rd \in ReaderType, NEW e \in EventTypes
    PROVE  ~Emits(rd, EventLine(e)) /\ AfterLine(rd, EventLine(e)).event = e
<1>1. EventLine(e).field = "event"
    BY DEF EventLine
<1>2. EventLine(e).value = e
    BY DEF EventLine
<1>3. AfterLine(rd, EventLine(e)) = [rd EXCEPT !.event = e]
    BY <1>1, <1>2 DEF AfterLine
<1> QED BY <1>1, <1>3 DEF Emits, ReaderType

LEMMA DataLineRead ==
    ASSUME NEW rd \in ReaderType, NEW d \in Fragments(Docs)
    PROVE  /\ ~Emits(rd, DataLine(d))
           /\ AfterLine(rd, DataLine(d)).event = rd.event
           /\ AfterLine(rd, DataLine(d)).data # <<>>
<1>1. DataLine(d).field = "data"
    BY DEF DataLine
<1>2. DataLine(d).value = d
    BY DEF DataLine
<1>3. AfterLine(rd, DataLine(d)) = [rd EXCEPT !.data = Append(rd.data, d)]
    BY <1>1, <1>2 DEF AfterLine, ReaderType
<1>4. Append(rd.data, d) # <<>>
    BY AppendProperties DEF ReaderType
<1> QED BY <1>1, <1>3, <1>4 DEF Emits, ReaderType

LEMMA CommentRead ==
    ASSUME NEW rd
    PROVE  ~Emits(rd, Comment) /\ AfterLine(rd, Comment) = rd
<1>1. Comment.field = "other"
    BY DEF Comment
<1> QED BY <1>1 DEF Emits, AfterLine

\* Reading a line of the declared failure: on to the next line, or the end.
LEMMA FailureRead ==
    ASSUME Surroundings, Settled, phase = "reading", Declared, Ahead(Last), ReadLine
    PROVE  \/ Ahead(Last)' /\ phase' = "reading"
           \/ phase' = "ended" /\ result'.success = FALSE
<1>1. /\ reader \in ReaderType /\ Last.event \in EventTypes /\ Last.doc \in Docs
      /\ Last' = Last /\ wire' = Tail(wire) /\ reader' = AfterLine(reader, Head(wire))
    <2>1. said' = said /\ wire' = Tail(wire) /\ reader' = AfterLine(reader, Head(wire))
        BY DEF ReadLine
    <2>2. said \in Seq(Events) /\ said # <<>> /\ reader \in ReaderType
        BY DEF Surroundings, Declared
    <2>3. Last \in Events
        <3>1. Len(said) \in 1 .. Len(said)
            BY <2>2, EmptySeq
        <3> QED BY <2>2, <3>1, ElementOfSeq DEF Last
    <2> QED BY <2>1, <2>2, <2>3 DEF Events, Last
<1> DEFINE whole  == DataLine(Fragment(Last.doc, 1, 1))
           first  == DataLine(Fragment(Last.doc, 1, 2))
           second == DataLine(Fragment(Last.doc, 2, 2))
<1>2. \A i, j \in 1 .. 2 : Fragment(Last.doc, i, j) \in Fragments(Docs)
    BY <1>1 DEF Fragment, Fragments
<1>3. ASSUME ~Emits(reader, Head(wire)) PROVE phase' = "reading"
    BY <1>3 DEF ReadLine
<1>4. CASE \/ wire = <<EventLine(Last.event), whole, Blank>>
           \/ wire = <<EventLine(Last.event), first, Comment, second, Blank>>
    <2>1. /\ Head(wire) = EventLine(Last.event)
          /\ wire' = <<whole, Blank>> \/ wire' = <<first, Comment, second, Blank>>
        <3> DEFINE line == EventLine(Last.event)
        <3> HIDE DEF whole, first, second, line
        <3>1. CASE wire = <<line, whole, Blank>>
            BY <1>1, <3>1 DEF line
        <3>2. CASE wire = <<line, first, Comment, second, Blank>>
            BY <1>1, <3>2 DEF line
        <3> QED BY <1>4, <3>1, <3>2 DEF line
    <2>2. reader'.event = Last.event /\ phase' = "reading"
        BY <1>1, <1>3, <2>1, EventLineRead
    <2> HIDE DEF whole, first, second
    <2> QED BY <1>1, <2>1, <2>2 DEF Ahead, whole, first, second
<1>5. ASSUME reader.event = Last.event,
             wire = <<whole, Blank>> \/ wire = <<first, Comment, second, Blank>>
      PROVE  Ahead(Last)' /\ phase' = "reading"
    <2>1. ~Emits(reader, Head(wire)) /\ reader'.event = reader.event /\ reader'.data # <<>>
        BY <1>1, <1>2, <1>5, DataLineRead
    <2> HIDE DEF whole, first, second
    <2>2. CASE wire = <<whole, Blank>>
        <3>1. wire' = <<Blank>>
            BY <1>1, <2>2
        <3> QED BY <1>1, <1>3, <1>5, <2>1, <3>1 DEF Ahead
    <2>3. CASE wire = <<first, Comment, second, Blank>>
        <3>1. wire' = <<Comment, second, Blank>>
            BY <1>1, <2>3
        <3> QED BY <1>1, <1>3, <1>5, <2>1, <3>1 DEF Ahead, second
    <2> QED BY <1>5, <2>2, <2>3
<1>6. ASSUME reader.event = Last.event, reader.data # <<>>, wire = <<Comment, second, Blank>>
      PROVE  Ahead(Last)' /\ phase' = "reading"
    <2> HIDE DEF whole, first, second
    <2>1. Head(wire) = Comment /\ wire' = <<second, Blank>>
        BY <1>1, <1>6
    <2>2. reader' = reader /\ phase' = "reading"
        BY <1>1, <1>3, <2>1, CommentRead
    <2> QED BY <1>1, <1>6, <2>1, <2>2 DEF Ahead, second
<1>7. ASSUME reader.event = Last.event, reader.data # <<>>, wire = <<second, Blank>>
      PROVE  Ahead(Last)' /\ phase' = "reading"
    <2>1. ~Emits(reader, Head(wire)) /\ reader'.event = reader.event /\ reader'.data # <<>>
        BY <1>1, <1>2, <1>7, DataLineRead
    <2> HIDE DEF whole, first, second
    <2>2. wire' = <<Blank>>
        BY <1>1, <1>7
    <2> QED BY <1>1, <1>3, <1>7, <2>1, <2>2 DEF Ahead
<1>8. ASSUME reader.event = Last.event, reader.data # <<>>, wire = <<Blank>>
      PROVE  phase' = "ended" /\ result'.success = FALSE
    <2> DEFINE doc == Decoded(reader.data)
    <2>1. Dispatch(Last.event, doc)
        BY <1>8, BlankLine DEF ReadLine
    <2>2. doc \in Docs /\ Going(result) /\ target.proto \in Protocols
        BY <1>1, <1>8, DecodedTypes, TargetAssumption
        DEF ReaderType, Surroundings, Settled, Outcome
    <2> HIDE DEF doc
    <2>3. ~Stops(Last.event, doc) /\ Fails(Last.event)
        BY DEF Declared, FailEvents, Stops, Fails
    <2>4. phase' = "ended"
          /\ result' = [Absorb(result, Last.event, doc) EXCEPT !.errType = "api_error"]
        BY <2>1, <2>3 DEF Dispatch
    <2>5. Going(Absorb(result, Last.event, doc))
        BY <2>2, AbsorbGoing
    <2>6. Named(result') /\ result'.errType = "api_error"
        BY <2>4, <2>5, FailedNamed DEF Going, Result
    <2>7. "api_error" # ""
        OBVIOUS
    <2>8. result'.success \in BOOLEAN /\ result'.success # TRUE
        BY <2>6, <2>7, Zenon DEF Named, Result
    <2> QED BY <2>4, <2>8
<1> QED BY <1>4, <1>5, <1>6, <1>7, <1>8 DEF Ahead

\* What is put together from one line, some more and another.
LEMMA Framed ==
    ASSUME NEW S, NEW a \in S, NEW t \in Seq(S), NEW z \in S
    PROVE  LET q == <<a>> \o t \o <<z>>
           IN  /\ q \in Seq(S) /\ Len(q) = Len(t) + 2
               /\ q[1] = a /\ q[Len(t) + 2] = z
               /\ \A i \in 1 .. Len(t) : q[i + 1] = t[i]
<1>1. <<a>> \in Seq(S) /\ <<z>> \in Seq(S) /\ Len(<<a>>) = 1 /\ Len(<<z>>) = 1
      /\ <<a>>[1] = a /\ <<z>>[1] = z /\ Len(t) \in Nat
    BY LenProperties
<1> DEFINE p == <<a>> \o t
           q == p \o <<z>>
<1>2. /\ p \in Seq(S) /\ Len(p) = 1 + Len(t) /\ p[1] = a
      /\ \A i \in 1 .. Len(t) : p[i + 1] = t[i]
    BY <1>1, ConcatProperties
<1> HIDE DEF p
<1>3. /\ q \in Seq(S) /\ Len(q) = Len(p) + 1 /\ q[Len(p) + 1] = z
      /\ \A i \in 1 .. Len(p) : q[i] = p[i]
    BY <1>1, <1>2, ConcatProperties
<1> HIDE DEF q
<1>4. \A i \in 1 .. Len(t) : i + 1 \in 1 .. Len(p) /\ q[i + 1] = t[i]
    BY <1>1, <1>2, <1>3
<1>5. q[1] = a /\ Len(q) = Len(t) + 2 /\ q[Len(t) + 2] = z /\ q \in Seq(S)
    BY <1>1, <1>2, <1>3
<1> QED BY <1>4, <1>5 DEF q, p

LEMMA ThreeLines ==
    ASSUME NEW a, NEW b, NEW e
    PROVE  <<a>> \o <<b>> \o <<e>> = <<a, b, e>>
<1> DEFINE S == {a, b, e}
           q == <<a>> \o <<b>> \o <<e>>
           r == <<a, b, e>>
<1>1. <<b>> \in Seq(S) /\ Len(<<b>>) = 1
    OBVIOUS
<1>2. /\ q \in Seq(S) /\ Len(q) = 3 /\ q[1] = a /\ q[3] = e
      /\ \A i \in 1 .. 1 : q[i + 1] = <<b>>[i]
    BY <1>1, Framed
<1>3. r \in Seq(S) /\ Len(r) = 3 /\ r[1] = a /\ r[2] = b /\ r[3] = e
    OBVIOUS
<1> HIDE DEF S, q
<1>4. q[2] = b
    BY <1>2
<1> HIDE DEF r
<1>5. \A i \in 1 .. 3 : q[i] = r[i]
    BY <1>2, <1>3, <1>4
<1>6. q = r
    BY <1>2, <1>3, <1>5, SeqEqual
<1> QED BY <1>6 DEF q, r

LEMMA FiveLines ==
    ASSUME NEW a, NEW b, NEW c, NEW d, NEW e
    PROVE  <<a>> \o <<b, c, d>> \o <<e>> = <<a, b, c, d, e>>
<1> DEFINE S == {a, b, c, d, e}
           q == <<a>> \o <<b, c, d>> \o <<e>>
           r == <<a, b, c, d, e>>
<1>1. <<b, c, d>> \in Seq(S) /\ Len(<<b, c, d>>) = 3
    OBVIOUS
<1>2. /\ q \in Seq(S) /\ Len(q) = 5 /\ q[1] = a /\ q[5] = e
      /\ \A i \in 1 .. 3 : q[i + 1] = <<b, c, d>>[i]
    BY <1>1, Framed
<1>3. /\ r \in Seq(S) /\ Len(r) = 5
      /\ r[1] = a /\ r[2] = b /\ r[3] = c /\ r[4] = d /\ r[5] = e
    OBVIOUS
<1> HIDE DEF S, q
<1>4. q[2] = b /\ q[3] = c /\ q[4] = d
    BY <1>2
<1> HIDE DEF r
<1>5. \A i \in 1 .. 5 : q[i] = r[i]
    BY <1>2, <1>3, <1>4
<1>6. q = r
    BY <1>2, <1>3, <1>5, SeqEqual
<1> QED BY <1>6 DEF q, r

\* A frame that declares a failure is all that is to be read.
LEMMA FailureSent ==
    ASSUME NEW frame, NEW split \in BOOLEAN, said \in Seq(Events), frame \in Events,
           SendFrame(frame, split), Declared'
    PROVE  Ahead(Last)'
<1>1. said' = Append(said, frame) /\ wire' = Lines(frame, split)
    BY DEF SendFrame
<1>2. Last' = frame
    <2>1. Len(said') = Len(said) + 1 /\ said'[Len(said) + 1] = frame
        BY <1>1, AppendProperties
    <2> QED BY <2>1 DEF Last
<1>3. frame.event # ""
    BY <1>2 DEF Declared, FailEvents
<1> DEFINE line   == EventLine(frame.event)
           whole  == DataLine(Fragment(frame.doc, 1, 1))
           first  == DataLine(Fragment(frame.doc, 1, 2))
           second == DataLine(Fragment(frame.doc, 2, 2))
<1>4. Lines(frame, split) = <<line>> \o (IF split THEN <<first, Comment, second>>
                                                  ELSE <<whole>>) \o <<Blank>>
    BY <1>3 DEF Lines
<1> HIDE DEF line, whole, first, second
<1>5. CASE split
    <2>1. wire' = <<line>> \o <<first, Comment, second>> \o <<Blank>>
        BY <1>1, <1>4, <1>5
    <2>2. wire' = <<line, first, Comment, second, Blank>>
        BY <2>1, FiveLines
    <2> QED BY <1>2, <2>2 DEF Ahead, line, first, second
<1>6. CASE ~split
    <2>1. wire' = <<line>> \o <<whole>> \o <<Blank>>
        BY <1>1, <1>4, <1>6
    <2>2. wire' = <<line, whole, Blank>>
        BY <2>1, ThreeLines
    <2> QED BY <1>2, <2>2 DEF Ahead, line, whole
<1> QED BY <1>5, <1>6

\* A stream that is closed and not cut keeps its lines.
LEMMA FailureKept ==
    ASSUME NEW S, wire \in Seq(S), NEW n \in 0 .. Len(wire), CloseStream(n), ~cut'
    PROVE  wire' = wire
<1>1. n = Len(wire)
    <2>1. ~(n < Len(wire)) /\ n <= Len(wire)
        BY DEF CloseStream
    <2>2. Len(wire) \in Nat
        BY LenProperties
    <2> QED BY <2>1, <2>2
<1>2. wire' = SubSeq(wire, 1, Len(wire))
    BY <1>1 DEF CloseStream
<1> QED BY <1>2, SubSeqFull

LEMMA UncutNext == Uncut /\ [Next]_vars => Uncut'
<1> SUFFICES ASSUME Uncut, [Next]_vars PROVE Uncut'
    OBVIOUS
<1>1. ASSUME UNCHANGED <<open, cut>> PROVE Uncut'
    BY <1>1 DEF Uncut
<1>2. ASSUME NEW n, CloseStream(n) PROVE Uncut'
    BY <1>2 DEF CloseStream, Uncut
<1>3. ASSUME NEW frame, NEW split, SendFrame(frame, split) PROVE Uncut'
    BY <1>1, <1>3 DEF SendFrame
<1>8. CASE SendBareEvent
    BY <1>1, <1>8 DEF SendBareEvent
<1>4. CASE Client
    <2>1. UNCHANGED <<open, cut>>
        BY <1>4 DEF Client, DialFails, Refused, Accepted, ReadLine, ReadEOF, ReadFails,
                    ReceiveBody, Record, serverVars
    <2> QED BY <1>1, <2>1
<1>5. CASE Expire
    BY <1>1, <1>5 DEF Expire, DialFails, ReadFails, serverVars
<1>6. CASE UNCHANGED vars
    BY <1>1, <1>6 DEF vars, serverVars
<1>7. CASE Provider
    BY <1>2, <1>3, <1>7, <1>8 DEF Provider
<1> QED BY <1>4, <1>5, <1>6, <1>7 DEF Next

LEMMA FailingInit == Init => Uncut /\ Failing
BY DEF Init, Uncut, Failing, Declared

LEMMA FailingNext ==
    ASSUME Surroundings, Settled, Uncut, Failing, [Next]_vars
    PROVE  Failing'
<1>0. /\ phase = "dialing" => result.success = FALSE
      /\ phase \in {"reading", "body"} => result.success = FALSE
    BY Zenon DEF Settled, Outcome, Going
<1>1. ASSUME NEW frame \in NextFrames(target.proto), NEW split \in {FALSE, frame.doc.json},
             SendFrame(frame, split)
      PROVE  Failing'
    <2>1. frame \in Events
        BY FrameTypes, TargetAssumption DEF Surroundings
    <2>2. split \in BOOLEAN
        BY <2>1 DEF Events, Docs
    <2>3. Declared' => Ahead(Last)'
        BY <1>1, <2>1, <2>2, FailureSent DEF Surroundings
    <2>4. phase' = "reading"
        BY <1>1 DEF SendFrame
    <2> QED BY <2>3, <2>4 DEF Failing
<1>2. ASSUME NEW n \in 0 .. Len(wire), CloseStream(n) PROVE Failing'
    <2>1. phase = "reading" /\ phase' = "reading" /\ UNCHANGED <<target, reader, said>>
        BY <1>2 DEF CloseStream
    <2>2. ASSUME Declared' PROVE Ahead(Last)'
        <3>1. ~cut' /\ Terminated
            BY <2>1, <2>2 DEF Declared, FailEvents, Terminated, Terminal, Last
        <3>2. wire' = wire
            BY <1>2, <3>1, FailureKept DEF Surroundings
        <3>3. ~cut
            BY <1>2 DEF CloseStream, Uncut
        <3> QED BY <2>1, <2>2, <3>2, <3>3 DEF Failing, Declared, Ahead, Last
    <2> QED BY <2>1, <2>2 DEF Failing
<1>3. CASE ReadLine
    <2>1. /\ phase = "reading" /\ phase' \in {"reading", "ended"}
          /\ UNCHANGED <<target, said, cut>>
        BY <1>3 DEF ReadLine, Dispatch
    <2>2. Declared' <=> Declared
        BY <2>1 DEF Declared, Last
    <2>3. ASSUME Declared
          PROVE  \/ Ahead(Last)' /\ phase' = "reading"
                 \/ phase' = "ended" /\ result'.success = FALSE
        <3>1. Ahead(Last)
            BY <2>1, <2>3 DEF Failing
        <3> QED BY <1>3, <2>1, <2>3, <3>1, FailureRead
    <2> QED BY <2>1, <2>2, <2>3 DEF Failing
<1>4. CASE ReadEOF
    <2>1. phase = "reading" /\ wire = <<>> /\ phase' \in {"reading", "ended"}
          /\ UNCHANGED <<target, said, cut>>
        BY <1>4 DEF ReadEOF, Dispatch, serverVars
    <2>2. ~Declared
        BY <2>1 DEF Failing, Ahead
    <2>3. ~Declared'
        BY <2>1, <2>2 DEF Declared, Last
    <2> QED BY <2>1, <2>3 DEF Failing
<1>5. ASSUME phase \in {"dialing", "reading", "body"}, phase' = "ended",
             result'.success = FALSE
      PROVE  Failing'
    BY <1>5 DEF Failing
<1>6. ASSUME NEW cause, DialFails(cause) \/ ReadFails(cause)
      PROVE  Failing'
    <2>1. /\ phase \in {"dialing", "reading", "body"} /\ phase' = "ended"
          /\ \E e : result' = [result EXCEPT !.errType = e]
        BY <1>6 DEF DialFails, ReadFails, FailAs
    <2>2. result'.success = FALSE
        BY <1>0, <2>1 DEF Settled, Result
    <2> QED BY <1>5, <2>1, <2>2
<1>7. ASSUME NEW code, NEW words, Refused(code, words) PROVE Failing'
    <2>1. /\ phase = "dialing" /\ phase' = "ended"
          /\ \E e : result' = [result EXCEPT !.status = code, !.errType = e]
        BY <1>7 DEF Refused
    <2>2. result'.success = FALSE
        BY <1>0, <2>1 DEF Settled, Result
    <2> QED BY <1>5, <2>1, <2>2
<1>8. CASE Accepted
    <2>1. said = <<>> /\ said' = said /\ phase' \in {"reading", "body"}
        BY <1>8 DEF Accepted, Failing, serverVars
    <2> QED BY <2>1 DEF Failing, Declared
<1>9. ASSUME NEW doc, ReceiveBody(doc) PROVE Failing'
    <2>1. said = <<>> /\ said' = said /\ phase' = "ended"
        BY <1>9 DEF ReceiveBody, Failing, serverVars
    <2> QED BY <2>1 DEF Failing, Declared
<1>10. CASE Record
    <2>1. phase = "ended" /\ phase' = "recorded" /\ UNCHANGED <<target, said, cut>>
        BY <1>10 DEF Record, serverVars
    <2>2. Declared' <=> Declared
        BY <2>1 DEF Declared, Last
    <2>3. ~result.success => result' = result
        BY <1>10 DEF Record
    <2> QED BY <2>1, <2>2, <2>3 DEF Failing
<1>11. CASE UNCHANGED vars
    <2>1. UNCHANGED <<target, phase, reader, result, wire, said, cut>>
        BY <1>11 DEF vars, serverVars
    <2> QED BY <2>1 DEF Failing, Declared, Ahead, Last
<1>15. CASE SendBareEvent
    <2>1. phase = "reading" /\ phase' = "reading" /\ ~Terminated /\ UNCHANGED <<target, said, cut>>
        BY <1>15 DEF SendBareEvent
    <2>2. ~Declared'
        BY <2>1 DEF Declared, FailEvents, Terminated, Terminal, Last
    <2> QED BY <2>1, <2>2 DEF Failing
<1>12. CASE Provider
    BY <1>1, <1>2, <1>12, <1>15 DEF Provider
<1>13. CASE Client
    BY <1>3, <1>4, <1>6, <1>7, <1>8, <1>9, <1>10, <1>13 DEF Client
<1>14. CASE Expire
    BY <1>6, <1>14 DEF Expire
<1> QED BY <1>11, <1>12, <1>13, <1>14 DEF Next

\* "response.failed" and "response.incomplete" (openai_responses.go): a response
\* the provider declared failed is never a success, whatever was said before,
\* on whatever lines it was written, and whatever expect_pattern is.
THEOREM DeclaredFailureStands == Spec => []FailureStands
<1> DEFINE Inv == Surroundings /\ Settled /\ Uncut /\ Failing
<1>1. Init => Inv
    BY SurroundingsInit, SettledInit, FailingInit
<1>2. Inv /\ [Next]_vars => Inv'
    BY SurroundingsNext, SettledNext, UncutNext, FailingNext
<1>3. Inv => FailureStands
    BY DEF FailureStands, Failing, Declared, Terminated, FailEvents, Last
<1> QED BY <1>1, <1>2, <1>3, PTL DEF Spec

-----------------------------------------------------------------------------
(* The frames of each protocol.                                            *)

Speaks(frame) == frame.doc.texts # <<>>

FinalEvents == {"response.completed", "response.failed", "response.incomplete"}

ResponsesEvents == {"response.created", "response.output_text.delta"} \cup FinalEvents

\* Where text, an end and nothing at all may be.
Regular(proto, frame) ==
    /\ frame.doc.json = FALSE => ~Speaks(frame)
    /\ frame.doc.done = TRUE => proto = "openai" /\ frame.doc.json = FALSE
    /\ proto \in {"openai", "google"} <=> frame.event = ""
    /\ proto = "openai-responses" =>
          /\ frame.event \in ResponsesEvents
          /\ Speaks(frame) => frame.event = "response.output_text.delta"
          /\ frame.event = "response.completed" => frame.doc.json = TRUE
    /\ proto = "anthropic" /\ Speaks(frame) => frame.event = "content_block_delta"

\* Its text comes after so many pieces.
Follows(texts, p) == \A i \in DOMAIN texts : texts[i] = p + i

LEMMA DocsWithFacts ==
    ASSUME NEW lengths, NEW usages, NEW d \in DocsWith(lengths, usages), pieces \in Nat,
           lengths \subseteq 0 .. 2
    PROVE  /\ d.json = TRUE /\ d.done = FALSE
           /\ Follows(d.texts, pieces)
           /\ lengths = {0} => d.texts = <<>>
<1>1. d.json = TRUE /\ d.done = FALSE
    BY DEF DocsWith
<1>2. PICK k \in lengths : d.texts = NextPieces(k)
    BY DEF DocsWith
<1>3. Follows(d.texts, pieces)
    <2>1. DOMAIN NextPieces(k) = 1 .. k /\ \A i \in 1 .. k : NextPieces(k)[i] = pieces + i
        BY DEF NextPieces
    <2> QED BY <1>2, <2>1 DEF Follows
<1>4. ASSUME lengths = {0} PROVE d.texts = <<>>
    <2>1. k = 0 /\ Len(NextPieces(k)) = 0 /\ NextPieces(k) \in Seq(Nat)
        BY <1>2, <1>4, PieceTypes
    <2> QED BY <1>2, <2>1, EmptySeq
<1> QED BY <1>1, <1>3, <1>4

LEMMA PlainDocs ==
    /\ NotJSON.json = FALSE /\ NotJSON.done = FALSE /\ NotJSON.texts = <<>>
    /\ DoneDoc.json = FALSE /\ DoneDoc.done = TRUE /\ DoneDoc.texts = <<>>
    /\ Follows(<<>>, pieces)
<1>1. DOMAIN <<>> = {}
    OBVIOUS
<1> QED BY <1>1 DEF NotJSON, DoneDoc, Follows

LEMMA FrameRegular ==
    ASSUME pieces \in Nat, target.proto \in Protocols, NEW frame \in NextFrames(target.proto)
    PROVE  Regular(target.proto, frame) /\ Follows(frame.doc.texts, pieces)
<1> DEFINE e == frame.event
           d == frame.doc
<1>1. \A us : \A x \in DocsWith(0 .. 1, us) :
          x.json = TRUE /\ x.done = FALSE /\ Follows(x.texts, pieces)
    <2> DEFINE L == 0 .. 1
    <2>1. L \subseteq 0 .. 2
        OBVIOUS
    <2> HIDE DEF L
    <2>2. ASSUME NEW us, NEW x \in DocsWith(L, us)
          PROVE  x.json = TRUE /\ x.done = FALSE /\ Follows(x.texts, pieces)
        BY <2>1, DocsWithFacts
    <2> QED BY <2>2 DEF L
<1>2. \A us : \A x \in DocsWith({2}, us) :
          x.json = TRUE /\ x.done = FALSE /\ Follows(x.texts, pieces)
    <2> DEFINE L == {2}
    <2>1. L \subseteq 0 .. 2
        OBVIOUS
    <2> HIDE DEF L
    <2>2. ASSUME NEW us, NEW x \in DocsWith(L, us)
          PROVE  x.json = TRUE /\ x.done = FALSE /\ Follows(x.texts, pieces)
        BY <2>1, DocsWithFacts
    <2> QED BY <2>2 DEF L
<1>3. \A us : \A x \in DocsWith({0}, us) :
          x.json = TRUE /\ x.done = FALSE /\ Follows(x.texts, pieces) /\ x.texts = <<>>
    <2> DEFINE L == {0}
    <2>1. L \subseteq 0 .. 2 /\ L = {0}
        OBVIOUS
    <2>2. ASSUME NEW us, NEW x \in DocsWith(L, us)
          PROVE  x.json = TRUE /\ x.done = FALSE /\ Follows(x.texts, pieces) /\ x.texts = <<>>
        <3> HIDE DEF L
        <3> QED BY <2>1, DocsWithFacts
    <2> QED BY <2>2
<1>4. CASE target.proto = "openai"
    <2>1. e = "" /\ (d \in DocsWith(0 .. 1, Usages) \/ d = NotJSON \/ d = DoneDoc)
        BY <1>4 DEF NextFrames
    <2>2. CASE d \in DocsWith(0 .. 1, Usages)
        <3>1. d.json = TRUE /\ d.done = FALSE /\ Follows(d.texts, pieces)
            BY <2>2, <1>1
        <3> QED BY <1>4, <2>1, <2>2, <3>1 DEF Regular, Speaks
    <2>3. CASE d = NotJSON \/ d = DoneDoc
        BY <1>4, <2>1, <2>3, PlainDocs DEF Regular, Speaks
    <2> QED BY <2>1, <2>2, <2>3
<1>5. CASE target.proto = "google"
    <2>1. e = "" /\ (d \in DocsWith(0 .. 1, Usages) \/ d \in DocsWith({2}, {NoUsage}) \/ d = NotJSON)
        BY <1>5 DEF NextFrames
    <2>2. CASE d \in DocsWith(0 .. 1, Usages)
        <3>1. d.json = TRUE /\ d.done = FALSE /\ Follows(d.texts, pieces)
            BY <2>2, <1>1
        <3> QED BY <1>5, <2>1, <2>2, <3>1 DEF Regular, Speaks
    <2>3. CASE d \in DocsWith({2}, {NoUsage})
        <3>1. d.json = TRUE /\ d.done = FALSE /\ Follows(d.texts, pieces)
            BY <2>3, <1>2
        <3> QED BY <1>5, <2>1, <2>3, <3>1 DEF Regular, Speaks
    <2>4. CASE d = NotJSON
        BY <1>5, <2>1, <2>4, PlainDocs DEF Regular, Speaks
    <2> QED BY <2>1, <2>2, <2>3, <2>4
<1>6. CASE target.proto = "openai-responses"
    <2>1. \/ e = "response.output_text.delta" /\ d \in DocsWith(0 .. 1, {NoUsage})
          \/ e \in FinalEvents /\ d \in DocsWith({0}, Usages \cup Totalless)
          \/ e \in {"response.created", "response.failed"} /\ d = NotJSON
        BY <1>6 DEF NextFrames, FinalEvents
    <2>2. CASE e = "response.output_text.delta" /\ d \in DocsWith(0 .. 1, {NoUsage})
        <3>1. d.json = TRUE /\ d.done = FALSE /\ Follows(d.texts, pieces)
            BY <2>2, <1>1
        <3> QED BY <1>6, <2>2, <3>1 DEF Regular, Speaks, ResponsesEvents
    <2>3. CASE e \in FinalEvents /\ d \in DocsWith({0}, Usages \cup Totalless)
        <3>1. d.json = TRUE /\ d.done = FALSE /\ d.texts = <<>> /\ Follows(d.texts, pieces)
            <4> DEFINE us == Usages \cup Totalless
            <4>1. d \in DocsWith({0}, us)
                BY <2>3
            <4> HIDE DEF us
            <4> QED BY <4>1, <1>3
        <3> QED BY <1>6, <2>3, <3>1 DEF Regular, Speaks, ResponsesEvents, FinalEvents
    <2>4. CASE e \in {"response.created", "response.failed"} /\ d = NotJSON
        BY <1>6, <2>4, PlainDocs DEF Regular, Speaks, ResponsesEvents, FinalEvents
    <2> QED BY <2>1, <2>2, <2>3, <2>4
<1>7. CASE target.proto = "anthropic"
    <2>1. \/ e = "content_block_delta" /\ d \in DocsWith(0 .. 1, {NoUsage})
          \/ e \in {"message_start", "message_delta"} /\ d \in DocsWith({0}, Usages)
          \/ e \in {"ping", "message_stop", "error"} /\ d \in DocsWith({0}, {NoUsage})
          \/ e = "message_delta" /\ d = NotJSON
        BY <1>7 DEF NextFrames
    <2>2. CASE e = "content_block_delta" /\ d \in DocsWith(0 .. 1, {NoUsage})
        <3>1. d.json = TRUE /\ d.done = FALSE /\ Follows(d.texts, pieces)
            BY <2>2, <1>1
        <3> QED BY <1>7, <2>2, <3>1 DEF Regular, Speaks
    <2>3. CASE e \in {"message_start", "message_delta"} /\ d \in DocsWith({0}, Usages)
        <3>1. d.json = TRUE /\ d.done = FALSE /\ Follows(d.texts, pieces) /\ d.texts = <<>>
            BY <2>3, <1>3
        <3> QED BY <1>7, <2>3, <3>1 DEF Regular, Speaks
    <2>4. CASE e \in {"ping", "message_stop", "error"} /\ d \in DocsWith({0}, {NoUsage})
        <3>1. d.json = TRUE /\ d.done = FALSE /\ Follows(d.texts, pieces) /\ d.texts = <<>>
            BY <2>4, <1>3
        <3> QED BY <1>7, <2>4, <3>1 DEF Regular, Speaks
    <2>5. CASE e = "message_delta" /\ d = NotJSON
        BY <1>7, <2>5, PlainDocs DEF Regular, Speaks
    <2> QED BY <2>1, <2>2, <2>3, <2>4, <2>5
<1> QED BY <1>4, <1>5, <1>6, <1>7 DEF Protocols

-----------------------------------------------------------------------------
(* Text that spells a set of pieces, in their order.                       *)

Rising(t) == \A i, j \in DOMAIN t : i < j => t[i] < t[j]

Pieces(t) == {t[i] : i \in DOMAIN t}

LEMMA JoinRising ==
    ASSUME NEW t \in Seq(Nat), NEW u \in Seq(Nat), Rising(t), Rising(u),
           \A a \in Pieces(t), b \in Pieces(u) : a < b
    PROVE  Rising(t \o u) /\ Pieces(t \o u) = Pieces(t) \cup Pieces(u)
<1> DEFINE q == t \o u
           n == Len(t)
<1>1. /\ n \in Nat /\ DOMAIN t = 1 .. n /\ DOMAIN u = 1 .. Len(u) /\ Len(u) \in Nat
      /\ DOMAIN q = 1 .. n + Len(u)
    OBVIOUS
<1>2. /\ \A i \in DOMAIN t : i \in DOMAIN q /\ q[i] = t[i]
      /\ \A i \in DOMAIN u : n + i \in DOMAIN q /\ q[n + i] = u[i]
    BY <1>1
<1>3. \A i \in DOMAIN q : \/ i \in DOMAIN t /\ q[i] = t[i]
                          \/ i > n /\ i - n \in DOMAIN u /\ q[i] = u[i - n]
    BY <1>1
<1> HIDE DEF q
<1>4. Pieces(q) = Pieces(t) \cup Pieces(u)
    <2>1. ASSUME NEW x \in Pieces(q) PROVE x \in Pieces(t) \cup Pieces(u)
        BY <1>3 DEF Pieces
    <2>2. ASSUME NEW x \in Pieces(t) PROVE x \in Pieces(q)
        BY <1>2 DEF Pieces
    <2>3. ASSUME NEW x \in Pieces(u) PROVE x \in Pieces(q)
        <3>1. PICK i \in DOMAIN u : x = u[i]
            BY DEF Pieces
        <3> QED BY <1>2, <3>1 DEF Pieces
    <2> QED BY <2>1, <2>2, <2>3
<1>5. ASSUME NEW i \in DOMAIN q, NEW j \in DOMAIN q, i < j PROVE q[i] < q[j]
    <2>1. CASE i \in DOMAIN t /\ j \in DOMAIN t
        <3>1. ~(i > n) /\ ~(j > n)
            BY <1>1, <2>1
        <3> QED BY <1>3, <1>5, <2>1, <3>1 DEF Rising
    <2>2. CASE i \in DOMAIN t /\ j > n
        <3>1. ~(i > n) /\ j \notin DOMAIN t
            BY <1>1, <2>2
        <3>2. q[i] \in Pieces(t) /\ q[j] \in Pieces(u)
            BY <1>3, <2>2, <3>1 DEF Pieces
        <3> QED BY <3>2
    <2>3. CASE i > n
        <3>1. i \in Int /\ j \in Int /\ j > n
            BY <1>1, <1>5, <2>3
        <3>2. i \notin DOMAIN t /\ j \notin DOMAIN t
            BY <1>1, <2>3, <3>1
        <3>3. /\ i - n \in DOMAIN u /\ q[i] = u[i - n]
              /\ j - n \in DOMAIN u /\ q[j] = u[j - n]
            BY <1>3, <3>2
        <3>4. i - n < j - n
            BY <1>1, <1>5, <3>1
        <3> QED BY <3>3, <3>4 DEF Rising
    <2> QED BY <1>1, <1>3, <1>5, <2>1, <2>2, <2>3
<1> QED BY <1>4, <1>5 DEF Rising, q

LEMMA RunRising ==
    ASSUME NEW t \in Seq(Nat), NEW p \in Nat, Follows(t, p)
    PROVE  Rising(t) /\ Pieces(t) = (p + 1) .. (p + Len(t))
<1>1. Len(t) \in Nat /\ DOMAIN t = 1 .. Len(t)
    OBVIOUS
<1>2. \A i \in 1 .. Len(t) : t[i] = p + i
    BY <1>1 DEF Follows
<1>3. Rising(t)
    BY <1>1, <1>2 DEF Rising
<1>4. ASSUME NEW x \in (p + 1) .. (p + Len(t)) PROVE x \in Pieces(t)
    <2>1. x - p \in 1 .. Len(t) /\ p + (x - p) = x
        BY <1>1
    <2> QED BY <1>1, <1>2, <2>1 DEF Pieces
<1>5. ASSUME NEW x \in Pieces(t) PROVE x \in (p + 1) .. (p + Len(t))
    BY <1>1, <1>2 DEF Pieces
<1> QED BY <1>3, <1>4, <1>5

-----------------------------------------------------------------------------
(* What a client has of the text after the first h frames of a stream s,    *)
(* which hold p pieces.                                                     *)

Opening(s, h, f) ==
    /\ f \in 1 .. h /\ Speaks(s[f])
    /\ \A g \in 1 .. h : Speaks(s[g]) => f <= g

Omitted(proto, frame) == IF proto = "google" THEN 2 .. Len(frame.doc.texts) ELSE {}

\* The pieces but those the Google client leaves out, once a frame has text.
Spoken(proto, s, h, p, res) ==
    \E f \in 1 .. h :
        /\ Opening(s, h, f)
        /\ Len(s[f].doc.texts) <= p
        /\ Rising(res.text)
        /\ Pieces(res.text) = (1 .. p) \ Omitted(proto, s[f])

TextHeard(proto, s, h, p, res) ==
    \/ /\ res.ttft = FALSE /\ res.text = <<>> /\ p = 0
       /\ \A g \in 1 .. h : ~Speaks(s[g])
    \/ res.ttft = TRUE /\ Spoken(proto, s, h, p, res)

\* What a frame adds to the text of a result.
Added(proto, res, frame) ==
    IF proto = "google" /\ res.ttft = FALSE /\ Speaks(frame)
    THEN <<Head(frame.doc.texts)>> ELSE frame.doc.texts

LEMMA TextSilent ==
    ASSUME NEW proto, NEW s, NEW h \in Nat, NEW p, NEW res, NEW new,
           TextHeard(proto, s, h, p, res), ~Speaks(s[h + 1]),
           new.text = res.text, new.ttft = res.ttft
    PROVE  TextHeard(proto, s, h + 1, p, new)
<1>1. \A g \in 1 .. h + 1 : g \in 1 .. h \/ g = h + 1
    OBVIOUS
<1>2. 1 .. h \subseteq 1 .. h + 1
    OBVIOUS
<1>3. \A f : Opening(s, h, f) => Opening(s, h + 1, f)
    BY <1>1, <1>2 DEF Opening
<1>4. Spoken(proto, s, h, p, res) => Spoken(proto, s, h + 1, p, new)
    BY <1>2, <1>3 DEF Spoken
<1>5. CASE res.ttft = FALSE /\ res.text = <<>> /\ p = 0 /\ \A g \in 1 .. h : ~Speaks(s[g])
    <2>1. \A g \in 1 .. h + 1 : ~Speaks(s[g])
        BY <1>1, <1>5
    <2>2. new.ttft = FALSE /\ new.text = <<>> /\ p = 0
        BY <1>5
    <2> QED BY <2>1, <2>2, Zenon DEF TextHeard
<1>6. CASE res.ttft = TRUE /\ Spoken(proto, s, h, p, res)
    <2>1. new.ttft = TRUE
        BY <1>6
    <2> QED BY <1>4, <1>6, <2>1, Zenon DEF TextHeard
<1> QED BY <1>5, <1>6, Zenon DEF TextHeard

LEMMA TextSpoken ==
    ASSUME NEW proto, NEW s, NEW h \in Nat, NEW p \in Nat, NEW res, NEW new,
           TextHeard(proto, s, h, p, res), res.text \in Seq(Nat),
           Speaks(s[h + 1]), \A g \in 1 .. h + 1 : s[g].doc.texts \in Seq(Nat),
           Follows(s[h + 1].doc.texts, p),
           new.text = res.text \o Added(proto, res, s[h + 1]), new.ttft = TRUE
    PROVE  TextHeard(proto, s, h + 1, p + Len(s[h + 1].doc.texts), new)
<1> DEFINE frame == s[h + 1]
           texts == frame.doc.texts
           L     == Len(texts)
<1>1. \A g \in 1 .. h + 1 : g \in 1 .. h \/ g = h + 1
    OBVIOUS
<1>2. 1 .. h \subseteq 1 .. h + 1 /\ h + 1 \in 1 .. h + 1
    OBVIOUS
<1>3. L \in Nat /\ L >= 1 /\ texts \in Seq(Nat) /\ texts # <<>>
    <2>1. texts # <<>> /\ texts \in Seq(Nat)
        BY <1>2 DEF Speaks
    <2> HIDE DEF texts
    <2> QED BY <2>1, EmptySeq, LenProperties
<1>4. Rising(texts) /\ Pieces(texts) = (p + 1) .. (p + L)
    BY <1>3, RunRising
<1> HIDE DEF L
<1>5. CASE res.ttft = FALSE /\ res.text = <<>> /\ p = 0 /\ \A g \in 1 .. h : ~Speaks(s[g])
    <2>1. Opening(s, h + 1, h + 1)
        BY <1>1, <1>2, <1>5 DEF Opening
    <2>2. L <= p + L
        BY <1>3
    <2>3. Rising(new.text) /\ Pieces(new.text) = (1 .. p + L) \ Omitted(proto, frame)
        <3>1. CASE proto = "google"
            <4>1. new.text = <<>> \o <<Head(texts)>>
                BY <1>5, <3>1 DEF Added
            <4>2. Head(texts) = 1
                <5>1. texts[1] = p + 1 /\ Head(texts) = texts[1]
                    BY <1>3 DEF Follows, L
                <5> QED BY <1>5, <5>1
            <4>3. new.text = <<1>>
                BY <4>1, <4>2
            <4>4. Rising(<<1>>) /\ Pieces(<<1>>) = {1}
                <5>1. DOMAIN <<1>> = {1} /\ <<1>>[1] = 1
                    OBVIOUS
                <5>2. Rising(<<1>>)
                    BY <5>1 DEF Rising
                <5>3. Pieces(<<1>>) = {1}
                    BY <5>1 DEF Pieces
                <5> QED BY <5>2, <5>3
            <4>5. (1 .. p + L) \ (2 .. L) = {1}
                BY <1>3, <1>5
            <4>6. Omitted(proto, frame) = 2 .. L
                BY <3>1 DEF Omitted, L
            <4> QED BY <4>3, <4>4, <4>5, <4>6
        <3>2. CASE proto # "google"
            <4>1. new.text = <<>> \o texts
                BY <1>5, <3>2 DEF Added
            <4>2. new.text = texts
                BY <1>3, <4>1
            <4>3. Omitted(proto, frame) = {}
                BY <3>2 DEF Omitted
            <4>4. p + 1 = 1
                BY <1>5
            <4> QED BY <1>4, <4>2, <4>3, <4>4
        <3> QED BY <3>1, <3>2
    <2>4. Spoken(proto, s, h + 1, p + L, new)
        BY <1>2, <2>1, <2>2, <2>3 DEF Spoken, L
    <2> QED BY <2>4, Zenon DEF TextHeard, L
<1>6. CASE res.ttft = TRUE /\ Spoken(proto, s, h, p, res)
    <2>1. PICK f \in 1 .. h : /\ Opening(s, h, f) /\ Len(s[f].doc.texts) <= p
                              /\ Rising(res.text)
                              /\ Pieces(res.text) = (1 .. p) \ Omitted(proto, s[f])
        BY <1>6 DEF Spoken
    <2>2. Opening(s, h + 1, f)
        BY <1>1, <1>2, <2>1 DEF Opening
    <2>3. new.text = res.text \o texts
        <3>1. ~(res.ttft = FALSE)
            BY <1>6
        <3> QED BY <3>1 DEF Added
    <2>4. \A a \in Pieces(res.text), b \in Pieces(texts) : a < b
        BY <1>3, <1>4, <2>1
    <2>5. Rising(new.text) /\ Pieces(new.text) = Pieces(res.text) \cup Pieces(texts)
        BY <1>3, <1>4, <2>1, <2>3, <2>4, JoinRising
    <2>6. \A x \in Omitted(proto, s[f]) : x <= p
        <3>1. CASE proto = "google"
            <4> DEFINE m == Len(s[f].doc.texts)
            <4>1. m <= p /\ Omitted(proto, s[f]) = 2 .. m
                BY <2>1, <3>1 DEF Omitted
            <4>2. m \in Nat
                BY <1>2, LenProperties
            <4> HIDE DEF m
            <4> QED BY <4>1, <4>2
        <3>2. CASE proto # "google"
            BY <3>2 DEF Omitted
        <3> QED BY <3>1, <3>2
    <2> DEFINE omitted == Omitted(proto, s[f])
    <2>7. \A x \in omitted : x <= p
        BY <2>6
    <2>8. Pieces(res.text) = (1 .. p) \ omitted
        BY <2>1
    <2> HIDE DEF omitted
    <2>9. Pieces(new.text) = (1 .. p + L) \ omitted
        <3>1. ((1 .. p) \ omitted) \cup ((p + 1) .. (p + L)) = (1 .. p + L) \ omitted
            BY <1>3, <2>7
        <3> QED BY <1>4, <2>5, <2>8, <3>1
    <2>10. Len(s[f].doc.texts) <= p + L
        <3> DEFINE m == Len(s[f].doc.texts)
        <3>1. m <= p /\ m \in Nat
            BY <1>2, <2>1, LenProperties
        <3> HIDE DEF m
        <3> QED BY <1>3, <3>1 DEF m
    <2>11. Spoken(proto, s, h + 1, p + L, new)
        BY <1>2, <2>2, <2>5, <2>9, <2>10 DEF Spoken, omitted
    <2> QED BY <2>11, Zenon DEF TextHeard, L
<1> QED BY <1>5, <1>6, Zenon DEF TextHeard

-----------------------------------------------------------------------------
(* What a client has of the token counts after h frames.                   *)

\* A report that replaces all others.
Counting(frame) == frame.doc.json = TRUE /\ frame.doc.usage.total > 0

LastCounted(s, h, j) ==
    /\ j \in 1 .. h /\ Counting(s[j])
    /\ \A i \in 1 .. h : Counting(s[i]) => i <= j

TotalHeard(s, h, u) ==
    \/ u = NoUsage /\ \A i \in 1 .. h : ~Counting(s[i])
    \/ \E j \in 1 .. h : LastCounted(s, h, j) /\ u = Copied(s[j].doc.usage)

\* The counts of a final object.
FinalTotal(u) == IF u.total > 0 THEN u.total ELSE u.in + u.out

Final(u) == IF FinalTotal(u) = 0 THEN NoUsage ELSE [Copied(u) EXCEPT !.total = FinalTotal(u)]

FinalHeard(s, h, u) ==
    u = IF h > 0 /\ s[h].event = "response.completed" THEN Final(s[h].doc.usage) ELSE NoUsage

\* The largest count of each kind.
Kinds == {"in", "out", "cached", "creation"}

Reporting(frame) == frame.doc.json = TRUE /\ frame.event \in {"message_start", "message_delta"}

LargestSo(s, h, kind, n) ==
    /\ \A i \in 1 .. h : Reporting(s[i]) => s[i].doc.usage[kind] <= n
    /\ n = 0 \/ \E i \in 1 .. h : Reporting(s[i]) /\ s[i].doc.usage[kind] = n

LargestHeard(s, h, u) ==
    /\ \A kind \in Kinds : LargestSo(s, h, kind, u[kind])
    /\ u["total"] = 0 /\ u["reasoning"] = 0

UsageHeard(proto, s, h, res) ==
    /\ proto \in {"openai", "google"} => TotalHeard(s, h, res.usage)
    /\ proto = "openai-responses" => FinalHeard(s, h, res.usage)
    /\ proto = "anthropic" => LargestHeard(s, h, res.usage)

LEMMA OneMore ==
    ASSUME NEW h \in Nat
    PROVE  /\ \A i \in 1 .. h + 1 : i \in 1 .. h \/ i = h + 1
           /\ 1 .. h \subseteq 1 .. h + 1 /\ h + 1 \in 1 .. h + 1 /\ h + 1 \notin 1 .. h
           /\ \A i \in 1 .. h : i <= h + 1
           /\ h + 1 > 0 /\ (h > 0 => h \in 1 .. h)
OBVIOUS

LEMMA TotalStep ==
    ASSUME NEW s, NEW h \in Nat, NEW u, TotalHeard(s, h, u)
    PROVE  /\ Counting(s[h + 1]) => TotalHeard(s, h + 1, Copied(s[h + 1].doc.usage))
           /\ ~Counting(s[h + 1]) => TotalHeard(s, h + 1, u)
<1>1. ASSUME Counting(s[h + 1])
      PROVE  TotalHeard(s, h + 1, Copied(s[h + 1].doc.usage))
    <2>1. LastCounted(s, h + 1, h + 1)
        <3>1. \A i \in 1 .. h + 1 : i <= h + 1
            OBVIOUS
        <3> QED BY <1>1, <3>1, OneMore DEF LastCounted
    <2> QED BY <2>1, OneMore DEF TotalHeard
<1>2. ASSUME ~Counting(s[h + 1]) PROVE TotalHeard(s, h + 1, u)
    <2>1. \A j : LastCounted(s, h, j) => LastCounted(s, h + 1, j)
        BY <1>2, OneMore DEF LastCounted
    <2>2. (\A i \in 1 .. h : ~Counting(s[i])) => \A i \in 1 .. h + 1 : ~Counting(s[i])
        BY <1>2, OneMore
    <2> QED BY <2>1, <2>2, OneMore DEF TotalHeard
<1> QED BY <1>1, <1>2

LEMMA FinalStep ==
    ASSUME NEW s, NEW h \in Nat, NEW res, FinalHeard(s, h, res.usage),
           h > 0 => s[h].event # "response.completed",
           s[h + 1].doc.usage \in UsageSet, res \in Result
    PROVE  /\ s[h + 1].event = "response.completed" =>
                 FinalHeard(s, h + 1, WithResponsesUsage(res, s[h + 1].doc.usage).usage)
           /\ s[h + 1].event # "response.completed" => FinalHeard(s, h + 1, res.usage)
<1> DEFINE u == s[h + 1].doc.usage
<1>0. h + 1 > 0
    OBVIOUS
<1>1. res.usage = NoUsage
    BY DEF FinalHeard
<1>2. WithResponsesUsage(res, u).usage = Final(u)
    <2>1. u.in \in Nat /\ u.out \in Nat /\ u.total \in Nat
        BY DEF UsageSet
    <2> DEFINE c == Copied(u)
    <2>2. c.total = u.total /\ c \in UsageSet
        <3> u \in UsageSet
            OBVIOUS
        <3> HIDE DEF u
        <3> QED BY DEF Copied, UsageSet
    <2> HIDE DEF u
    <2>3. CASE u.in = 0 /\ u.out = 0 /\ u.total = 0
        <3>1. FinalTotal(u) = 0
            BY <2>3 DEF FinalTotal
        <3>2. WithResponsesUsage(res, u) = res
            BY <2>3 DEF WithResponsesUsage
        <3> QED BY <1>1, <3>1, <3>2 DEF Final
    <2>4. CASE ~(u.in = 0 /\ u.out = 0 /\ u.total = 0)
        <3>1. FinalTotal(u) # 0
            BY <2>1, <2>4 DEF FinalTotal
        <3>2. (IF c.total > 0 THEN c.total ELSE u.in + u.out) = FinalTotal(u)
            BY <2>2 DEF FinalTotal
        <3>3. WithResponsesUsage(res, u).usage = [c EXCEPT !.total = FinalTotal(u)]
            <4> DEFINE v == [c EXCEPT !.total = IF c.total > 0 THEN c.total ELSE u.in + u.out]
            <4>1. WithResponsesUsage(res, u) = [res EXCEPT !.usage = v]
                BY <2>2, <2>4 DEF WithResponsesUsage, UsageSet
            <4>2. v = [c EXCEPT !.total = FinalTotal(u)]
                BY <3>2
            <4> HIDE DEF v
            <4>3. [res EXCEPT !.usage = v].usage = v
                BY DEF Result
            <4> QED BY <4>1, <4>2, <4>3
        <3> QED BY <3>1, <3>3 DEF Final
    <2> QED BY <2>3, <2>4
<1> QED BY <1>0, <1>1, <1>2 DEF FinalHeard

LEMMA LargerIs ==
    ASSUME NEW m \in Nat, NEW n \in Nat
    PROVE  Larger(m, n) \in {m, n} /\ m <= Larger(m, n) /\ n <= Larger(m, n)
BY DEF Larger

LEMMA LargestStep ==
    ASSUME NEW s, NEW h \in Nat, NEW kind, NEW n \in Nat,
           \A i \in 1 .. h + 1 : s[i].doc.usage[kind] \in Nat,
           LargestSo(s, h, kind, n)
    PROVE  /\ ~Reporting(s[h + 1]) => LargestSo(s, h + 1, kind, n)
           /\ Reporting(s[h + 1]) => LargestSo(s, h + 1, kind, Larger(n, s[h + 1].doc.usage[kind]))
<1> DEFINE m == s[h + 1].doc.usage[kind]
           g == Larger(n, m)
<1>1. m \in Nat
    BY OneMore
<1>2. ASSUME ~Reporting(s[h + 1]) PROVE LargestSo(s, h + 1, kind, n)
    BY <1>2, OneMore DEF LargestSo
<1>3. ASSUME Reporting(s[h + 1]) PROVE LargestSo(s, h + 1, kind, g)
    <2>1. g \in {n, m} /\ n <= g /\ m <= g /\ g \in Nat
        BY <1>1, LargerIs
    <2> HIDE DEF g
    <2>2. ASSUME NEW i \in 1 .. h + 1, Reporting(s[i]) PROVE s[i].doc.usage[kind] <= g
        <3>1. CASE i \in 1 .. h
            <4>1. s[i].doc.usage[kind] <= n /\ s[i].doc.usage[kind] \in Nat
                BY <2>2, <3>1 DEF LargestSo
            <4> QED BY <2>1, <4>1
        <3>2. CASE i = h + 1
            BY <2>1, <3>2
        <3> QED BY <3>1, <3>2, OneMore
    <2>3. g = 0 \/ \E i \in 1 .. h + 1 : Reporting(s[i]) /\ s[i].doc.usage[kind] = g
        BY <1>3, <2>1, OneMore DEF LargestSo
    <2> QED BY <2>2, <2>3 DEF LargestSo
<1> QED BY <1>2, <1>3

LEMMA AnthropicUsage ==
    ASSUME NEW res \in Result, NEW u \in UsageSet
    PROVE  LET v == WithAnthropicUsage(res, u).usage
           IN  /\ \A kind \in Kinds : v[kind] = Larger(res.usage[kind], u[kind])
               /\ v["total"] = res.usage["total"] /\ v["reasoning"] = res.usage["reasoning"]
<1> DEFINE w == [res.usage EXCEPT !.in = Larger(res.usage.in, u.in),
                                  !.out = Larger(res.usage.out, u.out),
                                  !.cached = Larger(res.usage.cached, u.cached),
                                  !.creation = Larger(res.usage.creation, u.creation)]
<1>1. res.usage \in UsageSet
    BY DEF Result
<1>2. WithAnthropicUsage(res, u) = [res EXCEPT !.usage = w]
    BY <1>1 DEF WithAnthropicUsage, Result, UsageSet
<1>3. /\ w["in"] = Larger(res.usage["in"], u["in"])
      /\ w["out"] = Larger(res.usage["out"], u["out"])
      /\ w["cached"] = Larger(res.usage["cached"], u["cached"])
      /\ w["creation"] = Larger(res.usage["creation"], u["creation"])
      /\ w["total"] = res.usage["total"] /\ w["reasoning"] = res.usage["reasoning"]
    BY <1>1 DEF UsageSet
<1> HIDE DEF w
<1>4. WithAnthropicUsage(res, u).usage = w
    BY <1>2 DEF Result
<1> QED BY <1>3, <1>4 DEF Kinds

LEMMA KindsTyped ==
    ASSUME NEW u \in UsageSet, NEW kind \in Kinds
    PROVE  u[kind] \in Nat
BY DEF UsageSet, Kinds

LEMMA LargestNext ==
    ASSUME NEW s, NEW h \in Nat, NEW res \in Result, LargestHeard(s, h, res.usage),
           \A i \in 1 .. h + 1 : s[i].doc.usage \in UsageSet
    PROVE  /\ Reporting(s[h + 1]) =>
                 LargestHeard(s, h + 1, WithAnthropicUsage(res, s[h + 1].doc.usage).usage)
           /\ ~Reporting(s[h + 1]) => LargestHeard(s, h + 1, res.usage)
<1> DEFINE u == s[h + 1].doc.usage
           v == WithAnthropicUsage(res, u).usage
<1>0. res.usage \in UsageSet /\ u \in UsageSet
    BY OneMore DEF Result
<1>1. ASSUME NEW kind \in Kinds
      PROVE  /\ ~Reporting(s[h + 1]) => LargestSo(s, h + 1, kind, res.usage[kind])
             /\ Reporting(s[h + 1]) =>
                   LargestSo(s, h + 1, kind, Larger(res.usage[kind], u[kind]))
    <2> DEFINE n == res.usage[kind]
    <2>1. n \in Nat /\ \A i \in 1 .. h + 1 : s[i].doc.usage[kind] \in Nat
        BY <1>0, KindsTyped
    <2>2. LargestSo(s, h, kind, n)
        BY DEF LargestHeard
    <2> HIDE DEF n
    <2>3. /\ ~Reporting(s[h + 1]) => LargestSo(s, h + 1, kind, n)
          /\ Reporting(s[h + 1]) => LargestSo(s, h + 1, kind, Larger(n, s[h + 1].doc.usage[kind]))
        BY <2>1, <2>2, LargestStep
    <2> QED BY <2>3 DEF n
<1>2. /\ \A kind \in Kinds : v[kind] = Larger(res.usage[kind], u[kind])
      /\ v["total"] = res.usage["total"] /\ v["reasoning"] = res.usage["reasoning"]
    BY <1>0, AnthropicUsage
<1>3. res.usage["total"] = 0 /\ res.usage["reasoning"] = 0
    BY DEF LargestHeard
<1> HIDE DEF v, u
<1>4. ASSUME Reporting(s[h + 1]) PROVE LargestHeard(s, h + 1, v)
    BY <1>1, <1>2, <1>3, <1>4 DEF LargestHeard
<1>5. ASSUME ~Reporting(s[h + 1]) PROVE LargestHeard(s, h + 1, res.usage)
    BY <1>1, <1>3, <1>5 DEF LargestHeard
<1> QED BY <1>4, <1>5 DEF u, v

-----------------------------------------------------------------------------
(* What the body of the loop adds.                                         *)

LEMMA TextEffect ==
    ASSUME NEW res \in Result, NEW texts \in Seq(Nat)
    PROVE  LET new == WithText(res, texts)
           IN  /\ new \in Result /\ new.usage = res.usage
               /\ texts # <<>> => new.text = res.text \o texts /\ new.ttft = TRUE
               /\ texts = <<>> => new = res
<1>1. CASE texts = <<>>
    BY <1>1 DEF WithText
<1>2. CASE texts # <<>>
    <2>1. res.text \o texts \in Seq(Nat)
        BY ConcatProperties DEF Result
    <2>2. WithText(res, texts) = [res EXCEPT !.text = res.text \o texts, !.ttft = TRUE]
        BY <1>2 DEF WithText, Result
    <2> QED BY <1>2, <2>1, <2>2 DEF Result
<1> QED BY <1>1, <1>2

LEMMA UsageEffect ==
    ASSUME NEW res \in Result, NEW u
    PROVE  LET new == [res EXCEPT !.usage = u]
           IN  new.usage = u /\ new.text = res.text /\ new.ttft = res.ttft
BY DEF Result

LEMMA TotalEffect ==
    ASSUME NEW res \in Result, NEW u
    PROVE  LET new == WithTotal(res, u)
           IN  /\ new.text = res.text /\ new.ttft = res.ttft
               /\ u.total > 0 => new.usage = Copied(u)
               /\ ~(u.total > 0) => new.usage = res.usage
<1>1. CASE u.total > 0
    BY <1>1, UsageEffect DEF WithTotal
<1>2. CASE ~(u.total > 0)
    BY <1>2 DEF WithTotal
<1> QED BY <1>1, <1>2

\* Text and an end come where they may.
WithSpoken(proto, res, frame, new) ==
    /\ Speaks(frame) => new.text = res.text \o Added(proto, res, frame) /\ new.ttft = TRUE
    /\ ~Speaks(frame) => new.text = res.text /\ new.ttft = res.ttft

LEMMA ChunkEffect ==
    ASSUME NEW res \in Result, NEW frame \in Events, NEW proto \in {"openai", "google"},
           target.proto = proto, Regular(proto, frame), NEW e
    PROVE  LET new == Absorb(res, e, frame.doc)
           IN  /\ WithSpoken(proto, res, frame, new)
               /\ Counting(frame) => new.usage = Copied(frame.doc.usage)
               /\ ~Counting(frame) => new.usage = res.usage
<1> DEFINE doc == frame.doc
           new == Absorb(res, e, doc)
<1>1. doc.texts \in Seq(Nat) /\ doc.json \in BOOLEAN /\ res.ttft \in BOOLEAN
    BY DEF Events, Docs, Result
<1>2. CASE doc.json = FALSE
    <2>1. new = res
        <3>1. proto = "openai" => new = OpenAIChunk(res, e, doc)
            BY DEF Absorb
        <3>2. proto = "google" => new = GoogleChunk(res, e, doc)
            BY DEF Absorb
        <3> QED BY <1>2, <3>1, <3>2 DEF OpenAIChunk, GoogleChunk
    <2>2. ~Speaks(frame)
        BY <1>2, Zenon DEF Regular
    <2>3. ~Counting(frame)
        BY <1>2 DEF Counting
    <2> HIDE DEF new
    <2>4. WithSpoken(proto, res, frame, new)
        BY <2>1, <2>2, Zenon DEF WithSpoken
    <2> QED BY <2>1, <2>3, <2>4 DEF new
<1>3. CASE doc.json = TRUE
    <2> DEFINE parts == Added(proto, res, frame)
               mid   == WithText(res, parts)
    <2>1. new = WithTotal(mid, doc.usage)
        <3>1. CASE proto = "openai"
            <4>1. parts = doc.texts
                BY <3>1 DEF Added
            <4>2. new = OpenAIChunk(res, e, doc)
                BY <3>1 DEF Absorb
            <4> QED BY <1>3, <4>1, <4>2 DEF OpenAIChunk
        <3>2. CASE proto = "google"
            <4>1. parts = IF res.ttft \/ doc.texts = <<>> THEN doc.texts
                          ELSE <<Head(doc.texts)>>
                BY <1>1, <3>2 DEF Added, Speaks
            <4>2. new = GoogleChunk(res, e, doc)
                BY <3>2 DEF Absorb
            <4> QED BY <1>3, <4>1, <4>2 DEF GoogleChunk
        <3> QED BY <3>1, <3>2
    <2>2. parts \in Seq(Nat) /\ (Speaks(frame) => parts # <<>>) /\ (~Speaks(frame) => parts = <<>>)
        <3>1. doc.texts # <<>> => Head(doc.texts) \in Nat
            BY <1>1, HeadTailProperties
        <3>2. doc.texts # <<>> => <<Head(doc.texts)>> \in Seq(Nat) /\ <<Head(doc.texts)>> # <<>>
            BY <3>1
        <3> QED BY <1>1, <3>2 DEF Added, Speaks
    <2>3. /\ mid \in Result /\ mid.usage = res.usage
          /\ parts # <<>> => mid.text = res.text \o parts /\ mid.ttft = TRUE
          /\ parts = <<>> => mid = res
        <3> HIDE DEF parts
        <3> QED BY <2>2, TextEffect
    <2> HIDE DEF mid
    <2>4. /\ new.text = mid.text /\ new.ttft = mid.ttft
          /\ doc.usage.total > 0 => new.usage = Copied(doc.usage)
          /\ ~(doc.usage.total > 0) => new.usage = mid.usage
        <3> DEFINE u == doc.usage
        <3>1. new = WithTotal(mid, u) /\ mid \in Result
            BY <2>1, <2>3
        <3> HIDE DEF u, new
        <3>2. LET w == WithTotal(mid, u)
              IN  /\ w.text = mid.text /\ w.ttft = mid.ttft
                  /\ u.total > 0 => w.usage = Copied(u)
                  /\ ~(u.total > 0) => w.usage = mid.usage
            BY <3>1, TotalEffect
        <3> QED BY <3>1, <3>2 DEF u
    <2> HIDE DEF new
    <2>5. WithSpoken(proto, res, frame, new)
        BY <2>2, <2>3, <2>4, Zenon DEF WithSpoken
    <2> QED BY <1>3, <2>3, <2>4, <2>5 DEF Counting, new
<1> QED BY <1>1, <1>2, <1>3

LEMMA ResponsesEffect ==
    ASSUME NEW res \in Result, NEW frame \in Events, target.proto = "openai-responses",
           Regular(target.proto, frame), ~Fails(frame.event)
    PROVE  LET new == Absorb(res, frame.event, frame.doc)
           IN  /\ WithSpoken(target.proto, res, frame, new)
               /\ frame.event = "response.completed" =>
                     new.usage = WithResponsesUsage(res, frame.doc.usage).usage
               /\ frame.event # "response.completed" => new.usage = res.usage
<1> DEFINE doc == frame.doc
           e   == frame.event
           new == Absorb(res, e, doc)
<1>1. doc.texts \in Seq(Nat) /\ doc.json \in BOOLEAN /\ doc.usage \in UsageSet
    BY DEF Events, Docs
<1>2. new = ResponsesEvent(res, e, doc)
    BY DEF Absorb
<1>3. /\ e \in ResponsesEvents /\ e \notin {"response.failed", "response.incomplete"}
      /\ Speaks(frame) => e = "response.output_text.delta"
      /\ e = "response.completed" => doc.json = TRUE
      /\ doc.json = FALSE => ~Speaks(frame)
    BY DEF Regular, Fails
<1>4. Added(target.proto, res, frame) = doc.texts
    BY DEF Added
<1>5. CASE doc.json = FALSE
    <2>1. new = res
        BY <1>2, <1>5 DEF ResponsesEvent
    <2>2. WithSpoken(target.proto, res, frame, new)
        <3> HIDE DEF new
        <3> QED BY <1>3, <1>5, <2>1, Zenon DEF WithSpoken
    <2>3. e # "response.completed"
        BY <1>3, <1>5
    <2> QED BY <2>1, <2>2, <2>3
<1>6. CASE doc.json = TRUE /\ e = "response.output_text.delta"
    <2>1. new = WithText(res, doc.texts)
        BY <1>2, <1>6 DEF ResponsesEvent
    <2>2. /\ new.usage = res.usage
          /\ doc.texts # <<>> => new.text = res.text \o doc.texts /\ new.ttft = TRUE
          /\ doc.texts = <<>> => new = res
        <3> DEFINE t == doc.texts
        <3>1. new = WithText(res, t) /\ t \in Seq(Nat)
            BY <1>1, <2>1
        <3> HIDE DEF t, new
        <3>2. LET w == WithText(res, t)
              IN  /\ w.usage = res.usage
                  /\ t # <<>> => w.text = res.text \o t /\ w.ttft = TRUE
                  /\ t = <<>> => w = res
            BY <3>1, TextEffect
        <3> QED BY <3>1, <3>2 DEF t
    <2> HIDE DEF new
    <2>3. WithSpoken(target.proto, res, frame, new)
        BY <1>4, <2>2, Zenon DEF WithSpoken, Speaks
    <2> QED BY <1>6, <2>2, <2>3 DEF new
<1>7. CASE doc.json = TRUE /\ e = "response.completed"
    <2>1. new = WithResponsesUsage(res, doc.usage)
        BY <1>2, <1>7 DEF ResponsesEvent
    <2>2. new.text = res.text /\ new.ttft = res.ttft
        BY <2>1, UsageEffect DEF WithResponsesUsage
    <2>3. ~Speaks(frame)
        BY <1>3, <1>7
    <2> HIDE DEF new
    <2>4. WithSpoken(target.proto, res, frame, new)
        BY <2>2, <2>3, Zenon DEF WithSpoken
    <2> QED BY <1>7, <2>1, <2>4 DEF new
<1>8. CASE doc.json = TRUE /\ e = "response.created"
    <2>1. new = res
        BY <1>2, <1>8 DEF ResponsesEvent
    <2>2. ~Speaks(frame)
        BY <1>3, <1>8
    <2> HIDE DEF new
    <2>3. WithSpoken(target.proto, res, frame, new)
        BY <2>1, <2>2, Zenon DEF WithSpoken
    <2> QED BY <1>8, <2>1, <2>3 DEF new
<1> QED BY <1>1, <1>3, <1>5, <1>6, <1>7, <1>8 DEF ResponsesEvents, FinalEvents

LEMMA AnthropicEffect ==
    ASSUME NEW res \in Result, NEW frame \in Events, target.proto = "anthropic",
           Regular(target.proto, frame)
    PROVE  LET new == Absorb(res, frame.event, frame.doc)
           IN  /\ WithSpoken(target.proto, res, frame, new)
               /\ Reporting(frame) =>
                     new.usage = WithAnthropicUsage(res, frame.doc.usage).usage
               /\ ~Reporting(frame) => new.usage = res.usage
<1> DEFINE doc == frame.doc
           e   == frame.event
           new == Absorb(res, e, doc)
<1>1. doc.texts \in Seq(Nat) /\ doc.json \in BOOLEAN
    BY DEF Events, Docs
<1>2. new = AnthropicEvent(res, e, doc)
    BY DEF Absorb
<1>3. /\ Speaks(frame) => e = "content_block_delta"
      /\ doc.json = FALSE => ~Speaks(frame)
    BY DEF Regular
<1>4. Added(target.proto, res, frame) = doc.texts
    BY DEF Added
<1>5. CASE doc.json = FALSE
    <2>1. new = res
        BY <1>2, <1>5 DEF AnthropicEvent
    <2>2. WithSpoken(target.proto, res, frame, new)
        <3> HIDE DEF new
        <3> QED BY <1>3, <1>5, <2>1, Zenon DEF WithSpoken
    <2> QED BY <1>5, <2>1, <2>2 DEF Reporting
<1>6. CASE doc.json = TRUE /\ e = "content_block_delta"
    <2>1. new = WithText(res, doc.texts)
        BY <1>2, <1>6 DEF AnthropicEvent
    <2>2. /\ new.usage = res.usage
          /\ doc.texts # <<>> => new.text = res.text \o doc.texts /\ new.ttft = TRUE
          /\ doc.texts = <<>> => new = res
        <3> DEFINE t == doc.texts
        <3>1. new = WithText(res, t) /\ t \in Seq(Nat)
            BY <1>1, <2>1
        <3> HIDE DEF t, new
        <3>2. LET w == WithText(res, t)
              IN  /\ w.usage = res.usage
                  /\ t # <<>> => w.text = res.text \o t /\ w.ttft = TRUE
                  /\ t = <<>> => w = res
            BY <3>1, TextEffect
        <3> QED BY <3>1, <3>2 DEF t
    <2> HIDE DEF new
    <2>3. WithSpoken(target.proto, res, frame, new)
        BY <1>4, <2>2, Zenon DEF WithSpoken, Speaks
    <2> QED BY <1>6, <2>2, <2>3 DEF new, Reporting
<1>7. CASE doc.json = TRUE /\ e \in {"message_start", "message_delta"}
    <2>1. new = WithAnthropicUsage(res, doc.usage)
        BY <1>2, <1>7 DEF AnthropicEvent
    <2>2. new.text = res.text /\ new.ttft = res.ttft
        BY <2>1 DEF WithAnthropicUsage, Result
    <2>3. ~Speaks(frame)
        BY <1>3, <1>7
    <2> HIDE DEF new
    <2>4. WithSpoken(target.proto, res, frame, new)
        BY <2>2, <2>3, Zenon DEF WithSpoken
    <2> QED BY <1>7, <2>1, <2>4 DEF new, Reporting
<1>8. CASE doc.json = TRUE /\ e \notin {"message_start", "message_delta", "content_block_delta"}
    <2>1. new = res
        BY <1>2, <1>8 DEF AnthropicEvent
    <2>2. ~Speaks(frame)
        BY <1>3, <1>8
    <2> HIDE DEF new
    <2>3. WithSpoken(target.proto, res, frame, new)
        BY <2>1, <2>2, Zenon DEF WithSpoken
    <2> QED BY <1>8, <2>1, <2>3 DEF new, Reporting
<1> QED BY <1>1, <1>5, <1>6, <1>7, <1>8

Heard(proto, s, h, p, res) == TextHeard(proto, s, h, p, res) /\ UsageHeard(proto, s, h, res)

LEMMA ZeroAdds == \A n \in Nat : n + 0 = n
OBVIOUS

\* One frame more.
LEMMA AbsorbHeard ==
    ASSUME NEW s, NEW h \in Nat, NEW p \in Nat, NEW res \in Result, NEW e,
           target.proto \in Protocols, Heard(target.proto, s, h, p, res),
           \A g \in 1 .. h + 1 : s[g] \in Events,
           h > 0 => ~Terminal(s[h]),
           Regular(target.proto, s[h + 1]), Follows(s[h + 1].doc.texts, p),
           s[h + 1].event # "" => e = s[h + 1].event, ~Fails(e)
    PROVE  Heard(target.proto, s, h + 1, p + Len(s[h + 1].doc.texts),
                 Absorb(res, e, s[h + 1].doc))
<1> DEFINE frame == s[h + 1]
           proto == target.proto
           new   == Absorb(res, e, frame.doc)
<1>0. frame \in Events /\ \A g \in 1 .. h + 1 : /\ s[g].doc.texts \in Seq(Nat)
                                                /\ s[g].doc.usage \in UsageSet
    BY OneMore DEF Events, Docs
<1>1. res.text \in Seq(Nat)
    BY DEF Result
<1>2. TextHeard(proto, s, h, p, res) /\ UsageHeard(proto, s, h, res)
    BY Zenon DEF Heard
<1>3. WithSpoken(proto, res, frame, new) /\ UsageHeard(proto, s, h + 1, new)
    <2>1. CASE proto \in {"openai", "google"}
        <3>1. /\ WithSpoken(proto, res, frame, new)
              /\ Counting(frame) => new.usage = Copied(frame.doc.usage)
              /\ ~Counting(frame) => new.usage = res.usage
            BY <1>0, <2>1, ChunkEffect
        <3>2. TotalHeard(s, h, res.usage)
            BY <1>2, <2>1 DEF UsageHeard
        <3> HIDE DEF new
        <3>3. TotalHeard(s, h + 1, new.usage)
            BY <3>1, <3>2, TotalStep
        <3>4. UsageHeard(proto, s, h + 1, new)
            BY <2>1, <3>3 DEF UsageHeard
        <3> QED BY <3>1, <3>4
    <2>2. CASE proto = "openai-responses"
        <3>0. frame.event # ""
            BY <2>2 DEF Regular
        <3>1. /\ WithSpoken(proto, res, frame, new)
              /\ frame.event = "response.completed" =>
                     new.usage = WithResponsesUsage(res, frame.doc.usage).usage
              /\ frame.event # "response.completed" => new.usage = res.usage
            BY <1>0, <2>2, <3>0, ResponsesEffect
        <3>2. FinalHeard(s, h, res.usage) /\ (h > 0 => s[h].event # "response.completed")
            BY <1>2, <2>2 DEF UsageHeard, Terminal
        <3> HIDE DEF new
        <3>3. FinalHeard(s, h + 1, new.usage)
            <4>1. frame.doc.usage \in UsageSet
                BY <1>0, OneMore
            <4> QED BY <3>1, <3>2, <4>1, FinalStep
        <3>4. UsageHeard(proto, s, h + 1, new)
            BY <2>2, <3>3 DEF UsageHeard
        <3> QED BY <3>1, <3>4
    <2>3. CASE proto = "anthropic"
        <3>0. frame.event # ""
            BY <2>3 DEF Regular
        <3>1. /\ WithSpoken(proto, res, frame, new)
              /\ Reporting(frame) => new.usage = WithAnthropicUsage(res, frame.doc.usage).usage
              /\ ~Reporting(frame) => new.usage = res.usage
            <4>1. /\ target.proto = "anthropic" /\ Regular(target.proto, frame)
                  /\ frame \in Events /\ e = frame.event
                BY <1>0, <2>3, <3>0
            <4>2. LET after == Absorb(res, frame.event, frame.doc)
                  IN  /\ WithSpoken(target.proto, res, frame, after)
                      /\ Reporting(frame) =>
                             after.usage = WithAnthropicUsage(res, frame.doc.usage).usage
                      /\ ~Reporting(frame) => after.usage = res.usage
                <5> HIDE DEF frame
                <5> QED BY <4>1, AnthropicEffect
            <4> HIDE DEF frame
            <4> QED BY <4>1, <4>2
        <3>2. LargestHeard(s, h, res.usage)
            BY <1>2, <2>3 DEF UsageHeard
        <3> HIDE DEF new
        <3>3. LargestHeard(s, h + 1, new.usage)
            BY <1>0, <3>1, <3>2, LargestNext
        <3>4. UsageHeard(proto, s, h + 1, new)
            BY <2>3, <3>3 DEF UsageHeard
        <3> QED BY <3>1, <3>4
    <2> QED BY <2>1, <2>2, <2>3 DEF Protocols
<1> HIDE DEF new
<1>4. CASE Speaks(frame)
    <2>1. new.text = res.text \o Added(proto, res, frame) /\ new.ttft = TRUE
        BY <1>3, <1>4, Zenon DEF WithSpoken
    <2>2. TextHeard(proto, s, h + 1, p + Len(frame.doc.texts), new)
        BY <1>0, <1>1, <1>2, <1>4, <2>1, TextSpoken
    <2> QED BY <1>3, <2>2 DEF Heard, new
<1>5. CASE ~Speaks(frame)
    <2>1. new.text = res.text /\ new.ttft = res.ttft
        BY <1>3, <1>5, Zenon DEF WithSpoken
    <2>2. TextHeard(proto, s, h + 1, p, new)
        BY <1>2, <1>5, <2>1, TextSilent
    <2>3. p + Len(frame.doc.texts) = p
        <3> DEFINE t == frame.doc.texts
        <3>1. t = <<>>
            BY <1>5 DEF Speaks
        <3> HIDE DEF t
        <3>2. Len(t) = 0
            BY <3>1
        <3>3. p + Len(t) = p
            <4>1. p + 0 = p
                BY ZeroAdds
            <4> QED BY ONLY <3>2, <4>1
        <3> QED BY <3>3 DEF t
    <2> QED BY <1>3, <2>2, <2>3 DEF Heard, new
<1> QED BY <1>4, <1>5

-----------------------------------------------------------------------------
(* What was heard of a whole stream is what the provider said.             *)

TextRight(res) ==
    /\ Pieces(res.text) = (1 .. pieces) \ Skipped
    /\ Rising(res.text)

UsageRight(res) ==
    CASE target.proto \in {"openai", "google"} -> res.usage = Copied(LastReport)
      [] target.proto = "openai-responses" ->
           res.usage = Final(said[Len(said)].doc.usage)
      [] target.proto = "anthropic" ->
           LET us == Reports({"message_start", "message_delta"})
           IN  /\ \A f \in Kinds : res.usage[f] = Greatest({u[f] : u \in us} \cup {0})
               /\ res.usage.total = res.usage.in + res.usage.out
               /\ res.usage.reasoning = 0

LEMMA Rights ==
    /\ (ReadToTheEnd => TextRight(result)) => TextExact
    /\ (ReadToTheEnd => UsageRight(result)) => UsageExact
<1>1. (ReadToTheEnd => TextRight(result)) => TextExact
    BY DEF TextExact, TextRight, Pieces, Rising
<1>2. (ReadToTheEnd => UsageRight(result)) => UsageExact
    BY DEF UsageExact, UsageRight, Final, FinalTotal, Kinds
<1> QED BY <1>1, <1>2

LEMMA SaidTyped ==
    ASSUME said \in Seq(Events)
    PROVE  /\ Len(said) \in Nat /\ DOMAIN said = 1 .. Len(said)
           /\ \A i \in 1 .. Len(said) :
                 /\ said[i] \in Events /\ said[i].doc.json \in BOOLEAN
                 /\ said[i].doc.usage \in UsageSet
<1>1. \A i \in 1 .. Len(said) : said[i] \in Events
    BY ElementOfSeq
<1>2. \A frame \in Events : frame.doc.json \in BOOLEAN /\ frame.doc.usage \in UsageSet
    BY DEF Events, Docs
<1> QED BY <1>1, <1>2, LenProperties

LEMMA TextConcluded ==
    ASSUME NEW res, said \in Seq(Events), res.ttft = TRUE,
           TextHeard(target.proto, said, Len(said), pieces, res)
    PROVE  TextRight(res)
<1> DEFINE talk == {n \in DOMAIN said : said[n].doc.texts # <<>>}
<1>1. Spoken(target.proto, said, Len(said), pieces, res)
    BY DEF TextHeard
<1>2. PICK f \in 1 .. Len(said) :
          /\ Opening(said, Len(said), f) /\ Rising(res.text)
          /\ Pieces(res.text) = (1 .. pieces) \ Omitted(target.proto, said[f])
    BY <1>1 DEF Spoken
<1>3. DOMAIN said = 1 .. Len(said)
    BY LenProperties
<1>4. f \in talk /\ \A m \in talk : f <= m
    BY <1>2, <1>3 DEF Opening, Speaks
<1>5. \A n \in talk : (\A m \in talk : n <= m) => n = f
    BY <1>3, <1>4
<1>6. (CHOOSE n \in talk : \A m \in talk : n <= m) = f
    <2> HIDE DEF talk
    <2> QED BY <1>4, <1>5
<1>7. Skipped = Omitted(target.proto, said[f])
    BY <1>4, <1>6 DEF Skipped, Omitted
<1> QED BY <1>2, <1>7 DEF TextRight

LEMMA GreatestIs ==
    ASSUME NEW S \in SUBSET Nat, NEW n \in S, \A m \in S : m <= n
    PROVE  Greatest(S) = n
<1>1. \A k \in S : (\A m \in S : m <= k) => k = n
    OBVIOUS
<1> QED BY <1>1 DEF Greatest

LEMMA TotalConcluded ==
    ASSUME NEW u, said \in Seq(Events), TotalHeard(said, Len(said), u)
    PROVE  u = Copied(LastReport)
<1> DEFINE reports == {j \in DOMAIN said : said[j].doc.json /\ said[j].doc.usage.total > 0}
<1>1. DOMAIN said = 1 .. Len(said) /\ Len(said) \in Nat
    BY LenProperties
<1>2. \A j : j \in reports <=> j \in 1 .. Len(said) /\ Counting(said[j])
    <2>1. \A j \in DOMAIN said : said[j].doc.json \in BOOLEAN
        BY SaidTyped
    <2> QED BY <1>1, <2>1 DEF Counting
<1>3. LastReport = IF reports = {} THEN NoUsage ELSE said[Greatest(reports)].doc.usage
    BY DEF LastReport
<1> HIDE DEF reports
<1>4. CASE u = NoUsage /\ \A i \in 1 .. Len(said) : ~Counting(said[i])
    <2>1. LastReport = NoUsage
        BY <1>2, <1>3, <1>4
    <2>2. Copied(NoUsage) = NoUsage
        BY DEF Copied, NoUsage
    <2> QED BY <1>4, <2>1, <2>2
<1>5. CASE \E j \in 1 .. Len(said) : LastCounted(said, Len(said), j) /\ u = Copied(said[j].doc.usage)
    <2>1. PICK j \in 1 .. Len(said) : LastCounted(said, Len(said), j) /\ u = Copied(said[j].doc.usage)
        BY <1>5
    <2>2. j \in reports /\ \A i \in reports : i <= j
        BY <1>2, <2>1 DEF LastCounted
    <2>3. reports \in SUBSET Nat
        BY <1>1, <1>2
    <2>4. Greatest(reports) = j
        BY <2>2, <2>3, GreatestIs
    <2> QED BY <1>3, <2>1, <2>2, <2>4
<1> QED BY <1>4, <1>5 DEF TotalHeard

LEMMA LargestConcluded ==
    ASSUME NEW u \in UsageSet, said \in Seq(Events), LargestHeard(said, Len(said), u),
           NEW kind \in Kinds
    PROVE  u[kind] = Greatest({v[kind] : v \in Reports({"message_start", "message_delta"})} \cup {0})
<1> DEFINE us == Reports({"message_start", "message_delta"})
           counts == {v[kind] : v \in us}
           S == counts \cup {0}
           n == u[kind]
<1>1. DOMAIN said = 1 .. Len(said) /\ Len(said) \in Nat
    BY LenProperties
<1>2. \A i \in 1 .. Len(said) : said[i].doc.json \in BOOLEAN /\ said[i].doc.usage \in UsageSet
    BY SaidTyped
<1>3. \A v : v \in us <=> \E i \in 1 .. Len(said) : Reporting(said[i]) /\ v = said[i].doc.usage
    BY <1>1, <1>2 DEF Reports, Reporting
<1>4. n \in Nat /\ LargestSo(said, Len(said), kind, n)
    BY KindsTyped DEF LargestHeard
<1>5. \A v \in us : v[kind] \in Nat /\ v[kind] <= n
    BY <1>2, <1>3, <1>4, KindsTyped DEF LargestSo
<1>6. n = 0 \/ \E v \in us : v[kind] = n
    BY <1>3, <1>4 DEF LargestSo
<1> HIDE DEF us
<1>7. counts \in SUBSET Nat /\ (\A m \in counts : m <= n) /\ (n = 0 \/ n \in counts)
    BY <1>5, <1>6
<1> HIDE DEF counts, n
<1>8. S \in SUBSET Nat /\ n \in S /\ \A m \in S : m <= n
    BY <1>4, <1>7
<1> HIDE DEF S
<1>9. Greatest(S) = n
    BY <1>8, GreatestIs
<1> QED BY <1>9 DEF S, counts, us, n

LEMMA ConcludedParts ==
    ASSUME NEW res \in Result
    PROVE  LET new == Concluded(res)
           IN  /\ new.text = res.text /\ new.success = res.ttft
               /\ \A kind \in Kinds \cup {"reasoning"} : new.usage[kind] = res.usage[kind]
               /\ target.proto # "anthropic" => new.usage = res.usage
               /\ target.proto = "anthropic" /\ res.usage.total = 0 =>
                     new.usage.total = new.usage.in + new.usage.out
<1> DEFINE total == IF target.proto = "anthropic" /\ res.usage.total = 0
                    THEN res.usage.in + res.usage.out ELSE res.usage.total
           u == [res.usage EXCEPT !.total = total]
           e == IF res.ttft THEN "" ELSE "parse_error"
           new == Concluded(res)
<1>1. res.usage \in UsageSet
    BY DEF Result
<1>2. new = WithVerdict(res, res.ttft, e, u)
    BY <1>1 DEF Concluded, Result, UsageSet, WithVerdict
<1>3. /\ u.total = total /\ u.in = res.usage.in /\ u.out = res.usage.out
      /\ u.cached = res.usage.cached /\ u.creation = res.usage.creation
      /\ u.reasoning = res.usage.reasoning
    BY <1>1 DEF UsageSet
<1>4. total = res.usage.total => u = res.usage
    BY <1>1 DEF UsageSet
<1> HIDE DEF u, e
<1>5. new.text = res.text /\ new.success = res.ttft /\ new.usage = u
    BY <1>2 DEF WithVerdict, Result
<1> HIDE DEF new
<1>6. \A kind \in Kinds \cup {"reasoning"} : new.usage[kind] = res.usage[kind]
    BY <1>3, <1>5 DEF Kinds
<1>7. target.proto # "anthropic" => new.usage = res.usage
    BY <1>4, <1>5
<1>8. target.proto = "anthropic" /\ res.usage.total = 0 =>
          new.usage.total = new.usage.in + new.usage.out
    BY <1>3, <1>5
<1> QED BY <1>5, <1>6, <1>7, <1>8 DEF new

\* The end of a stream that was heard to its end.
LEMMA ConcludedRight ==
    ASSUME NEW res \in Result, said \in Seq(Events), target.proto \in Protocols,
           Heard(target.proto, said, Len(said), pieces, res),
           target.proto = "openai-responses" => said # <<>> /\ Last.event = "response.completed"
    PROVE  LET new == Concluded(res)
           IN  new.success = TRUE => TextRight(new) /\ UsageRight(new)
<1> DEFINE new == Concluded(res)
<1> SUFFICES ASSUME new.success = TRUE PROVE TextRight(new) /\ UsageRight(new)
    OBVIOUS
<1>1. /\ new.text = res.text /\ new.success = res.ttft
      /\ \A kind \in Kinds \cup {"reasoning"} : new.usage[kind] = res.usage[kind]
      /\ target.proto # "anthropic" => new.usage = res.usage
      /\ target.proto = "anthropic" /\ res.usage.total = 0 =>
               new.usage.total = new.usage.in + new.usage.out
    BY ConcludedParts
<1> HIDE DEF new
<1>2. /\ TextHeard(target.proto, said, Len(said), pieces, res)
      /\ UsageHeard(target.proto, said, Len(said), res)
    BY Zenon DEF Heard
<1>3. TextRight(new)
    <2>1. res.ttft = TRUE
        BY <1>1
    <2>2. TextRight(res)
        BY <1>2, <2>1, TextConcluded
    <2> QED BY <1>1, <2>2 DEF TextRight
<1>4. CASE target.proto \in {"openai", "google"}
    <2>1. TotalHeard(said, Len(said), res.usage)
        BY <1>2, <1>4 DEF UsageHeard
    <2>2. res.usage = Copied(LastReport)
        BY <2>1, TotalConcluded
    <2> QED BY <1>1, <1>3, <1>4, <2>2 DEF UsageRight
<1>5. CASE target.proto = "openai-responses"
    <2>1. FinalHeard(said, Len(said), res.usage)
        BY <1>2, <1>5 DEF UsageHeard
    <2>2. Len(said) > 0
        BY <1>5, EmptySeq, LenProperties
    <2>3. res.usage = Final(Last.doc.usage)
        BY <1>5, <2>1, <2>2 DEF FinalHeard, Last
    <2> QED BY <1>1, <1>3, <1>5, <2>3 DEF UsageRight, Last
<1>6. CASE target.proto = "anthropic"
    <2>1. LargestHeard(said, Len(said), res.usage) /\ res.usage \in UsageSet
        BY <1>2, <1>6 DEF UsageHeard, Result
    <2>2. \A f \in Kinds : res.usage[f] =
             Greatest({v[f] : v \in Reports({"message_start", "message_delta"})} \cup {0})
        BY <2>1, LargestConcluded
    <2>3. res.usage["total"] = 0 /\ res.usage["reasoning"] = 0
        BY <2>1 DEF LargestHeard
    <2>4. \A f \in Kinds : new.usage[f] =
             Greatest({v[f] : v \in Reports({"message_start", "message_delta"})} \cup {0})
        BY <1>1, <2>2
    <2>5. new.usage.reasoning = 0 /\ new.usage.total = new.usage.in + new.usage.out
        BY <1>1, <1>6, <2>3
    <2> QED BY <1>3, <1>6, <2>4, <2>5 DEF UsageRight
<1> QED BY <1>3, <1>4, <1>5, <1>6 DEF Protocols, new

-----------------------------------------------------------------------------
(* What was heard, and what is on the way, is what was said.               *)

\* The provider keeps to its protocol, and stops at a terminal frame.
Script ==
    \A n \in 1 .. Len(said) :
        /\ Regular(target.proto, said[n])
        /\ n # Len(said) => ~Terminal(said[n])

Beginning ==
    phase = "dialing" =>
        /\ reader = FreshReader /\ wire = <<>> /\ said = <<>> /\ pieces = 0
        /\ result.text = <<>> /\ result.ttft = FALSE /\ result.usage = NoUsage

Modes ==
    /\ phase = "reading" => Streams(target)
    /\ phase = "body" => ~Streams(target)

\* A stream that ended and was not cut ended where it may.
Ending == open = FALSE /\ cut = FALSE => target.proto = "google" \/ Terminated

\* The reader has no part of a frame, and none is on the way ...
Resting ==
    /\ reader.data = <<>>
    /\ wire \in {<<>>, <<EventLine("ping"), Blank>>, <<Blank>>}

\* ... or the parts it has and those on the way are one frame.
Parted(frame) ==
    LET whole  == Fragment(frame.doc, 1, 1)
        first  == Fragment(frame.doc, 1, 2)
        second == Fragment(frame.doc, 2, 2)
    IN  \/ /\ reader.data = <<>>
           /\ wire \in {<<DataLine(whole), Blank>>,
                        <<DataLine(first), Comment, DataLine(second), Blank>>}
        \/ /\ reader.data = <<whole>> /\ wire = <<Blank>>
        \/ /\ reader.data = <<first>>
           /\ wire \in {<<Comment, DataLine(second), Blank>>, <<DataLine(second), Blank>>}
        \/ /\ reader.data = <<first, second>> /\ wire = <<Blank>>

Announced(frame) ==
    LET whole  == Fragment(frame.doc, 1, 1)
        first  == Fragment(frame.doc, 1, 2)
        second == Fragment(frame.doc, 2, 2)
    IN  /\ reader.data = <<>>
        /\ wire \in {<<EventLine(frame.event), DataLine(whole), Blank>>,
                     <<EventLine(frame.event), DataLine(first), Comment,
                       DataLine(second), Blank>>}

Pending(frame) ==
    \/ Announced(frame)
    \/ Parted(frame) /\ (frame.event # "" => reader.event = frame.event)

\* The pieces before the last frame.
Before == pieces - Len(Last.doc.texts)

AllHeard == Heard(target.proto, said, Len(said), pieces, result)

LastToCome ==
    /\ said # <<>> /\ Pending(Last)
    /\ Before \in Nat /\ Follows(Last.doc.texts, Before)
    /\ Heard(target.proto, said, Len(said) - 1, Before, result)

Delivery == phase = "reading" /\ cut = FALSE => (Resting /\ AllHeard) \/ LastToCome

Conclusion ==
    phase \in {"ended", "recorded"} /\ Streams(target) /\ result.success = TRUE /\ cut = FALSE =>
        TextRight(result) /\ UsageRight(result)

-----------------------------------------------------------------------------
(* Reading a line.                                                         *)

LEMMA LinesRead ==
    ASSUME NEW rd \in ReaderType
    PROVE  /\ \A e \in EventTypes : /\ ~Emits(rd, EventLine(e))
                                    /\ AfterLine(rd, EventLine(e)).event = e
                                    /\ AfterLine(rd, EventLine(e)).data = rd.data
           /\ \A d \in Fragments(Docs) : /\ ~Emits(rd, DataLine(d))
                                         /\ AfterLine(rd, DataLine(d)).event = rd.event
                                         /\ AfterLine(rd, DataLine(d)).data = Append(rd.data, d)
           /\ ~Emits(rd, Comment) /\ AfterLine(rd, Comment) = rd
           /\ rd.data = <<>> => ~Emits(rd, Blank) /\ AfterLine(rd, Blank) = rd
           /\ rd.data # <<>> => Emits(rd, Blank) /\ AfterLine(rd, Blank) = FreshReader
<1>1. ASSUME NEW e \in EventTypes
      PROVE  /\ ~Emits(rd, EventLine(e)) /\ AfterLine(rd, EventLine(e)).event = e
             /\ AfterLine(rd, EventLine(e)).data = rd.data
    <2>1. EventLine(e).field = "event" /\ EventLine(e).value = e
        BY DEF EventLine
    <2>2. AfterLine(rd, EventLine(e)) = [rd EXCEPT !.event = e]
        BY <2>1 DEF AfterLine
    <2> QED BY <2>2, EventLineRead DEF ReaderType
<1>2. ASSUME NEW d \in Fragments(Docs)
      PROVE  /\ ~Emits(rd, DataLine(d)) /\ AfterLine(rd, DataLine(d)).event = rd.event
             /\ AfterLine(rd, DataLine(d)).data = Append(rd.data, d)
    <2>1. DataLine(d).field = "data"
        BY DEF DataLine
    <2>2. DataLine(d).value = d
        BY DEF DataLine
    <2>3. AfterLine(rd, DataLine(d)) = [rd EXCEPT !.data = Append(rd.data, d)]
        BY <2>1, <2>2 DEF AfterLine, ReaderType
    <2> QED BY <2>3, DataLineRead DEF ReaderType
<1>3. Blank.field = "blank"
    BY DEF Blank
<1>4. rd.data = <<>> => ~Emits(rd, Blank) /\ AfterLine(rd, Blank) = rd
    BY <1>3 DEF Emits, AfterLine
<1>5. rd.data # <<>> => Emits(rd, Blank) /\ AfterLine(rd, Blank) = FreshReader
    BY <1>3 DEF Emits, AfterLine
<1> QED BY <1>1, <1>2, <1>4, <1>5, CommentRead

\* Between frames: what is read counts for nothing.
LEMMA RestRead ==
    ASSUME reader \in ReaderType, Resting, ReadLine
    PROVE  Resting' /\ UNCHANGED <<phase, result>>
<1>1. /\ wire # <<>> /\ wire' = Tail(wire) /\ reader' = AfterLine(reader, Head(wire))
      /\ ~Emits(reader, Head(wire)) => UNCHANGED <<phase, result>>
    BY DEF ReadLine
<1>2. "ping" \in EventTypes
    BY DEF EventTypes
<1> DEFINE line == EventLine("ping")
<1>3. CASE wire = <<line, Blank>>
    <2>1. Head(wire) = line /\ wire' = <<Blank>>
        <3> HIDE DEF line
        <3> QED BY <1>1, <1>3
    <2>2. ~Emits(reader, Head(wire)) /\ reader'.data = reader.data
        BY <1>1, <1>2, <2>1, LinesRead
    <2> QED BY <1>1, <2>1, <2>2 DEF Resting
<1>4. CASE wire = <<Blank>>
    <2>1. Head(wire) = Blank /\ wire' = <<>>
        BY <1>1, <1>4
    <2>2. ~Emits(reader, Head(wire)) /\ reader' = reader
        BY <1>1, <2>1, LinesRead DEF Resting
    <2> QED BY <1>1, <2>1, <2>2 DEF Resting
<1> QED BY <1>1, <1>3, <1>4 DEF Resting

LEMMA HeadAndTail ==
    /\ \A a : Head(<<a>>) = a /\ Tail(<<a>>) = <<>>
    /\ \A a, b : Head(<<a, b>>) = a /\ Tail(<<a, b>>) = <<b>>
OBVIOUS

LEMMA HeadOfThree == \A a, b, c : Head(<<a, b, c>>) = a /\ Tail(<<a, b, c>>) = <<b, c>>
OBVIOUS

LEMMA HeadOfFour ==
    \A a, b, c, d : Head(<<a, b, c, d>>) = a /\ Tail(<<a, b, c, d>>) = <<b, c, d>>
OBVIOUS

LEMMA HeadOfFive ==
    \A a, b, c, d, e : Head(<<a, b, c, d, e>>) = a /\ Tail(<<a, b, c, d, e>>) = <<b, c, d, e>>
OBVIOUS

LEMMA AppendedLast ==
    ASSUME NEW S, NEW p \in Seq(S), NEW e \in S
    PROVE  /\ Append(p, e) \in Seq(S)
           /\ Len(Append(p, e)) = Len(p) + 1
           /\ Append(p, e)[Len(p) + 1] = e
BY AppendProperties, Zenon

LEMMA AppendedKeeps ==
    ASSUME NEW S, NEW p \in Seq(S), NEW e \in S, NEW i \in 1 .. Len(p)
    PROVE  Append(p, e)[i] = p[i]
OBVIOUS

LEMMA AppendToOne ==
    ASSUME NEW a, NEW b
    PROVE  Append(<<a>>, b) = <<a, b>>
<1> DEFINE S == {a, b}
           p == <<a>>
           q == Append(p, b)
           r == <<a, b>>
<1>1. p \in Seq(S) /\ b \in S /\ Len(p) = 1 /\ p[1] = a /\ 1 \in 1 .. Len(p)
    OBVIOUS
<1>2. r \in Seq(S) /\ Len(r) = 2 /\ r[1] = a /\ r[2] = b
    OBVIOUS
<1> HIDE DEF S, p, r
<1>3. q \in Seq(S) /\ Len(q) = Len(p) + 1 /\ q[Len(p) + 1] = b
    <2>1. p \in Seq(S) /\ b \in S
        BY <1>1
    <2> QED BY <2>1, AppendedLast
<1>4. q[1] = p[1]
    <2>1. p \in Seq(S) /\ b \in S /\ 1 \in 1 .. Len(p)
        BY <1>1
    <2> QED BY <2>1, AppendedKeeps
<1> HIDE DEF q
<1>5. Len(q) = 2 /\ q[1] = a /\ q[2] = b
    BY <1>1, <1>3, <1>4
<1>6. \A i \in 1 .. 2 : q[i] = r[i]
    BY <1>2, <1>5
<1>7. q = r
    BY <1>2, <1>3, <1>5, <1>6, SeqEqual
<1> QED BY <1>7 DEF p, q, r

LEMMA Parts ==
    /\ \A a : Append(<<>>, a) = <<a>> /\ <<a>> # <<>>
    /\ \A a, b : Append(<<a>>, b) = <<a, b>> /\ <<a, b>> # <<>>
<1>1. ASSUME NEW a PROVE Append(<<>>, a) = <<a>> /\ <<a>> # <<>>
    OBVIOUS
<1>2. ASSUME NEW a, NEW b PROVE Append(<<a>>, b) = <<a, b>>
    BY AppendToOne
<1>3. ASSUME NEW a, NEW b PROVE <<a, b>> # <<>>
    OBVIOUS
<1> QED BY <1>1, <1>2, <1>3

LEMMA OnePart ==
    ASSUME NEW d, NEW data, data = <<Fragment(d, 1, 1)>>
    PROVE  Decoded(data) = d
<1> DEFINE f == Fragment(d, 1, 1)
<1>1. f.doc = d /\ f.parts = 1
    BY DEF Fragment
<1>2. f = Fragment(f.doc, 1, 1)
    BY <1>1
<1> HIDE DEF f
<1>3. Len(data) = 1 /\ data[1] = f /\ DOMAIN data = {1}
    BY DEF f
<1>4. Decodes(data)
    BY <1>1, <1>2, <1>3 DEF Decodes
<1> QED BY <1>1, <1>3, <1>4 DEF Decoded, Document

LEMMA TwoParts ==
    ASSUME NEW d, NEW data, data = <<Fragment(d, 1, 2), Fragment(d, 2, 2)>>
    PROVE  Decoded(data) = d
<1> DEFINE f == Fragment(d, 1, 2)
           g == Fragment(d, 2, 2)
<1>1. f.doc = d /\ f.parts = 2
    BY DEF Fragment
<1>2. f = Fragment(f.doc, 1, 2) /\ g = Fragment(f.doc, 2, 2)
    BY <1>1
<1> HIDE DEF f, g
<1>3. Len(data) = 2 /\ data[1] = f /\ data[2] = g /\ DOMAIN data = 1 .. 2
    BY DEF f, g
<1>4. Decodes(data)
    <2>1. \A i \in 1 .. 2 : i = 1 \/ i = 2
        OBVIOUS
    <2> QED BY <1>1, <1>2, <1>3, <2>1 DEF Decodes
<1> QED BY <1>1, <1>3, <1>4 DEF Decoded, Document

\* A frame on the way: one line less of it, or its event.
LEMMA PendingRead ==
    ASSUME reader \in ReaderType, NEW frame \in Events, Pending(frame), ReadLine
    PROVE  \/ /\ Pending(frame)' /\ UNCHANGED <<phase, result>>
           \/ /\ Dispatch(reader.event, frame.doc)
              /\ frame.event # "" => reader.event = frame.event
              /\ reader' = FreshReader /\ wire' = <<>>
<1>1. /\ wire # <<>> /\ wire' = Tail(wire) /\ reader' = AfterLine(reader, Head(wire))
      /\ ~Emits(reader, Head(wire)) => UNCHANGED <<phase, result>>
      /\ Emits(reader, Head(wire)) => Dispatch(reader.event, Decoded(reader.data))
    BY DEF ReadLine
<1>0. wire' = Tail(wire)
    BY DEF ReadLine
<1>2. frame.event \in EventTypes /\ frame.doc \in Docs
    BY DEF Events
<1> DEFINE whole  == Fragment(frame.doc, 1, 1)
           first  == Fragment(frame.doc, 1, 2)
           second == Fragment(frame.doc, 2, 2)
           line   == EventLine(frame.event)
           keeps(rd) == frame.event # "" => rd.event = frame.event
<1>3. whole \in Fragments(Docs) /\ first \in Fragments(Docs) /\ second \in Fragments(Docs)
    BY <1>2 DEF Fragment, Fragments
<1>4. /\ Pending(frame) <=> \/ Announced(frame)
                            \/ Parted(frame) /\ keeps(reader)
      /\ Pending(frame)' <=> \/ Announced(frame)'
                             \/ Parted(frame)' /\ keeps(reader')
    BY DEF Pending
<1>5. Parted(frame) <=>
        \/ reader.data = <<>> /\ wire = <<DataLine(whole), Blank>>
        \/ reader.data = <<>> /\ wire = <<DataLine(first), Comment, DataLine(second), Blank>>
        \/ reader.data = <<whole>> /\ wire = <<Blank>>
        \/ reader.data = <<first>> /\ wire = <<Comment, DataLine(second), Blank>>
        \/ reader.data = <<first>> /\ wire = <<DataLine(second), Blank>>
        \/ reader.data = <<first, second>> /\ wire = <<Blank>>
    BY DEF Parted
<1>6. Parted(frame)' <=>
        \/ reader'.data = <<>> /\ wire' = <<DataLine(whole), Blank>>
        \/ reader'.data = <<>> /\ wire' = <<DataLine(first), Comment, DataLine(second), Blank>>
        \/ reader'.data = <<whole>> /\ wire' = <<Blank>>
        \/ reader'.data = <<first>> /\ wire' = <<Comment, DataLine(second), Blank>>
        \/ reader'.data = <<first>> /\ wire' = <<DataLine(second), Blank>>
        \/ reader'.data = <<first, second>> /\ wire' = <<Blank>>
    BY DEF Parted
<1>7. Announced(frame) <=>
        /\ reader.data = <<>>
        /\ \/ wire = <<line, DataLine(whole), Blank>>
           \/ wire = <<line, DataLine(first), Comment, DataLine(second), Blank>>
    BY DEF Announced
<1>8. /\ \A data : data = <<whole>> => Decoded(data) = frame.doc
      /\ \A data : data = <<first, second>> => Decoded(data) = frame.doc
    BY OnePart, TwoParts
<1> DEFINE w == DataLine(whole)
           a == DataLine(first)
           b == DataLine(second)
<1>9. /\ ~Emits(reader, w) /\ AfterLine(reader, w).event = reader.event
      /\ AfterLine(reader, w).data = Append(reader.data, whole)
      /\ ~Emits(reader, a) /\ AfterLine(reader, a).event = reader.event
      /\ AfterLine(reader, a).data = Append(reader.data, first)
      /\ ~Emits(reader, b) /\ AfterLine(reader, b).event = reader.event
      /\ AfterLine(reader, b).data = Append(reader.data, second)
      /\ ~Emits(reader, line) /\ AfterLine(reader, line).event = frame.event
      /\ AfterLine(reader, line).data = reader.data
      /\ ~Emits(reader, Comment) /\ AfterLine(reader, Comment) = reader
      /\ reader.data # <<>> => Emits(reader, Blank) /\ AfterLine(reader, Blank) = FreshReader
    BY <1>2, <1>3, LinesRead
<1> HIDE DEF whole, first, second, line, w, a, b
<1>10. CASE Announced(frame)
    <2>1. Head(wire) = line /\ (wire' = <<w, Blank>> \/ wire' = <<a, Comment, b, Blank>>)
        <3>1. CASE wire = <<line, w, Blank>>
            BY <1>0, <3>1, HeadOfThree, Zenon
        <3>2. CASE wire = <<line, a, Comment, b, Blank>>
            <4>1. /\ Head(<<line, a, Comment, b, Blank>>) = line
                  /\ Tail(<<line, a, Comment, b, Blank>>) = <<a, Comment, b, Blank>>
                BY HeadOfFive
            <4> QED BY <1>0, <3>2, <4>1, Zenon
        <3> QED BY <1>7, <1>10, <3>1, <3>2 DEF w, a, b
    <2>2. reader'.event = frame.event /\ reader'.data = <<>> /\ UNCHANGED <<phase, result>>
        BY <1>1, <1>7, <1>9, <1>10, <2>1
    <2>3. Parted(frame)'
        BY <1>6, <2>1, <2>2 DEF w, a, b
    <2> QED BY <1>4, <2>2, <2>3
<1>11. ASSUME keeps(reader), reader.data = <<>>, wire = <<w, Blank>>
       PROVE  Pending(frame)' /\ UNCHANGED <<phase, result>>
    <2>1. Head(wire) = w /\ wire' = <<Blank>>
        BY <1>0, <1>11, HeadAndTail, Zenon
    <2>2. reader'.event = reader.event /\ reader'.data = <<whole>> /\ UNCHANGED <<phase, result>>
        <3>1. Append(<<>>, whole) = <<whole>>
            BY Parts
        <3> QED BY <1>1, <1>9, <1>11, <2>1, <3>1
    <2> QED BY <1>4, <1>6, <1>11, <2>1, <2>2
<1>12. ASSUME keeps(reader), reader.data = <<>>, wire = <<a, Comment, b, Blank>>
       PROVE  Pending(frame)' /\ UNCHANGED <<phase, result>>
    <2>1. Head(wire) = a /\ wire' = <<Comment, b, Blank>>
        <3>1. /\ Head(<<a, Comment, b, Blank>>) = a
              /\ Tail(<<a, Comment, b, Blank>>) = <<Comment, b, Blank>>
            BY HeadOfFour
        <3> QED BY <1>0, <1>12, <3>1, Zenon
    <2>2. reader'.event = reader.event /\ reader'.data = <<first>> /\ UNCHANGED <<phase, result>>
        <3>1. Append(<<>>, first) = <<first>>
            BY Parts
        <3> QED BY <1>1, <1>9, <1>12, <2>1, <3>1
    <2> QED BY <1>4, <1>6, <1>12, <2>1, <2>2 DEF b
<1>13. ASSUME keeps(reader), reader.data = <<first>>, wire = <<Comment, b, Blank>>
       PROVE  Pending(frame)' /\ UNCHANGED <<phase, result>>
    <2>1. Head(wire) = Comment /\ wire' = <<b, Blank>>
        BY <1>0, <1>13, HeadOfThree, Zenon
    <2>2. reader' = reader /\ UNCHANGED <<phase, result>>
        BY <1>1, <1>9, <2>1
    <2> QED BY <1>4, <1>6, <1>13, <2>1, <2>2 DEF b
<1>14. ASSUME keeps(reader), reader.data = <<first>>, wire = <<b, Blank>>
       PROVE  Pending(frame)' /\ UNCHANGED <<phase, result>>
    <2>1. Head(wire) = b /\ wire' = <<Blank>>
        BY <1>0, <1>14, HeadAndTail, Zenon
    <2>2. reader'.event = reader.event /\ reader'.data = <<first, second>>
          /\ UNCHANGED <<phase, result>>
        <3>1. Append(<<first>>, second) = <<first, second>>
            BY Parts
        <3> QED BY <1>1, <1>9, <1>14, <2>1, <3>1
    <2> QED BY <1>4, <1>6, <1>14, <2>1, <2>2
<1>15. ASSUME keeps(reader), wire = <<Blank>>,
              reader.data = <<whole>> \/ reader.data = <<first, second>>
       PROVE  /\ Dispatch(reader.event, frame.doc) /\ keeps(reader)
              /\ reader' = FreshReader /\ wire' = <<>>
    <2>1. Head(wire) = Blank /\ wire' = <<>>
        BY <1>0, <1>15, HeadAndTail, Zenon
    <2>2. reader.data # <<>> /\ Decoded(reader.data) = frame.doc
        BY <1>8, <1>15, Parts, Zenon
    <2> QED BY <1>1, <1>9, <1>15, <2>1, <2>2
<1> QED BY <1>4, <1>5, <1>10, <1>11, <1>12, <1>13, <1>14, <1>15 DEF w, a, b

-----------------------------------------------------------------------------
(* An event, and the end of the stream.                                    *)

LEMMA LastTyped ==
    ASSUME said \in Seq(Events), said # <<>>
    PROVE  /\ Len(said) - 1 \in Nat /\ (Len(said) - 1) + 1 = Len(said)
           /\ Len(said) \in 1 .. Len(said) /\ Last \in Events
           /\ \A g \in 1 .. Len(said) : said[g] \in Events
<1>1. Len(said) \in Nat /\ Len(said) # 0
    BY EmptySeq, LenProperties
<1>2. \A g \in 1 .. Len(said) : said[g] \in Events
    BY SaidTyped
<1>3. Len(said) - 1 \in Nat /\ (Len(said) - 1) + 1 = Len(said) /\ Len(said) \in 1 .. Len(said)
    BY <1>1
<1> QED BY <1>2, <1>3 DEF Last

\* The event that ends the loop says nothing else.
LEMMA StopsSilent ==
    ASSUME NEW res, NEW frame \in Events, Regular(target.proto, frame), NEW e,
           Stops(e, frame.doc)
    PROVE  Absorb(res, e, frame.doc) = res /\ ~Fails(e)
<1>1. frame.doc.json \in BOOLEAN /\ frame.doc.done \in BOOLEAN
    BY DEF Events, Docs
<1>2. CASE target.proto = "openai" /\ frame.doc.done = TRUE
    <2>1. frame.doc.json = FALSE
        BY <1>2 DEF Regular
    <2>2. Absorb(res, e, frame.doc) = OpenAIChunk(res, e, frame.doc)
        BY <1>2 DEF Absorb
    <2> QED BY <1>2, <2>1, <2>2 DEF OpenAIChunk, Fails
<1>3. CASE target.proto = "anthropic" /\ e = "message_stop"
    <2>1. Absorb(res, e, frame.doc) = AnthropicEvent(res, e, frame.doc)
        BY <1>3 DEF Absorb
    <2>2. AnthropicEvent(res, e, frame.doc) = res
        <3>1. CASE frame.doc.json = FALSE
            BY <1>3, <3>1 DEF AnthropicEvent
        <3>2. CASE frame.doc.json = TRUE
            BY <1>3, <3>2 DEF AnthropicEvent
        <3> QED BY <1>1, <3>1, <3>2
    <2> QED BY <1>3, <2>1, <2>2 DEF Fails
<1> QED BY <1>1, <1>2, <1>3 DEF Stops

LEMMA TakenAndAdded == \A m, n \in Nat : (m - n) + n = m
OBVIOUS

\* The last frame, once it is an event.
LEMMA LastHeard ==
    ASSUME Surroundings, Settled, Script, phase = "reading", LastToCome, NEW e,
           Last.event # "" => e = Last.event, ~Fails(e)
    PROVE  Heard(target.proto, said, Len(said), pieces, Absorb(result, e, Last.doc))
<1> DEFINE h == Len(said) - 1
           p == Before
<1>1. said \in Seq(Events) /\ said # <<>> /\ pieces \in Nat
    BY DEF Surroundings, LastToCome
<1>2. /\ h \in Nat /\ h + 1 = Len(said) /\ Last \in Events /\ Last = said[h + 1]
      /\ \A g \in 1 .. h + 1 : said[g] \in Events
    BY <1>1, LastTyped DEF Last
<1>3. target.proto \in Protocols /\ result \in Result
    <2>1. target.proto \in Protocols
        BY TargetAssumption DEF Surroundings
    <2>2. result \in Result
        BY Zenon DEF Settled
    <2> QED BY <2>1, <2>2
<1>4. p \in Nat /\ Follows(Last.doc.texts, p) /\ Heard(target.proto, said, h, p, result)
    BY DEF LastToCome
<1>5. p + Len(Last.doc.texts) = pieces
    <2>1. Last.doc.texts \in Seq(Nat)
        BY <1>2 DEF Events, Docs
    <2>2. Len(Last.doc.texts) \in Nat
        BY <2>1, LenProperties
    <2> DEFINE k == Len(Last.doc.texts)
    <2>3. p = pieces - k
        BY DEF Before
    <2> HIDE DEF k, p
    <2>4. p + k = pieces
        <3>2. k \in Nat
            BY <2>2 DEF k
        <3> QED BY <1>1, <2>3, <3>2, TakenAndAdded
    <2> QED BY <2>4 DEF k
<1>6. Regular(target.proto, said[h + 1]) /\ (h > 0 => ~Terminal(said[h]))
    <2> HIDE DEF h
    <2>1. h + 1 \in 1 .. Len(said) /\ (h > 0 => h \in 1 .. Len(said) /\ h # Len(said))
        BY ONLY <1>2
    <2> QED BY <2>1 DEF Script
<1> HIDE DEF h, p
<1>7. Heard(target.proto, said, h + 1, p + Len(said[h + 1].doc.texts),
            Absorb(result, e, said[h + 1].doc))
    BY <1>2, <1>3, <1>4, <1>6, AbsorbHeard
<1> QED BY <1>2, <1>5, <1>7

\* A stream that was heard to its end leaves the right result.
LEMMA HeardToTheEnd ==
    ASSUME Surroundings, Settled, AllHeard, UNCHANGED <<target, said, pieces>>,
           result' = Concluded(result),
           target.proto = "openai-responses" => said # <<>> /\ Last.event = "response.completed"
    PROVE  result'.success = TRUE => TextRight(result)' /\ UsageRight(result)'
<1> DEFINE new == Concluded(result)
<1>1. target.proto \in Protocols /\ said \in Seq(Events)
    BY TargetAssumption DEF Surroundings
<1>2. result \in Result
    BY Zenon DEF Settled
<1>3. new.success = TRUE => TextRight(new) /\ UsageRight(new)
    BY <1>1, <1>2, ConcludedRight DEF AllHeard
<1> HIDE DEF new
<1>4. result' = new
    BY DEF new
<1>5. TextRight(new) => TextRight(result)'
    <2>1. Skipped' = Skipped
        BY DEF Skipped
    <2> QED BY <1>4, <2>1 DEF TextRight
<1>6. UsageRight(new) => UsageRight(result)'
    <2>1. LastReport' = LastReport
        BY DEF LastReport
    <2>2. Reports({"message_start", "message_delta"})' = Reports({"message_start", "message_delta"})
        BY DEF Reports
    <2> QED BY <1>4, <2>1, <2>2 DEF UsageRight
<1> QED BY <1>3, <1>4, <1>5, <1>6

\* The body of the loop, for an event that is the last frame.
LEMMA Dispatched ==
    ASSUME Surroundings, Settled, Script, phase = "reading", LastToCome, NEW e,
           Last.event # "" => e = Last.event, Dispatch(e, Last.doc),
           UNCHANGED <<target, said, pieces, cut>>, reader' = FreshReader, wire' = <<>>
    PROVE  Delivery' /\ Conclusion'
<1> DEFINE new == Absorb(result, e, Last.doc)
<1>1. said \in Seq(Events) /\ said # <<>> /\ target.proto \in Protocols
    BY TargetAssumption DEF Surroundings, LastToCome
<1>2. Last \in Events /\ Regular(target.proto, Last)
    BY <1>1, LastTyped DEF Script, Last
<1>3. ~Fails(e) => Heard(target.proto, said, Len(said), pieces, new)
    BY LastHeard
<1>4. CASE Stops(e, Last.doc)
    <2>1. new = result /\ ~Fails(e)
        BY <1>2, <1>4, StopsSilent
    <2>2. AllHeard
        BY <1>3, <2>1 DEF AllHeard
    <2>3. phase' = "ended" /\ result' = Concluded(result)
        BY <1>4 DEF Dispatch
    <2>4. target.proto # "openai-responses"
        BY <1>4 DEF Stops
    <2>5. result'.success = TRUE => TextRight(result)' /\ UsageRight(result)'
        BY <2>2, <2>3, <2>4, HeardToTheEnd
    <2> QED BY <2>3, <2>5 DEF Delivery, Conclusion
<1>5. CASE ~Stops(e, Last.doc) /\ Fails(e)
    <2>1. phase' = "ended" /\ result' = [new EXCEPT !.errType = "api_error"]
        BY <1>5 DEF Dispatch
    <2>2. Going(result) /\ Last.doc \in Docs
        BY <1>2 DEF Settled, Outcome, Events
    <2>3. Going(new)
        BY <1>1, <2>2, AbsorbGoing
    <2> HIDE DEF new
    <2>4. result'.success = FALSE
        BY <2>1, <2>3 DEF Going, Result
    <2> QED BY <2>1, <2>4 DEF Delivery, Conclusion
<1>6. CASE ~Stops(e, Last.doc) /\ ~Fails(e)
    <2>1. phase' = "reading" /\ result' = new
        BY <1>6 DEF Dispatch
    <2>2. AllHeard'
        BY <1>3, <1>6, <2>1 DEF AllHeard
    <2>3. Resting'
        BY DEF Resting, FreshReader
    <2> QED BY <2>1, <2>2, <2>3 DEF Delivery, Conclusion
<1> QED BY <1>4, <1>5, <1>6

\* The next line of a frame.
LEMMA DeliveryRead ==
    ASSUME Surroundings, Settled, Script, Delivery, Conclusion, ReadLine
    PROVE  Delivery' /\ Conclusion'
<1>1. /\ phase = "reading" /\ UNCHANGED <<target, open, said, pieces, cut>>
      /\ phase' \in {"reading", "ended"}
    BY DEF ReadLine, Dispatch
<1>2. CASE cut = TRUE
    BY <1>1, <1>2 DEF Delivery, Conclusion
<1>3. CASE cut = FALSE /\ Resting /\ AllHeard
    <2>1. Resting' /\ UNCHANGED <<phase, result>>
        BY <1>3, RestRead DEF Surroundings
    <2>2. AllHeard'
        BY <1>1, <1>3, <2>1 DEF AllHeard
    <2> QED BY <1>1, <2>1, <2>2 DEF Delivery, Conclusion
<1>4. CASE cut = FALSE /\ LastToCome
    <2>1. Last \in Events
        BY <1>4, LastTyped DEF Surroundings, LastToCome
    <2>2. /\ Last' = Last /\ Before' = Before
        BY <1>1 DEF Last, Before
    <2>3. CASE Pending(Last)' /\ UNCHANGED <<phase, result>>
        <3>1. LastToCome'
            BY <1>1, <1>4, <2>2, <2>3 DEF LastToCome
        <3> QED BY <1>1, <2>3, <3>1 DEF Delivery, Conclusion
    <2>4. CASE /\ Dispatch(reader.event, Last.doc)
               /\ Last.event # "" => reader.event = Last.event
               /\ reader' = FreshReader /\ wire' = <<>>
        BY <1>1, <1>4, <2>4, Dispatched
    <2>5. \/ Pending(Last)' /\ UNCHANGED <<phase, result>>
          \/ /\ Dispatch(reader.event, Last.doc)
             /\ Last.event # "" => reader.event = Last.event
             /\ reader' = FreshReader /\ wire' = <<>>
        <3> DEFINE frame == Last
        <3>1. frame \in Events /\ Pending(frame) /\ reader \in ReaderType
            BY <1>4, <2>1 DEF LastToCome, Surroundings
        <3> QED BY <2>2, <3>1, PendingRead
    <2> QED BY <2>3, <2>4, <2>5
<1>5. cut \in BOOLEAN
    BY DEF Surroundings
<1> QED BY <1>1, <1>2, <1>3, <1>4, <1>5 DEF Delivery

-----------------------------------------------------------------------------
(* What the provider does.                                                 *)

\* What was heard of earlier frames does not depend on later ones.
LEMMA HeardAgree ==
    ASSUME NEW proto, NEW s, NEW t, NEW h \in Nat, NEW p, NEW res,
           \A i \in 1 .. h : s[i] = t[i], Heard(proto, s, h, p, res)
    PROVE  Heard(proto, t, h, p, res)
<1>1. \A f \in 1 .. h : Opening(s, h, f) => Opening(t, h, f)
    BY DEF Opening
<1>2. Spoken(proto, s, h, p, res) => Spoken(proto, t, h, p, res)
    BY <1>1 DEF Spoken
<1>3. TextHeard(proto, s, h, p, res) => TextHeard(proto, t, h, p, res)
    <2>1. (\A g \in 1 .. h : ~Speaks(s[g])) => \A g \in 1 .. h : ~Speaks(t[g])
        OBVIOUS
    <2> QED BY <1>2, <2>1, Zenon DEF TextHeard
<1>4. TotalHeard(s, h, res.usage) => TotalHeard(t, h, res.usage)
    <2>1. \A j \in 1 .. h : LastCounted(s, h, j) => LastCounted(t, h, j)
        BY DEF LastCounted
    <2> QED BY <2>1 DEF TotalHeard
<1>5. FinalHeard(s, h, res.usage) => FinalHeard(t, h, res.usage)
    <2>1. h > 0 => s[h] = t[h]
        BY OneMore
    <2> QED BY <2>1 DEF FinalHeard
<1>6. LargestHeard(s, h, res.usage) => LargestHeard(t, h, res.usage)
    <2>1. \A kind, n : LargestSo(s, h, kind, n) => LargestSo(t, h, kind, n)
        BY DEF LargestSo
    <2> QED BY <2>1 DEF LargestHeard
<1>7. UsageHeard(proto, s, h, res) => UsageHeard(proto, t, h, res)
    BY <1>4, <1>5, <1>6 DEF UsageHeard
<1> QED BY <1>3, <1>7, Zenon DEF Heard

\* Before the first frame there is nothing to hear.
LEMMA NothingHeard ==
    ASSUME NEW proto, NEW s, NEW res, res.ttft = FALSE, res.text = <<>>, res.usage = NoUsage
    PROVE  Heard(proto, s, 0, 0, res)
<1>0. 1 .. 0 = {} /\ ~(0 > 0)
    OBVIOUS
<1>1. TextHeard(proto, s, 0, 0, res)
    <2>1. \A g \in 1 .. 0 : ~Speaks(s[g])
        BY <1>0
    <2> QED BY <2>1, Zenon DEF TextHeard
<1>2. TotalHeard(s, 0, NoUsage)
    BY <1>0 DEF TotalHeard
<1>3. FinalHeard(s, 0, NoUsage)
    BY <1>0 DEF FinalHeard
<1>4. LargestHeard(s, 0, NoUsage)
    <2>1. \A kind \in Kinds : NoUsage[kind] = 0
        BY DEF NoUsage, Kinds
    <2>2. NoUsage["total"] = 0 /\ NoUsage["reasoning"] = 0
        BY DEF NoUsage
    <2> QED BY <1>0, <2>1, <2>2 DEF LargestHeard, LargestSo
<1>5. UsageHeard(proto, s, 0, res)
    BY <1>2, <1>3, <1>4 DEF UsageHeard
<1> QED BY <1>1, <1>5, Zenon DEF Heard

\* What a frame is written on.
LEMMA OneEnd ==
    ASSUME NEW a, NEW z
    PROVE  <<>> \o <<a>> \o <<z>> = <<a, z>>
<1> DEFINE S == {a, z}
           p == <<a>>
<1>1. p \in Seq(S) /\ z \in S
    OBVIOUS
<1>2. <<>> \o p = p
    <2> HIDE DEF p, S
    <2> QED BY <1>1, ConcatEmptySeq
<1>3. p \o <<z>> = Append(p, z)
    <2> HIDE DEF p, S
    <2> QED BY <1>1, AppendIsConcat
<1>4. Append(p, z) = <<a, z>>
    BY Parts
<1> QED BY <1>2, <1>3, <1>4

LEMMA ThreeEnd ==
    ASSUME NEW a, NEW b, NEW c, NEW z
    PROVE  <<>> \o <<a, b, c>> \o <<z>> = <<a, b, c, z>>
<1> DEFINE S == {a, b, c, z}
           p == <<a, b, c>>
           t == <<z>>
           q == p \o t
           r == <<a, b, c, z>>
<1>1. /\ p \in Seq(S) /\ t \in Seq(S) /\ Len(p) = 3 /\ Len(t) = 1
      /\ p[1] = a /\ p[2] = b /\ p[3] = c /\ t[1] = z
    OBVIOUS
<1>2. r \in Seq(S) /\ Len(r) = 4 /\ r[1] = a /\ r[2] = b /\ r[3] = c /\ r[4] = z
    OBVIOUS
<1> HIDE DEF S, p, r, t
<1>3. <<>> \o p = p
    BY <1>1, ConcatEmptySeq
<1>4. /\ q \in Seq(S) /\ Len(q) = Len(p) + Len(t)
      /\ \A i \in 1 .. Len(p) : q[i] = p[i]
      /\ \A i \in 1 .. Len(t) : q[Len(p) + i] = t[i]
    <2>1. p \in Seq(S) /\ t \in Seq(S)
        BY <1>1
    <2> QED BY ONLY <2>1, ConcatProperties
<1> HIDE DEF q
<1>5. Len(q) = 4 /\ q[1] = a /\ q[2] = b /\ q[3] = c /\ q[4] = z
    BY <1>1, <1>4
<1>6. \A i \in 1 .. 4 : q[i] = r[i]
    <2>1. \A i \in 1 .. 4 : i = 1 \/ i = 2 \/ i = 3 \/ i = 4
        OBVIOUS
    <2> QED BY <1>2, <1>5, <2>1
<1>7. q = r
    BY <1>2, <1>4, <1>5, <1>6, SeqEqual
<1> QED BY <1>3, <1>7 DEF q, p, r, t

LEMMA SentPending ==
    ASSUME NEW frame, NEW split \in BOOLEAN, reader.data = <<>>, reader' = reader,
           wire' = Lines(frame, split)
    PROVE  Pending(frame)'
<1> DEFINE line   == EventLine(frame.event)
           whole  == DataLine(Fragment(frame.doc, 1, 1))
           first  == DataLine(Fragment(frame.doc, 1, 2))
           second == DataLine(Fragment(frame.doc, 2, 2))
           head   == IF frame.event = "" THEN <<>> ELSE <<line>>
           body   == IF split THEN <<first, Comment, second>> ELSE <<whole>>
<1>1. wire' = head \o body \o <<Blank>>
    BY DEF Lines
<1> HIDE DEF line, whole, first, second
<1>2. CASE frame.event = ""
    <2>1. CASE split = TRUE
        <3>1. wire' = <<>> \o <<first, Comment, second>> \o <<Blank>>
            BY <1>1, <1>2, <2>1
        <3>2. wire' = <<first, Comment, second, Blank>>
            BY <3>1, ThreeEnd
        <3>3. Parted(frame)'
            BY <3>2 DEF Parted, first, second
        <3> QED BY <1>2, <3>3 DEF Pending
    <2>2. CASE split = FALSE
        <3>1. wire' = <<>> \o <<whole>> \o <<Blank>>
            BY <1>1, <1>2, <2>2
        <3>2. wire' = <<whole, Blank>>
            BY <3>1, OneEnd
        <3>3. Parted(frame)'
            BY <3>2 DEF Parted, whole
        <3> QED BY <1>2, <3>3 DEF Pending
    <2> QED BY <2>1, <2>2
<1>3. CASE frame.event # ""
    <2>1. CASE split = TRUE
        <3>1. wire' = <<line>> \o <<first, Comment, second>> \o <<Blank>>
            BY <1>1, <1>3, <2>1
        <3>2. wire' = <<line, first, Comment, second, Blank>>
            BY <3>1, FiveLines
        <3>3. Announced(frame)'
            BY <3>2 DEF Announced, line, first, second
        <3> QED BY <3>3 DEF Pending
    <2>2. CASE split = FALSE
        <3>1. wire' = <<line>> \o <<whole>> \o <<Blank>>
            BY <1>1, <1>3, <2>2
        <3>2. wire' = <<line, whole, Blank>>
            BY <3>1, ThreeLines
        <3>3. Announced(frame)'
            BY <3>2 DEF Announced, line, whole
        <3> QED BY <3>3 DEF Pending
    <2> QED BY <2>1, <2>2
<1> QED BY <1>2, <1>3

LEMMA AddedAndTaken == \A m, n \in Nat : (m + n) - n = m
OBVIOUS

LEMMA PendingLines ==
    ASSUME NEW frame, Pending(frame)
    PROVE  wire # <<>>
<1> DEFINE line   == EventLine(frame.event)
           whole  == DataLine(Fragment(frame.doc, 1, 1))
           first  == DataLine(Fragment(frame.doc, 1, 2))
           second == DataLine(Fragment(frame.doc, 2, 2))
<1>1. wire \in {<<line, whole, Blank>>, <<line, first, Comment, second, Blank>>,
               <<whole, Blank>>, <<first, Comment, second, Blank>>, <<Blank>>,
               <<Comment, second, Blank>>, <<second, Blank>>}
    BY DEF Pending, Announced, Parted
<1> HIDE DEF line, whole, first, second
<1>2. /\ <<line, whole, Blank>> # <<>> /\ <<line, first, Comment, second, Blank>> # <<>>
      /\ <<whole, Blank>> # <<>> /\ <<first, Comment, second, Blank>> # <<>>
      /\ <<Blank>> # <<>> /\ <<Comment, second, Blank>> # <<>> /\ <<second, Blank>> # <<>>
    OBVIOUS
<1> QED BY <1>1, <1>2, Zenon

LEMMA DeliverySent ==
    ASSUME Surroundings, Uncut, Script, Delivery, Conclusion,
           NEW frame \in NextFrames(target.proto), NEW split \in {FALSE, frame.doc.json},
           SendFrame(frame, split)
    PROVE  Script' /\ Delivery' /\ Conclusion'
<1>1. /\ phase = "reading" /\ open /\ wire = <<>> /\ ~Terminated
      /\ said' = Append(said, frame) /\ pieces' = pieces + Len(frame.doc.texts)
      /\ wire' = Lines(frame, split)
      /\ UNCHANGED <<target, phase, reader, result, open, cut>>
    BY DEF SendFrame
<1>2. target.proto \in Protocols /\ said \in Seq(Events) /\ pieces \in Nat
    BY TargetAssumption DEF Surroundings
<1>3. frame \in Events
    BY <1>2, FrameTypes
<1>4. frame.doc.texts \in Seq(Nat) /\ frame.doc.json \in BOOLEAN
    BY <1>3 DEF Events, Docs
<1>5. Regular(target.proto, frame) /\ Follows(frame.doc.texts, pieces)
    BY <1>2, FrameRegular
<1>6. /\ Len(said) \in Nat /\ Len(said') = Len(said) + 1 /\ said'[Len(said) + 1] = frame
      /\ \A i \in 1 .. Len(said) : said'[i] = said[i]
      /\ said' # <<>>
    BY <1>1, <1>2, <1>3, AppendProperties, LenProperties
<1>7. Script'
    <2>1. ASSUME NEW n \in 1 .. Len(said')
          PROVE  Regular(target.proto, said'[n]) /\ (n # Len(said') => ~Terminal(said'[n]))
        <3>1. CASE n = Len(said')
            BY <1>5, <1>6, <3>1
        <3>2. CASE n # Len(said')
            <4>1. n \in 1 .. Len(said) /\ said'[n] = said[n]
                BY <1>6, <3>2
            <4>2. n = Len(said) => ~Terminal(said[n])
                <5>1. said # <<>>
                    BY <4>1, EmptySeq
                <5> QED BY <1>1, <5>1 DEF Terminated
            <4> QED BY <4>1, <4>2 DEF Script
        <3> QED BY <3>1, <3>2
    <2>2. target'.proto = target.proto
        BY <1>1
    <2> QED BY <2>1, <2>2 DEF Script
<1>8. cut = FALSE
    BY <1>1 DEF Uncut, Surroundings
<1>9. Resting /\ AllHeard
    <2>1. ~LastToCome
        BY <1>1, PendingLines DEF LastToCome
    <2> QED BY <1>1, <1>8, <2>1 DEF Delivery
<1>10. Last' = frame /\ Before' = pieces
    <2>1. Last' = frame
        BY <1>6 DEF Last
    <2> DEFINE k == Len(frame.doc.texts)
    <2>2. k \in Nat /\ pieces' = pieces + k
        BY <1>1, <1>4, LenProperties
    <2>3. Before' = pieces' - k
        BY <2>1 DEF Before
    <2> HIDE DEF k
    <2>4. \A m, n \in Nat : (m + n) - n = m
        BY AddedAndTaken
    <2> QED BY <1>2, <2>1, <2>2, <2>3, <2>4
<1>11. Pending(frame)'
    <2>1. split \in BOOLEAN /\ reader.data = <<>>
        BY <1>4, <1>9 DEF Resting
    <2> QED BY <1>1, <2>1, SentPending
<1>12. Heard(target.proto, said', Len(said), pieces, result)
    BY <1>6, <1>9, HeardAgree DEF AllHeard
<1>13. Len(said') - 1 = Len(said)
    BY <1>6
<1>14. LastToCome'
    <2>1. Pending(Last)'
        BY <1>10, <1>11
    <2>2. target' = target /\ result' = result
        BY <1>1
    <2>3. Heard(target'.proto, said', Len(said') - 1, Before', result')
        BY <1>10, <1>12, <1>13, <2>2
    <2> QED BY <1>2, <1>5, <1>6, <1>10, <2>1, <2>3 DEF LastToCome
<1> QED BY <1>1, <1>7, <1>14 DEF Delivery, Conclusion

LEMMA DeliveryBare ==
    ASSUME Surroundings, Uncut, Script, Delivery, SendBareEvent
    PROVE  Delivery'
<1>1. /\ phase = "reading" /\ open /\ wire = <<>>
      /\ wire' = <<EventLine("ping"), Blank>>
      /\ UNCHANGED <<target, phase, reader, result, open, said, pieces, cut>>
    BY DEF SendBareEvent
<1>2. cut = FALSE
    BY <1>1 DEF Uncut, Surroundings
<1>3. Resting /\ AllHeard
    <2>1. ~LastToCome
        BY <1>1, PendingLines DEF LastToCome
    <2> QED BY <1>1, <1>2, <2>1 DEF Delivery
<1>4. Resting'
    BY <1>1, <1>3 DEF Resting
<1>5. AllHeard'
    BY <1>1, <1>3 DEF AllHeard
<1> QED BY <1>4, <1>5 DEF Delivery

LEMMA DeliveryClosed ==
    ASSUME Surroundings, Uncut, Delivery, NEW n \in 0 .. Len(wire), CloseStream(n)
    PROVE  Delivery' /\ Ending'
<1>1. /\ phase = "reading" /\ open
      /\ UNCHANGED <<target, phase, reader, result, said, pieces>>
      /\ cut' = (n < Len(wire) \/ (target.proto # "google" /\ ~Terminated))
    BY DEF CloseStream
<1>2. ASSUME cut' = FALSE PROVE Delivery' /\ Ending'
    <2>1. wire' = wire
        BY <1>2, FailureKept DEF Surroundings
    <2>2. cut = FALSE
        BY <1>1 DEF Uncut, Surroundings
    <2>3. Resting' <=> Resting
        BY <1>1, <2>1 DEF Resting
    <2>4. AllHeard' <=> AllHeard
        BY <1>1 DEF AllHeard
    <2>5. LastToCome => LastToCome'
        <3>1. Last' = Last /\ Before' = Before
            BY <1>1 DEF Last, Before
        <3>2. \A frame : Pending(frame)' <=> Pending(frame)
            BY <1>1, <2>1 DEF Pending, Announced, Parted
        <3> QED BY <1>1, <3>1, <3>2 DEF LastToCome
    <2>6. Ending'
        <3>1. Terminated' <=> Terminated
            BY <1>1 DEF Terminated
        <3> QED BY <1>1, <1>2, <3>1 DEF Ending
    <2> QED BY <1>1, <2>2, <2>3, <2>4, <2>5, <2>6 DEF Delivery
<1>3. cut' # FALSE => Delivery' /\ Ending'
    BY DEF Delivery, Ending
<1> QED BY <1>2, <1>3

-----------------------------------------------------------------------------
(* The invariant.                                                          *)

Course == Script /\ Beginning /\ Modes /\ Ending /\ Delivery /\ Conclusion

LEMMA CourseInit == Init => Course
<1> SUFFICES ASSUME Init PROVE Course
    OBVIOUS
<1>1. /\ phase = "dialing" /\ reader = FreshReader /\ wire = <<>> /\ open = TRUE
      /\ said = <<>> /\ pieces = 0 /\ cut = FALSE
    BY DEF Init
<1>2. result.text = <<>> /\ result.ttft = FALSE /\ result.usage = NoUsage
    BY DEF Init
<1>3. Script
    <2>1. 1 .. Len(said) = {}
        BY <1>1
    <2> QED BY <2>1 DEF Script
<1>4. Beginning
    BY <1>1, <1>2 DEF Beginning
<1>5. Modes /\ Ending /\ Delivery /\ Conclusion
    BY <1>1 DEF Modes, Ending, Delivery, Conclusion
<1> QED BY <1>3, <1>4, <1>5 DEF Course

\* A probe that ends without success has nothing to show.
LEMMA EndsFailed ==
    ASSUME Course, phase' = "ended", UNCHANGED <<target, open, said, cut>>,
           result'.success = FALSE
    PROVE  Course'
<1>1. Script'
    BY DEF Course, Script
<1>2. Beginning' /\ Modes' /\ Delivery'
    BY DEF Beginning, Modes, Delivery
<1>3. Ending'
    BY DEF Course, Ending, Terminated
<1>4. Conclusion'
    BY DEF Conclusion
<1> QED BY <1>1, <1>2, <1>3, <1>4 DEF Course

LEMMA CourseAccepted ==
    ASSUME Surroundings, Settled, Course, Accepted
    PROVE  Course'
<1>1. /\ phase = "dialing" /\ phase' = IF Streams(target) THEN "reading" ELSE "body"
      /\ result' = [result EXCEPT !.status = 200]
      /\ UNCHANGED <<target, reader, wire, open, said, pieces, cut>>
    BY DEF Accepted, serverVars
<1>2. /\ reader = FreshReader /\ wire = <<>> /\ said = <<>> /\ pieces = 0
      /\ result.text = <<>> /\ result.ttft = FALSE /\ result.usage = NoUsage
    BY <1>1 DEF Course, Beginning
<1>3. result \in Result
    BY Zenon DEF Settled
<1>4. result'.text = <<>> /\ result'.ttft = FALSE /\ result'.usage = NoUsage
    BY <1>1, <1>2, <1>3 DEF Result
<1>5. AllHeard'
    <2>1. Len(said') = 0
        BY <1>1, <1>2, EmptySeq
    <2>2. Heard(target'.proto, said', 0, 0, result')
        BY <1>4, NothingHeard
    <2> QED BY <1>1, <1>2, <2>1, <2>2 DEF AllHeard
<1>6. Resting'
    BY <1>1, <1>2 DEF Resting, FreshReader
<1>7. Script' /\ Ending'
    BY <1>1 DEF Course, Script, Ending, Terminated
<1>8. Beginning' /\ Delivery' /\ Conclusion'
    BY <1>1, <1>5, <1>6 DEF Beginning, Delivery, Conclusion
<1>9. Modes'
    <2>1. Streams(target)' = Streams(target)
        BY <1>1 DEF Streams
    <2> QED BY <1>1, <2>1 DEF Modes
<1> QED BY <1>7, <1>8, <1>9 DEF Course

\* io.EOF.
LEMMA CourseEOF ==
    ASSUME Surroundings, Settled, Failing, Course, ReadEOF
    PROVE  Course'
<1>1. /\ phase = "reading" /\ wire = <<>> /\ open = FALSE
      /\ UNCHANGED <<target, wire, open, said, pieces, cut>>
      /\ phase' \in {"reading", "ended"}
    BY DEF ReadEOF, Dispatch, serverVars, Surroundings
<1>2. Script' /\ Ending' /\ Beginning'
    BY <1>1 DEF Course, Script, Ending, Terminated, Beginning
<1>3. Modes'
    <2>1. Streams(target)' = Streams(target)
        BY <1>1 DEF Streams
    <2> QED BY <1>1, <2>1 DEF Modes, Course
<1>4. CASE cut = FALSE
    <2>1. Resting /\ AllHeard
        <3>1. ~LastToCome
            BY <1>1, PendingLines DEF LastToCome
        <3> QED BY <1>1, <1>4, <3>1 DEF Course, Delivery
    <2>2. phase' = "ended" /\ result' = Concluded(result)
        BY <2>1 DEF ReadEOF, Resting, EmitsAtEOF
    <2>3. ASSUME target.proto = "openai-responses"
          PROVE  said # <<>> /\ Last.event = "response.completed"
        <3>1. said # <<>> /\ Terminal(Last)
            BY <1>1, <1>4, <2>3 DEF Course, Ending, Terminated, Last
        <3>2. Last.event \notin FailEvents
            <4>1. ~Ahead(Last)
                BY <1>1 DEF Ahead
            <4> QED BY <1>1, <1>4, <2>3, <3>1, <4>1 DEF Failing, Declared
        <3>3. Last \in Events /\ Regular(target.proto, Last)
            <4>1. Len(said) \in 1 .. Len(said) /\ Last \in Events
                BY <3>1, LastTyped DEF Surroundings
            <4> QED BY <4>1 DEF Course, Script, Last
        <3>4. Last.event \in ResponsesEvents /\ Last.doc.done # TRUE
            BY <2>3, <3>3 DEF Regular
        <3>5. Last.doc.done \in BOOLEAN
            BY <3>3 DEF Events, Docs
        <3> QED BY <3>1, <3>2, <3>4, <3>5
                DEF Terminal, FailEvents, ResponsesEvents, FinalEvents
    <2>4. result'.success = TRUE => TextRight(result)' /\ UsageRight(result)'
        BY <1>1, <2>1, <2>2, <2>3, HeardToTheEnd
    <2>5. Delivery' /\ Conclusion'
        BY <2>2, <2>4 DEF Delivery, Conclusion
    <2> QED BY <1>2, <1>3, <2>5 DEF Course
<1>5. CASE cut = TRUE
    <2>1. Delivery' /\ Conclusion'
        BY <1>1, <1>5 DEF Delivery, Conclusion
    <2> QED BY <1>2, <1>3, <2>1 DEF Course
<1>6. cut \in BOOLEAN
    BY DEF Surroundings
<1> QED BY <1>4, <1>5, <1>6

\* expect_pattern changes neither text nor counts.
LEMMA CourseRecord ==
    ASSUME Settled, Course, Record
    PROVE  Course'
<1>1. /\ phase = "ended" /\ phase' = "recorded"
      /\ UNCHANGED <<target, wire, open, said, pieces, cut>>
    BY DEF Record, serverVars
<1>2. result' = result \/ result'.success = FALSE
    <2>1. result \in Result
        BY Zenon DEF Settled
    <2>2. \/ result' = result
          \/ result' = [result EXCEPT !.success = FALSE, !.errType = "validation_error"]
        BY DEF Record
    <2> QED BY <2>1, <2>2 DEF Result
<1>3. Script' /\ Ending'
    BY <1>1 DEF Course, Script, Ending, Terminated
<1>4. Beginning' /\ Modes' /\ Delivery'
    BY <1>1 DEF Beginning, Modes, Delivery
<1>5. Conclusion'
    <2>1. CASE result'.success = FALSE
        BY <2>1 DEF Conclusion
    <2>2. CASE result' = result
        <3>1. TextRight(result)' <=> TextRight(result)
            BY <1>1, <2>2 DEF TextRight, Skipped
        <3>2. UsageRight(result)' <=> UsageRight(result)
            <4>1. LastReport' = LastReport
                BY <1>1 DEF LastReport
            <4>2. Reports({"message_start", "message_delta"})'
                    = Reports({"message_start", "message_delta"})
                BY <1>1 DEF Reports
            <4> QED BY <1>1, <2>2, <4>1, <4>2 DEF UsageRight
        <3>3. Streams(target)' = Streams(target)
            BY <1>1 DEF Streams
        <3> QED BY <1>1, <2>2, <3>1, <3>2, <3>3 DEF Conclusion, Course
    <2> QED BY <1>2, <2>1, <2>2
<1> QED BY <1>3, <1>4, <1>5 DEF Course

LEMMA CourseStutter ==
    ASSUME Course, UNCHANGED vars
    PROVE  Course'
<1>1. UNCHANGED <<target, phase, reader, result, wire, open, said, pieces, cut>>
    BY DEF vars, serverVars
<1>2. Script' /\ Beginning' /\ Modes' /\ Ending'
    BY <1>1 DEF Course, Script, Beginning, Modes, Streams, Ending, Terminated
<1>3. Delivery'
    <2>1. Last' = Last /\ Before' = Before /\ (Resting' <=> Resting) /\ (AllHeard' <=> AllHeard)
        BY <1>1 DEF Last, Before, Resting, AllHeard
    <2>2. \A frame : Pending(frame)' <=> Pending(frame)
        BY <1>1 DEF Pending, Announced, Parted
    <2>3. LastToCome => LastToCome'
        BY <1>1, <2>1, <2>2 DEF LastToCome
    <2> QED BY <1>1, <2>1, <2>3 DEF Delivery, Course
<1>4. Conclusion'
    <2>1. TextRight(result)' <=> TextRight(result)
        BY <1>1 DEF TextRight, Skipped
    <2>2. UsageRight(result)' <=> UsageRight(result)
        <3>1. LastReport' = LastReport
            BY <1>1 DEF LastReport
        <3>2. Reports({"message_start", "message_delta"})'
                = Reports({"message_start", "message_delta"})
            BY <1>1 DEF Reports
        <3> QED BY <1>1, <3>1, <3>2 DEF UsageRight
    <2>3. Streams(target)' = Streams(target)
        BY <1>1 DEF Streams
    <2> QED BY <1>1, <2>1, <2>2, <2>3 DEF Conclusion, Course
<1> QED BY <1>2, <1>3, <1>4 DEF Course

\* The provider's steps and the reading of a line.
LEMMA CourseStream ==
    ASSUME Course, UNCHANGED target, phase = "reading", phase' \in {"reading", "ended"},
           Script', Ending', Delivery', Conclusion'
    PROVE  Course'
<1>1. Streams(target)' = Streams(target)
    BY DEF Streams
<1> QED BY <1>1 DEF Course, Beginning, Modes

LEMMA CourseNext ==
    ASSUME Surroundings, Settled, Uncut, Failing, Course, [Next]_vars
    PROVE  Course'
<1>0. /\ phase = "dialing" => result.success = FALSE
      /\ phase \in {"reading", "body"} => result.success = FALSE
    BY Zenon DEF Settled, Outcome, Going
<1>1. ASSUME NEW frame \in NextFrames(target.proto), NEW split \in {FALSE, frame.doc.json},
             SendFrame(frame, split)
      PROVE  Course'
    <2>1. Script' /\ Delivery' /\ Conclusion'
        BY <1>1, DeliverySent DEF Course
    <2>2. phase = "reading" /\ phase' = "reading" /\ target' = target /\ open /\ open' = open
        BY <1>1 DEF SendFrame
    <2>3. Ending'
        BY <2>2 DEF Ending
    <2> QED BY <2>1, <2>2, <2>3, CourseStream
<1>2. ASSUME NEW n \in 0 .. Len(wire), CloseStream(n) PROVE Course'
    <2>1. Delivery' /\ Ending'
        BY <1>2, DeliveryClosed DEF Course
    <2>2. phase = "reading" /\ phase' = "reading" /\ target' = target /\ said' = said
        BY <1>2 DEF CloseStream
    <2>3. Script' /\ Conclusion'
        BY <2>2 DEF Course, Script, Conclusion
    <2> QED BY <2>1, <2>2, <2>3, CourseStream
<1>3. CASE SendBareEvent
    <2>1. Delivery'
        BY <1>3, DeliveryBare DEF Course
    <2>2. /\ phase = "reading" /\ phase' = "reading" /\ target' = target /\ said' = said
          /\ open /\ open' = open
        BY <1>3 DEF SendBareEvent
    <2>3. Script' /\ Ending' /\ Conclusion'
        BY <2>2 DEF Course, Script, Ending, Conclusion
    <2> QED BY <2>1, <2>2, <2>3, CourseStream
<1>4. CASE ReadLine
    <2>1. Delivery' /\ Conclusion'
        BY <1>4, DeliveryRead DEF Course
    <2>2. /\ phase = "reading" /\ phase' \in {"reading", "ended"}
          /\ target' = target /\ said' = said /\ open' = open /\ cut' = cut
        BY <1>4 DEF ReadLine, Dispatch
    <2>3. Script' /\ Ending'
        BY <2>2 DEF Course, Script, Ending, Terminated
    <2> QED BY <2>1, <2>2, <2>3, CourseStream
<1>5. CASE ReadEOF
    BY <1>5, CourseEOF
<1>6. ASSUME NEW cause, DialFails(cause) \/ ReadFails(cause) PROVE Course'
    <2>1. /\ phase \in {"dialing", "reading", "body"} /\ phase' = "ended"
          /\ \E e : result' = [result EXCEPT !.errType = e]
          /\ UNCHANGED <<target, open, said, cut>>
        BY <1>6 DEF DialFails, ReadFails, FailAs, serverVars
    <2>2. result'.success = FALSE
        BY <1>0, <2>1 DEF Settled, Result
    <2> QED BY <2>1, <2>2, EndsFailed
<1>7. ASSUME NEW code, NEW words, Refused(code, words) PROVE Course'
    <2>1. /\ phase = "dialing" /\ phase' = "ended"
          /\ \E e : result' = [result EXCEPT !.status = code, !.errType = e]
          /\ UNCHANGED <<target, open, said, cut>>
        BY <1>7 DEF Refused, serverVars
    <2>2. result'.success = FALSE
        BY <1>0, <2>1 DEF Settled, Result
    <2> QED BY <2>1, <2>2, EndsFailed
<1>8. CASE Accepted
    BY <1>8, CourseAccepted
<1>9. ASSUME NEW doc, ReceiveBody(doc) PROVE Course'
    <2>1. /\ phase = "body" /\ phase' = "ended"
          /\ UNCHANGED <<target, open, said, cut>>
        BY <1>9 DEF ReceiveBody, serverVars
    <2>2. ~Streams(target)' /\ Script' /\ Ending'
        BY <2>1 DEF Course, Modes, Streams, Script, Ending, Terminated
    <2>3. Beginning' /\ Modes' /\ Delivery' /\ Conclusion'
        BY <2>1, <2>2 DEF Beginning, Modes, Delivery, Conclusion
    <2> QED BY <2>2, <2>3 DEF Course
<1>10. CASE Record
    BY <1>10, CourseRecord
<1>11. CASE UNCHANGED vars
    BY <1>11, CourseStutter
<1>12. CASE Provider
    BY <1>1, <1>2, <1>3, <1>12 DEF Provider
<1>13. CASE Client
    BY <1>4, <1>5, <1>6, <1>7, <1>8, <1>9, <1>10, <1>13 DEF Client
<1>14. CASE Expire
    BY <1>6, <1>14 DEF Expire
<1> QED BY <1>11, <1>12, <1>13, <1>14 DEF Next

LEMMA CourseShown ==
    ASSUME Settled, Course
    PROVE  TextExact /\ UsageExact
<1>1. ASSUME ReadToTheEnd PROVE TextRight(result) /\ UsageRight(result)
    <2>1. phase = "recorded" /\ Streams(target) /\ result.success /\ ~cut
        BY <1>1 DEF ReadToTheEnd
    <2>2. result.success \in BOOLEAN
        BY Zenon DEF Settled, Result
    <2> QED BY <2>1, <2>2 DEF Course, Conclusion
<1> QED BY <1>1, Rights

\* The four streaming loops and sse.go: a stream that is read to its end yields
\* the provider's text, every piece once and in order (but for what the Google
\* client leaves of its first chunk), on whatever lines it was written.
THEOREM TextComplete == Spec => []TextExact
<1> DEFINE Inv == Surroundings /\ Settled /\ Uncut /\ Failing /\ Course
<1>1. Init => Inv
    BY SurroundingsInit, SettledInit, FailingInit, CourseInit
<1>2. Inv /\ [Next]_vars => Inv'
    BY SurroundingsNext, SettledNext, UncutNext, FailingNext, CourseNext
<1>3. Inv => TextExact
    BY CourseShown
<1> QED BY <1>1, <1>2, <1>3, PTL DEF Spec

\* applyResponsesUsage, applyAnthropicUsage and the assignments of the other two
\* clients: the token counts of such a probe are the provider's, those of one
\* report, or the largest of each kind.
THEOREM UsageComplete == Spec => []UsageExact
<1> DEFINE Inv == Surroundings /\ Settled /\ Uncut /\ Failing /\ Course
<1>1. Init => Inv
    BY SurroundingsInit, SettledInit, FailingInit, CourseInit
<1>2. Inv /\ [Next]_vars => Inv'
    BY SurroundingsNext, SettledNext, UncutNext, FailingNext, CourseNext
<1>3. Inv => UsageExact
    BY CourseShown
<1> QED BY <1>1, <1>2, <1>3, PTL DEF Spec
=============================================================================
