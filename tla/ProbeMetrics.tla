---------------------------- MODULE ProbeMetrics ----------------------------
(***************************************************************************)
(* What /metrics shows of one target: the series of one label set, written *)
(* one after the other when a probe returns (Scheduler.probe) and removed  *)
(* one vector after the other by a reload (metrics.Reset).  Module         *)
(* Scheduler shows that the two exclude each other.  A scrape reads the    *)
(* series one by one, in any order, while writes go on (Registry.Gather).  *)
(***************************************************************************)
EXTENDS ResponseHeaders

CONSTANTS
    Probes,      \* what may happen in a probe, see ProbesWith
    MaxProbes,   \* bound: probes between two resets
    MaxResets    \* bound: resets

TokenCounts == {"input_tokens", "output_tokens", "total_tokens",
                "reasoning_tokens", "cached_input_tokens", "cache_creation_tokens"}

\* A probe: its verdict, times in milliseconds, token counts, and the answer's
\* status (0: none), headers and certificates (none without TLS).
ProbesWith(headers) ==
    [success : BOOLEAN, errType : STRING,
     duration : Nat, ttft : Nat, connect : Int, tokens : [TokenCounts -> Nat],
     status : Nat, headers : {headers}, certs : Seq(Nat \ {0})]

\* What StreamProbe shows of results; a request that cannot be built takes no
\* time, and all others take some.  Headers say what the server likes.
ASSUME ProbeAssumption ==
    \A p \in Probes :
        /\ p \in ProbesWith(p.headers)
        /\ p.headers \in [DOMAIN p.headers -> HeaderValues]
        /\ p.success <=> p.errType = ""
        /\ p.success => p.status = 200 /\ p.ttft <= p.duration
        /\ p.duration = 0 => p.errType = "network" /\ p.status = 0
        /\ p.status = 0 => p.headers = << >> /\ p.certs = <<>>

ASSUME MetricsBoundAssumption == MaxProbes \in Nat /\ MaxResets \in Nat

VARIABLES
    buildable,  \* the target's URL can be parsed: if not, no probe sends anything
    registry,   \* the series there are: a function from their names to values;
                \* of a histogram, the number of observations
    pending,    \* the writes that probe has not come to
    clearing,   \* the vectors that Reset has not come to
    resets,     \* number of resets so far
    done,       \* history: the probes since the last reset
    scrape,     \* what the scrape in progress has read so far of durations and errors
    meanwhile   \* history: durations written since that scrape read them

scrapeVars == <<scrape, meanwhile>>
vars == <<buildable, registry, pending, clearing, resets, done, scrapeVars>>

-----------------------------------------------------------------------------
(* Writes.  A series is named by its vector and the labels it has of its own. *)

Set(series, value) == [series |-> series, value |-> value, add |-> FALSE]
Inc(series)        == [series |-> series, value |-> 1, add |-> TRUE]

Errors(p)       == <<"errors", p.errType, p.status>>
Remaining(kind) == <<"rate_limit_remaining", kind>>

When(condition, writes) == IF condition THEN writes ELSE <<>>

MinTokenRateOutputTokens == 5
MinTokenRateGenDuration  == 100

\* emitSideChannelMetrics, of what populateFromResponse found.
EmitSideChannel(p) ==
    LET left == ParseRateLimitHeaders(p.headers)
        cert == EarliestPeerCertNotAfter(p.certs)
    IN  When(left["requests"] >= 0, <<Set(Remaining("requests"), left["requests"])>>)
          \o When(left["tokens"] >= 0, <<Set(Remaining("tokens"), left["tokens"])>>)
          \o When(cert # 0, <<Set(<<"ssl_cert_expiry">>, cert)>>)

\* Tokens per second, and whether it is worth telling.
TokenRate(p) == (1000 * p.tokens["output_tokens"]) \div (p.duration - p.ttft)

RateIsValid(p) ==
    /\ p.duration - p.ttft >= MinTokenRateGenDuration
    /\ p.tokens["output_tokens"] >= MinTokenRateOutputTokens

SetTokens(p) ==
    [i \in 1 .. 6 |->
        LET order == <<"input_tokens", "output_tokens", "total_tokens",
                       "reasoning_tokens", "cached_input_tokens", "cache_creation_tokens">>
        IN  Set(<<order[i]>>, p.tokens[order[i]])]

\* Slip: a count of zero is not written.
SuccessWritesNonZero(p, now) ==
    <<Set(<<"success">>, 1), Set(<<"last_success">>, now), Inc(<<"duration">>), Inc(<<"ttft">>)>>
      \o When(p.connect > 0, <<Inc(<<"connect_duration">>)>>)
      \o SelectSeq(SetTokens(p), LAMBDA w : w.value > 0)
      \o When(RateIsValid(p), <<Set(<<"token_rate">>, TokenRate(p))>>)
      \o EmitSideChannel(p)

\* The two branches of Scheduler.probe.
SuccessWrites(p, now) ==
    <<Set(<<"success">>, 1), Set(<<"last_success">>, now), Inc(<<"duration">>), Inc(<<"ttft">>)>>
      \o When(p.connect > 0, <<Inc(<<"connect_duration">>)>>)
      \o SetTokens(p)
      \o When(RateIsValid(p), <<Set(<<"token_rate">>, TokenRate(p))>>)
      \o EmitSideChannel(p)

\* Slip: a failure is counted before its duration.
FailureWritesErrorFirst(p) ==
    <<Set(<<"success">>, 0)>>
      \o When(p.errType # "", <<Inc(Errors(p))>>)
      \o When(p.duration > 0, <<Inc(<<"duration">>)>>)
      \o When(p.connect > 0, <<Inc(<<"connect_duration">>)>>)
      \o EmitSideChannel(p)

\* Slip: headers are looked at when the probe was a success.
FailureWritesNoSideChannel(p) ==
    <<Set(<<"success">>, 0)>>
      \o When(p.duration > 0, <<Inc(<<"duration">>)>>)
      \o When(p.connect > 0, <<Inc(<<"connect_duration">>)>>)
      \o When(p.errType # "", <<Inc(Errors(p))>>)

FailureWrites(p) ==
    <<Set(<<"success">>, 0)>>
      \o When(p.duration > 0, <<Inc(<<"duration">>)>>)
      \o When(p.connect > 0, <<Inc(<<"connect_duration">>)>>)
      \o When(p.errType # "", <<Inc(Errors(p))>>)
      \o EmitSideChannel(p)

\* Slip: counters are for ever.
ResetOrderWithoutErrors ==
    <<"success", "duration", "connect_duration", "ttft", "input_tokens", "output_tokens",
      "total_tokens", "reasoning_tokens", "cached_input_tokens", "cache_creation_tokens",
      "token_rate", "last_success", "rate_limit_remaining", "ssl_cert_expiry">>

\* The vectors in the order of Reset.
ResetOrder ==
    <<"success", "duration", "connect_duration", "ttft", "input_tokens", "output_tokens",
      "total_tokens", "reasoning_tokens", "cached_input_tokens", "cache_creation_tokens",
      "token_rate", "last_success", "rate_limit_remaining", "ssl_cert_expiry", "errors">>

-----------------------------------------------------------------------------
Init ==
    /\ buildable \in BOOLEAN
    /\ registry = << >>
    /\ pending = <<>>
    /\ clearing = <<>>
    /\ resets = 0
    /\ done = <<>>
    /\ scrape = << >> /\ meanwhile = 0

AtRest == pending = <<>> /\ clearing = <<>>

\* A probe returns; the clock is the number of probes.
ProbeReturns(p) ==
    /\ AtRest
    /\ Len(done) < MaxProbes
    /\ buildable <=> p.duration > 0
    /\ done' = Append(done, p)
    /\ pending' = IF p.success THEN SuccessWrites(p, Len(done) + 1) ELSE FailureWrites(p)
    /\ UNCHANGED <<buildable, registry, clearing, resets, scrapeVars>>

\* With(labels) creates a series that is not there.
Written(w) ==
    [s \in DOMAIN registry \cup {w.series} |->
        IF s # w.series THEN registry[s]
        ELSE IF w.add /\ s \in DOMAIN registry THEN registry[s] + w.value
        ELSE w.value]

Write ==
    /\ pending # <<>>
    /\ registry' = Written(Head(pending))
    /\ pending' = Tail(pending)
    /\ meanwhile' = IF <<"duration">> \in DOMAIN scrape /\ Head(pending).series = <<"duration">>
                    THEN meanwhile + 1 ELSE meanwhile
    /\ UNCHANGED <<buildable, clearing, resets, done, scrape>>

\* What a scrape adds up to when a reset comes into it is left open.
BeginReset ==
    /\ AtRest
    /\ resets < MaxResets
    /\ resets' = resets + 1
    /\ clearing' = ResetOrder
    /\ done' = <<>>
    /\ scrape' = << >> /\ meanwhile' = 0
    /\ UNCHANGED <<buildable, registry, pending>>

ClearVector ==
    /\ clearing # <<>>
    /\ registry' = Restrict(registry, {s \in DOMAIN registry : s[1] # Head(clearing)})
    /\ clearing' = Tail(clearing)
    /\ UNCHANGED <<buildable, pending, resets, done, scrapeVars>>

Value(series) == IF series \in DOMAIN registry THEN registry[series] ELSE 0

ErrorSeries == {s \in DOMAIN registry : s[1] = "errors"}

\* A scrape reads one more series; the durations, also if there is none yet.
Scrape(series) ==
    /\ clearing = <<>>
    /\ series \notin DOMAIN scrape
    /\ scrape' = [s \in DOMAIN scrape \cup {series} |->
                     IF s = series THEN Value(s) ELSE scrape[s]]
    /\ UNCHANGED <<buildable, registry, pending, clearing, resets, done, meanwhile>>

\* The scrape is over; there may be another.
ScrapeEnds ==
    /\ scrape # << >>
    /\ scrape' = << >> /\ meanwhile' = 0
    /\ UNCHANGED <<buildable, registry, pending, clearing, resets, done>>

Next ==
    \/ \E p \in Probes : ProbeReturns(p)
    \/ Write
    \/ BeginReset
    \/ ClearVector
    \/ \E s \in ErrorSeries \cup {<<"duration">>} : Scrape(s)
    \/ ScrapeEnds

Spec == Init /\ [][Next]_vars

-----------------------------------------------------------------------------
(* Properties.                                                             *)

\* Types: no series has the sentinel -1, nor any negative value.
TypeOK ==
    /\ \A s \in DOMAIN registry : registry[s] \in Nat
    /\ \A i \in DOMAIN pending : pending[i].value \in Nat
    /\ buildable \in BOOLEAN
    /\ resets \in 0 .. MaxResets
    /\ done \in Seq(Probes) /\ Len(done) <= MaxProbes
    /\ \A s \in DOMAIN scrape : scrape[s] \in Nat
    /\ meanwhile \in 0 .. MaxProbes

\* The probes since the reset with some trait, and what a series shows of the
\* last of them: nothing if there is none.
Successes    == {i \in DOMAIN done : done[i].success}
ShowsLast(series, hits, value(_)) ==
    /\ series \in DOMAIN registry <=> hits # {}
    /\ hits # {} => registry[series] = value(Max(hits))

\* Between probes the gauges describe the last probe that has something to say
\* about them: the verdict is the last one's; time stamp and all six token
\* counts are those of one probe, the last success; the rate is that of the
\* last success with enough tokens and time ("保留上一次有效值": the last valid
\* value is kept).
GaugesLatest ==
    AtRest =>
        /\ ShowsLast(<<"success">>, DOMAIN done, LAMBDA i : IF done[i].success THEN 1 ELSE 0)
        /\ ShowsLast(<<"last_success">>, Successes, LAMBDA i : i)
        /\ \A t \in TokenCounts : ShowsLast(<<t>>, Successes, LAMBDA i : done[i].tokens[t])
        /\ ShowsLast(<<"token_rate">>,
                     {i \in Successes : /\ done[i].tokens["output_tokens"] >= 5
                                        /\ done[i].duration >= done[i].ttft + 100},
                     LAMBDA i : (1000 * done[i].tokens["output_tokens"])
                                  \div (done[i].duration - done[i].ttft))

\* What the server said it has left: the first header about it that holds a
\* number, of which -1 stands for none.
Numbers(p, kind) ==
    {i \in DOMAIN Candidates : /\ Candidates[i].kind = kind
                               /\ Get(p.headers, Candidates[i].name).numeric
                               /\ Get(p.headers, Candidates[i].name).n # -1}
Budget(p, kind) ==
    IF Numbers(p, kind) = {} THEN -1
    ELSE Get(p.headers, Candidates[Min(Numbers(p, kind))].name).n

\* Between probes the remaining budget is the one reported last, by a failed
\* answer as well as by a successful one; "nothing left" and "not reported" are
\* told apart.  An answer counts as a report when the first number it has for
\* the kind is not negative: another negative number (strconv.Atoi reads any)
\* hides the headers after it, and the budget reported before it stays.  The
\* certificate shown is the first to expire of those seen last.
SideChannelLatest ==
    AtRest =>
        /\ \A kind \in Kinds :
               ShowsLast(Remaining(kind), {i \in DOMAIN done : Budget(done[i], kind) >= 0},
                         LAMBDA i : Budget(done[i], kind))
        /\ ShowsLast(<<"ssl_cert_expiry">>, {i \in DOMAIN done : done[i].certs # <<>>},
                     LAMBDA i : Min(Range(done[i].certs)))

\* Between probes every failure since the reset has been counted once, under
\* its own type and status, and every request that was made has one duration,
\* every success one time to the first token.
CountersExact ==
    AtRest =>
        /\ \A p \in Probes :
               ~p.success => Value(Errors(p)) = Cardinality({i \in DOMAIN done :
                                   ~done[i].success /\ Errors(done[i]) = Errors(p)})
        /\ Value(<<"duration">>) = Cardinality({i \in DOMAIN done : done[i].duration > 0})
        /\ Value(<<"ttft">>) = Cardinality(Successes)
        /\ Value(<<"connect_duration">>) = Cardinality({i \in DOMAIN done : done[i].connect > 0})

ScrapedErrors == SumFunctionOnSet(scrape, DOMAIN scrape \ {<<"duration">>})

\* At every moment of a scrape that no reset comes into, in the middle of a
\* recording too, and if the target can be probed at all: before it has read the
\* durations, the errors it has read are no more than the durations there are;
\* and after that they are no more than those it has read and those written
\* since.  A scrape that reads durations last shows a share of errors of at most
\* one; one that reads them first is ahead by what was recorded meanwhile.
ErrorsWithinDurations ==
    buildable /\ clearing = <<>> =>
        ScrapedErrors <= IF <<"duration">> \in DOMAIN scrape
                         THEN scrape[<<"duration">>] + meanwhile
                         ELSE Value(<<"duration">>)

\* "Absent when the provider did not return a rate-limit header."
RateLimitAbsentUnreported ==
    AtRest /\ done # <<>> /\ done[Len(done)].status # 0 =>
        \A kind \in Kinds : Numbers(done[Len(done)], kind) = {} => Remaining(kind) \notin DOMAIN registry

\* "Input (prompt) tokens consumed by the last probe", where it consumed any.
TokensOfLastProbe ==
    AtRest /\ <<"input_tokens">> \in DOMAIN registry /\ done[Len(done)].tokens["input_tokens"] > 0 =>
        registry[<<"input_tokens">>] = done[Len(done)].tokens["input_tokens"]
=============================================================================
