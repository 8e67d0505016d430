--------------------------- MODULE MCProbeMetrics ---------------------------
(* OutcomeProbes vary verdict, error type, times around the limit of 100 ms *)
(* and tokens around 5.  SideChannelProbes vary the headers: none, a budget *)
(* of nothing, of something, not a number, "-1", "-5", one name or both,    *)
(* kinds that differ; and the chain of certificates.                        *)
EXTENDS ProbeMetrics

Tokens(n) == [t \in TokenCounts |->
    CASE t = "output_tokens" -> n [] t = "input_tokens" -> 2 * n
      [] t = "total_tokens" -> 3 * n [] OTHER -> n % 5]

Silent == [success |-> FALSE, errType |-> "network", duration |-> 0, ttft |-> 0, connect |-> 0,
           tokens |-> Tokens(0), status |-> 0, headers |-> << >>, certs |-> <<>>]

Unanswered(errType, connect) ==
    [Silent EXCEPT !.errType = errType, !.duration = 50, !.connect = connect]

Refusal(errType, status) ==
    [Silent EXCEPT !.errType = errType, !.duration = 50, !.connect = 20, !.status = status]

Answer(n, ttft, connect) ==
    [Silent EXCEPT !.success = TRUE, !.errType = "", !.duration = 300, !.ttft = ttft,
                   !.connect = connect, !.tokens = Tokens(n), !.status = 200]

OutcomeProbes ==
    {Silent, Unanswered("timeout", 0), Unanswered("network", -7), Refusal("rate_limit", 429),
     Refusal("overloaded", 429),
     [Refusal("api_error", 200) EXCEPT !.tokens = Tokens(9)]}
      \cup {Answer(n, ttft, 10) : n \in {0, 4, 5}, ttft \in {200, 201}}
      \cup {Answer(7, 300, 0)}

XReq  == "X-Ratelimit-Remaining-Requests"
XTok  == "X-Ratelimit-Remaining-Tokens"
AnReq == "Anthropic-Ratelimit-Requests-Remaining"
AnTok == "Anthropic-Ratelimit-Tokens-Remaining"

HeaderSets ==
    {<< >>, XReq :> Number(0), XReq :> Number(3) @@ XTok :> Number(0),
     XReq :> Malformed @@ AnReq :> Number(3), XReq :> Number(-1) @@ AnReq :> Number(4),
     AnReq :> Number(0) @@ AnTok :> Number(3), XTok :> Malformed,
     XReq :> Number(-5) @@ AnReq :> Number(4)}

\* Every set of headers on a failed answer, some on a successful one.
SideChannelProbes ==
    {[Refusal("rate_limit", 429) EXCEPT !.headers = h,
                                        !.certs = IF DOMAIN h = {XReq} THEN <<4>> ELSE <<5, 3, 6>>] :
        h \in HeaderSets}
      \cup {[Answer(9, 100, 10) EXCEPT !.headers = h, !.certs = <<5>>] :
              h \in {XReq :> Number(3) @@ XTok :> Number(0), XTok :> Malformed}}

MCProbes == OutcomeProbes \cup SideChannelProbes
=============================================================================
