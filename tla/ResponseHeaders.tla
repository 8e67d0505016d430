--------------------------- MODULE ResponseHeaders --------------------------
(***************************************************************************)
(* What a client keeps of an answer besides its body                       *)
(* (internal/prober/response.go): the remaining rate limit and the expiry  *)
(* of the certificates.  Headers are a function from canonical names to    *)
(* values; a value is a number or it is not.  A certificate is the day it  *)
(* expires, day 0 the zero time.                                           *)
(***************************************************************************)
EXTENDS Integers, SequencesExt

Kinds == {"requests", "tokens"}

\* The headers looked for, in order, and what each is about.
Candidates == <<
    [name |-> "X-RateLimit-Remaining-Requests",         kind |-> "requests"],
    [name |-> "X-Ratelimit-Remaining-Requests",         kind |-> "requests"],
    [name |-> "Anthropic-Ratelimit-Requests-Remaining", kind |-> "requests"],
    [name |-> "X-RateLimit-Remaining-Tokens",           kind |-> "tokens"],
    [name |-> "X-Ratelimit-Remaining-Tokens",           kind |-> "tokens"],
    [name |-> "Anthropic-Ratelimit-Tokens-Remaining",   kind |-> "tokens"] >>

\* net/textproto: the spelling under which a header is kept.
Canonical(name) ==
    CASE name = "X-RateLimit-Remaining-Requests" -> "X-Ratelimit-Remaining-Requests"
      [] name = "X-RateLimit-Remaining-Tokens"   -> "X-Ratelimit-Remaining-Tokens"
      [] OTHER                                   -> name

HeaderValues == [numeric : BOOLEAN, n : Int]

Number(n) == [numeric |-> TRUE, n |-> n]
Malformed == [numeric |-> FALSE, n |-> 0]

\* http.Header.Get; a header that is not there is no number either.
Get(headers, name) ==
    IF Canonical(name) \in DOMAIN headers THEN headers[Canonical(name)] ELSE Malformed

Unreported == [kind \in Kinds |-> -1]

\* parseRateLimitHeaders: the first header that is a number, kind by kind; -1
\* stands for "not reported", also when it is what a header says.
ParseRateLimitHeaders(headers) ==
    FoldLeft(LAMBDA left, c :
                 IF left[c.kind] # -1 \/ ~Get(headers, c.name).numeric THEN left
                 ELSE [left EXCEPT ![c.kind] = Get(headers, c.name).n],
             Unreported, Candidates)

\* earliestPeerCertNotAfter.
EarliestPeerCertNotAfter(certs) ==
    IF certs = <<>> THEN 0
    ELSE FoldLeft(LAMBDA earliest, c : IF c < earliest THEN c ELSE earliest,
                  Head(certs), Tail(certs))
=============================================================================
