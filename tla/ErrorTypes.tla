----------------------------- MODULE ErrorTypes -----------------------------
(***************************************************************************)
(* Classification of failed requests (internal/prober/errors.go).  An HTTP *)
(* error body is the set of the well-known words that occur in its first   *)
(* KiB; an error of the transport is its cause.                            *)
(***************************************************************************)
EXTENDS Naturals, Sequences

\* What classifyProviderBody looks for, in its order.
BodyRules == <<
    [class |-> "overloaded",
     words |-> {"overloaded_error", "overloaded"}],
    [class |-> "quota_exceeded",
     words |-> {"insufficient_quota", "billing_not_active", "quota_exceeded"}],
    [class |-> "context_length",
     words |-> {"context_length_exceeded", "maximum context length", "context window"}],
    [class |-> "content_filter",
     words |-> {"content_filter", "content_policy", "safety"}],
    [class |-> "rate_limit",
     words |-> {"resource_exhausted"}],
    [class |-> "auth",
     words |-> {"invalid_api_key", "authentication_error", "permission_denied"}] >>

\* classifyProviderBody: the first class with a word in the body, or "".
BodyClass(words) ==
    LET hits == {i \in DOMAIN BodyRules : BodyRules[i].words \cap words # {}}
    IN  IF hits = {} THEN ""
        ELSE BodyRules[CHOOSE i \in hits : \A j \in hits : i <= j].class

\* Slip: a catch-all class of its own.
StatusClassUnknown(code) ==
    CASE code \in {401, 403}                   -> "auth"
      [] code = 429                            -> "rate_limit"
      [] code = 529                            -> "overloaded"
      [] code \in 500 .. 599 \ {529}           -> "http_5xx"
      [] code \in 400 .. 499 \ {401, 403, 429} -> "http_4xx"
      [] OTHER                                 -> "unknown"

\* classifyHTTPStatus.
StatusClass(code) ==
    CASE code \in {401, 403}                   -> "auth"
      [] code = 429                            -> "rate_limit"
      [] code = 529                            -> "overloaded"
      [] code \in 500 .. 599 \ {529}           -> "http_5xx"
      [] code \in 400 .. 499 \ {401, 403, 429} -> "http_4xx"
      [] OTHER                                 -> "api_error"

\* The class of an answer other than 200: the body refines the status.
HTTPErrorClass(code, words) ==
    IF BodyClass(words) # "" THEN BodyClass(words) ELSE StatusClass(code)

HTTPErrorClasses == {BodyRules[i].class : i \in DOMAIN BodyRules}
                      \cup {"http_5xx", "http_4xx", "api_error"}

\* Why a request can fail without an answer.  "deadline" is every kind of
\* timeout, "reset" everything without a word of its own.
Causes == {"deadline", "canceled", "tls", "dns", "refused", "reset"}

\* classifyNetworkError.  (It looks for "dns" in the whole message, which has
\* the URL in it; URLs without that word are assumed here.)
NetworkClass(cause) ==
    CASE cause = "deadline" -> "timeout"
      [] cause = "canceled" -> "canceled"
      [] cause = "tls"      -> "tls_error"
      [] cause = "dns"      -> "dns_error"
      [] cause = "refused"  -> "connection_refused"
      [] cause = "reset"    -> "network"

NetworkClasses == {NetworkClass(cause) : cause \in Causes}
=============================================================================
