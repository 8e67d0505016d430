---------------------------- MODULE MCStreamProbe ---------------------------
(* Anthropic and Google have no body-in-one-piece mode; a target of each   *)
(* looks for the second piece (the Google one asks for no stream and gets   *)
(* one all the same).  The other two clients: a stream with that pattern,   *)
(* and one body with no pattern.  Token counts: none, and two reports of   *)
(* which each says more than the other in some respect, and one no cache.  *)
EXTENDS StreamProbe

CONSTANT Protos

MCTargets ==
    {t \in [proto : Protos, stream : BOOLEAN, pattern : {0, 2}] :
        CASE t.proto = "anthropic" -> t.stream /\ t.pattern = 2
          [] t.proto = "google"    -> ~t.stream /\ t.pattern = 2
          [] OTHER                 -> t.stream <=> t.pattern = 2}

U(in, out, total, cached, reasoning, creation) ==
    [in |-> in, out |-> out, total |-> total, cached |-> cached,
     reasoning |-> reasoning, creation |-> creation]

MCUsages == {NoUsage, U(2, 1, 4, 2, 0, 1), U(1, 2, 3, 0, 1, 2)}

MCStatuses == {301, 401, 404, 429, 503, 529}

MCWords == {"overloaded_error", "insufficient_quota", "safety", "invalid_api_key"}
=============================================================================
