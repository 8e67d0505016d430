--------------------------- MODULE MCProbeHandler ---------------------------
(* Two requests over files whose module m is there or not, changes, has no  *)
(* timeout, or does not load.                                               *)
EXTENDS ProbeHandler, TLC

Usual == [format |-> "", prompt |-> FALSE, timeout |-> 0, maxTokens |-> 0,
          pattern |-> FALSE, compiles |-> TRUE]

MCDocuments ==
    {"m" :> Usual,
     "m" :> [Usual EXCEPT !.timeout = -1, !.pattern = TRUE],
     "m" :> [Usual EXCEPT !.format = "deepseek"],
     "n" :> [Usual EXCEPT !.format = "azure", !.timeout = 5]}

MCAnswers ==
    {Result(TRUE, "", 200, 7, FALSE), Result(FALSE, HTTPErrorClass(429, {}), 429, 0, FALSE),
     Unanswered("refused")}
=============================================================================
