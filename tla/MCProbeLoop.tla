---------------------------- MODULE MCProbeLoop -----------------------------
(* Documents with one target in any of its limits, and with several targets *)
(* that differ in name and in one fault each; webhook and modules at theirs. *)
(* Probes enough for the longest cadence, rotation and backoff to come round. *)
EXTENDS ProbeLoop

Plain ==
    [complete |-> TRUE, known |-> TRUE, compiles |-> TRUE, prompt |-> FALSE, prompts |-> 0,
     timeout |-> 0, interval |-> 0, maxTokens |-> 0,
     fullProbeEvery |-> 0, lightPrompt |-> FALSE, lightMaxTokens |-> 0,
     adaptive |-> FALSE, maxInterval |-> 0, backoffAfter |-> 0]

Limits ==
    [complete : {TRUE}, known : {TRUE}, compiles : {TRUE}, prompt : BOOLEAN, prompts : {0, 2},
     timeout : {-1, 0, 9}, interval : {-1, 0, 60}, maxTokens : {0},
     fullProbeEvery : {-1, 0, 1, 2}, lightPrompt : BOOLEAN, lightMaxTokens : {0, 7},
     adaptive : BOOLEAN, maxInterval : {0, 59, 60, 300}, backoffAfter : {0, 1}]

\* What matters to a loop.
LoopLimits ==
    [complete : {TRUE}, known : {TRUE}, compiles : {TRUE},
     prompt : {FALSE}, prompts : {0, 2, 3}, timeout : {0},
     interval : {0, 60}, maxTokens : {0},
     fullProbeEvery : {0, 2, 3}, lightPrompt : {FALSE}, lightMaxTokens : {0, 7},
     adaptive : BOOLEAN, maxInterval : {0, 60, 500}, backoffAfter : {-2, 0, 1, 2}]

Faulty ==
    {[Plain EXCEPT !.complete = FALSE], [Plain EXCEPT !.known = FALSE],
     [Plain EXCEPT !.compiles = FALSE], [Plain EXCEPT !.interval = -1],
     [Plain EXCEPT !.adaptive = TRUE, !.maxInterval = 299],
     [Plain EXCEPT !.adaptive = TRUE], [Plain EXCEPT !.fullProbeEvery = 2]}

Usual   == [format |-> "", prompt |-> FALSE, timeout |-> 0, maxTokens |-> 0,
            pattern |-> FALSE, compiles |-> TRUE]
Unknown == [Usual EXCEPT !.format = "deepseek", !.timeout = -1]
Pattern == [Usual EXCEPT !.pattern = TRUE, !.format = "azure"]
Broken  == [Pattern EXCEPT !.compiles = FALSE]

Document(listen, webhook, modules, targets) ==
    [readable |-> TRUE, listen |-> listen, webhook |-> webhook,
     modules |-> modules, targets |-> targets]

Named(name, s) == [name |-> name, settings |-> s]

TargetLists ==
    {<<>>} \cup {<<Named("a", s)>> : s \in Limits \cup LoopLimits}
           \cup {<<Named(n, Plain), Named("b", s)>> : n \in {"a", "b"}, s \in Faulty}
           \cup {<<Named(n, s), Named("b", Plain), Named(m, Plain)>> :
                   n \in {"a", "c"}, s \in Faulty, m \in {"a", "b", "c"}}

ShortLists  == {<<>>, <<Named("a", Plain)>>, <<Named("a", Plain), Named("a", Plain)>>}

MCDocuments ==
    {Document(FALSE, NoWebhook, <<>>, l) : l \in TargetLists}
      \cup {Document(TRUE, w, m, l) :
              w \in {NoWebhook} \cup [url : BOOLEAN, threshold : {-1, 0, 2}, given : {TRUE}],
              m \in {<<>>} \cup [{"m", "n"} -> {Usual, Pattern, Unknown, Broken}],
              l \in ShortLists}
      \cup {[Document(FALSE, NoWebhook, <<>>, <<>>) EXCEPT !.readable = FALSE]}
=============================================================================
