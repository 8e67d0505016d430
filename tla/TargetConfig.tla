---------------------------- MODULE TargetConfig ----------------------------
(***************************************************************************)
(* config.Load for one target: which settings are accepted, and the        *)
(* settings the scheduler then works with.  A target is a record of the    *)
(* settings with a rule of their own; durations are whole seconds;         *)
(* `prompts` is the length of the list, `complete` says that name,         *)
(* endpoint and model are set, `known` that api_format is empty or valid,  *)
(* `compiles` that expect_pattern is empty or a regular expression.        *)
(***************************************************************************)
EXTENDS Integers

Settings == [complete : BOOLEAN, known : BOOLEAN, compiles : BOOLEAN,
             prompt : BOOLEAN, prompts : Nat,
             timeout : Int, interval : Int, maxTokens : Int,
             fullProbeEvery : Int, lightPrompt : BOOLEAN, lightMaxTokens : Int,
             adaptive : BOOLEAN, maxInterval : Int, backoffAfter : Int]

Default(value, default) == IF value = 0 THEN default ELSE value

\* The settings after the defaults.
Loaded(t) ==
    LET light    == t.fullProbeEvery > 0
        interval == Default(t.interval, 300)
    IN  [t EXCEPT !.prompt         = @ \/ t.prompts = 0,
                  !.timeout        = Default(@, 30),
                  !.interval       = interval,
                  !.maxTokens      = Default(@, 20),
                  !.lightPrompt    = @ \/ light,
                  !.lightMaxTokens = IF light THEN Default(@, 5) ELSE @,
                  !.maxInterval    = IF t.adaptive THEN Default(@, 4 * interval) ELSE @,
                  !.backoffAfter   = IF t.adaptive THEN Default(@, 5) ELSE @]

\* Whether Load returns no error for the target.
Accepted(t) ==
    /\ t.complete /\ t.known /\ t.compiles
    /\ ~(t.prompt /\ t.prompts > 0)
    /\ t.timeout >= 0 /\ t.interval >= 0
    /\ t.fullProbeEvery # 1
    /\ t.fullProbeEvery = 0 => ~t.lightPrompt /\ t.lightMaxTokens = 0
    /\ t.adaptive => Loaded(t).maxInterval >= Loaded(t).interval
    /\ ~t.adaptive => t.maxInterval = 0 /\ t.backoffAfter = 0
=============================================================================
