---------------------------- MODULE ModuleConfig ----------------------------
(***************************************************************************)
(* A module of the configuration: the settings of /probe for any endpoint  *)
(* (config.Module).  `format` is "" if api_format is not set, `pattern`    *)
(* tells whether expect_pattern is, `compiles` whether it is a regular     *)
(* expression.  Durations are whole seconds.                               *)
(***************************************************************************)
EXTENDS TargetConfig

ValidAPIFormats == {"openai", "openai-responses", "azure", "anthropic", "google"}

Modules == [format : ValidAPIFormats \cup {"", "deepseek"}, prompt : BOOLEAN,
            timeout : Int, maxTokens : Int, pattern : BOOLEAN, compiles : BOOLEAN]

\* What Load checks of a module.  It sets no defaults, and no range of
\* timeout or max_tokens is checked.
ModuleAccepted(m) ==
    /\ m.format \in ValidAPIFormats \cup {""}
    /\ m.pattern => m.compiles

\* Slip: the timeout has no default.
ToTargetWithoutTimeout(m) ==
    [m EXCEPT !.format = IF @ = "" THEN "openai" ELSE @,
              !.maxTokens = Default(@, 20), !.prompt = TRUE]

\* Module.ToTarget: the settings of the target that is probed.
ToTarget(m) ==
    [m EXCEPT !.format = IF @ = "" THEN "openai" ELSE @,
              !.timeout = Default(@, 30), !.maxTokens = Default(@, 20), !.prompt = TRUE]

\* Whether prober.New builds a client for the target.
CanProbe(t) == t.format \in ValidAPIFormats
=============================================================================
