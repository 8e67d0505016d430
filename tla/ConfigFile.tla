----------------------------- MODULE ConfigFile -----------------------------
(***************************************************************************)
(* config.Load, check by check: the whole configuration is walked once,    *)
(* defaults are written into it on the way, and the first check that fails *)
(* ends the load.  The document is what the YAML parser makes of the file  *)
(* after the expansion of ${...}; the maps of Go are walked in any order.  *)
(* TargetConfig and ModuleConfig say the same of one target or one module  *)
(* as a whole; the runs show that the walk comes to the same result.       *)
(***************************************************************************)
EXTENDS ModuleConfig, Sequences, SequencesExt

CONSTANT Documents     \* the documents a user may write

\* No webhook section: a WebhookConfig with no fields would be refused.
NoWebhook == [url |-> FALSE, threshold |-> 0, given |-> FALSE]

Webhooks == [url : BOOLEAN, threshold : Int, given : BOOLEAN]

\* `listen` tells whether listen_addr is set, `url` whether the webhook's is.
IsDocument(d) ==
    /\ d \in [readable : BOOLEAN, listen : BOOLEAN, webhook : Webhooks, modules : {d.modules},
             targets : Seq([name : STRING, settings : Settings])]
    /\ IsFiniteSet(DOMAIN d.modules) /\ \A m \in DOMAIN d.modules : d.modules[m] \in Modules

ASSUME DocumentsAssumption == \A d \in Documents : IsDocument(d)

VARIABLES
    doc,       \* history: the document as it was written
    cfg,       \* the configuration, with the defaults set so far
    at,        \* the check that comes next
    unchecked, \* names of modules the range loop has not come to
    index,     \* where the loop over the targets is
    seenNames  \* names of the targets so far

loadVars == <<doc, cfg, at, unchecked, index, seenNames>>

Stages == <<"required", "defaults", "numeric", "light", "adaptive", "regex">>
Checks == {"read", "general", "modules", "loaded", "refused"} \cup ToSet(Stages)

LoadInit ==
    /\ doc \in Documents
    /\ cfg = doc
    /\ at = "read"
    /\ unchecked = {} /\ index = 1 /\ seenNames = <<>>

Refuse == at' = "refused" /\ UNCHANGED <<doc, cfg, unchecked, index, seenNames>>

\* The file cannot be read, or is not a configuration in YAML.
Read ==
    /\ at = "read"
    /\ IF cfg.readable
       THEN at' = "general" /\ UNCHANGED <<doc, cfg, unchecked, index, seenNames>>
       ELSE Refuse

\* Slip: a threshold below zero is kept.
WithDefaultsNegative(c) ==
    [c EXCEPT !.listen = TRUE,
              !.webhook.threshold = IF c.webhook.given THEN Default(@, 3) ELSE @]

WithDefaults(c) ==
    [c EXCEPT !.listen = TRUE,
              !.webhook.threshold = IF c.webhook.given /\ @ <= 0 THEN 3 ELSE @]

\* listen_addr, the webhook, and that there is anything to do.
General ==
    /\ at = "general"
    /\ IF \/ cfg.webhook.given /\ ~cfg.webhook.url
          \/ cfg.targets = <<>> /\ DOMAIN cfg.modules = {}
       THEN Refuse
       ELSE /\ cfg' = WithDefaults(cfg)
            /\ unchecked' = DOMAIN cfg.modules
            /\ at' = "modules"
            /\ UNCHANGED <<doc, index, seenNames>>

CheckModule(m) ==
    /\ at = "modules" /\ m \in unchecked
    /\ IF ModuleAccepted(cfg.modules[m])
       THEN unchecked' = unchecked \ {m} /\ UNCHANGED <<doc, cfg, at, index, seenNames>>
       ELSE Refuse

\* The loop over the targets begins, or goes on with target k.
Visit(k) == index' = k /\ at' = IF k > Len(cfg.targets) THEN "loaded" ELSE "required"

ModulesChecked ==
    /\ at = "modules" /\ unchecked = {}
    /\ Visit(1)
    /\ UNCHANGED <<doc, cfg, unchecked, seenNames>>

-----------------------------------------------------------------------------
(* The checks of one target, in their order.                               *)

current == cfg.targets[index].settings

\* The stage is passed with the settings s, or the target is refused.
Stage(name, passes, s) ==
    /\ at = name
    /\ IF passes
       THEN /\ cfg' = [cfg EXCEPT !.targets[index].settings = s]
            /\ at' = Stages[1 + CHOOSE k \in DOMAIN Stages : Stages[k] = name]
            /\ UNCHANGED <<doc, unchecked, index, seenNames>>
       ELSE Refuse

\* name, duplicates, endpoint, model, prompt against prompts.
Required ==
    /\ at = "required"
    /\ IF current.complete /\ ~(current.prompt /\ current.prompts > 0)
          /\ cfg.targets[index].name \notin ToSet(seenNames)
       THEN /\ seenNames' = Append(seenNames, cfg.targets[index].name)
            /\ at' = "defaults"
            /\ UNCHANGED <<doc, cfg, unchecked, index>>
       ELSE Refuse

Defaults ==
    Stage("defaults", TRUE,
          [current EXCEPT !.prompt = @ \/ current.prompts = 0,
                    !.timeout = Default(@, 30), !.interval = Default(@, 300),
                    !.maxTokens = Default(@, 20)])

Numeric == Stage("numeric", current.known /\ current.timeout >= 0 /\ current.interval >= 0, current)

LightMode ==
    LET light == current.fullProbeEvery > 0
        s == [current EXCEPT !.lightPrompt = @ \/ light,
                       !.lightMaxTokens = IF light THEN Default(@, 5) ELSE @]
    IN  Stage("light",
              /\ current.fullProbeEvery # 1
              /\ current.fullProbeEvery = 0 => ~current.lightPrompt /\ current.lightMaxTokens = 0, s)

\* Slip: the cap is compared before its default is known.
AdaptiveTooEarly ==
    LET s == [current EXCEPT !.maxInterval = IF current.adaptive THEN Default(@, 4 * current.interval) ELSE @,
                       !.backoffAfter = IF current.adaptive THEN Default(@, 5) ELSE @]
    IN  Stage("adaptive",
              IF current.adaptive THEN current.maxInterval >= current.interval
              ELSE current.maxInterval = 0 /\ current.backoffAfter = 0, s)

Adaptive ==
    LET s == [current EXCEPT !.maxInterval = IF current.adaptive THEN Default(@, 4 * current.interval) ELSE @,
                       !.backoffAfter = IF current.adaptive THEN Default(@, 5) ELSE @]
    IN  Stage("adaptive",
              IF current.adaptive THEN s.maxInterval >= s.interval
              ELSE current.maxInterval = 0 /\ current.backoffAfter = 0, s)

Regex ==
    /\ at = "regex"
    /\ IF current.compiles
       THEN Visit(index + 1) /\ UNCHANGED <<doc, cfg, unchecked, seenNames>>
       ELSE Refuse

CheckTarget == Required \/ Defaults \/ Numeric \/ LightMode \/ Adaptive \/ Regex

LoadNext ==
    \/ Read \/ General
    \/ \E m \in unchecked : CheckModule(m)
    \/ ModulesChecked
    \/ CheckTarget

LoadSpec == LoadInit /\ [][LoadNext]_loadVars

-----------------------------------------------------------------------------
(* Properties.                                                             *)

\* Types of the variables; every target that is past the first check has left
\* its name.
LoadTypeOK ==
    /\ IsDocument(doc) /\ IsDocument(cfg)
    /\ at \in Checks
    /\ unchecked \subseteq DOMAIN doc.modules
    /\ index \in 1 .. Len(doc.targets) + 1
    /\ at \in ToSet(Stages) =>
          Len(seenNames) = IF at = "required" THEN index - 1 ELSE index

\* What is accepted, of a whole document.
Valid(d) ==
    /\ d.readable
    /\ d.webhook.given => d.webhook.url
    /\ d.targets # <<>> \/ DOMAIN d.modules # {}
    /\ \A m \in DOMAIN d.modules : ModuleAccepted(d.modules[m])
    /\ \A k \in DOMAIN d.targets : Accepted(d.targets[k].settings)
    /\ \A k, l \in DOMAIN d.targets : k # l => d.targets[k].name # d.targets[l].name

\* The walk, with its early returns and the defaults it sets between two
\* checks, accepts exactly the valid documents, in whatever order the modules
\* come, and every target ends with the settings TargetConfig says it has:
\* no default is set too late for a check that reads it, nor too early.
LoadsExactly ==
    /\ at = "loaded"  => /\ Valid(doc)
                         /\ \A k \in DOMAIN doc.targets :
                               cfg.targets[k].settings = Loaded(doc.targets[k].settings)
                         /\ cfg.modules = doc.modules
    /\ at = "refused" => ~Valid(doc)

\* What the rest of the program relies on without a check of its own: an
\* interval that rand.Int63n takes, a timeout that bounds the probe, names that
\* tell trackers and series apart, a client and a pattern that can be built,
\* and a threshold that consecutive failures reach.
Runnable ==
    at = "loaded" =>
        /\ \A k \in DOMAIN cfg.targets :
              LET s == cfg.targets[k].settings
              IN  /\ s.interval > 0 /\ s.timeout > 0 /\ s.known /\ s.compiles
                  /\ s.prompt \/ s.prompts > 0
                  /\ s.fullProbeEvery > 0 => s.lightPrompt
                  /\ s.adaptive => s.maxInterval >= s.interval
        /\ IsInjective([k \in DOMAIN cfg.targets |-> cfg.targets[k].name])
        /\ \A m \in DOMAIN cfg.modules : CanProbe(ToTarget(cfg.modules[m]))
        /\ cfg.webhook.given => cfg.webhook.url /\ cfg.webhook.threshold > 0
=============================================================================
