-------------------------- MODULE ProbeLoopProofs ---------------------------
(***************************************************************************)
(* Proofs about the load of a configuration and the loop of one of its     *)
(* targets, for any documents and any number of probes.  The walk through  *)
(* a document comes to what TargetConfig and ModuleConfig say of it as a   *)
(* whole; a loop counts as the documentation says.                         *)
(***************************************************************************)
EXTENDS ProbeLoop, TLAPS, WellFoundedInduction

-----------------------------------------------------------------------------
(* The settings of one target, stage by stage.                             *)

Defaulted(s) ==
    [s EXCEPT !.prompt = @ \/ s.prompts = 0,
              !.timeout = Default(@, 30), !.interval = Default(@, 300),
              !.maxTokens = Default(@, 20)]

Lightened(s) ==
    [s EXCEPT !.lightPrompt = @ \/ s.fullProbeEvery > 0,
              !.lightMaxTokens = IF s.fullProbeEvery > 0 THEN Default(@, 5) ELSE @]

Adapted(s) ==
    [s EXCEPT !.maxInterval = IF s.adaptive THEN Default(@, 4 * s.interval) ELSE @,
              !.backoffAfter = IF s.adaptive THEN Default(@, 5) ELSE @]

\* The stages together set the defaults of Loaded.
LEMMA StagesTogether ==
    ASSUME NEW t \in Settings
    PROVE  Loaded(t) = Adapted(Lightened(Defaulted(t)))
BY DEF Settings, Loaded, Adapted, Lightened, Defaulted, Default

\* A stage writes Booleans where Booleans are, and integers where integers are.
LEMMA StageTypes ==
    ASSUME NEW s \in Settings
    PROVE  /\ Defaulted(s) \in Settings
           /\ Lightened(s) \in Settings
           /\ Adapted(s) \in Settings
<1>1. (s.prompt \/ s.prompts = 0) \in BOOLEAN /\ (s.lightPrompt \/ s.fullProbeEvery > 0) \in BOOLEAN
    OBVIOUS
<1>2. /\ s.timeout \in Int /\ s.interval \in Int /\ s.maxTokens \in Int /\ s.lightMaxTokens \in Int
      /\ s.maxInterval \in Int /\ s.backoffAfter \in Int
    BY DEF Settings
<1>3. Defaulted(s) \in Settings
    <2> DEFINE p == s.prompt \/ s.prompts = 0
               a == Default(s.timeout, 30)
               b == Default(s.interval, 300)
               c == Default(s.maxTokens, 20)
    <2>1. Defaulted(s) = [s EXCEPT !.prompt = p, !.timeout = a, !.interval = b, !.maxTokens = c]
        BY DEF Defaulted
    <2>2. p \in BOOLEAN /\ a \in Int /\ b \in Int /\ c \in Int
        BY <1>1, <1>2 DEF Default
    <2> HIDE DEF p, a, b, c
    <2> QED BY <2>1, <2>2 DEF Settings
<1>4. Lightened(s) \in Settings
    <2> DEFINE q == s.lightPrompt \/ s.fullProbeEvery > 0
               a == IF s.fullProbeEvery > 0 THEN Default(s.lightMaxTokens, 5) ELSE s.lightMaxTokens
    <2>1. Lightened(s) = [s EXCEPT !.lightPrompt = q, !.lightMaxTokens = a]
        BY DEF Lightened
    <2>2. q \in BOOLEAN
        BY <1>1
    <2>3. a \in Int
        BY <1>2 DEF Default
    <2> HIDE DEF q, a
    <2> QED BY <2>1, <2>2, <2>3 DEF Settings
<1>5. Adapted(s) \in Settings
    <2> DEFINE a == IF s.adaptive THEN Default(s.maxInterval, 4 * s.interval) ELSE s.maxInterval
               b == IF s.adaptive THEN Default(s.backoffAfter, 5) ELSE s.backoffAfter
    <2>1. Adapted(s) = [s EXCEPT !.maxInterval = a, !.backoffAfter = b]
        BY DEF Adapted
    <2>2. a \in Int /\ b \in Int
        BY <1>2 DEF Default
    <2> HIDE DEF a, b
    <2> QED BY <2>1, <2>2 DEF Settings
<1> QED BY <1>3, <1>4, <1>5

\* What a target has to pass, stage by stage, with the settings it has then.
PassesRequired(s) == s.complete /\ ~(s.prompt /\ s.prompts > 0)
PassesNumeric(s)  == s.known /\ s.timeout >= 0 /\ s.interval >= 0
PassesLight(s)    == /\ s.fullProbeEvery # 1
                     /\ s.fullProbeEvery = 0 => ~s.lightPrompt /\ s.lightMaxTokens = 0
PassesAdaptive(s) == IF s.adaptive THEN Adapted(s).maxInterval >= Adapted(s).interval
                     ELSE s.maxInterval = 0 /\ s.backoffAfter = 0

\* The settings with which a target arrives at a stage, if the user wrote t.
Arrives(stage, t) ==
    IF stage \in {"required", "defaults"} THEN t
    ELSE IF stage \in {"numeric", "light"} THEN Defaulted(t)
    ELSE IF stage = "adaptive" THEN Lightened(Defaulted(t))
    ELSE Loaded(t)

\* The checks behind a target that has arrived at a stage.
Checked(stage, t) ==
    /\ stage # "required" => PassesRequired(t)
    /\ stage \in {"light", "adaptive", "regex"} => PassesNumeric(Defaulted(t))
    /\ stage \in {"adaptive", "regex"} => PassesLight(Defaulted(t))
    /\ stage = "regex" => PassesAdaptive(Lightened(Defaulted(t)))

\* A default never decides whether a check before it or after it is passed,
\* except the cap's, which is compared with the interval.
LEMMA DefaultsNeutral ==
    ASSUME NEW t \in Settings
    PROVE  /\ PassesNumeric(Defaulted(t)) <=> t.known /\ t.timeout >= 0 /\ t.interval >= 0
           /\ PassesLight(Defaulted(t)) <=> PassesLight(t)
           /\ PassesAdaptive(Lightened(Defaulted(t))) <=>
                IF t.adaptive THEN Loaded(t).maxInterval >= Loaded(t).interval
                ELSE t.maxInterval = 0 /\ t.backoffAfter = 0
           /\ Loaded(t).compiles = t.compiles
<1> DEFINE d == Defaulted(t)
           l == Lightened(d)
<1>1. /\ d.known = t.known /\ d.timeout = Default(t.timeout, 30) /\ d.interval = Default(t.interval, 300)
      /\ d.fullProbeEvery = t.fullProbeEvery /\ d.lightPrompt = t.lightPrompt
      /\ d.lightMaxTokens = t.lightMaxTokens
    BY DEF Defaulted, Settings
<1>2. /\ l.adaptive = t.adaptive /\ l.maxInterval = t.maxInterval
      /\ l.backoffAfter = t.backoffAfter
    BY DEF Defaulted, Lightened, Settings
<1>3. Adapted(l) = Loaded(t)
    BY StagesTogether
<1>4. Loaded(t).compiles = t.compiles
    BY DEF Loaded, Settings
<1>5. /\ Default(t.timeout, 30) >= 0 <=> t.timeout >= 0
      /\ Default(t.interval, 300) >= 0 <=> t.interval >= 0
    BY DEF Default, Settings
<1> HIDE DEF d, l
<1>6. PassesNumeric(d) <=> t.known /\ t.timeout >= 0 /\ t.interval >= 0
    <2>1. d.known = t.known /\ (d.timeout >= 0 <=> t.timeout >= 0)
        BY <1>1, <1>5
    <2>2. d.interval >= 0 <=> t.interval >= 0
        BY <1>1, <1>5
    <2> QED BY <2>1, <2>2, Zenon DEF PassesNumeric
<1>7. PassesLight(d) <=> PassesLight(t)
    <2>1. /\ d.fullProbeEvery = t.fullProbeEvery /\ d.lightPrompt = t.lightPrompt
          /\ d.lightMaxTokens = t.lightMaxTokens
        BY <1>1
    <2> QED BY <2>1, Zenon DEF PassesLight
<1>8. PassesAdaptive(l) <=> IF t.adaptive THEN Loaded(t).maxInterval >= Loaded(t).interval
                            ELSE t.maxInterval = 0 /\ t.backoffAfter = 0
    BY <1>2, <1>3, Zenon DEF PassesAdaptive
<1> QED BY <1>4, <1>6, <1>7, <1>8 DEF d, l

\* The checks of all stages together are those of Accepted.
LEMMA AcceptedInStages ==
    ASSUME NEW t \in Settings
    PROVE  Accepted(t) <=> Checked("regex", t) /\ t.compiles
<1>1. Accepted(t) <=> /\ PassesRequired(t) /\ t.compiles
                      /\ t.known /\ t.timeout >= 0 /\ t.interval >= 0
                      /\ PassesLight(t)
                      /\ IF t.adaptive THEN Loaded(t).maxInterval >= Loaded(t).interval
                         ELSE t.maxInterval = 0 /\ t.backoffAfter = 0
    <2>1. t.adaptive \in BOOLEAN
        BY DEF Settings
    <2> QED BY <2>1, Zenon DEF Accepted, PassesRequired, PassesLight
<1> QED BY <1>1, DefaultsNeutral DEF Checked

-----------------------------------------------------------------------------
(* The inductive invariant of the walk.                                    *)

StageNames == {"required", "defaults", "numeric", "light", "adaptive", "regex"}

Given(k) == doc.targets[k].settings
Now(k)   == cfg.targets[k].settings

\* The walk writes defaults and nothing else.
Shape ==
    /\ IsDocument(doc) /\ IsDocument(cfg)
    /\ at \in {"read", "general", "modules", "loaded", "refused"} \cup StageNames
    /\ cfg.readable = doc.readable /\ cfg.modules = doc.modules
    /\ cfg.webhook.url = doc.webhook.url /\ cfg.webhook.given = doc.webhook.given
    /\ Len(cfg.targets) = Len(doc.targets)
    /\ \A k \in 1 .. Len(doc.targets) : cfg.targets[k].name = doc.targets[k].name
    /\ unchecked \subseteq DOMAIN doc.modules
    /\ index \in 1 .. Len(doc.targets) + 1

\* The checks behind the walk that are not about one target.
Whole ==
    /\ at \notin {"read", "refused"} => doc.readable
    /\ at \notin {"read", "general", "refused"} =>
         /\ doc.webhook.given => doc.webhook.url /\ cfg.webhook.threshold > 0
         /\ doc.targets # <<>> \/ DOMAIN doc.modules # {}
    /\ at = "modules" =>
         \A m \in DOMAIN doc.modules \ unchecked : ModuleAccepted(doc.modules[m])
    /\ at \in StageNames \cup {"loaded"} =>
         \A m \in DOMAIN doc.modules : ModuleAccepted(doc.modules[m])

\* Targets behind the walk are done, those ahead untouched, and the one at
\* hand is as far as the stage.
Targets ==
    /\ at \in {"read", "general", "modules"} =>
         cfg.targets = doc.targets /\ index = 1 /\ seenNames = <<>>
    /\ at \in StageNames =>
         /\ index <= Len(doc.targets)
         /\ Checked(at, Given(index)) /\ Now(index) = Arrives(at, Given(index))
    /\ at = "loaded" => index = Len(doc.targets) + 1
    /\ at \in StageNames \cup {"loaded"} =>
         \A k \in 1 .. Len(doc.targets) :
            /\ k < index => Accepted(Given(k)) /\ Now(k) = Loaded(Given(k))
            /\ k > index => Now(k) = Given(k)

\* The names seen are those of the targets behind the first check, all different.
Distinct ==
    at \in StageNames \cup {"loaded"} =>
        /\ seenNames \in Seq(STRING)
        /\ Len(seenNames) = IF at \in {"required", "loaded"} THEN index - 1 ELSE index
        /\ \A k \in 1 .. Len(seenNames) : seenNames[k] = doc.targets[k].name
        /\ \A k, l \in 1 .. Len(seenNames) : k # l => doc.targets[k].name # doc.targets[l].name

Refusals == at = "refused" => ~Valid(doc)

Walk == Shape /\ Whole /\ Targets /\ Distinct /\ Refusals

\* Records and sequences as the walk reads them.
LEMMA DocumentFields ==
    ASSUME NEW d, IsDocument(d)
    PROVE  /\ d.targets \in Seq([name : STRING, settings : Settings])
           /\ DOMAIN d.targets = 1 .. Len(d.targets) /\ Len(d.targets) \in Nat
           /\ \A k \in 1 .. Len(d.targets) :
                 d.targets[k].name \in STRING /\ d.targets[k].settings \in Settings
           /\ d.targets # <<>> <=> Len(d.targets) # 0
           /\ d.webhook \in Webhooks /\ d.readable \in BOOLEAN
<1>1. d.targets \in Seq([name : STRING, settings : Settings])
    BY DEF IsDocument
<1>2. d.webhook \in Webhooks /\ d.readable \in BOOLEAN
    BY DEF IsDocument
<1>3. \A k \in 1 .. Len(d.targets) : d.targets[k] \in [name : STRING, settings : Settings]
    <2> DEFINE S == [name : STRING, settings : Settings]
    <2>1. d.targets \in Seq(S)
        BY <1>1
    <2> HIDE DEF S
    <2>2. \A k \in 1 .. Len(d.targets) : d.targets[k] \in S
        BY <2>1
    <2> QED BY <2>2 DEF S
<1>4. ASSUME NEW x \in [name : STRING, settings : Settings]
      PROVE  x.name \in STRING /\ x.settings \in Settings
    OBVIOUS
<1>5. d.targets # <<>> <=> Len(d.targets) # 0
    BY <1>1
<1>6. DOMAIN d.targets = 1 .. Len(d.targets) /\ Len(d.targets) \in Nat
    BY <1>1
<1> QED BY <1>1, <1>2, <1>3, <1>4, <1>5, <1>6

\* Where Valid fails: at a module, at a target, or at two names.
LEMMA InvalidModule ==
    ASSUME NEW m \in DOMAIN doc.modules, ~ModuleAccepted(doc.modules[m])
    PROVE  ~Valid(doc)
BY DEF Valid

LEMMA InvalidTarget ==
    ASSUME Shape, NEW k \in 1 .. Len(doc.targets), ~Accepted(Given(k))
    PROVE  ~Valid(doc)
BY DocumentFields DEF Valid, Given, Shape

LEMMA InvalidNames ==
    ASSUME Shape, NEW k \in 1 .. Len(doc.targets), NEW l \in 1 .. Len(doc.targets), k # l,
           doc.targets[k].name = doc.targets[l].name
    PROVE  ~Valid(doc)
BY DocumentFields DEF Valid, Shape

LEMMA WalkInit ==
    ASSUME LoadInit
    PROVE  Walk
<1>1. IsDocument(doc) /\ cfg = doc /\ at = "read" /\ unchecked = {} /\ index = 1 /\ seenNames = <<>>
    BY DocumentsAssumption DEF LoadInit
<1>2. Len(doc.targets) \in Nat
    BY <1>1, DocumentFields
<1>3. Shape
    BY <1>1, <1>2 DEF Shape
<1>4. Whole /\ Targets /\ Distinct /\ Refusals
    BY <1>1 DEF Whole, Targets, Distinct, Refusals, StageNames
<1> QED BY <1>3, <1>4 DEF Walk

\* An early return.
LEMMA RefuseWalk ==
    ASSUME Walk, Refuse, ~Valid(doc)
    PROVE  Walk'
<1>1. at' = "refused" /\ UNCHANGED <<doc, cfg, unchecked, index, seenNames>>
    BY DEF Refuse
<1>2. Shape'
    BY <1>1 DEF Walk, Shape
<1>3. Whole' /\ Targets' /\ Distinct'
    BY <1>1 DEF Whole, Targets, Distinct, StageNames
<1>4. Refusals'
    <2>1. Valid(doc)' = Valid(doc)
        BY <1>1 DEF Valid
    <2> QED BY <2>1 DEF Refusals
<1> QED BY <1>2, <1>3, <1>4 DEF Walk

LEMMA ReadWalk ==
    ASSUME Walk, Read
    PROVE  Walk'
<1>1. at = "read" /\ cfg.readable = doc.readable
    BY DEF Read, Walk, Shape
<1>2. CASE ~cfg.readable
    BY <1>1, <1>2, RefuseWalk DEF Read, Valid
<1>3. CASE cfg.readable
    <2>1. at' = "general" /\ UNCHANGED <<doc, cfg, unchecked, index, seenNames>>
        BY <1>3 DEF Read
    <2>2. Shape'
        BY <2>1 DEF Walk, Shape
    <2>3. Whole'
        BY <1>1, <1>3, <2>1 DEF Whole, StageNames
    <2>4. Targets' /\ Distinct' /\ Refusals'
        BY <1>1, <2>1 DEF Walk, Targets, Distinct, Refusals, StageNames
    <2> QED BY <2>2, <2>3, <2>4 DEF Walk
<1> QED BY <1>2, <1>3

\* The defaults of listen_addr and of the webhook's threshold.
LEMMA GeneralDefaults ==
    ASSUME IsDocument(cfg)
    PROVE  LET c == WithDefaults(cfg)
           IN  /\ IsDocument(c)
               /\ c.targets = cfg.targets /\ c.modules = cfg.modules /\ c.readable = cfg.readable
               /\ c.webhook.url = cfg.webhook.url /\ c.webhook.given = cfg.webhook.given
               /\ c.webhook.given => c.webhook.threshold > 0
<1> DEFINE threshold == IF cfg.webhook.given /\ cfg.webhook.threshold <= 0 THEN 3
                        ELSE cfg.webhook.threshold
           c == WithDefaults(cfg)
<1>1. c = [cfg EXCEPT !.listen = TRUE, !.webhook.threshold = threshold]
    BY DEF WithDefaults
<1>2. cfg.webhook \in Webhooks /\ cfg.webhook.threshold \in Int
    BY DEF IsDocument, Webhooks
<1>3. threshold \in Int /\ (cfg.webhook.given => threshold > 0)
    <2>1. CASE cfg.webhook.given /\ cfg.webhook.threshold <= 0
        <3>1. threshold = 3
            BY <2>1
        <3> QED BY <3>1
    <2>2. CASE ~(cfg.webhook.given /\ cfg.webhook.threshold <= 0)
        <3>1. threshold = cfg.webhook.threshold
            BY <2>2
        <3>2. cfg.webhook.threshold <= 0 \/ cfg.webhook.threshold > 0
            BY <1>2
        <3> QED BY <1>2, <2>2, <3>1, <3>2, Zenon
    <2> QED BY <2>1, <2>2
<1> HIDE DEF threshold, c
<1>4. /\ c.targets = cfg.targets /\ c.modules = cfg.modules /\ c.readable = cfg.readable
      /\ c.webhook.url = cfg.webhook.url /\ c.webhook.given = cfg.webhook.given
      /\ c.webhook.threshold = threshold
    BY <1>1, <1>2 DEF IsDocument, Webhooks
<1>5. IsDocument(c)
    <2>1. c \in [readable : BOOLEAN, listen : BOOLEAN, webhook : Webhooks, modules : {cfg.modules},
                 targets : Seq([name : STRING, settings : Settings])]
        BY <1>1, <1>2, <1>3 DEF IsDocument, Webhooks
    <2> QED BY <1>4, <2>1 DEF IsDocument
<1> QED BY <1>3, <1>4, <1>5 DEF c

LEMMA GeneralWalk ==
    ASSUME Walk, General
    PROVE  Walk'
<1>1. at = "general" /\ cfg.targets = doc.targets /\ cfg.modules = doc.modules
      /\ index = 1 /\ seenNames = <<>> /\ doc.readable /\ IsDocument(cfg)
      /\ cfg.webhook.given = doc.webhook.given /\ cfg.webhook.url = doc.webhook.url
    BY DEF General, Walk, Shape, Targets, Whole
<1>2. CASE \/ cfg.webhook.given /\ ~cfg.webhook.url
           \/ cfg.targets = <<>> /\ DOMAIN cfg.modules = {}
    <2>1. Refuse
        BY <1>2 DEF General
    <2>2. ~Valid(doc)
        BY <1>1, <1>2 DEF Valid
    <2> QED BY <2>1, <2>2, RefuseWalk
<1>3. CASE ~(\/ cfg.webhook.given /\ ~cfg.webhook.url
             \/ cfg.targets = <<>> /\ DOMAIN cfg.modules = {})
    <2>1. /\ cfg' = WithDefaults(cfg) /\ unchecked' = DOMAIN cfg.modules /\ at' = "modules"
          /\ UNCHANGED <<doc, index, seenNames>>
        BY <1>3 DEF General
    <2>2. /\ IsDocument(cfg') /\ cfg'.targets = cfg.targets /\ cfg'.modules = cfg.modules
          /\ cfg'.readable = cfg.readable /\ cfg'.webhook.url = cfg.webhook.url
          /\ cfg'.webhook.given = cfg.webhook.given
          /\ cfg'.webhook.given => cfg'.webhook.threshold > 0
        BY <1>1, <2>1, GeneralDefaults
    <2>3. Shape'
        BY <1>1, <2>1, <2>2 DEF Walk, Shape
    <2>4. Whole'
        BY <1>1, <1>3, <2>1, <2>2 DEF Whole, StageNames
    <2>5. Targets' /\ Distinct' /\ Refusals'
        BY <1>1, <2>1, <2>2 DEF Targets, Distinct, Refusals, StageNames
    <2> QED BY <2>3, <2>4, <2>5 DEF Walk
<1> QED BY <1>2, <1>3

LEMMA CheckModuleWalk ==
    ASSUME Walk, NEW m \in unchecked, CheckModule(m)
    PROVE  Walk'
<1>1. at = "modules" /\ cfg.modules = doc.modules /\ m \in DOMAIN doc.modules
    BY DEF CheckModule, Walk, Shape
<1>2. CASE ~ModuleAccepted(cfg.modules[m])
    <2>1. Refuse
        BY <1>2 DEF CheckModule
    <2> QED BY <1>1, <1>2, <2>1, InvalidModule, RefuseWalk
<1>3. CASE ModuleAccepted(cfg.modules[m])
    <2>1. unchecked' = unchecked \ {m} /\ UNCHANGED <<doc, cfg, at, index, seenNames>>
        BY <1>3 DEF CheckModule
    <2>2. Shape'
        BY <2>1 DEF Walk, Shape
    <2>3. Whole'
        BY <1>1, <1>3, <2>1 DEF Walk, Whole, StageNames
    <2>4. Targets' /\ Distinct' /\ Refusals'
        BY <1>1, <2>1 DEF Walk, Targets, Distinct, Refusals, StageNames
    <2> QED BY <2>2, <2>3, <2>4 DEF Walk
<1> QED BY <1>2, <1>3

-----------------------------------------------------------------------------
(* The loop over the targets.                                              *)

\* Visit(1) and Visit(index + 1): all targets before the one visited are done.
LEMMA VisitWalk ==
    ASSUME Walk, NEW k \in 1 .. Len(doc.targets) + 1, Visit(k),
           UNCHANGED <<doc, cfg, unchecked, seenNames>>,
           at \in {"modules"} \cup StageNames,
           \A m \in DOMAIN doc.modules : ModuleAccepted(doc.modules[m]),
           \A l \in 1 .. Len(doc.targets) :
              /\ l < k => Accepted(Given(l)) /\ Now(l) = Loaded(Given(l))
              /\ l >= k => Now(l) = Given(l),
           /\ seenNames \in Seq(STRING) /\ Len(seenNames) = k - 1
           /\ \A l \in 1 .. Len(seenNames) : seenNames[l] = doc.targets[l].name
           /\ \A l, m \in 1 .. Len(seenNames) : l # m => doc.targets[l].name # doc.targets[m].name
    PROVE  Walk'
<1>0. Len(doc.targets) \in Nat /\ Len(cfg.targets) = Len(doc.targets)
    BY DocumentFields DEF Walk, Shape
<1>1. /\ index' = k /\ at' = IF k > Len(doc.targets) THEN "loaded" ELSE "required"
      /\ UNCHANGED <<doc, cfg, unchecked, seenNames>>
    BY <1>0 DEF Visit
<1>2. at' \in {"loaded", "required"}
    BY <1>1
<1>3. Shape'
    BY <1>0, <1>1, <1>2 DEF Walk, Shape, StageNames
<1>4. Whole'
    BY <1>1, <1>2 DEF Walk, Whole, StageNames
<1>5. Targets'
    <2>1. \A l \in 1 .. Len(doc.targets) :
              /\ l < k => Accepted(Given(l))' /\ (Now(l) = Loaded(Given(l)))'
              /\ l > k => (Now(l) = Given(l))'
        BY <1>0, <1>1 DEF Given, Now
    <2>2. CASE k > Len(doc.targets)
        <3>1. at' = "loaded" /\ k = Len(doc.targets) + 1
            BY <1>0, <1>1, <2>2
        <3> QED BY <1>1, <2>1, <3>1 DEF Targets, StageNames
    <2>3. CASE ~(k > Len(doc.targets))
        <3>1. at' = "required" /\ k <= Len(doc.targets) /\ k \in 1 .. Len(doc.targets) /\ k >= k
            BY <1>0, <1>1, <2>3
        <3>2. Now(k) = Given(k)
            BY <3>1
        <3>3. (Checked(at, Given(index)) /\ Now(index) = Arrives(at, Given(index)))'
            BY <1>1, <3>1, <3>2 DEF Checked, Arrives, Given, Now
        <3> QED BY <1>1, <2>1, <3>1, <3>3 DEF Targets, StageNames
    <2> QED BY <2>2, <2>3
<1>6. Distinct'
    BY <1>1, <1>2 DEF Distinct
<1>7. Refusals'
    BY <1>2 DEF Refusals
<1> QED BY <1>3, <1>4, <1>5, <1>6, <1>7 DEF Walk

LEMMA ModulesCheckedWalk ==
    ASSUME Walk, ModulesChecked
    PROVE  Walk'
<1>1. at = "modules" /\ unchecked = {} /\ Visit(1) /\ UNCHANGED <<doc, cfg, unchecked, seenNames>>
    BY DEF ModulesChecked
<1>2. cfg.targets = doc.targets /\ seenNames = <<>>
    BY <1>1 DEF Walk, Targets
<1>3. Len(doc.targets) \in Nat
    BY DocumentFields DEF Walk, Shape
<1>4. \A m \in DOMAIN doc.modules : ModuleAccepted(doc.modules[m])
    BY <1>1 DEF Walk, Whole
<1>5. \A l \in 1 .. Len(doc.targets) : ~(l < 1) /\ Now(l) = Given(l)
    BY <1>2, <1>3 DEF Now, Given
<1>6. seenNames \in Seq(STRING) /\ Len(seenNames) = 1 - 1
    BY <1>2
<1>7. 1 .. Len(seenNames) = {}
    BY <1>6
<1>8. 1 \in 1 .. Len(doc.targets) + 1
    BY <1>3
<1> QED BY <1>1, <1>4, <1>5, <1>6, <1>7, <1>8, VisitWalk

\* The target at hand, in the middle of its stages.
LEMMA AtHand ==
    ASSUME Walk, at \in StageNames
    PROVE  /\ index \in 1 .. Len(doc.targets) /\ index \in DOMAIN cfg.targets
           /\ Len(doc.targets) \in Nat /\ Len(cfg.targets) = Len(doc.targets)
           /\ current = Now(index) /\ current \in Settings /\ Given(index) \in Settings
           /\ current = Arrives(at, Given(index)) /\ Checked(at, Given(index))
<1>1. IsDocument(doc) /\ IsDocument(cfg) /\ Len(cfg.targets) = Len(doc.targets)
      /\ index \in 1 .. Len(doc.targets) + 1 /\ index <= Len(doc.targets)
    BY DEF Walk, Shape, Targets
<1>2. Len(doc.targets) \in Nat /\ DOMAIN cfg.targets = 1 .. Len(cfg.targets)
    BY <1>1, DocumentFields
<1>3. index \in 1 .. Len(doc.targets) /\ index \in DOMAIN cfg.targets
    BY <1>1, <1>2
<1>4. current \in Settings /\ Given(index) \in Settings
    BY <1>1, <1>3, DocumentFields DEF Given, current
<1>5. current = Now(index)
    BY DEF current, Now
<1> QED BY <1>1, <1>2, <1>3, <1>4, <1>5 DEF Walk, Targets

\* A stage fails for a target that is not accepted.
LEMMA StageFails ==
    ASSUME Walk, at \in StageNames, Refuse, ~Accepted(Given(index))
    PROVE  Walk'
<1>1. ~Valid(doc)
    BY AtHand, InvalidTarget DEF Walk
<1> QED BY <1>1, RefuseWalk

\* What a stage writes, and what it leaves.
LEMMA StageWrites ==
    ASSUME Walk, at \in StageNames, NEW s \in Settings,
           cfg' = [cfg EXCEPT !.targets[index].settings = s]
    PROVE  /\ IsDocument(cfg') /\ cfg'.readable = cfg.readable /\ cfg'.webhook = cfg.webhook
           /\ cfg'.modules = cfg.modules /\ Len(cfg'.targets) = Len(cfg.targets)
           /\ cfg'.targets[index].settings = s
           /\ cfg'.targets[index].name = cfg.targets[index].name
           /\ \A k \in 1 .. Len(doc.targets) : k # index => cfg'.targets[k] = cfg.targets[k]
<1> DEFINE S == [name : STRING, settings : Settings]
           x == [cfg.targets[index] EXCEPT !.settings = s]
<1>1. IsDocument(cfg) /\ cfg.targets \in Seq(S) /\ index \in DOMAIN cfg.targets
      /\ DOMAIN cfg.targets = 1 .. Len(cfg.targets) /\ Len(cfg.targets) = Len(doc.targets)
    BY AtHand, DocumentFields DEF Walk, Shape
<1>2. cfg.targets[index] \in S
    <2> HIDE DEF S
    <2> QED BY <1>1
<1>3. x \in S /\ x.settings = s /\ x.name = cfg.targets[index].name
    BY <1>2
<1>4. cfg' = [cfg EXCEPT !.targets = [cfg.targets EXCEPT ![index] = x]]
    OBVIOUS
<1> HIDE DEF S, x
<1>5. /\ [cfg.targets EXCEPT ![index] = x] \in Seq(S)
      /\ Len([cfg.targets EXCEPT ![index] = x]) = Len(cfg.targets)
      /\ [cfg.targets EXCEPT ![index] = x][index] = x
      /\ \A k \in 1 .. Len(doc.targets) : k # index => [cfg.targets EXCEPT ![index] = x][k] = cfg.targets[k]
    BY <1>1, <1>3
<1>6. /\ cfg'.readable = cfg.readable /\ cfg'.webhook = cfg.webhook /\ cfg'.modules = cfg.modules
      /\ cfg'.targets = [cfg.targets EXCEPT ![index] = x]
    BY <1>1, <1>4 DEF IsDocument
<1>7. IsDocument(cfg')
    <2>1. cfg' \in [readable : BOOLEAN, listen : BOOLEAN, webhook : Webhooks, modules : {cfg.modules},
                    targets : Seq(S)]
        BY <1>1, <1>4, <1>5 DEF IsDocument
    <2> QED BY <1>1, <1>6, <2>1 DEF IsDocument, S
<1> QED BY <1>3, <1>5, <1>6, <1>7

\* A stage is passed: the target arrives at the next one.
LEMMA StagePasses ==
    ASSUME Walk, at \in StageNames \ {"required", "regex"},
           NEW next \in StageNames \ {"required"}, at' = next,
           NEW s \in Settings, cfg' = [cfg EXCEPT !.targets[index].settings = s],
           UNCHANGED <<doc, unchecked, index, seenNames>>,
           Checked(next, Given(index)), s = Arrives(next, Given(index))
    PROVE  Walk'
<1>0. index \in 1 .. Len(doc.targets) /\ Len(doc.targets) \in Nat /\ at \in StageNames
    BY AtHand
<1>1. /\ IsDocument(cfg') /\ cfg'.readable = cfg.readable /\ cfg'.webhook = cfg.webhook
      /\ cfg'.modules = cfg.modules /\ Len(cfg'.targets) = Len(cfg.targets)
      /\ cfg'.targets[index].settings = s
      /\ cfg'.targets[index].name = cfg.targets[index].name
      /\ \A k \in 1 .. Len(doc.targets) : k # index => cfg'.targets[k] = cfg.targets[k]
    BY <1>0, StageWrites
<1>2. Shape'
    <2>1. \A k \in 1 .. Len(doc.targets) : cfg'.targets[k].name = doc.targets[k].name
        BY <1>1 DEF Walk, Shape
    <2> QED BY <1>1, <2>1 DEF Walk, Shape
<1>3. Whole'
    BY <1>0, <1>1 DEF Walk, Whole, StageNames
<1>4. Targets'
    <2>1. Now(index)' = Arrives(next, Given(index))'
        BY <1>1 DEF Now, Arrives, Given
    <2>2. Checked(next, Given(index))'
        BY DEF Checked, Given
    <2>3. \A k \in 1 .. Len(doc.targets) :
              /\ k < index => Accepted(Given(k))' /\ (Now(k) = Loaded(Given(k)))'
              /\ k > index => (Now(k) = Given(k))'
        <3> SUFFICES ASSUME NEW k \in 1 .. Len(doc.targets)
                     PROVE  /\ k < index => Accepted(Given(k))' /\ (Now(k) = Loaded(Given(k)))'
                            /\ k > index => (Now(k) = Given(k))'
            OBVIOUS
        <3>1. CASE k = index
            BY <1>0, <3>1
        <3>2. CASE k # index
            <4>1. Now(k)' = Now(k) /\ Given(k)' = Given(k)
                BY <1>1, <3>2 DEF Now, Given
            <4>2. Accepted(Given(k))' <=> Accepted(Given(k))
                BY DEF Given
            <4>3. (Now(k) = Loaded(Given(k)))' <=> Now(k) = Loaded(Given(k))
                BY <4>1 DEF Given
            <4> QED BY <1>0, <4>1, <4>2, <4>3 DEF Walk, Targets
        <3> QED BY <3>1, <3>2
    <2> QED BY <1>0, <2>1, <2>2, <2>3 DEF Walk, Targets, StageNames
<1>5. Distinct'
    BY <1>0 DEF Walk, Distinct, StageNames
<1>6. Refusals'
    BY DEF Refusals, StageNames
<1> QED BY <1>2, <1>3, <1>4, <1>5, <1>6 DEF Walk

\* name, duplicates, endpoint, model: a target that passes leaves its name.
LEMMA RequiredWalk ==
    ASSUME Walk, Required
    PROVE  Walk'
<1>1. at = "required" /\ at \in StageNames
    BY DEF Required, StageNames
<1>2. /\ index \in 1 .. Len(doc.targets) /\ Len(doc.targets) \in Nat /\ current = Given(index)
      /\ Given(index) \in Settings /\ current = Now(index)
      /\ cfg.targets[index].name = doc.targets[index].name /\ doc.targets[index].name \in STRING
    BY <1>1, AtHand, DocumentFields DEF Arrives, Walk, Shape
<1>3. /\ seenNames \in Seq(STRING) /\ Len(seenNames) = index - 1
      /\ \A k \in 1 .. Len(seenNames) : seenNames[k] = doc.targets[k].name
      /\ \A k, l \in 1 .. Len(seenNames) : k # l => doc.targets[k].name # doc.targets[l].name
    BY <1>1 DEF Walk, Distinct
<1> DEFINE new == cfg.targets[index].name \notin ToSet(seenNames)
<1>4. new <=> \A k \in 1 .. index - 1 : doc.targets[k].name # doc.targets[index].name
    BY <1>2, <1>3 DEF ToSet
<1> HIDE DEF new
<1>5. CASE ~(PassesRequired(current) /\ new)
    <2>1. Refuse
        BY <1>5 DEF Required, PassesRequired, new
    <2>2. CASE ~PassesRequired(current)
        <3>1. ~Accepted(Given(index))
            BY <1>2, <2>2, Zenon DEF Accepted, PassesRequired
        <3> QED BY <1>1, <2>1, <3>1, StageFails
    <2>3. CASE ~new
        <3>1. PICK k \in 1 .. index - 1 : doc.targets[k].name = doc.targets[index].name
            BY <1>4, <2>3
        <3>2. k \in 1 .. Len(doc.targets) /\ k # index
            BY <1>2, <3>1
        <3> QED BY <1>2, <2>1, <3>1, <3>2, InvalidNames, RefuseWalk DEF Walk
    <2> QED BY <1>5, <2>2, <2>3
<1>6. CASE PassesRequired(current) /\ new
    <2>1. /\ seenNames' = Append(seenNames, cfg.targets[index].name) /\ at' = "defaults"
          /\ UNCHANGED <<doc, cfg, unchecked, index>>
        BY <1>6 DEF Required, PassesRequired, new
    <2>2. Shape'
        BY <2>1 DEF Walk, Shape, StageNames
    <2>3. Whole'
        BY <1>1, <2>1 DEF Walk, Whole, StageNames
    <2>4. Targets'
        <3>1. (Checked(at, Given(index)) /\ Now(index) = Arrives(at, Given(index)))'
            BY <1>2, <1>6, <2>1 DEF Checked, Arrives, Given, Now
        <3>2. index' <= Len(doc'.targets)
            BY <1>2, <2>1
        <3>3. \A k \in 1 .. Len(doc'.targets) :
                 /\ k < index' => Accepted(Given(k))' /\ (Now(k) = Loaded(Given(k)))'
                 /\ k > index' => (Now(k) = Given(k))'
            BY <1>1, <2>1 DEF Walk, Targets, Given, Now
        <3> QED BY <2>1, <3>1, <3>2, <3>3 DEF Targets, StageNames
    <2>5. Distinct'
        <3>1. seenNames' \in Seq(STRING) /\ Len(seenNames') = index
            BY <1>2, <1>3, <2>1
        <3>2. \A k \in 1 .. index : seenNames'[k] = doc.targets[k].name
            BY <1>2, <1>3, <2>1
        <3>3. \A k, l \in 1 .. index : k # l => doc.targets[k].name # doc.targets[l].name
            BY <1>2, <1>3, <1>4, <1>6
        <3> QED BY <2>1, <3>1, <3>2, <3>3 DEF Distinct
    <2>6. Refusals'
        BY <2>1 DEF Refusals
    <2> QED BY <2>2, <2>3, <2>4, <2>5, <2>6 DEF Walk
<1> QED BY <1>5, <1>6

\* Which stage follows which.
LEMMA StageOrder ==
    /\ Stages[1 + CHOOSE k \in DOMAIN Stages : Stages[k] = "defaults"] = "numeric"
    /\ Stages[1 + CHOOSE k \in DOMAIN Stages : Stages[k] = "numeric"]  = "light"
    /\ Stages[1 + CHOOSE k \in DOMAIN Stages : Stages[k] = "light"]    = "adaptive"
    /\ Stages[1 + CHOOSE k \in DOMAIN Stages : Stages[k] = "adaptive"] = "regex"
<1>1. /\ DOMAIN Stages = 1 .. 6
      /\ Stages[1] = "required" /\ Stages[2] = "defaults" /\ Stages[3] = "numeric"
      /\ Stages[4] = "light" /\ Stages[5] = "adaptive" /\ Stages[6] = "regex"
    BY DEF Stages
<1>2. \A k \in DOMAIN Stages : k = 1 \/ k = 2 \/ k = 3 \/ k = 4 \/ k = 5 \/ k = 6
    BY <1>1
<1>3. /\ (CHOOSE k \in DOMAIN Stages : Stages[k] = "defaults") = 2
      /\ (CHOOSE k \in DOMAIN Stages : Stages[k] = "numeric") = 3
      /\ (CHOOSE k \in DOMAIN Stages : Stages[k] = "light") = 4
      /\ (CHOOSE k \in DOMAIN Stages : Stages[k] = "adaptive") = 5
    BY <1>1, <1>2
<1> QED BY <1>1, <1>3

LEMMA DefaultsWalk ==
    ASSUME Walk, Defaults
    PROVE  Walk'
<1>1. at = "defaults" /\ at \in StageNames
    BY DEF Defaults, Stage, StageNames
<1>2. current = Given(index) /\ Given(index) \in Settings /\ Checked("defaults", Given(index))
    BY <1>1, AtHand DEF Arrives
<1>3. /\ cfg' = [cfg EXCEPT !.targets[index].settings = Defaulted(current)] /\ at' = "numeric"
      /\ UNCHANGED <<doc, unchecked, index, seenNames>>
    BY StageOrder DEF Defaults, Stage, Defaulted
<1>4. Defaulted(current) \in Settings /\ Defaulted(current) = Arrives("numeric", Given(index))
      /\ Checked("numeric", Given(index))
    BY <1>2, StageTypes DEF Arrives, Checked
<1> QED BY <1>1, <1>3, <1>4, StagePasses DEF StageNames

LEMMA NumericWalk ==
    ASSUME Walk, Numeric
    PROVE  Walk'
<1>1. at = "numeric" /\ at \in StageNames
    BY DEF Numeric, Stage, StageNames
<1>2. /\ current = Defaulted(Given(index)) /\ current \in Settings /\ Given(index) \in Settings
      /\ Checked("numeric", Given(index))
    BY <1>1, AtHand DEF Arrives
<1>3. CASE ~PassesNumeric(current)
    <2>1. Refuse
        BY <1>3 DEF Numeric, Stage, PassesNumeric
    <2>2. ~Accepted(Given(index))
        BY <1>2, <1>3, AcceptedInStages DEF Checked
    <2> QED BY <1>1, <2>1, <2>2, StageFails
<1>4. CASE PassesNumeric(current)
    <2>1. /\ cfg' = [cfg EXCEPT !.targets[index].settings = current] /\ at' = "light"
          /\ UNCHANGED <<doc, unchecked, index, seenNames>>
        BY <1>4, StageOrder DEF Numeric, Stage, PassesNumeric
    <2>2. current = Arrives("light", Given(index)) /\ Checked("light", Given(index))
        BY <1>2, <1>4 DEF Arrives, Checked
    <2> QED BY <1>1, <1>2, <2>1, <2>2, StagePasses DEF StageNames
<1> QED BY <1>3, <1>4

LEMMA LightModeWalk ==
    ASSUME Walk, LightMode
    PROVE  Walk'
<1>1. at = "light" /\ at \in StageNames
    BY DEF LightMode, Stage, StageNames
<1>2. /\ current = Defaulted(Given(index)) /\ current \in Settings /\ Given(index) \in Settings
      /\ Checked("light", Given(index))
    BY <1>1, AtHand DEF Arrives
<1>3. CASE ~PassesLight(current)
    <2>1. Refuse
        BY <1>3 DEF LightMode, Stage, PassesLight
    <2>2. ~Accepted(Given(index))
        BY <1>2, <1>3, AcceptedInStages DEF Checked
    <2> QED BY <1>1, <2>1, <2>2, StageFails
<1>4. CASE PassesLight(current)
    <2>1. /\ cfg' = [cfg EXCEPT !.targets[index].settings = Lightened(current)] /\ at' = "adaptive"
          /\ UNCHANGED <<doc, unchecked, index, seenNames>>
        BY <1>4, StageOrder DEF LightMode, Stage, PassesLight, Lightened
    <2>2. Lightened(current) \in Settings /\ Lightened(current) = Arrives("adaptive", Given(index))
          /\ Checked("adaptive", Given(index))
        BY <1>2, <1>4, StageTypes DEF Arrives, Checked
    <2> QED BY <1>1, <2>1, <2>2, StagePasses DEF StageNames
<1> QED BY <1>3, <1>4

LEMMA AdaptiveWalk ==
    ASSUME Walk, Adaptive
    PROVE  Walk'
<1>1. at = "adaptive" /\ at \in StageNames
    BY DEF Adaptive, Stage, StageNames
<1>2. /\ current = Lightened(Defaulted(Given(index))) /\ current \in Settings
      /\ Given(index) \in Settings /\ Checked("adaptive", Given(index))
    BY <1>1, AtHand DEF Arrives
<1>3. CASE ~PassesAdaptive(current)
    <2>1. Refuse
        BY <1>3 DEF Adaptive, Stage, PassesAdaptive, Adapted
    <2>2. ~Accepted(Given(index))
        BY <1>2, <1>3, AcceptedInStages DEF Checked
    <2> QED BY <1>1, <2>1, <2>2, StageFails
<1>4. CASE PassesAdaptive(current)
    <2>1. /\ cfg' = [cfg EXCEPT !.targets[index].settings = Adapted(current)] /\ at' = "regex"
          /\ UNCHANGED <<doc, unchecked, index, seenNames>>
        BY <1>4, StageOrder DEF Adaptive, Stage, PassesAdaptive, Adapted
    <2>2. Adapted(current) \in Settings /\ Adapted(current) = Arrives("regex", Given(index))
          /\ Checked("regex", Given(index))
        BY <1>2, <1>4, StageTypes, StagesTogether DEF Arrives, Checked
    <2> QED BY <1>1, <2>1, <2>2, StagePasses DEF StageNames
<1> QED BY <1>3, <1>4

\* expect_pattern: the last check of a target, which is done with it.
LEMMA RegexWalk ==
    ASSUME Walk, Regex
    PROVE  Walk'
<1>1. at = "regex" /\ at \in StageNames
    BY DEF Regex, StageNames
<1>2. /\ index \in 1 .. Len(doc.targets) /\ Len(doc.targets) \in Nat
      /\ current = Loaded(Given(index)) /\ current = Now(index)
      /\ Given(index) \in Settings /\ Checked("regex", Given(index))
    BY <1>1, AtHand DEF Arrives
<1>3. current.compiles = Given(index).compiles
    BY <1>2, DefaultsNeutral
<1>4. CASE ~current.compiles
    <2>1. Refuse
        BY <1>4 DEF Regex
    <2>2. ~Accepted(Given(index))
        BY <1>2, <1>3, <1>4, AcceptedInStages
    <2> QED BY <1>1, <2>1, <2>2, StageFails
<1>5. CASE current.compiles
    <2>1. Visit(index + 1) /\ UNCHANGED <<doc, cfg, unchecked, seenNames>>
        BY <1>5 DEF Regex
    <2>2. Accepted(Given(index)) /\ Now(index) = Loaded(Given(index))
        BY <1>2, <1>3, <1>5, AcceptedInStages
    <2>3. \A l \in 1 .. Len(doc.targets) :
              /\ l < index + 1 => Accepted(Given(l)) /\ Now(l) = Loaded(Given(l))
              /\ l >= index + 1 => Now(l) = Given(l)
        <3> SUFFICES ASSUME NEW l \in 1 .. Len(doc.targets)
                     PROVE  /\ l < index + 1 => Accepted(Given(l)) /\ Now(l) = Loaded(Given(l))
                            /\ l >= index + 1 => Now(l) = Given(l)
            OBVIOUS
        <3>1. /\ l < index => Accepted(Given(l)) /\ Now(l) = Loaded(Given(l))
              /\ l > index => Now(l) = Given(l)
            BY <1>1 DEF Walk, Targets
        <3>2. /\ l < index + 1 => l < index \/ l = index
              /\ l >= index + 1 => l > index
            BY <1>2
        <3> QED BY <2>2, <3>1, <3>2, Zenon
    <2>4. /\ seenNames \in Seq(STRING) /\ Len(seenNames) = (index + 1) - 1
          /\ \A l \in 1 .. Len(seenNames) : seenNames[l] = doc.targets[l].name
          /\ \A l, m \in 1 .. Len(seenNames) : l # m => doc.targets[l].name # doc.targets[m].name
        BY <1>1, <1>2 DEF Walk, Distinct
    <2>5. \A m \in DOMAIN doc.modules : ModuleAccepted(doc.modules[m])
        BY <1>1 DEF Walk, Whole
    <2>6. index + 1 \in 1 .. Len(doc.targets) + 1
        BY <1>2
    <2> QED BY <1>1, <2>1, <2>3, <2>4, <2>5, <2>6, VisitWalk
<1> QED BY <1>4, <1>5

LEMMA WalkNext ==
    ASSUME Walk, [LoadNext]_loadVars
    PROVE  Walk'
<1>1. CASE UNCHANGED loadVars
    <2>1. Shape'
        BY <1>1 DEF loadVars, Walk, Shape
    <2>2. Whole' /\ Distinct'
        BY <1>1 DEF loadVars, Walk, Whole, Distinct
    <2>3. Targets'
        BY <1>1 DEF loadVars, Walk, Targets, Checked, Arrives, Given, Now
    <2>4. Refusals'
        BY <1>1 DEF loadVars, Walk, Refusals, Valid
    <2> QED BY <2>1, <2>2, <2>3, <2>4 DEF Walk
<1>2. CASE LoadNext
    BY <1>2, ReadWalk, GeneralWalk, CheckModuleWalk, ModulesCheckedWalk, RequiredWalk,
       DefaultsWalk, NumericWalk, LightModeWalk, AdaptiveWalk, RegexWalk
       DEF LoadNext, CheckTarget
<1> QED BY <1>1, <1>2

LEMMA LoadWalks == LoadSpec => []Walk
BY WalkInit, WalkNext, PTL DEF LoadSpec

LEMMA StagesNamed == ToSet(Stages) = StageNames
<1>1. /\ DOMAIN Stages = 1 .. 6
      /\ Stages[1] = "required" /\ Stages[2] = "defaults" /\ Stages[3] = "numeric"
      /\ Stages[4] = "light" /\ Stages[5] = "adaptive" /\ Stages[6] = "regex"
    BY DEF Stages
<1>2. \A k \in DOMAIN Stages : k = 1 \/ k = 2 \/ k = 3 \/ k = 4 \/ k = 5 \/ k = 6
    BY <1>1
<1>3. /\ 1 \in DOMAIN Stages /\ 2 \in DOMAIN Stages /\ 3 \in DOMAIN Stages
      /\ 4 \in DOMAIN Stages /\ 5 \in DOMAIN Stages /\ 6 \in DOMAIN Stages
    BY <1>1
<1> QED BY <1>1, <1>2, <1>3 DEF ToSet, StageNames

LEMMA WalkTyped ==
    ASSUME Walk
    PROVE  LoadTypeOK
<1>1. at \in Checks
    BY StagesNamed DEF Walk, Shape, Checks
<1>2. at \in ToSet(Stages) => Len(seenNames) = IF at = "required" THEN index - 1 ELSE index
    BY StagesNamed DEF Walk, Distinct, StageNames
<1> QED BY <1>1, <1>2 DEF Walk, Shape, LoadTypeOK

LEMMA WalkExact ==
    ASSUME Walk
    PROVE  LoadsExactly
<1>1. at = "refused" => ~Valid(doc)
    BY DEF Walk, Refusals
<1>2. ASSUME at = "loaded"
      PROVE  /\ Valid(doc) /\ cfg.modules = doc.modules
             /\ \A k \in DOMAIN doc.targets :
                   cfg.targets[k].settings = Loaded(doc.targets[k].settings)
    <2>1. /\ doc.readable /\ (doc.webhook.given => doc.webhook.url)
          /\ doc.targets # <<>> \/ DOMAIN doc.modules # {}
          /\ \A m \in DOMAIN doc.modules : ModuleAccepted(doc.modules[m])
        BY <1>2 DEF Walk, Whole
    <2>2. Len(doc.targets) \in Nat /\ DOMAIN doc.targets = 1 .. Len(doc.targets)
        BY DocumentFields DEF Walk, Shape
    <2>3. \A k \in 1 .. Len(doc.targets) : Accepted(Given(k)) /\ Now(k) = Loaded(Given(k))
        <3>1. index = Len(doc.targets) + 1
            BY <1>2 DEF Walk, Targets
        <3>2. \A k \in 1 .. Len(doc.targets) : k < index
            BY <2>2, <3>1
        <3> QED BY <1>2, <3>2 DEF Walk, Targets
    <2>4. \A k, l \in 1 .. Len(doc.targets) : k # l => doc.targets[k].name # doc.targets[l].name
        <3>1. Len(seenNames) = Len(doc.targets)
            BY <1>2, <2>2 DEF Walk, Targets, Distinct
        <3> QED BY <1>2, <3>1 DEF Walk, Distinct
    <2> QED BY <2>1, <2>2, <2>3, <2>4 DEF Valid, Given, Now, Walk, Shape
<1> QED BY <1>1, <1>2 DEF LoadsExactly

\* The settings of an accepted target are ones a loop can run with.
LEMMA LoadedRunnable ==
    ASSUME NEW t \in Settings, Accepted(t)
    PROVE  LET s == Loaded(t)
           IN  /\ s.interval > 0 /\ s.timeout > 0 /\ s.known /\ s.compiles
               /\ s.prompt \/ s.prompts > 0
               /\ s.fullProbeEvery > 0 => s.lightPrompt
               /\ s.adaptive => s.maxInterval >= s.interval
<1> DEFINE s == Loaded(t)
<1>1. /\ t.timeout >= 0 /\ t.interval >= 0 /\ t.known /\ t.compiles
      /\ t.adaptive => s.maxInterval >= s.interval
    BY Zenon DEF Accepted
<1>2. /\ s.timeout = Default(t.timeout, 30) /\ s.interval = Default(t.interval, 300)
      /\ s.known = t.known /\ s.compiles = t.compiles /\ s.prompts = t.prompts
      /\ s.adaptive = t.adaptive /\ s.fullProbeEvery = t.fullProbeEvery
    BY DEF Loaded, Settings
<1>3. /\ s.prompt = (t.prompt \/ t.prompts = 0)
      /\ s.lightPrompt = (t.lightPrompt \/ t.fullProbeEvery > 0)
    BY DEF Loaded, Settings
<1>4. s.interval > 0 /\ s.timeout > 0
    BY <1>1, <1>2 DEF Default, Settings
<1>5. t.prompts = 0 \/ t.prompts > 0
    BY DEF Settings
<1> HIDE DEF s
<1>6. /\ s.prompt \/ s.prompts > 0
      /\ s.fullProbeEvery > 0 => s.lightPrompt
    BY <1>2, <1>3, <1>5, Zenon
<1>7. s.adaptive => s.maxInterval >= s.interval
    BY <1>1, <1>2
<1>8. s.known /\ s.compiles
    BY <1>1, <1>2
<1> QED BY <1>4, <1>6, <1>7, <1>8 DEF s

LEMMA WalkRunnable ==
    ASSUME Walk
    PROVE  Runnable
<1> SUFFICES ASSUME at = "loaded" PROVE Runnable
    BY DEF Runnable
<1>1. /\ Valid(doc) /\ cfg.modules = doc.modules
      /\ \A k \in DOMAIN doc.targets :
            cfg.targets[k].settings = Loaded(doc.targets[k].settings)
    BY WalkExact DEF LoadsExactly
<1>2. /\ DOMAIN doc.targets = 1 .. Len(doc.targets) /\ DOMAIN cfg.targets = 1 .. Len(doc.targets)
      /\ \A k \in 1 .. Len(doc.targets) :
            doc.targets[k].settings \in Settings /\ cfg.targets[k].name = doc.targets[k].name
    BY DocumentFields DEF Walk, Shape
<1>3. \A k \in DOMAIN cfg.targets :
         LET s == cfg.targets[k].settings
         IN  /\ s.interval > 0 /\ s.timeout > 0 /\ s.known /\ s.compiles
             /\ s.prompt \/ s.prompts > 0
             /\ s.fullProbeEvery > 0 => s.lightPrompt
             /\ s.adaptive => s.maxInterval >= s.interval
    <2> SUFFICES ASSUME NEW k \in DOMAIN cfg.targets
                 PROVE  LET s == cfg.targets[k].settings
                        IN  /\ s.interval > 0 /\ s.timeout > 0 /\ s.known /\ s.compiles
                            /\ s.prompt \/ s.prompts > 0
                            /\ s.fullProbeEvery > 0 => s.lightPrompt
                            /\ s.adaptive => s.maxInterval >= s.interval
        OBVIOUS
    <2>1. /\ doc.targets[k].settings \in Settings /\ Accepted(doc.targets[k].settings)
          /\ cfg.targets[k].settings = Loaded(doc.targets[k].settings)
        BY <1>1, <1>2 DEF Valid
    <2> QED BY <2>1, LoadedRunnable
<1>4. IsInjective([k \in DOMAIN cfg.targets |-> cfg.targets[k].name])
    BY <1>1, <1>2 DEF Valid, IsInjective
<1>5. \A m \in DOMAIN cfg.modules : CanProbe(ToTarget(cfg.modules[m]))
    <2> SUFFICES ASSUME NEW m \in DOMAIN cfg.modules
                 PROVE  CanProbe(ToTarget(cfg.modules[m]))
        OBVIOUS
    <2> DEFINE t == cfg.modules[m]
    <2>1. t \in Modules /\ ModuleAccepted(t)
        BY <1>1 DEF Valid, Walk, Shape, IsDocument
    <2>2. ToTarget(t).format = IF t.format = "" THEN "openai" ELSE t.format
        BY <2>1 DEF ToTarget, Modules
    <2> QED BY <2>1, <2>2 DEF ModuleAccepted, CanProbe, ValidAPIFormats
<1>6. cfg.webhook.given => cfg.webhook.url /\ cfg.webhook.threshold > 0
    <2>1. cfg.webhook.given = doc.webhook.given /\ cfg.webhook.url = doc.webhook.url
        BY DEF Walk, Shape
    <2>2. doc.webhook.given => doc.webhook.url /\ cfg.webhook.threshold > 0
        BY DEF Walk, Whole
    <2> QED BY <2>1, <2>2
<1> QED BY <1>3, <1>4, <1>5, <1>6 DEF Runnable

LEMMA LoopLoads == Spec => LoadSpec
<1>1. Init => LoadInit
    BY DEF Init
<1>2. [Next]_vars => [LoadNext]_loadVars
    BY DEF Next, Load, Start, Probe, vars
<1> QED BY <1>1, <1>2, PTL DEF Spec, LoadSpec

\* Load in config.go, in whatever order Go walks the map of modules: types, and
\* the names seen keep pace with the targets.
THEOREM TypeCorrect == LoadSpec => []LoadTypeOK
BY LoadWalks, WalkTyped, PTL

\* Load in config.go: for every document, the walk with its early returns and
\* the defaults it writes between two checks accepts exactly the valid ones, and
\* leaves in every target the settings TargetConfig says.
THEOREM ExactLoad == Spec => []LoadsExactly
BY LoopLoads, LoadWalks, WalkExact, PTL

\* Load in config.go: whatever it accepts the rest of the program can run
\* without a check of its own -- rand.Int63n, regexp.MustCompile, prober.New, the
\* label sets, the alerter.
THEOREM RunnableLoad == Spec => []Runnable
BY LoopLoads, LoadWalks, WalkRunnable, PTL

-----------------------------------------------------------------------------
(* One loop.                                                               *)

\* Counting up, the remainder grows by one and starts again after n - 1.
LEMMA Remainders ==
    ASSUME NEW n \in Nat \ {0}, NEW k \in Nat \ {0}
    PROVE  /\ k % n \in 0 .. n - 1 /\ (k - 1) % n \in 0 .. n - 1
           /\ k % n = IF (k - 1) % n = n - 1 THEN 0 ELSE ((k - 1) % n) + 1
<1>1. PICK q \in Int, r \in Int : q = (k - 1) \div n /\ r = (k - 1) % n
    OBVIOUS
<1>2. PICK p \in Int, s \in Int : p = k \div n /\ s = k % n
    OBVIOUS
<1>3. /\ k - 1 = n * q + r /\ 0 <= r /\ r < n
      /\ k = n * p + s /\ 0 <= s /\ s < n
    BY <1>1, <1>2
<1>4. n * (p - q) = r + 1 - s
    BY <1>3
<1>5. p - q = 0 \/ p - q = 1
    <2>1. PICK d \in Int : d = p - q
        OBVIOUS
    <2>2. n * d = r + 1 - s /\ r + 1 - s <= n /\ r + 1 - s > 0 - n
        BY <1>3, <1>4, <2>1
    <2>3. d <= 1
        BY <2>2
    <2>4. d >= 0
        BY <2>2
    <2> QED BY <2>1, <2>3, <2>4
<1>6. CASE p - q = 0
    <2>1. s = r + 1
        BY <1>3, <1>4, <1>6
    <2> QED BY <1>1, <1>2, <1>3, <2>1
<1>7. CASE p - q = 1
    <2>1. s = r + 1 - n
        BY <1>3, <1>4, <1>7
    <2>2. s = 0 /\ r = n - 1
        BY <1>3, <2>1
    <2> QED BY <1>1, <1>2, <1>3, <2>2
<1> QED BY <1>5, <1>6, <1>7

\* A remainder after so many probes, if there has been one.
LastOf(n) == (probeCount - 1) % n

\* Where the cadence and the rotation are, and what a loop is for.
Counting ==
    /\ probeCount \in Nat
    /\ running \in 0 .. Len(cfg.targets)
    /\ running = 0 => probeCount = 0 /\ sinceFull = 0 /\ params.prompt = NoPrompt
    /\ running # 0 => at = "loaded" /\ target \in Settings
    /\ running # 0 /\ target.fullProbeEvery > 0 =>
         sinceFull = IF probeCount = 0 THEN 0 ELSE LastOf(target.fullProbeEvery)
    /\ running # 0 /\ target.prompts > 0 =>
         params.prompt = IF probeCount = 0 THEN NoPrompt ELSE LastOf(target.prompts)

LEMMA CountingInit ==
    ASSUME Init
    PROVE  Counting
<1>1. Len(cfg.targets) \in Nat
    BY DocumentsAssumption, DocumentFields DEF Init, LoadInit
<1> QED BY <1>1 DEF Init, Counting, Params

\* Once the configuration is loaded, nothing of the load is left to do.
LEMMA LoadOver ==
    ASSUME LoadNext
    PROVE  at # "loaded"
BY DEF LoadNext, Read, General, CheckModule, ModulesChecked, CheckTarget, Required, Defaults,
       Numeric, LightMode, Adaptive, Regex, Stage

LEMMA LoadCounting ==
    ASSUME Walk, Walk', Counting, Load
    PROVE  Counting'
<1>1. at # "loaded" /\ running = 0 /\ UNCHANGED loopVars
    BY LoadOver DEF Load, Counting
<1>2. Len(cfg'.targets) \in Nat
    BY DocumentFields DEF Walk, Shape
<1> QED BY <1>1, <1>2 DEF Counting, loopVars

LEMMA StartCounting ==
    ASSUME Walk, Counting, NEW k \in DOMAIN cfg.targets, Start(k)
    PROVE  Counting'
<1>1. /\ at = "loaded" /\ running = 0 /\ running' = k
      /\ UNCHANGED <<loadVars, probeCount, params, sinceFull>>
    BY DEF Start
<1>2. /\ DOMAIN cfg.targets = 1 .. Len(cfg.targets) /\ Len(cfg.targets) \in Nat
      /\ cfg.targets[k].settings \in Settings
    BY DocumentFields DEF Walk, Shape
<1>3. target' \in Settings /\ running' \in 0 .. Len(cfg'.targets) /\ at' = "loaded"
    BY <1>1, <1>2 DEF loadVars, target
<1>4. probeCount' = 0 /\ sinceFull' = 0 /\ params'.prompt = NoPrompt /\ running' # 0
    BY <1>1, <1>2 DEF Counting
<1> QED BY <1>3, <1>4 DEF Counting

\* A turn of the loop: what it asks for, by remainders.
LEMMA ProbeCounts ==
    ASSUME Walk, Counting, NEW ok \in BOOLEAN, Probe(ok)
    PROVE  /\ target \in Settings /\ target' = target /\ probeCount \in Nat
           /\ target.fullProbeEvery > 0 =>
                /\ IsLight(target, probeCount) <=> probeCount % target.fullProbeEvery # 0
                /\ sinceFull' = probeCount % target.fullProbeEvery
                /\ probeCount % target.fullProbeEvery = 0
                     <=> probeCount = 0 \/ sinceFull = target.fullProbeEvery - 1
           /\ target.prompts > 0 =>
                /\ params'.prompt = probeCount % target.prompts
                /\ probeCount = 0 => probeCount % target.prompts = 0
                /\ probeCount # 0 =>
                      /\ LastOf(target.prompts) \in Nat
                      /\ probeCount % target.prompts =
                            IF LastOf(target.prompts) = target.prompts - 1 THEN 0
                            ELSE LastOf(target.prompts) + 1
           /\ params'.maxTokens = IF IsLight(target, probeCount) THEN target.lightMaxTokens
                                  ELSE target.maxTokens
<1>1. /\ running # 0 /\ params' = BuildParams(target, probeCount)
      /\ sinceFull' = IF IsLight(target, probeCount) THEN sinceFull + 1 ELSE 0
      /\ UNCHANGED <<loadVars, running>>
    BY DEF Probe
<1>2. target \in Settings /\ target' = target /\ probeCount \in Nat
    BY <1>1 DEF Counting, target, loadVars
<1>3. ASSUME target.fullProbeEvery > 0
      PROVE  /\ IsLight(target, probeCount) <=> probeCount % target.fullProbeEvery # 0
             /\ sinceFull' = probeCount % target.fullProbeEvery
             /\ probeCount % target.fullProbeEvery = 0
                  <=> probeCount = 0 \/ sinceFull = target.fullProbeEvery - 1
    <2> DEFINE n == target.fullProbeEvery
    <2>1. n \in Nat \ {0}
        BY <1>2, <1>3 DEF Settings
    <2>2. IsLight(target, probeCount) <=> probeCount % n # 0
        BY <1>3, Zenon DEF IsLight
    <2>3. sinceFull' = IF probeCount % n # 0 THEN sinceFull + 1 ELSE 0
        BY <1>1, <2>2
    <2>4. sinceFull = IF probeCount = 0 THEN 0 ELSE LastOf(n)
        BY <1>1, <1>3 DEF Counting
    <2> HIDE DEF n
    <2>5. CASE probeCount = 0
        <3>1. probeCount % n = 0
            BY <2>1, <2>5
        <3> QED BY <2>3, <2>5, <3>1, <2>2 DEF n
    <2>6. CASE probeCount # 0
        <3>1. /\ LastOf(n) \in 0 .. n - 1 /\ probeCount % n \in 0 .. n - 1
              /\ probeCount % n = IF LastOf(n) = n - 1 THEN 0 ELSE LastOf(n) + 1
            BY <1>2, <2>1, <2>6, Remainders DEF LastOf
        <3>2. sinceFull = LastOf(n)
            BY <2>4, <2>6
        <3>3. sinceFull' = probeCount % n
            BY <2>3, <3>1, <3>2
        <3>4. probeCount % n = 0 <=> sinceFull = n - 1
            BY <2>1, <3>1, <3>2
        <3> QED BY <2>2, <2>6, <3>3, <3>4 DEF n
    <2> QED BY <2>5, <2>6
<1>4. ASSUME target.prompts > 0
      PROVE  /\ params'.prompt = probeCount % target.prompts
             /\ probeCount = 0 => probeCount % target.prompts = 0
             /\ probeCount # 0 =>
                   /\ LastOf(target.prompts) \in Nat
                   /\ probeCount % target.prompts =
                         IF LastOf(target.prompts) = target.prompts - 1 THEN 0
                         ELSE LastOf(target.prompts) + 1
    <2> DEFINE n == target.prompts
    <2>1. n \in Nat \ {0}
        BY <1>2, <1>4 DEF Settings
    <2>2. params'.prompt = probeCount % n
        BY <1>1, <1>4 DEF BuildParams, Params
    <2> HIDE DEF n
    <2>3. probeCount = 0 => probeCount % n = 0
        BY <2>1
    <2>4. ASSUME probeCount # 0
          PROVE  LastOf(n) \in Nat /\ probeCount % n = IF LastOf(n) = n - 1 THEN 0 ELSE LastOf(n) + 1
        <3>1. /\ LastOf(n) \in 0 .. n - 1
              /\ probeCount % n = IF LastOf(n) = n - 1 THEN 0 ELSE LastOf(n) + 1
            BY <1>2, <2>1, <2>4, Remainders DEF LastOf
        <3> QED BY <2>1, <3>1
    <2> QED BY <2>2, <2>3, <2>4 DEF n
<1>5. params'.maxTokens = IF IsLight(target, probeCount) THEN target.lightMaxTokens
                          ELSE target.maxTokens
    BY <1>1 DEF BuildParams, Params
<1> QED BY <1>2, <1>3, <1>4, <1>5

LEMMA ProbeCounting ==
    ASSUME Walk, Counting, NEW ok \in BOOLEAN, Probe(ok)
    PROVE  Counting'
<1>1. /\ running # 0 /\ probeCount' = probeCount + 1 /\ UNCHANGED <<cfg, at, running>>
    BY DEF Probe, loadVars
<1>2. probeCount \in Nat /\ target' = target /\ target \in Settings
    BY ProbeCounts
<1>3. probeCount' \in Nat /\ probeCount' # 0 /\ probeCount' - 1 = probeCount
    BY <1>1, <1>2
<1>4. \A n : LastOf(n)' = probeCount % n
    BY <1>3 DEF LastOf
<1>5. target'.fullProbeEvery > 0 => sinceFull' = LastOf(target.fullProbeEvery)'
    BY <1>2, <1>3, ProbeCounts DEF LastOf
<1>6. target'.prompts > 0 => params'.prompt = LastOf(target.prompts)'
    BY <1>2, <1>3, ProbeCounts DEF LastOf
<1> QED BY <1>1, <1>2, <1>3, <1>5, <1>6 DEF Counting

LEMMA CountingNext ==
    ASSUME Walk, Walk', Counting, [Next]_vars
    PROVE  Counting'
<1>1. CASE UNCHANGED vars
    BY <1>1 DEF vars, loadVars, loopVars, Counting, LastOf, target
<1>2. CASE Next
    BY <1>2, LoadCounting, StartCounting, ProbeCounting DEF Next
<1> QED BY <1>1, <1>2

LEMMA CountingAlways == Spec => [](Walk /\ Counting)
<1> DEFINE Inv == Walk /\ Counting
<1>1. Init => Inv
    BY WalkInit, CountingInit DEF Init
<1>2. Inv /\ [Next]_vars => Inv'
    <2>1. [Next]_vars => [LoadNext]_loadVars
        BY DEF Next, Load, Start, Probe, vars
    <2> QED BY <2>1, WalkNext, CountingNext
<1> QED BY <1>1, <1>2, PTL DEF Spec

\* A step of a loop that runs is a turn of it.
LEMMA OnlyProbes ==
    ASSUME Walk, Counting, [Next]_vars, running # 0, loopVars' # loopVars
    PROVE  \E ok \in BOOLEAN : Probe(ok)
BY DEF Next, Load, Start, vars

\* buildParams in scheduler.go, for every cadence Load accepts and whatever the
\* probes come to: every fullProbeEvery-th probe is full, from the first on.
THEOREM FullProbes == Spec => EveryNthIsFull
<1>1. ASSUME Walk, Counting, [Next]_vars
      PROVE  [running # 0 /\ target.fullProbeEvery > 0 /\ target.maxTokens # target.lightMaxTokens =>
                (params'.maxTokens = target.maxTokens
                   <=> probeCount = 0 \/ sinceFull = target.fullProbeEvery - 1)]_loopVars
    <2> SUFFICES ASSUME running # 0, target.fullProbeEvery > 0,
                        target.maxTokens # target.lightMaxTokens, loopVars' # loopVars
                 PROVE  params'.maxTokens = target.maxTokens
                          <=> probeCount = 0 \/ sinceFull = target.fullProbeEvery - 1
        OBVIOUS
    <2>1. PICK ok \in BOOLEAN : Probe(ok)
        BY <1>1, OnlyProbes
    <2>2. /\ IsLight(target, probeCount) <=> probeCount % target.fullProbeEvery # 0
          /\ probeCount % target.fullProbeEvery = 0
               <=> probeCount = 0 \/ sinceFull = target.fullProbeEvery - 1
          /\ params'.maxTokens = IF IsLight(target, probeCount) THEN target.lightMaxTokens
                                 ELSE target.maxTokens
        BY <1>1, <2>1, ProbeCounts
    <2> QED BY <2>2, Zenon
<1> QED BY <1>1, CountingAlways, PTL DEF Spec, EveryNthIsFull

\* buildParams in scheduler.go: the prompts of a list are taken in turn, none
\* skipped and none twice, however long the loop runs and whatever its probes
\* come to.
THEOREM RotatingPrompts == Spec => PromptsRotate
<1>1. ASSUME Walk, Counting, [Next]_vars
      PROVE  [running # 0 /\ target.prompts > 0 =>
                params'.prompt = IF params.prompt \in {NoPrompt, target.prompts - 1} THEN 0
                                 ELSE params.prompt + 1]_loopVars
    <2> SUFFICES ASSUME running # 0, target.prompts > 0, loopVars' # loopVars
                 PROVE  params'.prompt = IF params.prompt \in {NoPrompt, target.prompts - 1} THEN 0
                                         ELSE params.prompt + 1
        OBVIOUS
    <2>1. PICK ok \in BOOLEAN : Probe(ok)
        BY <1>1, OnlyProbes
    <2>2. /\ params'.prompt = probeCount % target.prompts
          /\ probeCount = 0 => probeCount % target.prompts = 0
          /\ probeCount # 0 =>
                /\ LastOf(target.prompts) \in Nat
                /\ probeCount % target.prompts =
                      IF LastOf(target.prompts) = target.prompts - 1 THEN 0
                      ELSE LastOf(target.prompts) + 1
        BY <1>1, <2>1, ProbeCounts
    <2>3. params.prompt = IF probeCount = 0 THEN NoPrompt ELSE LastOf(target.prompts)
        BY <1>1 DEF Counting
    <2>4. NoPrompt \notin Nat
        BY DEF NoPrompt
    <2>5. CASE probeCount = 0
        BY <2>2, <2>3, <2>5
    <2>6. CASE probeCount # 0
        BY <2>2, <2>3, <2>4, <2>6
    <2> QED BY <2>5, <2>6
<1> QED BY <1>1, CountingAlways, PTL DEF Spec, PromptsRotate

-----------------------------------------------------------------------------
(* Induction, stated with a set: it needs no operator for a parameter.     *)

\* Every set of natural numbers has a least one.
LEMMA LeastNumber ==
    ASSUME NEW T, T \subseteq Nat, T # {}
    PROVE  \E m \in T : \A n \in T : m <= n
<1> DEFINE R == {ss \in Nat \X Nat : ss[1] < ss[2]}
<1>1. IsWellFoundedOn(R, Nat)
    BY NatLessThanWellFounded DEF OpToRel
<1>2. \A y, x \in Nat : y < x => <<y, x>> \in R
    OBVIOUS
<1> HIDE DEF R
<1>3. PICK x \in T : \A y \in T : ~(<<y, x>> \in R)
    BY <1>1, WFMin
<1>4. \A y \in T : ~(y < x)
    BY <1>2, <1>3
<1>5. \A n \in T : x <= n
    BY <1>4
<1> QED BY <1>5

\* What holds of 0 and is passed on holds of all natural numbers.
LEMMA Induction ==
    ASSUME NEW S, 0 \in S, \A n \in Nat : n \in S => n + 1 \in S
    PROVE  Nat \subseteq S
<1> DEFINE T == Nat \ S
<1> SUFFICES ASSUME T # {} PROVE FALSE
    OBVIOUS
<1>1. T \subseteq Nat
    OBVIOUS
<1> HIDE DEF T
<1>2. PICK m \in T : \A n \in T : m <= n
    BY <1>1, LeastNumber
<1> QED BY <1>1, <1>2 DEF T

-----------------------------------------------------------------------------
(* The interval.                                                           *)

\* One turn of the loop in adaptiveNext.
Grown(t, v) == IF 2 * v >= t.maxInterval THEN t.maxInterval ELSE 2 * v

\* g is the sequence of intervals that the loop goes through in n doublings.
IsChain(t, n, g) ==
    g = [k \in 0 .. n |-> IF k = 0 THEN t.interval
                          ELSE IF 2 * g[k - 1] >= t.maxInterval THEN t.maxInterval
                          ELSE 2 * g[k - 1]]

Links(t, n, g) ==
    /\ g = [k \in 0 .. n |-> g[k]]
    /\ g[0] = t.interval
    /\ \A k \in 1 .. n : g[k] = Grown(t, g[k - 1])

LEMMA DoubledChain ==
    ASSUME NEW t, NEW n
    PROVE  Doubled(t, n) = (CHOOSE g : IsChain(t, n, g))[n]
BY DEF Doubled, IsChain

LEMMA ChainLinks ==
    ASSUME NEW t, NEW n \in Nat, NEW g
    PROVE  IsChain(t, n, g) <=> Links(t, n, g)
<1> DEFINE e(k) == IF k = 0 THEN t.interval
                          ELSE IF 2 * g[k - 1] >= t.maxInterval THEN t.maxInterval
                          ELSE 2 * g[k - 1]
<1>1. ASSUME IsChain(t, n, g) PROVE Links(t, n, g)
    <2>1. g = [k \in 0 .. n |-> e(k)]
        BY <1>1 DEF IsChain
    <2> DEFINE ee(k) == e(k)
    <2>2. \A k \in 0 .. n : g[k] = ee(k)
        BY <2>1
    <2>3. g = [k \in 0 .. n |-> ee(k)]
        BY <2>1
    <2> HIDE DEF ee
    <2>4. g = [k \in 0 .. n |-> g[k]]
        BY <2>2, <2>3
    <2>5. g[0] = t.interval
        BY <2>2 DEF ee
    <2>6. ASSUME NEW k \in 1 .. n PROVE g[k] = Grown(t, g[k - 1])
        BY <2>2 DEF ee, Grown
    <2> QED BY <2>4, <2>5, <2>6 DEF Links
<1>2. ASSUME Links(t, n, g) PROVE IsChain(t, n, g)
    <2>1. \A k \in 0 .. n : g[k] = e(k)
        <3> SUFFICES ASSUME NEW k \in 0 .. n PROVE g[k] = e(k)
            OBVIOUS
        <3>1. CASE k = 0
            BY <1>2, <3>1 DEF Links
        <3>2. CASE k # 0
            <4>1. k \in 1 .. n
                BY <3>2
            <4>2. g[k] = Grown(t, g[k - 1])
                BY <1>2, <4>1 DEF Links
            <4> QED BY <3>2, <4>2 DEF Grown
        <3> QED BY <3>1, <3>2
    <2>2. g = [k \in 0 .. n |-> g[k]]
        BY <1>2 DEF Links
    <2> DEFINE ee(k) == e(k)
    <2>3. \A k \in 0 .. n : g[k] = ee(k)
        BY <2>1
    <2> HIDE DEF ee
    <2>4. g = [k \in 0 .. n |-> ee(k)]
        BY <2>2, <2>3
    <2> QED BY <2>4 DEF ee, IsChain
<1> QED BY <1>1, <1>2

LEMMA ChainsAgree ==
    ASSUME NEW t, NEW n \in Nat, NEW m \in Nat, NEW g, NEW h,
           Links(t, n, g), Links(t, m, h)
    PROVE  \A k \in Nat : k <= n /\ k <= m => g[k] = h[k]
<1> DEFINE S == {k \in Nat : k <= n /\ k <= m => g[k] = h[k]}
<1>1. 0 \in S
    BY DEF Links
<1>2. ASSUME NEW k \in Nat, k \in S PROVE k + 1 \in S
    <2> SUFFICES ASSUME k + 1 <= n, k + 1 <= m PROVE g[k + 1] = h[k + 1]
        BY <1>2
    <2>1. g[k] = h[k] /\ k + 1 \in 1 .. n /\ k + 1 \in 1 .. m /\ (k + 1) - 1 = k
        BY <1>2
    <2>2. g[k + 1] = Grown(t, g[k]) /\ h[k + 1] = Grown(t, h[k])
        BY <2>1 DEF Links
    <2> QED BY <2>1, <2>2
<1> HIDE DEF S
<1>3. Nat \subseteq S
    BY <1>1, <1>2, Induction
<1> QED BY <1>3 DEF S

LEMMA ChainExists ==
    ASSUME NEW t
    PROVE  \A n \in Nat : \E g : Links(t, n, g)
<1> DEFINE S == {n \in Nat : \E g : Links(t, n, g)}
<1>1. 0 \in S
    <2> DEFINE g == [k \in 0 .. 0 |-> t.interval]
    <2>1. g[0] = t.interval /\ g = [k \in 0 .. 0 |-> g[k]] /\ 1 .. 0 = {}
        OBVIOUS
    <2>2. Links(t, 0, g)
        BY <2>1 DEF Links
    <2> QED BY <2>2
<1>2. ASSUME NEW n \in Nat, n \in S PROVE n + 1 \in S
    <2>1. PICK g : Links(t, n, g)
        BY <1>2
    <2> DEFINE v == Grown(t, g[n])
               h == [k \in 0 .. n + 1 |-> IF k = n + 1 THEN v ELSE g[k]]
    <2> HIDE DEF v
    <2>2. /\ h[n + 1] = v /\ \A k \in 0 .. n : h[k] = g[k]
          /\ h = [k \in 0 .. n + 1 |-> h[k]]
        OBVIOUS
    <2> HIDE DEF h
    <2>3. ASSUME NEW k \in 1 .. n + 1 PROVE h[k] = Grown(t, h[k - 1])
        <3>1. CASE k = n + 1
            <4>1. k - 1 = n /\ n \in 0 .. n
                BY <3>1
            <4> QED BY <2>2, <3>1, <4>1 DEF v
        <3>2. CASE k # n + 1
            <4>1. k \in 1 .. n /\ k \in 0 .. n /\ k - 1 \in 0 .. n
                BY <3>2
            <4> QED BY <2>1, <2>2, <4>1 DEF Links
        <3> QED BY <3>1, <3>2
    <2>4. h[0] = t.interval
        <3>1. 0 \in 0 .. n /\ g[0] = t.interval
            BY <2>1 DEF Links
        <3> QED BY <2>2, <3>1
    <2>5. Links(t, n + 1, h)
        BY <2>2, <2>3, <2>4 DEF Links
    <2> QED BY <2>5
<1> HIDE DEF S
<1>3. Nat \subseteq S
    BY <1>1, <1>2, Induction
<1> QED BY <1>3 DEF S

\* adaptiveNext's loop, turn by turn.
LEMMA DoubledSteps ==
    ASSUME NEW t, NEW n \in Nat
    PROVE  /\ Doubled(t, 0) = t.interval
           /\ Doubled(t, n + 1) = Grown(t, Doubled(t, n))
<1>1. ASSUME NEW m \in Nat, NEW g, Links(t, m, g) PROVE Doubled(t, m) = g[m]
    <2>1. IsChain(t, m, CHOOSE h : IsChain(t, m, h))
        BY <1>1, ChainLinks
    <2> DEFINE c == CHOOSE h : IsChain(t, m, h)
    <2> HIDE DEF c
    <2>2. Links(t, m, c)
        BY <2>1, ChainLinks DEF c
    <2>3. c[m] = g[m]
        BY <1>1, <2>2, ChainsAgree
    <2> QED BY <2>3, DoubledChain DEF c
<1>2. PICK g : Links(t, n + 1, g)
    BY ChainExists
<1>3. PICK h : Links(t, n, h)
    BY ChainExists
<1>4. PICK f : Links(t, 0, f)
    BY ChainExists
<1>5. Doubled(t, 0) = t.interval
    BY <1>1, <1>4 DEF Links
<1>6. Doubled(t, n + 1) = g[n + 1] /\ Doubled(t, n) = h[n]
    BY <1>1, <1>2, <1>3
<1>7. g[n] = h[n]
    BY <1>2, <1>3, ChainsAgree
<1>8. g[n + 1] = Grown(t, g[n])
    BY <1>2 DEF Links
<1> QED BY <1>5, <1>6, <1>7, <1>8

\* Doubling freely, turn by turn: the same chain without a cap.
FreeLinks(x, n, g) ==
    /\ g = [k \in 0 .. n |-> g[k]]
    /\ g[0] = x
    /\ \A k \in 1 .. n : g[k] = 2 * g[k - 1]

IsFreeChain(x, n, g) == g = [k \in 0 .. n |-> IF k = 0 THEN x ELSE 2 * g[k - 1]]

LEMMA DoublingsChain ==
    ASSUME NEW x, NEW n
    PROVE  Doublings(x, n) = (CHOOSE g : IsFreeChain(x, n, g))[n]
BY DEF Doublings, IsFreeChain

LEMMA FreeChainLinks ==
    ASSUME NEW x, NEW n \in Nat, NEW g
    PROVE  IsFreeChain(x, n, g) <=> FreeLinks(x, n, g)
<1> DEFINE e(k) == IF k = 0 THEN x ELSE 2 * g[k - 1]
<1>1. ASSUME IsFreeChain(x, n, g) PROVE FreeLinks(x, n, g)
    <2>1. g = [k \in 0 .. n |-> e(k)]
        BY <1>1 DEF IsFreeChain
    <2> DEFINE ee(k) == e(k)
    <2>2. \A k \in 0 .. n : g[k] = ee(k)
        BY <2>1
    <2>3. g = [k \in 0 .. n |-> ee(k)]
        BY <2>1
    <2> HIDE DEF ee
    <2>4. g = [k \in 0 .. n |-> g[k]]
        BY <2>2, <2>3
    <2>5. g[0] = x
        BY <2>2 DEF ee
    <2>6. ASSUME NEW k \in 1 .. n PROVE g[k] = 2 * g[k - 1]
        BY <2>2 DEF ee
    <2> QED BY <2>4, <2>5, <2>6 DEF FreeLinks
<1>2. ASSUME FreeLinks(x, n, g) PROVE IsFreeChain(x, n, g)
    <2>1. \A k \in 0 .. n : g[k] = e(k)
        <3> SUFFICES ASSUME NEW k \in 0 .. n PROVE g[k] = e(k)
            OBVIOUS
        <3>1. CASE k = 0
            BY <1>2, <3>1 DEF FreeLinks
        <3>2. CASE k # 0
            <4>1. k \in 1 .. n
                BY <3>2
            <4>2. g[k] = 2 * g[k - 1]
                BY <1>2, <4>1 DEF FreeLinks
            <4> QED BY <3>2, <4>2
        <3> QED BY <3>1, <3>2
    <2>2. g = [k \in 0 .. n |-> g[k]]
        BY <1>2 DEF FreeLinks
    <2> DEFINE ee(k) == e(k)
    <2>3. \A k \in 0 .. n : g[k] = ee(k)
        BY <2>1
    <2> HIDE DEF ee
    <2>4. g = [k \in 0 .. n |-> ee(k)]
        BY <2>2, <2>3
    <2> QED BY <2>4 DEF ee, IsFreeChain
<1> QED BY <1>1, <1>2

\* Two such chains agree as far as both go.
LEMMA FreeChainsAgree ==
    ASSUME NEW x, NEW n \in Nat, NEW m \in Nat, NEW g, NEW h,
           FreeLinks(x, n, g), FreeLinks(x, m, h)
    PROVE  \A k \in Nat : k <= n /\ k <= m => g[k] = h[k]
<1> DEFINE S == {k \in Nat : k <= n /\ k <= m => g[k] = h[k]}
<1>1. 0 \in S
    BY DEF FreeLinks
<1>2. ASSUME NEW k \in Nat, k \in S PROVE k + 1 \in S
    <2> SUFFICES ASSUME k + 1 <= n, k + 1 <= m PROVE g[k + 1] = h[k + 1]
        BY <1>2
    <2>1. g[k] = h[k] /\ k + 1 \in 1 .. n /\ k + 1 \in 1 .. m /\ (k + 1) - 1 = k
        BY <1>2
    <2>2. g[k + 1] = 2 * g[k] /\ h[k + 1] = 2 * h[k]
        BY <2>1 DEF FreeLinks
    <2> QED BY <2>1, <2>2
<1> HIDE DEF S
<1>3. Nat \subseteq S
    BY <1>1, <1>2, Induction
<1> QED BY <1>3 DEF S

LEMMA FreeChainExists ==
    ASSUME NEW x
    PROVE  \A n \in Nat : \E g : FreeLinks(x, n, g)
<1> DEFINE S == {n \in Nat : \E g : FreeLinks(x, n, g)}
<1>1. 0 \in S
    <2> DEFINE g == [k \in 0 .. 0 |-> x]
    <2>1. g[0] = x /\ g = [k \in 0 .. 0 |-> g[k]] /\ 1 .. 0 = {}
        OBVIOUS
    <2>2. FreeLinks(x, 0, g)
        BY <2>1 DEF FreeLinks
    <2> QED BY <2>2
<1>2. ASSUME NEW n \in Nat, n \in S PROVE n + 1 \in S
    <2>1. PICK g : FreeLinks(x, n, g)
        BY <1>2
    <2> DEFINE v == 2 * g[n]
               h == [k \in 0 .. n + 1 |-> IF k = n + 1 THEN v ELSE g[k]]
    <2> HIDE DEF v
    <2>2. /\ h[n + 1] = v /\ \A k \in 0 .. n : h[k] = g[k]
          /\ h = [k \in 0 .. n + 1 |-> h[k]]
        OBVIOUS
    <2> HIDE DEF h
    <2>3. ASSUME NEW k \in 1 .. n + 1 PROVE h[k] = 2 * h[k - 1]
        <3>1. CASE k = n + 1
            <4>1. k - 1 = n /\ n \in 0 .. n
                BY <3>1
            <4> QED BY <2>2, <3>1, <4>1 DEF v
        <3>2. CASE k # n + 1
            <4>1. k \in 1 .. n /\ k \in 0 .. n /\ k - 1 \in 0 .. n
                BY <3>2
            <4> QED BY <2>1, <2>2, <4>1 DEF FreeLinks
        <3> QED BY <3>1, <3>2
    <2>4. h[0] = x
        <3>1. 0 \in 0 .. n /\ g[0] = x
            BY <2>1 DEF FreeLinks
        <3> QED BY <2>2, <3>1
    <2>5. FreeLinks(x, n + 1, h)
        BY <2>2, <2>3, <2>4 DEF FreeLinks
    <2> QED BY <2>5
<1> HIDE DEF S
<1>3. Nat \subseteq S
    BY <1>1, <1>2, Induction
<1> QED BY <1>3 DEF S

LEMMA DoublingsSteps ==
    ASSUME NEW x, NEW n \in Nat
    PROVE  /\ Doublings(x, 0) = x
           /\ Doublings(x, n + 1) = 2 * Doublings(x, n)
<1>1. ASSUME NEW m \in Nat, NEW g, FreeLinks(x, m, g) PROVE Doublings(x, m) = g[m]
    <2>1. IsFreeChain(x, m, CHOOSE h : IsFreeChain(x, m, h))
        BY <1>1, FreeChainLinks
    <2> DEFINE c == CHOOSE h : IsFreeChain(x, m, h)
    <2> HIDE DEF c
    <2>2. FreeLinks(x, m, c)
        BY <2>1, FreeChainLinks DEF c
    <2>3. c[m] = g[m]
        BY <1>1, <2>2, FreeChainsAgree
    <2> QED BY <2>3, DoublingsChain DEF c
<1>2. PICK g : FreeLinks(x, n + 1, g)
    BY FreeChainExists
<1>3. PICK h : FreeLinks(x, n, h)
    BY FreeChainExists
<1>4. PICK f : FreeLinks(x, 0, f)
    BY FreeChainExists
<1>5. Doublings(x, 0) = x
    BY <1>1, <1>4 DEF FreeLinks
<1>6. Doublings(x, n + 1) = g[n + 1] /\ Doublings(x, n) = h[n]
    BY <1>1, <1>2, <1>3
<1>7. g[n] = h[n]
    BY <1>2, <1>3, FreeChainsAgree
<1>8. g[n + 1] = 2 * g[n]
    <2>1. n + 1 \in 1 .. n + 1 /\ (n + 1) - 1 = n
        OBVIOUS
    <2>2. g[n + 1] = 2 * g[(n + 1) - 1]
        BY <1>2, <2>1 DEF FreeLinks
    <2> QED BY <2>1, <2>2
<1> QED BY <1>5, <1>6, <1>7, <1>8

\* Stopping at the cap on the way and cutting at the cap in the end are the same.
LEMMA DoubledCapped ==
    ASSUME NEW t, t.interval \in Int, t.maxInterval \in Int,
           t.interval > 0, t.maxInterval >= t.interval, NEW n \in Nat
    PROVE  Doubled(t, n) = IF Doublings(t.interval, n) <= t.maxInterval
                           THEN Doublings(t.interval, n) ELSE t.maxInterval
<1> DEFINE S == {m \in Nat :
                    /\ Doublings(t.interval, m) \in Int
                    /\ Doublings(t.interval, m) > 0
                    /\ Doubled(t, m) = IF Doublings(t.interval, m) <= t.maxInterval
                                       THEN Doublings(t.interval, m) ELSE t.maxInterval}
<1>1. 0 \in S
    <2>1. Doubled(t, 0) = t.interval
        BY DoubledSteps
    <2>2. Doublings(t.interval, 0) = t.interval
        BY DoublingsSteps
    <2> QED BY <2>1, <2>2
<1>2. ASSUME NEW m \in Nat, m \in S PROVE m + 1 \in S
    <2>1. Doubled(t, m + 1) = Grown(t, Doubled(t, m))
        BY DoubledSteps
    <2>2. Doublings(t.interval, m + 1) = 2 * Doublings(t.interval, m)
        BY DoublingsSteps
    <2> QED BY <1>2, <2>1, <2>2 DEF Grown
<1> HIDE DEF S
<1>3. Nat \subseteq S
    BY <1>1, <1>2, Induction
<1> QED BY <1>3 DEF S

LEMMA DoubledBounds ==
    ASSUME NEW t, t.interval \in Int, t.maxInterval \in Int,
           t.interval > 0, t.maxInterval >= t.interval
    PROVE  \A n \in Nat : /\ Doubled(t, n) \in Int
                          /\ t.interval <= Doubled(t, n) /\ Doubled(t, n) <= t.maxInterval
<1> DEFINE S == {n \in Nat : /\ Doubled(t, n) \in Int
                             /\ t.interval <= Doubled(t, n) /\ Doubled(t, n) <= t.maxInterval}
<1>1. 0 \in S
    <2>1. Doubled(t, 0) = t.interval
        BY DoubledSteps
    <2> QED BY <2>1
<1>2. ASSUME NEW n \in Nat, n \in S PROVE n + 1 \in S
    <2>1. Doubled(t, n + 1) = Grown(t, Doubled(t, n))
        BY DoubledSteps
    <2> QED BY <1>2, <2>1 DEF Grown
<1> HIDE DEF S
<1>3. Nat \subseteq S
    BY <1>1, <1>2, Induction
<1> QED BY <1>3 DEF S

\* The interval is the one that the streak calls for, within its bounds.
Backoff ==
    /\ consecSuccess \in Nat
    /\ running = 0 => consecSuccess = 0 /\ successes = 0
    /\ running # 0 =>
         /\ currentInterval \in Int /\ currentInterval >= target.interval
         /\ target.adaptive => currentInterval <= target.maxInterval
    /\ running # 0 /\ target.adaptive =>
         /\ successes = consecSuccess
         /\ currentInterval = IF consecSuccess = 0 \/ consecSuccess <= target.backoffAfter
                              THEN target.interval
                              ELSE Doubled(target, consecSuccess - target.backoffAfter)

LEMMA LoadedBounds ==
    ASSUME Walk, at = "loaded", NEW k \in DOMAIN cfg.targets
    PROVE  LET t == cfg.targets[k].settings
           IN  /\ k # 0 /\ t.interval \in Int /\ t.maxInterval \in Int /\ t.backoffAfter \in Int
               /\ t.interval > 0
               /\ t.adaptive => t.maxInterval >= t.interval
<1> DEFINE t == cfg.targets[k].settings
<1>1. t \in Settings /\ k # 0
    BY DocumentFields DEF Walk, Shape
<1>2. t.interval > 0
    BY WalkRunnable DEF Runnable
<1>3. t.adaptive => t.maxInterval >= t.interval
    BY WalkRunnable DEF Runnable
<1>4. t.interval \in Int /\ t.maxInterval \in Int /\ t.backoffAfter \in Int
    BY <1>1 DEF Settings
<1> QED BY <1>1, <1>2, <1>3, <1>4

LEMMA TargetBounds ==
    ASSUME Walk, Counting, running # 0
    PROVE  /\ target.interval \in Int /\ target.maxInterval \in Int
           /\ target.backoffAfter \in Int /\ target.interval > 0
           /\ target.adaptive => target.maxInterval >= target.interval
<1>1. at = "loaded" /\ running \in 0 .. Len(cfg.targets)
    BY DEF Counting
<1>2. running \in DOMAIN cfg.targets
    BY <1>1, DocumentFields DEF Walk, Shape
<1> QED BY <1>1, <1>2, LoadedBounds DEF target

LEMMA StartBackoff ==
    ASSUME Walk, Backoff, NEW k \in DOMAIN cfg.targets, Start(k)
    PROVE  Backoff'
<1>1. /\ running = 0 /\ running' = k /\ cfg' = cfg /\ consecSuccess' = consecSuccess
      /\ successes' = successes
      /\ currentInterval' = cfg.targets[k].settings.interval /\ at = "loaded"
    BY DEF Start, loadVars
<1>2. target' = cfg.targets[k].settings
    BY <1>1 DEF target
<1>3. /\ running' # 0 /\ target'.interval \in Int /\ target'.maxInterval \in Int
      /\ target'.backoffAfter \in Int
      /\ target'.adaptive => target'.maxInterval >= target'.interval
    BY <1>1, <1>2, LoadedBounds
<1>4. consecSuccess' = 0 /\ successes' = 0 /\ currentInterval' = target'.interval
    BY <1>1, <1>2 DEF Backoff
<1> QED BY <1>3, <1>4 DEF Backoff

\* A turn of the loop: what becomes of interval and streak.
LEMMA ProbeAdapts ==
    ASSUME Walk, Counting, Backoff, NEW ok \in BOOLEAN, Probe(ok), target.adaptive
    PROVE  /\ successes' = consecSuccess'
           /\ \/ currentInterval' = target.interval /\ consecSuccess' = 0
              \/ /\ consecSuccess' = consecSuccess + 1 /\ consecSuccess' <= target.backoffAfter
                 /\ currentInterval' = target.interval
              \/ /\ consecSuccess' = consecSuccess + 1 /\ consecSuccess' > target.backoffAfter
                 /\ currentInterval' = Doubled(target, consecSuccess' - target.backoffAfter)
<1>1. /\ currentInterval' = AdaptiveNext(target, ok, consecSuccess).interval
      /\ consecSuccess' = AdaptiveNext(target, ok, consecSuccess).streak
      /\ running # 0 /\ successes' = IF ok THEN successes + 1 ELSE 0
    BY DEF Probe, Adapt
<1>2. consecSuccess \in Nat /\ target.backoffAfter \in Int /\ successes = consecSuccess
    BY <1>1, TargetBounds DEF Backoff
<1>3. CASE ok = FALSE
    BY <1>1, <1>3 DEF AdaptiveNext
<1>4. CASE ok = TRUE /\ consecSuccess + 1 <= target.backoffAfter
    BY <1>1, <1>2, <1>4 DEF AdaptiveNext
<1>5. CASE ok = TRUE /\ consecSuccess + 1 > target.backoffAfter
    BY <1>1, <1>2, <1>5 DEF AdaptiveNext
<1>6. consecSuccess + 1 <= target.backoffAfter \/ consecSuccess + 1 > target.backoffAfter
    BY <1>2
<1> QED BY <1>3, <1>4, <1>5, <1>6, Zenon

LEMMA ProbeBackoff ==
    ASSUME Walk, Counting, Backoff, NEW ok \in BOOLEAN, Probe(ok)
    PROVE  Backoff'
<1>1. running # 0 /\ running' = running /\ target' = target
    BY DEF Probe, loadVars, target
<1>2. /\ target.interval \in Int /\ target.maxInterval \in Int /\ target.backoffAfter \in Int
      /\ target.interval > 0
      /\ target.adaptive => target.maxInterval >= target.interval
    BY <1>1, TargetBounds
<1>3. consecSuccess \in Nat
    BY DEF Backoff
<1>4. ASSUME ~target.adaptive PROVE Backoff'
    <2>1. currentInterval' = currentInterval /\ consecSuccess' = consecSuccess
        BY <1>4 DEF Probe, Adapt
    <2> QED BY <1>1, <1>4, <2>1 DEF Backoff
<1>5. ASSUME target.adaptive PROVE Backoff'
    <2>1. \A n \in Nat : /\ Doubled(target, n) \in Int
                         /\ target.interval <= Doubled(target, n)
                         /\ Doubled(target, n) <= target.maxInterval
        BY <1>2, <1>5, DoubledBounds
    <2>5. successes' = consecSuccess'
        BY <1>5, ProbeAdapts
    <2>2. CASE currentInterval' = target.interval /\ consecSuccess' = 0
        BY <1>1, <1>2, <1>5, <2>2, <2>5 DEF Backoff
    <2>3. CASE /\ consecSuccess' = consecSuccess + 1 /\ consecSuccess' <= target.backoffAfter
               /\ currentInterval' = target.interval
        BY <1>1, <1>2, <1>3, <1>5, <2>3, <2>5 DEF Backoff
    <2>4. CASE /\ consecSuccess' = consecSuccess + 1 /\ consecSuccess' > target.backoffAfter
               /\ currentInterval' = Doubled(target, consecSuccess' - target.backoffAfter)
        <3>1. consecSuccess' - target.backoffAfter \in Nat
            BY <1>2, <1>3, <2>4
        <3>2. /\ currentInterval' \in Int /\ target.interval <= currentInterval'
              /\ currentInterval' <= target.maxInterval
            BY <2>1, <2>4, <3>1
        <3>3. consecSuccess' \in Nat /\ consecSuccess' # 0
              /\ ~(consecSuccess' <= target.backoffAfter)
            BY <1>2, <1>3, <2>4
        <3> QED BY <1>1, <1>2, <2>4, <2>5, <3>2, <3>3 DEF Backoff
    <2> QED BY <1>5, <2>2, <2>3, <2>4, ProbeAdapts
<1> QED BY <1>4, <1>5

LEMMA BackoffNext ==
    ASSUME Walk, Counting, Backoff, [Next]_vars, Walk', Counting'
    PROVE  Backoff'
<1>1. CASE UNCHANGED vars
    BY <1>1 DEF vars, loadVars, loopVars, Backoff, target
<1>2. CASE Load
    BY <1>2, LoadOver DEF Load, Counting, Backoff, loopVars
<1>3. ASSUME NEW k \in DOMAIN cfg.targets, Start(k) PROVE Backoff'
    BY <1>3, StartBackoff
<1>4. ASSUME NEW ok \in BOOLEAN, Probe(ok) PROVE Backoff'
    BY <1>4, ProbeBackoff
<1> QED BY <1>1, <1>2, <1>3, <1>4 DEF Next

LEMMA BackoffAlways == Spec => [](Walk /\ Counting /\ Backoff)
<1>1. Init => Backoff
    BY DEF Init, Backoff
<1>2. Walk /\ Counting /\ Backoff /\ [Next]_vars /\ Walk' /\ Counting' => Backoff'
    BY BackoffNext
<1> QED BY <1>1, <1>2, CountingAlways, PTL DEF Spec

\* adaptiveNext in scheduler.go, for every base interval, cap and number of
\* successes Load accepts, a negative one included: the interval is the base until
\* that many probes in a row have succeeded, then doubles with each success, stops
\* at the cap, and one failure brings it back to the base.
THEOREM ExactBackoff == Spec => []BackoffExact
<1>1. ASSUME Walk, Counting, Backoff PROVE BackoffExact
    <2> SUFFICES ASSUME running # 0, target.adaptive
                 PROVE  currentInterval =
                            IF successes = 0 \/ successes <= target.backoffAfter
                            THEN target.interval
                            ELSE LET free == Doublings(target.interval,
                                                       successes - target.backoffAfter)
                                 IN  IF free <= target.maxInterval THEN free
                                     ELSE target.maxInterval
        BY DEF BackoffExact
    <2>1. /\ successes \in Nat /\ target.backoffAfter \in Int
          /\ currentInterval = IF successes = 0 \/ successes <= target.backoffAfter
                               THEN target.interval
                               ELSE Doubled(target, successes - target.backoffAfter)
        BY <1>1, TargetBounds DEF Backoff
    <2>2. CASE successes = 0 \/ successes <= target.backoffAfter
        BY <2>1, <2>2
    <2>3. CASE ~(successes = 0 \/ successes <= target.backoffAfter)
        <3> DEFINE n == successes - target.backoffAfter
        <3>1. n \in Nat
            BY <2>1, <2>3
        <3>2. currentInterval = Doubled(target, n)
            BY <2>1, <2>3
        <3> HIDE DEF n
        <3>3. Doubled(target, n) = IF Doublings(target.interval, n) <= target.maxInterval
                                   THEN Doublings(target.interval, n) ELSE target.maxInterval
            BY <1>1, <3>1, TargetBounds, DoubledCapped
        <3> QED BY <2>3, <3>2, <3>3, Zenon DEF n
    <2> QED BY <2>2, <2>3
<1> QED BY <1>1, BackoffAlways, PTL

\* The counts of a loop stay within the number of its probes.
Counts ==
    /\ probeCount \in 0 .. MaxProbes
    /\ consecSuccess \in 0 .. probeCount
    /\ sinceFull \in 0 .. probeCount
    /\ successes \in 0 .. probeCount

LEMMA CountsAlways == Spec => []Counts
<1>1. Init => Counts
    BY LoopAssumption DEF Init, Counts
<1>2. ASSUME Counts, [Next]_vars PROVE Counts'
    <2>1. CASE UNCHANGED vars
        BY <1>2, <2>1 DEF vars, loopVars, Counts
    <2>2. CASE Load
        BY <1>2, <2>2 DEF Load, loopVars, Counts
    <2>3. ASSUME NEW k, Start(k) PROVE Counts'
        BY <1>2, <2>3 DEF Start, Counts
    <2>4. ASSUME NEW ok \in BOOLEAN, Probe(ok) PROVE Counts'
        <3>1. /\ probeCount' = probeCount + 1 /\ probeCount < MaxProbes
              /\ sinceFull' = sinceFull + 1 \/ sinceFull' = 0
              /\ successes' = successes + 1 \/ successes' = 0
            BY <2>4 DEF Probe
        <3>2. \/ consecSuccess' = consecSuccess \/ consecSuccess' = 0
              \/ consecSuccess' = consecSuccess + 1
            BY <2>4 DEF Probe, Adapt, AdaptiveNext
        <3> QED BY <1>2, <3>1, <3>2, LoopAssumption DEF Counts
    <2> QED BY <1>2, <2>1, <2>2, <2>3, <2>4 DEF Next
<1> QED BY <1>1, <1>2, PTL DEF Spec

\* runTarget in scheduler.go, for every configuration Load accepts: the types
\* of its variables, and an interval between base and cap at every moment.
THEOREM IntervalBounded == Spec => []TypeOK
<1>1. ASSUME Walk, Counting, Backoff, Counts PROVE TypeOK
    BY <1>1, WalkTyped DEF Counting, Backoff, Counts, TypeOK
<1> QED BY <1>1, BackoffAlways, CountsAlways, PTL

=============================================================================
