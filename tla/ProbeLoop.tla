----------------------------- MODULE ProbeLoop ------------------------------
(***************************************************************************)
(* What one runTarget loop (internal/scheduler) asks for and when: the     *)
(* cadence of full and light probes, the rotation of prompts, and the      *)
(* adaptive interval, for any target of a configuration that loaded.       *)
(* Whether a probe succeeds is the provider's choice.  A prompt is its     *)
(* index in the list.                                                      *)
(***************************************************************************)
EXTENDS ConfigFile

CONSTANT MaxProbes     \* bound: probes of one loop

ASSUME LoopAssumption == MaxProbes \in Nat

VARIABLES
    running,          \* index of the target, 0 before the loop starts
    probeCount, consecSuccess, currentInterval,
    params,           \* ProbeParams of the last probe
    sinceFull,        \* history: probes of this loop since its last full one
    successes         \* history: successful probes since the last failed one

loopVars == <<running, probeCount, consecSuccess, currentInterval, params, sinceFull, successes>>
vars == <<loadVars, loopVars>>

\* The settings in use.
target == cfg.targets[running].settings

NoPrompt == -3
Single   == -2    \* t.Prompt
Light    == -1    \* t.LightPrompt

Params(prompt, maxTokens) == [prompt |-> prompt, maxTokens |-> maxTokens]

IsLight(t, count) == t.fullProbeEvery > 0 /\ count % t.fullProbeEvery # 0

\* Slip: light probes use light_prompt even if there is a list.
BuildParamsUnrotated(t, count) ==
    IF IsLight(t, count) THEN Params(Light, t.lightMaxTokens)
    ELSE Params(IF t.prompts > 0 THEN count % t.prompts ELSE Single, t.maxTokens)

BuildParams(t, count) ==
    LET prompt(single) == IF t.prompts > 0 THEN count % t.prompts ELSE single
    IN  IF IsLight(t, count) THEN Params(prompt(Light), t.lightMaxTokens)
        ELSE Params(prompt(Single), t.maxTokens)

\* The loop of adaptiveNext: the interval after n doublings, which stops at
\* the cap.
Doubled(t, n) ==
    LET after[k \in 0 .. n] ==
            IF k = 0 THEN t.interval
            ELSE IF 2 * after[k - 1] >= t.maxInterval THEN t.maxInterval
            ELSE 2 * after[k - 1]
    IN  after[n]

\* Slip: a failure does not end the streak.
AdaptiveNextSticky(t, ok, streak) ==
    LET now == IF ok THEN streak + 1 ELSE streak
    IN  [interval |-> IF now <= t.backoffAfter THEN t.interval
                      ELSE Doubled(t, now - t.backoffAfter),
         streak |-> now]

AdaptiveNext(t, ok, streak) ==
    IF ~ok THEN [interval |-> t.interval, streak |-> 0]
    ELSE IF streak + 1 <= t.backoffAfter
         THEN [interval |-> t.interval, streak |-> streak + 1]
    ELSE [interval |-> Doubled(t, streak + 1 - t.backoffAfter), streak |-> streak + 1]

Init ==
    /\ LoadInit
    /\ running = 0
    /\ probeCount = 0 /\ consecSuccess = 0 /\ currentInterval = 0
    /\ params = Params(NoPrompt, 0)
    /\ sinceFull = 0 /\ successes = 0

Load == LoadNext /\ UNCHANGED loopVars

\* runTarget starts for target k: the first probe comes after the jitter.
Start(k) ==
    /\ at = "loaded" /\ running = 0
    /\ running' = k
    /\ currentInterval' = cfg.targets[k].settings.interval
    /\ UNCHANGED <<loadVars, probeCount, consecSuccess, params, sinceFull, successes>>

\* The interval for the timer, and the streak it depends on.
Adapt(ok) ==
    IF target.adaptive
    THEN LET next == AdaptiveNext(target, ok, consecSuccess)
         IN  currentInterval' = next.interval /\ consecSuccess' = next.streak
    ELSE UNCHANGED <<currentInterval, consecSuccess>>

\* Slip: probeCount counts successes.
ProbeCountsSuccesses(ok) ==
    /\ running # 0 /\ probeCount < MaxProbes
    /\ params' = BuildParams(target, probeCount)
    /\ probeCount' = IF ok THEN probeCount + 1 ELSE probeCount
    /\ sinceFull' = IF IsLight(target, probeCount) THEN sinceFull + 1 ELSE 0
    /\ successes' = IF ok THEN successes + 1 ELSE 0
    /\ Adapt(ok)
    /\ UNCHANGED <<loadVars, running>>

\* A turn of the loop: probe, count, choose the interval.
Probe(ok) ==
    /\ running # 0 /\ probeCount < MaxProbes
    /\ params' = BuildParams(target, probeCount)
    /\ probeCount' = probeCount + 1
    /\ sinceFull' = IF IsLight(target, probeCount) THEN sinceFull + 1 ELSE 0
    /\ successes' = IF ok THEN successes + 1 ELSE 0
    /\ Adapt(ok)
    /\ UNCHANGED <<loadVars, running>>

Next ==
    \/ Load
    \/ \E k \in DOMAIN cfg.targets : Start(k)
    \/ \E ok \in BOOLEAN : Probe(ok)

Spec == Init /\ [][Next]_vars

-----------------------------------------------------------------------------
(* Properties.                                                             *)

\* Types of the variables.  Whatever a user wrote and Load accepted, the
\* interval is never below the base interval nor above the cap.
TypeOK ==
    /\ LoadTypeOK
    /\ running \in 0 .. Len(cfg.targets)
    /\ probeCount \in 0 .. MaxProbes /\ consecSuccess \in 0 .. probeCount
    /\ sinceFull \in 0 .. probeCount /\ successes \in 0 .. probeCount
    /\ running # 0 =>
         /\ currentInterval >= target.interval
         /\ target.adaptive => currentInterval <= target.maxInterval

\* "FullProbeEvery=10 means every 10th probe is full, the other 9 are light":
\* neither closer together nor further apart, whatever the outcomes.  (Stated
\* by max_tokens, where the two kinds differ in it.)
EveryNthIsFull ==
    [][running # 0 /\ target.fullProbeEvery > 0 /\ target.maxTokens # target.lightMaxTokens =>
         (params'.maxTokens = target.maxTokens
            <=> probeCount = 0 \/ sinceFull = target.fullProbeEvery - 1)]_loopVars

\* Prompt rotation defeats caching: the prompts of a list are taken in turn from
\* the first, none skipped and none taken twice, by full and light probes alike
\* and whatever the outcomes.
PromptsRotate ==
    [][running # 0 /\ target.prompts > 0 =>
         params'.prompt = IF params.prompt \in {NoPrompt, target.prompts - 1} THEN 0
                          ELSE params.prompt + 1]_loopVars

\* x doubled n times.
Doublings(x, n) ==
    LET after[k \in 0 .. n] == IF k = 0 THEN x ELSE 2 * after[k - 1]
    IN  after[n]

\* "After backoff_after consecutive successes, interval doubles each time, capped
\* at max_interval": the interval is decided by the successes since the last
\* failure, so that one failure resets it at once, whatever was reached.  A
\* negative backoff_after, which Load accepts, counts as successes in advance.
BackoffExact ==
    running # 0 /\ target.adaptive =>
        currentInterval =
            IF successes = 0 \/ successes <= target.backoffAfter THEN target.interval
            ELSE LET free == Doublings(target.interval, successes - target.backoffAfter)
                 IN  IF free <= target.maxInterval THEN free ELSE target.maxInterval
=============================================================================
