----------------------------- MODULE Scheduler ------------------------------
(***************************************************************************)
(* The probe scheduler (internal/scheduler) together with the callers of   *)
(* main.reload, the status tracker, the alerter and the part of the metric *)
(* registry that tells targets apart.                                      *)
(*                                                                         *)
(* Processes: main (one step, the first Run), a set Reloaders of           *)
(* goroutines that may call reload() -- one per POST /-/reload, the signal *)
(* goroutine, the watcher's timer callbacks -- and one goroutine           *)
(* runTarget per generation and target.  A generation is one call of       *)
(* Scheduler.Run: its context, and the goroutines it starts.               *)
(*                                                                         *)
(* Grain: one step per critical section of Scheduler.mu or Tracker.mu and  *)
(* per call that can block or whose effect another goroutine can see.      *)
(***************************************************************************)
EXTENDS Alerter, FiniteSets

CONSTANTS
    Names,            \* target names
    Configs,          \* contents the config file can have
    TargetsOf,        \* [Configs -> SUBSET Names]: the targets of a config
    LabelOf,          \* [Configs -> [Names -> LabelSets]]
    Threshold,        \* [Configs -> Nat]: webhook.consecutive_failures, 0 = none
    Reloaders,        \* goroutines that may call reload()
    MaxGens,          \* bound: calls of Run
    MaxProbes         \* bound: probes of one goroutine

ASSUME ConfigAssumption ==
    /\ TargetsOf \in [Configs -> SUBSET Names]
    /\ LabelOf \in [Configs -> [Names -> LabelSets]]
    /\ Threshold \in [Configs -> Nat]

ASSUME BoundAssumption ==
    /\ MaxGens \in Nat \ {0}
    /\ MaxProbes \in Nat \ {0}

VARIABLES
    runners,        \* Scheduler.runners, as the config they were built from
    alerter,        \* Scheduler.alerter, as the config it was built from
    cancel,         \* Scheduler.cancel: the generation it cancels, 0 = nil
    gens,           \* number of calls of Run so far
    genConfig,      \* the runners generation g was started with
    cancelled,      \* generations whose own context is cancelled
    rootDone,       \* main's context is cancelled
    task,           \* where the goroutine of (generation, target) is
    probeCount,     \* its local probeCount
    tracker,        \* Scheduler.tracker
    gauge,          \* llm_probe_success: (name, label set) -> up or down
    posts,          \* webhook goroutines in flight
    alerts,         \* history: webhooks started in the target's current streak
    pc,             \* where a reload caller is
    loaded,         \* reload's local cfg
    seen,           \* Stop's local cancel
    currentConfig,  \* main.currentConfig
    overlapped      \* history: two calls of reload() have overlapped

schedVars  == <<runners, alerter, cancel>>
ctxVars    == <<gens, genConfig, cancelled, rootDone>>
taskVars   == <<task, probeCount>>
viewVars   == <<tracker, gauge, posts, alerts>>
callerVars == <<pc, loaded, seen, currentConfig, overlapped>>
vars == <<schedVars, ctxVars, taskVars, viewVars, callerVars>>

Gens == 1 .. MaxGens

\* Points of runTarget and probe.  "unborn": not started.  "jitter": in the
\* startup select.  "probing": inside prober.Probe.  "succeeded", "failed":
\* tracker updated, metrics not yet.  "checking": before alerter.Check.
\* "waiting": in the timer select.  "done": returned, wg.Done called.
TaskStates == {"unborn", "jitter", "probing", "succeeded", "failed",
               "checking", "waiting", "done"}

\* Points of reload, Reload, Stop and Run.  "blocked" and "released" are the
\* two halves of a wg.Wait that had to wait.  "panicked": the wait has panicked,
\* and the goroutine is gone.
CallerStates == {"idle", "loading", "stopping", "cancelling", "joining",
                 "blocked", "released", "clearing", "swapping",
                 "forgetting", "running", "publishing", "panicked"}

Post == [name : Names, label : LabelSets, failures : Nat, hook : Configs]

Live(g, n) == task[g][n] \notin {"unborn", "done"}

\* Nobody alive: the WaitGroup's counter is zero.
Drained == \A g \in Gens, n \in Names : ~Live(g, n)

\* Slip: the child context derived from context.Background().
CancelledByOwnOnly(g) == g \in cancelled

\* ctx.Err() # nil for the context of generation g.
Cancelled(g) == rootDone \/ g \in cancelled

Label(g, n) == LabelOf[genConfig[g]][n]

-----------------------------------------------------------------------------
\* main has loaded a config and built the scheduler from it.
Init ==
    /\ runners \in Configs
    /\ alerter = runners
    /\ currentConfig = runners
    /\ cancel = 0
    /\ gens = 0
    /\ genConfig = [g \in Gens |-> runners]
    /\ cancelled = {}
    /\ rootDone = FALSE
    /\ task = [g \in Gens |-> [n \in Names |-> "unborn"]]
    /\ probeCount = [g \in Gens |-> [n \in Names |-> 0]]
    /\ tracker = EmptyMap
    /\ gauge = EmptyMap
    /\ posts = {}
    /\ alerts = [n \in Names |-> 0]
    /\ pc = [r \in Reloaders |-> "idle"]
    /\ loaded = [r \in Reloaders |-> runners]
    /\ seen = [r \in Reloaders |-> 0]
    /\ overlapped = FALSE

-----------------------------------------------------------------------------
(* The reload path.                                                        *)

Goto(r, from, to) == pc[r] = from /\ pc' = [pc EXCEPT ![r] = to]

\* Slip: every goroutine captures the same loop variable.
StartGenerationCaptured ==
    /\ gens < MaxGens
    /\ gens' = gens + 1
    /\ cancel' = gens + 1
    /\ genConfig' = [genConfig EXCEPT ![gens + 1] = runners]
    /\ task' = [task EXCEPT ![gens + 1] =
                  [n \in Names |-> IF n = CHOOSE m \in TargetsOf[runners] : TRUE
                                   THEN "jitter" ELSE "unborn"]]
    /\ UNCHANGED <<runners, alerter, cancelled, rootDone, probeCount, viewVars>>

\* Run: a new child context whose cancel replaces the old one, and a
\* goroutine per runner; the whole of it under mu.
StartGeneration ==
    /\ gens < MaxGens
    /\ gens' = gens + 1
    /\ cancel' = gens + 1
    /\ genConfig' = [genConfig EXCEPT ![gens + 1] = runners]
    /\ task' = [task EXCEPT ![gens + 1] =
                  [n \in Names |-> IF n \in TargetsOf[runners] THEN "jitter"
                                   ELSE "unborn"]]
    /\ UNCHANGED <<runners, alerter, cancelled, rootDone, probeCount, viewVars>>

\* main calls Run before anything that could trigger a reload exists.
Start ==
    /\ gens = 0
    /\ StartGeneration
    /\ UNCHANGED callerVars

\* Some trigger calls reload().  Nothing makes it wait for a reload that is
\* already in progress.
BeginReload(r) ==
    /\ gens # 0
    /\ Goto(r, "idle", "loading")
    /\ overlapped' = (overlapped \/ \E s \in Reloaders \ {r} : pc[s] # "idle")
    /\ UNCHANGED <<schedVars, ctxVars, taskVars, viewVars, loaded, seen, currentConfig>>

\* config.Load or buildRunners fails: the error is returned.
LoadFails(r) ==
    /\ Goto(r, "loading", "idle")
    /\ UNCHANGED <<schedVars, ctxVars, taskVars, viewVars, loaded, seen, currentConfig, overlapped>>

\* Load and buildRunners succeed for the contents c of the file.  (The bound
\* MaxGens is applied here, so that no reload is cut off half-way.)
LoadSucceeds(r, c) ==
    /\ gens + Cardinality({s \in Reloaders : pc[s] \notin {"idle", "loading", "panicked"}})
         < MaxGens
    /\ Goto(r, "loading", "stopping")
    /\ loaded' = [loaded EXCEPT ![r] = c]
    /\ UNCHANGED <<schedVars, ctxVars, taskVars, viewVars, seen, currentConfig, overlapped>>

\* Stop reads cancel under mu ...
ReadCancel(r) ==
    /\ Goto(r, "stopping", "cancelling")
    /\ seen' = [seen EXCEPT ![r] = cancel]
    /\ UNCHANGED <<schedVars, ctxVars, taskVars, viewVars, loaded, currentConfig,
                   overlapped>>

\* Slip: cancel is assigned but not called.
CallCancelForgotten(r) ==
    /\ Goto(r, "cancelling", "joining")
    /\ UNCHANGED <<schedVars, ctxVars, taskVars, viewVars, loaded, seen, currentConfig, overlapped>>

\* ... calls it without mu ...
CallCancel(r) ==
    /\ Goto(r, "cancelling", "joining")
    /\ cancelled' = cancelled \cup ({seen[r]} \ {0})
    /\ UNCHANGED <<schedVars, gens, genConfig, rootDone, taskVars, viewVars,
                   loaded, seen, currentConfig, overlapped>>

\* Slip: Stop does not wait.
JoinWithoutWait(r) ==
    /\ Goto(r, "joining", "clearing")
    /\ UNCHANGED <<schedVars, ctxVars, taskVars, viewVars, loaded, seen, currentConfig, overlapped>>

\* ... and calls wg.Wait, which returns at once when the counter is zero.
Join(r) ==
    /\ Goto(r, "joining", IF Drained THEN "clearing" ELSE "blocked")
    /\ UNCHANGED <<schedVars, ctxVars, taskVars, viewVars, loaded, seen, currentConfig, overlapped>>

\* A waiter that Done released finds the counter raised again: Wait panics, and
\* that is the end of its goroutine.  (net/http recovers the panic of a handler;
\* that of another goroutine ends the process.)
Wake(r) ==
    /\ Goto(r, "released", IF Drained THEN "clearing" ELSE "panicked")
    /\ UNCHANGED <<schedVars, ctxVars, taskVars, viewVars, loaded, seen, currentConfig, overlapped>>

\* Slip: the metrics of the old targets are left in place.
ClearMetricsForgotten(r) ==
    /\ Goto(r, "clearing", "swapping")
    /\ UNCHANGED <<schedVars, ctxVars, taskVars, viewVars, loaded, seen, currentConfig, overlapped>>

\* metrics.Reset.
ClearMetrics(r) ==
    /\ Goto(r, "clearing", "swapping")
    /\ gauge' = EmptyMap
    /\ UNCHANGED <<schedVars, ctxVars, taskVars, tracker, posts, alerts,
                   loaded, seen, currentConfig, overlapped>>

\* Slip: the alerter of the old config is kept.
SwapKeepsAlerter(r) ==
    /\ Goto(r, "swapping", "forgetting")
    /\ runners' = loaded[r]
    /\ UNCHANGED <<cancel, alerter, ctxVars, taskVars, viewVars, loaded, seen, currentConfig, overlapped>>

\* runners and alerter are replaced, under mu.
Swap(r) ==
    /\ Goto(r, "swapping", "forgetting")
    /\ runners' = loaded[r]
    /\ alerter' = loaded[r]
    /\ UNCHANGED <<cancel, ctxVars, taskVars, viewVars, loaded, seen, currentConfig, overlapped>>

\* Slip: the statuses of the old targets are left in place.
ForgetStatusesForgotten(r) ==
    /\ Goto(r, "forgetting", "running")
    /\ UNCHANGED <<schedVars, ctxVars, taskVars, viewVars, loaded, seen, currentConfig, overlapped>>

\* tracker.Reset.
ForgetStatuses(r) ==
    /\ Goto(r, "forgetting", "running")
    /\ tracker' = EmptyMap
    /\ alerts' = [n \in Names |-> 0]
    /\ UNCHANGED <<schedVars, ctxVars, taskVars, gauge, posts,
                   loaded, seen, currentConfig, overlapped>>

Rerun(r) ==
    /\ Goto(r, "running", "publishing")
    /\ StartGeneration
    /\ UNCHANGED <<loaded, seen, currentConfig, overlapped>>

\* Slip: the /probe handler keeps the old config.
PublishForgotten(r) ==
    /\ Goto(r, "publishing", "idle")
    /\ UNCHANGED <<schedVars, ctxVars, taskVars, viewVars, loaded, seen, currentConfig, overlapped>>

\* Back in main.reload: currentConfig.Store(cfg).
Publish(r) ==
    /\ Goto(r, "publishing", "idle")
    /\ currentConfig' = loaded[r]
    /\ UNCHANGED <<schedVars, ctxVars, taskVars, viewVars, loaded, seen, overlapped>>

ReloadStep(r) ==
    \/ LoadFails(r)
    \/ \E c \in Configs : LoadSucceeds(r, c)
    \/ ReadCancel(r)
    \/ CallCancel(r)
    \/ Join(r)
    \/ Wake(r)
    \/ ClearMetrics(r)
    \/ Swap(r)
    \/ ForgetStatuses(r)
    \/ Rerun(r)
    \/ Publish(r)

-----------------------------------------------------------------------------
(* The probe loop of one target.                                           *)

Move(g, n, from, to) ==
    /\ task[g][n] = from
    /\ task' = [task EXCEPT ![g][n] = to]

\* The startup jitter is over.  A zero jitter skips the select, and a select
\* with both cases ready picks either, so a cancelled context does not
\* prevent this.
JitterOver(g, n) ==
    /\ Move(g, n, "jitter", "probing")
    /\ UNCHANGED <<schedVars, ctxVars, probeCount, viewVars, callerVars>>

\* The interval is over; the same select.
TimerFires(g, n) ==
    /\ probeCount[g][n] < MaxProbes
    /\ Move(g, n, "waiting", "probing")
    /\ UNCHANGED <<schedVars, ctxVars, probeCount, viewVars, callerVars>>

\* Either select sees ctx.Done: runTarget returns and wg.Done runs; the last
\* one releases everybody blocked in wg.Wait.
Exit(g, n) ==
    /\ Cancelled(g)
    /\ task[g][n] \in {"jitter", "waiting"}
    /\ task' = [task EXCEPT ![g][n] = "done"]
    /\ probeCount' = [probeCount EXCEPT ![g][n] = 0]
    /\ pc' = IF \A h \in Gens, m \in Names : Live(h, m) => h = g /\ m = n
             THEN [r \in Reloaders |-> IF pc[r] = "blocked" THEN "released"
                                       ELSE pc[r]]
             ELSE pc
    /\ UNCHANGED <<schedVars, ctxVars, viewVars, loaded, seen, currentConfig, overlapped>>

\* Probe returns (on a cancelled context it may still have succeeded, and
\* otherwise fails like any other probe); expect_pattern is applied; the
\* outcome is recorded in the tracker.
ProbeReturns(g, n, ok) ==
    /\ Move(g, n, "probing", IF ok THEN "succeeded" ELSE "failed")
    /\ tracker' = Updated(tracker, n, Label(g, n), ok)
    /\ alerts' = IF ok THEN [alerts EXCEPT ![n] = 0] ELSE alerts
    /\ UNCHANGED <<schedVars, ctxVars, probeCount, gauge, posts, callerVars>>

\* llm_probe_success and the other series of a target.
SetGauge(g, n, value) ==
    gauge' = [s \in DOMAIN gauge \cup {<<n, Label(g, n)>>} |->
                IF s = <<n, Label(g, n)>> THEN value ELSE gauge[s]]

CountProbe(g, n) == probeCount' = [probeCount EXCEPT ![g][n] = @ + 1]

RecordSuccess(g, n) ==
    /\ Move(g, n, "succeeded", "waiting")
    /\ SetGauge(g, n, "up")
    /\ CountProbe(g, n)
    /\ UNCHANGED <<schedVars, ctxVars, tracker, posts, alerts, callerVars>>

\* Slip: only successes touch the gauge.
RecordFailureKeepsGauge(g, n) ==
    /\ Move(g, n, "failed", "checking")
    /\ UNCHANGED <<schedVars, ctxVars, probeCount, viewVars, callerVars>>

RecordFailure(g, n) ==
    /\ Move(g, n, "failed", "checking")
    /\ SetGauge(g, n, "down")
    /\ UNCHANGED <<schedVars, ctxVars, probeCount, tracker, posts, alerts, callerVars>>

\* alerter.Check: reads s.alerter (without mu) and a snapshot of the status,
\* and starts a webhook goroutine with that snapshot.
Alert(n) ==
    IF Fires(Threshold[alerter], ConsecFailures(tracker, n))
    THEN /\ posts' = posts \cup {[name     |-> n,
                                  label    |-> tracker[n].label,
                                  failures |-> tracker[n].consecFailures,
                                  hook     |-> alerter]}
         /\ alerts' = [alerts EXCEPT ![n] = @ + 1]
    ELSE UNCHANGED <<posts, alerts>>

CheckAlert(g, n) ==
    /\ Move(g, n, "checking", "waiting")
    /\ Alert(n)
    /\ CountProbe(g, n)
    /\ UNCHANGED <<schedVars, ctxVars, tracker, gauge, callerVars>>

TaskStep(g, n) ==
    \/ JitterOver(g, n)
    \/ TimerFires(g, n)
    \/ Exit(g, n)
    \/ \E ok \in BOOLEAN : ProbeReturns(g, n, ok)
    \/ RecordSuccess(g, n)
    \/ RecordFailure(g, n)
    \/ CheckAlert(g, n)

-----------------------------------------------------------------------------
\* A webhook goroutine ends: delivered, refused or timed out.
PostEnds(p) ==
    /\ p \in posts
    /\ posts' = posts \ {p}
    /\ UNCHANGED <<schedVars, ctxVars, taskVars, tracker, gauge, alerts, callerVars>>

\* SIGINT or SIGTERM: main's context is cancelled.
CancelRoot ==
    /\ gens # 0
    /\ ~rootDone
    /\ rootDone' = TRUE
    /\ UNCHANGED <<schedVars, gens, genConfig, cancelled, taskVars, viewVars, callerVars>>

Next ==
    \/ Start
    \/ \E r \in Reloaders : BeginReload(r) \/ ReloadStep(r)
    \/ \E g \in Gens, n \in Names : TaskStep(g, n)
    \/ \E p \in posts : PostEnds(p)
    \/ CancelRoot

Spec == Init /\ [][Next]_vars

\* Goroutines are scheduled; a probe returns because it has a timeout; a
\* select with several ready cases picks each of them infinitely often.
Fairness ==
    /\ WF_vars(Start)
    /\ \A r \in Reloaders : WF_vars(ReloadStep(r))
    /\ \A g \in Gens, n \in Names :
         WF_vars(TaskStep(g, n)) /\ SF_vars(Exit(g, n))

FairSpec == Spec /\ Fairness

-----------------------------------------------------------------------------
(* Properties.                                                             *)

\* Types of the variables.
TypeOK ==
    /\ runners \in Configs /\ alerter \in Configs /\ currentConfig \in Configs
    /\ cancel \in 0 .. MaxGens /\ gens \in 0 .. MaxGens
    /\ genConfig \in [Gens -> Configs]
    /\ cancelled \subseteq Gens
    /\ rootDone \in BOOLEAN
    /\ task \in [Gens -> [Names -> TaskStates]]
    /\ probeCount \in [Gens -> [Names -> 0 .. MaxProbes]]
    /\ DOMAIN tracker \subseteq Names
    /\ \A n \in DOMAIN tracker : tracker[n] \in Entry
    /\ DOMAIN gauge \subseteq Names \X LabelSets
    /\ \A s \in DOMAIN gauge : gauge[s] \in {"up", "down"}
    /\ posts \subseteq Post
    /\ alerts \in [Names -> Nat]
    /\ pc \in [Reloaders -> CallerStates]
    /\ loaded \in [Reloaders -> Configs]
    /\ seen \in [Reloaders -> 0 .. MaxGens]
    /\ overlapped \in BOOLEAN

\* The probe loops alive are those of one call of Run: no target is probed by
\* two loops, and none by a loop of a replaced configuration.
LoopsOfOneRun ==
    \A g, h \in Gens : \A n, m \in Names : Live(g, n) /\ Live(h, m) => g = h

\* That is so at any time, as long as no two reloads have overlapped.
OneGeneration == ~overlapped => LoopsOfOneRun

\* From the return of Stop to the next Run nobody is alive who could write a
\* metric or a status between the two resets, or read the alerter while it is
\* replaced -- as long as no two reloads have overlapped.
ReloadIsExclusive ==
    ~overlapped =>
        \A r \in Reloaders :
            pc[r] \in {"clearing", "swapping", "forgetting", "running"} => Drained

\* wg.Wait never finds the counter raised after it was released: the rule of
\* sync.WaitGroup that a new Add happens after all Wait calls have returned.
NoWaitGroupPanic == \A r \in Reloaders : pc[r] # "panicked"

\* /api/v1/targets and /metrics only ever show targets of the generation
\* started last, under the labels of its configuration -- also in the middle
\* of a reload, when the two resets are separate steps -- as long as no two
\* reloads have overlapped.
NoStaleTargets ==
    ~overlapped =>
        /\ \A n \in DOMAIN tracker :
             n \in TargetsOf[genConfig[gens]] /\ tracker[n].label = Label(gens, n)
        /\ \A s \in DOMAIN gauge :
             s[1] \in DOMAIN tracker /\ s[2] = Label(gens, s[1])

\* Whenever a loop is back at its timer, the status endpoint and the metrics
\* endpoint agree on the outcome of its last probe, as long as no two reloads
\* have overlapped.
ViewsAgree ==
    ~overlapped =>
        \A g \in Gens, n \in Names :
            task[g][n] = "waiting" =>
                /\ n \in DOMAIN tracker
                /\ <<n, Label(g, n)>> \in DOMAIN gauge
                /\ gauge[<<n, Label(g, n)>>] = "up" <=> tracker[n].success

\* total_probes in the status of a target is the number of probes its loop
\* has made since the last reload, none lost and none counted twice, as long
\* as no two reloads have overlapped.
CountsAgree ==
    ~overlapped =>
        \A g \in Gens, n \in Names :
            /\ task[g][n] = "waiting" =>
                 tracker[n].totalProbes = probeCount[g][n]
            /\ task[g][n] \in {"succeeded", "failed", "checking"} =>
                 tracker[n].totalProbes = probeCount[g][n] + 1

\* The number of webhooks started in the current streak of a target is the
\* number of multiples of the threshold the streak has reached: no alert is
\* skipped, repeated, or sent under the threshold of another configuration,
\* as long as no two reloads have overlapped.
AlertsExact ==
    ~overlapped =>
        \A g \in Gens, n \in Names :
            task[g][n] = "waiting" =>
                alerts[n] = IF Threshold[genConfig[g]] = 0 THEN 0
                            ELSE tracker[n].consecFailures \div Threshold[genConfig[g]]

\* A webhook in flight -- it may outlive the reload that removed its target --
\* goes to the webhook of the configuration whose target it describes, as
\* long as no two reloads have overlapped.
PostsConsistent ==
    ~overlapped =>
        \A p \in posts :
            /\ p.name \in TargetsOf[p.hook]
            /\ p.label = LabelOf[p.hook][p.name]
            /\ Fires(Threshold[p.hook], p.failures)

\* With no reload in progress, /probe, the loops and the alerter all use the
\* same configuration, and Stop would cancel the loops that run, as long as
\* no two reloads have overlapped.
SettledAgrees ==
    ~overlapped /\ gens # 0 /\ (\A r \in Reloaders : pc[r] = "idle") =>
        /\ currentConfig = runners /\ alerter = runners
        /\ genConfig[gens] = runners
        /\ cancel = gens

\* A reload returns: no wait for the loops is forever, unless two reloads
\* have overlapped.
ReloadReturns ==
    \A r \in Reloaders : pc[r] = "loading" ~> pc[r] = "idle" \/ overlapped

\* "Stop cancels all running goroutines and waits for them to finish", said
\* of a Stop that nothing disturbs: no other reload is in progress when it
\* has cancelled what s.cancel still names.  Its wait ends, unless another
\* reload begins meanwhile.
LoneStopEnds ==
    \A r \in Reloaders :
        LET Alone == \A s \in Reloaders \ {r} : pc[s] \in {"idle", "panicked"}
        IN  (pc[r] = "joining" /\ seen[r] = cancel /\ Alone)
              ~> (pc[r] \notin {"joining", "blocked"} \/ ~Alone)

\* Every target of the configuration in use gets a status, unless a reload or
\* a shutdown comes first.
EveryTargetProbed ==
    \A n \in Names :
        (gens # 0 /\ n \in TargetsOf[runners]) ~>
            \/ n \in DOMAIN tracker
            \/ \E r \in Reloaders : pc[r] \notin {"idle", "panicked"}
            \/ rootDone

\* After the root context is cancelled every loop returns, those of a
\* generation that a reload still starts included.
ShutdownDrains == rootDone ~> Drained

\* What a reader of the two endpoints sees is one configuration at a time, as
\* long as no two reloads have overlapped.
Served == INSTANCE ServedConfig WITH
    active <- {genConfig[g] : g \in {h \in Gens : \E n \in Names : Live(h, n)}},
    rows   <- {<<n, tracker[n].label>> : n \in DOMAIN tracker},
    series <- DOMAIN gauge

ServesOneConfig == Served!Init /\ [][overlapped' \/ Served!Next]_(Served!vars)
=============================================================================
