# llm-exporter: specifications and proofs

`llm-exporter` sends a small request to each configured LLM endpoint at an
interval and exposes what happened as Prometheus metrics and as JSON. It is a
small program with a good deal of concurrency: a goroutine per target, three
independent ways to trigger a hot reload, webhook goroutines that outlive what
started them, and four streaming protocols whose servers may stop talking at any
byte. This directory holds TLA+ models of it, TLC runs, and TLAPS proofs.

## 1. The system

| component | state | operations | talks to |
|---|---|---|---|
| scheduler (`internal/scheduler`) | `runners`, `alerter`, `cancel`, a `WaitGroup`; per loop `probeCount`, `consecSuccess`, `currentInterval` | `New`, `Run`, `Stop`, `Reload`; `runTarget`, `probe`, `buildParams`, `adaptiveNext` | probers, tracker, metrics, alerter |
| status tracker (`internal/status`) | map name -> status, under a RWMutex | `Update`, `GetAll`, `ConsecFailures`, `Reset` | read by `/api/v1/targets` and the alerter |
| alerter (`internal/alerter`) | none after `New` | `Check`, `sendWebhook` (own goroutine) | tracker, the webhook |
| metrics (`internal/metrics`) | global label sets | `With(...).Set/Observe/Inc`, `Reset` | written by loops, read by `/metrics` |
| process (`cmd/llm-exporter/main.go`) | `currentConfig`, root context, signal channel, debounce timer, HTTP server | `reload` from SIGHUP, `POST /-/reload`, file watcher; shutdown | scheduler |
| protocol clients (`internal/prober`) | local to one `Probe` call | OpenAI-compatible (and Azure), Responses, Anthropic, Google | the provider |
| SSE reader (`prober/sse.go`) | scanner position, current event | `Next` | the clients |
| error classification (`prober/errors.go`) | none | three classifiers | the clients |
| connect timings and headers (`prober/prober.go`, `response.go`) | times of one request, set by callbacks from several goroutines | `newConnectTrace`, `duration`, `populateFromResponse` | `net/http`, the clients |
| configuration (`internal/config`) | none | `Load`, `ToTarget`, `expandEnv` | main, `/probe` |
| `/probe` handler | none (a registry per request) | one request | a client, `currentConfig` |

What is hard here, and what makes each part correct:

* **Hot reload** replaces runners, alerter, metrics and statuses one after the
  other, relying on `Stop` to leave nobody alive meanwhile. Correct means: one
  generation of loops at a time, nobody alive between `Stop` and `Run`, no row
  of the old configuration shown after it, `currentConfig`, runners and alerter
  of one configuration when no reload is in progress, and a reload that returns.
* **Probe loops**: status and gauges agree when a probe is over, counters count
  every probe once, alerts fire on exactly the multiples of the threshold, under
  the webhook of the right configuration; full probes, prompts and backoff follow
  the documented pattern for every configuration `Load` accepts.
* **Probes** end, also when the provider stalls; the text and the token counts
  are the provider's, on whatever lines they were written; a failed response is
  never a success; every failure has a type.
* **Metrics** of a target describe its last probe, or the last one that had
  something to say, and each counter every probe once; a scrape may come between
  any two writes.
* **Connect time** is that of the host that answers, whatever other dial
  attempts, redirects and failures do to the callbacks.
* **`/probe`** answers each request from one configuration, about its own probe.
* **A configuration** that loads is one the rest of the program can run without
  checks of its own, and `Load` refuses no other.
* **The process** serves the file it loaded last, honours a SIGHUP that is
  dropped because another waits, notices a change during a reload and brings it
  to the loops, and ends.

The hazards, line by line, are in `PROJECT.json`.

## 2. Modules

| module | models | role |
|---|---|---|
| `Status` | `status.Tracker` | operators on the map |
| `Alerter` | `alerter.Alerter` | the decision of `Check` |
| `Scheduler` | `Run`, `Stop`, `Reload`, `runTarget`, `probe`, the callers in `main.reload`, webhook goroutines, the root context | main state machine; extends `Alerter` |
| `ServedConfig` | -- | abstract specification: what a reader of the endpoints is promised |
| `SchedulerProofs` | -- | theorems about `Scheduler`: types, exclusion, views, webhooks, and that it implements `ServedConfig` |
| `TargetConfig` | `config.Load` for one target | which settings pass, and with which defaults |
| `ModuleConfig` | `config.Module`, `ToTarget`, `prober.New` | the same for a module of `/probe`; extends `TargetConfig` |
| `ConfigFile` | `config.Load`, check by check | the steps of one load; extends `ModuleConfig` |
| `ProbeLoop` | `buildParams`, `adaptiveNext` and the counters of `runTarget` | state machine of a load and then of one loop; extends `ConfigFile` |
| `ProbeLoopProofs` | -- | theorems about `ProbeLoop` and the load it starts from |
| `ErrorTypes` | `errors.go` | operators |
| `SSEReader` | `sse.go` | operators: one line at a time |
| `StreamProbe` | the four clients and the check of `expect_pattern` | state machine of one probe against a provider; extends the two above |
| `StreamProofs` | -- | theorems about `StreamProbe` |
| `ConnectTimings` | `connectTimings` | state machine of one `http.Client.Do` |
| `ConnectTimingsProofs` | -- | theorems about `ConnectTimings` |
| `ResponseHeaders` | `response.go` | operators |
| `ProbeMetrics` | the writes of `Scheduler.probe`, `metrics.Reset` | state machine of one target's series; extends `ResponseHeaders` |
| `ProbeMetricsProofs` | -- | theorems about `ProbeMetrics` and the folds of `ResponseHeaders` |
| `ProbeHandler` | `probe_handler.go` | state machine of concurrent requests; extends `ModuleConfig`, `ErrorTypes` |
| `ProbeHandlerProofs` | -- | theorems about `ProbeHandler` |
| `Process` | `main.go` | signals, watcher, HTTP, `reload`, shutdown; abstract as to the scheduler |
| `ProcessProofs` | -- | theorems about `Process` |
| `Exporter` | `main.go` around the scheduler | composition: extends `Scheduler`, and implements `Process` |
| `ExporterProofs` | -- | the two refinements of the composition, and what follows from its parts; extends `SchedulerProofs`, instantiates `ProcessProofs` |
| `MC*` | -- | constants for TLC |

Some modules contain definitions whose comment starts with "Slip:". They are not
part of any specification. Each is the definition after it with a plausible
mistake; `PROJECT.json` pairs it with the property that must notice the mistake.

### Scheduler

A *generation* is one call of `Run`. `task[g][n]` is the program counter of the
goroutine of generation `g` for target `n`; `pc[r]` is the one of a goroutine `r`
inside `main.reload`. One step is one critical section of `Scheduler.mu` or
`Tracker.mu`, or one call that can block or that another goroutine can notice. So
`Stop` is three steps -- `ReadCancel` under the mutex, `CallCancel`, `Join` for
`wg.Wait` -- and a `wg.Wait` that has to wait is "blocked" until the last `Done`
makes it "released", and panics ("panicked") if it finds the counter raised
again before it returns (`Wake`). A goroutine that panicked there takes no
further step of the scheduler; what becomes of the process is `Process`'s subject
(`Recover`, `Crash`). `Reload` goes on with `ClearMetrics`, `Swap`,
`ForgetStatuses`, `Rerun`, and `reload` with `Publish`.

A probe is `JitterOver` or `TimerFires`, then `ProbeReturns` (the tracker), then
`RecordSuccess`, or `RecordFailure` and `CheckAlert`. The outcome is arbitrary;
what a client makes of a provider is `StreamProbe`'s subject. A select with both
cases ready may take either, so a cancelled context stops nothing by itself:
`Exit` and the two steps that start a probe are enabled together.

`gauge` stands for all series of a label set; the value is `llm_probe_success`.
`runners`, `alerter` and `loaded` are the configuration they were built from.
`alerts` counts webhooks per streak and is a history variable.

A trigger calls `reload` at once, whether one is in progress or not: no guard of the
model and no lock of the code makes it wait. The history variable `overlapped` records
whether two calls have ever overlapped. Many things hold exactly up to that moment, and
the properties say so: `~overlapped => ...`. `SchedulerOverlap`, `SchedulerPanic` and
`SchedulerHang` show what comes after. What does not depend on it is stated without:
`TypeOK`, `EveryTargetProbed`, `ShutdownDrains`.

### StreamProbe

The provider produces numbered pieces of text and frames around them; a frame is
written on one data line or on two with a comment between; it may stop in the
middle of a frame (`CloseStream`), stall (no step), reset the connection, or
answer with an error. The client reads one line at a time through `SSEReader`.
Each client's loop is an operator from (result, event, document) to result, and
`Dispatch` is the body of the loop. A document is decoded if its pieces are the
lines of one document in order, which is what joining them with a newline and
decoding JSON comes to.

The provider may also send an event type without data, which the reader keeps
until a data line comes, and Anthropic's `error` event.
`said`, `pieces`, `cut` and `interrupted` are history: what the provider did and
what broke. A provider has at most one terminal frame, and sends the next frame
when the last was read; nothing a client does depends on what waits behind the
line it reads, so this loses no behaviour of a client.

A usage object is a record of the six token counts of `ProbeResult` under their
names there; what a protocol does not count the client drops (`Copied`). The text of
a body in one piece is given: the walk of `OutputText` over the items is left out.

### ConfigFile, ModuleConfig, ProbeLoop

`ConfigFile` walks a document as `Load` does: the modules in any order (a Go map),
the targets in theirs, one stage of checks per step, defaults written into `cfg`
on the way, the first failed check ends it. `doc` keeps the document as it was.
`TargetConfig` and `ModuleConfig` say as one predicate what the walk comes to;
`ProbeHandler` starts from those, and `LoadsExactly` says that it may. The document
is what the YAML parser makes of the file after `expandEnv`.

`ProbeLoop` goes on from there: once a configuration has loaded, the loop of any of
its targets may `Start`, and one step is one turn of it. A prompt is its index.
`successes`, the number of successes since the last failure, is history kept from the
outcomes alone; `BackoffExact` compares the interval with it, and not with the
counter the code keeps.

### ConnectTimings, ProbeMetrics

A step of `ConnectTimings` is one callback of `httptrace`, one reading of the
clock, or a step of the transport between them. A dial attempt is known by its
host and number; its end may be reported long after another attempt has won, up
to the return of `Do`. `began` and `up` are history: the set-up time of the host
at hand as an observer with a trace of its own would measure it.

In `ProbeMetrics` a probe's outcome is given, and the writes of the two branches
of `Scheduler.probe` are a list that is worked off one by one. A scrape reads the
durations and the error series one by one too, in any order, with writes in between
(`Scrape`; `Registry.Gather` collects the vectors separately), and `meanwhile`
counts the durations written after it has read them. `Reset` clears one vector per
step. A header holds any integer, as `strconv.Atoi` reads it, or none. That probes of
a target and resets do not overlap is `Scheduler`'s `ReloadIsExclusive`.

### ProbeHandler

A handler's local variables are functions of the request. `Publish` is
`currentConfig.Store` by whatever reload; only documents that load are
published. The provider may never answer; `HangUp` cancels the request's context. A
probe that is cut short, by the deadline or by the client, ends as far as the answer
had come (`CutShort`): no answer, a body with status 200 that cannot be read, or an
error status whose body tells nothing.

### Process

A configuration is the version of the file it was read from. The signal channel
has one place, plus a signal handed directly to a goroutine that waits for one
(`Notify`). `Scheduler.Reload` is one step here, since `Scheduler` takes it
apart. No trigger waits for a reload in progress; `overlapped` is history, as in
`Scheduler`. Once it is TRUE, the wait inside a reload may block for ever or
panic, so nothing is assumed to make that step happen any more, and `Recover` (in a
handler) and `Crash` (in any other goroutine) are what a panic leads to. `cancel()`
and `server.Shutdown` are two steps. Each firing of the debounce timer has a
goroutine of its own, as in the code; `Timers` are those at work at once. The watcher
adds the directory some time after the first load (`StartWatching`); a watcher that
cannot is "off".

### Exporter

`Exporter` adds the variables of `Process` that the scheduler does not have, and
maps the rest: where a goroutine is in `reload` to the four places `Process` knows,
`runners` to `scheduled`, `rootDone` to `cancelled`. Triggers, `config.Load` and the
cancellation are joint steps; the scheduler's own steps -- `ReadCancel` .. `Swap`,
the loops, the webhooks -- are stutters of `Process` but for `Swap` and `Publish`.
`Panicked` joins what `Process` says of a panic with the caller in which it happens: a
client whose handler panicked is free again (`outside` is "recovered"), any other
goroutine takes the process with it.
Here the loops are really there, so that a reload has to wait for them, and an
end of the process cuts them off.

## 3. Runs

| run | instance | shows |
|---|---|---|
| `SchedulerSerial` | two targets, one reload caller, two generations, two probes per loop | `ReloadIsExclusive`, `NoStaleTargets`, `SettledAgrees`; implements `ServedConfig`; `ReloadReturns`, `EveryTargetProbed`, `ShutdownDrains` |
| `SchedulerAlerts` | one target, five probes per loop, three generations of three configurations (threshold 2, 1, none) | `OneGeneration`, `ViewsAgree`, `CountsAgree`, `AlertsExact`, `PostsConsistent` |
| `StreamProbe` | every protocol, streams of up to three frames | `FailuresNamed`, `TextExact`, `UsageExact`, `FailureStands`, `ProbeEnds` |
| `ProbeLoop` | every target at its limits; up to three targets, two modules, a webhook; twelve probes | `LoadsExactly`, `Runnable`, `EveryNthIsFull`, `PromptsRotate`, `BackoffExact` |
| `Process` | four goroutines that can reload (signal, a handler, two timer callbacks), three signals, two file versions | `ServesLastLoaded`, `HupHonoured`, `ChangeNoticed`, `ShutdownExits` |
| `Exporter` | one target, the same four goroutines, one signal, three generations, two file versions of which one does not load | implements `Process`; `ChangeServed` |
| `ProbeMetrics` | three probes of 23 kinds, a reset, scrapes | `GaugesLatest`, `CountersExact`, `ErrorsWithinDurations`, `SideChannelLatest` |
| `ConnectTimings` | one host or two, two dial attempts each, six clock readings | `SetupTimeExact`, `SetupTimeBounded` |
| `ProbeHandler` | two requests, four files of which one does not load | `OneConfigPerRequest`, `AnswerIsOwn`, `StallEnds`, `HangUpEnds` |
| `SchedulerHang` | two reload callers, four generations | violated: `LoneStopEnds` |
| `StreamTimeout` | the OpenAI client, one frame | violated: `InterruptionNamed` |
| `ProcessTerm` | as `Process`, one file version | violated: `TermExits` |

`SchedulerSerial` and `StreamProbe` check `TypeOK` as well. The type invariants of
`ProbeLoop`, `Process`, `ProbeMetrics`, `ConnectTimings` and `ProbeHandler` hold in
the same instances; to see it, add `TypeOK` to the invariants of the configuration.

**Further questions.** These configurations are kept beside the runs. Each asks
whether what a doc, a comment or a help text says holds as it is written, and TLC
answers with a counterexample (`tlc -config <name>.cfg MC<module>`); the runs above
say what does hold in its place.

| configuration | module | property | what is written | what the code does |
|---|---|---|---|---|
| `SchedulerOverlap` | `Scheduler` | `LoopsOfOneRun` | DESIGN.md:517 | nothing serialises two reloads: two generations of loops run |
| `SchedulerPanic` | `Scheduler` | `NoWaitGroupPanic` | the rule of `sync.WaitGroup` | of two overlapping reloads one calls `wg.Add` after the other's wait was released and before it has returned: `Wait` panics |
| `StreamGoogle` | `StreamProbe` | `ValidationHonest` | README.md:550 | the other parts of the first chunk with text are skipped, so `expect_pattern` can miss what was said; `TextExact` says that nothing else is |
| `StreamOverloaded` | `StreamProbe` | `OverloadNamed` | README.md:542 | error bodies are classified, error events are not looked at |
| `ProcessRequests` | `Process` | `RequestsFinished` | DESIGN.md:486 | `ListenAndServe` returns when `Shutdown` is called; `main` does not wait for it to finish |
| `ProcessStartup` | `Process` | `EveryChangeNoticed` | main.go:35 | the watcher hears of no change before it has added the directory |
| `ProcessOverlap` | `Process` | `MostRecentlyLoaded` | main.go:29 | of two overlapping reloads the one with the older file may store last |
| `ExporterShutdown` | `Exporter` | `LoopsStopped` | DESIGN.md:425 | `main` neither calls `Stop` nor waits |
| `ProbeHeadersStale` | `ProbeMetrics` | `RateLimitAbsentUnreported` | metrics.go:92 | a budget stays when an answer has no header |
| `ProbeTokensStale` | `ProbeMetrics` | `TokensOfLastProbe` | metrics.go:52 | a failed probe writes no token gauge, whatever it consumed |
| `ConnectFormula` | `ConnectTimings` | `DocumentedDuration` | DESIGN.md:204 | the end is the first of three times that is there, not the largest |
| `ConnectRedirect` | `ConnectTimings` | `SetupTimeNotNegative` | README.md:506 | all hosts share one trace; from https to http the end is the first host's, the beginning the second's (`Scheduler.probe` drops what is not positive, `/probe` shows it) |
| `ProbePattern` | `ProbeHandler` | `PatternHonoured` | README.md:550 | `expect_pattern` is matched in `Scheduler.probe`, which a request to `/probe` does not go through |

Deadlock is checked in the `Scheduler` runs (a reload may always begin and fail to
load, so the check guards the model, not the code) and switched off in the others,
which do stop: the probe is over, the process has ended, `MaxProbes` is reached.
Where stopping would be an error a liveness property says so.

**Bounds.** `MaxGens` = 2 is a first start and one reload, and every property of
`SchedulerSerial` speaks of two configurations at most; 3, in `SchedulerAlerts`, adds
a reload after a reload. 4 with two callers is the least in which two reloads overlap
and a third then stops what they left; with less, a reload can still hang because it
read `s.cancel` before the other's `Run`, but then it was not alone, and
`LoneStopEnds` does not count it. Two probes per loop are the least with which one
starts on a context that is cancelled already (`TimerFires` beside `Exit`). In the
trace of `SchedulerHang` the loop that is left stops at `MaxProbes`; in the program
it probes for ever, and is waited for all the same.
`MaxProbes` = 5 with thresholds 1
and 2 passes two multiples and a reset. `LoadSucceeds` applies `MaxGens`, so a
bound never cuts a reload off half-way. `MaxFrames` = 3 is a usage report, text
and a terminal frame, or two reports in either order with text; together with two
writings of a frame and a cut at every line it has every pair of adjacent frames.
Of two usage reports each says more than the other in some count, and one has no
cached tokens. Twelve probes are the least common multiple of the cadences and rotations used.
Three signals are the least with which one is taken, one waits and one is dropped.
Two timer goroutines, one for each change of the file, are as many as can be needed:
a callback never waits for another's goroutine.
In `Exporter` a client may ask for a reload only while `MaxGens` leaves room for
those the watcher and the signals may still bring (`MayCome`), so the bound never
stands between a change and the loops. Six readings of the clock give the query,
two dials, a handshake, a late end and the return a time of their own. Three
probes are an old value, a newer one and one that says nothing; with a reset in
any place. Two requests are the least that can be mixed up.

**Fairness.** Goroutines that can run do run (weak fairness of a reload caller's
and a loop's steps: the Go scheduler is preemptive and fair). Weak fairness of a
`wg.Wait` asks nothing as long as it is blocked. A probe returns
because it has a deadline. `Exit` is strongly fair: a select with several ready
cases chooses uniformly, so it does not avoid `ctx.Done` forever. In
`StreamProbe` the only fair client steps are the timeout and what follows it:
`ProbeEnds` does not depend on the provider. In `Process` nobody outside owes
anything; a handler may take forever. That `Scheduler.Reload` returns is assumed
there only as long as no two reloads have overlapped (`~overlapped /\ Reload(r)`), which
is what `ReloadReturns` shows of `Scheduler`; so `HupHonoured` is promised up to the
first overlap (the signal goroutine may be stuck in its own reload after it), while
`ChangeNoticed` and `ShutdownExits` need no reload to return and are promised always. In `ProbeHandler` the same holds for the
provider (`Answered` has no fairness) and for the client: what is fair is a
handler that can go on, a deadline that exists, a context that is cancelled.
`Exporter` has the fairness of its two parts, and no more.

**What the violated runs mean.**

* `SchedulerHang`: `Scheduler.mu` protects single fields and `Run`, not `Reload`.
  Two callers pass `wg.Wait` together and each starts a generation, 2 and 3; `s.cancel`
  knows the one started last, and every target is probed twice
  (`SchedulerOverlap`). Then one of them reloads again, with nobody else in `reload`:
  `Stop` reads `s.cancel`, cancels generation 3 and waits for both. Nobody can
  cancel generation 2, so `wg.Wait` and the reload never return, although the
  comment of `Stop` says that it cancels all goroutines and waits for them.
* `StreamTimeout`: every error while the body of an answer is read is `parse_error`, a
  timeout and a cancelled context too: in one piece, as in the trace
  (`openai_compat.go:222-228`), and in a stream (`openai_compat.go:119`).
* `ProcessTerm`: one buffer place for three signals, and a goroutine that does
  not receive while it reloads: a SIGTERM behind a SIGHUP is dropped.

## 4. Proofs

Everything below holds for any values of the constants that meet the named
assumptions, and TLC evaluates these on the runs:

| assumption | module | what it asks, and why the code gives it |
|---|---|---|
| `ConfigAssumption`, `BoundAssumption` | `Scheduler` | types; a first start and a probe fit the bounds |
| `CompositionAssumption` | `Exporter` | who reloads: the signal goroutine, handlers and timers; a configuration is a version of the file that loads, and the first one does (or `main` exits) |
| `ProcessAssumption` | `Process` | the same versions |
| `TargetAssumption`, `ProviderAssumption` | `StreamProbe` | types; a report may be empty; an error status is neither 0 nor 200 |
| `DocumentsAssumption` | `ConfigFile` | types of a parsed file: its modules are a finite map, its targets a list |
| `LoopAssumption` | `ProbeLoop` | the bound is a number |
| `HandlerAssumption` | `ProbeHandler` | types, and an answer has an error type exactly if it is no success: `StreamProofs!EveryFailureNamed` |
| `RouteAssumption`, `ClockAssumption` | `ConnectTimings` | a request goes to at least one host; the clock moves |
| `ProbeAssumption`, `MetricsBoundAssumption` | `ProbeMetrics` | types; the same of a result, and only a request that cannot be built takes no time |

| theorem | states | strengthening |
|---|---|---|
| `SchedulerProofs!TypeCorrect` | `TypeOK` | `CountBounded` |
| `SchedulerProofs!ExclusiveReload` | `ReloadIsExclusive`, `OneGeneration` | `Exclusion` |
| `SchedulerProofs!SettledAgreement` | `SettledAgrees` | `Exclusion`, `Agreement` |
| `SchedulerProofs!NothingStale`, `EndpointsAgree`, `ProbesCounted` | `NoStaleTargets`, `ViewsAgree`, `CountsAgree` | `Exclusion`, `Views` |
| `SchedulerProofs!WebhooksConsistent`, `AlertsCorrect` | `PostsConsistent`, `AlertsExact` | all of the above, `Streaks` |
| `SchedulerProofs!Implementation` | `ServesOneConfig` | `Exclusion`, `Views` |
| `ProcessProofs!TypeCorrect` | `TypeOK` | `Typed` |
| `ProcessProofs!LastLoadedServed` | `ServesLastLoaded` | `Typed`, `OneAtATime` |
| `ExporterProofs!ProcessImplemented` | `ImplementsProcess` | types, `Apart` |
| `ExporterProofs!SchedulerWithin`, `LoadedServed` | what the parts promise, of the whole | the theorems of the parts |
| `ProbeLoopProofs!TypeCorrect`, `ExactLoad`, `RunnableLoad` | `LoadTypeOK`, `LoadsExactly`, `Runnable` | `Walk` |
| `ProbeLoopProofs!FullProbes`, `RotatingPrompts` | `EveryNthIsFull`, `PromptsRotate` | `Counting` |
| `ProbeLoopProofs!ExactBackoff` | `BackoffExact` | `Backoff` |
| `ProbeLoopProofs!IntervalBounded` | `TypeOK` | `Counts`, `Backoff` |
| `ProbeHandlerProofs!TypeCorrect`, `OneConfiguration`, `OwnAnswer` | `TypeOK`, `OneConfigPerRequest`, `AnswerIsOwn` | `Handlers` |
| `StreamProofs!TypeCorrect` | `TypeOK` | `Settled` |
| `StreamProofs!EveryFailureNamed` | `FailuresNamed` | `Surroundings`, `Settled` |
| `StreamProofs!DeclaredFailureStands` | `FailureStands` | the same, `Uncut`, `Failing` |
| `StreamProofs!TextComplete`, `UsageComplete` | `TextExact`, `UsageExact` | all of these, `Course` |
| `ConnectTimingsProofs!TypeCorrect`, `ExactSetupTime`, `BoundedSetupTime` | `TypeOK`, `SetupTimeExact`, `SetupTimeBounded` | `IInv` |
| `ProbeMetricsProofs!LatestShown`, `CountedOnce`, `SideChannelShown` | `GaugesLatest`, `CountersExact`, `SideChannelLatest` | `Books` |
| `ProbeMetricsProofs!ErrorShareAtMostOne` | `ErrorsWithinDurations` | `Ledger`, `ScrapeFits` |

No theorem assumes that reloads do not overlap. Those about the scheduler other than
`TypeCorrect`, and what follows from them for the whole, are proved of a specification in
which any two may, and say what holds up to the first overlap, which the state
records; `SchedulerOverlap.cfg` and `ProcessOverlap.cfg` show that it does not hold after.
The invariants named in the last column were checked by TLC on the instances of
section 3 before they were proved.

The scheduler:

* **Types.** `TypeOK` of `Scheduler` is not inductive, because the bound on
  `probeCount` depends on where a loop is: `CountBounded` adds that a loop not
  at rest has a probe left. It holds with overlapping reloads too.
* **Exclusion.** `Exclusion` adds to what is wanted that all live loops are of
  the generation started last, that a caller released from `wg.Wait` finds it
  drained, and that callers exclude each other. The two cases with content are
  the last `Exit`, which releases the waiter, and `Rerun`, which may start loops
  because none is alive. Every later proof rests on it. The invariants have the
  form `~overlapped => ...`: the step that begins an overlap has nothing to show, and
  in every other one the guard of `BeginReload` that matters is that nobody else is in
  `reload`, which is what `~overlapped'` says.
* **Agreement.** `currentConfig`, `runners`, `alerter` and the configuration of
  the running loops are equal outside `Swap` .. `Publish`; inside, alerter and
  runners are those just loaded, and they spread one variable at a time.
* **Views.** What tracker and gauge hold for a loop depends on where it is in
  its probe (`LoopView`); between `ClearMetrics` and `Rerun` the gauge stays
  empty, and the tracker from `ForgetStatuses` on (`CleanSlate`), which is the
  case of `Rerun` of `NoStaleTargets`: a new generation finds nothing of the old.
* **Refinement.** `active` is the configuration of the loops alive, `rows` and
  `series` are the domains of tracker and gauge. `ClearMetrics` and
  `ForgetStatuses` map to `ClearSeries` and `ClearRows`, whose guards are
  `Exclusion`; `Rerun` maps to `Activate`, whose guard is `CleanSlate`; the last
  `Exit` to `Retire`; recording an outcome to `Report` and `Expose`.
* **Alerts.** `Streak` says how many webhooks a streak has started, by the
  progress of the loop: between the failure and `Check` the last failure does
  not count yet. `DueStep` is the arithmetic (k + 1 reaches a new multiple of
  the threshold exactly when it is divisible by it), and `OwnAlerter` says that
  the alerter a loop reads without `mu` is the one of its own configuration.

The process and the composition:

* **Process.** As long as there is one caller at a time (`OneAtATime`), what a caller has read is what it
  will publish, and everybody else is outside `reload`; so `scheduled`, `current` and
  the version loaded last are equal when nobody is inside.
* **Composition.** A step of `Scheduler` is a step of `Process` or none: which
  one depends on where the caller is, and `Apart` says that a goroutine is known
  to one of the two modules at a time (it waits for something outside, or it is in
  `reload`), so that the two program counters are one. It holds with overlapping
  reloads, hangs and panics included. The lemma `SchedulerImplemented` is the other
  direction: each joint step was written as a step of `Scheduler`. The theorems of
  `SchedulerProofs` and `ProcessProofs` then hold of the whole.

Configuration and loops:

* **Load.** `Walk` says what has been checked and defaulted up to the place the
  walk has come to: modules outside `unchecked` are accepted and completed, targets
  before `index` are (`Targets`), the one at `index` as far as its stages are over,
  and `seenNames` are the names of the ones before, which differ (`Distinct`).
  A refusal is the failure of one stage (`Refusals`), and each stage is a conjunct of
  `Valid`; that is the part of `LoadsExactly` that says `Load` refuses no other.
* **Loops.** `Counting` ties the counters of `runTarget` to the history of probes.
  The interval is a recursive function of the successes in a row (`Doubled`).
  The successor case of a statement about it is an induction over a *set*: the
  lengths at which it fails have a least element (the natural numbers are well
  founded), and there it does not fail. This needs no operator as a parameter.
* **`/probe`.** `Local` says for each place of a handler which of its variables hold
  what, in terms of `arrived`; a publication touches none of them. `AcceptedCanProbe`
  shows that `prober.New` accepts what `Load` does.

One probe:

* **Outcomes.** A result is `Going` (no verdict) while the client reads and
  `Named` from its return on; one lemma for each way to end shows that it leads
  from one to the other. The lemmas about `errors.go` show that an HTTP class is
  never one of the network's.
* **Declared failures.** From the moment the provider has sent a failure frame,
  the lines not yet read are a suffix of it and the reader holds what was read
  (`Ahead`), until the blank line delivers the event and the client ends with
  `api_error`. A stream that is closed without being cut keeps those lines.
* **Text and counts.** Both properties speak of the provider's whole stream, `said`.
  `Heard` says what a client has of its text and counts after the first h frames, by
  the rule of its protocol, and `AbsorbHeard` adds a frame. `Delivery` says that either
  the reader is at rest and all frames are heard, or all but the last, whose parts are
  those the reader holds followed by those on the way (`Pending`). A frame follows the one
  before only when that one is read, `Script` says that a terminal frame is the last, and
  `Conclusion` that what the code does after its loop leaves `TextExact` and
  `UsageExact`. For Responses this needs that the last frame of a stream that ends
  well is `response.completed`, which is `Failing`: a declared failure never gets there.
  The largest of the counts, for Anthropic, grows by one report at a time
  (`LargestStep`), as does the last report that counts for OpenAI and Google.
* **Connect time.** Times of earlier hosts stay in the shared trace. `Named` says that
  a host with a name overwrites the beginning, `Secured` that a host over https
  overwrites the end; a literal address after a redirect is why `SetupTimeExact` asks
  for names. `FirstHost` is the same without a redirect, where nothing is left over, and
  a dial that ends late can only move the end of a plain connection.

The series:

* **Books.** The registry is what the writes of all probes since the last reset come
  to, less those still pending: for a counter its value plus the pending writes
  is the number of probes that raise it (`Balance`), for a gauge the last write in
  `written` is the value (`Sequences`, `Inventory`). `Queue` says that what is pending is
  the end of the list of the last probe, `Sweep` how far a reset has come.
* **Rate limits and certificates.** The folds of `response.go` are functions on the
  subsets of an index set. `ProbeMetricsProofs` shows by induction over these subsets,
  as a set again, that there is one such function (the lemma writes it down, and
  any other agrees with it), hence that the fold finds the first name that reports,
  and the earliest certificate.
* **Errors and durations.** At every moment of a scrape each error series read so far is at
  most the failures of its own type that have been recorded up to now; these sets are
  disjoint, so the sum is at most the size of their union (`SumOfSizes`), and
  `DurationFirst` says that the duration of each of these probes has been written:
  `Scheduler.probe` observes it before it increments the error counter (`Ledger`).
  `ScrapeFits` adds that counters only grow while a scrape goes on, and that the
  durations there are now are those it has read and those written `meanwhile`. So a
  scrape that reads the durations last shows a share of errors of at most one; one that
  reads them first may be ahead by what was recorded while it went on.

## 5. Only model-checked

* Liveness (TLAPS does not reason about fairness or ENABLED): `ReloadReturns`,
  `EveryTargetProbed`, `ShutdownDrains`, `ProbeEnds`, `HupHonoured`, `ChangeNoticed`,
  `ShutdownExits`, `ChangeServed`, `StallEnds`, `HangUpEnds`.
* The violated properties, which are counterexamples.

All invariants and all action properties of the passing runs are proved. Three remarks on
what is stated. `FailureStands` is about streams: the client for an answer in one piece
does not look at the status of a Responses object at all. `BackoffExact` is about
numbers without width: in 64 bits of nanoseconds doubling can overflow only with a
`max_interval` of more than 146 years. `UsageExact` lets a final object of Responses that counts nothing leave the
counts at zero, whatever details it has, because `applyResponsesUsage` returns early then.

## 6. Not modelled, and why

* The payloads and URLs of requests, logging, wording of errors: data that no
  property is about.
* `expandEnv` and the YAML parser: text to text; a document starts after them.
* The number a histogram or a gauge of `/probe` shows for a time: it is copied.
* A provider that ends its stream without a terminator is modelled, but nothing
  is promised of it: the code takes what came for complete.
* Delivery of webhooks: the code promises neither delivery nor order.
* Version metadata, dashboards, container files: no behaviour.
* Failure of `ListenAndServe` at the start, of `fsnotify`, and `--validate`: the
  process ends, or goes on without a watcher.

## 7. Plan

1. (done) `Scheduler` with `ServedConfig` and its exclusion proof; `StreamProbe`
   with `SSEReader` and `ErrorTypes`; `ProbeLoop` with `TargetConfig`; `Process`.
2. (done) `ProbeMetrics` and `ResponseHeaders`; `ConnectTimings`;
   `ConfigFile` and `ModuleConfig`; `ProbeHandler`; `Exporter`; error events,
   bare event types and all six token counts in `StreamProbe`; the watcher's start in `Process`.
3. (done) Prove the safety properties of `Scheduler`, `ProbeLoop`, `ProbeMetrics`,
   `ProbeHandler`, `Process`, `ConnectTimings` and `StreamProbe`; the refinements
   `Scheduler` to `ServedConfig` and `Exporter` to `Process`.
4. Left: the steps of an argument for liveness that are safety, such as a bound
   that every step of a drain lowers. The fairness itself stays with TLC.
