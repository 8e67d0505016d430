--------------------------- MODULE ExporterProofs ---------------------------
(***************************************************************************)
(* The composition keeps what its two parts promise: every behaviour of    *)
(* the exporter is one of the scheduler and one of the process, so that    *)
(* what is proved about either holds of the whole.                         *)
(***************************************************************************)
EXTENDS Exporter, SchedulerProofs

USE CompositionAssumption DEF CompositionAssumption

\* The parts of the refinement mapping to Process, by name.
Places == [r \in Reloaders |-> Place(r)]
Cfgs   == [r \in Reloaders |-> Loaded(r)]

\* A goroutine is inside reload() or somewhere else, not both, unless it has
\* panicked there; and the file is one of its versions.
Apart ==
    /\ pc \in [Reloaders -> CallerStates]
    /\ outside \in [Reloaders -> {"idle", "closing", "stopping", "gone", "recovered"}]
    /\ loaded \in [Reloaders -> Configs]
    /\ \A r \in Reloaders : pc[r] \notin {"idle", "panicked"} => outside[r] = "idle"
    /\ \A r \in Reloaders : outside[r] = "recovered" => pc[r] = "panicked" /\ r \in Clients
    /\ file \in 0 .. MaxVersions

LEMMA SameCallers == Proc!Callers = Reloaders
BY DEF Proc!Callers, Proc!Signal

\* Where a goroutine is, case by case.
LEMMA PlaceOf ==
    ASSUME Apart, NEW r \in Reloaders
    PROVE  /\ pc[r] = "idle" => Place(r) = outside[r]
           /\ pc[r] = "loading" => Place(r) = "loading"
           /\ pc[r] \in {"forgetting", "running", "publishing"} => Place(r) = "storing"
           /\ pc[r] \notin {"idle", "loading", "forgetting", "running", "publishing", "panicked"}
                => Place(r) = "reloading"
           /\ pc[r] = "panicked" => Place(r) \in {"idle", "reloading"}
BY DEF Place, Apart

LEMMA ApartInit == ComposedInit => Apart
<1> SUFFICES ASSUME ComposedInit PROVE Apart
    OBVIOUS
<1>1. pc = [r \in Reloaders |-> "idle"] /\ loaded = [r \in Reloaders |-> runners]
      /\ runners \in Configs
    BY DEF ComposedInit, Init
<1>2. outside = [r \in Reloaders |-> "idle"] /\ file = 0
    BY DEF ComposedInit, Proc!Init
<1> QED BY <1>1, <1>2 DEF Apart, CallerStates

-----------------------------------------------------------------------------
(* A step of the scheduler, seen from the process.                         *)

\* What the process sees of the scheduler's variables, and what it has besides.
SeenPart  == <<Places, Cfgs, runners, currentConfig, rootDone, overlapped>>

LEMMA ProcStutter ==
    ASSUME UNCHANGED <<SeenPart, file, sigCh, changed, watcher, armed, listening, graceOver,
                       exited, signals, asked, termSent, read>>
    PROVE  UNCHANGED Proc!vars
BY DEF SeenPart, Places, Cfgs, Proc!vars, Proc!userVars, Proc!watchVars, Proc!reloadVars,
       Proc!stopVars

\* A caller of reload that takes a step inside it goes to another place or
\* stays; nobody else moves.
LEMMA CallerMoves ==
    ASSUME Apart, NEW r \in Reloaders, NEW from, NEW to \in CallerStates \ {"loading"},
           Goto(r, from, to), from \notin {"idle", "loading", "panicked"}, UNCHANGED <<outside, loaded, file>>
    PROVE  /\ Places' = [Places EXCEPT ![r] = Place(r)']
           /\ Cfgs' = [Cfgs EXCEPT ![r] = IF to = "idle" THEN 0 ELSE loaded[r]]
           /\ Places[r] = Place(r) /\ Cfgs[r] = loaded[r]
           /\ pc'[r] = to /\ pc[r] = from /\ outside[r] = "idle"
           /\ Apart'
<1>1. /\ pc' = [pc EXCEPT ![r] = to] /\ pc[r] = from /\ pc'[r] = to
      /\ \A s \in Reloaders \ {r} : pc'[s] = pc[s]
    BY DEF Goto, Apart
<1>2. \A s \in Reloaders \ {r} : Place(s)' = Place(s) /\ Loaded(s)' = Loaded(s)
    BY <1>1 DEF Place, Loaded
<1>3. Places' = [Places EXCEPT ![r] = Place(r)']
    BY <1>2 DEF Places
<1>5. outside[r] = "idle"
    BY <1>1 DEF Apart
<1>4. Cfgs' = [Cfgs EXCEPT ![r] = IF to = "idle" THEN 0 ELSE loaded[r]]
    <2>1. Loaded(r)' = IF to = "idle" THEN 0 ELSE loaded[r]
        BY <1>1, <1>5 DEF Loaded
    <2> QED BY <1>2, <2>1 DEF Cfgs
<1>6. Loaded(r) = loaded[r]
    BY <1>1, <1>5 DEF Loaded
<1>7. Apart'
    BY <1>1, <1>5 DEF Apart
<1> QED BY <1>1, <1>3, <1>4, <1>5, <1>6, <1>7 DEF Places, Cfgs

\* The steps of a reload that the process does not tell apart: the caller stays
\* in the scheduler, or in what follows the swap.
LEMMA CallerStays ==
    ASSUME Apart, NEW r \in Reloaders, NEW from, NEW to, Goto(r, from, to), from # "panicked",
           \/ {from, to} \subseteq {"stopping", "cancelling", "joining", "blocked", "released",
                                    "clearing", "swapping", "panicked"}
           \/ {from, to} \subseteq {"forgetting", "running", "publishing"},
           UNCHANGED <<outside, loaded, file>>
    PROVE  UNCHANGED <<Places, Cfgs>> /\ Apart'
<1>1. to \in CallerStates \ {"loading"} /\ from \notin {"idle", "loading"} /\ to # "idle"
    BY DEF CallerStates
<1>2. /\ Places' = [Places EXCEPT ![r] = Place(r)'] /\ Places[r] = Place(r)
      /\ Cfgs' = [Cfgs EXCEPT ![r] = loaded[r]] /\ Cfgs[r] = loaded[r]
      /\ pc'[r] = to /\ pc[r] = from /\ outside[r] = "idle"
      /\ Apart'
    BY <1>1, CallerMoves
<1>3. Place(r)' = Place(r)
    BY <1>2 DEF Place
<1>4. Places' = Places
    BY <1>2, <1>3 DEF Places
<1>5. Cfgs' = Cfgs
    BY <1>2 DEF Cfgs
<1> QED BY <1>2, <1>4, <1>5

LEMMA ReloadSeen ==
    ASSUME Apart, ~exited, NEW r \in Reloaders, ReloadStep(r), pc[r] # "loading",
           UNCHANGED worldVars
    PROVE  /\ Proc!Next \/ UNCHANGED Proc!vars
           /\ Apart'
<1>1. UNCHANGED <<file, sigCh, changed, watcher, armed, listening, graceOver, exited,
                  signals, asked, termSent, read, outside>>
    BY DEF worldVars
<1>2. CASE \/ ReadCancel(r) \/ CallCancel(r) \/ Join(r) \/ Wake(r) \/ ClearMetrics(r)
           \/ ForgetStatuses(r) \/ Rerun(r)
    <2>1. UNCHANGED <<runners, currentConfig, rootDone, loaded, overlapped>>
        BY <1>2 DEF ReadCancel, CallCancel, Join, Wake, ClearMetrics, ForgetStatuses, Rerun,
           StartGeneration, schedVars, ctxVars
    <2>2. UNCHANGED <<Places, Cfgs>> /\ Apart'
        BY <1>1, <1>2, <2>1, CallerStays
        DEF ReadCancel, CallCancel, Join, Wake, ClearMetrics, ForgetStatuses, Rerun
    <2>3. UNCHANGED SeenPart
        BY <2>1, <2>2 DEF SeenPart
    <2> QED BY <1>1, <2>2, <2>3, ProcStutter
<1>3. CASE Swap(r)
    <2>1. /\ runners' = loaded[r] /\ UNCHANGED <<currentConfig, rootDone, loaded, overlapped>>
          /\ Goto(r, "swapping", "forgetting")
        BY <1>3 DEF Swap, ctxVars
    <2>2. "forgetting" \in CallerStates \ {"loading"}
        BY DEF CallerStates
    <2>3. /\ Places' = [Places EXCEPT ![r] = Place(r)'] /\ Places[r] = Place(r)
          /\ Cfgs' = [Cfgs EXCEPT ![r] = loaded[r]] /\ Cfgs[r] = loaded[r]
          /\ pc'[r] = "forgetting" /\ pc[r] = "swapping" /\ outside[r] = "idle"
          /\ Apart'
        BY <1>1, <2>1, <2>2, CallerMoves
    <2>4. Place(r) = "reloading" /\ Place(r)' = "storing"
        BY <2>3 DEF Place
    <2>5. Cfgs' = Cfgs
        BY <2>3 DEF Cfgs
    <2>6. Proc!Reload(r)
        BY <1>1, <2>1, <2>3, <2>4, <2>5
        DEF Proc!Reload, Proc!Goto, Proc!userVars, Proc!watchVars, Proc!stopVars, Places, Cfgs
    <2>7. r \in Proc!Callers
        BY SameCallers
    <2> QED BY <2>3, <2>6, <2>7 DEF Proc!Next, Proc!Goroutines, Proc!ReloadStep
<1>4. CASE Publish(r)
    <2>1. /\ currentConfig' = loaded[r] /\ UNCHANGED <<runners, rootDone, loaded, overlapped>>
          /\ Goto(r, "publishing", "idle")
        BY <1>4 DEF Publish, schedVars, ctxVars
    <2>2. "idle" \in CallerStates \ {"loading"}
        BY DEF CallerStates
    <2>3. /\ Places' = [Places EXCEPT ![r] = Place(r)'] /\ Places[r] = Place(r)
          /\ Cfgs' = [Cfgs EXCEPT ![r] = 0] /\ Cfgs[r] = loaded[r]
          /\ pc'[r] = "idle" /\ pc[r] = "publishing" /\ outside[r] = "idle"
          /\ Apart'
        BY <1>1, <2>1, <2>2, CallerMoves
    <2>4. Place(r) = "storing" /\ Place(r)' = "idle"
        BY <1>1, <2>3 DEF Place
    <2>5. Proc!Store(r)
        BY <1>1, <2>1, <2>3, <2>4
        DEF Proc!Store, Proc!Goto, Proc!userVars, Proc!watchVars, Proc!stopVars, Places, Cfgs
    <2>6. r \in Proc!Callers
        BY SameCallers
    <2> QED BY <2>3, <2>5, <2>6 DEF Proc!Next, Proc!Goroutines, Proc!ReloadStep
<1>5. ~LoadFails(r) /\ ~ \E c \in Configs : LoadSucceeds(r, c)
    BY DEF LoadFails, LoadSucceeds, Goto
<1> QED BY <1>2, <1>3, <1>4, <1>5 DEF ReloadStep

\* A step of a loop: its last Done may release a caller, which the process does
\* not see.
LEMMA LoopUnseen ==
    ASSUME Apart, NEW g \in Gens, NEW n \in Names, TaskStep(g, n), UNCHANGED worldVars
    PROVE  UNCHANGED Proc!vars /\ Apart'
<1>1. UNCHANGED <<file, sigCh, changed, watcher, armed, listening, graceOver, exited,
                  signals, asked, termSent, read, outside>>
    BY DEF worldVars
<1>2. UNCHANGED <<runners, currentConfig, rootDone, loaded, overlapped>>
    BY DEF TaskStep, JitterOver, TimerFires, Exit, ProbeReturns, RecordSuccess, RecordFailure,
           CheckAlert, schedVars, ctxVars, callerVars
<1>3. /\ pc' \in [Reloaders -> CallerStates]
      /\ \A r \in Reloaders : pc'[r] = pc[r] \/ (pc[r] = "blocked" /\ pc'[r] = "released")
    <2>1. CASE Exit(g, n)
        BY <2>1 DEF Exit, Apart, CallerStates
    <2>2. CASE UNCHANGED pc
        BY <2>2 DEF Apart
    <2> QED BY <2>1, <2>2 DEF TaskStep, JitterOver, TimerFires, ProbeReturns, RecordSuccess,
            RecordFailure, CheckAlert, callerVars
<1>4. \A r \in Reloaders : Place(r)' = Place(r) /\ Loaded(r)' = Loaded(r)
    BY <1>1, <1>2, <1>3 DEF Place, Loaded
<1>5. UNCHANGED <<Places, Cfgs>>
    BY <1>2, <1>3, <1>4 DEF Places, Cfgs
<1>6. Apart'
    BY <1>1, <1>2, <1>3 DEF Apart
<1> QED BY <1>1, <1>2, <1>5, <1>6, ProcStutter DEF SeenPart

LEMMA SchedulerSeen ==
    ASSUME Apart, SchedulerStep
    PROVE  /\ Proc!Next \/ UNCHANGED Proc!vars
           /\ Apart'
<1>1. ~exited /\ UNCHANGED worldVars
    BY DEF SchedulerStep
<1>2. ASSUME UNCHANGED <<runners, currentConfig, rootDone, loaded, pc, overlapped>>
      PROVE  UNCHANGED Proc!vars /\ Apart'
    <2>1. UNCHANGED <<file, sigCh, changed, watcher, armed, listening, graceOver, exited,
                      signals, asked, termSent, read, outside>>
        BY <1>1 DEF worldVars
    <2>2. UNCHANGED <<Places, Cfgs>>
        BY <1>2, <2>1 DEF Places, Cfgs, Place, Loaded
    <2>3. Apart'
        BY <1>2, <2>1 DEF Apart
    <2> QED BY <1>2, <2>1, <2>2, <2>3, ProcStutter DEF SeenPart
<1>3. CASE Start
    BY <1>2, <1>3 DEF Start, StartGeneration, callerVars
<1>4. ASSUME NEW r \in Reloaders, ReloadStep(r), pc[r] # "loading"
      PROVE  (Proc!Next \/ UNCHANGED Proc!vars) /\ Apart'
    BY <1>1, <1>4, ReloadSeen
<1>5. ASSUME NEW g \in Gens, NEW n \in Names, TaskStep(g, n)
      PROVE  UNCHANGED Proc!vars /\ Apart'
    BY <1>1, <1>5, LoopUnseen
<1>6. ASSUME NEW p \in posts, PostEnds(p)
      PROVE  UNCHANGED Proc!vars /\ Apart'
    BY <1>2, <1>6 DEF PostEnds, schedVars, ctxVars, callerVars
<1> QED BY <1>3, <1>4, <1>5, <1>6 DEF SchedulerStep

-----------------------------------------------------------------------------
(* Steps of both, and of the process alone.                                *)

LEMMA TriggerSeen ==
    ASSUME Apart, Trigger
    PROVE  Proc!Next /\ Apart' /\ Next
<1>1. PICK r \in Reloaders :
          /\ Triggered(r)
          /\ \/ r = "signal" /\ Proc!ReceiveHup
             \/ r \in Timers /\ Proc!TimerFires(r)
             \/ r \in Clients /\ Proc!Request(r, "loading")
    BY DEF Trigger
<1>2. Next
    BY <1>1 DEF Triggered, Next
<1>3. Proc!Next
    BY <1>1 DEF Proc!Next, Proc!World, Proc!Goroutines
<1>4. pc' = [pc EXCEPT ![r] = "loading"] /\ pc[r] = "idle" /\ UNCHANGED <<outside, loaded>>
    BY <1>1 DEF Triggered, BeginReload, Goto
<1>5. Places[r] = "idle" /\ UNCHANGED file
    BY <1>1 DEF Proc!ReceiveHup, Proc!TimerFires, Proc!Request, Proc!Goto, Proc!userVars,
       Proc!Signal, Places
<1>6. outside[r] = "idle"
    BY <1>4, <1>5 DEF Places, Place
<1>7. Apart'
    BY <1>4, <1>5, <1>6 DEF Apart, CallerStates
<1> QED BY <1>2, <1>3, <1>7

LEMMA ReadSeen ==
    ASSUME Apart, NEW r \in Reloaders, ReadFile(r)
    PROVE  Proc!Next /\ Apart' /\ Next
<1>1. Proc!Load(r) /\ UNCHANGED outside /\ UNCHANGED file
    BY DEF ReadFile, Proc!Load, Proc!userVars
<1>2. Proc!Next
    BY <1>1, SameCallers DEF Proc!Next, Proc!Goroutines, Proc!ReloadStep
<1>3. CASE file \in Bad
    <2>1. LoadFails(r)
        BY <1>3 DEF ReadFile
    <2>2. Apart'
        BY <1>1, <2>1 DEF LoadFails, Goto, Apart, CallerStates
    <2> QED BY <1>2, <2>1, <2>2 DEF Next, ReloadStep
<1>4. CASE file \notin Bad
    <2>1. LoadSucceeds(r, file) /\ file \in Configs
        BY <1>4 DEF ReadFile, Apart
    <2>2. pc[r] = "loading" /\ pc' = [pc EXCEPT ![r] = "stopping"]
          /\ loaded' = [loaded EXCEPT ![r] = file]
        BY <2>1 DEF LoadSucceeds, Goto
    <2>3. Apart'
        BY <1>1, <2>1, <2>2 DEF Apart, CallerStates
    <2> QED BY <1>2, <2>1, <2>3 DEF Next, ReloadStep
<1> QED BY <1>3, <1>4

LEMMA TerminateSeen ==
    ASSUME Apart, Terminate
    PROVE  Proc!Next /\ Apart' /\ Next
<1>1. Proc!Next /\ Next
    BY DEF Terminate, Proc!Next, Proc!Goroutines, Next
<1>2. UNCHANGED <<pc, loaded, file>> /\ outside' = [outside EXCEPT !["signal"] = "closing"]
    BY DEF Terminate, CancelRoot, callerVars, Proc!ReceiveTerm, Proc!userVars
<1>3. Places["signal"] = "idle"
    BY DEF Terminate, Proc!ReceiveTerm, Proc!Goto, Proc!Signal, Places
<1>4. pc["signal"] = "idle"
    BY <1>3, PlaceOf, CompositionAssumption DEF Places, Place, Apart
<1>5. Apart'
    BY <1>2, <1>4 DEF Apart
<1> QED BY <1>1, <1>5

LEMMA PanickedSeen ==
    ASSUME Apart, Panicked
    PROVE  Proc!Next /\ Apart' /\ UNCHANGED vars
<1>1. PICK r \in Reloaders :
          /\ pc[r] = "panicked"
          /\ \/ /\ r \in Clients
                /\ outside' = [outside EXCEPT ![r] = "recovered"]
                /\ Proc!Recover(r)
             \/ /\ r \notin Clients
                /\ UNCHANGED outside
                /\ Proc!Crash(r)
    BY DEF Panicked
<1>2. UNCHANGED vars /\ UNCHANGED <<pc, loaded>>
    BY DEF Panicked, vars, callerVars
<1>3. Proc!Next /\ UNCHANGED file
    BY <1>1, SameCallers
    DEF Proc!Next, Proc!Goroutines, Proc!Recover, Proc!Crash, Proc!userVars
<1>4. CASE outside' = [outside EXCEPT ![r] = "recovered"]
    BY <1>1, <1>2, <1>3, <1>4 DEF Apart
<1>5. CASE UNCHANGED outside
    BY <1>2, <1>3, <1>5 DEF Apart
<1> QED BY <1>1, <1>2, <1>3, <1>4, <1>5

LEMMA ProcessSeen ==
    ASSUME Apart, ProcessStep
    PROVE  Proc!Next /\ Apart'
<1>1. UNCHANGED <<pc, loaded>>
    BY DEF ProcessStep, vars, callerVars
<1>2. Proc!Next
    BY DEF ProcessStep, Proc!Next, Proc!World, Proc!Goroutines
<1>3. CASE Proc!ShutdownReturns /\ outside' = [outside EXCEPT !["signal"] = "gone"]
    <2>1. Places["signal"] = "stopping" /\ UNCHANGED file
        BY <1>3 DEF Proc!ShutdownReturns, Proc!Goto, Proc!Signal, Proc!userVars, Places
    <2>2. pc["signal"] = "idle"
        BY <2>1, PlaceOf DEF Places
    <2> QED BY <1>1, <1>2, <1>3, <2>1, <2>2 DEF Apart
<1>7. CASE Proc!CloseListener /\ outside' = [outside EXCEPT !["signal"] = "stopping"]
    <2>1. Places["signal"] = "closing" /\ UNCHANGED file
        BY <1>7 DEF Proc!CloseListener, Proc!Goto, Proc!Signal, Proc!userVars, Places
    <2>2. pc["signal"] = "idle"
        BY <2>1, PlaceOf DEF Places
    <2> QED BY <1>1, <1>2, <1>7, <2>1, <2>2 DEF Apart
<1>4. CASE UNCHANGED outside /\ Proc!WriteFile
    <2>1. file' \in 0 .. MaxVersions
        BY <1>4 DEF Proc!WriteFile, Apart
    <2> QED BY <1>1, <1>2, <1>4, <2>1 DEF Apart
<1>5. CASE UNCHANGED <<outside, file>>
    BY <1>1, <1>2, <1>5 DEF Apart
<1>6. (\E sig \in {"HUP", "TERM"} : Proc!SendSignal(sig)) \/ Proc!StartWatching
        \/ Proc!ReceiveEvent \/ Proc!StopWatching \/ Proc!GraceExpires \/ Proc!Exit
        => UNCHANGED file
    BY DEF Proc!SendSignal, Proc!StartWatching, Proc!ReceiveEvent, Proc!StopWatching,
       Proc!GraceExpires, Proc!Exit, Proc!userVars
<1> QED BY <1>3, <1>4, <1>5, <1>6, <1>7 DEF ProcessStep

-----------------------------------------------------------------------------
(* The two refinements.                                                    *)

LEMMA ComposedStep ==
    Apart /\ [ComposedNext]_allVars =>
        Apart' /\ [Next]_vars /\ [Proc!Next]_(Proc!vars)
<1> SUFFICES ASSUME Apart, [ComposedNext]_allVars
             PROVE  Apart' /\ [Next]_vars /\ [Proc!Next]_(Proc!vars)
    OBVIOUS
<1>1. CASE Trigger
    BY <1>1, TriggerSeen
<1>2. ASSUME NEW r \in Reloaders, ReadFile(r)
      PROVE  Apart' /\ [Next]_vars /\ [Proc!Next]_(Proc!vars)
    BY <1>2, ReadSeen
<1>3. CASE Terminate
    BY <1>3, TerminateSeen
<1>7. CASE Panicked
    BY <1>7, PanickedSeen
<1>4. CASE SchedulerStep
    <2>1. Next
        BY <1>4 DEF SchedulerStep, Next
    <2> QED BY <1>4, <2>1, SchedulerSeen
<1>5. CASE ProcessStep
    <2>1. UNCHANGED vars
        BY <1>5 DEF ProcessStep
    <2> QED BY <1>5, <2>1, ProcessSeen
<1>6. CASE UNCHANGED allVars
    <2>1. UNCHANGED <<vars, worldVars>>
        BY <1>6 DEF allVars
    <2>2. UNCHANGED <<runners, currentConfig, rootDone, loaded, pc, overlapped>>
        BY <2>1 DEF vars, schedVars, ctxVars, callerVars
    <2>3. UNCHANGED <<file, sigCh, changed, watcher, armed, listening, graceOver, exited,
                      signals, asked, termSent, read, outside>>
        BY <2>1 DEF worldVars
    <2>4. UNCHANGED <<Places, Cfgs>> /\ Apart'
        BY <2>2, <2>3 DEF Places, Cfgs, Place, Loaded, Apart
    <2> QED BY <2>1, <2>2, <2>3, <2>4, ProcStutter DEF SeenPart
<1> QED BY <1>1, <1>2, <1>3, <1>4, <1>5, <1>6, <1>7 DEF ComposedNext

\* reload in main.go around Reload in scheduler.go: the composition of the two
\* is a behaviour of the process, in which a reload of the scheduler is one step.
THEOREM ProcessImplemented == ComposedSpec => ImplementsProcess
<1>1. ComposedInit => Apart /\ Proc!Init
    BY ApartInit DEF ComposedInit
<1>2. Apart /\ [ComposedNext]_allVars => Apart' /\ [Proc!Next]_(Proc!vars)
    BY ComposedStep
<1> QED BY <1>1, <1>2, PTL DEF ComposedSpec, ImplementsProcess, Proc!Spec

\* The signal goroutine, the watcher and the HTTP handlers do to the scheduler
\* only what module Scheduler lets a caller of reload do.
LEMMA SchedulerImplemented == ComposedSpec => Spec
<1>1. ComposedInit => Apart /\ Init
    BY ApartInit DEF ComposedInit
<1>2. Apart /\ [ComposedNext]_allVars => Apart' /\ [Next]_vars
    BY ComposedStep
<1> QED BY <1>1, <1>2, PTL DEF ComposedSpec, Spec

-----------------------------------------------------------------------------
(* What the parts promise, of the whole.                                   *)

\* As long as no two reloads have overlapped, no loop lives through the middle
\* of a reload of the running exporter, nothing stale is served, alerts are
\* exact and, once no reload is in progress, all parts use one configuration --
\* whatever signals, file changes and requests come, and however main, the
\* watcher and the server go about them (main.go around scheduler.go).
THEOREM SchedulerWithin ==
    ComposedSpec => [](ReloadIsExclusive /\ NoStaleTargets /\ AlertsExact /\ SettledAgrees)
<1>1. Spec => []ReloadIsExclusive
    <2>1. Spec => [](ReloadIsExclusive /\ OneGeneration)
        BY ExclusiveReload
    <2> QED BY <2>1, PTL
<1>2. Spec => []NoStaleTargets
    BY NothingStale
<1>3. Spec => []AlertsExact
    BY AlertsCorrect
<1>4. Spec => []SettledAgrees
    BY SettledAgreement
<1> QED BY <1>1, <1>2, <1>3, <1>4, SchedulerImplemented, PTL

\* The theorems of the process, under the mapping of module Exporter.
Mapped == INSTANCE ProcessProofs WITH
    pc        <- [r \in Reloaders |-> Place(r)],
    cfg       <- [r \in Reloaders |-> Loaded(r)],
    scheduled <- runners,
    current   <- currentConfig,
    cancelled <- rootDone

\* Proc and Mapped are the same process: equal definitions, all unfolded.
LEMMA SameProcess ==
    /\ Proc!Init => Mapped!Init
    /\ [Proc!Next]_(Proc!vars) => [Mapped!Next]_(Mapped!vars)
    /\ Mapped!ServesLastLoaded => Proc!ServesLastLoaded
<1> USE DEF
    Proc!Callers, Proc!Signal, Proc!Versions, Proc!Good, Proc!InReload, Proc!Goto,
    Proc!userVars, Proc!watchVars, Proc!reloadVars, Proc!stopVars, Proc!vars,
    Mapped!Callers, Mapped!Signal, Mapped!Versions, Mapped!Good, Mapped!InReload, Mapped!Goto,
    Mapped!userVars, Mapped!watchVars, Mapped!reloadVars, Mapped!stopVars, Mapped!vars,
    Proc!EnterReload, Mapped!EnterReload
<1>1. Proc!Init => Mapped!Init
    BY DEF Proc!Init, Mapped!Init
<1>2. Proc!World => Mapped!World
    BY DEF Proc!World, Proc!WriteFile, Proc!SendSignal, Proc!Notify, Proc!Keep, Proc!Request,
       Mapped!World, Mapped!WriteFile, Mapped!SendSignal, Mapped!Notify, Mapped!Keep,
       Mapped!Request
<1>3. Proc!Goroutines => Mapped!Goroutines
    BY DEF Proc!Goroutines, Proc!Answer, Proc!ReceiveTerm, Proc!CloseListener, Proc!ReceiveHup,
       Proc!Recover, Proc!Crash, Proc!StartWatching,
       Proc!ReceiveEvent, Proc!StopWatching, Proc!TimerFires, Proc!ReloadStep, Proc!Load,
       Proc!Reload, Proc!Store, Proc!ShutdownReturns, Proc!GraceExpires, Proc!Exit,
       Mapped!Goroutines, Mapped!Answer, Mapped!ReceiveTerm, Mapped!CloseListener,
       Mapped!Recover, Mapped!Crash, Mapped!ReceiveHup,
       Mapped!StartWatching, Mapped!ReceiveEvent, Mapped!StopWatching, Mapped!TimerFires,
       Mapped!ReloadStep, Mapped!Load, Mapped!Reload, Mapped!Store, Mapped!ShutdownReturns,
       Mapped!GraceExpires, Mapped!Exit
<1>4. UNCHANGED Proc!vars => UNCHANGED Mapped!vars
    OBVIOUS
<1>5. Mapped!ServesLastLoaded => Proc!ServesLastLoaded
    BY DEF Mapped!ServesLastLoaded, Proc!ServesLastLoaded
<1>6. [Proc!Next]_(Proc!vars) => [Mapped!Next]_(Mapped!vars)
    BY <1>2, <1>3, <1>4 DEF Proc!Next, Mapped!Next
<1> QED BY <1>1, <1>5, <1>6

\* currentConfig of the running exporter holds what was loaded last, and the
\* scheduler runs it, whenever no reload is in progress and no two have
\* overlapped (reload in main.go with the whole of Reload in scheduler.go).
THEOREM LoadedServed == ComposedSpec => []Proc!ServesLastLoaded
<1>1. Mapped!ProcessAssumption
    BY DEF Mapped!ProcessAssumption
<1>2. Mapped!Spec => []Mapped!ServesLastLoaded
    BY <1>1, Mapped!LastLoadedServed
<1>3. Proc!Spec => Mapped!Spec
    BY SameProcess, PTL DEF Proc!Spec, Mapped!Spec
<1>4. Mapped!ServesLastLoaded => Proc!ServesLastLoaded
    BY SameProcess
<1> QED BY <1>2, <1>3, <1>4, ProcessImplemented, PTL DEF ImplementsProcess
=============================================================================
