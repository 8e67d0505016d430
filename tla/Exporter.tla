------------------------------ MODULE Exporter ------------------------------
(***************************************************************************)
(* The whole process: main with its signal goroutine, watcher and HTTP     *)
(* server (module Process) around the scheduler with its loops (module     *)
(* Scheduler).  A step of the process that touches the scheduler -- a      *)
(* trigger that calls reload, config.Load inside it, the cancellation of   *)
(* the root context -- is one step of both; all others are steps of one.   *)
(* The four points of a reload in Process are mapped to those of Scheduler *)
(* here, so that the composition implements Process: what is one step      *)
(* there (Scheduler.Reload) is a stop, a join, two resets, a swap and a    *)
(* new generation here, with the loops running in between.                 *)
(***************************************************************************)
EXTENDS Scheduler, Sequences

CONSTANTS Clients, Timers, Bad, MaxVersions, MaxSignals

VARIABLES
    file, sigCh, changed, watcher, armed,          \* as in Process
    listening, graceOver, exited,
    signals, asked, termSent, read,
    outside         \* where a goroutine is that is not in reload, or no more

worldVars == <<file, sigCh, changed, watcher, armed, listening, graceOver, exited,
               signals, asked, termSent, read, outside>>

allVars == <<vars, worldVars>>

\* Where a goroutine is, as Process sees it: the scheduler's configuration
\* changes when the runners are swapped.  A client whose handler panicked is free
\* again, as net/http recovers.
Place(r) ==
    CASE pc[r] = "idle"    -> outside[r]
      [] pc[r] = "loading" -> "loading"
      [] pc[r] \in {"forgetting", "running", "publishing"} -> "storing"
      [] OTHER             -> IF outside[r] = "recovered" THEN "idle" ELSE "reloading"

\* The configuration it has loaded, as Process sees it.
Loaded(r) ==
    IF pc[r] \in {"idle", "loading"} \/ outside[r] = "recovered" THEN 0 ELSE loaded[r]

Proc == INSTANCE Process WITH
    pc        <- [r \in Reloaders |-> Place(r)],
    cfg       <- [r \in Reloaders |-> Loaded(r)],
    scheduled <- runners,
    current   <- currentConfig,
    cancelled <- rootDone

\* A configuration is the version of the file it was read from; the first one
\* loads, or there is no process.
ASSUME CompositionAssumption ==
    /\ Reloaders = {"signal"} \cup Clients \cup Timers
    /\ "signal" \notin Clients
    /\ Configs = (0 .. MaxVersions) \ Bad
    /\ Bad \subseteq 1 .. MaxVersions
    /\ MaxVersions \in Nat /\ MaxSignals \in Nat

ComposedInit ==
    /\ Init
    /\ runners = 0
    /\ outside = [r \in Reloaders |-> "idle"]
    /\ Proc!Init

-----------------------------------------------------------------------------
\* Steps of both.

Triggered(r) == BeginReload(r) /\ UNCHANGED outside

\* The reload reads the file as it is now.
ReadFile(r) ==
    /\ IF file \in Bad THEN LoadFails(r) ELSE LoadSucceeds(r, file)
    /\ UNCHANGED outside
    /\ Proc!Load(r)

\* Bound: the reloads in progress and those the watcher and the signals may
\* still ask for.  A client asks for one more only if MaxGens leaves room.
MayCome ==
    (MaxVersions - file) + (MaxSignals - signals) + Len(sigCh)
      + Cardinality({r \in Reloaders : pc[r] \notin {"idle", "panicked"}})
      + Cardinality({x \in {"changed", "armed"} : IF x = "armed" THEN armed ELSE changed})

Trigger ==
    \/ Triggered("signal") /\ Proc!ReceiveHup
    \/ \E t \in Timers : Triggered(t) /\ Proc!TimerFires(t)
    \/ \E c \in Clients :
          gens + MayCome < MaxGens /\ Triggered(c) /\ Proc!Request(c, "loading")

\* Slip: the signal goroutine will shut the server down and cancels nothing.
TerminateWithoutCancel ==
    /\ outside' = [outside EXCEPT !["signal"] = "closing"]
    /\ UNCHANGED <<vars, file, changed, watcher, armed, graceOver, exited, signals, asked,
                   termSent, read, listening>>
    /\ pc["signal"] = "idle" /\ outside["signal"] = "idle"
    /\ sigCh # <<>> /\ Head(sigCh) = "TERM" /\ sigCh' = Tail(sigCh)

Terminate ==
    /\ CancelRoot
    /\ outside' = [outside EXCEPT !["signal"] = "closing"]
    /\ Proc!ReceiveTerm

\* What follows a panic of wg.Wait.
Panicked ==
    /\ UNCHANGED vars
    /\ \E r \in Reloaders :
          /\ pc[r] = "panicked"
          /\ \/ /\ r \in Clients
                /\ outside' = [outside EXCEPT ![r] = "recovered"]
                /\ Proc!Recover(r)
             \/ /\ r \notin Clients
                /\ UNCHANGED outside
                /\ Proc!Crash(r)

-----------------------------------------------------------------------------
\* Steps of one.

\* The scheduler inside reload, its loops, its webhooks -- while the process
\* lives.
SchedulerStep ==
    /\ ~exited
    /\ \/ Start
       \/ \E r \in Reloaders : ReloadStep(r) /\ pc[r] # "loading"
       \/ \E g \in Gens, n \in Names : TaskStep(g, n)
       \/ \E p \in posts : PostEnds(p)
    /\ UNCHANGED worldVars

\* The outside world, the watcher, and shutdown.  main serves and listens to
\* signals once the scheduler has been started.
ProcessStep ==
    /\ gens # 0
    /\ UNCHANGED vars
    /\ \/ UNCHANGED outside /\ (\/ Proc!WriteFile
                                \/ \E sig \in {"HUP", "TERM"} : Proc!SendSignal(sig)
                                \/ Proc!StartWatching \/ Proc!ReceiveEvent \/ Proc!StopWatching
                                \/ Proc!GraceExpires \/ Proc!Exit)
       \/ outside' = [outside EXCEPT !["signal"] = "stopping"] /\ Proc!CloseListener
       \/ outside' = [outside EXCEPT !["signal"] = "gone"] /\ Proc!ShutdownReturns

ComposedNext ==
    \/ Trigger
    \/ \E r \in Reloaders : ReadFile(r)
    \/ Terminate
    \/ Panicked
    \/ SchedulerStep
    \/ ProcessStep

ComposedSpec == ComposedInit /\ [][ComposedNext]_allVars

\* The fairness of the two parts: goroutines are scheduled, a probe returns
\* because it has a timeout, a select picks every case that stays ready.
Background ==
    /\ gens # 0
    /\ UNCHANGED vars
    /\ \/ UNCHANGED outside /\ (Proc!StartWatching \/ Proc!ReceiveEvent \/ Proc!Exit)
       \/ outside' = [outside EXCEPT !["signal"] = "stopping"] /\ Proc!CloseListener

ComposedFairSpec ==
    /\ ComposedSpec
    /\ WF_allVars(~exited /\ UNCHANGED worldVars /\ Start)
    /\ WF_allVars(Terminate \/ (Triggered("signal") /\ Proc!ReceiveHup))
    /\ WF_allVars(\E t \in Timers : Triggered(t) /\ Proc!TimerFires(t))
    /\ \A r \in Reloaders :
          WF_allVars(\/ ReadFile(r)
                     \/ ~exited /\ pc[r] # "loading" /\ UNCHANGED worldVars /\ ReloadStep(r))
    /\ \A g \in Gens, n \in Names :
          /\ WF_allVars(~exited /\ UNCHANGED worldVars /\ TaskStep(g, n))
          /\ SF_allVars(~exited /\ UNCHANGED worldVars /\ Exit(g, n))
    /\ WF_allVars(Background)

-----------------------------------------------------------------------------
(* Properties.                                                             *)

\* Process, where Scheduler.Reload is one step, is a true account of this
\* composition, where it is ten with the loops in between.
ImplementsProcess == Proc!Spec

\* A change of the file reaches the loops: the watcher's event, the debounce
\* timer, the reload, the join with the loops that are probing, and a new
\* generation that is the one Stop would cancel next -- unless the file changes
\* again, does not load, two reloads overlap, or the process is told to end.
ChangeServed ==
    \A v \in Configs \ {0} :
        (changed /\ file = v) ~>
            \/ /\ gens # 0 /\ genConfig[gens] = v /\ currentConfig = v /\ cancel = gens
               /\ \A r \in Reloaders : pc[r] = "idle"
            \/ file # v
            \/ overlapped
            \/ rootDone

\* "Graceful shutdown: cancel context, wait 5 s, exit": a loop that is still
\* probing has the five seconds.
LoopsStopped == exited /\ ~listening => graceOver \/ Drained
=============================================================================
