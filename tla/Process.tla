------------------------------ MODULE Process -------------------------------
(***************************************************************************)
(* The process around the scheduler (cmd/llm-exporter/main.go): the signal *)
(* goroutine, the config file watcher with its debounce timer, the HTTP    *)
(* server, and the three ways to reload() they offer.  A configuration is  *)
(* the version of the file it was read from.  Scheduler.Reload, which      *)
(* module Scheduler takes apart, is one step here -- one that need not come *)
(* once two calls of reload() have overlapped: Scheduler.Stop may then wait *)
(* for ever, or panic.                                                      *)
(***************************************************************************)
EXTENDS Naturals, Sequences

CONSTANTS
    Clients,         \* HTTP clients, one request in flight each
    Timers,          \* goroutines of debounce timers that have fired
    Bad,             \* versions of the file that do not load
    MaxVersions,     \* bound: versions of the file
    MaxSignals       \* bound: signals sent to the process

ASSUME ProcessAssumption ==
    /\ Bad \subseteq 1 .. MaxVersions
    /\ MaxVersions \in Nat /\ MaxSignals \in Nat

Signal    == "signal"                       \* the signal goroutine
Callers == {Signal} \cup Clients \cup Timers
Versions  == 0 .. MaxVersions
Good      == Versions \ Bad

VARIABLES
    file,        \* version of the config file
    sigCh,       \* the signal channel, with a signal handed over and not yet seen
    changed,     \* a file system event waits for the watcher
    watcher,     \* the watcher goroutine
    armed,       \* the debounce timer is set
    pc,          \* where each goroutine is
    cfg,         \* reload's local cfg, 0 outside
    scheduled,   \* the configuration the scheduler runs
    current,     \* currentConfig
    cancelled,   \* main's context
    listening,   \* the server accepts requests
    graceOver,   \* the 5 s of Shutdown have passed
    exited,      \* main has returned
    signals,     \* signals sent so far
    asked,       \* history: version of the file at the last SIGHUP, 0 if none
    termSent,    \* history: SIGTERM or SIGINT was sent
    read,        \* history: the version a reload has read last
    overlapped   \* history: two calls of reload() have overlapped

userVars   == <<file, signals, asked, termSent>>
watchVars  == <<changed, watcher, armed>>
reloadVars == <<cfg, scheduled, current, read>>
stopVars   == <<cancelled, listening, graceOver, exited>>
vars == <<overlapped, userVars, sigCh, watchVars, pc, reloadVars, stopVars>>

\* "idle": waiting for work (or, for a timer and a client, not there).
\* "loading" .. "storing": inside reload.  "serving": inside another handler,
\* which a client may keep busy.  "closing", "stopping": before and inside
\* server.Shutdown.
States == {"idle", "loading", "reloading", "storing", "serving", "closing",
           "stopping", "gone"}

InReload(r) == pc[r] \in {"loading", "reloading", "storing"}

\* Another call of reload() begins.  Nothing makes it wait for one that is in
\* progress.
EnterReload == overlapped' = (overlapped \/ \E r \in Callers : InReload(r))

\* With main every goroutine is gone.
Goto(r, from, to) == ~exited /\ pc[r] = from /\ pc' = [pc EXCEPT ![r] = to]

Init ==
    /\ file = 0 /\ scheduled = 0 /\ current = 0 /\ read = 0
    /\ sigCh = <<>>
    /\ changed = FALSE
    /\ watcher \in {"off", "starting"}      \* --watch-config
    /\ armed = FALSE
    /\ pc = [r \in Callers |-> "idle"]
    /\ cfg = [r \in Callers |-> 0]
    /\ cancelled = FALSE /\ listening = TRUE /\ graceOver = FALSE /\ exited = FALSE
    /\ signals = 0 /\ asked = 0 /\ termSent = FALSE /\ overlapped = FALSE

-----------------------------------------------------------------------------
(* The outside world.                                                      *)

\* The file is replaced; fsnotify queues an event for a watcher that has added
\* the directory.
WriteFile ==
    /\ ~exited
    /\ file < MaxVersions
    /\ file' = file + 1
    /\ changed' = (changed \/ watcher = "on")
    /\ UNCHANGED <<overlapped, signals, asked, termSent, sigCh, watcher, armed, pc, reloadVars, stopVars>>

Keep(sig, places) == sigCh' = IF Len(sigCh) < places THEN Append(sigCh, sig) ELSE sigCh

\* Slip: an unbuffered channel: a signal is lost unless the goroutine waits.
NotifyUnbuffered(sig) == Keep(sig, IF pc[Signal] = "idle" THEN 1 ELSE 0)

\* signal.Notify does not block: with the one buffer place taken a signal is
\* dropped.  While the goroutine waits the first signal goes straight to it.
Notify(sig) == Keep(sig, IF pc[Signal] = "idle" THEN 2 ELSE 1)

SendSignal(sig) ==
    /\ ~exited
    /\ signals < MaxSignals
    /\ signals' = signals + 1
    /\ Notify(sig)
    /\ asked' = IF sig = "HUP" THEN file ELSE asked
    /\ termSent' = (termSent \/ sig = "TERM")
    /\ UNCHANGED <<overlapped, file, watchVars, pc, reloadVars, stopVars>>

\* POST /-/reload, or any other request: /probe, /metrics ...
Request(c, what) ==
    /\ listening
    /\ Goto(c, "idle", what)
    /\ IF what = "loading" THEN EnterReload ELSE UNCHANGED overlapped
    /\ UNCHANGED <<userVars, sigCh, watchVars, reloadVars, stopVars>>

-----------------------------------------------------------------------------
(* The goroutines.                                                         *)

\* The handler of another request returns.
Answer(c) ==
    /\ Goto(c, "serving", "idle")
    /\ UNCHANGED <<overlapped, userVars, sigCh, watchVars, reloadVars, stopVars>>

\* Slip: the goroutine cancels the context but does not shut the server down.
ReceiveTermOnlyCancels ==
    /\ sigCh # <<>> /\ Head(sigCh) = "TERM"
    /\ sigCh' = Tail(sigCh)
    /\ Goto(Signal, "idle", "gone")
    /\ cancelled' = TRUE
    /\ UNCHANGED <<overlapped, userVars, watchVars, reloadVars, listening, graceOver, exited>>

\* SIGTERM or SIGINT: cancel ...
ReceiveTerm ==
    /\ sigCh # <<>> /\ Head(sigCh) = "TERM"
    /\ sigCh' = Tail(sigCh)
    /\ Goto(Signal, "idle", "closing")
    /\ cancelled' = TRUE
    /\ UNCHANGED <<overlapped, userVars, watchVars, reloadVars, listening, graceOver, exited>>

\* ... then server.Shutdown, which closes the listener.
CloseListener ==
    /\ Goto(Signal, "closing", "stopping")
    /\ listening' = FALSE
    /\ UNCHANGED <<overlapped, userVars, sigCh, watchVars, reloadVars, cancelled, graceOver, exited>>

\* SIGHUP: the goroutine calls reload itself and sees no signal meanwhile.
ReceiveHup ==
    /\ sigCh # <<>> /\ Head(sigCh) = "HUP"
    /\ sigCh' = Tail(sigCh)
    /\ Goto(Signal, "idle", "loading")
    /\ EnterReload
    /\ UNCHANGED <<userVars, watchVars, reloadVars, stopVars>>

\* Slip: an event is ignored while a reload is in progress.
ReceiveEventUnlessBusy ==
    /\ ~exited
    /\ watcher = "on" /\ changed
    /\ changed' = FALSE
    /\ armed' = (armed \/ \A r \in Callers : ~InReload(r))
    /\ UNCHANGED <<overlapped, userVars, sigCh, watcher, pc, reloadVars, stopVars>>

\* The watcher sets the timer anew; a callback that runs already is not
\* stopped by that.
ReceiveEvent ==
    /\ ~exited
    /\ watcher = "on" /\ changed
    /\ changed' = FALSE
    /\ armed' = TRUE
    /\ UNCHANGED <<overlapped, userVars, sigCh, watcher, pc, reloadVars, stopVars>>

\* The watcher adds the directory of the file, some time after main has read
\* the file and started it.
StartWatching ==
    /\ ~exited
    /\ watcher = "starting"
    /\ watcher' = "on"
    /\ UNCHANGED <<overlapped, userVars, sigCh, changed, armed, pc, reloadVars, stopVars>>

\* The watcher sees ctx.Done.  A timer that is set stays set.
StopWatching ==
    /\ ~exited
    /\ watcher = "on" /\ cancelled
    /\ watcher' = "ended"
    /\ UNCHANGED <<overlapped, userVars, sigCh, changed, armed, pc, reloadVars, stopVars>>

\* The debounce timer fires: its callback calls reload on a goroutine of its own.
TimerFires(t) ==
    /\ armed
    /\ Goto(t, "idle", "loading")
    /\ armed' = FALSE
    /\ EnterReload
    /\ UNCHANGED <<userVars, sigCh, changed, watcher, reloadVars, stopVars>>

\* config.Load reads the file; a file that does not load ends the reload.
Load(r) ==
    /\ Goto(r, "loading", IF file \in Bad THEN "idle" ELSE "reloading")
    /\ cfg' = [cfg EXCEPT ![r] = IF file \in Bad THEN @ ELSE file]
    /\ read' = file
    /\ UNCHANGED <<overlapped, userVars, sigCh, watchVars, scheduled, current, stopVars>>

\* Scheduler.Reload returns.
Reload(r) ==
    /\ Goto(r, "reloading", "storing")
    /\ scheduled' = cfg[r]
    /\ UNCHANGED <<overlapped, userVars, sigCh, watchVars, cfg, current, read, stopVars>>

\* The wait of Scheduler.Stop panics.  In a handler net/http recovers, and the
\* reload is left half-way ...
Recover(c) ==
    /\ overlapped
    /\ Goto(c, "reloading", "idle")
    /\ cfg' = [cfg EXCEPT ![c] = 0]
    /\ UNCHANGED <<overlapped, userVars, sigCh, watchVars, scheduled, current, read, stopVars>>

\* ... in any other goroutine the process ends.
Crash(r) ==
    /\ ~exited
    /\ overlapped
    /\ pc[r] = "reloading"
    /\ exited' = TRUE
    /\ UNCHANGED <<overlapped, userVars, sigCh, watchVars, pc, reloadVars, cancelled, listening, graceOver>>

\* Slip: /probe keeps the configuration of the start.
StoreForgotten(r) ==
    /\ Goto(r, "storing", "idle")
    /\ cfg' = [cfg EXCEPT ![r] = 0]
    /\ UNCHANGED <<overlapped, userVars, sigCh, watchVars, scheduled, current, read, stopVars>>

Store(r) ==
    /\ Goto(r, "storing", "idle")
    /\ current' = cfg[r]
    /\ cfg' = [cfg EXCEPT ![r] = 0]
    /\ UNCHANGED <<overlapped, userVars, sigCh, watchVars, scheduled, read, stopVars>>

\* Shutdown returns: nobody is being served, or its context has expired.
ShutdownReturns ==
    /\ graceOver \/ \A c \in Clients : pc[c] = "idle"
    /\ Goto(Signal, "stopping", "gone")
    /\ UNCHANGED <<overlapped, userVars, sigCh, watchVars, reloadVars, stopVars>>

GraceExpires ==
    /\ ~exited
    /\ pc[Signal] = "stopping" /\ ~graceOver
    /\ graceOver' = TRUE
    /\ UNCHANGED <<overlapped, userVars, sigCh, watchVars, pc, reloadVars, cancelled, listening, exited>>

\* ListenAndServe returns ErrServerClosed as soon as Shutdown has been called,
\* main returns, and the process is gone with all its goroutines.
Exit ==
    /\ ~exited /\ ~listening
    /\ exited' = TRUE
    /\ UNCHANGED <<overlapped, userVars, sigCh, watchVars, pc, reloadVars, cancelled, listening, graceOver>>

ReloadStep(r) == Load(r) \/ Reload(r) \/ Store(r)

World ==
    \/ WriteFile
    \/ \E sig \in {"HUP", "TERM"} : SendSignal(sig)
    \/ \E c \in Clients, what \in {"loading", "serving"} : Request(c, what)

Goroutines ==
    \/ \E c \in Clients : Answer(c)
    \/ ReceiveTerm \/ CloseListener \/ ReceiveHup
    \/ StartWatching \/ ReceiveEvent \/ StopWatching
    \/ \E t \in Timers : TimerFires(t)
    \/ \E r \in Callers : ReloadStep(r)
    \/ \E c \in Clients : Recover(c)
    \/ \E r \in Callers \ Clients : Crash(r)
    \/ ShutdownReturns \/ GraceExpires \/ Exit

Next == World \/ Goroutines

Spec == Init /\ [][Next]_vars

\* Goroutines are scheduled and a timer fires.  A reload takes finitely many
\* steps as long as none has overlapped with another (module Scheduler); after
\* that nothing is assumed of Scheduler.Reload.  A handler may take as long as
\* it likes, and nobody has to send anything.
Fairness ==
    /\ WF_vars(ReceiveTerm \/ ReceiveHup) /\ WF_vars(CloseListener)
    /\ WF_vars(StartWatching) /\ WF_vars(ReceiveEvent)
    /\ WF_vars(\E t \in Timers : TimerFires(t))
    /\ \A r \in Callers :
         WF_vars(Load(r)) /\ WF_vars(~overlapped /\ Reload(r)) /\ WF_vars(Store(r))
    /\ WF_vars(Exit)

FairSpec == Spec /\ Fairness

-----------------------------------------------------------------------------
(* Properties.                                                             *)

\* Types of the variables.  What is scheduled and what /probe uses is always a
\* configuration Load has accepted.
TypeOK ==
    /\ file \in Versions /\ asked \in Versions /\ read \in Versions
    /\ scheduled \in Good /\ current \in Good
    /\ cfg \in [Callers -> Good]
    /\ pc \in [Callers -> States]
    /\ Len(sigCh) <= 2 /\ \A i \in DOMAIN sigCh : sigCh[i] \in {"HUP", "TERM"}
    /\ signals \in 0 .. MaxSignals
    /\ watcher \in {"off", "starting", "on", "ended"}
    /\ {changed, armed, cancelled, listening, graceOver, exited, termSent,
        overlapped} \subseteq BOOLEAN

\* "currentConfig holds the most recently loaded config", and so does the
\* scheduler, whenever no reload is in progress -- as long as no two calls of
\* reload() have overlapped.
ServesLastLoaded ==
    ~overlapped /\ (\A r \in Callers : ~InReload(r)) =>
        /\ scheduled = current
        /\ read \in Good => current = read

\* A SIGHUP is honoured even when it is dropped because another waits in the
\* channel: the file as it was when the signal came is read, then or later,
\* unless the process is told to end or two calls of reload() overlap (the
\* signal goroutine may then be stuck in its own).
HupHonoured ==
    \A v \in 1 .. MaxVersions : asked = v ~> (read >= v \/ termSent \/ overlapped)

\* Every change of the file the watcher is told of is read, also one that
\* happens while a reload is in progress or within the two seconds of the
\* debounce -- and also when reloads overlap and one of them never returns,
\* because each callback has a goroutine of its own.
ChangeNoticed ==
    \A v \in 1 .. MaxVersions :
        (changed /\ file = v) ~> (read >= v \/ cancelled \/ exited)

\* "--watch-config: watch config file for changes and auto-reload": every
\* change since the file was first read.
EveryChangeNoticed ==
    \A v \in 1 .. MaxVersions : (watcher = "on" /\ file = v) ~> (read >= v \/ cancelled)

\* "currentConfig holds the most recently loaded config", whoever loaded it.
MostRecentlyLoaded ==
    (\A r \in Callers : ~InReload(r)) /\ read \in Good => current = read

\* Once the signal goroutine has taken the signal the process ends, whatever
\* requests are in flight.
ShutdownExits == cancelled ~> exited

\* "SIGINT / SIGTERM: graceful shutdown": a process told to end does end.
TermExits == termSent ~> exited

\* "server.Shutdown() finishes the requests in progress", for at most 5 s.
RequestsFinished == exited /\ ~listening => graceOver \/ \A c \in Clients : pc[c] = "idle"
=============================================================================
