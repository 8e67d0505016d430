--------------------------- MODULE ProcessProofs ----------------------------
(***************************************************************************)
(* Proofs about the process, for any clients, timers, versions of the file *)
(* and number of signals.                                                  *)
(***************************************************************************)
EXTENDS Process, TLAPS

USE ProcessAssumption DEF ProcessAssumption

Signals == {"HUP", "TERM"}

\* The signal channel is a queue.
Typed == TypeOK /\ sigCh \in Seq(Signals)

\* A queue of signals with one more, or without its first.
LEMMA QueueKept ==
    ASSUME Typed, NEW sig \in Signals, NEW places \in {1, 2}, Keep(sig, places)
    PROVE  /\ sigCh' \in Seq(Signals) /\ Len(sigCh') <= 2
           /\ \A i \in DOMAIN sigCh' : sigCh'[i] \in Signals
BY DEF Typed, TypeOK, Keep, Signals

LEMMA QueueTaken ==
    ASSUME Typed, sigCh # <<>>, sigCh' = Tail(sigCh)
    PROVE  /\ sigCh' \in Seq(Signals) /\ Len(sigCh') <= 2
           /\ \A i \in DOMAIN sigCh' : sigCh'[i] \in Signals
BY DEF Typed, TypeOK, Signals

LEMMA GotoType ==
    ASSUME TypeOK, NEW r \in Callers, NEW from, NEW to \in States, Goto(r, from, to)
    PROVE  pc' \in [Callers -> States]
BY DEF TypeOK, Goto

LEMMA TypedInit == Init => Typed
<1> SUFFICES ASSUME Init PROVE Typed
    OBVIOUS
<1>1. 0 \in Versions /\ 0 \in Good
    BY DEF Versions, Good
<1>2. cfg \in [Callers -> Good] /\ pc \in [Callers -> States]
    BY <1>1 DEF Init, States
<1>3. sigCh \in Seq(Signals) /\ Len(sigCh) <= 2 /\ \A i \in DOMAIN sigCh : sigCh[i] \in Signals
    BY DEF Init
<1>4. {changed, armed, cancelled, listening, graceOver, exited, termSent, overlapped}
        \subseteq BOOLEAN
    BY DEF Init
<1>5. /\ file \in Versions /\ asked \in Versions /\ read \in Versions
      /\ scheduled \in Good /\ current \in Good /\ signals \in 0 .. MaxSignals
    BY <1>1 DEF Init
<1>6. watcher \in {"off", "starting", "on", "ended"}
    BY DEF Init
<1> QED BY <1>2, <1>3, <1>4, <1>5, <1>6 DEF Typed, TypeOK, Signals

LEMMA TypedNext == Typed /\ [Next]_vars => Typed'
<1> SUFFICES ASSUME Typed, [Next]_vars PROVE Typed'
    OBVIOUS
<1> USE DEF Typed, userVars, watchVars, reloadVars, stopVars
<1>1. CASE WriteFile
    BY <1>1 DEF WriteFile, TypeOK, Versions
<1>2. ASSUME NEW sig \in Signals, SendSignal(sig) PROVE Typed'
    <2>1. /\ sigCh' \in Seq(Signals) /\ Len(sigCh') <= 2
          /\ \A i \in DOMAIN sigCh' : sigCh'[i] \in Signals
        BY <1>2, QueueKept DEF SendSignal, Notify
    <2> QED BY <1>2, <2>1 DEF SendSignal, TypeOK, Signals
<1>3. ASSUME NEW c \in Clients, NEW what \in {"loading", "serving"}, Request(c, what)
      PROVE  Typed'
    <2>1. pc' \in [Callers -> States]
        BY <1>3, GotoType DEF Request, Callers, States
    <2> QED BY <1>3, <2>1 DEF Request, EnterReload, TypeOK
<1>4. ASSUME NEW c \in Clients, Answer(c) PROVE Typed'
    <2>1. pc' \in [Callers -> States]
        BY <1>4, GotoType DEF Answer, Callers, States
    <2> QED BY <1>4, <2>1 DEF Answer, TypeOK
<1>5. CASE ReceiveTerm
    <2>1. pc' \in [Callers -> States]
        BY <1>5, GotoType DEF ReceiveTerm, Callers, States
    <2> QED BY <1>5, <2>1, QueueTaken DEF ReceiveTerm, TypeOK, Signals
<1>13. CASE CloseListener
    <2>1. pc' \in [Callers -> States]
        BY <1>13, GotoType DEF CloseListener, Callers, States
    <2> QED BY <1>13, <2>1 DEF CloseListener, TypeOK
<1>6. CASE ReceiveHup
    <2>1. pc' \in [Callers -> States]
        BY <1>6, GotoType DEF ReceiveHup, Callers, States
    <2> QED BY <1>6, <2>1, QueueTaken DEF ReceiveHup, EnterReload, TypeOK, Signals
<1>7. CASE StartWatching \/ ReceiveEvent \/ StopWatching
    BY <1>7 DEF StartWatching, ReceiveEvent, StopWatching, TypeOK
<1>8. ASSUME NEW t \in Timers, TimerFires(t) PROVE Typed'
    <2>1. pc' \in [Callers -> States]
        BY <1>8, GotoType DEF TimerFires, Callers, States
    <2> QED BY <1>8, <2>1 DEF TimerFires, EnterReload, TypeOK
<1>9. ASSUME NEW r \in Callers, ReloadStep(r) PROVE Typed'
    <2>1. pc' \in [Callers -> States]
        BY <1>9, GotoType DEF ReloadStep, Load, Reload, Store, States
    <2>2. cfg' \in [Callers -> Good] /\ read' \in Versions /\ scheduled' \in Good /\ current' \in Good
        <3>1. CASE Load(r)
            BY <3>1 DEF Load, TypeOK, Good
        <3>2. CASE Reload(r)
            BY <3>2 DEF Reload, TypeOK
        <3>3. CASE Store(r)
            BY <3>3 DEF Store, TypeOK, Good, Versions
        <3> QED BY <1>9, <3>1, <3>2, <3>3 DEF ReloadStep
    <2>3. UNCHANGED <<overlapped, userVars, sigCh, watchVars, stopVars>>
        BY <1>9 DEF ReloadStep, Load, Reload, Store
    <2> QED BY <2>1, <2>2, <2>3 DEF TypeOK
<1>10. CASE ShutdownReturns
    <2>1. pc' \in [Callers -> States]
        BY <1>10, GotoType DEF ShutdownReturns, Callers, States
    <2> QED BY <1>10, <2>1 DEF ShutdownReturns, TypeOK
<1>11. CASE GraceExpires \/ Exit \/ \E r \in Callers \ Clients : Crash(r)
    BY <1>11 DEF GraceExpires, Exit, Crash, TypeOK
<1>14. ASSUME NEW c \in Clients, Recover(c) PROVE Typed'
    <2>1. c \in Callers
        BY DEF Callers
    <2>2. pc' \in [Callers -> States]
        BY <1>14, <2>1, GotoType DEF Recover, States
    <2>3. cfg' \in [Callers -> Good]
        BY <1>14, <2>1 DEF Recover, TypeOK, Good, Versions
    <2> QED BY <1>14, <2>2, <2>3 DEF Recover, TypeOK
<1>12. CASE UNCHANGED vars
    BY <1>12 DEF vars, TypeOK
<1> QED BY <1>1, <1>2, <1>3, <1>4, <1>5, <1>6, <1>7, <1>8, <1>9, <1>10, <1>11, <1>12,
        <1>13, <1>14 DEF Next, World, Goroutines, Signals

\* Types.  Whatever is written to the file, the scheduler runs and /probe uses
\* a version that loads.
THEOREM TypeCorrect == Spec => []TypeOK
<1>1. Typed => TypeOK
    BY DEF Typed
<1> QED BY <1>1, TypedInit, TypedNext, PTL DEF Spec

-----------------------------------------------------------------------------
(* As long as no two reloads have overlapped.                              *)

Last(v) == read \in Good => v = read

\* At most one goroutine is in reload(), and what it has read spreads: its own
\* cfg, then the scheduler, then currentConfig.
Serial ==
    /\ \A r, s \in Callers : InReload(r) /\ InReload(s) => r = s
    /\ \A r \in Callers :
          /\ pc[r] = "reloading" => scheduled = current /\ cfg[r] = read
          /\ pc[r] = "storing"   => scheduled = cfg[r] /\ cfg[r] = read
    /\ (\A r \in Callers : pc[r] \notin {"reloading", "storing"}) =>
          scheduled = current /\ Last(current)

OneAtATime == ~overlapped => Serial

LEMMA SerialInit == Init => OneAtATime
BY DEF Init, OneAtATime, Serial, InReload, Last

\* Once two reloads have overlapped nothing is claimed any more.
LEMMA OverlapStays ==
    ASSUME Typed, overlapped, [Next]_vars PROVE overlapped'
BY DEF Next, World, Goroutines, ReloadStep, EnterReload, WriteFile, SendSignal, Request,
   Answer, ReceiveTerm, CloseListener, ReceiveHup, StartWatching, ReceiveEvent, StopWatching,
   TimerFires, Load, Reload, Store, Recover, Crash, ShutdownReturns, GraceExpires, Exit, vars

\* Steps that change neither the configurations nor who is in reload().
LEMMA SerialKept ==
    ASSUME OneAtATime,
           UNCHANGED <<overlapped, cfg, scheduled, current, read>>,
           \A r \in Callers : pc'[r] = pc[r] \/ (~InReload(r) /\ ~InReload(r)')
    PROVE  OneAtATime'
BY DEF OneAtATime, Serial, InReload, Last

\* A reload that begins: nobody is in one, or the two overlap.
LEMMA SerialBegins ==
    ASSUME Typed, OneAtATime, NEW r \in Callers,
           EnterReload,
           Goto(r, "idle", "loading"),
           UNCHANGED <<cfg, scheduled, current, read>>
    PROVE  OneAtATime'
<1> SUFFICES ASSUME ~overlapped, \A s \in Callers : ~InReload(s) PROVE Serial'
    BY DEF OneAtATime, EnterReload
<1>1. /\ pc'[r] = "loading"
      /\ \A s \in Callers : s # r => pc'[s] = pc[s]
    BY DEF Goto, Typed, TypeOK
<1> QED BY <1>1 DEF OneAtATime, Serial, InReload, Last

LEMMA SerialReload ==
    ASSUME Typed, OneAtATime, NEW r \in Callers, ReloadStep(r)
    PROVE  OneAtATime'
<1> SUFFICES ASSUME ~overlapped PROVE Serial'
    BY DEF OneAtATime, ReloadStep, Load, Reload, Store
<1>1. /\ InReload(r)
      /\ \A s \in Callers \ {r} : ~InReload(s) /\ pc'[s] = pc[s] /\ cfg'[s] = cfg[s]
    BY DEF OneAtATime, Serial, ReloadStep, Load, Reload, Store, Goto, InReload, Typed, TypeOK
<1>2. CASE Load(r)
    <2>1. /\ pc'[r] = IF file \in Bad THEN "idle" ELSE "reloading"
          /\ file \notin Bad => cfg'[r] = file
          /\ read' = file /\ UNCHANGED <<scheduled, current>>
        BY <1>2 DEF Load, Goto, Typed, TypeOK
    <2>2. scheduled = current
        BY <1>1, <1>2 DEF Load, Goto, OneAtATime, Serial, InReload
    <2>3. file \in Bad => file \notin Good
        BY DEF Good
    <2> QED BY <1>1, <2>1, <2>2, <2>3 DEF Serial, InReload, Last
<1>3. CASE Reload(r)
    <2>1. /\ pc[r] = "reloading" /\ pc'[r] = "storing" /\ scheduled' = cfg[r]
          /\ UNCHANGED <<cfg, current, read>>
        BY <1>3 DEF Reload, Goto, Typed, TypeOK
    <2> QED BY <1>1, <2>1 DEF OneAtATime, Serial, InReload, Last
<1>4. CASE Store(r)
    <2>1. /\ pc[r] = "storing" /\ pc'[r] = "idle" /\ current' = cfg[r]
          /\ UNCHANGED <<scheduled, read>>
        BY <1>4 DEF Store, Goto, Typed, TypeOK
    <2> QED BY <1>1, <2>1 DEF OneAtATime, Serial, InReload, Last
<1> QED BY <1>2, <1>3, <1>4 DEF ReloadStep

LEMMA SerialNext == Typed /\ OneAtATime /\ [Next]_vars => OneAtATime'
<1> SUFFICES ASSUME Typed, OneAtATime, [Next]_vars PROVE OneAtATime'
    OBVIOUS
<1> USE DEF reloadVars
<1>1. CASE UNCHANGED <<overlapped, pc, cfg, scheduled, current, read>>
    BY <1>1, SerialKept
<1>2. ASSUME NEW r \in Callers, NEW from \in {"idle", "serving", "closing", "stopping"},
             NEW to \in {"idle", "serving", "closing", "stopping", "gone"},
             Goto(r, from, to), UNCHANGED <<overlapped, cfg, scheduled, current, read>>
      PROVE  OneAtATime'
    <2>1. \A s \in Callers : pc'[s] = pc[s] \/ (~InReload(s) /\ ~InReload(s)')
        BY <1>2 DEF Goto, InReload, Typed, TypeOK
    <2> QED BY <1>2, <2>1, SerialKept
<1>3. ASSUME NEW c \in Clients, NEW what \in {"loading", "serving"}, Request(c, what)
      PROVE  OneAtATime'
    <2>1. c \in Callers
        BY DEF Callers
    <2>2. CASE what = "loading"
        BY <1>3, <2>1, <2>2, SerialBegins DEF Request
    <2>3. CASE what = "serving"
        BY <1>3, <2>1, <2>3, <1>2 DEF Request
    <2> QED BY <2>2, <2>3
<1>4. ASSUME NEW c \in Clients, Answer(c) PROVE OneAtATime'
    BY <1>2, <1>4 DEF Answer, Callers
<1>5. CASE ReceiveTerm \/ CloseListener \/ ShutdownReturns
    BY <1>2, <1>5 DEF ReceiveTerm, CloseListener, ShutdownReturns, Callers
<1>6. CASE ReceiveHup
    BY <1>6, SerialBegins DEF ReceiveHup, Callers
<1>7. ASSUME NEW t \in Timers, TimerFires(t) PROVE OneAtATime'
    BY <1>7, SerialBegins DEF TimerFires, Callers
<1>8. ASSUME NEW r \in Callers, ReloadStep(r) PROVE OneAtATime'
    BY <1>8, SerialReload
<1>9. CASE \/ WriteFile \/ \E sig \in Signals : SendSignal(sig)
           \/ StartWatching \/ ReceiveEvent \/ StopWatching \/ GraceExpires \/ Exit
           \/ UNCHANGED vars
    BY <1>1, <1>9 DEF WriteFile, SendSignal, StartWatching, ReceiveEvent, StopWatching,
       GraceExpires, Exit, vars
<1>10. CASE (\E c \in Clients : Recover(c)) \/ (\E r \in Callers \ Clients : Crash(r))
    BY <1>10, OverlapStays DEF Recover, Crash, OneAtATime
<1> QED BY <1>3, <1>4, <1>5, <1>6, <1>7, <1>8, <1>9, <1>10 DEF Next, World, Goroutines, Signals

\* reload in main.go: as long as no two have overlapped, whenever none is in
\* progress the scheduler runs what currentConfig holds, and that is the version
\* read last, if it loads.
THEOREM LastLoadedServed == Spec => []ServesLastLoaded
<1>1. Init => Typed /\ OneAtATime
    BY TypedInit, SerialInit
<1>2. Typed /\ OneAtATime /\ [Next]_vars => (Typed /\ OneAtATime)'
    BY TypedNext, SerialNext
<1>3. OneAtATime => ServesLastLoaded
    BY DEF OneAtATime, Serial, InReload, Last, ServesLastLoaded
<1> QED BY <1>1, <1>2, <1>3, PTL DEF Spec
=============================================================================
