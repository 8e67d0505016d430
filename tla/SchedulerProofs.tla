-------------------------- MODULE SchedulerProofs ---------------------------
(***************************************************************************)
(* Proofs about the scheduler, for every set of targets, configurations    *)
(* and reload callers and every bound: types; the exclusion between reload *)
(* and probing; on top of it, what the scheduler shows about its targets;  *)
(* and, on top of both, what leaves it.  Webhooks: every one in flight     *)
(* describes a target of the configuration it belongs to, and a streak of  *)
(* failures has started one per multiple of the threshold.  The two        *)
(* endpoints: whoever reads them sees one configuration at a time, as      *)
(* module ServedConfig says.                                               *)
(***************************************************************************)
EXTENDS Scheduler, TLAPS, Integers

\* Webhooks a streak of so many failures has started under a threshold.
Due(threshold, failures) ==
    IF threshold = 0 THEN 0 ELSE failures \div threshold

\* Division with remainder, both ways.
LEMMA Division ==
    ASSUME NEW t \in Nat \ {0}, NEW q \in Nat, NEW r \in 0 .. t - 1,
           NEW k \in Nat, k = t * q + r
    PROVE  k \div t = q /\ k % t = r
<1>1. t \in Int /\ t > 0 /\ q \in Int /\ r \in Int /\ k \in Int /\ 0 <= r /\ r < t
    OBVIOUS
<1>2. k \div t = q
    BY <1>1
<1>3. k % t = r
    BY <1>1
<1> QED BY <1>2, <1>3

LEMMA Divisible ==
    ASSUME NEW t \in Nat \ {0}, NEW k \in Nat
    PROVE  \E q \in Nat, r \in 0 .. t - 1 : k = t * q + r
<1>1. PICK q \in Int : q = k \div t
    OBVIOUS
<1>2. q >= 0 /\ t * q <= k /\ k < t * q + t
    BY <1>1
<1>3. t * q \in Int
    OBVIOUS
<1>4. k - t * q \in 0 .. t - 1 /\ k = t * q + (k - t * q)
    BY <1>2, <1>3
<1> QED BY <1>2, <1>4

\* One more failure: a new multiple of the threshold, or none.
LEMMA DueStep ==
    ASSUME NEW t \in Nat, NEW k \in Nat
    PROVE  Due(t, k + 1) = IF Fires(t, k + 1) THEN Due(t, k) + 1 ELSE Due(t, k)
<1>1. CASE t = 0
    BY <1>1 DEF Due, Fires
<1>2. CASE t # 0
    <2>1. PICK q \in Nat, r \in 0 .. t - 1 : k = t * q + r
        BY <1>2, Divisible
    <2>2. k \div t = q
        BY <1>2, <2>1, Division
    <2>3. CASE r + 1 < t
        <3>1. r + 1 \in 0 .. t - 1 /\ k + 1 \in Nat /\ k + 1 = t * q + (r + 1)
            BY <2>1, <2>3
        <3>2. (k + 1) \div t = q /\ (k + 1) % t = r + 1
            BY <1>2, <3>1, Division
        <3> QED BY <1>2, <2>2, <3>2 DEF Due, Fires
    <2>4. CASE r + 1 = t
        <3>1. k + 1 \in Nat /\ q + 1 \in Nat /\ 0 \in 0 .. t - 1
            BY <1>2
        <3>2. PICK p \in Nat, z \in 0 .. t - 1 : p = q + 1 /\ z = 0
            BY <3>1
        <3>3. k + 1 = t * p + z
            BY <2>1, <2>4, <3>2
        <3>4. (k + 1) \div t = p /\ (k + 1) % t = z
            BY <1>2, <3>1, <3>3, Division
        <3> QED BY <1>2, <2>2, <3>2, <3>4 DEF Due, Fires
    <2> QED BY <2>3, <2>4
<1> QED BY <1>1, <1>2

LEMMA DueZero ==
    ASSUME NEW t \in Nat
    PROVE  Due(t, 0) = 0
<1>1. CASE t # 0
    <2>1. 0 \in 0 .. t - 1 /\ 0 = t * 0 + 0
        BY <1>1
    <2>2. 0 \div t = 0
        BY <1>1, <2>1, Division
    <2> QED BY <1>1, <2>2 DEF Due
<1> QED BY <1>1 DEF Due

-----------------------------------------------------------------------------
(* The invariant.                                                          *)

USE ConfigAssumption, BoundAssumption
DEF Gens, ConfigAssumption, BoundAssumption

\* Recording an outcome keeps the tracker a map from names to entries.
LEMMA UpdatedType ==
    ASSUME NEW tr, DOMAIN tr \subseteq Names, \A m \in DOMAIN tr : tr[m] \in Entry,
           NEW n \in Names, NEW l \in LabelSets, NEW ok \in BOOLEAN
    PROVE  /\ DOMAIN Updated(tr, n, l, ok) \subseteq Names
           /\ \A m \in DOMAIN Updated(tr, n, l, ok) : Updated(tr, n, l, ok)[m] \in Entry
<1>1. ASSUME NEW st \in Entry PROVE WithOutcome(st, ok) \in Entry
    BY <1>1 DEF WithOutcome, Entry
<1>2. FreshEntry(l) \in Entry
    BY DEF FreshEntry, Entry
<1> QED BY <1>1, <1>2 DEF Updated

LEMMA EmptyMapDomain == DOMAIN EmptyMap = {}
BY DEF EmptyMap

\* A loop that is not at rest has a probe left before the bound, and the
\* loops of generations to come have not started.
CountBounded ==
    \A g \in Gens, n \in Names :
        /\ task[g][n] \notin {"waiting", "done"} => probeCount[g][n] < MaxProbes
        /\ g > gens => task[g][n] = "unborn" /\ probeCount[g][n] = 0

LEMMA TypeInit == Init => TypeOK /\ CountBounded
<1> SUFFICES ASSUME Init PROVE TypeOK /\ CountBounded
    OBVIOUS
<1> USE DEF Init
<1>1. cancel \in 0 .. MaxGens /\ gens \in 0 .. MaxGens
    OBVIOUS
<1>2. task \in [Gens -> [Names -> TaskStates]]
    BY DEF TaskStates
<1>3. probeCount \in [Gens -> [Names -> 0 .. MaxProbes]]
    OBVIOUS
<1>4. /\ DOMAIN tracker \subseteq Names
      /\ \A n \in DOMAIN tracker : tracker[n] \in Entry
      /\ DOMAIN gauge \subseteq Names \X LabelSets
      /\ \A s \in DOMAIN gauge : gauge[s] \in {"up", "down"}
    BY EmptyMapDomain
<1>5. pc \in [Reloaders -> CallerStates]
    BY DEF CallerStates
<1>6. seen \in [Reloaders -> 0 .. MaxGens]
    OBVIOUS
<1>7. CountBounded
    BY DEF CountBounded
<1> QED BY <1>1, <1>2, <1>3, <1>4, <1>5, <1>6, <1>7 DEF TypeOK

\* Run keeps the types of the variables it changes.
LEMMA TypeGeneration ==
    ASSUME TypeOK, StartGeneration
    PROVE  /\ gens' \in 0 .. MaxGens /\ cancel' \in 0 .. MaxGens
           /\ genConfig' \in [Gens -> Configs]
           /\ task' \in [Gens -> [Names -> TaskStates]]
<1> USE DEF TypeOK, StartGeneration
<1>1. gens + 1 \in Gens
    OBVIOUS
<1>2. gens' \in 0 .. MaxGens /\ cancel' \in 0 .. MaxGens
    BY <1>1
<1>3. genConfig' \in [Gens -> Configs]
    BY <1>1
<1>4. [n \in Names |-> IF n \in TargetsOf[runners] THEN "jitter" ELSE "unborn"]
        \in [Names -> TaskStates]
    BY DEF TaskStates
<1>5. task' \in [Gens -> [Names -> TaskStates]]
    BY <1>1, <1>4
<1> QED BY <1>2, <1>3, <1>5

\* The steps of a reload caller keep the types.
LEMMA TypeReload ==
    ASSUME TypeOK, NEW r \in Reloaders, BeginReload(r) \/ ReloadStep(r)
    PROVE  TypeOK'
<1> USE DEF TypeOK, Goto, CallerStates,
        schedVars, ctxVars, taskVars, viewVars, callerVars
<1>1. CASE BeginReload(r)
    <2>1. overlapped' \in BOOLEAN /\ pc' \in [Reloaders -> CallerStates]
        BY <1>1 DEF BeginReload
    <2> QED BY <1>1, <2>1 DEF BeginReload
<1>2. CASE LoadFails(r) BY <1>2 DEF LoadFails
<1>3. ASSUME NEW c \in Configs, LoadSucceeds(r, c) PROVE TypeOK'
    BY <1>3 DEF LoadSucceeds
<1>4. CASE ReadCancel(r) BY <1>4 DEF ReadCancel
<1>5. CASE CallCancel(r)
    <2>1. seen[r] \in 0 .. MaxGens
        OBVIOUS
    <2>2. cancelled' \subseteq Gens
        <3> HIDE DEF TypeOK
        <3>1. cancelled' = cancelled \cup ({seen[r]} \ {0})
            BY <1>5 DEF CallCancel
        <3>2. {seen[r]} \ {0} \subseteq Gens
            BY <2>1
        <3>3. cancelled \subseteq Gens
            BY DEF TypeOK
        <3> QED BY <3>1, <3>2, <3>3
    <2>3. UNCHANGED <<schedVars, gens, genConfig, rootDone, taskVars, viewVars,
                      loaded, seen, currentConfig, overlapped>>
        BY <1>5 DEF CallCancel
    <2>4. pc' \in [Reloaders -> CallerStates]
        BY <1>5 DEF CallCancel
    <2> QED BY <2>2, <2>3, <2>4
<1>6. CASE Join(r) BY <1>6 DEF Join
<1>7. CASE Wake(r) BY <1>7 DEF Wake
<1>8. CASE ClearMetrics(r) BY <1>8 DEF ClearMetrics, EmptyMap
<1>9. CASE Swap(r) BY <1>9 DEF Swap
<1>10. CASE ForgetStatuses(r) BY <1>10 DEF ForgetStatuses, EmptyMap
<1>11. CASE Rerun(r)
    <2> HIDE DEF TypeOK
    <2>1. StartGeneration
        BY <1>11 DEF Rerun
    <2>2. /\ gens' \in 0 .. MaxGens /\ cancel' \in 0 .. MaxGens
          /\ genConfig' \in [Gens -> Configs]
          /\ task' \in [Gens -> [Names -> TaskStates]]
        BY <2>1, TypeGeneration
    <2> QED BY <1>11, <2>2 DEF Rerun, StartGeneration, TypeOK
<1>12. CASE Publish(r) BY <1>12 DEF Publish
<1> QED BY <1>1, <1>2, <1>3, <1>4, <1>5, <1>6, <1>7, <1>8, <1>9, <1>10,
           <1>11, <1>12 DEF ReloadStep

LEMMA TypeGauge ==
    ASSUME TypeOK, NEW g \in Gens, NEW n \in Names, NEW v \in {"up", "down"},
           SetGauge(g, n, v)
    PROVE  /\ DOMAIN gauge' \subseteq Names \X LabelSets
           /\ \A s \in DOMAIN gauge' : gauge'[s] \in {"up", "down"}
<1>1. <<n, Label(g, n)>> \in Names \X LabelSets
    BY DEF TypeOK, Label
<1> QED BY <1>1 DEF TypeOK, SetGauge

LEMMA TypeCount ==
    ASSUME TypeOK, CountBounded, NEW g \in Gens, NEW n \in Names,
           task[g][n] \in {"succeeded", "checking"}, CountProbe(g, n)
    PROVE  probeCount' \in [Gens -> [Names -> 0 .. MaxProbes]]
<1>1. probeCount[g][n] \in 0 .. MaxProbes
    BY DEF TypeOK
<1>2. probeCount[g][n] < MaxProbes
    BY DEF CountBounded
<1>3. probeCount[g][n] + 1 \in 0 .. MaxProbes
    BY <1>1, <1>2
<1> QED BY <1>3 DEF TypeOK, CountProbe

LEMMA TypeAlert ==
    ASSUME TypeOK, NEW n \in Names, Alert(n)
    PROVE  posts' \subseteq Post /\ alerts' \in [Names -> Nat]
<1>1. CASE UNCHANGED <<posts, alerts>>
    BY <1>1 DEF TypeOK
<1>2. CASE Fires(Threshold[alerter], ConsecFailures(tracker, n))
    <2>1. n \in DOMAIN tracker
        BY <1>2 DEF Fires, ConsecFailures
    <2>2. [name |-> n, label |-> tracker[n].label,
           failures |-> tracker[n].consecFailures, hook |-> alerter] \in Post
        BY <2>1 DEF TypeOK, Entry, Post
    <2>3. CASE UNCHANGED <<posts, alerts>>
        BY <2>3 DEF TypeOK
    <2>4. CASE /\ posts' = posts \cup {[name |-> n, label |-> tracker[n].label,
                                       failures |-> tracker[n].consecFailures,
                                       hook |-> alerter]}
               /\ alerts' = [alerts EXCEPT ![n] = @ + 1]
        BY <2>2, <2>4 DEF TypeOK
    <2> QED BY <1>2, <2>3, <2>4 DEF Alert
<1> QED BY <1>1, <1>2 DEF Alert

\* The steps of a probe loop keep the types.
LEMMA TypeTask ==
    ASSUME TypeOK, CountBounded, NEW g \in Gens, NEW n \in Names, TaskStep(g, n)
    PROVE  TypeOK'
<1> USE DEF TypeOK, Move, schedVars, ctxVars, taskVars, viewVars, callerVars
<1>1. CASE JitterOver(g, n) BY <1>1 DEF JitterOver, TaskStates
<1>2. CASE TimerFires(g, n) BY <1>2 DEF TimerFires, TaskStates
<1>3. CASE Exit(g, n)
    <2>1. pc' \in [Reloaders -> CallerStates]
        BY <1>3 DEF Exit, CallerStates
    <2>2. task' \in [Gens -> [Names -> TaskStates]]
        BY <1>3 DEF Exit, TaskStates
    <2>3. probeCount' \in [Gens -> [Names -> 0 .. MaxProbes]]
        <3>1. 0 \in 0 .. MaxProbes
            BY BoundAssumption
        <3>2. probeCount' = [probeCount EXCEPT ![g][n] = 0]
            BY <1>3 DEF Exit
        <3> QED BY <3>1, <3>2
    <2> QED BY <1>3, <2>1, <2>2, <2>3 DEF Exit
<1>4. ASSUME NEW ok \in BOOLEAN, ProbeReturns(g, n, ok) PROVE TypeOK'
    <2>1. Label(g, n) \in LabelSets
        BY DEF Label
    <2>2. /\ DOMAIN tracker' \subseteq Names
          /\ \A m \in DOMAIN tracker' : tracker'[m] \in Entry
        <3> HIDE DEF TypeOK
        <3>1. DOMAIN tracker \subseteq Names /\ \A m \in DOMAIN tracker : tracker[m] \in Entry
            BY DEF TypeOK
        <3>2. tracker' = Updated(tracker, n, Label(g, n), ok)
            BY <1>4 DEF ProbeReturns
        <3>3. /\ DOMAIN Updated(tracker, n, Label(g, n), ok) \subseteq Names
              /\ \A m \in DOMAIN Updated(tracker, n, Label(g, n), ok) :
                    Updated(tracker, n, Label(g, n), ok)[m] \in Entry
            BY <2>1, <3>1, UpdatedType
        <3> QED BY <3>2, <3>3
    <2>3. task' \in [Gens -> [Names -> TaskStates]]
        BY <1>4 DEF ProbeReturns, TaskStates
    <2>4. alerts' \in [Names -> Nat]
        BY <1>4 DEF ProbeReturns
    <2>5. UNCHANGED <<schedVars, ctxVars, probeCount, gauge, posts, callerVars>>
        BY <1>4 DEF ProbeReturns
    <2> QED BY <2>2, <2>3, <2>4, <2>5
<1>5. CASE RecordSuccess(g, n)
    <2>1. task' \in [Gens -> [Names -> TaskStates]]
        BY <1>5 DEF RecordSuccess, TaskStates
    <2>2. UNCHANGED <<schedVars, ctxVars, tracker, posts, alerts, callerVars>>
        BY <1>5 DEF RecordSuccess
    <2> QED BY <1>5, <2>1, <2>2, TypeGauge, TypeCount DEF RecordSuccess
<1>6. CASE RecordFailure(g, n)
    <2>1. task' \in [Gens -> [Names -> TaskStates]]
        BY <1>6 DEF RecordFailure, TaskStates
    <2>2. UNCHANGED <<schedVars, ctxVars, probeCount, tracker, posts, alerts, callerVars>>
        BY <1>6 DEF RecordFailure
    <2> QED BY <1>6, <2>1, <2>2, TypeGauge DEF RecordFailure
<1>7. CASE CheckAlert(g, n)
    <2>1. task' \in [Gens -> [Names -> TaskStates]]
        BY <1>7 DEF CheckAlert, TaskStates
    <2>2. UNCHANGED <<schedVars, ctxVars, tracker, gauge, callerVars>>
        BY <1>7 DEF CheckAlert
    <2> QED BY <1>7, <2>1, <2>2, TypeAlert, TypeCount DEF CheckAlert
<1> QED BY <1>1, <1>2, <1>3, <1>4, <1>5, <1>6, <1>7 DEF TaskStep

LEMMA TypeNext == TypeOK /\ CountBounded /\ [Next]_vars => TypeOK'
<1> SUFFICES ASSUME TypeOK, CountBounded, [Next]_vars PROVE TypeOK'
    OBVIOUS
<1> USE DEF schedVars, ctxVars, taskVars, viewVars, callerVars
<1>1. CASE Start
    BY <1>1, TypeGeneration DEF Start, StartGeneration, TypeOK
<1>2. ASSUME NEW r \in Reloaders, BeginReload(r) \/ ReloadStep(r) PROVE TypeOK'
    BY <1>2, TypeReload
<1>3. ASSUME NEW g \in Gens, NEW n \in Names, TaskStep(g, n) PROVE TypeOK'
    BY <1>3, TypeTask
<1>4. ASSUME NEW p \in posts, PostEnds(p) PROVE TypeOK'
    BY <1>4 DEF PostEnds, TypeOK
<1>5. CASE CancelRoot
    BY <1>5 DEF CancelRoot, TypeOK
<1>6. CASE UNCHANGED vars
    BY <1>6 DEF vars, TypeOK
<1> QED BY <1>1, <1>2, <1>3, <1>4, <1>5, <1>6 DEF Next

\* A step of one loop leaves the others where they are; it starts from a live
\* loop, and a loop that is live after it was live before.
LEMMA TaskFrame ==
    ASSUME TypeOK, NEW g \in Gens, NEW n \in Names, TaskStep(g, n)
    PROVE  /\ Live(g, n)
           /\ \A h \in Gens, m \in Names :
                <<h, m>> # <<g, n>> => task'[h][m] = task[h][m]
           /\ \A h \in Gens, m \in Names : Live(h, m)' => Live(h, m)
           /\ gens' = gens
<1>1. Live(g, n)
    BY DEF TaskStep, JitterOver, TimerFires, Exit, ProbeReturns, RecordSuccess,
           RecordFailure, CheckAlert, Move, Live
<1>2. PICK x : task' = [task EXCEPT ![g][n] = x]
    BY DEF TaskStep, JitterOver, TimerFires, Exit, ProbeReturns, RecordSuccess,
           RecordFailure, CheckAlert, Move
<1>3. \A h \in Gens, m \in Names : <<h, m>> # <<g, n>> => task'[h][m] = task[h][m]
    BY <1>2 DEF TypeOK
<1>4. \A h \in Gens, m \in Names : Live(h, m)' => Live(h, m)
    BY <1>1, <1>3 DEF Live
<1>5. gens' = gens
    BY DEF TaskStep, JitterOver, TimerFires, Exit, ProbeReturns, RecordSuccess,
           RecordFailure, CheckAlert, ctxVars
<1> QED BY <1>1, <1>3, <1>4, <1>5

\* What Run does to the loops.
LEMMA GenerationFrame ==
    ASSUME TypeOK, StartGeneration
    PROVE  /\ gens' = gens + 1 /\ gens' \in Gens
           /\ \A h \in Gens, m \in Names : h # gens' => task'[h][m] = task[h][m]
           /\ \A m \in Names : task'[gens'][m] \in {"jitter", "unborn"}
           /\ \A m \in Names : task'[gens'][m] = "jitter" => m \in TargetsOf[runners]
<1>1. gens' = gens + 1 /\ gens' \in Gens
    BY DEF StartGeneration, TypeOK
<1>2. task' = [task EXCEPT ![gens'] =
                  [n \in Names |-> IF n \in TargetsOf[runners] THEN "jitter" ELSE "unborn"]]
    BY <1>1 DEF StartGeneration
<1>3. \A h \in Gens, m \in Names : h # gens' => task'[h][m] = task[h][m]
    BY <1>1, <1>2 DEF TypeOK
<1>4. task'[gens'] = [n \in Names |-> IF n \in TargetsOf[runners] THEN "jitter" ELSE "unborn"]
    BY <1>1, <1>2 DEF TypeOK
<1> QED BY <1>1, <1>3, <1>4

\* No other step moves a loop.
LEMMA ReloadFrame ==
    ASSUME NEW r \in Reloaders, BeginReload(r) \/ ReloadStep(r), ~Rerun(r)
    PROVE  UNCHANGED <<taskVars, gens>>
BY DEF BeginReload, ReloadStep, LoadFails, LoadSucceeds, ReadCancel, CallCancel,
       Join, Wake, ClearMetrics, Swap, ForgetStatuses, Publish, taskVars, ctxVars

LEMMA BoundedNext == TypeOK /\ CountBounded /\ [Next]_vars => CountBounded'
<1> SUFFICES ASSUME TypeOK, CountBounded, [Next]_vars, NEW h \in Gens, NEW m \in Names
             PROVE  /\ task'[h][m] \notin {"waiting", "done"} => probeCount'[h][m] < MaxProbes
                    /\ h > gens' => task'[h][m] = "unborn" /\ probeCount'[h][m] = 0
    BY DEF CountBounded
<1> DEFINE Goal == /\ task'[h][m] \notin {"waiting", "done"} => probeCount'[h][m] < MaxProbes
                   /\ h > gens' => task'[h][m] = "unborn" /\ probeCount'[h][m] = 0
<1> USE DEF schedVars, ctxVars, taskVars, viewVars, callerVars
<1>1. ASSUME StartGeneration PROVE Goal
    <2>1. probeCount' = probeCount
        BY <1>1 DEF StartGeneration
    <2>2. gens' = gens + 1 /\ gens \in Nat /\ h \in Nat
        BY <1>1 DEF StartGeneration, TypeOK
    <2>3. h # gens' => task'[h][m] = task[h][m]
        BY <1>1, GenerationFrame
    <2> QED BY <2>1, <2>2, <2>3 DEF CountBounded
<1>2. ASSUME NEW g \in Gens, NEW n \in Names, TaskStep(g, n) PROVE Goal
    <2>0. gens' = gens
        BY <1>2, TaskFrame
    <2>1. CASE <<h, m>> # <<g, n>>
        <3>1. task'[h][m] = task[h][m]
            BY <1>2, <2>1, TaskFrame
        <3>2. PICK y : probeCount' = probeCount \/ probeCount' = [probeCount EXCEPT ![g][n] = y]
            <4>1. CASE RecordSuccess(g, n) \/ CheckAlert(g, n)
                BY <4>1 DEF RecordSuccess, CheckAlert, CountProbe
            <4>2. CASE Exit(g, n)
                BY <4>2 DEF Exit
            <4>3. CASE JitterOver(g, n) \/ TimerFires(g, n) \/ RecordFailure(g, n)
                BY <4>3 DEF JitterOver, TimerFires, RecordFailure
            <4>4. CASE \E ok \in BOOLEAN : ProbeReturns(g, n, ok)
                BY <4>4 DEF ProbeReturns
            <4> QED BY <1>2, <4>1, <4>2, <4>3, <4>4 DEF TaskStep
        <3>3. probeCount'[h][m] = probeCount[h][m]
            <4>1. probeCount \in [Gens -> [Names -> 0 .. MaxProbes]]
                BY DEF TypeOK
            <4>2. h # g \/ m # n
                BY <2>1
            <4> QED BY <3>2, <4>1, <4>2
        <3> QED BY <2>0, <3>1, <3>3 DEF CountBounded
    <2>2. CASE <<h, m>> = <<g, n>>
        <3> h = g /\ m = n
            BY <2>2
        <3>0. ~(h > gens')
            BY <1>2, <2>0, TaskFrame DEF CountBounded, Live
        <3>1. CASE Exit(g, n) \/ RecordSuccess(g, n) \/ CheckAlert(g, n)
            <4>1. CASE Exit(g, n)
                BY <3>0, <4>1 DEF Exit, TypeOK
            <4>2. CASE RecordSuccess(g, n)
                BY <3>0, <4>2 DEF RecordSuccess, Move, TypeOK
            <4>3. CASE CheckAlert(g, n)
                BY <3>0, <4>3 DEF CheckAlert, Move, TypeOK
            <4> QED BY <3>1, <4>1, <4>2, <4>3
        <3>2. CASE JitterOver(g, n)
            BY <3>0, <3>2 DEF JitterOver, Move, CountBounded
        <3>3. CASE TimerFires(g, n)
            BY <3>0, <3>3 DEF TimerFires
        <3>4. CASE RecordFailure(g, n)
            BY <3>0, <3>4 DEF RecordFailure, Move, CountBounded
        <3>5. ASSUME NEW ok \in BOOLEAN, ProbeReturns(g, n, ok)
              PROVE  Goal
            BY <3>0, <3>5 DEF ProbeReturns, Move, CountBounded
        <3> QED BY <1>2, <3>1, <3>2, <3>3, <3>4, <3>5 DEF TaskStep
    <2> QED BY <2>1, <2>2
<1>3. ASSUME UNCHANGED <<taskVars, gens>> PROVE Goal
    BY <1>3 DEF CountBounded
<1>4. ASSUME NEW r \in Reloaders, BeginReload(r) \/ ReloadStep(r)
      PROVE  StartGeneration \/ UNCHANGED <<taskVars, gens>>
    BY <1>4, ReloadFrame DEF Rerun
<1> QED BY <1>1, <1>2, <1>3, <1>4 DEF Next, Start, PostEnds, CancelRoot, vars

\* The variables keep their types whatever the callers of reload do.
THEOREM TypeCorrect == Spec => []TypeOK
<1>1. TypeOK /\ CountBounded /\ [Next]_vars => (TypeOK /\ CountBounded)'
    BY TypeNext, BoundedNext
<1> QED BY <1>1, TypeInit, PTL DEF Spec

-----------------------------------------------------------------------------
(* Reload excludes probing, as long as no two reloads have overlapped: no   *)
(* lock in the code prevents that, so the invariant is conditional, and the *)
(* step that would make it false is the one that sets "overlapped".         *)

\* What has overlapped stays so, and until then a caller that enters reload
\* finds nobody in it.
LEMMA OverlapStays ==
    ASSUME [Next]_vars, ~overlapped'
    PROVE  ~overlapped
<1> USE DEF callerVars
<1>1. ASSUME NEW r \in Reloaders, BeginReload(r) \/ ReloadStep(r) PROVE ~overlapped
    BY <1>1 DEF BeginReload, ReloadStep, LoadFails, LoadSucceeds, ReadCancel,
       CallCancel, Join, Wake, ClearMetrics, Swap, ForgetStatuses, Rerun, Publish
<1>2. ASSUME NEW g \in Gens, NEW n \in Names, TaskStep(g, n) PROVE ~overlapped
    BY <1>2 DEF TaskStep, JitterOver, TimerFires, Exit, ProbeReturns, RecordSuccess,
       RecordFailure, CheckAlert
<1>3. Start \/ (\E p \in posts : PostEnds(p)) \/ CancelRoot \/ UNCHANGED vars
        => ~overlapped
    BY DEF Start, PostEnds, CancelRoot, vars
<1> QED BY <1>1, <1>2, <1>3 DEF Next

LEMMA LoneCaller ==
    ASSUME ~overlapped', NEW r \in Reloaders, BeginReload(r)
    PROVE  \A s \in Reloaders \ {r} : pc[s] = "idle"
BY DEF BeginReload

\* The inductive invariant.  At most one reload is in progress; only loops of
\* the generation started last are alive, so that the cancel a reload reads
\* reaches them all; and from the end of wg.Wait to the next Run none is.
Exclusion ==
    /\ \A r, s \in Reloaders : pc[r] # "idle" /\ pc[s] # "idle" => r = s
    /\ \A g \in Gens, n \in Names : Live(g, n) => g = gens
    /\ ReloadIsExclusive
    /\ \A r \in Reloaders : pc[r] = "released" => Drained
    /\ NoWaitGroupPanic
    /\ gens = 0 => \A r \in Reloaders : pc[r] = "idle"

LEMMA ExclusionInit == Init => Exclusion
BY DEF Init, Exclusion, Live, Drained, ReloadIsExclusive, NoWaitGroupPanic

\* A step of a loop finds nobody in the exclusive part of a reload, and moves
\* a caller only from "blocked" to "released", when it is the last to go.
LEMMA ExclusionTask ==
    ASSUME ~overlapped, ~overlapped',
           TypeOK, Exclusion, NEW g \in Gens, NEW n \in Names, TaskStep(g, n)
    PROVE  Exclusion'
<1>1. ~Drained
    BY TaskFrame DEF Drained
<1>2. \A r \in Reloaders : pc'[r] # pc[r] =>
            pc[r] = "blocked" /\ pc'[r] = "released" /\ Drained'
    <2>1. CASE Exit(g, n)
        <3>1. CASE \A h \in Gens, m \in Names : Live(h, m) => h = g /\ m = n
            <4>1. task'[g][n] = "done"
                BY <2>1 DEF Exit, TypeOK
            <4>2. Drained'
                BY <3>1, <4>1, TaskFrame DEF Drained, Live
            <4> QED BY <2>1, <3>1, <4>2 DEF Exit, TypeOK
        <3>2. CASE ~ \A h \in Gens, m \in Names : Live(h, m) => h = g /\ m = n
            BY <2>1, <3>2 DEF Exit
        <3> QED BY <3>1, <3>2
    <2>2. CASE UNCHANGED pc
        BY <2>2
    <2>3. Exit(g, n) \/ UNCHANGED pc
        BY DEF TaskStep, JitterOver, TimerFires, ProbeReturns, RecordSuccess,
               RecordFailure, CheckAlert, callerVars
    <2> QED BY <2>1, <2>2, <2>3
<1>3. \A r \in Reloaders : pc[r] \notin {"clearing", "swapping", "forgetting",
                                         "running", "released", "panicked"}
    BY <1>1 DEF Exclusion, ReloadIsExclusive, NoWaitGroupPanic
<1>4. ReloadIsExclusive' /\ NoWaitGroupPanic'
      /\ \A r \in Reloaders : pc'[r] = "released" => Drained'
    BY <1>2, <1>3 DEF ReloadIsExclusive, NoWaitGroupPanic
<1>5. \A h \in Gens, m \in Names : Live(h, m)' => h = gens'
    BY TaskFrame DEF Exclusion
<1>6. \A r, s \in Reloaders : pc'[r] # "idle" /\ pc'[s] # "idle" => r = s
    BY <1>2 DEF Exclusion
<1>7. gens' = 0 => \A r \in Reloaders : pc'[r] = "idle"
    BY <1>2, TaskFrame DEF Exclusion
<1> QED BY <1>4, <1>5, <1>6, <1>7 DEF Exclusion

\* A step of a caller.
LEMMA ExclusionReload ==
    ASSUME ~overlapped, ~overlapped',
           TypeOK, Exclusion, NEW r \in Reloaders,
           BeginReload(r) \/ ReloadStep(r)
    PROVE  Exclusion'
<1>1. \A s \in Reloaders \ {r} : pc'[s] = pc[s]
    BY DEF BeginReload, ReloadStep, LoadFails, LoadSucceeds, ReadCancel, CallCancel,
           Join, Wake, ClearMetrics, Swap, ForgetStatuses, Rerun, Publish, Goto, TypeOK
<1>2. gens # 0 /\ \A s \in Reloaders \ {r} : pc[s] = "idle"
    <2>1. CASE BeginReload(r)
        BY <2>1 DEF BeginReload
    <2>2. CASE pc[r] # "idle"
        BY <2>2 DEF Exclusion
    <2> QED BY <2>1, <2>2 DEF ReloadStep, LoadFails, LoadSucceeds, ReadCancel,
            CallCancel, Join, Wake, ClearMetrics, Swap, ForgetStatuses, Rerun,
            Publish, Goto
<1>3. CASE Rerun(r)
    <2>1. pc[r] = "running" /\ pc'[r] = "publishing"
        BY <1>3 DEF Rerun, Goto, TypeOK
    <2>2. Drained
        BY <2>1 DEF Exclusion, ReloadIsExclusive
    <2>3. \A h \in Gens, m \in Names : Live(h, m)' => h = gens'
        BY <1>3, <2>2, GenerationFrame DEF Rerun, Drained, Live
    <2>4. gens' # 0
        BY <1>3, GenerationFrame DEF Rerun
    <2> QED BY <1>1, <1>2, <2>1, <2>3, <2>4
            DEF Exclusion, ReloadIsExclusive, NoWaitGroupPanic
<1>4. CASE ~Rerun(r)
    <2>1. UNCHANGED <<task, gens>>
        BY <1>4, ReloadFrame DEF taskVars
    <2>2. Drained' = Drained /\ \A h \in Gens, m \in Names : Live(h, m)' = Live(h, m)
        BY <2>1 DEF Drained, Live
    <2>3. /\ pc'[r] \in {"clearing", "swapping", "forgetting", "running"} => Drained
          /\ pc'[r] \notin {"released", "panicked"}
        <3>1. CASE BeginReload(r) \/ LoadFails(r) \/ ReadCancel(r) \/ CallCancel(r)
                   \/ Publish(r) \/ \E c \in Configs : LoadSucceeds(r, c)
            BY <3>1 DEF BeginReload, LoadFails, LoadSucceeds, ReadCancel, CallCancel,
                        Publish, Goto, TypeOK
        <3>2. CASE Join(r)
            BY <3>2 DEF Join, Goto, TypeOK
        <3>3. CASE Wake(r)
            BY <3>3 DEF Wake, Goto, TypeOK, Exclusion
        <3>4. CASE ClearMetrics(r) \/ Swap(r) \/ ForgetStatuses(r)
            BY <3>4 DEF ClearMetrics, Swap, ForgetStatuses, Goto, TypeOK, Exclusion,
                        ReloadIsExclusive
        <3> QED BY <1>4, <3>1, <3>2, <3>3, <3>4 DEF ReloadStep
    <2> QED BY <1>1, <1>2, <2>1, <2>2, <2>3
            DEF Exclusion, ReloadIsExclusive, NoWaitGroupPanic
<1> QED BY <1>3, <1>4

LEMMA ExclusionNext ==
    ASSUME ~overlapped, ~overlapped',
           TypeOK, Exclusion, [Next]_vars
    PROVE  Exclusion'
<1>1. CASE Start
    <2>1. \A r \in Reloaders : pc'[r] = "idle"
        BY <1>1 DEF Start, callerVars, Exclusion
    <2>2. Drained
        BY <1>1 DEF Start, Exclusion, Drained, Gens
    <2>3. \A h \in Gens, m \in Names : Live(h, m)' => h = gens'
        BY <1>1, <2>2, GenerationFrame DEF Start, Drained, Live
    <2> QED BY <2>1, <2>3 DEF Exclusion, ReloadIsExclusive, NoWaitGroupPanic
<1>2. ASSUME NEW r \in Reloaders, BeginReload(r) \/ ReloadStep(r) PROVE Exclusion'
    BY <1>2, ExclusionReload
<1>3. ASSUME NEW g \in Gens, NEW n \in Names, TaskStep(g, n) PROVE Exclusion'
    BY <1>3, ExclusionTask
<1>4. CASE UNCHANGED <<pc, task, gens>>
    BY <1>4 DEF Exclusion, ReloadIsExclusive, NoWaitGroupPanic, Drained, Live
<1>5. (\E p \in posts : PostEnds(p)) \/ CancelRoot \/ UNCHANGED vars
        => UNCHANGED <<pc, task, gens>>
    BY DEF PostEnds, CancelRoot, vars, ctxVars, taskVars, callerVars
<1> QED BY <1>1, <1>2, <1>3, <1>4, <1>5 DEF Next

LEMMA ExclusionInvariant ==
    Spec => [](TypeOK /\ CountBounded /\ (~overlapped => Exclusion))
<1> DEFINE Inv == TypeOK /\ CountBounded /\ (~overlapped => Exclusion)
<1>1. Init => Inv
    BY TypeInit, ExclusionInit
<1>2. Inv /\ [Next]_vars => Inv'
    BY TypeNext, BoundedNext, ExclusionNext, OverlapStays
<1> QED BY <1>1, <1>2, PTL DEF Spec

\* As long as no two reloads have overlapped, from the return of Stop to the
\* next Run no loop is alive, and all loops alive are of one generation
\* (scheduler.go, Reload).
THEOREM ExclusiveReload == Spec => [](ReloadIsExclusive /\ OneGeneration)
<1>1. (~overlapped => Exclusion) => ReloadIsExclusive /\ OneGeneration
    BY DEF Exclusion, ReloadIsExclusive, OneGeneration, LoopsOfOneRun
<1>2. Spec => [](TypeOK /\ CountBounded /\ (~overlapped => Exclusion))
    BY ExclusionInvariant
<1> QED BY <1>1, <1>2, PTL

-----------------------------------------------------------------------------
(* What is shown about the targets: the configurations in use agree, no     *)
(* status or series is stale, the two endpoints agree, and every probe is   *)
(* counted once.                                                           *)

\* Which variables hold the same configuration, by the progress of a reload.
Agreement ==
    /\ (\A r \in Reloaders : pc[r] \notin {"forgetting", "running", "publishing"}) =>
         /\ currentConfig = runners /\ alerter = runners
         /\ gens # 0 => genConfig[gens] = runners /\ cancel = gens
    /\ \A r \in Reloaders :
         pc[r] \in {"forgetting", "running", "publishing"} =>
           alerter = runners /\ runners = loaded[r]
    /\ \A r \in Reloaders :
         pc[r] = "publishing" => genConfig[gens] = runners /\ cancel = gens

\* What the tracker and the gauge hold for a loop, by its progress.
Counted(n, count) == n \in DOMAIN tracker /\ tracker[n].totalProbes = count

Shown(g, n) ==
    /\ <<n, Label(g, n)>> \in DOMAIN gauge
    /\ gauge[<<n, Label(g, n)>>] = "up" <=> tracker[n].success

LoopView(g, n) ==
    /\ Live(g, n) => n \in TargetsOf[genConfig[g]]
    /\ task[g][n] = "jitter" => n \notin DOMAIN tracker /\ probeCount[g][n] = 0
    /\ task[g][n] = "probing" =>
         \/ n \notin DOMAIN tracker /\ probeCount[g][n] = 0
         \/ Counted(n, probeCount[g][n])
    /\ task[g][n] = "succeeded" =>
         Counted(n, probeCount[g][n] + 1) /\ tracker[n].success = TRUE
    /\ task[g][n] \in {"failed", "checking"} =>
         Counted(n, probeCount[g][n] + 1) /\ tracker[n].success = FALSE
    /\ task[g][n] = "checking" => Shown(g, n)
    /\ task[g][n] = "waiting" => Counted(n, probeCount[g][n]) /\ Shown(g, n)

\* Between the resets and the next Run the views stay empty.
CleanSlate ==
    /\ \A r \in Reloaders :
         /\ pc[r] \in {"swapping", "forgetting", "running"} => DOMAIN gauge = {}
         /\ pc[r] = "running" => DOMAIN tracker = {}
    /\ gens = 0 => DOMAIN tracker = {} /\ DOMAIN gauge = {}

Views ==
    /\ \A g \in Gens, n \in Names : LoopView(g, n)
    /\ CleanSlate
    /\ NoStaleTargets
-----------------------------------------------------------------------------
LEMMA AgreementInit == Init => Agreement
BY DEF Init, Agreement

\* A loop never changes what Agreement speaks of, except that its last Done
\* moves a caller from "blocked" to "released".
LEMMA AgreementTask ==
    ASSUME TypeOK, Agreement, NEW g \in Gens, NEW n \in Names, TaskStep(g, n)
    PROVE  Agreement'
<1>1. UNCHANGED <<runners, alerter, currentConfig, genConfig, gens, cancel, loaded>>
    BY DEF TaskStep, JitterOver, TimerFires, Exit, ProbeReturns, RecordSuccess,
           RecordFailure, CheckAlert, schedVars, ctxVars, callerVars
<1>2. \A r \in Reloaders : pc'[r] = pc[r] \/ (pc[r] = "blocked" /\ pc'[r] = "released")
    <2>1. CASE Exit(g, n)
        BY <2>1 DEF Exit, TypeOK
    <2>2. CASE UNCHANGED pc
        BY <2>2
    <2> QED BY <2>1, <2>2
        DEF TaskStep, JitterOver, TimerFires, ProbeReturns, RecordSuccess,
            RecordFailure, CheckAlert, callerVars
<1> QED BY <1>1, <1>2 DEF Agreement

\* A caller that takes a step is, afterwards at least, the only one in reload;
\* the others do not move.
LEMMA SoleCaller ==
    ASSUME ~overlapped, ~overlapped',
           TypeOK, Exclusion, NEW r \in Reloaders,
           BeginReload(r) \/ ReloadStep(r)
    PROVE  /\ \A s \in Reloaders \ {r} : pc'[s] = pc[s] /\ pc[s] = "idle"
           /\ gens # 0 /\ gens \in Nat
<1>1. CASE BeginReload(r)
    <2>1. gens # 0 /\ gens \in Nat /\ \A s \in Reloaders \ {r} : pc'[s] = pc[s]
        BY <1>1 DEF BeginReload, Goto, TypeOK
    <2> QED BY <1>1, <2>1, LoneCaller
<1>2. CASE ReloadStep(r)
    <2>1. pc[r] # "idle" /\ \A s \in Reloaders \ {r} : pc'[s] = pc[s]
        BY <1>2 DEF ReloadStep, LoadFails, LoadSucceeds, ReadCancel, CallCancel,
           Join, Wake, ClearMetrics, Swap, ForgetStatuses, Rerun, Publish, Goto, TypeOK
    <2>2. gens \in Nat
        BY DEF TypeOK
    <2> QED BY <2>1, <2>2 DEF Exclusion
<1> QED BY <1>1, <1>2

\* A step of a caller, which is the only one in reload.
LEMMA AgreementReload ==
    ASSUME ~overlapped, ~overlapped',
           TypeOK, Exclusion, Agreement, NEW r \in Reloaders,
           BeginReload(r) \/ ReloadStep(r)
    PROVE  Agreement'
<1>1. \A s \in Reloaders \ {r} : pc'[s] = pc[s] /\ pc[s] = "idle"
    BY SoleCaller
<1>2. gens # 0 /\ gens \in Nat
    BY SoleCaller
<1> USE DEF Goto, schedVars, ctxVars, callerVars
<1>3. ASSUME BeginReload(r) \/ LoadFails(r) \/ (\E c \in Configs : LoadSucceeds(r, c))
               \/ ReadCancel(r) \/ CallCancel(r) \/ Join(r) \/ Wake(r) \/ ClearMetrics(r)
      PROVE  Agreement'
    <2>1. UNCHANGED <<runners, alerter, currentConfig, genConfig, gens, cancel>>
        BY <1>3 DEF BeginReload, LoadFails, LoadSucceeds, ReadCancel, CallCancel, Join,
           Wake, ClearMetrics
    <2>2. /\ pc[r] \notin {"forgetting", "running", "publishing"}
          /\ pc'[r] \notin {"forgetting", "running", "publishing"}
        BY <1>3 DEF BeginReload, LoadFails, LoadSucceeds, ReadCancel, CallCancel, Join,
           Wake, ClearMetrics, TypeOK
    <2> QED BY <1>1, <2>1, <2>2 DEF Agreement
<1>4. CASE Swap(r)
    BY <1>1, <1>4 DEF Swap, TypeOK, Agreement
<1>5. CASE ForgetStatuses(r)
    BY <1>1, <1>5 DEF ForgetStatuses, TypeOK, Agreement
<1>6. CASE Rerun(r)
    <2>1. gens' \in Gens /\ cancel' = gens' /\ genConfig' = [genConfig EXCEPT ![gens'] = runners]
        BY <1>6, GenerationFrame DEF Rerun, StartGeneration
    <2>2. genConfig'[gens'] = runners
        BY <2>1 DEF TypeOK
    <2>3. UNCHANGED <<runners, alerter, currentConfig, loaded>>
        BY <1>6 DEF Rerun, StartGeneration
    <2>4. pc[r] = "running" /\ pc'[r] = "publishing"
        BY <1>6 DEF Rerun, TypeOK
    <2> QED BY <1>1, <2>1, <2>2, <2>3, <2>4 DEF Agreement
<1>7. CASE Publish(r)
    BY <1>1, <1>7 DEF Publish, TypeOK, Agreement
<1> QED BY <1>3, <1>4, <1>5, <1>6, <1>7 DEF ReloadStep

LEMMA AgreementNext ==
    ASSUME ~overlapped, ~overlapped',
           TypeOK, Exclusion, Agreement, [Next]_vars
    PROVE  Agreement'
<1>1. CASE Start
    <2>1. \A r \in Reloaders : pc'[r] = "idle" /\ pc[r] = "idle"
        BY <1>1 DEF Start, callerVars, Exclusion
    <2>2. gens' \in Gens /\ cancel' = gens' /\ genConfig' = [genConfig EXCEPT ![gens'] = runners]
        BY <1>1, GenerationFrame DEF Start, StartGeneration
    <2>3. genConfig'[gens'] = runners
        BY <2>2 DEF TypeOK
    <2>4. UNCHANGED <<runners, alerter, currentConfig>>
        BY <1>1 DEF Start, StartGeneration, callerVars
    <2> QED BY <2>1, <2>2, <2>3, <2>4 DEF Agreement
<1>2. ASSUME NEW r \in Reloaders, BeginReload(r) \/ ReloadStep(r) PROVE Agreement'
    BY <1>2, AgreementReload
<1>3. ASSUME NEW g \in Gens, NEW n \in Names, TaskStep(g, n) PROVE Agreement'
    BY <1>3, AgreementTask
<1>4. CASE UNCHANGED <<runners, alerter, cancel, gens, genConfig, pc, loaded, currentConfig>>
    BY <1>4 DEF Agreement
<1>5. (\E p \in posts : PostEnds(p)) \/ CancelRoot \/ UNCHANGED vars
        => UNCHANGED <<runners, alerter, cancel, gens, genConfig, pc, loaded, currentConfig>>
    BY DEF PostEnds, CancelRoot, vars, schedVars, ctxVars, callerVars
<1> QED BY <1>1, <1>2, <1>3, <1>4, <1>5 DEF Next

\* With no reload in progress /probe, the loops and the alerter use one
\* configuration, and Stop would cancel the loops that run (reload in main.go
\* and Reload in scheduler.go), as long as no two reloads have overlapped.
THEOREM SettledAgreement == Spec => []SettledAgrees
<1> DEFINE Inv == TypeOK /\ CountBounded /\ (~overlapped => Exclusion /\ Agreement)
<1>1. Init => Inv
    BY TypeInit, ExclusionInit, AgreementInit
<1>2. Inv /\ [Next]_vars => Inv'
    BY TypeNext, BoundedNext, ExclusionNext, AgreementNext, OverlapStays
<1>3. Inv => SettledAgrees
    BY DEF Agreement, SettledAgrees
<1> QED BY <1>1, <1>2, <1>3, PTL DEF Spec

-----------------------------------------------------------------------------
(* The two views.                                                          *)

\* What a loop may do to the two views, and to what they are compared with.
LEMMA ViewFrame ==
    ASSUME TypeOK, NEW g \in Gens, NEW n \in Names, TaskStep(g, n)
    PROVE  /\ UNCHANGED <<genConfig, gens>>
           /\ \A h \in Gens, m \in Names : Label(h, m)' = Label(h, m)
           /\ \A h \in Gens, m \in Names :
                <<h, m>> # <<g, n>> => probeCount'[h][m] = probeCount[h][m]
           /\ \A m \in Names \ {n} :
                /\ m \in DOMAIN tracker' <=> m \in DOMAIN tracker
                /\ m \in DOMAIN tracker => tracker'[m] = tracker[m]
           /\ \A m \in Names \ {n}, l \in LabelSets :
                /\ <<m, l>> \in DOMAIN gauge' <=> <<m, l>> \in DOMAIN gauge
                /\ <<m, l>> \in DOMAIN gauge => gauge'[<<m, l>>] = gauge[<<m, l>>]
<1>1. UNCHANGED <<genConfig, gens>>
    BY DEF TaskStep, JitterOver, TimerFires, Exit, ProbeReturns, RecordSuccess,
           RecordFailure, CheckAlert, ctxVars
<1>2. \A h \in Gens, m \in Names : Label(h, m)' = Label(h, m)
    BY <1>1 DEF Label
<1>3. probeCount' = probeCount \/ \E x : probeCount' = [probeCount EXCEPT ![g][n] = x]
    BY DEF TaskStep, JitterOver, TimerFires, Exit, ProbeReturns, RecordSuccess,
           RecordFailure, CheckAlert, CountProbe
<1>4. \A h \in Gens, m \in Names : <<h, m>> # <<g, n>> => probeCount'[h][m] = probeCount[h][m]
    <2>1. probeCount \in [Gens -> [Names -> 0 .. MaxProbes]]
        BY DEF TypeOK
    <2>2. SUFFICES ASSUME NEW h \in Gens, NEW m \in Names, h # g \/ m # n
                   PROVE  probeCount'[h][m] = probeCount[h][m]
        OBVIOUS
    <2> QED BY <1>3, <2>1, <2>2
<1>5. tracker' = tracker \/ \E ok \in BOOLEAN : tracker' = Updated(tracker, n, Label(g, n), ok)
    BY DEF TaskStep, JitterOver, TimerFires, Exit, ProbeReturns, RecordSuccess,
           RecordFailure, CheckAlert, viewVars
<1>6. \A m \in Names \ {n} : /\ m \in DOMAIN tracker' <=> m \in DOMAIN tracker
                             /\ m \in DOMAIN tracker => tracker'[m] = tracker[m]
    <2>1. ASSUME NEW ok \in BOOLEAN, tracker' = Updated(tracker, n, Label(g, n), ok),
                 NEW m \in Names \ {n}
          PROVE  /\ m \in DOMAIN tracker' <=> m \in DOMAIN tracker
                 /\ m \in DOMAIN tracker => tracker'[m] = tracker[m]
        <3>1. DOMAIN tracker' = DOMAIN tracker \cup {n}
            BY <2>1 DEF Updated
        <3>2. \A k \in DOMAIN tracker : k # n => tracker'[k] = tracker[k]
            BY <2>1 DEF Updated
        <3> QED BY <3>1, <3>2
    <2> QED BY <1>5, <2>1
<1>7. gauge' = gauge \/ SetGauge(g, n, "up") \/ SetGauge(g, n, "down")
    BY DEF TaskStep, JitterOver, TimerFires, Exit, ProbeReturns, RecordSuccess,
           RecordFailure, CheckAlert, viewVars
<1>8. \A m \in Names \ {n}, l \in LabelSets :
            /\ <<m, l>> \in DOMAIN gauge' <=> <<m, l>> \in DOMAIN gauge
            /\ <<m, l>> \in DOMAIN gauge => gauge'[<<m, l>>] = gauge[<<m, l>>]
    <2>1. ASSUME NEW v, SetGauge(g, n, v), NEW s, s # <<n, Label(g, n)>>
          PROVE  /\ s \in DOMAIN gauge' <=> s \in DOMAIN gauge
                 /\ s \in DOMAIN gauge => gauge'[s] = gauge[s]
        BY <2>1 DEF SetGauge
    <2>2. \A m \in Names \ {n}, l \in LabelSets : <<m, l>> # <<n, Label(g, n)>>
        OBVIOUS
    <2> QED BY <1>7, <2>1, <2>2
<1> QED BY <1>1, <1>2, <1>4, <1>6, <1>8

\* The loop that takes the step.
LEMMA OwnView ==
    ASSUME ~overlapped, ~overlapped',
           TypeOK, Views, NEW g \in Gens, NEW n \in Names, g = gens, TaskStep(g, n)
    PROVE  /\ LoopView(g, n)'
           /\ n \in DOMAIN tracker' =>
                n \in TargetsOf[genConfig[gens]] /\ tracker'[n].label = Label(g, n)
           /\ \A s \in DOMAIN gauge' :
                s[1] = n => n \in DOMAIN tracker' /\ s[2] = Label(g, n)
<1> DEFINE Goal == /\ LoopView(g, n)'
                   /\ n \in DOMAIN tracker' =>
                        n \in TargetsOf[genConfig[gens]] /\ tracker'[n].label = Label(g, n)
                   /\ \A s \in DOMAIN gauge' :
                        s[1] = n => n \in DOMAIN tracker' /\ s[2] = Label(g, n)
<1>1. Label(g, n)' = Label(g, n) /\ genConfig' = genConfig /\ gens' = gens
    BY ViewFrame
<1>2. LoopView(g, n) /\ n \in TargetsOf[genConfig[g]]
    BY TaskFrame DEF Views, LoopView
<1>3. /\ n \in DOMAIN tracker => tracker[n].label = Label(g, n)
      /\ \A s \in DOMAIN gauge : s[1] = n => n \in DOMAIN tracker /\ s[2] = Label(g, n)
    BY DEF Views, NoStaleTargets
<1>4. /\ \A x : task' = [task EXCEPT ![g][n] = x] => task'[g][n] = x
      /\ \A x : probeCount' = [probeCount EXCEPT ![g][n] = x] => probeCount'[g][n] = x
      /\ probeCount[g][n] \in Nat
    BY DEF TypeOK
<1>5. ASSUME JitterOver(g, n) \/ TimerFires(g, n) PROVE Goal
    <2>1. UNCHANGED <<tracker, gauge, probeCount>> /\ task[g][n] \in {"jitter", "waiting"}
          /\ task'[g][n] = "probing"
        BY <1>4, <1>5 DEF JitterOver, TimerFires, Move, viewVars
    <2> QED BY <1>1, <1>2, <1>3, <2>1 DEF LoopView, Live, Counted
<1>6. CASE Exit(g, n)
    <2>1. UNCHANGED <<tracker, gauge>> /\ task'[g][n] = "done"
        BY <1>4, <1>6 DEF Exit, viewVars
    <2> QED BY <1>1, <1>2, <1>3, <2>1 DEF LoopView, Live
<1>7. ASSUME NEW ok \in BOOLEAN, ProbeReturns(g, n, ok) PROVE Goal
    <2>1. /\ tracker' = Updated(tracker, n, Label(g, n), ok)
          /\ UNCHANGED <<gauge, probeCount>>
          /\ task[g][n] = "probing"
          /\ task'[g][n] = IF ok THEN "succeeded" ELSE "failed"
        BY <1>4, <1>7 DEF ProbeReturns, Move
    <2>2. /\ n \in DOMAIN tracker'
          /\ tracker'[n].totalProbes = probeCount[g][n] + 1
          /\ tracker'[n].success = ok
          /\ tracker'[n].label = Label(g, n)
        <3>1. /\ DOMAIN tracker' = DOMAIN tracker \cup {n}
              /\ tracker'[n].success = ok
              /\ n \in DOMAIN tracker => /\ tracker'[n].label = tracker[n].label
                                        /\ tracker'[n].totalProbes = tracker[n].totalProbes + 1
              /\ n \notin DOMAIN tracker => /\ tracker'[n].label = Label(g, n)
                                           /\ tracker'[n].totalProbes = 1
            BY <2>1 DEF Updated, WithOutcome, FreshEntry
        <3>2. \/ n \notin DOMAIN tracker /\ probeCount[g][n] = 0
              \/ n \in DOMAIN tracker /\ tracker[n].totalProbes = probeCount[g][n]
            BY <1>2, <2>1 DEF LoopView, Counted
        <3> QED BY <1>3, <1>4, <3>1, <3>2
    <2>3. LoopView(g, n)'
        <3>1. CASE ok
            BY <1>1, <1>2, <2>1, <2>2, <3>1 DEF LoopView, Counted
        <3>2. CASE ~ok
            BY <1>1, <1>2, <2>1, <2>2, <3>2 DEF LoopView, Counted
        <3> QED BY <3>1, <3>2
    <2> QED BY <1>1, <1>2, <1>3, <2>1, <2>2, <2>3
<1>8. CASE RecordSuccess(g, n)
    <2>1. /\ UNCHANGED tracker
          /\ task[g][n] = "succeeded" /\ task'[g][n] = "waiting"
          /\ probeCount'[g][n] = probeCount[g][n] + 1
          /\ SetGauge(g, n, "up")
        BY <1>4, <1>8 DEF RecordSuccess, Move, CountProbe
    <2>2. /\ DOMAIN gauge' = DOMAIN gauge \cup {<<n, Label(g, n)>>}
          /\ gauge'[<<n, Label(g, n)>>] = "up"
        BY <2>1 DEF SetGauge
    <2> QED BY <1>1, <1>2, <1>3, <2>1, <2>2 DEF LoopView, Live, Counted, Shown
<1>9. CASE RecordFailure(g, n)
    <2>1. /\ UNCHANGED <<tracker, probeCount>>
          /\ task[g][n] = "failed" /\ task'[g][n] = "checking"
          /\ SetGauge(g, n, "down")
        BY <1>4, <1>9 DEF RecordFailure, Move
    <2>2. /\ DOMAIN gauge' = DOMAIN gauge \cup {<<n, Label(g, n)>>}
          /\ gauge'[<<n, Label(g, n)>>] = "down"
        BY <2>1 DEF SetGauge
    <2> QED BY <1>1, <1>2, <1>3, <2>1, <2>2 DEF LoopView, Live, Counted, Shown
<1>10. CASE CheckAlert(g, n)
    <2>1. /\ UNCHANGED <<tracker, gauge>>
          /\ task[g][n] = "checking" /\ task'[g][n] = "waiting"
          /\ probeCount'[g][n] = probeCount[g][n] + 1
        BY <1>4, <1>10 DEF CheckAlert, Move, CountProbe
    <2> QED BY <1>1, <1>2, <1>3, <2>1 DEF LoopView, Live, Counted, Shown
<1> QED BY <1>5, <1>6, <1>7, <1>8, <1>9, <1>10 DEF TaskStep

LEMMA ViewsInit == Init => Views
BY EmptyMapDomain DEF Init, Views, LoopView, Live, CleanSlate, NoStaleTargets

\* A step of a loop: the loop itself by OwnView; the other live loops are of
\* its generation, hence of other names, whose entries it leaves alone; and no
\* caller is between the resets and Run.
LEMMA ViewsTask ==
    ASSUME ~overlapped, ~overlapped',
           TypeOK, TypeOK', Exclusion, Views,
           NEW g \in Gens, NEW n \in Names, TaskStep(g, n)
    PROVE  Views'
<1>1. Live(g, n) /\ g = gens /\ ~Drained
    BY TaskFrame DEF Exclusion, Drained
<1>2. \A h \in Gens, m \in Names : LoopView(h, m)'
    <2>1. SUFFICES ASSUME NEW h \in Gens, NEW m \in Names PROVE LoopView(h, m)'
        OBVIOUS
    <2>2. CASE h = g /\ m = n
        BY <1>1, <2>2, OwnView
    <2>3. CASE ~Live(h, m)'
        BY <2>3 DEF LoopView, Live
    <2>4. CASE Live(h, m)' /\ ~(h = g /\ m = n)
        <3>1. h = g /\ m \in Names \ {n}
            BY <1>1, <2>4, TaskFrame DEF Exclusion
        <3>2. task'[h][m] = task[h][m] /\ probeCount'[h][m] = probeCount[h][m]
            BY <2>4, TaskFrame, ViewFrame
        <3>3. Label(h, m)' = Label(h, m) /\ genConfig' = genConfig /\ Label(h, m) \in LabelSets
            <4>1. genConfig[h] \in Configs
                BY DEF TypeOK
            <4>2. Label(h, m) \in LabelSets
                BY <4>1 DEF Label
            <4> QED BY <4>2, ViewFrame
        <3>4. /\ m \in DOMAIN tracker' <=> m \in DOMAIN tracker
              /\ m \in DOMAIN tracker => tracker'[m] = tracker[m]
            BY <3>1, ViewFrame
        <3>5. /\ <<m, Label(h, m)>> \in DOMAIN gauge' <=> <<m, Label(h, m)>> \in DOMAIN gauge
              /\ <<m, Label(h, m)>> \in DOMAIN gauge =>
                    gauge'[<<m, Label(h, m)>>] = gauge[<<m, Label(h, m)>>]
            BY <3>1, <3>3, ViewFrame
        <3>6. LoopView(h, m)
            BY DEF Views
        <3> QED BY <3>2, <3>3, <3>4, <3>5, <3>6 DEF LoopView, Live, Counted, Shown
    <2> QED BY <2>2, <2>3, <2>4
<1>3. CleanSlate'
    <2>1. gens' # 0
        BY <1>1, TaskFrame
    <2>2. \A r \in Reloaders : pc[r] \notin {"clearing", "swapping", "forgetting", "running"}
        BY <1>1 DEF Exclusion, ReloadIsExclusive
    <2>3. \A r \in Reloaders : pc'[r] = pc[r] \/ pc'[r] = "released"
        <3>1. CASE Exit(g, n)
            BY <3>1 DEF Exit, TypeOK
        <3>2. CASE UNCHANGED pc
            BY <3>2
        <3> QED BY <3>1, <3>2
            DEF TaskStep, JitterOver, TimerFires, ProbeReturns, RecordSuccess,
                RecordFailure, CheckAlert, callerVars
    <2> QED BY <2>1, <2>2, <2>3 DEF CleanSlate
<1>4. NoStaleTargets'
    <2>1. \A m \in DOMAIN tracker' :
                m \in TargetsOf[genConfig'[gens']] /\ tracker'[m].label = LabelOf[genConfig'[gens']][m]
        <3>1. SUFFICES ASSUME NEW m \in DOMAIN tracker'
                       PROVE  m \in TargetsOf[genConfig[g]] /\ tracker'[m].label = Label(g, m)
            BY <1>1, ViewFrame DEF TypeOK, Label
        <3>2. CASE m = n
            BY <1>1, <3>2, OwnView
        <3>3. CASE m # n
            <4>1. m \in Names \ {n}
                BY <3>3 DEF TypeOK
            <4>2. m \in DOMAIN tracker /\ tracker'[m] = tracker[m]
                BY <4>1, ViewFrame
            <4> QED BY <1>1, <4>2 DEF Views, NoStaleTargets
        <3> QED BY <3>2, <3>3
    <2>2. \A s \in DOMAIN gauge' : s[1] \in DOMAIN tracker' /\ s[2] = LabelOf[genConfig'[gens']][s[1]]
        <3>1. genConfig'[gens'] = genConfig[g] /\ DOMAIN gauge' \subseteq Names \X LabelSets
            BY <1>1, ViewFrame DEF TypeOK
        <3>2. ASSUME NEW m \in Names, NEW l \in LabelSets, <<m, l>> \in DOMAIN gauge'
              PROVE  m \in DOMAIN tracker' /\ l = Label(g, m)
            <4>1. CASE m = n
                BY <1>1, <3>2, <4>1, OwnView
            <4>2. CASE m # n
                <5>1. <<m, l>> \in DOMAIN gauge
                    BY <3>2, <4>2, ViewFrame
                <5>2. m \in DOMAIN tracker /\ l = Label(g, m)
                    BY <1>1, <5>1 DEF Views, NoStaleTargets
                <5> QED BY <4>2, <5>2, ViewFrame
            <4> QED BY <4>1, <4>2
        <3> QED BY <3>1, <3>2 DEF Label
    <2> QED BY <2>1, <2>2 DEF NoStaleTargets, Label
<1> QED BY <1>2, <1>3, <1>4 DEF Views

\* Run starts on a clean slate: its loops have no entry yet.
LEMMA ViewsGeneration ==
    ASSUME ~overlapped, ~overlapped',
           TypeOK, CountBounded, Drained, StartGeneration,
           DOMAIN tracker = {}, DOMAIN gauge = {}
    PROVE  (\A g \in Gens, n \in Names : LoopView(g, n)') /\ NoStaleTargets'
           /\ DOMAIN tracker' = {} /\ DOMAIN gauge' = {}
<1>1. UNCHANGED <<tracker, gauge, probeCount>>
    BY DEF StartGeneration, viewVars
<1>2. gens' \in Gens /\ genConfig'[gens'] = runners
    BY GenerationFrame DEF StartGeneration, TypeOK
<1>3. ASSUME NEW g \in Gens, NEW n \in Names PROVE LoopView(g, n)'
    <2>1. CASE ~Live(g, n)'
        BY <2>1 DEF LoopView, Live
    <2>2. CASE Live(g, n)'
        <3>1. g = gens'
            BY <2>2, GenerationFrame DEF Drained, Live
        <3>2. task'[g][n] = "jitter" /\ n \in TargetsOf[runners]
            BY <2>2, <3>1, GenerationFrame DEF Live
        <3>3. probeCount[g][n] = 0
            <4>1. gens \in Nat
                BY DEF TypeOK
            <4>2. g > gens
                BY <3>1, <4>1, GenerationFrame
            <4> QED BY <4>2 DEF CountBounded
        <3> QED BY <1>1, <1>2, <3>1, <3>2, <3>3 DEF LoopView, Live
    <2> QED BY <2>1, <2>2
<1>4. NoStaleTargets'
    BY <1>1 DEF NoStaleTargets
<1> QED BY <1>1, <1>3, <1>4

\* A step of a caller.  Only four touch the views or the loops, and they find
\* nobody alive.
LEMMA ViewsReload ==
    ASSUME ~overlapped, ~overlapped',
           TypeOK, CountBounded, Exclusion, Views, NEW r \in Reloaders,
           BeginReload(r) \/ ReloadStep(r)
    PROVE  Views'
<1>1. \A s \in Reloaders \ {r} : pc'[s] = "idle"
    BY SoleCaller
<1>2. gens # 0
    BY SoleCaller
<1>3. ASSUME Drained, UNCHANGED task PROVE \A g \in Gens, n \in Names : LoopView(g, n)'
    BY <1>3 DEF LoopView, Live, Drained
<1>4. ASSUME BeginReload(r) \/ LoadFails(r) \/ (\E c \in Configs : LoadSucceeds(r, c))
               \/ ReadCancel(r) \/ CallCancel(r) \/ Join(r) \/ Wake(r) \/ Swap(r) \/ Publish(r)
      PROVE  Views'
    <2>1. UNCHANGED <<task, probeCount, tracker, gauge, gens, genConfig>>
        BY <1>4 DEF BeginReload, LoadFails, LoadSucceeds, ReadCancel, CallCancel, Join,
           Wake, Swap, Publish, taskVars, viewVars, ctxVars
    <2>2. /\ pc'[r] \notin {"swapping", "running"}
          /\ pc'[r] = "forgetting" => pc[r] = "swapping"
        BY <1>4 DEF BeginReload, LoadFails, LoadSucceeds, ReadCancel, CallCancel, Join,
           Wake, Swap, Publish, Goto, TypeOK
    <2>3. (\A g \in Gens, n \in Names : LoopView(g, n)') /\ NoStaleTargets'
        <3>1. \A g \in Gens, n \in Names : LoopView(g, n)' = LoopView(g, n)
            BY <2>1 DEF LoopView, Live, Counted, Shown, Label
        <3>2. NoStaleTargets' = NoStaleTargets
            BY <2>1 DEF NoStaleTargets, Label
        <3> QED BY <3>1, <3>2 DEF Views
    <2>4. CleanSlate'
        BY <1>1, <1>2, <2>1, <2>2 DEF Views, CleanSlate
    <2> QED BY <2>3, <2>4 DEF Views
<1>5. CASE ClearMetrics(r)
    <2>1. /\ pc[r] = "clearing" /\ pc'[r] = "swapping"
          /\ gauge' = EmptyMap /\ UNCHANGED <<task, tracker, gens, genConfig>>
        BY <1>5 DEF ClearMetrics, Goto, TypeOK, taskVars, ctxVars
    <2>2. Drained
        BY <2>1 DEF Exclusion, ReloadIsExclusive
    <2>3. NoStaleTargets'
        BY <2>1, EmptyMapDomain DEF Views, NoStaleTargets, Label
    <2>4. CleanSlate'
        BY <1>1, <1>2, <2>1, EmptyMapDomain DEF CleanSlate
    <2> QED BY <1>3, <2>1, <2>2, <2>3, <2>4 DEF Views
<1>6. CASE ForgetStatuses(r)
    <2>1. /\ pc[r] = "forgetting" /\ pc'[r] = "running"
          /\ tracker' = EmptyMap /\ UNCHANGED <<task, gauge, gens, genConfig>>
        BY <1>6 DEF ForgetStatuses, Goto, TypeOK, taskVars, ctxVars
    <2>2. Drained /\ DOMAIN gauge' = {}
        BY <2>1 DEF Exclusion, ReloadIsExclusive, Views, CleanSlate
    <2>3. NoStaleTargets'
        BY <2>1, <2>2, EmptyMapDomain DEF NoStaleTargets
    <2>4. CleanSlate'
        BY <1>1, <1>2, <2>1, <2>2, EmptyMapDomain DEF CleanSlate
    <2> QED BY <1>3, <2>1, <2>2, <2>3, <2>4 DEF Views
<1>7. CASE Rerun(r)
    <2>1. StartGeneration /\ pc[r] = "running"
        BY <1>7 DEF Rerun, Goto
    <2>2. Drained /\ DOMAIN gauge = {} /\ DOMAIN tracker = {}
        BY <2>1 DEF Exclusion, ReloadIsExclusive, Views, CleanSlate
    <2> QED BY <2>1, <2>2, ViewsGeneration DEF Views, CleanSlate
<1> QED BY <1>4, <1>5, <1>6, <1>7 DEF ReloadStep

LEMMA ViewsNext ==
    ASSUME ~overlapped, ~overlapped',
           TypeOK, TypeOK', CountBounded, Exclusion, Views, [Next]_vars
    PROVE  Views'
<1>1. CASE Start
    <2>1. StartGeneration /\ Drained /\ DOMAIN tracker = {} /\ DOMAIN gauge = {}
        BY <1>1 DEF Start, Exclusion, Drained, Views, CleanSlate
    <2> QED BY <2>1, ViewsGeneration DEF Views, CleanSlate
<1>2. ASSUME NEW r \in Reloaders, BeginReload(r) \/ ReloadStep(r) PROVE Views'
    BY <1>2, ViewsReload
<1>3. ASSUME NEW g \in Gens, NEW n \in Names, TaskStep(g, n) PROVE Views'
    BY <1>3, ViewsTask
<1>4. CASE UNCHANGED <<task, probeCount, tracker, gauge, gens, genConfig, pc>>
    BY <1>4 DEF Views, LoopView, Live, Counted, Shown, Label, NoStaleTargets, CleanSlate
<1>5. (\E p \in posts : PostEnds(p)) \/ CancelRoot \/ UNCHANGED vars
        => UNCHANGED <<task, probeCount, tracker, gauge, gens, genConfig, pc>>
    BY DEF PostEnds, CancelRoot, vars, taskVars, ctxVars, viewVars, callerVars
<1> QED BY <1>1, <1>2, <1>3, <1>4, <1>5 DEF Next

LEMMA ViewsInvariant ==
    Spec => [](TypeOK /\ CountBounded /\ (~overlapped => Exclusion /\ Views))
<1> DEFINE Inv == TypeOK /\ CountBounded /\ (~overlapped => Exclusion /\ Views)
<1>1. Init => Inv
    BY TypeInit, ExclusionInit, ViewsInit
<1>2. Inv /\ [Next]_vars => Inv'
    BY TypeNext, BoundedNext, ExclusionNext, ViewsNext, OverlapStays
<1> QED BY <1>1, <1>2, PTL DEF Spec

\* /api/v1/targets and /metrics never show a target of a replaced configuration,
\* also between the two resets of Reload in scheduler.go, as long as no
\* two reloads have overlapped.
THEOREM NothingStale == Spec => []NoStaleTargets
<1>1. (~overlapped => Exclusion /\ Views) => NoStaleTargets
    BY DEF Views, NoStaleTargets
<1>2. Spec => [](TypeOK /\ CountBounded /\ (~overlapped => Exclusion /\ Views))
    BY ViewsInvariant
<1> QED BY <1>1, <1>2, PTL

\* The tracker and the success gauge, written by two steps of probe in
\* scheduler.go, agree on every probe that is over, as long as reloads do not
\* overlap.
THEOREM EndpointsAgree == Spec => []ViewsAgree
<1>1. (~overlapped => Exclusion /\ Views) => ViewsAgree
    BY DEF Views, LoopView, Counted, Shown, ViewsAgree
<1>2. Spec => [](TypeOK /\ CountBounded /\ (~overlapped => Exclusion /\ Views))
    BY ViewsInvariant
<1> QED BY <1>1, <1>2, PTL

\* Update in status.go counts every probe of the loop of a target once, from
\* zero at each reload, as long as no two reloads have overlapped.
THEOREM ProbesCounted == Spec => []CountsAgree
<1>1. (~overlapped => Exclusion /\ Views) => CountsAgree
    BY DEF Views, LoopView, Counted, CountsAgree
<1>2. Spec => [](TypeOK /\ CountBounded /\ (~overlapped => Exclusion /\ Views))
    BY ViewsInvariant
<1> QED BY <1>1, <1>2, PTL

-----------------------------------------------------------------------------
(* What leaves the scheduler.                                              *)

Consistent == TypeOK /\ CountBounded /\ Exclusion /\ Views /\ Agreement

\* What the history of alerts is for a loop, by its progress: between the
\* failure and Check one is still missing.
Streak(g, n) ==
    LET threshold == Threshold[genConfig[g]]
    IN  /\ task[g][n] = "jitter" => alerts[n] = 0
        /\ task[g][n] = "probing" =>
             IF n \in DOMAIN tracker
             THEN alerts[n] = Due(threshold, tracker[n].consecFailures)
             ELSE alerts[n] = 0
        /\ task[g][n] \in {"succeeded", "waiting"} =>
             alerts[n] = Due(threshold, tracker[n].consecFailures)
        /\ task[g][n] \in {"failed", "checking"} =>
             /\ tracker[n].consecFailures # 0
             /\ alerts[n] = Due(threshold, tracker[n].consecFailures - 1)

Streaks ==
    /\ \A g \in Gens, n \in Names : Streak(g, n)
    /\ \A r \in Reloaders : pc[r] = "running" => \A n \in Names : alerts[n] = 0
    /\ gens = 0 => \A n \in Names : alerts[n] = 0

-----------------------------------------------------------------------------
(* Webhooks in flight.                                                     *)

\* The alerter a loop reads, without mu, is the one of its configuration.
LEMMA OwnAlerter ==
    ASSUME ~overlapped, ~overlapped',
           Consistent, NEW g \in Gens, NEW n \in Names, Live(g, n)
    PROVE  g = gens /\ alerter = genConfig[g]
<1>1. g = gens /\ ~Drained /\ gens # 0
    BY DEF Consistent, Exclusion, Drained
<1>2. \A r \in Reloaders : pc[r] \notin {"forgetting", "running"}
    BY <1>1 DEF Consistent, Exclusion, ReloadIsExclusive
<1> QED BY <1>1, <1>2 DEF Consistent, Agreement

LEMMA PostsTask ==
    ASSUME ~overlapped, ~overlapped',
           Consistent, PostsConsistent, NEW g \in Gens, NEW n \in Names, TaskStep(g, n)
    PROVE  PostsConsistent'
<1>1. ASSUME UNCHANGED posts PROVE PostsConsistent'
    BY <1>1 DEF PostsConsistent
<1>2. CASE CheckAlert(g, n) /\ Fires(Threshold[alerter], ConsecFailures(tracker, n))
    <2>1. posts' = posts \cup {[name |-> n, label |-> tracker[n].label,
                                failures |-> tracker[n].consecFailures, hook |-> alerter]}
        BY <1>2 DEF CheckAlert, Alert
    <2>2. g = gens /\ alerter = genConfig[g]
        BY TaskFrame, OwnAlerter DEF Consistent
    <2>3. n \in DOMAIN tracker
        BY <1>2 DEF CheckAlert, Move, Consistent, Views, LoopView, Counted
    <2>4. n \in TargetsOf[alerter] /\ tracker[n].label = LabelOf[alerter][n]
        BY <2>2, <2>3 DEF Consistent, Views, NoStaleTargets, Label
    <2>5. Fires(Threshold[alerter], tracker[n].consecFailures)
        BY <1>2, <2>3 DEF ConsecFailures
    <2> QED BY <2>1, <2>4, <2>5 DEF PostsConsistent
<1> QED BY <1>1, <1>2 DEF TaskStep, JitterOver, TimerFires, Exit, ProbeReturns,
            RecordSuccess, RecordFailure, CheckAlert, Alert, viewVars

LEMMA PostsNext ==
    ASSUME ~overlapped, ~overlapped',
           Consistent, PostsConsistent, [Next]_vars
    PROVE  PostsConsistent'
<1>1. ASSUME posts' \subseteq posts PROVE PostsConsistent'
    BY <1>1 DEF PostsConsistent
<1>2. ASSUME NEW r \in Reloaders, BeginReload(r) \/ ReloadStep(r) PROVE posts' = posts
    BY <1>2 DEF BeginReload, ReloadStep, LoadFails, LoadSucceeds, ReadCancel, CallCancel,
       Join, Wake, ClearMetrics, Swap, ForgetStatuses, Rerun, StartGeneration, Publish, viewVars
<1>3. ASSUME NEW g \in Gens, NEW n \in Names, TaskStep(g, n) PROVE PostsConsistent'
    BY <1>3, PostsTask
<1>4. Start \/ (\E p \in posts : PostEnds(p)) \/ CancelRoot \/ UNCHANGED vars
        => posts' \subseteq posts
    BY DEF Start, StartGeneration, PostEnds, CancelRoot, vars, viewVars
<1> QED BY <1>1, <1>2, <1>3, <1>4 DEF Next, Consistent

-----------------------------------------------------------------------------
(* Alerts per streak.                                                      *)

LEMMA StreaksInit == Init => Streaks
BY DEF Init, Streaks, Streak

\* A step of a loop leaves the streaks of other names alone.
LEMMA OtherStreaks ==
    ASSUME TypeOK, NEW g \in Gens, NEW n \in Names, TaskStep(g, n)
    PROVE  \A m \in Names \ {n} : alerts'[m] = alerts[m]
<1>1. alerts' = alerts \/ \E x : alerts' = [alerts EXCEPT ![n] = x]
    BY DEF TaskStep, JitterOver, TimerFires, Exit, ProbeReturns, RecordSuccess,
           RecordFailure, CheckAlert, Alert, viewVars
<1> QED BY <1>1 DEF TypeOK

\* The loop that takes the step.
LEMMA OwnStreak ==
    ASSUME ~overlapped, ~overlapped',
           Consistent, NEW g \in Gens, NEW n \in Names, Streak(g, n), TaskStep(g, n)
    PROVE  Streak(g, n)'
<1> DEFINE t == Threshold[genConfig[g]]
<1>0. t \in Nat /\ genConfig' = genConfig /\ alerter = genConfig[g]
    BY TaskFrame, ViewFrame, OwnAlerter DEF Consistent, TypeOK
<1>1. /\ \A x : task' = [task EXCEPT ![g][n] = x] => task'[g][n] = x
      /\ \A x : alerts' = [alerts EXCEPT ![n] = x] => alerts'[n] = x
      /\ alerts[n] \in Nat
      /\ n \in DOMAIN tracker => tracker[n].consecFailures \in Nat
    BY DEF Consistent, TypeOK, Entry
<1>2. LoopView(g, n)
    BY DEF Consistent, Views
<1> HIDE DEF t
<1>3. CASE JitterOver(g, n) \/ TimerFires(g, n)
    <2>1. UNCHANGED <<tracker, alerts>> /\ task[g][n] \in {"jitter", "waiting"}
          /\ task'[g][n] = "probing"
        BY <1>1, <1>3 DEF JitterOver, TimerFires, Move, viewVars
    <2> QED BY <1>0, <1>2, <2>1 DEF Streak, LoopView, Counted
<1>4. CASE Exit(g, n)
    BY <1>1, <1>4 DEF Exit, Streak
<1>5. ASSUME NEW ok \in BOOLEAN, ProbeReturns(g, n, ok) PROVE Streak(g, n)'
    <2>1. /\ tracker' = Updated(tracker, n, Label(g, n), ok) /\ task[g][n] = "probing"
          /\ task'[g][n] = IF ok THEN "succeeded" ELSE "failed"
          /\ ok => alerts'[n] = 0
          /\ ~ok => alerts'[n] = alerts[n]
        BY <1>1, <1>5 DEF ProbeReturns, Move
    <2> DEFINE k == IF n \in DOMAIN tracker THEN tracker[n].consecFailures ELSE 0
    <2>2. k \in Nat /\ alerts[n] = Due(t, k)
        BY <1>0, <1>1, <2>1, DueZero DEF Streak, t
    <2>3. tracker'[n].consecFailures = IF ok THEN 0 ELSE k + 1
        BY <2>1 DEF Updated, WithOutcome, FreshEntry
    <2> HIDE DEF k
    <2>4. CASE ok
        BY <1>0, <2>1, <2>3, <2>4, DueZero DEF Streak, t
    <2>5. CASE ~ok
        <3>1. tracker'[n].consecFailures = k + 1 /\ k + 1 # 0 /\ k + 1 - 1 = k
            BY <2>2, <2>3, <2>5
        <3> QED BY <1>0, <2>1, <2>2, <2>5, <3>1 DEF Streak, t
    <2> QED BY <2>4, <2>5
<1>6. CASE RecordSuccess(g, n) \/ RecordFailure(g, n)
    <2>1. /\ UNCHANGED <<tracker, alerts>>
          /\ \/ task[g][n] = "succeeded" /\ task'[g][n] = "waiting"
             \/ task[g][n] = "failed" /\ task'[g][n] = "checking"
        BY <1>1, <1>6 DEF RecordSuccess, RecordFailure, Move
    <2> QED BY <1>0, <2>1 DEF Streak
<1>7. CASE CheckAlert(g, n)
    <2>1. task[g][n] = "checking" /\ task'[g][n] = "waiting" /\ tracker' = tracker
        BY <1>1, <1>7 DEF CheckAlert, Move
    <2> DEFINE k == tracker[n].consecFailures
    <2>2. n \in DOMAIN tracker /\ k \in Nat /\ k # 0 /\ alerts[n] = Due(t, k - 1)
        BY <1>1, <1>2, <2>1 DEF LoopView, Counted, Streak, t
    <2>3. alerts'[n] = IF Fires(t, k) THEN alerts[n] + 1 ELSE alerts[n]
        BY <1>0, <1>1, <1>7, <2>2 DEF CheckAlert, Alert, ConsecFailures, t
    <2>4. k - 1 \in Nat /\ k - 1 + 1 = k
        <3>1. \A i \in Nat : i # 0 => i - 1 \in Nat /\ i - 1 + 1 = i
            OBVIOUS
        <3> QED BY <2>2, <3>1
    <2> HIDE DEF k
    <2>5. alerts'[n] = Due(t, k)
        BY <1>0, <2>2, <2>3, <2>4, DueStep
    <2> QED BY <1>0, <2>1, <2>5 DEF Streak, t, k
<1> QED BY <1>3, <1>4, <1>5, <1>6, <1>7 DEF TaskStep

LEMMA StreaksTask ==
    ASSUME ~overlapped, ~overlapped',
           Consistent, Streaks, NEW g \in Gens, NEW n \in Names, TaskStep(g, n)
    PROVE  Streaks'
<1>1. Live(g, n) /\ g = gens /\ ~Drained
    BY TaskFrame DEF Consistent, Exclusion, Drained
<1>2. ASSUME NEW h \in Gens, NEW m \in Names PROVE Streak(h, m)'
    <2>1. CASE h = g /\ m = n
        BY <2>1, OwnStreak DEF Streaks
    <2>2. CASE ~Live(h, m)'
        BY <2>2 DEF Streak, Live
    <2>3. CASE Live(h, m)' /\ ~(h = g /\ m = n)
        <3>1. h = g /\ m \in Names \ {n}
            BY <1>1, <2>3, TaskFrame DEF Consistent, Exclusion
        <3>2. task'[h][m] = task[h][m] /\ alerts'[m] = alerts[m] /\ genConfig' = genConfig
            BY <2>3, <3>1, TaskFrame, ViewFrame, OtherStreaks DEF Consistent
        <3>3. /\ m \in DOMAIN tracker' <=> m \in DOMAIN tracker
              /\ m \in DOMAIN tracker => tracker'[m] = tracker[m]
            BY <3>1, ViewFrame DEF Consistent
        <3>4. Streak(h, m) /\ LoopView(h, m)
            BY DEF Streaks, Consistent, Views
        <3> QED BY <3>2, <3>3, <3>4 DEF Streak, LoopView, Counted
    <2> QED BY <2>1, <2>2, <2>3
<1>3. \A r \in Reloaders : pc[r] # "running"
    BY <1>1 DEF Consistent, Exclusion, ReloadIsExclusive
<1>4. \A r \in Reloaders : pc'[r] = pc[r] \/ pc'[r] = "released"
    <2>1. CASE Exit(g, n)
        BY <2>1 DEF Exit, Consistent, TypeOK
    <2>2. CASE UNCHANGED pc
        BY <2>2
    <2> QED BY <2>1, <2>2 DEF TaskStep, JitterOver, TimerFires, ProbeReturns,
            RecordSuccess, RecordFailure, CheckAlert, callerVars
<1>5. gens' # 0
    <2>1. gens' = gens
        BY TaskFrame DEF Consistent
    <2>2. gens # 0
        BY <1>1 DEF Gens
    <2> QED BY <2>1, <2>2
<1> QED BY <1>2, <1>3, <1>4, <1>5 DEF Streaks

\* Run starts with no alert in any streak.
LEMMA StreaksGeneration ==
    ASSUME Consistent, Drained, StartGeneration, \A n \in Names : alerts[n] = 0
    PROVE  /\ \A g \in Gens, n \in Names : Streak(g, n)'
           /\ \A n \in Names : alerts'[n] = 0
<1>1. alerts' = alerts
    BY DEF StartGeneration, viewVars
<1>2. ASSUME NEW g \in Gens, NEW n \in Names, Live(g, n)' PROVE task'[g][n] = "jitter"
    BY <1>2, GenerationFrame DEF Consistent, Drained, Live
<1> QED BY <1>1, <1>2 DEF Streak, Live

LEMMA StreaksReload ==
    ASSUME ~overlapped, ~overlapped',
           Consistent, Streaks, NEW r \in Reloaders,
           BeginReload(r) \/ ReloadStep(r)
    PROVE  Streaks'
<1>1. (\A s \in Reloaders \ {r} : pc'[s] = "idle") /\ gens # 0
    BY SoleCaller DEF Consistent
<1>2. ASSUME BeginReload(r) \/ LoadFails(r) \/ (\E c \in Configs : LoadSucceeds(r, c))
               \/ ReadCancel(r) \/ CallCancel(r) \/ Join(r) \/ Wake(r) \/ ClearMetrics(r)
               \/ Swap(r) \/ Publish(r)
      PROVE  Streaks'
    <2>1. UNCHANGED <<task, tracker, alerts, gens, genConfig>>
        BY <1>2 DEF BeginReload, LoadFails, LoadSucceeds, ReadCancel, CallCancel, Join,
           Wake, ClearMetrics, Swap, Publish, taskVars, viewVars, ctxVars
    <2>2. pc'[r] # "running"
        BY <1>2 DEF BeginReload, LoadFails, LoadSucceeds, ReadCancel, CallCancel, Join,
           Wake, ClearMetrics, Swap, Publish, Goto, Consistent, TypeOK
    <2>3. \A g \in Gens, n \in Names : Streak(g, n)' = Streak(g, n)
        BY <2>1 DEF Streak
    <2> QED BY <1>1, <2>1, <2>2, <2>3 DEF Streaks
<1>3. CASE ForgetStatuses(r)
    <2>1. /\ pc[r] = "forgetting" /\ alerts' = [n \in Names |-> 0]
          /\ UNCHANGED <<task, gens>>
        BY <1>3 DEF ForgetStatuses, Goto, taskVars, ctxVars
    <2>2. Drained
        BY <2>1 DEF Consistent, Exclusion, ReloadIsExclusive
    <2>3. \A g \in Gens, n \in Names : Streak(g, n)'
        BY <2>1, <2>2 DEF Streak, Drained, Live
    <2> QED BY <2>1, <2>3 DEF Streaks
<1>4. CASE Rerun(r)
    <2>1. StartGeneration /\ pc[r] = "running"
        BY <1>4 DEF Rerun, Goto
    <2>2. Drained /\ \A n \in Names : alerts[n] = 0
        BY <2>1 DEF Consistent, Exclusion, ReloadIsExclusive, Streaks
    <2> QED BY <2>1, <2>2, StreaksGeneration DEF Streaks
<1> QED BY <1>2, <1>3, <1>4 DEF ReloadStep

LEMMA StreaksNext ==
    ASSUME ~overlapped, ~overlapped',
           Consistent, Streaks, [Next]_vars
    PROVE  Streaks'
<1>1. CASE Start
    <2>1. StartGeneration /\ Drained /\ \A n \in Names : alerts[n] = 0
        BY <1>1 DEF Start, Consistent, Exclusion, Drained, Streaks
    <2> QED BY <2>1, StreaksGeneration DEF Streaks
<1>2. ASSUME NEW r \in Reloaders, BeginReload(r) \/ ReloadStep(r) PROVE Streaks'
    BY <1>2, StreaksReload
<1>3. ASSUME NEW g \in Gens, NEW n \in Names, TaskStep(g, n) PROVE Streaks'
    BY <1>3, StreaksTask
<1>4. CASE UNCHANGED <<task, tracker, alerts, gens, genConfig, pc>>
    BY <1>4 DEF Streaks, Streak
<1>5. (\E p \in posts : PostEnds(p)) \/ CancelRoot \/ UNCHANGED vars
        => UNCHANGED <<task, tracker, alerts, gens, genConfig, pc>>
    BY DEF PostEnds, CancelRoot, vars, taskVars, ctxVars, viewVars, callerVars
<1> QED BY <1>1, <1>2, <1>3, <1>4, <1>5 DEF Next, Consistent

Sound ==
    TypeOK /\ CountBounded /\ (~overlapped => Consistent /\ PostsConsistent /\ Streaks)

LEMMA SoundInvariant == Spec => []Sound
<1>1. Init => Sound
    <2>1. Init => Consistent
        BY TypeInit, ExclusionInit, ViewsInit, AgreementInit DEF Consistent
    <2>2. Init => PostsConsistent
        BY DEF Init, PostsConsistent
    <2> QED BY <2>1, <2>2, StreaksInit DEF Sound, Consistent
<1>2. ASSUME Sound, [Next]_vars PROVE Sound'
    <2>1. (TypeOK /\ CountBounded)'
        BY <1>2, TypeNext, BoundedNext DEF Sound
    <2>2. ASSUME ~overlapped' PROVE (Consistent /\ PostsConsistent /\ Streaks)'
        <3>1. ~overlapped /\ Consistent /\ PostsConsistent /\ Streaks
            BY <1>2, <2>2, OverlapStays DEF Sound
        <3>2. Consistent'
            BY <1>2, <2>1, <2>2, <3>1, ExclusionNext, ViewsNext, AgreementNext DEF Consistent
        <3> QED BY <1>2, <2>2, <3>1, <3>2, PostsNext, StreaksNext
    <2> QED BY <2>1, <2>2 DEF Sound
<1> QED BY <1>1, <1>2, PTL DEF Spec

\* Check in alerter.go: a webhook in flight, whatever was reloaded since it was
\* started, describes a target of the configuration whose webhook it goes to, as
\* long as no two reloads have overlapped.
THEOREM WebhooksConsistent == Spec => []PostsConsistent
<1>1. Sound => PostsConsistent
    BY DEF Sound, PostsConsistent
<1> QED BY <1>1, SoundInvariant, PTL

\* Check in alerter.go: a streak of failures has started one webhook for every
\* multiple of the threshold it has reached, as long as no two reloads have overlapped.
THEOREM AlertsCorrect == Spec => []AlertsExact
<1>1. Sound => AlertsExact
    BY DEF Sound, Streaks, Streak, Due, AlertsExact
<1> QED BY <1>1, SoundInvariant, PTL

-----------------------------------------------------------------------------
(* The scheduler implements ServedConfig.                                  *)

\* The refinement mapping of module Scheduler, by name.
Active == {genConfig[g] : g \in {h \in Gens : \E n \in Names : Live(h, n)}}
Rows   == {<<n, tracker[n].label>> : n \in DOMAIN tracker}
Series == DOMAIN gauge

\* Whose loops run: those of the generation started last, or none.
LEMMA ActiveSet ==
    ASSUME Exclusion
    PROVE  /\ Drained => Active = {}
           /\ ~Drained => Active = {genConfig[gens]}
BY DEF Exclusion, Active, Drained

\* A step that leaves all three alone, and those that do not.
LEMMA Stutter ==
    ASSUME UNCHANGED <<Active, Rows, Series>>
    PROVE  [Served!Next]_(Served!vars)
BY DEF Served!vars, Active, Rows, Series

LEMMA ActivateStep ==
    ASSUME NEW c \in Configs, Active = {}, Rows = {}, Series = {},
           Active' = {c}, UNCHANGED <<Rows, Series>>
    PROVE  [Served!Next]_(Served!vars)
BY DEF Served!Next, Served!Activate, Active, Rows, Series

LEMMA ReportStep ==
    ASSUME NEW c \in Active, NEW n \in TargetsOf[c],
           Rows' = Rows \cup {<<n, LabelOf[c][n]>>}, UNCHANGED <<Active, Series>>
    PROVE  [Served!Next]_(Served!vars)
BY DEF Served!Next, Served!Report, Served!Row, Active, Rows, Series

LEMMA ExposeStep ==
    ASSUME NEW c \in Active, NEW n \in TargetsOf[c], <<n, LabelOf[c][n]>> \in Rows,
           Series' = Series \cup {<<n, LabelOf[c][n]>>}, UNCHANGED <<Active, Rows>>
    PROVE  [Served!Next]_(Served!vars)
BY DEF Served!Next, Served!Expose, Served!Row, Active, Rows, Series

LEMMA RetireStep ==
    ASSUME Active' = {}, UNCHANGED <<Rows, Series>>
    PROVE  [Served!Next]_(Served!vars)
BY DEF Served!Next, Served!Retire, Active, Rows, Series

LEMMA ClearSeriesStep ==
    ASSUME Active = {}, Series' = {}, UNCHANGED <<Active, Rows>>
    PROVE  [Served!Next]_(Served!vars)
BY DEF Served!Next, Served!ClearSeries, Active, Rows, Series

LEMMA ClearRowsStep ==
    ASSUME Active = {}, Series = {}, Rows' = {}, UNCHANGED <<Active, Series>>
    PROVE  [Served!Next]_(Served!vars)
BY DEF Served!Next, Served!ClearRows, Active, Rows, Series

-----------------------------------------------------------------------------
LEMMA RefinesTask ==
    ASSUME ~overlapped, ~overlapped',
           Consistent, Consistent', NEW g \in Gens, NEW n \in Names, TaskStep(g, n)
    PROVE  [Served!Next]_(Served!vars)
<1>0. \A x : task' = [task EXCEPT ![g][n] = x] => task'[g][n] = x
    BY DEF Consistent, TypeOK
<1>1. /\ Live(g, n) /\ g = gens /\ Active = {genConfig[g]}
      /\ n \in TargetsOf[genConfig[g]] /\ UNCHANGED <<gens, genConfig>>
    <2>1. Live(g, n) /\ g = gens /\ ~Drained
        BY TaskFrame DEF Consistent, Exclusion, Drained
    <2>2. UNCHANGED <<gens, genConfig>>
        BY ViewFrame DEF Consistent
    <2> QED BY <2>1, <2>2, ActiveSet DEF Consistent, Views, LoopView
<1>2. Label(g, n) = LabelOf[genConfig[g]][n]
    BY DEF Label
<1>3. task'[g][n] # "done" => Active' = Active
    <2>1. SUFFICES ASSUME task'[g][n] # "done" PROVE Active' = {genConfig'[gens']}
        BY <1>1
    <2>2. task'[g][n] # "unborn"
        BY <1>0 DEF TaskStep, JitterOver, TimerFires, Exit, ProbeReturns,
            RecordSuccess, RecordFailure, CheckAlert, Move
    <2>3. ~Drained'
        BY <2>1, <2>2 DEF Drained, Live
    <2>4. Exclusion'
        BY DEF Consistent
    <2>5. Exclusion' => (/\ Drained' => Active' = {}
                         /\ ~Drained' => Active' = {genConfig'[gens']})
        BY DEF Exclusion, Active, Drained
    <2> QED BY <2>3, <2>4, <2>5
<1>4. CASE JitterOver(g, n) \/ TimerFires(g, n) \/ CheckAlert(g, n)
    <2>1. UNCHANGED <<tracker, gauge>> /\ task'[g][n] # "done"
        BY <1>0, <1>4 DEF JitterOver, TimerFires, CheckAlert, Move, viewVars
    <2> QED BY <1>3, <2>1, Stutter DEF Rows, Series
<1>5. CASE Exit(g, n)
    <2>1. UNCHANGED <<Rows, Series>>
        BY <1>5 DEF Exit, viewVars, Rows, Series
    <2>2. Active' = {} \/ Active' = Active
        <3>1. Exclusion' => (/\ Drained' => Active' = {}
                             /\ ~Drained' => Active' = {genConfig'[gens']})
            BY DEF Exclusion, Active, Drained
        <3> QED BY <1>1, <3>1 DEF Consistent
    <2> QED BY <2>1, <2>2, RetireStep, Stutter
<1>6. ASSUME NEW ok \in BOOLEAN, ProbeReturns(g, n, ok) PROVE [Served!Next]_(Served!vars)
    <2>1. /\ tracker' = Updated(tracker, n, Label(g, n), ok)
          /\ UNCHANGED gauge /\ task'[g][n] # "done"
        BY <1>0, <1>6 DEF ProbeReturns, Move
    <2>2. DOMAIN tracker' = DOMAIN tracker \cup {n}
        BY <2>1 DEF Updated
    <2>3. \A m \in DOMAIN tracker : m # n => tracker'[m] = tracker[m]
        BY <2>1 DEF Updated
    <2>4. tracker'[n].label = Label(g, n) /\ (n \in DOMAIN tracker => tracker[n].label = Label(g, n))
        BY <1>1, <2>2 DEF Consistent, Views, NoStaleTargets, Label
    <2>5. Rows' = Rows \cup {<<n, Label(g, n)>>}
        BY <2>2, <2>3, <2>4 DEF Rows
    <2> QED BY <1>1, <1>2, <1>3, <2>1, <2>5, ReportStep DEF Series
<1>7. CASE RecordSuccess(g, n) \/ RecordFailure(g, n)
    <2>1. /\ task[g][n] \in {"succeeded", "failed"} /\ task'[g][n] # "done"
          /\ UNCHANGED tracker
          /\ \E v : SetGauge(g, n, v)
        BY <1>0, <1>7 DEF RecordSuccess, RecordFailure, Move
    <2>2. Series' = Series \cup {<<n, Label(g, n)>>}
        BY <2>1 DEF SetGauge, Series
    <2>3. n \in DOMAIN tracker /\ tracker[n].label = Label(g, n)
        BY <1>1, <2>1 DEF Consistent, Views, LoopView, Counted, NoStaleTargets
    <2> QED BY <1>1, <1>2, <1>3, <2>1, <2>2, <2>3, ExposeStep DEF Rows
<1> QED BY <1>4, <1>5, <1>6, <1>7 DEF TaskStep

\* Run: probing of a configuration starts, unless it has no targets.
LEMMA RefinesGeneration ==
    ASSUME ~overlapped, ~overlapped',
           Consistent, Consistent', StartGeneration, Drained,
           DOMAIN tracker = {}, DOMAIN gauge = {}
    PROVE  [Served!Next]_(Served!vars)
<1>1. Active = {} /\ Rows = {} /\ Series = {}
    BY ActiveSet DEF Consistent, Rows, Series
<1>2. UNCHANGED <<Rows, Series>>
    BY DEF StartGeneration, viewVars, Rows, Series
<1>3. genConfig'[gens'] = runners /\ runners \in Configs
    BY GenerationFrame DEF StartGeneration, Consistent, TypeOK
<1>4. Active' = {} \/ Active' = {runners}
    <2>1. Exclusion' => (/\ Drained' => Active' = {}
                         /\ ~Drained' => Active' = {genConfig'[gens']})
        BY DEF Exclusion, Active, Drained
    <2> QED BY <1>3, <2>1 DEF Consistent
<1> QED BY <1>1, <1>2, <1>3, <1>4, ActivateStep, Stutter

LEMMA RefinesReload ==
    ASSUME ~overlapped, ~overlapped',
           Consistent, Consistent', NEW r \in Reloaders,
           BeginReload(r) \/ ReloadStep(r)
    PROVE  [Served!Next]_(Served!vars)
<1>1. ASSUME BeginReload(r) \/ LoadFails(r) \/ (\E c \in Configs : LoadSucceeds(r, c))
               \/ ReadCancel(r) \/ CallCancel(r) \/ Join(r) \/ Wake(r) \/ Swap(r) \/ Publish(r)
      PROVE  [Served!Next]_(Served!vars)
    <2>1. UNCHANGED <<task, tracker, gauge, genConfig>>
        BY <1>1 DEF BeginReload, LoadFails, LoadSucceeds, ReadCancel, CallCancel, Join,
           Wake, Swap, Publish, taskVars, viewVars, ctxVars
    <2>2. UNCHANGED <<Active, Rows, Series>>
        BY <2>1 DEF Active, Rows, Series, Live
    <2> QED BY <2>2, Stutter
<1>2. CASE ClearMetrics(r)
    <2>1. /\ pc[r] = "clearing"
          /\ gauge' = EmptyMap /\ UNCHANGED <<task, tracker, genConfig>>
        BY <1>2 DEF ClearMetrics, Goto, taskVars, ctxVars
    <2>2. Active = {}
        BY <2>1, ActiveSet DEF Consistent, Exclusion, ReloadIsExclusive
    <2>3. Series' = {} /\ UNCHANGED <<Active, Rows>>
        BY <2>1, EmptyMapDomain DEF Series, Active, Rows, Live
    <2> QED BY <2>2, <2>3, ClearSeriesStep
<1>3. CASE ForgetStatuses(r)
    <2>1. /\ pc[r] = "forgetting"
          /\ tracker' = EmptyMap /\ UNCHANGED <<task, gauge, genConfig>>
        BY <1>3 DEF ForgetStatuses, Goto, taskVars, ctxVars
    <2>2. Active = {} /\ Series = {}
        BY <2>1, ActiveSet DEF Consistent, Exclusion, ReloadIsExclusive, Views, CleanSlate, Series
    <2>3. Rows' = {} /\ UNCHANGED <<Active, Series>>
        BY <2>1, EmptyMapDomain DEF Series, Active, Rows, Live
    <2> QED BY <2>2, <2>3, ClearRowsStep
<1>4. CASE Rerun(r)
    <2>1. StartGeneration /\ pc[r] = "running"
        BY <1>4 DEF Rerun, Goto
    <2>2. Drained /\ DOMAIN gauge = {} /\ DOMAIN tracker = {}
        BY <2>1 DEF Consistent, Exclusion, ReloadIsExclusive, Views, CleanSlate
    <2> QED BY <2>1, <2>2, RefinesGeneration
<1> QED BY <1>1, <1>2, <1>3, <1>4 DEF ReloadStep

LEMMA RefinesNext ==
    ASSUME ~overlapped, ~overlapped',
           Consistent, Consistent', [Next]_vars
    PROVE  [Served!Next]_(Served!vars)
<1>1. CASE Start
    <2>1. StartGeneration /\ Drained /\ DOMAIN tracker = {} /\ DOMAIN gauge = {}
        BY <1>1 DEF Start, Consistent, Exclusion, Drained, Views, CleanSlate
    <2> QED BY <2>1, RefinesGeneration
<1>2. ASSUME NEW r \in Reloaders, BeginReload(r) \/ ReloadStep(r)
      PROVE  [Served!Next]_(Served!vars)
    BY <1>2, RefinesReload
<1>3. ASSUME NEW g \in Gens, NEW n \in Names, TaskStep(g, n)
      PROVE  [Served!Next]_(Served!vars)
    BY <1>3, RefinesTask
<1>4. ASSUME UNCHANGED <<task, tracker, gauge, genConfig>>
      PROVE  [Served!Next]_(Served!vars)
    <2>1. UNCHANGED <<Active, Rows, Series>>
        BY <1>4 DEF Active, Rows, Series, Live
    <2> QED BY <2>1, Stutter
<1>5. (\E p \in posts : PostEnds(p)) \/ CancelRoot \/ UNCHANGED vars
        => UNCHANGED <<task, tracker, gauge, genConfig>>
    BY DEF PostEnds, CancelRoot, vars, taskVars, ctxVars, viewVars
<1> QED BY <1>1, <1>2, <1>3, <1>4, <1>5 DEF Next, Consistent

\* Hot reload as its reader sees it (Reload in scheduler.go): as long as no two
\* reloads have overlapped, the scheduler implements ServedConfig.
THEOREM Implementation == Spec => ServesOneConfig
<1>1. Init => Served!Init
    BY EmptyMapDomain DEF Init, Served!Init, Live
<1>2. ASSUME Sound, Sound', [Next]_vars
      PROVE  [overlapped' \/ Served!Next]_(Served!vars)
    <2>1. ASSUME ~overlapped' PROVE [Served!Next]_(Served!vars)
        <3>1. ~overlapped /\ Consistent /\ Consistent'
            BY <1>2, <2>1, OverlapStays DEF Sound
        <3> QED BY <1>2, <2>1, <3>1, RefinesNext
    <2> QED BY <2>1
<1> QED BY <1>1, <1>2, SoundInvariant, PTL DEF Spec, ServesOneConfig
=============================================================================
