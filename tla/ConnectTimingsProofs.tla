------------------------ MODULE ConnectTimingsProofs ------------------------
(***************************************************************************)
(* Proofs about connect timings, for any routes, any number of redirects   *)
(* and of dial attempts, and any times.                                    *)
(***************************************************************************)
EXTENDS ConnectTimings, TLAPS

USE RouteAssumption, ClockAssumption DEF RouteAssumption, ClockAssumption

-----------------------------------------------------------------------------
(* The inductive invariant.                                                *)

\* Every time is one the clock has shown.
Shown(t) ==
    /\ t \in Timings
    /\ t.dnsStart <= clock /\ t.connectStart <= clock /\ t.connectDone <= clock
    /\ t.tlsDone <= clock /\ t.gotConn <= clock

\* How far the set-up of this host has come.
Progress ==
    /\ stage = "starting" => began = 0
    /\ stage \in {"starting", "resolving", "dialing"} => up = 0
    /\ stage \in {"handshaking", "connected", "waiting"} => began # 0 /\ up # 0
    /\ stage = "handshaking" => Host.tls
    /\ \A d \in dialing : d[1] = hop => began # 0

\* A host with a name has the time of its own query, whatever hosts were before.
Named ==
    stage \notin {"starting", "returned"} /\ ~Host.literal =>
        began # 0 /\ timings.dnsStart = began

\* Over https the end of the handshake is this host's.
Secured ==
    stage \in {"connected", "waiting"} /\ Host.tls => timings.tlsDone = up

\* Before any redirect all times are this host's.
FirstHost ==
    hop = 1 =>
        /\ began = Begin(timings)
        /\ timings.connectDone # 0 => began # 0 /\ timings.connectDone >= began
        /\ timings.tlsDone # 0 => Host.tls /\ began # 0 /\ timings.tlsDone >= began
        /\ timings.gotConn # 0 => began # 0 /\ timings.gotConn >= began
        /\ stage \in {"connected", "waiting"} /\ ~Host.tls => timings.connectDone >= up

Result ==
    /\ stage # "returned" => ~answered /\ duration = 0
    /\ SetupTimeExact
    /\ SetupTimeBounded

IInv == TypeOK /\ Shown(timings) /\ Progress /\ Named /\ Secured /\ FirstHost /\ Result

-----------------------------------------------------------------------------
(* What duration() makes of the times.                                     *)

LEMMA HostType ==
    ASSUME TypeOK
    PROVE  Host \in Hosts
BY DEF TypeOK, Host

LEMMA DurationType ==
    ASSUME TypeOK, NEW t, Shown(t)
    PROVE  Duration(t) \in -MaxClock .. MaxClock
<1>1. Begin(t) \in 0 .. MaxClock /\ End(t) \in 0 .. MaxClock
    BY DEF Begin, End, First, Shown, TypeOK, Timings
<1> QED BY <1>1 DEF Duration

\* Over https, with the query's time the host's own: the exact set-up time.
LEMMA DurationExact ==
    ASSUME TypeOK, NEW t \in Timings, t.tlsDone = up, up # 0, Begin(t) = began, began # 0
    PROVE  Duration(t) = up - began
BY DEF Duration, End, First, Timings, TypeOK

\* Before a redirect: an interval that ends no later than now.
LEMMA DurationBounded ==
    ASSUME TypeOK, NEW t, Shown(t), Begin(t) = began,
           t.connectDone # 0 => t.connectDone >= began,
           t.tlsDone # 0     => t.tlsDone >= began,
           t.gotConn # 0     => t.gotConn >= began
    PROVE  Duration(t) \in 0 .. clock - 1
<1>1. began \in Nat /\ clock \in Nat \ {0} /\ began <= clock
    BY DEF TypeOK
<1>2. End(t) \in Nat /\ End(t) <= clock /\ (End(t) # 0 => End(t) >= began)
    BY DEF End, First, Shown, Timings
<1> QED BY <1>1, <1>2 DEF Duration

-----------------------------------------------------------------------------
LEMMA IInvInit == Init => IInv
<1> SUFFICES ASSUME Init PROVE IInv
    OBVIOUS
<1>1. TypeOK
    <2>1. route \in Seq(Hosts) /\ route # <<>>
        BY DEF Init
    <2>2. 1 \in 1 .. Len(route)
        BY <2>1
    <2>3. 1 \in 1 .. MaxClock /\ 0 \in -MaxClock .. MaxClock
        OBVIOUS
    <2>4. timings \in Timings /\ stage \in Stages
        BY DEF Init, Timings, Stages
    <2>5. /\ route \in Routes /\ hop = 1 /\ clock = 1 /\ duration = 0 /\ began = 0 /\ up = 0
          /\ dialing = {} /\ tried = {}
        BY DEF Init
    <2>6. answered \in BOOLEAN
        BY DEF Init
    <2> QED BY <2>2, <2>3, <2>4, <2>5, <2>6 DEF TypeOK
<1>2. Shown(timings)
    BY DEF Init, Shown, Timings
<1> QED BY <1>1, <1>2 DEF Init, IInv, Progress, Named, Secured, FirstHost, Result,
        SetupTimeExact, SetupTimeBounded, Direct, Begin, First

\* While Do has not returned, nothing is said of its result.
LEMMA NotReturned ==
    ASSUME stage' # "returned", ~answered', duration' = 0
    PROVE  Result'
BY DEF Result, SetupTimeExact, SetupTimeBounded, Direct

LEMMA TickNext ==
    ASSUME IInv, Tick
    PROVE  IInv'
<1> USE DEF Tick, hostVars, endVars
<1>1. TypeOK'
    BY DEF IInv, TypeOK
<1>2. Shown(timings)'
    BY DEF IInv, Shown, TypeOK, Timings
<1>3. Result'
    BY NotReturned DEF IInv, Result
<1>4. Progress'
    BY DEF IInv, Progress, Host
<1>5. Named' /\ Secured' /\ FirstHost'
    BY DEF IInv, Named, Secured, FirstHost, Host
<1> QED BY <1>1, <1>2, <1>3, <1>4, <1>5 DEF IInv

LEMMA ResolveNext ==
    ASSUME IInv, Resolve
    PROVE  IInv'
<1>1. /\ stage = "starting" /\ ~Host.literal /\ stage' = "resolving"
      /\ timings' = [timings EXCEPT !.dnsStart = clock] /\ began' = clock
      /\ UNCHANGED <<route, hop, clock, dialing, tried, answered, duration, up>>
    BY DEF Resolve, hostVars, endVars
<1>2. TypeOK /\ timings \in Timings /\ clock \in Nat \ {0} /\ began = 0 /\ up = 0
    BY <1>1 DEF IInv, TypeOK, Progress
<1>3. /\ timings' \in Timings /\ timings'.dnsStart = clock
      /\ timings'.connectStart = timings.connectStart
      /\ timings'.connectDone = timings.connectDone
      /\ timings'.tlsDone = timings.tlsDone /\ timings'.gotConn = timings.gotConn
    BY <1>1, <1>2 DEF Timings
<1>4. TypeOK'
    BY <1>1, <1>2, <1>3 DEF TypeOK, Stages
<1>5. Shown(timings)'
    BY <1>1, <1>2, <1>3 DEF IInv, Shown
<1>6. Result'
    BY <1>1, NotReturned DEF IInv, Result
<1>7. Progress' /\ Named' /\ Secured'
    BY <1>1, <1>2, <1>3 DEF Progress, Named, Secured, Host
<1>8. FirstHost'
    BY <1>1, <1>2, <1>3 DEF IInv, FirstHost, Host, Begin, First
<1> QED BY <1>4, <1>5, <1>6, <1>7, <1>8 DEF IInv

LEMMA ResolvedNext ==
    ASSUME IInv, Resolved
    PROVE  IInv'
<1>1. /\ stage = "resolving" \/ (stage = "starting" /\ Host.literal)
      /\ stage' = "dialing"
      /\ UNCHANGED <<route, hop, clock, timings, dialing, tried, answered, duration, began, up>>
    BY DEF Resolved, hostVars, endVars
<1>2. TypeOK' /\ Shown(timings)'
    BY <1>1 DEF IInv, TypeOK, Stages, Shown
<1>3. Result'
    BY <1>1, NotReturned DEF IInv, Result
<1>4. Progress' /\ Named' /\ Secured' /\ FirstHost'
    BY <1>1 DEF IInv, Progress, Named, Secured, FirstHost, Host
<1> QED BY <1>2, <1>3, <1>4 DEF IInv

LEMMA ConnectStartNext ==
    ASSUME IInv, NEW a \in Attempts, ConnectStart(a)
    PROVE  IInv'
<1>1. /\ stage = "dialing"
      /\ tried' = tried \cup {a} /\ dialing' = dialing \cup {<<hop, a>>}
      /\ timings' = [timings EXCEPT !.connectStart = First(timings.connectStart, clock)]
      /\ began' = First(began, clock)
      /\ UNCHANGED <<route, hop, stage, clock, answered, duration, up>>
    BY DEF ConnectStart, hostVars, endVars
<1>2. /\ TypeOK /\ Shown(timings) /\ timings \in Timings /\ clock \in Nat \ {0}
      /\ up = 0 /\ began \in 0 .. clock
    BY <1>1 DEF IInv, TypeOK, Progress
<1>3. /\ timings' \in Timings /\ timings'.dnsStart = timings.dnsStart
      /\ timings'.connectStart = First(timings.connectStart, clock)
      /\ timings'.connectDone = timings.connectDone
      /\ timings'.tlsDone = timings.tlsDone /\ timings'.gotConn = timings.gotConn
    BY <1>1, <1>2 DEF Timings, First
<1>4. /\ began' \in 1 .. clock /\ (began # 0 => began' = began)
      /\ timings'.connectStart <= clock
    BY <1>1, <1>2, <1>3 DEF First, Shown
<1>5. TypeOK'
    <2>1. dialing' \subseteq (1 .. hop) \X Attempts /\ tried' \subseteq Attempts
        BY <1>1, <1>2 DEF TypeOK
    <2> QED BY <1>1, <1>2, <1>3, <1>4, <2>1 DEF TypeOK
<1>6. Shown(timings)'
    BY <1>1, <1>2, <1>3, <1>4 DEF Shown
<1>7. Result'
    BY <1>1, NotReturned DEF IInv, Result
<1>8. Progress' /\ Secured'
    BY <1>1, <1>2, <1>4 DEF Progress, Secured
<1>9. Named'
    BY <1>1, <1>3, <1>4 DEF IInv, Named, Host
<1>10. FirstHost'
    <2> SUFFICES ASSUME hop = 1
                 PROVE  /\ began' = Begin(timings')
                        /\ timings.connectDone # 0 => timings.connectDone >= began'
                        /\ timings.tlsDone # 0 => Host.tls /\ timings.tlsDone >= began'
                        /\ timings.gotConn # 0 => timings.gotConn >= began'
        BY <1>1, <1>3, <1>4 DEF FirstHost, Host
    <2>1. began' = Begin(timings')
        BY <1>1, <1>2, <1>3 DEF IInv, FirstHost, Begin, First, Timings
    <2> QED BY <1>4, <2>1 DEF IInv, FirstHost
<1> QED BY <1>5, <1>6, <1>7, <1>8, <1>9, <1>10 DEF IInv

LEMMA ConnectDoneNext ==
    ASSUME IInv, NEW d \in dialing, NEW connected \in BOOLEAN, ConnectDone(d, connected)
    PROVE  IInv'
<1> DEFINE won == connected /\ d[1] = hop /\ stage = "dialing"
<1>1. /\ stage # "returned"
      /\ dialing' = dialing \ {d}
      /\ timings' = [timings EXCEPT !.connectDone = clock]
      /\ won => /\ stage' = IF Host.tls THEN "handshaking" ELSE "connected"
                /\ up' = clock
      /\ ~won => UNCHANGED <<stage, up>>
      /\ UNCHANGED <<route, hop, clock, tried, answered, duration, began>>
    BY DEF ConnectDone, hostVars, endVars
<1>2. /\ TypeOK /\ Shown(timings) /\ timings \in Timings /\ clock \in Nat \ {0}
      /\ began \in 0 .. clock /\ (d[1] = hop => began # 0) /\ d[1] \in 1 .. hop
      /\ Host \in Hosts
    BY HostType DEF IInv, TypeOK, Progress
<1>3. /\ timings' \in Timings /\ timings'.dnsStart = timings.dnsStart
      /\ timings'.connectStart = timings.connectStart
      /\ timings'.connectDone = clock
      /\ timings'.tlsDone = timings.tlsDone /\ timings'.gotConn = timings.gotConn
    BY <1>1, <1>2 DEF Timings
<1>4. stage' # "returned" /\ (won \/ UNCHANGED <<stage, up>>)
    BY <1>1
<1>5. TypeOK'
    <2>1. dialing' \subseteq (1 .. hop) \X Attempts
        BY <1>1, <1>2 DEF TypeOK
    <2>2. up' = 0 \/ (began # 0 /\ up' \in began .. clock)
        BY <1>1, <1>2 DEF TypeOK
    <2>3. stage' \in Stages
        BY <1>1, <1>2 DEF TypeOK, Stages
    <2> QED BY <1>1, <1>2, <1>3, <2>1, <2>2, <2>3 DEF TypeOK
<1>6. Shown(timings)'
    BY <1>1, <1>2, <1>3 DEF Shown
<1>7. Result'
    BY <1>1, <1>4, NotReturned DEF IInv, Result
<1>8. Progress'
    BY <1>1, <1>2, <1>4 DEF IInv, Progress, Host
<1>9. Named'
    BY <1>1, <1>3, <1>4 DEF IInv, Named, Host
<1>10. Secured'
    BY <1>1, <1>3, <1>4 DEF IInv, Secured, Host
<1>11. FirstHost'
    <2> SUFFICES ASSUME hop = 1 PROVE FirstHost'
        BY <1>1 DEF FirstHost
    <2>1. /\ Host' = Host /\ began # 0 /\ began = Begin(timings)
          /\ clock >= began
        BY <1>1, <1>2 DEF Host, IInv, FirstHost
    <2>2. Begin(timings') = Begin(timings)
        BY <1>3 DEF Begin, First
    <2>3. stage' \in {"connected", "waiting"} => clock >= up'
        BY <1>1, <1>2, <1>4 DEF TypeOK
    <2> QED BY <1>1, <1>3, <2>1, <2>2, <2>3 DEF IInv, FirstHost
<1> QED BY <1>5, <1>6, <1>7, <1>8, <1>9, <1>10, <1>11 DEF IInv

LEMMA HandshakeDoneNext ==
    ASSUME IInv, HandshakeDone
    PROVE  IInv'
<1>1. /\ stage = "handshaking" /\ stage' = "connected"
      /\ timings' = [timings EXCEPT !.tlsDone = clock] /\ up' = clock
      /\ UNCHANGED <<route, hop, clock, dialing, tried, answered, duration, began>>
    BY DEF HandshakeDone, hostVars, endVars
<1>2. /\ TypeOK /\ Shown(timings) /\ timings \in Timings /\ clock \in Nat \ {0}
      /\ began \in 1 .. clock
    BY <1>1 DEF IInv, TypeOK, Progress
<1>3. /\ timings' \in Timings /\ timings'.dnsStart = timings.dnsStart
      /\ timings'.connectStart = timings.connectStart
      /\ timings'.connectDone = timings.connectDone
      /\ timings'.tlsDone = clock /\ timings'.gotConn = timings.gotConn
    BY <1>1, <1>2 DEF Timings
<1>4. TypeOK'
    BY <1>1, <1>2, <1>3 DEF TypeOK, Stages
<1>5. Shown(timings)'
    BY <1>1, <1>2, <1>3 DEF Shown
<1>6. Result'
    BY <1>1, NotReturned DEF IInv, Result
<1>7. Progress' /\ Secured'
    BY <1>1, <1>2, <1>3 DEF IInv, Progress, Secured
<1>8. Named'
    BY <1>1, <1>3 DEF IInv, Named, Host
<1>9. FirstHost'
    BY <1>1, <1>2, <1>3 DEF IInv, Progress, FirstHost, Host, Begin, First
<1> QED BY <1>4, <1>5, <1>6, <1>7, <1>8, <1>9 DEF IInv

LEMMA GotConnNext ==
    ASSUME IInv, GotConn
    PROVE  IInv'
<1>1. /\ stage = "connected" /\ stage' = "waiting"
      /\ timings' = [timings EXCEPT !.gotConn = clock]
      /\ UNCHANGED <<route, hop, clock, dialing, tried, answered, duration, began, up>>
    BY DEF GotConn, hostVars, endVars
<1>2. /\ TypeOK /\ Shown(timings) /\ timings \in Timings /\ clock \in Nat \ {0}
      /\ began \in 1 .. clock
    BY <1>1 DEF IInv, TypeOK, Progress
<1>3. /\ timings' \in Timings /\ timings'.dnsStart = timings.dnsStart
      /\ timings'.connectStart = timings.connectStart
      /\ timings'.connectDone = timings.connectDone
      /\ timings'.tlsDone = timings.tlsDone /\ timings'.gotConn = clock
    BY <1>1, <1>2 DEF Timings
<1>4. TypeOK'
    BY <1>1, <1>2, <1>3 DEF TypeOK, Stages
<1>5. Shown(timings)'
    BY <1>1, <1>2, <1>3 DEF Shown
<1>6. Result'
    BY <1>1, NotReturned DEF IInv, Result
<1>7. Progress' /\ Secured' /\ Named'
    BY <1>1, <1>2, <1>3 DEF IInv, Progress, Secured, Named, Host
<1>8. FirstHost'
    BY <1>1, <1>2, <1>3 DEF IInv, FirstHost, Host, Begin, First
<1> QED BY <1>4, <1>5, <1>6, <1>7, <1>8 DEF IInv

LEMMA RedirectNext ==
    ASSUME IInv, Redirect
    PROVE  IInv'
<1>1. /\ stage = "waiting" /\ stage' = "starting"
      /\ hop < Len(route) /\ hop' = hop + 1 /\ tried' = {} /\ began' = 0 /\ up' = 0
      /\ UNCHANGED <<route, clock, timings, dialing, answered, duration>>
    BY DEF Redirect, endVars
<1>2. TypeOK /\ hop \in Nat \ {0} /\ route \in Seq(Hosts)
    BY DEF IInv, TypeOK
<1>3. hop' # 1 /\ \A d \in dialing : d[1] # hop'
    BY <1>1, <1>2 DEF TypeOK
<1>4. TypeOK'
    <2>1. hop' \in 1 .. Len(route)
        BY <1>1, <1>2
    <2>2. dialing \subseteq (1 .. hop') \X Attempts
        BY <1>1, <1>2 DEF TypeOK
    <2> QED BY <1>1, <1>2, <2>1, <2>2 DEF TypeOK, Stages
<1>5. Shown(timings)'
    BY <1>1 DEF IInv, Shown
<1>6. Result'
    BY <1>1, NotReturned DEF IInv, Result
<1>7. Progress' /\ Named' /\ Secured' /\ FirstHost'
    BY <1>1, <1>3 DEF Progress, Named, Secured, FirstHost
<1> QED BY <1>4, <1>5, <1>6, <1>7 DEF IInv

\* Do returns: what duration() makes of the times is what is promised.
LEMMA ReturnNext ==
    ASSUME IInv, NEW t, NEW withAnswer \in BOOLEAN, Return(t, withAnswer),
           stage # "returned", Shown(t), Begin(t) = Begin(timings),
           t.connectDone = timings.connectDone, t.gotConn = timings.gotConn,
           t.tlsDone = timings.tlsDone \/ (stage = "handshaking" /\ t.tlsDone = clock),
           withAnswer => stage = "waiting" /\ t = timings
    PROVE  IInv'
<1>1. /\ stage' = "returned" /\ timings' = t /\ duration' = Duration(t)
      /\ answered' = withAnswer
      /\ UNCHANGED <<route, hop, clock, dialing, tried, began, up>>
    BY DEF Return, hostVars
<1>2. /\ TypeOK /\ t \in Timings /\ Host \in Hosts /\ Host' = Host
      /\ clock \in Nat \ {0} /\ began \in 0 .. clock
    BY <1>1, HostType DEF IInv, TypeOK, Shown, Host
<1>3. TypeOK' /\ Shown(timings)'
    <2>1. Duration(t) \in -MaxClock .. MaxClock
        BY <1>2, DurationType
    <2> QED BY <1>1, <1>2, <2>1 DEF TypeOK, Stages, Shown
<1>4. Progress' /\ Named' /\ Secured'
    BY <1>1, <1>2 DEF IInv, Progress, Named, Secured
<1>5. hop = 1 =>
          /\ began = Begin(t)
          /\ t.connectDone # 0 => began # 0 /\ t.connectDone >= began
          /\ t.tlsDone # 0 => Host.tls /\ began # 0 /\ t.tlsDone >= began
          /\ t.gotConn # 0 => began # 0 /\ t.gotConn >= began
    BY <1>2 DEF IInv, FirstHost, Progress
<1>6. FirstHost'
    BY <1>1, <1>2, <1>5 DEF FirstHost
<1>7. withAnswer /\ Host.tls /\ (hop = 1 \/ ~Host.literal) => Duration(t) = up - began
    <2> SUFFICES ASSUME withAnswer, Host.tls, hop = 1 \/ ~Host.literal
                 PROVE  Duration(t) = up - began
        OBVIOUS
    <2>1. stage = "waiting" /\ t = timings /\ t.tlsDone = up /\ up # 0 /\ began # 0
        BY DEF IInv, Secured, Progress
    <2>2. Begin(t) = began
        <3>1. CASE hop = 1
            BY <1>5, <3>1
        <3>2. CASE ~Host.literal
            BY <2>1, <3>2 DEF IInv, Named, Begin, First
        <3> QED BY <3>1, <3>2
    <2> QED BY <1>2, <2>1, <2>2, DurationExact
<1>8. hop = 1 => Duration(t) \in 0 .. clock - 1
    BY <1>2, <1>5, DurationBounded
<1>9. hop = 1 /\ withAnswer => Duration(t) >= up - began
    <2> SUFFICES ASSUME hop = 1, withAnswer PROVE Duration(t) >= up - began
        OBVIOUS
    <2>1. stage = "waiting" /\ t = timings /\ up # 0 /\ began # 0 /\ up \in began .. clock
        BY <1>2 DEF IInv, Progress, TypeOK
    <2>2. CASE Host.tls
        BY <1>2, <1>7, <1>8, <2>1, <2>2
    <2>3. CASE ~Host.tls
        <3>1. t.tlsDone = 0 /\ t.connectDone >= up
            BY <1>5, <2>1, <2>3 DEF IInv, FirstHost
        <3>2. Begin(t) = began /\ End(t) = t.connectDone
            BY <1>2, <1>5, <2>1, <3>1 DEF End, First, Timings
        <3> QED BY <1>2, <2>1, <3>1, <3>2 DEF Duration, Timings
    <2> QED BY <2>2, <2>3
<1>10. Result'
    BY <1>1, <1>2, <1>7, <1>8, <1>9 DEF Result, SetupTimeExact, SetupTimeBounded, Direct
<1> QED BY <1>3, <1>4, <1>6, <1>10 DEF IInv

LEMMA IInvNext == IInv /\ [Next]_vars => IInv'
<1> SUFFICES ASSUME IInv, [Next]_vars PROVE IInv'
    OBVIOUS
<1>1. Shown(timings) /\ timings \in Timings /\ clock \in Nat
    BY DEF IInv, Shown, TypeOK
<1>2. CASE Answer
    BY <1>1, <1>2, ReturnNext DEF Answer
<1>3. CASE Fail
    BY <1>1, <1>3, ReturnNext DEF Fail
<1>4. CASE HandshakeFails
    <2> DEFINE t == [timings EXCEPT !.tlsDone = clock]
    <2>1. /\ Shown(t) /\ Begin(t) = Begin(timings)
          /\ t.connectDone = timings.connectDone /\ t.gotConn = timings.gotConn
          /\ t.tlsDone = clock
        BY <1>1 DEF Shown, Begin, Timings
    <2>2. Return(t, FALSE) /\ stage = "handshaking"
        BY <1>4 DEF HandshakeFails
    <2> HIDE DEF t
    <2> QED BY <2>1, <2>2, ReturnNext
<1>5. CASE UNCHANGED vars
    BY <1>5 DEF vars, hostVars, endVars, IInv, TypeOK, Shown, Progress, Named, Secured,
       FirstHost, Result, SetupTimeExact, SetupTimeBounded, Direct, Host
<1> QED BY <1>2, <1>3, <1>4, <1>5, TickNext, ResolveNext, ResolvedNext, ConnectStartNext,
        ConnectDoneNext, HandshakeDoneNext, GotConnNext, RedirectNext DEF Next

LEMMA IInvAlways == Spec => []IInv
BY IInvInit, IInvNext, PTL DEF Spec

\* Types: no host is connected to before it was dialled, and a duration stays
\* within the range of the clock.
THEOREM TypeCorrect == Spec => []TypeOK
<1>1. IInv => TypeOK
    BY DEF IInv
<1> QED BY <1>1, IInvAlways, PTL

\* connectTimings.duration, over https: exactly the set-up of the connection to
\* the host that answers, whichever dial attempts lose and whenever they say so,
\* after any number of redirects to hosts with a name.
THEOREM ExactSetupTime == Spec => []SetupTimeExact
<1>1. IInv => SetupTimeExact
    BY DEF IInv, Result
<1> QED BY <1>1, IInvAlways, PTL

\* connectTimings.duration without a redirect: an interval within the request,
\* and with an answer at least the set-up.
THEOREM BoundedSetupTime == Spec => []SetupTimeBounded
<1>1. IInv => SetupTimeBounded
    BY DEF IInv, Result
<1> QED BY <1>1, IInvAlways, PTL
=============================================================================
