--------------------------- MODULE ConnectTimings ---------------------------
(***************************************************************************)
(* How long it took to connect (connectTimings of internal/prober): the    *)
(* httptrace callbacks of one http.Client.Do, which net/http calls from    *)
(* several goroutines, and duration(), read when Do returns.               *)
(*                                                                         *)
(* Do visits the hosts of a route: one, or two when the first answers with *)
(* a redirect.  For each the transport resolves the name, if it is one,    *)
(* dials its addresses -- a second attempt may start while the first is    *)
(* still going on ("happy eyeballs") and the loser reports its end late -- *)
(* and shakes hands if the scheme is https.  A time is a reading of clock; *)
(* 0 is the zero time.                                                     *)
(***************************************************************************)
EXTENDS Integers, Sequences

CONSTANTS
    Routes,       \* routes a request may take: sequences of hosts
    Attempts,     \* dial attempts per host
    MaxClock      \* bound: readings of the clock

Hosts == [tls : BOOLEAN, literal : BOOLEAN]   \* https; the host is an IP address

ASSUME RouteAssumption == Routes \subseteq Seq(Hosts) /\ \A r \in Routes : r # <<>>
ASSUME ClockAssumption == MaxClock \in Nat \ {0}

VARIABLES
    route,      \* the hosts of this request
    hop,        \* the one it is at
    stage,      \* where Do is
    clock,
    timings,    \* connectTimings
    dialing,    \* attempts that have started and not reported their end
    tried,      \* attempts started for this host
    answered,   \* Do has returned an answer and no error
    duration,   \* ConnectDuration, once Do has returned
    began, up   \* history: when setting up the connection to this host began,
                \* and when it was usable

hostVars == <<route, hop>>
endVars  == <<answered, duration>>
vars == <<hostVars, stage, clock, timings, dialing, tried, endVars, began, up>>

Stages == {"starting", "resolving", "dialing", "handshaking", "connected",
           "waiting", "returned"}

Host == route[hop]

\* t.reused is never set: keep-alives are disabled.
Timings == [dnsStart : Nat, connectStart : Nat, connectDone : Nat, tlsDone : Nat, gotConn : Nat]

First(a, b) == IF a # 0 THEN a ELSE b

Begin(t) == First(t.dnsStart, t.connectStart)
End(t)   == First(t.tlsDone, First(t.connectDone, t.gotConn))

Greater(a, b) == IF a > b THEN a ELSE b

\* Slip: the later of the ends that are there.
DurationToLatest(t) ==
    IF Begin(t) = 0 \/ End(t) = 0 THEN 0 ELSE Greater(t.tlsDone, t.connectDone) - Begin(t)

\* Slip: an end that is not there is not noticed.
DurationWithoutEnd(t) == IF Begin(t) = 0 THEN 0 ELSE End(t) - Begin(t)

\* connectTimings.duration.
Duration(t) == IF Begin(t) = 0 \/ End(t) = 0 THEN 0 ELSE End(t) - Begin(t)

Init ==
    /\ route \in Routes
    /\ hop = 1
    /\ stage = "starting"
    /\ clock = 1
    /\ timings = [dnsStart |-> 0, connectStart |-> 0, connectDone |-> 0, tlsDone |-> 0, gotConn |-> 0]
    /\ dialing = {} /\ tried = {}
    /\ answered = FALSE /\ duration = 0
    /\ began = 0 /\ up = 0

Tick ==
    /\ stage # "returned"
    /\ clock < MaxClock
    /\ clock' = clock + 1
    /\ UNCHANGED <<hostVars, stage, timings, dialing, tried, endVars, began, up>>

\* DNSStart.
Resolve ==
    /\ stage = "starting" /\ ~Host.literal
    /\ stage' = "resolving"
    /\ timings' = [timings EXCEPT !.dnsStart = clock]
    /\ began' = clock
    /\ UNCHANGED <<hostVars, clock, dialing, tried, endVars, up>>

Resolved ==
    /\ stage = "resolving" \/ (stage = "starting" /\ Host.literal)
    /\ stage' = "dialing"
    /\ UNCHANGED <<hostVars, clock, timings, dialing, tried, endVars, began, up>>

\* ConnectStart of an attempt: the first of the request counts.
ConnectStart(a) ==
    /\ stage = "dialing"
    /\ a \notin tried
    /\ tried' = tried \cup {a}
    /\ dialing' = dialing \cup {<<hop, a>>}
    /\ timings' = [timings EXCEPT !.connectStart = First(@, clock)]
    /\ began' = First(began, clock)
    /\ UNCHANGED <<hostVars, stage, clock, endVars, up>>

\* ConnectDone: called for every attempt, also one that fails, or that lost
\* and is cancelled; then it may come at any time, from its own goroutine.
\* (Where it meets the read of duration() either order is possible.)
ConnectDone(d, connected) ==
    /\ stage # "returned"
    /\ d \in dialing
    /\ dialing' = dialing \ {d}
    /\ timings' = [timings EXCEPT !.connectDone = clock]
    /\ IF connected /\ d[1] = hop /\ stage = "dialing"
       THEN /\ stage' = IF Host.tls THEN "handshaking" ELSE "connected"
            /\ up' = clock
       ELSE UNCHANGED <<stage, up>>
    /\ UNCHANGED <<hostVars, clock, tried, endVars, began>>

\* TLSHandshakeDone, without an error.
HandshakeDone ==
    /\ stage = "handshaking"
    /\ stage' = "connected"
    /\ timings' = [timings EXCEPT !.tlsDone = clock]
    /\ up' = clock
    /\ UNCHANGED <<hostVars, clock, dialing, tried, endVars, began>>

GotConn ==
    /\ stage = "connected"
    /\ stage' = "waiting"
    /\ timings' = [timings EXCEPT !.gotConn = clock]
    /\ UNCHANGED <<hostVars, clock, dialing, tried, endVars, began, up>>

\* The answer is a redirect, which the client follows under the same trace.
Redirect ==
    /\ stage = "waiting"
    /\ hop < Len(route)
    /\ hop' = hop + 1
    /\ stage' = "starting"
    /\ tried' = {}
    /\ began' = 0 /\ up' = 0
    /\ UNCHANGED <<route, clock, timings, dialing, endVars>>

Return(t, withAnswer) ==
    /\ stage' = "returned"
    /\ timings' = t
    /\ duration' = Duration(t)
    /\ answered' = withAnswer
    /\ UNCHANGED <<hostVars, clock, dialing, tried, began, up>>

Answer ==
    /\ stage = "waiting"
    /\ hop = Len(route)
    /\ Return(timings, TRUE)

\* Do fails: a timeout or cancellation at any time, a name that does not
\* resolve, no address that accepts.
Fail ==
    /\ stage # "returned"
    /\ Return(timings, FALSE)

\* TLSHandshakeDone, with an error.
HandshakeFails ==
    /\ stage = "handshaking"
    /\ Return([timings EXCEPT !.tlsDone = clock], FALSE)

Next ==
    \/ Tick
    \/ Resolve \/ Resolved
    \/ \E a \in Attempts : ConnectStart(a)
    \/ \E d \in dialing, connected \in BOOLEAN : ConnectDone(d, connected)
    \/ HandshakeDone \/ HandshakeFails
    \/ GotConn
    \/ Redirect
    \/ Answer \/ Fail

Spec == Init /\ [][Next]_vars

-----------------------------------------------------------------------------
(* Properties.                                                             *)

\* Types of the variables; no host is connected to before it was dialled.
TypeOK ==
    /\ route \in Routes /\ hop \in 1 .. Len(route)
    /\ stage \in Stages
    /\ clock \in 1 .. MaxClock
    /\ timings \in Timings
    /\ dialing \subseteq (1 .. hop) \X Attempts /\ tried \subseteq Attempts
    /\ answered \in BOOLEAN
    /\ duration \in -MaxClock .. MaxClock
    /\ began \in 0 .. clock
    /\ up = 0 \/ (began # 0 /\ up \in began .. clock)

Direct == stage = "returned" /\ hop = 1

\* When the host that answers is reached over https the connect duration is the
\* time from its DNS query, or the first dial of an IP address, to the end of its
\* TLS handshake: a losing dial attempt that reports late does not change it,
\* nor does a second one that starts later, nor what an earlier host that
\* redirected here left behind -- unless this host has no DNS query.
SetupTimeExact ==
    stage = "returned" /\ answered /\ Host.tls /\ (hop = 1 \/ ~Host.literal) =>
        duration = up - began

\* Without a redirect, and however the request ends, it is the length of an
\* interval within the request; with an answer it covers at least the set-up
\* (over plain http it may run on to the end of a losing attempt).
SetupTimeBounded ==
    Direct => /\ duration \in 0 .. clock - 1
              /\ answered => duration >= up - began

\* "Connection setup time (DNS + TCP + TLS)": never negative.
SetupTimeNotNegative == stage = "returned" => duration >= 0

Smaller(a, b) == IF a = 0 \/ (b # 0 /\ b < a) THEN b ELSE a

\* "ConnectDuration = max(TLSHandshakeDone, ConnectDone, GotConn)
\*                      - min(DNSStart, ConnectStart)"
DocumentedDuration ==
    Direct /\ answered =>
        duration = Greater(timings.tlsDone, Greater(timings.connectDone, timings.gotConn))
                     - Smaller(timings.dnsStart, timings.connectStart)
=============================================================================
