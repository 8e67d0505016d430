---------------------------- MODULE ProbeHandler ----------------------------
(***************************************************************************)
(* GET /probe (cmd/llm-exporter/probe_handler.go): requests that are       *)
(* served at the same time, each with a registry of its own, while reloads *)
(* replace currentConfig.  A configuration is its modules; only a document *)
(* Load has accepted is ever published.  What the provider does with the   *)
(* one-shot probe is its choice, and it may do nothing for ever.           *)
(***************************************************************************)
EXTENDS ModuleConfig, ErrorTypes, FiniteSets

CONSTANTS
    Requests,    \* requests that may be in flight, each of them once
    Documents,   \* what the modules section of the file may be
    Answers      \* what a probe that nobody cuts short may come to

Absent == -1                \* the answer has no rate-limit header
NoName == ""                \* the query parameter is not given
Names  == UNION {DOMAIN d : d \in Documents}

\* ProbeResult, as far as the handler looks at it.  `matches` tells whether the
\* text of the answer matches the module's expect_pattern.
Result(success, type, status, remaining, matches) ==
    [success |-> success, type |-> type, status |-> status,
     remaining |-> remaining, matches |-> matches]

\* The probe ended without an answer.
Unanswered(cause) == Result(FALSE, NetworkClass(cause), 0, Absent, FALSE)

\* What a probe that is cut short comes to: there is no answer yet; or the body
\* of an answer with status 200 ends in an error, whatever its cause; or of the
\* body of another answer nothing is there that would refine its status.
CutShort(cause) ==
    {Unanswered(cause)}
      \cup {Result(FALSE, "parse_error", 200, a.remaining, FALSE) :
               a \in {b \in Answers : b.status = 200}}
      \cup {Result(FALSE, StatusClass(a.status), a.status, a.remaining, FALSE) :
               a \in {b \in Answers : b.status \notin {0, 200}}}

ASSUME HandlerAssumption ==
    /\ \A d \in Documents : IsFiniteSet(DOMAIN d) /\ \A m \in DOMAIN d : d[m] \in Modules
    /\ \A a \in Answers : a.success <=> a.type = ""

VARIABLES
    current,     \* currentConfig
    pc,          \* where the handler of each request is
    query,       \* the two query parameters
    cfg,         \* the handler's cfg
    settings,    \* runtimeTarget
    result,      \* what Probe returned
    registry,    \* the series registered on the request's registry
    answer,      \* what the client is sent
    hungUp,      \* the client has closed the connection
    arrived      \* history: currentConfig when the handler began

reqVars == <<query, cfg, settings, result, registry, answer, hungUp, arrived>>
vars    == <<current, pc, reqVars>>

States == {"new", "checking", "probing", "registering", "writing", "done"}

None == [none |-> TRUE]

\* The configurations Load returns.
Loadable == {d \in Documents : \A m \in DOMAIN d : ModuleAccepted(d[m])}

Init ==
    /\ current \in Loadable
    /\ pc = [r \in Requests |-> "new"]
    /\ query = [r \in Requests |-> [target |-> FALSE, module |-> NoName]]
    /\ cfg = [r \in Requests |-> None]
    /\ settings = [r \in Requests |-> None]
    /\ result = [r \in Requests |-> None]
    /\ registry = [r \in Requests |-> {}]
    /\ answer = [r \in Requests |-> None]
    /\ hungUp = [r \in Requests |-> FALSE]
    /\ arrived = [r \in Requests |-> None]

Goto(r, from, to) == pc[r] = from /\ pc' = [pc EXCEPT ![r] = to]

\* reload publishes another configuration.
Publish(d) ==
    /\ d \in Loadable \ {current}
    /\ current' = d
    /\ UNCHANGED <<pc, reqVars>>

\* A request comes in: cfgGetter is called once, before anything else.
Receive(r, target, module) ==
    /\ Goto(r, "new", "checking")
    /\ query' = [query EXCEPT ![r] = [target |-> target, module |-> module]]
    /\ cfg' = [cfg EXCEPT ![r] = current]
    /\ arrived' = [arrived EXCEPT ![r] = current]
    /\ UNCHANGED <<current, settings, result, registry, answer, hungUp>>

\* Slip: the map is read again for the settings; a module that is no longer
\* there is the zero Module.
SettingsReread(r) ==
    LET m == query[r].module
    IN  ToTarget(IF m \in DOMAIN current THEN current[m]
                 ELSE [format |-> "", prompt |-> FALSE, timeout |-> 0, maxTokens |-> 0,
                       pattern |-> FALSE, compiles |-> TRUE])

\* mod.ToTarget, of the module found above.
SettingsOf(r) == ToTarget(cfg[r][query[r].module])

\* Why a request is answered with StatusBadRequest, or "".
Refusal(r) ==
    LET q == query[r]
    IN  CASE ~q.target -> "missing target"
          [] q.target /\ q.module = NoName -> "missing module"
          [] q.target /\ q.module \notin DOMAIN cfg[r] \cup {NoName} -> "unknown module"
          [] OTHER -> IF CanProbe(SettingsOf(r)) THEN "" ELSE "build prober"

Refuse(r) ==
    /\ Goto(r, "checking", "done")
    /\ Refusal(r) # ""
    /\ answer' = [answer EXCEPT ![r] = [status |-> 400, why |-> Refusal(r)]]
    /\ UNCHANGED <<current, query, cfg, settings, result, registry, hungUp, arrived>>

\* mod.ToTarget and prober.New; Probe begins.
BeginProbe(r) ==
    /\ Goto(r, "checking", "probing")
    /\ Refusal(r) = ""
    /\ settings' = [settings EXCEPT ![r] = SettingsOf(r)]
    /\ UNCHANGED <<current, query, cfg, result, registry, answer, hungUp, arrived>>

\* The client closes the connection, which cancels r.Context().  Once Probe
\* has returned nobody looks at it.
HangUp(r) ==
    /\ pc[r] \in {"checking", "probing"} /\ ~hungUp[r]
    /\ hungUp' = [hungUp EXCEPT ![r] = TRUE]
    /\ UNCHANGED <<current, pc, query, cfg, settings, result, registry, answer, arrived>>

ProbeReturns(r, res) ==
    /\ Goto(r, "probing", "registering")
    /\ result' = [result EXCEPT ![r] = res]
    /\ UNCHANGED <<current, query, cfg, settings, registry, answer, hungUp, arrived>>

\* The provider answers, or the connection fails.
Answered(r) == \E a \in Answers : ProbeReturns(r, a)

\* http.Client has no deadline unless its Timeout is positive.
TimesOut(r) ==
    /\ pc[r] = "probing" /\ settings[r].timeout > 0
    /\ \E res \in CutShort("deadline") : ProbeReturns(r, res)

\* Slip: the probe is given a context of its own.
CanceledBackground(r) == FALSE /\ \E res \in CutShort("canceled") : ProbeReturns(r, res)

\* Probe is given r.Context().
Canceled(r) ==
    /\ hungUp[r]
    /\ \E res \in CutShort("canceled") : ProbeReturns(r, res)

\* registerProbeResult: the series for one result.
Series(res) ==
    {<<"probe_success", IF res.success THEN 1 ELSE 0>>, <<"probe_http_status_code", res.status>>}
      \cup (IF res.remaining = Absent THEN {}
            ELSE {<<"probe_rate_limit_remaining", res.remaining>>})
      \cup (IF res.success \/ res.type = "" THEN {}
            ELSE {<<"probe_error_type", res.type>>})

\* Slip: one registry for all requests, with vectors that keep their series.
RegisterShared(r) ==
    /\ Goto(r, "registering", "writing")
    /\ registry' = [q \in Requests |-> registry[q] \cup Series(result[r])]
    /\ UNCHANGED <<current, query, cfg, settings, result, answer, hungUp, arrived>>

Register(r) ==
    /\ Goto(r, "registering", "writing")
    /\ registry' = [registry EXCEPT ![r] = Series(result[r])]
    /\ UNCHANGED <<current, query, cfg, settings, result, answer, hungUp, arrived>>

\* promhttp gathers the registry and writes the answer.
Write(r) ==
    /\ Goto(r, "writing", "done")
    /\ answer' = [answer EXCEPT ![r] = [status |-> 200, series |-> registry[r]]]
    /\ UNCHANGED <<current, query, cfg, settings, result, registry, hungUp, arrived>>

Handler(r) ==
    \/ Refuse(r) \/ BeginProbe(r)
    \/ TimesOut(r) \/ Canceled(r)
    \/ Register(r) \/ Write(r)

Next ==
    \/ \E d \in Documents : Publish(d)
    \/ \E r \in Requests, target \in BOOLEAN, m \in Names \cup {NoName} :
          Receive(r, target, m)
    \/ \E r \in Requests : HangUp(r) \/ Handler(r) \/ Answered(r)

Spec == Init /\ [][Next]_vars

\* The handler's goroutine runs, a deadline passes and a cancelled request
\* returns; the provider need not do anything.
FairSpec == Spec /\ \A r \in Requests : WF_vars(Handler(r))

-----------------------------------------------------------------------------
(* Properties.                                                             *)

\* Types of the variables.  Whatever is published, a module that Load has
\* accepted is one prober.New builds a client for: the last of the four
\* answers with status 400 is never given.
TypeOK ==
    /\ current \in Loadable
    /\ pc \in [Requests -> States]
    /\ \A r \in Requests :
          /\ pc[r] \in {"probing", "registering", "writing"} => CanProbe(settings[r])
          /\ pc[r] # "new" => cfg[r] \in Loadable
          /\ pc[r] = "done" =>
                \/ answer[r].status = 200
                \/ answer[r].why \in {"missing target", "missing module", "unknown module"}

\* A request is answered from one configuration, the one that was current
\* when it came, however many reloads happen before it ends: the module is
\* looked up there, and every setting of the probe is that module's.
OneConfigPerRequest ==
    \A r \in Requests :
        LET m == query[r].module
        IN  /\ settings[r] # None => m \in DOMAIN arrived[r] /\ settings[r] = ToTarget(arrived[r][m])
            /\ (answer[r] # None /\ query[r].target /\ m # NoName) =>
                  (answer[r].status = 200 <=> m \in DOMAIN arrived[r])

\* "Each scrape gets its own registry": an answer says what this request's
\* probe came to and nothing about another; probe_error_type is "present iff
\* probe failed", with the one type of this failure, and the rate limit is
\* there only if the provider told it.
AnswerIsOwn ==
    \A r \in Requests : pc[r] = "done" /\ answer[r].status = 200 =>
        LET of(name) == {s[2] : s \in {x \in answer[r].series : x[1] = name}}
        IN  /\ of("probe_success") = {IF result[r].success THEN 1 ELSE 0}
            /\ of("probe_error_type") = IF result[r].success THEN {} ELSE {result[r].type}
            /\ of("probe_http_status_code") = {result[r].status}
            /\ of("probe_rate_limit_remaining") = {result[r].remaining} \ {Absent}

\* A request ends although the provider never answers, if its module's timeout
\* is positive once ToTarget has set the default.
StallEnds ==
    \A r \in Requests :
        (pc[r] = "probing" /\ arrived[r][query[r].module].timeout >= 0) ~> pc[r] = "done"

\* A client that goes away frees its handler, whatever the timeout: also a
\* negative one, which Load accepts in a module and http.Client takes for none.
HangUpEnds == \A r \in Requests : hungUp[r] ~> pc[r] = "done"

\* "Response didn't match expect_pattern regex" is an error: a probe of a
\* module with a pattern is a success only if the answer matches it.
PatternHonoured ==
    \A r \in Requests :
        pc[r] = "done" /\ answer[r].status = 200 /\ settings[r].pattern =>
            (<<"probe_success", 1>> \in answer[r].series => result[r].matches)
=============================================================================
