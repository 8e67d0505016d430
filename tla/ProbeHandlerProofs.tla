------------------------- MODULE ProbeHandlerProofs -------------------------
(***************************************************************************)
(* Proofs about /probe, for any set of requests, any documents and any     *)
(* answers of providers.                                                   *)
(***************************************************************************)
EXTENDS ProbeHandler, TLAPS

\* A module that Load accepts is one prober.New builds a client for.
LEMMA AcceptedCanProbe ==
    ASSUME NEW d \in Loadable, NEW m \in DOMAIN d
    PROVE  CanProbe(ToTarget(d[m]))
<1>1. d[m] \in Modules /\ ModuleAccepted(d[m])
    BY HandlerAssumption DEF Loadable
<1>2. ToTarget(d[m]).format = IF d[m].format = "" THEN "openai" ELSE d[m].format
    BY <1>1 DEF ToTarget, Modules
<1> QED BY <1>1, <1>2 DEF ModuleAccepted, CanProbe, ValidAPIFormats

\* A result has an error type exactly if it is a failure.
Typed(res) == res.success <=> res.type = ""

LEMMA CutShortTyped ==
    ASSUME NEW cause \in {"deadline", "canceled"}, NEW res \in CutShort(cause)
    PROVE  Typed(res)
<1>1. Typed(Unanswered(cause))
    BY DEF Typed, Unanswered, Result, NetworkClass
<1>2. \A left : Typed(Result(FALSE, "parse_error", 200, left, FALSE))
    BY DEF Typed, Result
<1>3. \A code, left : Typed(Result(FALSE, StatusClass(code), code, left, FALSE))
    <2>1. \A code : StatusClass(code) # ""
        BY DEF StatusClass
    <2> QED BY <2>1 DEF Typed, Result
<1>4. CASE res = Unanswered(cause)
    BY <1>1, <1>4
<1>5. CASE res # Unanswered(cause)
    <2>1. \/ \E left : res = Result(FALSE, "parse_error", 200, left, FALSE)
          \/ \E code, left : res = Result(FALSE, StatusClass(code), code, left, FALSE)
        BY <1>5, Zenon DEF CutShort
    <2> QED BY <1>2, <1>3, <2>1, Zenon
<1> QED BY <1>4, <1>5

\* What the series of one name say: exactly what the result says.
Of(series, name) == {s[2] : s \in {x \in series : x[1] = name}}

LEMMA OfUnion ==
    ASSUME NEW S, NEW T, NEW name
    PROVE  Of(S \cup T, name) = Of(S, name) \cup Of(T, name)
BY DEF Of

Pairs(n, V) == {<<n, v>> : v \in V}

LEMMA OfPairs ==
    ASSUME NEW n, NEW V, NEW name
    PROVE  Of(Pairs(n, V), name) = IF n = name THEN V ELSE {}
<1> DEFINE P == Pairs(n, V)
<1> USE DEF Pairs
<1>1. ASSUME NEW x \in P PROVE x[1] = n /\ x[2] \in V
    OBVIOUS
<1>2. ASSUME NEW v \in V PROVE <<n, v>> \in P /\ <<n, v>>[1] = n /\ <<n, v>>[2] = v
    OBVIOUS
<1> HIDE DEF P
<1>3. CASE n = name
    <2>1. Of(P, name) \subseteq V
        BY <1>1, <1>3 DEF Of
    <2>2. V \subseteq Of(P, name)
        BY <1>2, <1>3 DEF Of
    <2> QED BY <2>1, <2>2, <1>3 DEF P
<1>4. CASE n # name
    BY <1>1, <1>4 DEF Of
<1> QED BY <1>3, <1>4 DEF P

LEMMA SeriesExact ==
    ASSUME NEW res, Typed(res)
    PROVE  /\ Of(Series(res), "probe_success") = {IF res.success THEN 1 ELSE 0}
           /\ Of(Series(res), "probe_error_type") = IF res.success THEN {} ELSE {res.type}
           /\ Of(Series(res), "probe_http_status_code") = {res.status}
           /\ Of(Series(res), "probe_rate_limit_remaining") = {res.remaining} \ {Absent}
<1> DEFINE budget  == {res.remaining} \ {Absent}
           failure == IF res.success THEN {} ELSE {res.type}
           A == Pairs("probe_success", {IF res.success THEN 1 ELSE 0})
           B == Pairs("probe_http_status_code", {res.status})
           C == Pairs("probe_rate_limit_remaining", budget)
           D == Pairs("probe_error_type", failure)
<1>1. Series(res) = ((A \cup B) \cup C) \cup D
    BY DEF Series, Typed, Pairs
<1>2. ASSUME NEW name
      PROVE  Of(Series(res), name) = ((Of(A, name) \cup Of(B, name)) \cup Of(C, name))
                                       \cup Of(D, name)
    <2> HIDE DEF A, B, C, D
    <2>1. Of(Series(res), name) = Of((A \cup B) \cup C, name) \cup Of(D, name)
        BY <1>1, OfUnion
    <2>2. Of((A \cup B) \cup C, name) = Of(A \cup B, name) \cup Of(C, name)
        BY OfUnion
    <2>3. Of(A \cup B, name) = Of(A, name) \cup Of(B, name)
        BY OfUnion
    <2> QED BY <2>1, <2>2, <2>3
<1>3. ASSUME NEW name
      PROVE  /\ Of(A, name) = IF "probe_success" = name
                              THEN {IF res.success THEN 1 ELSE 0} ELSE {}
             /\ Of(B, name) = IF "probe_http_status_code" = name THEN {res.status} ELSE {}
             /\ Of(C, name) = IF "probe_rate_limit_remaining" = name THEN budget ELSE {}
             /\ Of(D, name) = IF "probe_error_type" = name THEN failure ELSE {}
    <2>1. Of(A, name) = IF "probe_success" = name
                           THEN {IF res.success THEN 1 ELSE 0} ELSE {}
        BY OfPairs
    <2>2. Of(B, name) = IF "probe_http_status_code" = name THEN {res.status} ELSE {}
        BY OfPairs
    <2>3. Of(C, name) = IF "probe_rate_limit_remaining" = name THEN budget ELSE {}
        <3> HIDE DEF budget
        <3> QED BY OfPairs
    <2>4. Of(D, name) = IF "probe_error_type" = name THEN failure ELSE {}
        <3> HIDE DEF failure
        <3> QED BY OfPairs
    <2> QED BY <2>1, <2>2, <2>3, <2>4
<1> HIDE DEF A, B, C, D
<1> QED BY <1>2, <1>3

-----------------------------------------------------------------------------
(* The inductive invariant: what each local variable of a handler holds,   *)
(* place by place.                                                         *)

\* Every request has its variables, and a place.
Shape ==
    /\ current \in Loadable
    /\ pc \in [Requests -> States]
    /\ query    = [r \in Requests |-> query[r]]
    /\ cfg      = [r \in Requests |-> cfg[r]]
    /\ settings = [r \in Requests |-> settings[r]]
    /\ result   = [r \in Requests |-> result[r]]
    /\ registry = [r \in Requests |-> registry[r]]
    /\ answer   = [r \in Requests |-> answer[r]]
    /\ arrived  = [r \in Requests |-> arrived[r]]

\* The configuration of the request has the module it names, and the probe the
\* settings of that module.
Configured(r) ==
    LET m == query[r].module
    IN  /\ query[r].target /\ m # NoName
        /\ m \in DOMAIN arrived[r]
        /\ settings[r] = ToTarget(arrived[r][m])

\* Status 400: the request named no module of its configuration.
Refused(r) ==
    /\ answer[r].status = 400
    /\ answer[r].why \in {"missing target", "missing module", "unknown module"}
    /\ settings[r] = None
    /\ query[r].target /\ query[r].module # NoName =>
           query[r].module \notin DOMAIN arrived[r]

\* Status 200: the series are those of the request's own result.
Answered200(r) ==
    /\ Configured(r)
    /\ Typed(result[r])
    /\ answer[r].status = 200 /\ answer[r].series = Series(result[r])

Local(r) ==
    /\ pc[r] # "new" => cfg[r] = arrived[r] /\ arrived[r] \in Loadable
    /\ pc[r] \in {"new", "checking"} => settings[r] = None
    /\ pc[r] # "done" => answer[r] = None
    /\ pc[r] \in {"probing", "registering", "writing"} => Configured(r)
    /\ pc[r] \in {"registering", "writing"} => Typed(result[r])
    /\ pc[r] = "writing" => registry[r] = Series(result[r])
    /\ pc[r] = "done" => Refused(r) \/ Answered200(r)

Handlers == Shape /\ \A r \in Requests : Local(r)

LEMMA HandlersInit == Init => Handlers
BY DEF Init, Handlers, Shape, Local, States

\* Nobody else touches a handler's variables.
LEMMA Undisturbed ==
    ASSUME NEW r \in Requests, Local(r),
           UNCHANGED <<pc[r], query[r], cfg[r], settings[r], result[r], registry[r],
                       answer[r], arrived[r]>>
    PROVE  Local(r)'
<1>1. Configured(r)' <=> Configured(r)
    BY DEF Configured
<1>2. Refused(r)' <=> Refused(r)
    BY DEF Refused
<1>3. Answered200(r)' <=> Answered200(r)
    BY <1>1 DEF Answered200
<1> QED BY <1>1, <1>2, <1>3 DEF Local

\* What a step of request r does to the variables of the others: nothing.
LEMMA Others ==
    ASSUME Handlers, NEW r \in Requests,
           \/ \E target \in BOOLEAN, m \in Names \cup {NoName} : Receive(r, target, m)
           \/ HangUp(r) \/ Handler(r) \/ Answered(r)
    PROVE  /\ Shape'
           /\ \A q \in Requests \ {r} :
                 UNCHANGED <<pc[q], query[q], cfg[q], settings[q], result[q], registry[q],
                             answer[q], arrived[q]>>
<1> USE DEF Handlers, Shape, Goto, States
<1>1. ASSUME NEW target \in BOOLEAN, NEW m \in Names \cup {NoName}, Receive(r, target, m)
      PROVE  /\ Shape'
             /\ \A q \in Requests \ {r} :
                   UNCHANGED <<pc[q], query[q], cfg[q], settings[q], result[q], registry[q],
                               answer[q], arrived[q]>>
    BY <1>1 DEF Receive
<1>2. ASSUME NEW res, ProbeReturns(r, res)
      PROVE  /\ Shape'
             /\ \A q \in Requests \ {r} :
                   UNCHANGED <<pc[q], query[q], cfg[q], settings[q], result[q], registry[q],
                               answer[q], arrived[q]>>
    BY <1>2 DEF ProbeReturns
<1>3. CASE HangUp(r) BY <1>3 DEF HangUp
<1>4. CASE Refuse(r) BY <1>4 DEF Refuse
<1>5. CASE BeginProbe(r) BY <1>5 DEF BeginProbe
<1>6. CASE Register(r) BY <1>6 DEF Register
<1>7. CASE Write(r) BY <1>7 DEF Write
<1> QED BY <1>1, <1>2, <1>3, <1>4, <1>5, <1>6, <1>7
        DEF Handler, TimesOut, Canceled, Answered

-----------------------------------------------------------------------------
(* One lemma per step of a handler: what it leaves of its own variables.   *)

LEMMA ReceiveLocal ==
    ASSUME Handlers, NEW r \in Requests, NEW target \in BOOLEAN, NEW m, Receive(r, target, m)
    PROVE  Local(r)'
<1>1. /\ pc[r] = "new" /\ pc'[r] = "checking"
      /\ cfg'[r] = current /\ arrived'[r] = current
      /\ settings'[r] = settings[r] /\ answer'[r] = answer[r]
    BY DEF Handlers, Shape, Receive, Goto
<1> QED BY <1>1 DEF Handlers, Shape, Local

\* The document the handler has found its module in, or not.
LEMMA RefusalSays ==
    ASSUME Handlers, NEW r \in Requests, pc[r] = "checking"
    PROVE  /\ Refusal(r) = "" =>
                  /\ query[r].target /\ query[r].module # NoName
                  /\ query[r].module \in DOMAIN arrived[r]
           /\ Refusal(r) # "" =>
                  /\ Refusal(r) \in {"missing target", "missing module", "unknown module"}
                  /\ query[r].target /\ query[r].module # NoName =>
                         query[r].module \notin DOMAIN arrived[r]
<1>1. cfg[r] = arrived[r] /\ arrived[r] \in Loadable
    BY DEF Handlers, Local
<1>2. CASE query[r].target /\ query[r].module # NoName /\ query[r].module \in DOMAIN arrived[r]
    <2>1. CanProbe(SettingsOf(r))
        BY <1>1, <1>2, AcceptedCanProbe DEF SettingsOf
    <2>2. Refusal(r) = ""
        BY <1>1, <1>2, <2>1 DEF Refusal
    <2> QED BY <1>2, <2>2
<1>3. CASE query[r].target /\ query[r].module # NoName /\ query[r].module \notin DOMAIN arrived[r]
    BY <1>1, <1>3 DEF Refusal
<1>4. CASE query[r].target /\ query[r].module = NoName
    BY <1>4 DEF Refusal
<1>5. CASE ~query[r].target
    BY <1>5 DEF Refusal
<1> QED BY <1>2, <1>3, <1>4, <1>5

LEMMA RefuseLocal ==
    ASSUME Handlers, NEW r \in Requests, Refuse(r)
    PROVE  Local(r)'
<1>1. /\ pc[r] = "checking" /\ pc'[r] = "done"
      /\ Refusal(r) # "" /\ answer'[r] = [status |-> 400, why |-> Refusal(r)]
      /\ UNCHANGED <<query[r], cfg[r], settings[r], arrived[r]>>
    BY DEF Handlers, Shape, Refuse, Goto
<1>2. settings[r] = None /\ cfg[r] = arrived[r] /\ arrived[r] \in Loadable
    BY <1>1 DEF Handlers, Local
<1>3. /\ Refusal(r) \in {"missing target", "missing module", "unknown module"}
      /\ query[r].target /\ query[r].module # NoName =>
             query[r].module \notin DOMAIN arrived[r]
    BY <1>1, RefusalSays
<1>4. answer'[r].status = 400 /\ answer'[r].why = Refusal(r)
    <2>1. answer'[r] = [status |-> 400, why |-> Refusal(r)]
        BY <1>1
    <2> HIDE DEF Refusal
    <2>2. answer'[r].status = 400
        BY <2>1
    <2>3. answer'[r].why = Refusal(r)
        BY <2>1
    <2> QED BY <2>2, <2>3
<1>5. Refused(r)'
    <2>1. settings'[r] = None
        BY <1>2 DEF Refuse
    <2>2. query'[r].target /\ query'[r].module # NoName =>
              query'[r].module \notin DOMAIN arrived'[r]
        BY <1>1, <1>3
    <2>3. answer'[r].why \in {"missing target", "missing module", "unknown module"}
        BY <1>3, <1>4
    <2> QED BY <1>4, <2>1, <2>2, <2>3 DEF Refused
<1> QED BY <1>1, <1>2, <1>5 DEF Local

LEMMA BeginProbeLocal ==
    ASSUME Handlers, NEW r \in Requests, BeginProbe(r)
    PROVE  Local(r)'
<1>1. /\ pc[r] = "checking" /\ pc'[r] = "probing"
      /\ Refusal(r) = "" /\ settings'[r] = SettingsOf(r)
      /\ UNCHANGED <<query[r], cfg[r], arrived[r], answer[r]>>
    BY DEF Handlers, Shape, BeginProbe, Goto
<1>2. answer[r] = None /\ cfg[r] = arrived[r] /\ arrived[r] \in Loadable
    BY <1>1 DEF Handlers, Local
<1>3. Configured(r)'
    BY <1>1, <1>2, RefusalSays DEF Configured, SettingsOf
<1> QED BY <1>1, <1>2, <1>3 DEF Local

LEMMA ProbeReturnsLocal ==
    ASSUME Handlers, NEW r \in Requests, NEW res, Typed(res), ProbeReturns(r, res)
    PROVE  Local(r)'
<1>1. /\ pc[r] = "probing" /\ pc'[r] = "registering"
      /\ result'[r] = res
      /\ UNCHANGED <<query[r], cfg[r], settings[r], arrived[r], answer[r]>>
    BY DEF Handlers, Shape, ProbeReturns, Goto
<1>2. /\ Configured(r) /\ answer[r] = None
      /\ cfg[r] = arrived[r] /\ arrived[r] \in Loadable
    BY <1>1 DEF Handlers, Local
<1>3. Configured(r)'
    BY <1>1, <1>2 DEF Configured
<1> QED BY <1>1, <1>2, <1>3 DEF Local, Typed

LEMMA RegisterLocal ==
    ASSUME Handlers, NEW r \in Requests, Register(r)
    PROVE  Local(r)'
<1>1. /\ pc[r] = "registering" /\ pc'[r] = "writing"
      /\ registry'[r] = Series(result[r])
      /\ UNCHANGED <<query[r], cfg[r], settings[r], arrived[r], answer[r], result[r]>>
    BY DEF Handlers, Shape, Register, Goto
<1>2. /\ Configured(r) /\ answer[r] = None /\ Typed(result[r])
      /\ cfg[r] = arrived[r] /\ arrived[r] \in Loadable
    BY <1>1 DEF Handlers, Local
<1>3. Configured(r)'
    BY <1>1, <1>2 DEF Configured
<1> QED BY <1>1, <1>2, <1>3 DEF Local, Typed, Series

LEMMA WriteLocal ==
    ASSUME Handlers, NEW r \in Requests, Write(r)
    PROVE  Local(r)'
<1>1. /\ pc[r] = "writing" /\ pc'[r] = "done"
      /\ answer'[r] = [status |-> 200, series |-> registry[r]]
      /\ UNCHANGED <<query[r], cfg[r], settings[r], arrived[r], result[r]>>
    BY DEF Handlers, Shape, Write, Goto
<1>2. /\ Configured(r) /\ Typed(result[r]) /\ registry[r] = Series(result[r])
      /\ cfg[r] = arrived[r] /\ arrived[r] \in Loadable
    BY <1>1 DEF Handlers, Local
<1>3. Answered200(r)'
    BY <1>1, <1>2 DEF Configured, Answered200
<1> QED BY <1>1, <1>2, <1>3 DEF Local

LEMMA HandlersNext == Handlers /\ [Next]_vars => Handlers'
<1> SUFFICES ASSUME Handlers, [Next]_vars PROVE Handlers'
    OBVIOUS
<1>1. ASSUME NEW r \in Requests, Shape', Local(r)',
             \A q \in Requests \ {r} :
                 UNCHANGED <<pc[q], query[q], cfg[q], settings[q], result[q], registry[q],
                             answer[q], arrived[q]>>
      PROVE  Handlers'
    BY <1>1, Undisturbed DEF Handlers
<1>2. ASSUME NEW r \in Requests, NEW res, Typed(res), ProbeReturns(r, res)
      PROVE  Local(r)'
    BY <1>2, ProbeReturnsLocal
<1>3. ASSUME NEW r \in Requests, HangUp(r) PROVE Local(r)'
    <2>1. UNCHANGED <<pc[r], query[r], cfg[r], settings[r], result[r], registry[r],
                      answer[r], arrived[r]>>
        BY <1>3 DEF HangUp
    <2> QED BY <2>1, Undisturbed DEF Handlers
<1>4. ASSUME NEW r \in Requests, HangUp(r) \/ Handler(r) \/ Answered(r)
      PROVE  Handlers'
    <2>1. CASE HangUp(r)
        BY <2>1, <1>3, <1>1, Others
    <2>2. CASE Refuse(r) \/ BeginProbe(r) \/ Register(r) \/ Write(r)
        <3>1. Handler(r)
            BY <2>2 DEF Handler
        <3>2. Local(r)'
            BY <2>2, RefuseLocal, BeginProbeLocal, RegisterLocal, WriteLocal
        <3> QED BY <3>1, <3>2, <1>1, Others
    <2>3. CASE TimesOut(r) \/ Canceled(r)
        <3>1. Handler(r)
            BY <2>3 DEF Handler
        <3>2. Local(r)'
            BY <2>3, <1>2, CutShortTyped DEF TimesOut, Canceled
        <3> QED BY <3>1, <3>2, <1>1, Others
    <2>4. CASE Answered(r)
        <3>1. Local(r)'
            BY <2>4, <1>2, HandlerAssumption DEF Answered, Typed
        <3> QED BY <2>4, <3>1, <1>1, Others
    <2> QED BY <1>4, <2>1, <2>2, <2>3, <2>4 DEF Handler
<1>5. ASSUME NEW r \in Requests, NEW target \in BOOLEAN, NEW m \in Names \cup {NoName},
             Receive(r, target, m)
      PROVE  Handlers'
    BY <1>5, <1>1, Others, ReceiveLocal
<1>6. ASSUME NEW d \in Documents, Publish(d) PROVE Handlers'
    <2>1. UNCHANGED <<pc, query, cfg, settings, result, registry, answer, arrived>>
          /\ current' \in Loadable
        BY <1>6 DEF Publish, reqVars
    <2> QED BY <2>1, Undisturbed DEF Handlers, Shape
<1>7. CASE UNCHANGED vars
    <2>1. UNCHANGED <<current, pc, query, cfg, settings, result, registry, answer, arrived>>
        BY <1>7 DEF vars, reqVars
    <2> QED BY <2>1, Undisturbed DEF Handlers, Shape
<1> QED BY <1>4, <1>5, <1>6, <1>7 DEF Next

LEMMA HandlersAlways == Spec => []Handlers
BY HandlersInit, HandlersNext, PTL DEF Spec

-----------------------------------------------------------------------------
LEMMA TypesFromHandlers == Handlers => TypeOK
<1> SUFFICES ASSUME Handlers, NEW r \in Requests
             PROVE  /\ pc[r] \in {"probing", "registering", "writing"} => CanProbe(settings[r])
                    /\ pc[r] # "new" => cfg[r] \in Loadable
                    /\ pc[r] = "done" =>
                          \/ answer[r].status = 200
                          \/ answer[r].why \in {"missing target", "missing module",
                                               "unknown module"}
    BY DEF Handlers, Shape, TypeOK
<1>1. Local(r)
    BY DEF Handlers
<1>2. pc[r] \in {"probing", "registering", "writing"} => CanProbe(settings[r])
    BY <1>1, AcceptedCanProbe DEF Local, Configured
<1> QED BY <1>1, <1>2 DEF Local, Refused, Answered200

\* Types.  For every file Load accepts: the client of a module can be built, so
\* prober.New's error in probe_handler.go is never the answer.
THEOREM TypeCorrect == Spec => []TypeOK
BY HandlersAlways, TypesFromHandlers, PTL

\* probe_handler.go calls cfgGetter once: whatever is published meanwhile, the
\* module a request names is looked up in the configuration that was current
\* when it came, and all settings of its probe are that module's.
THEOREM OneConfiguration == Spec => []OneConfigPerRequest
<1>1. Handlers => OneConfigPerRequest
    <2> SUFFICES ASSUME Handlers, NEW r \in Requests
                 PROVE  LET m == query[r].module
                        IN  /\ settings[r] # None => m \in DOMAIN arrived[r]
                                                     /\ settings[r] = ToTarget(arrived[r][m])
                            /\ (answer[r] # None /\ query[r].target /\ m # NoName) =>
                                  (answer[r].status = 200 <=> m \in DOMAIN arrived[r])
        BY DEF OneConfigPerRequest
    <2>1. Local(r) /\ pc[r] \in States
        BY DEF Handlers, Shape
    <2>2. CASE pc[r] \in {"new", "checking"}
        BY <2>1, <2>2 DEF Local
    <2>3. CASE pc[r] \in {"probing", "registering", "writing"}
        BY <2>1, <2>3 DEF Local, Configured
    <2>4. CASE pc[r] = "done" /\ Refused(r)
        <3>1. settings[r] = None /\ answer[r].status = 400
            BY <2>4 DEF Refused
        <3>3. answer[r].status # 200
            BY <3>1
        <3>2. query[r].target /\ query[r].module # NoName =>
                  query[r].module \notin DOMAIN arrived[r]
            BY <2>4 DEF Refused
        <3> QED BY <3>1, <3>2, <3>3, Zenon
    <2>5. CASE pc[r] = "done" /\ Answered200(r)
        BY <2>5 DEF Answered200, Configured
    <2> QED BY <2>1, <2>2, <2>3, <2>4, <2>5 DEF Local, States
<1> QED BY <1>1, HandlersAlways, PTL

\* registerProbeResult, with a registry per request: an answer has the series of
\* this request's result and of no other, and an error type exactly if it failed.
THEOREM OwnAnswer == Spec => []AnswerIsOwn
<1>1. Handlers => AnswerIsOwn
    <2> SUFFICES ASSUME Handlers, NEW r \in Requests, pc[r] = "done", answer[r].status = 200
                 PROVE  /\ Of(answer[r].series, "probe_success")
                              = {IF result[r].success THEN 1 ELSE 0}
                        /\ Of(answer[r].series, "probe_error_type")
                              = IF result[r].success THEN {} ELSE {result[r].type}
                        /\ Of(answer[r].series, "probe_http_status_code") = {result[r].status}
                        /\ Of(answer[r].series, "probe_rate_limit_remaining")
                              = {result[r].remaining} \ {Absent}
        BY DEF AnswerIsOwn, Of
    <2>1. ~Refused(r)
        BY DEF Refused
    <2>2. Typed(result[r]) /\ answer[r].series = Series(result[r])
        BY <2>1 DEF Handlers, Local, Answered200
    <2> DEFINE res == result[r]
    <2>3. Typed(res)
        BY <2>2
    <2>4. answer[r].series = Series(res)
        BY <2>2
    <2> HIDE DEF res
    <2>5. /\ Of(Series(res), "probe_success") = {IF res.success THEN 1 ELSE 0}
          /\ Of(Series(res), "probe_error_type") = IF res.success THEN {} ELSE {res.type}
          /\ Of(Series(res), "probe_http_status_code") = {res.status}
          /\ Of(Series(res), "probe_rate_limit_remaining") = {res.remaining} \ {Absent}
        BY <2>3, SeriesExact
    <2> QED BY <2>4, <2>5 DEF res
<1> QED BY <1>1, HandlersAlways, PTL
=============================================================================
