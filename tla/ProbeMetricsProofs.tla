------------------------- MODULE ProbeMetricsProofs -------------------------
(***************************************************************************)
(* Proofs about the series of a target, for any probes and any number of   *)
(* them and of resets.  The registry is what the writes of all probes      *)
(* since the last reset come to, less those still pending.                 *)
(***************************************************************************)
EXTENDS ProbeMetrics, TLAPS, FiniteSetTheorems, SequenceTheorems

-----------------------------------------------------------------------------
(* Sequences of writes.                                                    *)

Entries(a) == {a[i] : i \in DOMAIN a}

\* No series is written twice.
OnePer(a) == \A i, j \in DOMAIN a : a[i].series = a[j].series => i = j

\* A sequence of writes of E, one per series, to series of N.
Batch(a, E, N) ==
    a \in Seq(E) /\ OnePer(a) /\ \A w \in Entries(a) : w.series \in N

Disjoint(N, M) == N \cap M = {}
Both(N, M)     == N \cup M

LEMMA JoinPlaces ==
    ASSUME NEW E, NEW a \in Seq(E), NEW b \in Seq(E)
    PROVE  /\ a \o b \in Seq(E)
           /\ \A i \in DOMAIN a : i \in DOMAIN (a \o b) /\ (a \o b)[i] = a[i]
           /\ \A i \in DOMAIN b : Len(a) + i \in DOMAIN (a \o b) /\ (a \o b)[Len(a) + i] = b[i]
           /\ \A i \in DOMAIN (a \o b) :
                 \/ i \in DOMAIN a /\ (a \o b)[i] = a[i]
                 \/ i - Len(a) \in DOMAIN b /\ (a \o b)[i] = b[i - Len(a)] /\ i > Len(a)
<1>1. /\ Len(a) \in Nat /\ Len(b) \in Nat
      /\ DOMAIN a = 1 .. Len(a) /\ DOMAIN b = 1 .. Len(b)
    OBVIOUS
<1>2. /\ a \o b \in Seq(E) /\ DOMAIN (a \o b) = 1 .. Len(a) + Len(b)
      /\ \A i \in DOMAIN a : i \in DOMAIN (a \o b) /\ (a \o b)[i] = a[i]
      /\ \A i \in DOMAIN b : Len(a) + i \in DOMAIN (a \o b) /\ (a \o b)[Len(a) + i] = b[i]
    BY <1>1
<1>3. \A i \in DOMAIN (a \o b) :
         \/ i \in DOMAIN a /\ (a \o b)[i] = a[i]
         \/ i - Len(a) \in DOMAIN b /\ (a \o b)[i] = b[i - Len(a)] /\ i > Len(a)
    BY <1>1, <1>2
<1> QED BY <1>2, <1>3

LEMMA JoinEntries ==
    ASSUME NEW E, NEW a, NEW b, NEW N, NEW M, Batch(a, E, N), Batch(b, E, M)
    PROVE  Entries(a \o b) = Entries(a) \cup Entries(b)
<1>0. a \in Seq(E) /\ b \in Seq(E)
    BY DEF Batch
<1>1. ASSUME NEW w \in Entries(a \o b) PROVE w \in Entries(a) \cup Entries(b)
    BY <1>0, JoinPlaces DEF Entries
<1>2. ASSUME NEW w \in Entries(a) PROVE w \in Entries(a \o b)
    BY <1>0, JoinPlaces DEF Entries
<1>3. ASSUME NEW w \in Entries(b) PROVE w \in Entries(a \o b)
    <2>1. PICK i \in DOMAIN b : w = b[i]
        BY DEF Entries
    <2>2. Len(a) + i \in DOMAIN (a \o b) /\ (a \o b)[Len(a) + i] = w
        BY <1>0, JoinPlaces, <2>1
    <2> QED BY <2>2 DEF Entries
<1> QED BY <1>1, <1>2, <1>3

LEMMA Join ==
    ASSUME NEW E, NEW a, NEW b, NEW N, NEW M, Batch(a, E, N), Batch(b, E, M), Disjoint(N, M)
    PROVE  Batch(a \o b, E, Both(N, M))
<1>1. a \in Seq(E) /\ b \in Seq(E) /\ Len(a) \in Nat
    BY DEF Batch
<1>2. /\ a \o b \in Seq(E) /\ DOMAIN (a \o b) \subseteq Int
      /\ \A i \in DOMAIN (a \o b) :
            \/ i \in DOMAIN a /\ (a \o b)[i] = a[i]
            \/ i - Len(a) \in DOMAIN b /\ (a \o b)[i] = b[i - Len(a)] /\ i > Len(a)
    <2>1. a \o b \in Seq(E) /\ DOMAIN (a \o b) \subseteq Int
        BY <1>1
    <2> QED BY <1>1, <2>1, JoinPlaces
<1>3. Entries(a \o b) = Entries(a) \cup Entries(b)
    BY JoinEntries
<1>4. OnePer(a \o b)
    <2> SUFFICES ASSUME NEW i \in DOMAIN (a \o b), NEW j \in DOMAIN (a \o b),
                        (a \o b)[i].series = (a \o b)[j].series
                 PROVE  i = j
        BY DEF OnePer
    <2>1. \A k \in DOMAIN a, l \in DOMAIN b : a[k].series # b[l].series
        BY DEF Batch, Entries, Disjoint
    <2>2. CASE i \in DOMAIN a /\ j \in DOMAIN a
        <3>1. DOMAIN a = 1 .. Len(a)
            BY <1>1
        <3>2. ~(i > Len(a)) /\ ~(j > Len(a))
            BY <1>1, <2>2, <3>1
        <3> QED BY <1>2, <2>2, <3>2 DEF Batch, OnePer
    <2>3. CASE i \notin DOMAIN a /\ j \notin DOMAIN a
        <3>1. i - Len(a) = j - Len(a)
            BY <1>2, <2>3 DEF Batch, OnePer
        <3> QED BY <1>1, <1>2, <3>1
    <2>4. CASE i \in DOMAIN a /\ j \notin DOMAIN a
        BY <1>2, <2>1, <2>4
    <2>5. CASE i \notin DOMAIN a /\ j \in DOMAIN a
        BY <1>2, <2>1, <2>5
    <2> QED BY <2>2, <2>3, <2>4, <2>5
<1> QED BY <1>2, <1>3, <1>4 DEF Batch, Both

LEMMA WhenBatch ==
    ASSUME NEW E, NEW w \in E, NEW c
    PROVE  /\ Batch(When(c, <<w>>), E, {w.series})
           /\ Entries(When(c, <<w>>)) = IF c THEN {w} ELSE {}
<1>1. CASE c
    <2>1. When(c, <<w>>) = <<w>> /\ DOMAIN <<w>> = {1} /\ <<w>>[1] = w /\ <<w>> \in Seq(E)
        BY <1>1 DEF When
    <2>2. Entries(When(c, <<w>>)) = {w}
        BY <2>1 DEF Entries
    <2>3. OnePer(When(c, <<w>>))
        BY <2>1 DEF OnePer
    <2> QED BY <1>1, <2>1, <2>2, <2>3 DEF Batch
<1>2. CASE ~c
    <2>1. When(c, <<w>>) = << >> /\ DOMAIN << >> = {} /\ << >> \in Seq(E)
        BY <1>2 DEF When
    <2> QED BY <1>2, <2>1 DEF Batch, OnePer, Entries
<1> QED BY <1>1, <1>2

LEMMA FourBatch ==
    ASSUME NEW E, NEW a \in E, NEW b \in E, NEW c \in E, NEW d \in E,
           a.series # b.series, a.series # c.series, a.series # d.series,
           b.series # c.series, b.series # d.series, c.series # d.series
    PROVE  /\ <<a, b, c, d>> \in Seq(E) /\ OnePer(<<a, b, c, d>>)
           /\ Entries(<<a, b, c, d>>) = {a, b, c, d}
<1> DEFINE l == <<a, b, c, d>>
<1>1. /\ l \in Seq(E) /\ DOMAIN l = 1 .. 4
      /\ l[1] = a /\ l[2] = b /\ l[3] = c /\ l[4] = d
    OBVIOUS
<1> HIDE DEF l
<1>2. \A i \in DOMAIN l : i = 1 \/ i = 2 \/ i = 3 \/ i = 4
    BY <1>1
<1>3. 1 \in DOMAIN l /\ 2 \in DOMAIN l /\ 3 \in DOMAIN l /\ 4 \in DOMAIN l
    BY <1>1
<1>4. Entries(l) = {a, b, c, d}
    BY <1>1, <1>2, <1>3 DEF Entries
<1>5. OnePer(l)
    BY <1>1, <1>2 DEF OnePer
<1> QED BY <1>1, <1>4, <1>5 DEF l

-----------------------------------------------------------------------------
(* The writes of one probe.                                                *)

Tokens(p) == {Set(<<t>>, p.tokens[t]) : t \in TokenCounts}

Left(p, kind) == ParseRateLimitHeaders(p.headers)[kind]
Cert(p)       == EarliestPeerCertNotAfter(p.certs)

SideSeries == {Remaining("requests"), Remaining("tokens"), <<"ssl_cert_expiry">>}

\* Everything a probe might write.
Everything(p, k) ==
    {Set(<<"success">>, IF p.success THEN 1 ELSE 0), Set(<<"last_success">>, k),
     Inc(<<"duration">>), Inc(<<"ttft">>), Inc(<<"connect_duration">>), Inc(Errors(p)),
     Set(<<"token_rate">>, TokenRate(p)),
     Set(Remaining("requests"), Left(p, "requests")),
     Set(Remaining("tokens"), Left(p, "tokens")),
     Set(<<"ssl_cert_expiry">>, Cert(p))} \cup Tokens(p)

\* What it does write.
If(condition, w) == IF condition THEN {w} ELSE {}

SideEntries(p) ==
    If(Left(p, "requests") >= 0, Set(Remaining("requests"), Left(p, "requests")))
      \cup If(Left(p, "tokens") >= 0, Set(Remaining("tokens"), Left(p, "tokens")))
      \cup If(Cert(p) # 0, Set(<<"ssl_cert_expiry">>, Cert(p)))

SuccessEntries(p, k) ==
    {Set(<<"success">>, 1), Set(<<"last_success">>, k), Inc(<<"duration">>), Inc(<<"ttft">>)}
      \cup If(p.connect > 0, Inc(<<"connect_duration">>))
      \cup Tokens(p)
      \cup If(RateIsValid(p), Set(<<"token_rate">>, TokenRate(p)))
      \cup SideEntries(p)

FailureEntries(p) ==
    {Set(<<"success">>, 0)}
      \cup If(p.duration > 0, Inc(<<"duration">>))
      \cup If(p.connect > 0, Inc(<<"connect_duration">>))
      \cup If(p.errType # "", Inc(Errors(p)))
      \cup SideEntries(p)

LEMMA SeriesOf ==
    ASSUME NEW s, NEW v
    PROVE  Set(s, v).series = s /\ Inc(s).series = s
BY DEF Set, Inc

LEMMA TokensBatch ==
    ASSUME NEW p, NEW E, Tokens(p) \subseteq E
    PROVE  /\ Batch(SetTokens(p), E, {<<t>> : t \in TokenCounts})
           /\ Entries(SetTokens(p)) = Tokens(p)
<1> DEFINE order == <<"input_tokens", "output_tokens", "total_tokens",
                      "reasoning_tokens", "cached_input_tokens", "cache_creation_tokens">>
           l == SetTokens(p)
<1>1. /\ DOMAIN l = 1 .. 6
      /\ \A i \in 1 .. 6 : l[i] = Set(<<order[i]>>, p.tokens[order[i]])
    BY DEF SetTokens
<1>2. /\ order[1] = "input_tokens" /\ order[2] = "output_tokens" /\ order[3] = "total_tokens"
      /\ order[4] = "reasoning_tokens" /\ order[5] = "cached_input_tokens"
      /\ order[6] = "cache_creation_tokens"
    OBVIOUS
<1> HIDE DEF order, l
<1>3. \A i \in 1 .. 6 : i = 1 \/ i = 2 \/ i = 3 \/ i = 4 \/ i = 5 \/ i = 6
    OBVIOUS
<1>4. \A i \in 1 .. 6 : order[i] \in TokenCounts
    BY <1>2, <1>3 DEF TokenCounts
<1>5. \A t \in TokenCounts : \E i \in 1 .. 6 : order[i] = t
    BY <1>2 DEF TokenCounts
<1>6. \A i, j \in 1 .. 6 : order[i] = order[j] => i = j
    BY <1>2, <1>3
<1>7. Entries(l) = Tokens(p)
    <2>1. ASSUME NEW w \in Entries(l) PROVE w \in Tokens(p)
        BY <1>1, <1>4 DEF Entries, Tokens
    <2>2. ASSUME NEW w \in Tokens(p) PROVE w \in Entries(l)
        <3>1. PICK t \in TokenCounts : w = Set(<<t>>, p.tokens[t])
            BY DEF Tokens
        <3>2. PICK i \in 1 .. 6 : order[i] = t
            BY <1>5
        <3> QED BY <1>1, <3>1, <3>2 DEF Entries
    <2> QED BY <2>1, <2>2
<1>8. OnePer(l)
    <2> SUFFICES ASSUME NEW i \in 1 .. 6, NEW j \in 1 .. 6, l[i].series = l[j].series
                 PROVE  i = j
        BY <1>1 DEF OnePer
    <2>1. <<order[i]>> = <<order[j]>>
        BY <1>1, SeriesOf
    <2>2. order[i] = order[j]
        BY <2>1
    <2> QED BY <1>6, <2>2
<1>9. l \in Seq(E)
    <2>1. \A i \in 1 .. 6 : l[i] \in E
        BY <1>1, <1>7 DEF Entries
    <2>2. l = [i \in 1 .. 6 |-> l[i]]
        BY DEF l, SetTokens
    <2> QED BY <2>1, <2>2
<1>10. \A w \in Entries(l) : w.series \in {<<t>> : t \in TokenCounts}
    <2> SUFFICES ASSUME NEW w \in Entries(l) PROVE w.series \in {<<t>> : t \in TokenCounts}
        OBVIOUS
    <2>1. PICK t \in TokenCounts : w = Set(<<t>>, p.tokens[t])
        BY <1>7 DEF Tokens
    <2> QED BY <2>1, SeriesOf
<1> QED BY <1>7, <1>8, <1>9, <1>10 DEF Batch, l

\* Names of series that differ.
LEMMA Names ==
    /\ \A v, u : <<v>> = <<u>> <=> v = u
    /\ \A v, e, c : <<v>> # <<"errors", e, c>>
    /\ \A v, kind : <<v>> # Remaining(kind)
    /\ Remaining("requests") # Remaining("tokens")
    /\ \A e, c, kind : <<"errors", e, c>> # Remaining(kind)
<1>1. \A v, u : <<v>> = <<u>> <=> v = u
    OBVIOUS
<1>2. \A v, e, c : Len(<<v>>) = 1 /\ Len(<<"errors", e, c>>) = 3
    OBVIOUS
<1>3. \A v, kind : Len(<<v>>) = 1 /\ Len(Remaining(kind)) = 2
    BY DEF Remaining
<1>4. Remaining("requests")[2] # Remaining("tokens")[2]
    BY DEF Remaining
<1>5. \A e, c, kind : Len(<<"errors", e, c>>) = 3 /\ Len(Remaining(kind)) = 2
    BY DEF Remaining
<1>6. \A v, e, c : <<v>> # <<"errors", e, c>>
    BY <1>2
<1>7. \A v, kind : <<v>> # Remaining(kind)
    BY <1>3
<1>8. \A e, c, kind : <<"errors", e, c>> # Remaining(kind)
    BY <1>5
<1> QED BY <1>1, <1>4, <1>6, <1>7, <1>8

LEMMA SideBatch ==
    ASSUME NEW p, NEW E, SideEntries(p) \subseteq E,
           Set(Remaining("requests"), Left(p, "requests")) \in E,
           Set(Remaining("tokens"), Left(p, "tokens")) \in E,
           Set(<<"ssl_cert_expiry">>, Cert(p)) \in E
    PROVE  Batch(EmitSideChannel(p), E, SideSeries) /\ Entries(EmitSideChannel(p)) = SideEntries(p)
<1> DEFINE r == Set(Remaining("requests"), Left(p, "requests"))
           t == Set(Remaining("tokens"), Left(p, "tokens"))
           c == Set(<<"ssl_cert_expiry">>, Cert(p))
           a == When(Left(p, "requests") >= 0, <<r>>)
           b == When(Left(p, "tokens") >= 0, <<t>>)
           d == When(Cert(p) # 0, <<c>>)
<1>1. /\ r.series = Remaining("requests") /\ t.series = Remaining("tokens")
      /\ c.series = <<"ssl_cert_expiry">>
    BY SeriesOf
<1>2. EmitSideChannel(p) = (a \o b) \o d
    BY DEF EmitSideChannel, Left, Cert
<1>3. SideEntries(p) = (If(Left(p, "requests") >= 0, r) \cup If(Left(p, "tokens") >= 0, t))
                         \cup If(Cert(p) # 0, c)
    BY DEF SideEntries
<1> HIDE DEF r, t, c
<1>4. /\ Batch(a, E, {r.series}) /\ Entries(a) = If(Left(p, "requests") >= 0, r)
      /\ Batch(b, E, {t.series}) /\ Entries(b) = If(Left(p, "tokens") >= 0, t)
      /\ Batch(d, E, {c.series}) /\ Entries(d) = If(Cert(p) # 0, c)
    BY WhenBatch DEF If, r, t, c
<1> HIDE DEF a, b, d
<1>5. Batch(a \o b, E, Both({r.series}, {t.series}))
    <2>1. Disjoint({r.series}, {t.series})
        BY <1>1, Names DEF Disjoint
    <2>2. Batch(a, E, {r.series}) /\ Batch(b, E, {t.series})
        BY <1>4
    <2> QED BY <2>1, <2>2, Join
<1>6. Batch((a \o b) \o d, E, Both(Both({r.series}, {t.series}), {c.series}))
    <2>1. Disjoint(Both({r.series}, {t.series}), {c.series})
        BY <1>1, Names DEF Disjoint, Both
    <2> QED BY <1>4, <1>5, <2>1, Join
<1>7. Both(Both({r.series}, {t.series}), {c.series}) = SideSeries
    BY <1>1 DEF SideSeries, Both
<1>8. Entries(a \o b) = Entries(a) \cup Entries(b)
    BY <1>4, JoinEntries
<1>9. Entries((a \o b) \o d) = Entries(a \o b) \cup Entries(d)
    BY <1>4, <1>5, JoinEntries
<1>10. Batch(EmitSideChannel(p), E, SideSeries)
    BY <1>2, <1>6, <1>7
<1>11. Entries(EmitSideChannel(p)) = SideEntries(p)
    BY <1>2, <1>3, <1>4, <1>8, <1>9
<1> QED BY <1>10, <1>11

\* What a successful probe writes, and what a failed one does: every series once.
LEMMA SuccessBatch ==
    ASSUME NEW p, NEW k, p.success
    PROVE  /\ \E N : Batch(SuccessWrites(p, k), Everything(p, k), N)
           /\ Entries(SuccessWrites(p, k)) = SuccessEntries(p, k)
<1> DEFINE E  == Everything(p, k)
           w1 == Set(<<"success">>, 1)
           w2 == Set(<<"last_success">>, k)
           w3 == Inc(<<"duration">>)
           w4 == Inc(<<"ttft">>)
           w5 == Inc(<<"connect_duration">>)
           w6 == Set(<<"token_rate">>, TokenRate(p))
           a  == <<w1, w2, w3, w4>>
           b  == When(p.connect > 0, <<w5>>)
           c  == SetTokens(p)
           d  == When(RateIsValid(p), <<w6>>)
           e  == EmitSideChannel(p)
           T  == {<<t>> : t \in TokenCounts}
<1>1. /\ w1 \in E /\ w2 \in E /\ w3 \in E /\ w4 \in E /\ w5 \in E /\ w6 \in E
      /\ Tokens(p) \subseteq E
      /\ Set(Remaining("requests"), Left(p, "requests")) \in E
      /\ Set(Remaining("tokens"), Left(p, "tokens")) \in E
      /\ Set(<<"ssl_cert_expiry">>, Cert(p)) \in E
    BY DEF Everything
<1>2. SideEntries(p) \subseteq E
    BY <1>1 DEF SideEntries, If
<1>3. /\ w1.series = <<"success">> /\ w2.series = <<"last_success">> /\ w3.series = <<"duration">>
      /\ w4.series = <<"ttft">> /\ w5.series = <<"connect_duration">> /\ w6.series = <<"token_rate">>
    BY SeriesOf
<1>4. SuccessWrites(p, k) = (((a \o b) \o c) \o d) \o e
    BY DEF SuccessWrites
<1>5. SuccessEntries(p, k) = ((({w1, w2, w3, w4} \cup If(p.connect > 0, w5)) \cup Tokens(p))
                                \cup If(RateIsValid(p), w6)) \cup SideEntries(p)
    BY DEF SuccessEntries
<1> HIDE DEF E, w1, w2, w3, w4, w5, w6
<1>6. a \in Seq(E) /\ OnePer(a) /\ Entries(a) = {w1, w2, w3, w4}
    <2>1. /\ w1.series # w2.series /\ w1.series # w3.series /\ w1.series # w4.series
          /\ w2.series # w3.series /\ w2.series # w4.series /\ w3.series # w4.series
        BY <1>3, Names
    <2>2. OnePer(a)
        BY <1>1, <2>1, FourBatch
    <2>3. Entries(a) = {w1, w2, w3, w4}
        BY <1>1, <2>1, FourBatch
    <2>4. a \in Seq(E)
        BY <1>1
    <2> QED BY <2>2, <2>3, <2>4
<1>7. /\ Batch(b, E, {w5.series}) /\ Entries(b) = If(p.connect > 0, w5)
      /\ Batch(d, E, {w6.series}) /\ Entries(d) = If(RateIsValid(p), w6)
    BY <1>1, WhenBatch DEF If
<1>8. Batch(c, E, T) /\ Entries(c) = Tokens(p)
    BY <1>1, TokensBatch
<1>9. Batch(e, E, SideSeries) /\ Entries(e) = SideEntries(p)
    BY <1>1, <1>2, SideBatch
<1> DEFINE A == {<<"success">>, <<"last_success">>, <<"duration">>, <<"ttft">>}
           B == {<<"connect_duration">>}
           D == {<<"token_rate">>}
<1>10. Batch(a, E, A) /\ Batch(b, E, B) /\ Batch(d, E, D)
    <2>1. Batch(a, E, A)
        BY <1>3, <1>6 DEF Batch
    <2> QED BY <1>3, <1>7, <2>1
<1>11. /\ Disjoint(A, B)
       /\ Disjoint(Both(A, B), T)
    BY Names DEF Disjoint, Both, TokenCounts
<1>12. Disjoint(Both(Both(A, B), T), D)
    BY Names DEF Disjoint, Both, TokenCounts
<1>13. Disjoint(Both(Both(Both(A, B), T), D), SideSeries)
    BY Names DEF Disjoint, Both, TokenCounts, SideSeries
<1> HIDE DEF a, b, c, d, e, A, B, D, T
<1>14. Batch(a \o b, E, Both(A, B))
    BY <1>10, <1>11, Join
<1>15. Batch((a \o b) \o c, E, Both(Both(A, B), T))
    BY <1>8, <1>11, <1>14, Join
<1>16. Batch(((a \o b) \o c) \o d, E, Both(Both(Both(A, B), T), D))
    BY <1>10, <1>12, <1>15, Join
<1>17. Batch((((a \o b) \o c) \o d) \o e, E, Both(Both(Both(Both(A, B), T), D), SideSeries))
    BY <1>9, <1>13, <1>16, Join
<1>18. Entries(a \o b) = Entries(a) \cup Entries(b)
    BY <1>10, JoinEntries
<1>19. Entries((a \o b) \o c) = Entries(a \o b) \cup Entries(c)
    BY <1>8, <1>14, JoinEntries
<1>20. Entries(((a \o b) \o c) \o d) = Entries((a \o b) \o c) \cup Entries(d)
    BY <1>10, <1>15, JoinEntries
<1>21. Entries((((a \o b) \o c) \o d) \o e) = Entries(((a \o b) \o c) \o d) \cup Entries(e)
    BY <1>9, <1>16, JoinEntries
<1>22. \E N : Batch(SuccessWrites(p, k), E, N)
    BY <1>4, <1>17
<1>23. Entries(SuccessWrites(p, k)) = SuccessEntries(p, k)
    BY <1>4, <1>5, <1>6, <1>7, <1>8, <1>9, <1>18, <1>19, <1>20, <1>21
<1> QED BY <1>22, <1>23 DEF E

LEMMA FailureBatch ==
    ASSUME NEW p, NEW k, p.success = FALSE
    PROVE  /\ \E N : Batch(FailureWrites(p), Everything(p, k), N)
           /\ Entries(FailureWrites(p)) = FailureEntries(p)
<1> DEFINE E  == Everything(p, k)
           w1 == Set(<<"success">>, 0)
           w2 == Inc(<<"duration">>)
           w3 == Inc(<<"connect_duration">>)
           w4 == Inc(Errors(p))
           a  == When(TRUE, <<w1>>)
           b  == When(p.duration > 0, <<w2>>)
           c  == When(p.connect > 0, <<w3>>)
           d  == When(p.errType # "", <<w4>>)
           e  == EmitSideChannel(p)
           A  == {<<"success">>}
           B  == {<<"duration">>}
           C  == {<<"connect_duration">>}
           D  == {Errors(p)}
<1>1. /\ w1 \in E /\ w2 \in E /\ w3 \in E /\ w4 \in E
      /\ Set(Remaining("requests"), Left(p, "requests")) \in E
      /\ Set(Remaining("tokens"), Left(p, "tokens")) \in E
      /\ Set(<<"ssl_cert_expiry">>, Cert(p)) \in E
    BY DEF Everything
<1>2. SideEntries(p) \subseteq E
    BY <1>1 DEF SideEntries, If
<1>3. /\ w1.series = <<"success">> /\ w2.series = <<"duration">>
      /\ w3.series = <<"connect_duration">> /\ w4.series = Errors(p)
    BY SeriesOf
<1>4. FailureWrites(p) = (((a \o b) \o c) \o d) \o e
    BY DEF FailureWrites, When
<1>5. FailureEntries(p) = ((({w1} \cup If(p.duration > 0, w2)) \cup If(p.connect > 0, w3))
                            \cup If(p.errType # "", w4)) \cup SideEntries(p)
    BY DEF FailureEntries
<1> HIDE DEF E, w1, w2, w3, w4
<1>6. /\ Batch(a, E, A) /\ Entries(a) = {w1}
      /\ Batch(b, E, B) /\ Entries(b) = If(p.duration > 0, w2)
      /\ Batch(c, E, C) /\ Entries(c) = If(p.connect > 0, w3)
      /\ Batch(d, E, D) /\ Entries(d) = If(p.errType # "", w4)
    BY <1>1, <1>3, WhenBatch DEF If
<1>7. Batch(e, E, SideSeries) /\ Entries(e) = SideEntries(p)
    BY <1>1, <1>2, SideBatch
<1>8. Disjoint(A, B) /\ Disjoint(Both(A, B), C)
    BY Names DEF Disjoint, Both
<1>9. Disjoint(Both(Both(A, B), C), D)
    BY Names DEF Disjoint, Both, Errors
<1>10. Disjoint(Both(Both(Both(A, B), C), D), SideSeries)
    BY Names DEF Disjoint, Both, SideSeries, Errors
<1> HIDE DEF a, b, c, d, e, A, B, C, D
<1>21. Batch(a, E, A) /\ Batch(b, E, B) /\ Batch(c, E, C) /\ Batch(d, E, D) /\ Batch(e, E, SideSeries)
    BY <1>6, <1>7
<1>11. Batch(a \o b, E, Both(A, B))
    BY <1>6, <1>8, Join
<1>12. Batch((a \o b) \o c, E, Both(Both(A, B), C))
    BY <1>6, <1>8, <1>11, Join
<1>13. Batch(((a \o b) \o c) \o d, E, Both(Both(Both(A, B), C), D))
    BY <1>6, <1>9, <1>12, Join
<1>14. Batch((((a \o b) \o c) \o d) \o e, E, Both(Both(Both(Both(A, B), C), D), SideSeries))
    BY <1>7, <1>10, <1>13, Join
<1>15. Entries(a \o b) = Entries(a) \cup Entries(b)
    BY <1>21, JoinEntries
<1>16. Entries((a \o b) \o c) = Entries(a \o b) \cup Entries(c)
    BY <1>21, <1>11, JoinEntries
<1>17. Entries(((a \o b) \o c) \o d) = Entries((a \o b) \o c) \cup Entries(d)
    BY <1>21, <1>12, JoinEntries
<1>18. Entries((((a \o b) \o c) \o d) \o e) = Entries(((a \o b) \o c) \o d) \cup Entries(e)
    BY <1>21, <1>13, JoinEntries
<1>19. \E N : Batch(FailureWrites(p), E, N)
    BY <1>4, <1>14
<1>20. Entries(FailureWrites(p)) = FailureEntries(p)
    BY <1>4, <1>5, <1>6, <1>7, <1>15, <1>16, <1>17, <1>18
<1> QED BY <1>19, <1>20 DEF E

-----------------------------------------------------------------------------
(* The invariant.                                                          *)

\* The writes of the i-th probe since the reset.
WritesOf(p, i) == IF p.success THEN SuccessEntries(p, i) ELSE FailureEntries(p)

\* Whether writes a are about series s, and what the probe p says about it as the i-th.
Mentions(a, s)     == \E w \in a : w.series = s
About(p, i, s)   == Mentions(WritesOf(p, i), s)
Says(p, i, s, v) == \E w \in WritesOf(p, i) : w.series = s /\ w.value = v

\* The probes of d about s; those whose write has been made while q is pending.
Hits(d, s)    == {i \in DOMAIN d : About(d[i], i, s)}
Seen(d, q, s) == {i \in Hits(d, s) : ~(i = Len(d) /\ Mentions(Entries(q), s))}

Counters     == {"duration", "ttft", "connect_duration", "errors"}
IsCounter(s) == s[1] \in Counters

SeriesNames ==
    {<<"success">>, <<"last_success">>, <<"duration">>, <<"ttft">>, <<"connect_duration">>,
     <<"token_rate">>} \cup SideSeries \cup {<<t>> : t \in TokenCounts}
      \cup {Errors(p) : p \in Probes}

\* A counter counts the probes about it, a gauge shows what the last one said.
Latest(d, h, s, v) ==
    \E m \in h : (\A i \in h : i <= m) /\ Says(d[m], m, s, v)

Shown(r, d, h, s) ==
    /\ s \in DOMAIN r <=> h # {}
    /\ h # {} /\ IsCounter(s)  => r[s] = Cardinality(h)
    /\ h # {} /\ ~IsCounter(s) => Latest(d, h, s, r[s])

History == done \in Seq(Probes)

Queue ==
    pending # <<>> =>
        /\ clearing = <<>>
        /\ done # <<>>
        /\ \A w \in Entries(pending) : w \in WritesOf(done[Len(done)], Len(done))

Sweep ==
    clearing # <<>> =>
        /\ done = <<>>
        /\ \A s \in DOMAIN registry : s[1] \in Entries(clearing)

Sequences ==
    /\ pending \in Seq(Entries(pending)) /\ OnePer(pending)
    /\ clearing \in Seq(Entries(ResetOrder))

Inventory == DOMAIN registry \subseteq SeriesNames

Balance ==
    clearing = <<>> =>
        \A s \in SeriesNames : Shown(registry, done, Seen(done, pending, s), s)

Books == History /\ Queue /\ Sweep /\ Sequences /\ Inventory /\ Balance

-----------------------------------------------------------------------------
(* Lemmas about writes and histories.                                      *)

LEMMA OwnEntries ==
    ASSUME NEW E, NEW a \in Seq(E)
    PROVE  a \in Seq(Entries(a))
<1>1. a \in [1 .. Len(a) -> E] /\ Len(a) \in Nat /\ DOMAIN a = 1 .. Len(a)
    BY LenProperties
<1>2. \A i \in DOMAIN a : a[i] \in Entries(a)
    BY DEF Entries
<1> HIDE DEF Entries
<1>3. a \in [1 .. Len(a) -> Entries(a)]
    BY <1>1, <1>2
<1> QED BY <1>1, <1>3, SeqDef

LEMMA TailEntries ==
    ASSUME NEW E, NEW q \in Seq(E), q # << >>
    PROVE  /\ Tail(q) \in Seq(Entries(Tail(q)))
           /\ Head(q) \in Entries(q)
           /\ Entries(q) = {Head(q)} \cup Entries(Tail(q))
           /\ OnePer(q) => /\ OnePer(Tail(q))
                           /\ \A v \in Entries(Tail(q)) : v.series # Head(q).series
<1>1. /\ DOMAIN q = 1 .. Len(q) /\ Len(q) \in Nat /\ Len(q) >= 1
      /\ Head(q) = q[1] /\ 1 \in DOMAIN q
      /\ Tail(q) \in Seq(E) /\ Len(Tail(q)) = Len(q) - 1 /\ DOMAIN Tail(q) = 1 .. Len(q) - 1
      /\ \A i \in 1 .. Len(q) - 1 : Tail(q)[i] = q[i + 1] /\ i + 1 \in DOMAIN q
    OBVIOUS
<1>2. Head(q) \in Entries(q)
    BY <1>1 DEF Entries
<1>3. Tail(q) \in Seq(Entries(Tail(q)))
    BY <1>1, OwnEntries
<1>4. Entries(q) = {Head(q)} \cup Entries(Tail(q))
    <2>1. ASSUME NEW w \in Entries(q) PROVE w \in {Head(q)} \cup Entries(Tail(q))
        <3>1. PICK i \in DOMAIN q : w = q[i]
            BY DEF Entries
        <3>2. CASE i = 1
            BY <1>1, <3>1, <3>2
        <3>3. CASE i # 1
            <4>1. i - 1 \in DOMAIN Tail(q) /\ Tail(q)[i - 1] = q[(i - 1) + 1] /\ (i - 1) + 1 = i
                BY <1>1, <3>3
            <4> QED BY <3>1, <4>1 DEF Entries
        <3> QED BY <3>2, <3>3
    <2>2. ASSUME NEW w \in Entries(Tail(q)) PROVE w \in Entries(q)
        BY <1>1 DEF Entries
    <2> QED BY <1>2, <2>1, <2>2
<1>5. ASSUME OnePer(q) PROVE OnePer(Tail(q))
    <2> SUFFICES ASSUME NEW i \in DOMAIN Tail(q), NEW j \in DOMAIN Tail(q),
                        Tail(q)[i].series = Tail(q)[j].series
                 PROVE  i = j
        BY DEF OnePer
    <2>1. i + 1 = j + 1
        BY <1>1, <1>5 DEF OnePer
    <2> QED BY <1>1, <2>1
<1>6. ASSUME OnePer(q), NEW v \in Entries(Tail(q)) PROVE v.series # Head(q).series
    <2>1. PICK i \in DOMAIN Tail(q) : v = Tail(q)[i]
        BY DEF Entries
    <2>2. i + 1 \in DOMAIN q /\ q[i + 1] = v /\ i + 1 # 1
        BY <1>1, <2>1
    <2> QED BY <1>1, <1>6, <2>2 DEF OnePer
<1> QED BY <1>2, <1>3, <1>4, <1>5, <1>6

\* Every write names a series there is; counters are added to, one by one, and
\* gauges are set.
LEMMA WriteKinds ==
    ASSUME NEW p \in Probes, NEW i, NEW w \in WritesOf(p, i)
    PROVE  /\ w.series \in SeriesNames
           /\ IsCounter(w.series) => w.add = TRUE /\ w.value = 1
           /\ ~IsCounter(w.series) => w.add = FALSE
<1>1. PICK s, v : /\ s \in SeriesNames
                  /\ \/ w = Set(s, v) /\ ~IsCounter(s)
                     \/ w = Inc(s) /\ IsCounter(s)
    <2>1. /\ ~IsCounter(<<"success">>) /\ ~IsCounter(<<"last_success">>) /\ ~IsCounter(<<"token_rate">>)
          /\ ~IsCounter(<<"ssl_cert_expiry">>)
          /\ IsCounter(<<"duration">>) /\ IsCounter(<<"ttft">>) /\ IsCounter(<<"connect_duration">>)
        BY DEF IsCounter, Counters
    <2>2. \A t \in TokenCounts : ~IsCounter(<<t>>) /\ <<t>> \in SeriesNames
        BY DEF IsCounter, Counters, TokenCounts, SeriesNames
    <2>3. IsCounter(Errors(p)) /\ Errors(p) \in SeriesNames
        <3>1. Errors(p)[1] = "errors"
            BY DEF Errors
        <3> QED BY <3>1 DEF IsCounter, Counters, SeriesNames
    <2>4. \A kind : ~IsCounter(Remaining(kind))
        <3>1. \A kind : Remaining(kind)[1] = "rate_limit_remaining"
            BY DEF Remaining
        <3> QED BY <3>1 DEF IsCounter, Counters
    <2>5. /\ <<"success">> \in SeriesNames /\ <<"last_success">> \in SeriesNames
          /\ <<"duration">> \in SeriesNames /\ <<"ttft">> \in SeriesNames
          /\ <<"connect_duration">> \in SeriesNames /\ <<"token_rate">> \in SeriesNames
          /\ Remaining("requests") \in SeriesNames /\ Remaining("tokens") \in SeriesNames
          /\ <<"ssl_cert_expiry">> \in SeriesNames
        BY DEF SeriesNames, SideSeries
    <2>6. w \in SuccessEntries(p, i) \/ w \in FailureEntries(p)
        BY DEF WritesOf
    <2>7. \/ \E v : w \in {Set(<<"success">>, v), Set(<<"last_success">>, v), Set(<<"token_rate">>, v),
                          Set(Remaining("requests"), v), Set(Remaining("tokens"), v),
                          Set(<<"ssl_cert_expiry">>, v)}
          \/ w \in {Inc(<<"duration">>), Inc(<<"ttft">>), Inc(<<"connect_duration">>), Inc(Errors(p))}
          \/ w \in Tokens(p)
        BY <2>6, Zenon DEF SuccessEntries, FailureEntries, SideEntries, If
    <2>8. CASE w \in Tokens(p)
        BY <2>2, <2>8 DEF Tokens
    <2>9. CASE w \in {Inc(<<"duration">>), Inc(<<"ttft">>), Inc(<<"connect_duration">>), Inc(Errors(p))}
        BY <2>1, <2>3, <2>5, <2>9
    <2>10. CASE \E v : w \in {Set(<<"success">>, v), Set(<<"last_success">>, v), Set(<<"token_rate">>, v),
                          Set(Remaining("requests"), v), Set(Remaining("tokens"), v),
                          Set(<<"ssl_cert_expiry">>, v)}
        BY <2>1, <2>4, <2>5, <2>10
    <2> QED BY <2>7, <2>8, <2>9, <2>10
<1>2. CASE w = Set(s, v) /\ ~IsCounter(s)
    <2>1. w.series = s /\ w.add = FALSE
        BY <1>2 DEF Set
    <2> QED BY <1>1, <1>2, <2>1
<1>3. CASE w = Inc(s) /\ IsCounter(s)
    <2>1. w.series = s /\ w.add = TRUE /\ w.value = 1
        BY <1>3 DEF Inc
    <2> QED BY <1>1, <1>3, <2>1
<1> QED BY <1>1, <1>2, <1>3

\* Every series belongs to a vector that a reset clears.
LEMMA VectorsCleared ==
    ASSUME NEW s \in SeriesNames
    PROVE  s[1] \in Entries(ResetOrder)
<1> DEFINE o == ResetOrder
<1>1. DOMAIN o = 1 .. 15
    BY DEF ResetOrder
<1>2. /\ o[1] = "success" /\ o[2] = "duration" /\ o[3] = "connect_duration" /\ o[4] = "ttft"
      /\ o[5] = "input_tokens" /\ o[6] = "output_tokens" /\ o[7] = "total_tokens"
      /\ o[8] = "reasoning_tokens" /\ o[9] = "cached_input_tokens"
      /\ o[10] = "cache_creation_tokens" /\ o[11] = "token_rate" /\ o[12] = "last_success"
      /\ o[13] = "rate_limit_remaining" /\ o[14] = "ssl_cert_expiry" /\ o[15] = "errors"
    BY DEF ResetOrder
<1> HIDE DEF o
<1>3. \A i \in 1 .. 15 : o[i] \in Entries(o)
    BY <1>1 DEF Entries
<1>4. s[1] \in {"success", "last_success", "duration", "ttft", "connect_duration", "token_rate",
                "rate_limit_remaining", "ssl_cert_expiry", "errors"} \cup TokenCounts
    <2>1. \A v : <<v>>[1] = v
        OBVIOUS
    <2>2. \A p \in Probes : Errors(p)[1] = "errors"
        BY DEF Errors
    <2>3. \A kind : Remaining(kind)[1] = "rate_limit_remaining"
        BY DEF Remaining
    <2> QED BY <2>1, <2>2, <2>3 DEF SeriesNames, SideSeries
<1>5. \A v \in {"success", "last_success", "duration", "ttft", "connect_duration", "token_rate",
                "rate_limit_remaining", "ssl_cert_expiry", "errors"} \cup TokenCounts : v \in Entries(o)
    BY <1>2, <1>3 DEF TokenCounts
<1> QED BY <1>4, <1>5 DEF o

\* The probes about a series are finitely many.
LEMMA FiniteHits ==
    ASSUME NEW d, d \in Seq(Probes), NEW q, NEW s
    PROVE  /\ IsFiniteSet(Seen(d, q, s))
           /\ Seen(d, q, s) \subseteq Hits(d, s) /\ Hits(d, s) \subseteq DOMAIN d
           /\ DOMAIN d = 1 .. Len(d) /\ Len(d) \in Nat
<1>1. DOMAIN d = 1 .. Len(d) /\ Len(d) \in Nat
    OBVIOUS
<1>2. Seen(d, q, s) \subseteq Hits(d, s) /\ Hits(d, s) \subseteq DOMAIN d
    BY DEF Seen, Hits
<1>3. IsFiniteSet(DOMAIN d)
    BY <1>1, FS_Interval
<1>4. IsFiniteSet(Seen(d, q, s))
    BY <1>2, <1>3, FS_Subset
<1> QED BY <1>1, <1>2, <1>4

\* With nothing pending, all that concern a series are seen.
LEMMA AllSeen ==
    ASSUME NEW d, NEW s
    PROVE  Seen(d, << >>, s) = Hits(d, s)
<1>1. Entries(<< >>) = {}
    BY DEF Entries
<1> QED BY <1>1 DEF Seen, Mentions

-----------------------------------------------------------------------------
(* The invariant holds.                                                    *)

LEMMA BooksInit == Init => Books
<1> SUFFICES ASSUME Init PROVE Books
    OBVIOUS
<1>1. registry = << >> /\ pending = << >> /\ clearing = << >> /\ done = << >>
    BY DEF Init
<1>2. Entries(<< >>) = {} /\ DOMAIN << >> = {}
    BY DEF Entries
<1>3. History /\ Queue /\ Sweep /\ Inventory
    BY <1>1, <1>2 DEF History, Queue, Sweep, Inventory
<1>4. Sequences
    BY <1>1, <1>2 DEF Sequences, OnePer
<1>5. \A s : Seen(<< >>, << >>, s) = {}
    BY <1>2 DEF Seen, Hits
<1>6. Balance
    BY <1>1, <1>2, <1>5 DEF Balance, Shown
<1> QED BY <1>3, <1>4, <1>6 DEF Books

LEMMA OutcomeKnown ==
    ASSUME NEW p \in Probes
    PROVE  /\ p.success \in BOOLEAN /\ p.duration \in Nat /\ p.connect \in Int
           /\ p.success <=> p.errType = ""
           /\ p.duration = 0 => p.errType = "network"
BY ProbeAssumption DEF ProbesWith

\* What a probe is about to write.
LEMMA Batches ==
    ASSUME NEW p \in Probes, NEW k,
           NEW q, q = IF p.success THEN SuccessWrites(p, k) ELSE FailureWrites(p)
    PROVE  /\ q \in Seq(Entries(q)) /\ OnePer(q)
           /\ Entries(q) = WritesOf(p, k)
<1>1. CASE p.success
    <2>1. PICK N : Batch(SuccessWrites(p, k), Everything(p, k), N)
        BY <1>1, SuccessBatch
    <2>2. Entries(SuccessWrites(p, k)) = SuccessEntries(p, k)
        BY <1>1, SuccessBatch
    <2>3. q \in Seq(Everything(p, k)) /\ OnePer(q)
        BY <1>1, <2>1 DEF Batch
    <2>4. q \in Seq(Entries(q))
        BY <2>3, OwnEntries
    <2> QED BY <1>1, <2>2, <2>3, <2>4 DEF WritesOf
<1>2. CASE p.success = FALSE
    <2>1. PICK N : Batch(FailureWrites(p), Everything(p, k), N)
        BY <1>2, FailureBatch
    <2>2. Entries(FailureWrites(p)) = FailureEntries(p)
        BY <1>2, FailureBatch
    <2>3. q \in Seq(Everything(p, k)) /\ OnePer(q)
        BY <1>2, <2>1 DEF Batch
    <2>4. q \in Seq(Entries(q))
        BY <2>3, OwnEntries
    <2> QED BY <1>2, <2>2, <2>3, <2>4 DEF WritesOf
<1> QED BY <1>1, <1>2, OutcomeKnown

LEMMA ProbeReturnsBooks ==
    ASSUME Books, NEW p \in Probes, ProbeReturns(p)
    PROVE  Books'
<1> DEFINE n == Len(done) + 1
<1>1. /\ pending = << >> /\ clearing = << >> /\ clearing' = clearing /\ registry' = registry
      /\ done' = Append(done, p)
      /\ pending' = IF p.success THEN SuccessWrites(p, n) ELSE FailureWrites(p)
    BY DEF ProbeReturns, AtRest
<1>2. /\ done \in Seq(Probes) /\ Len(done) \in Nat /\ DOMAIN done = 1 .. Len(done)
    BY DEF Books, History
<1>3. /\ done' \in Seq(Probes) /\ Len(done') = n /\ DOMAIN done' = 1 .. n /\ n \in Nat /\ done'[n] = p
      /\ \A i \in DOMAIN done : done'[i] = done[i] /\ i \in DOMAIN done' /\ i # n
      /\ \A i \in DOMAIN done' : i # n => i \in DOMAIN done
      /\ done' # << >>
    BY <1>1, <1>2
<1> HIDE DEF n
<1>4. pending' \in Seq(Entries(pending')) /\ OnePer(pending') /\ Entries(pending') = WritesOf(p, n)
    BY <1>1, Batches
<1>5. History' /\ Queue' /\ Sweep' /\ Inventory'
    BY <1>1, <1>3, <1>4 DEF Books, History, Queue, Sweep, Inventory
<1>6. Sequences'
    BY <1>1, <1>4 DEF Books, Sequences
<1>7. ASSUME NEW s PROVE Seen(done', pending', s) = Hits(done, s)
    <2>1. ASSUME NEW i \in Seen(done', pending', s) PROVE i \in Hits(done, s)
        <3>1. i \in DOMAIN done' /\ About(done'[i], i, s) /\ ~(i = n /\ Mentions(Entries(pending'), s))
            BY <1>3 DEF Seen, Hits
        <3>2. i # n
            BY <1>3, <1>4, <3>1 DEF About
        <3> QED BY <1>3, <3>1, <3>2 DEF Hits
    <2>2. ASSUME NEW i \in Hits(done, s) PROVE i \in Seen(done', pending', s)
        <3>1. i \in DOMAIN done /\ About(done[i], i, s)
            BY DEF Hits
        <3>2. i \in DOMAIN done' /\ About(done'[i], i, s) /\ i # Len(done')
            BY <1>3, <3>1
        <3> QED BY <3>2 DEF Seen, Hits
    <2> QED BY <2>1, <2>2
<1>8. Balance'
    <2> SUFFICES ASSUME NEW s \in SeriesNames
                 PROVE  Shown(registry', done', Seen(done', pending', s), s)
        BY DEF Balance
    <2> DEFINE h == Hits(done, s)
    <2>1. Shown(registry, done, h, s)
        BY <1>1, AllSeen DEF Books, Balance
    <2>2. Seen(done', pending', s) = h /\ registry' = registry
        BY <1>1, <1>7
    <2>3. h \subseteq DOMAIN done
        BY DEF Hits
    <2> HIDE DEF h
    <2>4. ASSUME Latest(done, h, s, registry[s]) PROVE Latest(done', h, s, registry[s])
        BY <1>3, <2>3, <2>4 DEF Latest
    <2> QED BY <2>1, <2>2, <2>4 DEF Shown
<1> QED BY <1>5, <1>6, <1>8 DEF Books

LEMMA WriteBooks ==
    ASSUME Books, Write
    PROVE  Books'
<1> DEFINE w == Head(pending)
           n == Len(done)
<1>1. /\ pending # << >> /\ pending' = Tail(pending) /\ registry' = Written(w)
      /\ clearing' = clearing /\ done' = done
    BY DEF Write
<1>2. /\ clearing = << >> /\ done # << >> /\ done \in Seq(Probes)
      /\ \A v \in Entries(pending) : v \in WritesOf(done[n], n)
      /\ pending \in Seq(Entries(pending)) /\ OnePer(pending)
    BY <1>1 DEF Books, History, Queue, Sequences
<1>3. n \in DOMAIN done /\ done[n] \in Probes /\ n \in Nat /\ DOMAIN done = 1 .. n
    BY <1>2
<1>4. /\ pending' \in Seq(Entries(pending')) /\ OnePer(pending') /\ w \in Entries(pending)
      /\ Entries(pending) = {w} \cup Entries(pending')
      /\ \A v \in Entries(pending') : v.series # w.series
    BY <1>1, <1>2, TailEntries
<1>5. w \in WritesOf(done[n], n)
    BY <1>2, <1>4
<1>6. /\ w.series \in SeriesNames
      /\ IsCounter(w.series) => w.add = TRUE /\ w.value = 1
      /\ ~IsCounter(w.series) => w.add = FALSE
    BY <1>3, <1>5, WriteKinds
<1> HIDE DEF w, n
<1>7. /\ DOMAIN registry' = DOMAIN registry \cup {w.series}
      /\ \A s \in DOMAIN registry : s # w.series => registry'[s] = registry[s]
      /\ w.add = TRUE /\ w.series \in DOMAIN registry
            => registry'[w.series] = registry[w.series] + w.value
      /\ w.add = FALSE \/ w.series \notin DOMAIN registry => registry'[w.series] = w.value
    BY <1>1 DEF Written
<1>8. History' /\ Queue' /\ Sweep' /\ Inventory' /\ Sequences'
    <2>1. History' /\ Sweep' /\ Sequences'
        BY <1>1, <1>2, <1>4 DEF Books, History, Sweep, Sequences
    <2>2. Queue'
        BY <1>1, <1>2, <1>4 DEF Queue, n
    <2>3. Inventory'
        BY <1>6, <1>7 DEF Books, Inventory
    <2> QED BY <2>1, <2>2, <2>3
<1>9. ASSUME NEW s \in SeriesNames, s # w.series
      PROVE  Shown(registry', done', Seen(done', pending', s), s)
    <2>1. Shown(registry, done, Seen(done, pending, s), s)
        BY <1>2 DEF Books, Balance
    <2>2. Mentions(Entries(pending), s) <=> Mentions(Entries(pending'), s)
        BY <1>4, <1>9 DEF Mentions
    <2>3. Seen(done', pending', s) = Seen(done, pending, s)
        BY <1>1, <2>2 DEF Seen
    <2> DEFINE h == Seen(done, pending, s)
    <2> HIDE DEF h
    <2>4. s \in DOMAIN registry' <=> s \in DOMAIN registry
        BY <1>7, <1>9
    <2>5. h # {} => registry'[s] = registry[s]
        BY <1>7, <1>9, <2>1 DEF Shown, h
    <2>6. Shown(registry', done, h, s)
        BY <2>1, <2>4, <2>5 DEF Shown, h
    <2> QED BY <1>1, <2>3, <2>6 DEF h
<1>10. Shown(registry', done', Seen(done', pending', w.series), w.series)
    <2> DEFINE s == w.series
               h == Seen(done, pending, s)
    <2>1. Shown(registry, done, h, s)
        BY <1>2, <1>6 DEF Books, Balance
    <2>2. IsFiniteSet(h) /\ h \subseteq Hits(done, s) /\ Hits(done, s) \subseteq 1 .. n
        BY <1>2, <1>3, FiniteHits
    <2>3. n \notin h
        BY <1>4 DEF Seen, Mentions, n
    <2>4. n \in Hits(done, s)
        BY <1>3, <1>5 DEF Hits, About, Mentions
    <2>5. Seen(done', pending', s) = h \cup {n}
        <3>1. ~Mentions(Entries(pending'), s)
            BY <1>4 DEF Mentions
        <3>2. Seen(done', pending', s) = Hits(done, s)
            BY <1>1, <3>1 DEF Seen
        <3>3. \A i \in Hits(done, s) : i # n => i \in h
            BY DEF Seen, n
        <3> QED BY <2>2, <2>4, <3>2, <3>3
    <2> HIDE DEF h
    <2>6. Cardinality(h) \in Nat /\ Cardinality(h \cup {n}) = Cardinality(h) + 1 /\ Cardinality({}) = 0
        BY <2>2, <2>3, FS_AddElement, FS_CardinalityType, FS_EmptySet
    <2>7. s \in DOMAIN registry' /\ h \cup {n} # {}
        BY <1>7
    <2>8. IsCounter(s) => registry'[s] = Cardinality(h \cup {n})
        <3>1. ASSUME IsCounter(s), s \in DOMAIN registry PROVE registry'[s] = Cardinality(h \cup {n})
            <4>1. registry[s] = Cardinality(h)
                BY <2>1, <3>1 DEF Shown
            <4> QED BY <1>6, <1>7, <2>6, <3>1, <4>1
        <3>2. ASSUME IsCounter(s), s \notin DOMAIN registry PROVE registry'[s] = Cardinality(h \cup {n})
            <4>1. h = {}
                BY <2>1, <3>2 DEF Shown
            <4>2. registry'[s] = 1
                BY <1>6, <1>7, <3>2
            <4> QED BY <2>6, <4>1, <4>2
        <3> QED BY <3>1, <3>2
    <2>9. ~IsCounter(s) => Latest(done, h \cup {n}, s, registry'[s])
        <3> SUFFICES ASSUME ~IsCounter(s) PROVE Latest(done, h \cup {n}, s, registry'[s])
            OBVIOUS
        <3>1. registry'[s] = w.value
            BY <1>6, <1>7
        <3>2. Says(done[n], n, s, registry'[s])
            BY <1>5, <3>1 DEF Says
        <3>3. \A i \in h \cup {n} : i <= n
            BY <1>3, <2>2
        <3> QED BY <3>2, <3>3 DEF Latest
    <2> QED BY <1>1, <2>5, <2>7, <2>8, <2>9 DEF Shown
<1>11. Balance'
    BY <1>9, <1>10 DEF Balance
<1> QED BY <1>8, <1>11 DEF Books

LEMMA BeginResetBooks ==
    ASSUME Books, BeginReset
    PROVE  Books'
<1>1. /\ pending = << >> /\ pending' = << >> /\ clearing' = ResetOrder /\ done' = << >>
      /\ registry' = registry
    BY DEF BeginReset, AtRest
<1>2. ResetOrder \in Seq(Entries(ResetOrder)) /\ ResetOrder # << >>
    <2>1. DOMAIN ResetOrder = 1 .. 15 /\ ResetOrder = [i \in 1 .. 15 |-> ResetOrder[i]]
        BY DEF ResetOrder
    <2>2. \A i \in 1 .. 15 : ResetOrder[i] \in Entries(ResetOrder)
        BY <2>1 DEF Entries
    <2>3. ResetOrder \in [1 .. 15 -> Entries(ResetOrder)]
        BY <2>1, <2>2
    <2>4. ResetOrder \in Seq(Entries(ResetOrder))
        BY <2>3, SeqDef
    <2>5. ResetOrder # << >>
        BY DEF ResetOrder
    <2> QED BY <2>4, <2>5
<1>3. Entries(<< >>) = {}
    BY DEF Entries
<1>4. Sequences'
    BY <1>1, <1>2 DEF Books, Sequences
<1>5. History' /\ Queue' /\ Inventory'
    BY <1>1 DEF Books, History, Queue, Inventory
<1>6. Sweep'
    BY <1>1, VectorsCleared DEF Books, Inventory, Sweep
<1>7. Balance'
    BY <1>1, <1>2 DEF Balance
<1> QED BY <1>4, <1>5, <1>6, <1>7 DEF Books

LEMMA ClearVectorBooks ==
    ASSUME Books, ClearVector
    PROVE  Books'
<1>1. /\ clearing # << >> /\ clearing' = Tail(clearing) /\ pending' = pending /\ done' = done
      /\ registry' = Restrict(registry, {s \in DOMAIN registry : s[1] # Head(clearing)})
    BY DEF ClearVector
<1>2. /\ done = << >> /\ pending = << >> /\ clearing \in Seq(Entries(ResetOrder))
      /\ \A s \in DOMAIN registry : s[1] \in Entries(clearing)
    BY <1>1 DEF Books, Sweep, Queue, Sequences
<1>3. Entries(clearing) = {Head(clearing)} \cup Entries(clearing')
    BY <1>1, <1>2, TailEntries
<1>4. DOMAIN registry' = {s \in DOMAIN registry : s[1] # Head(clearing)}
    BY <1>1 DEF Restrict
<1>5. \A s \in DOMAIN registry' : s \in DOMAIN registry /\ s[1] \in Entries(clearing')
    BY <1>2, <1>3, <1>4
<1>6. History' /\ Queue' /\ Inventory' /\ Sweep'
    BY <1>1, <1>2, <1>5 DEF Books, History, Queue, Inventory, Sweep
<1>7. Sequences'
    <2>1. clearing' \in Seq(Entries(ResetOrder))
        BY <1>1, <1>2
    <2> QED BY <1>1, <2>1 DEF Books, Sequences
<1>8. Balance'
    <2> SUFFICES ASSUME clearing' = << >>, NEW s \in SeriesNames
                 PROVE  Shown(registry', done', Seen(done', pending', s), s)
        BY DEF Balance
    <2>1. Entries(<< >>) = {} /\ DOMAIN << >> = {}
        BY DEF Entries
    <2>2. DOMAIN registry' = {}
        BY <1>5, <2>1
    <2>3. Seen(done', pending', s) = {}
        BY <1>1, <1>2, <2>1 DEF Seen, Hits
    <2> QED BY <2>2, <2>3 DEF Shown
<1> QED BY <1>6, <1>7, <1>8 DEF Books

LEMMA BooksNext == Books /\ [Next]_vars => Books'
<1> SUFFICES ASSUME Books, [Next]_vars PROVE Books'
    OBVIOUS
<1>1. ASSUME NEW p \in Probes, ProbeReturns(p) PROVE Books'
    BY <1>1, ProbeReturnsBooks
<1>2. CASE Write
    BY <1>2, WriteBooks
<1>3. CASE BeginReset
    BY <1>3, BeginResetBooks
<1>4. CASE ClearVector
    BY <1>4, ClearVectorBooks
<1>5. ASSUME NEW s, Scrape(s) PROVE Books'
    BY <1>5 DEF Scrape, Books, History, Queue, Sweep, Sequences, Inventory, Balance
<1>6. CASE ScrapeEnds
    BY <1>6 DEF ScrapeEnds, Books, History, Queue, Sweep, Sequences, Inventory, Balance
<1>7. CASE UNCHANGED vars
    BY <1>7 DEF vars, Books, History, Queue, Sweep, Sequences, Inventory, Balance
<1> QED BY <1>1, <1>2, <1>3, <1>4, <1>5, <1>6, <1>7 DEF Next

LEMMA BooksKept == Spec => []Books
<1> QED BY BooksInit, BooksNext, PTL DEF Spec

-----------------------------------------------------------------------------
(* Gauges and counters.                                                    *)

\* Between probes every series stands where the probes since the reset left it.
LEMMA Standing ==
    ASSUME Books, AtRest, NEW s \in SeriesNames
    PROVE  Shown(registry, done, Hits(done, s), s)
BY AllSeen DEF AtRest, Books, Balance

\* The last of some probes.
LEMMA LastOne ==
    ASSUME NEW h, NEW m \in h, h \subseteq Int, \A i \in h : i <= m
    PROVE  Max(h) = m
<1>1. \A x \in h : (\A y \in h : x >= y) => x = m
    BY DEF Max
<1>2. \A y \in h : m >= y
    BY DEF Max
<1> QED BY <1>1, <1>2 DEF Max

\* A gauge that the probes of h say something about shows what the last said.
LEMMA GaugeShows ==
    ASSUME Books, AtRest, NEW s \in SeriesNames, ~IsCounter(s), NEW h,
           h \subseteq DOMAIN done,
           \A i \in DOMAIN done : About(done[i], i, s) <=> i \in h
    PROVE  /\ s \in DOMAIN registry <=> h # {}
           /\ h # {} => Max(h) \in h /\ Says(done[Max(h)], Max(h), s, registry[s])
<1>1. Hits(done, s) = h
    BY DEF Hits
<1>2. Shown(registry, done, h, s)
    BY <1>1, Standing
<1>3. DOMAIN done \subseteq Int
    BY DEF Books, History
<1>4. ASSUME h # {} PROVE Max(h) \in h /\ Says(done[Max(h)], Max(h), s, registry[s])
    <2>1. PICK m \in h : (\A i \in h : i <= m) /\ Says(done[m], m, s, registry[s])
        BY <1>2, <1>4 DEF Shown, Latest
    <2>2. Max(h) = m
        BY <1>3, <2>1, LastOne
    <2> QED BY <2>1, <2>2
<1> QED BY <1>2, <1>4 DEF Shown

\* A counter counts the probes that have something to add to it.
LEMMA CounterShows ==
    ASSUME Books, AtRest, NEW s \in SeriesNames, IsCounter(s), NEW h,
           h \subseteq DOMAIN done,
           \A i \in DOMAIN done : About(done[i], i, s) <=> i \in h
    PROVE  Value(s) = Cardinality(h)
<1>1. Hits(done, s) = h
    BY DEF Hits
<1>2. Shown(registry, done, h, s)
    BY <1>1, Standing
<1>3. CASE h = {}
    BY <1>2, <1>3, FS_EmptySet DEF Shown, Value
<1>4. CASE h # {}
    BY <1>2, <1>4 DEF Shown, Value
<1> QED BY <1>3, <1>4

\* What a probe says of each series.
SideSays(p, s, x) ==
    \/ Left(p, "requests") >= 0 /\ s = Remaining("requests") /\ x = Left(p, "requests")
    \/ Left(p, "tokens") >= 0 /\ s = Remaining("tokens") /\ x = Left(p, "tokens")
    \/ Cert(p) # 0 /\ s = <<"ssl_cert_expiry">> /\ x = Cert(p)

SuccessSays(p, i, s, x) ==
    \/ s = <<"success">> /\ x = 1
    \/ s = <<"last_success">> /\ x = i
    \/ s = <<"duration">> /\ x = 1
    \/ s = <<"ttft">> /\ x = 1
    \/ p.connect > 0 /\ s = <<"connect_duration">> /\ x = 1
    \/ \E t \in TokenCounts : s = <<t>> /\ x = p.tokens[t]
    \/ RateIsValid(p) /\ s = <<"token_rate">> /\ x = TokenRate(p)
    \/ SideSays(p, s, x)

FailureSays(p, s, x) ==
    \/ s = <<"success">> /\ x = 0
    \/ p.duration > 0 /\ s = <<"duration">> /\ x = 1
    \/ p.connect > 0 /\ s = <<"connect_duration">> /\ x = 1
    \/ p.errType # "" /\ s = Errors(p) /\ x = 1
    \/ SideSays(p, s, x)

LEMMA WriteOf ==
    ASSUME NEW s, NEW v
    PROVE  /\ Set(s, v).series = s /\ Set(s, v).value = v
           /\ Inc(s).series = s /\ Inc(s).value = 1
BY DEF Set, Inc

Has(a, s, x) == \E w \in a : w.series = s /\ w.value = x

LEMMA HasEither ==
    ASSUME NEW a, NEW b, NEW s, NEW x
    PROVE  Has(a \cup b, s, x) <=> Has(a, s, x) \/ Has(b, s, x)
BY DEF Has

LEMMA HasSet ==
    ASSUME NEW r, NEW v, NEW s, NEW x
    PROVE  Has({Set(r, v)}, s, x) <=> s = r /\ x = v
BY WriteOf DEF Has

LEMMA HasInc ==
    ASSUME NEW r, NEW s, NEW x
    PROVE  Has({Inc(r)}, s, x) <=> s = r /\ x = 1
BY WriteOf DEF Has

LEMMA HasIf ==
    ASSUME NEW c, NEW w, NEW s, NEW x
    PROVE  Has(If(c, w), s, x) <=> c /\ Has({w}, s, x)
<1>1. ~Has({}, s, x)
    BY DEF Has
<1> QED BY <1>1 DEF If

LEMMA SideSaid ==
    ASSUME NEW p, NEW s, NEW x
    PROVE  Has(SideEntries(p), s, x) <=> SideSays(p, s, x)
<1> DEFINE a == If(Left(p, "requests") >= 0, Set(Remaining("requests"), Left(p, "requests")))
           b == If(Left(p, "tokens") >= 0, Set(Remaining("tokens"), Left(p, "tokens")))
           c == If(Cert(p) # 0, Set(<<"ssl_cert_expiry">>, Cert(p)))
<1>1. /\ Has(a, s, x) <=> Left(p, "requests") >= 0 /\ s = Remaining("requests") /\ x = Left(p, "requests")
      /\ Has(b, s, x) <=> Left(p, "tokens") >= 0 /\ s = Remaining("tokens") /\ x = Left(p, "tokens")
      /\ Has(c, s, x) <=> Cert(p) # 0 /\ s = <<"ssl_cert_expiry">> /\ x = Cert(p)
    <2>1. Has(a, s, x) <=> /\ Left(p, "requests") >= 0
                           /\ Has({Set(Remaining("requests"), Left(p, "requests"))}, s, x)
        BY HasIf, Zenon
    <2>2. Has(b, s, x) <=> /\ Left(p, "tokens") >= 0
                           /\ Has({Set(Remaining("tokens"), Left(p, "tokens"))}, s, x)
        BY HasIf, Zenon
    <2>3. Has(c, s, x) <=> Cert(p) # 0 /\ Has({Set(<<"ssl_cert_expiry">>, Cert(p))}, s, x)
        BY HasIf, Zenon
    <2> HIDE DEF a, b, c
    <2> QED BY <2>1, <2>2, <2>3, HasSet
<1>2. SideEntries(p) = (a \cup b) \cup c
    BY DEF SideEntries
<1> HIDE DEF a, b, c
<1>3. Has((a \cup b) \cup c, s, x) <=> (Has(a, s, x) \/ Has(b, s, x)) \/ Has(c, s, x)
    BY HasEither
<1> QED BY <1>1, <1>2, <1>3 DEF SideSays

LEMMA SuccessSaid ==
    ASSUME NEW p, NEW i, NEW s, NEW x, p.success
    PROVE  Says(p, i, s, x) <=> SuccessSays(p, i, s, x)
<1> DEFINE a == {Set(<<"success">>, 1)}
           b == {Set(<<"last_success">>, i)}
           c == {Inc(<<"duration">>)}
           d == {Inc(<<"ttft">>)}
           e == If(p.connect > 0, Inc(<<"connect_duration">>))
           f == Tokens(p)
           g == If(RateIsValid(p), Set(<<"token_rate">>, TokenRate(p)))
           h == SideEntries(p)
<1>1. Says(p, i, s, x) <=> Has(SuccessEntries(p, i), s, x)
    BY DEF Says, Has, WritesOf
<1>2. /\ Has(a, s, x) <=> s = <<"success">> /\ x = 1
      /\ Has(b, s, x) <=> s = <<"last_success">> /\ x = i
      /\ Has(c, s, x) <=> s = <<"duration">> /\ x = 1
      /\ Has(d, s, x) <=> s = <<"ttft">> /\ x = 1
    <2>1. Has(a, s, x) <=> s = <<"success">> /\ x = 1
        BY HasSet
    <2>2. Has(b, s, x) <=> s = <<"last_success">> /\ x = i
        BY HasSet
    <2>3. Has(c, s, x) <=> s = <<"duration">> /\ x = 1
        BY HasInc
    <2>4. Has(d, s, x) <=> s = <<"ttft">> /\ x = 1
        BY HasInc
    <2> QED BY <2>1, <2>2, <2>3, <2>4
<1>3. /\ Has(e, s, x) <=> p.connect > 0 /\ s = <<"connect_duration">> /\ x = 1
      /\ Has(g, s, x) <=> RateIsValid(p) /\ s = <<"token_rate">> /\ x = TokenRate(p)
    <2>1. Has(e, s, x) <=> p.connect > 0 /\ Has({Inc(<<"connect_duration">>)}, s, x)
        BY HasIf, Zenon
    <2>3. Has(g, s, x) <=> RateIsValid(p) /\ Has({Set(<<"token_rate">>, TokenRate(p))}, s, x)
        BY HasIf, Zenon
    <2> HIDE DEF e, g
    <2> QED BY <2>1, <2>3, HasSet, HasInc
<1>4. Has(f, s, x) <=> \E t \in TokenCounts : s = <<t>> /\ x = p.tokens[t]
    <2>1. ASSUME Has(f, s, x) PROVE \E t \in TokenCounts : s = <<t>> /\ x = p.tokens[t]
        <3>1. PICK w \in Tokens(p) : w.series = s /\ w.value = x
            BY <2>1 DEF Has
        <3>2. PICK t \in TokenCounts : w = Set(<<t>>, p.tokens[t])
            BY DEF Tokens
        <3>3. s = <<t>> /\ x = p.tokens[t]
            BY <3>1, <3>2, WriteOf
        <3> QED BY <3>3
    <2>2. ASSUME NEW t \in TokenCounts, s = <<t>>, x = p.tokens[t] PROVE Has(f, s, x)
        <3>1. Set(<<t>>, p.tokens[t]) \in f
            BY DEF Tokens
        <3>2. Set(<<t>>, p.tokens[t]).series = s /\ Set(<<t>>, p.tokens[t]).value = x
            BY <2>2, WriteOf
        <3> QED BY <3>1, <3>2 DEF Has
    <2> QED BY <2>1, <2>2
<1>5. Has(h, s, x) <=> SideSays(p, s, x)
    BY SideSaid
<1>6. SuccessEntries(p, i) = (((((((a \cup b) \cup c) \cup d) \cup e) \cup f) \cup g) \cup h)
    BY DEF SuccessEntries
<1> HIDE DEF a, b, c, d, e, f, g, h
<1>7. /\ Has(a \cup b, s, x) <=> Has(a, s, x) \/ Has(b, s, x)
      /\ Has((a \cup b) \cup c, s, x) <=> Has(a \cup b, s, x) \/ Has(c, s, x)
      /\ Has(((a \cup b) \cup c) \cup d, s, x) <=> Has((a \cup b) \cup c, s, x) \/ Has(d, s, x)
    BY HasEither
<1> DEFINE abcd == ((a \cup b) \cup c) \cup d
<1>8. Has(abcd, s, x) <=> Has(a, s, x) \/ Has(b, s, x) \/ Has(c, s, x) \/ Has(d, s, x)
    BY <1>7
<1>9. SuccessEntries(p, i) = (((abcd \cup e) \cup f) \cup g) \cup h
    BY <1>6
<1> HIDE DEF abcd
<1>10. /\ Has(abcd \cup e, s, x) <=> Has(abcd, s, x) \/ Has(e, s, x)
       /\ Has((abcd \cup e) \cup f, s, x) <=> Has(abcd \cup e, s, x) \/ Has(f, s, x)
       /\ Has(((abcd \cup e) \cup f) \cup g, s, x) <=> Has((abcd \cup e) \cup f, s, x) \/ Has(g, s, x)
       /\ Has((((abcd \cup e) \cup f) \cup g) \cup h, s, x)
             <=> Has(((abcd \cup e) \cup f) \cup g, s, x) \/ Has(h, s, x)
    BY HasEither
<1>11. Has(SuccessEntries(p, i), s, x)
         <=> \/ Has(a, s, x) \/ Has(b, s, x) \/ Has(c, s, x) \/ Has(d, s, x)
             \/ Has(e, s, x) \/ Has(f, s, x) \/ Has(g, s, x) \/ Has(h, s, x)
    BY <1>8, <1>9, <1>10
<1> QED BY <1>1, <1>2, <1>3, <1>4, <1>5, <1>11 DEF SuccessSays

LEMMA FailureSaid ==
    ASSUME NEW p, NEW i, NEW s, NEW x, p.success = FALSE
    PROVE  Says(p, i, s, x) <=> FailureSays(p, s, x)
<1> DEFINE a == {Set(<<"success">>, 0)}
           b == If(p.duration > 0, Inc(<<"duration">>))
           c == If(p.connect > 0, Inc(<<"connect_duration">>))
           d == If(p.errType # "", Inc(Errors(p)))
           e == SideEntries(p)
<1>1. Says(p, i, s, x) <=> Has(FailureEntries(p), s, x)
    BY DEF Says, Has, WritesOf
<1>2. /\ Has(a, s, x) <=> s = <<"success">> /\ x = 0
      /\ Has(b, s, x) <=> p.duration > 0 /\ s = <<"duration">> /\ x = 1
      /\ Has(c, s, x) <=> p.connect > 0 /\ s = <<"connect_duration">> /\ x = 1
      /\ Has(d, s, x) <=> p.errType # "" /\ s = Errors(p) /\ x = 1
    <2>1. Has(b, s, x) <=> p.duration > 0 /\ Has({Inc(<<"duration">>)}, s, x)
        BY HasIf, Zenon
    <2>2. Has(c, s, x) <=> p.connect > 0 /\ Has({Inc(<<"connect_duration">>)}, s, x)
        BY HasIf, Zenon
    <2>3. Has(d, s, x) <=> p.errType # "" /\ Has({Inc(Errors(p))}, s, x)
        BY HasIf, Zenon
    <2>4. Has(a, s, x) <=> s = <<"success">> /\ x = 0
        BY HasSet
    <2> HIDE DEF a, b, c, d
    <2> QED BY <2>1, <2>2, <2>3, <2>4, HasInc
<1>3. Has(e, s, x) <=> SideSays(p, s, x)
    BY SideSaid
<1>4. FailureEntries(p) = (((a \cup b) \cup c) \cup d) \cup e
    BY DEF FailureEntries
<1> HIDE DEF a, b, c, d, e
<1>5. /\ Has(a \cup b, s, x) <=> Has(a, s, x) \/ Has(b, s, x)
      /\ Has((a \cup b) \cup c, s, x) <=> Has(a \cup b, s, x) \/ Has(c, s, x)
      /\ Has(((a \cup b) \cup c) \cup d, s, x) <=> Has((a \cup b) \cup c, s, x) \/ Has(d, s, x)
      /\ Has((((a \cup b) \cup c) \cup d) \cup e, s, x)
            <=> Has(((a \cup b) \cup c) \cup d, s, x) \/ Has(e, s, x)
    BY HasEither
<1>6. Has(FailureEntries(p), s, x)
        <=> Has(a, s, x) \/ Has(b, s, x) \/ Has(c, s, x) \/ Has(d, s, x) \/ Has(e, s, x)
    BY <1>4, <1>5
<1> QED BY <1>1, <1>2, <1>3, <1>6 DEF FailureSays

LEMMA AboutSays ==
    ASSUME NEW p, NEW i, NEW s
    PROVE  About(p, i, s) <=> \E x : Says(p, i, s, x)
<1>1. ASSUME About(p, i, s) PROVE \E x : Says(p, i, s, x)
    <2>1. PICK w \in WritesOf(p, i) : w.series = s
        BY <1>1 DEF About, Mentions
    <2>2. Says(p, i, s, w.value)
        BY <2>1 DEF Says
    <2> QED BY <2>2
<1>2. ASSUME NEW x, Says(p, i, s, x) PROVE About(p, i, s)
    BY <1>2 DEF About, Mentions, Says
<1> QED BY <1>1, <1>2

\* What is said of a series with a name alone.
LEMMA SaidOfName ==
    ASSUME NEW p \in Probes, NEW i, NEW v, v # "ssl_cert_expiry", NEW x
    PROVE  Says(p, i, <<v>>, x) <=>
             \/ v = "success" /\ x = IF p.success THEN 1 ELSE 0
             \/ v = "last_success" /\ p.success /\ x = i
             \/ v = "duration" /\ p.duration > 0 /\ x = 1
             \/ v = "ttft" /\ p.success /\ x = 1
             \/ v = "connect_duration" /\ p.connect > 0 /\ x = 1
             \/ v \in TokenCounts /\ p.success /\ x = p.tokens[v]
             \/ v = "token_rate" /\ p.success /\ RateIsValid(p) /\ x = TokenRate(p)
<1> DEFINE s == <<v>>
<1>1. /\ s = <<"success">> <=> v = "success"
      /\ s = <<"last_success">> <=> v = "last_success"
      /\ s = <<"duration">> <=> v = "duration"
      /\ s = <<"ttft">> <=> v = "ttft"
      /\ s = <<"connect_duration">> <=> v = "connect_duration"
      /\ s = <<"token_rate">> <=> v = "token_rate"
      /\ s # <<"ssl_cert_expiry">>
    BY Names
<1>2. \A t : s = <<t>> <=> v = t
    BY Names
<1>3. s # Errors(p) /\ s # Remaining("requests") /\ s # Remaining("tokens")
    BY Names DEF Errors
<1>4. p.success => p.duration # 0
    <2>1. p.duration = 0 => p.errType # ""
        BY OutcomeKnown
    <2>2. p.success => p.errType = ""
        BY OutcomeKnown, Zenon
    <2> QED BY <2>1, <2>2, Zenon
<1> HIDE DEF s
<1>5. ~SideSays(p, s, x)
    BY <1>1, <1>3 DEF SideSays
<1>6. CASE p.success
    <2>1. Says(p, i, s, x) <=> SuccessSays(p, i, s, x)
        BY <1>6, SuccessSaid
    <2>2. (\E t \in TokenCounts : s = <<t>> /\ x = p.tokens[t]) <=> v \in TokenCounts /\ x = p.tokens[v]
        BY <1>2
    <2>3. SuccessSays(p, i, s, x) <=>
             \/ v = "success" /\ x = 1
             \/ v = "last_success" /\ x = i
             \/ v = "duration" /\ x = 1
             \/ v = "ttft" /\ x = 1
             \/ p.connect > 0 /\ v = "connect_duration" /\ x = 1
             \/ v \in TokenCounts /\ x = p.tokens[v]
             \/ RateIsValid(p) /\ v = "token_rate" /\ x = TokenRate(p)
        BY <1>1, <1>5, <2>2 DEF SuccessSays
    <2>4. p.duration > 0
        <3>1. p.duration \in Nat
            BY OutcomeKnown
        <3>2. p.duration # 0
            BY <1>4, <1>6
        <3> QED BY <3>1, <3>2
    <2> QED BY <1>6, <2>1, <2>3, <2>4 DEF s
<1>7. CASE p.success = FALSE
    <2>1. Says(p, i, s, x) <=> FailureSays(p, s, x)
        BY <1>7, FailureSaid
    <2>2. FailureSays(p, s, x) <=>
             \/ v = "success" /\ x = 0
             \/ p.duration > 0 /\ v = "duration" /\ x = 1
             \/ p.connect > 0 /\ v = "connect_duration" /\ x = 1
        BY <1>1, <1>3, <1>5 DEF FailureSays
    <2> QED BY <1>7, <2>1, <2>2 DEF s
<1> QED BY <1>6, <1>7, OutcomeKnown

LEMMA SaidOfError ==
    ASSUME NEW p \in Probes, NEW i, NEW r, NEW x
    PROVE  Says(p, i, Errors(r), x) <=> p.success = FALSE /\ Errors(p) = Errors(r) /\ x = 1
<1> DEFINE s == Errors(r)
<1>1. /\ s # <<"success">> /\ s # <<"last_success">> /\ s # <<"duration">> /\ s # <<"ttft">>
      /\ s # <<"connect_duration">> /\ s # <<"token_rate">> /\ s # <<"ssl_cert_expiry">>
      /\ s # Remaining("requests") /\ s # Remaining("tokens")
      /\ \A t : s # <<t>>
    BY Names DEF Errors
<1> HIDE DEF s
<1>2. ~SideSays(p, s, x)
    BY <1>1 DEF SideSays
<1>3. CASE p.success
    <2>1. Says(p, i, s, x) <=> SuccessSays(p, i, s, x)
        BY <1>3, SuccessSaid
    <2>2. ~SuccessSays(p, i, s, x)
        BY <1>1, <1>2 DEF SuccessSays
    <2> QED BY <1>3, <2>1, <2>2 DEF s
<1>4. CASE p.success = FALSE
    <2>1. Says(p, i, s, x) <=> FailureSays(p, s, x)
        BY <1>4, FailureSaid
    <2>2. FailureSays(p, s, x) <=> s = Errors(p) /\ x = 1
        BY <1>1, <1>2, <1>4, OutcomeKnown DEF FailureSays
    <2> QED BY <1>4, <2>1, <2>2 DEF s
<1> QED BY <1>3, <1>4, OutcomeKnown

LEMMA GaugeNames ==
    /\ <<"success">> \in SeriesNames /\ ~IsCounter(<<"success">>)
    /\ <<"last_success">> \in SeriesNames /\ ~IsCounter(<<"last_success">>)
    /\ <<"token_rate">> \in SeriesNames /\ ~IsCounter(<<"token_rate">>)
    /\ \A t \in TokenCounts : <<t>> \in SeriesNames /\ ~IsCounter(<<t>>)
BY DEF SeriesNames, IsCounter, Counters, TokenCounts

LEMMA CounterNames ==
    /\ <<"duration">> \in SeriesNames /\ IsCounter(<<"duration">>)
    /\ <<"ttft">> \in SeriesNames /\ IsCounter(<<"ttft">>)
    /\ <<"connect_duration">> \in SeriesNames /\ IsCounter(<<"connect_duration">>)
    /\ \A p \in Probes : Errors(p) \in SeriesNames /\ IsCounter(Errors(p))
<1>1. \A p \in Probes : Errors(p)[1] = "errors"
    BY DEF Errors
<1> QED BY <1>1 DEF SeriesNames, IsCounter, Counters

LEMMA Places ==
    ASSUME Books
    PROVE  /\ Successes \subseteq DOMAIN done
           /\ \A i \in DOMAIN done : done[i] \in Probes
BY DEF Books, History, Successes

\* The gauges, one by one.
LEMMA VerdictShown ==
    ASSUME Books, AtRest
    PROVE  /\ <<"success">> \in DOMAIN registry <=> DOMAIN done # {}
           /\ DOMAIN done # {} =>
                  registry[<<"success">>] = IF done[Max(DOMAIN done)].success THEN 1 ELSE 0
<1>1. \A x : \A i \in DOMAIN done :
         Says(done[i], i, <<"success">>, x) <=> x = IF done[i].success THEN 1 ELSE 0
    BY Places, SaidOfName DEF TokenCounts
<1>2. \A i \in DOMAIN done : About(done[i], i, <<"success">>)
    BY <1>1, AboutSays
<1>3. /\ <<"success">> \in DOMAIN registry <=> DOMAIN done # {}
      /\ DOMAIN done # {} =>
             /\ Max(DOMAIN done) \in DOMAIN done
             /\ Says(done[Max(DOMAIN done)], Max(DOMAIN done), <<"success">>, registry[<<"success">>])
    BY <1>2, GaugeNames, GaugeShows
<1> QED BY <1>1, <1>3

LEMMA LastSuccessShown ==
    ASSUME Books, AtRest
    PROVE  /\ <<"last_success">> \in DOMAIN registry <=> Successes # {}
           /\ Successes # {} => registry[<<"last_success">>] = Max(Successes)
<1>1. \A x : \A i \in DOMAIN done :
         Says(done[i], i, <<"last_success">>, x) <=> done[i].success /\ x = i
    BY Places, SaidOfName DEF TokenCounts
<1>2. \A i \in DOMAIN done : About(done[i], i, <<"last_success">>) <=> i \in Successes
    BY <1>1, AboutSays DEF Successes
<1>3. /\ <<"last_success">> \in DOMAIN registry <=> Successes # {}
      /\ Successes # {} =>
             /\ Max(Successes) \in Successes
             /\ Says(done[Max(Successes)], Max(Successes), <<"last_success">>,
                     registry[<<"last_success">>])
    BY <1>2, Places, GaugeNames, GaugeShows
<1> QED BY <1>1, <1>3, Places

LEMMA TokensShown ==
    ASSUME Books, AtRest, NEW t \in TokenCounts
    PROVE  /\ <<t>> \in DOMAIN registry <=> Successes # {}
           /\ Successes # {} => registry[<<t>>] = done[Max(Successes)].tokens[t]
<1>1. \A x : \A i \in DOMAIN done :
         Says(done[i], i, <<t>>, x) <=> done[i].success /\ x = done[i].tokens[t]
    BY Places, SaidOfName DEF TokenCounts
<1>2. \A i \in DOMAIN done : About(done[i], i, <<t>>) <=> i \in Successes
    BY <1>1, AboutSays DEF Successes
<1>3. /\ <<t>> \in DOMAIN registry <=> Successes # {}
      /\ Successes # {} =>
             /\ Max(Successes) \in Successes
             /\ Says(done[Max(Successes)], Max(Successes), <<t>>, registry[<<t>>])
    BY <1>2, Places, GaugeNames, GaugeShows
<1> QED BY <1>1, <1>3, Places

Rated == {i \in Successes : /\ done[i].tokens["output_tokens"] >= 5
                            /\ done[i].duration >= done[i].ttft + 100}

LEMMA RateShown ==
    ASSUME Books, AtRest
    PROVE  /\ <<"token_rate">> \in DOMAIN registry <=> Rated # {}
           /\ Rated # {} =>
                  registry[<<"token_rate">>] =
                      (1000 * done[Max(Rated)].tokens["output_tokens"])
                        \div (done[Max(Rated)].duration - done[Max(Rated)].ttft)
<1>1. \A x : \A i \in DOMAIN done :
         Says(done[i], i, <<"token_rate">>, x)
             <=> done[i].success /\ RateIsValid(done[i]) /\ x = TokenRate(done[i])
    BY Places, SaidOfName DEF TokenCounts
<1>2. \A p \in Probes : RateIsValid(p) <=> /\ p.tokens["output_tokens"] >= 5
                                           /\ p.duration >= p.ttft + 100
    <2>1. \A p \in Probes : p.duration \in Nat /\ p.ttft \in Nat
        BY ProbeAssumption DEF ProbesWith
    <2> QED BY <2>1 DEF RateIsValid, MinTokenRateGenDuration, MinTokenRateOutputTokens
<1>3. \A i \in DOMAIN done : About(done[i], i, <<"token_rate">>)
                                 <=> done[i].success /\ RateIsValid(done[i])
    BY <1>1, AboutSays
<1>4. \A i \in DOMAIN done : i \in Rated <=> done[i].success /\ RateIsValid(done[i])
    BY <1>2, Places DEF Rated, Successes
<1>5. Rated \subseteq DOMAIN done
    BY Places DEF Rated
<1>6. \A i \in DOMAIN done : About(done[i], i, <<"token_rate">>) <=> i \in Rated
    BY <1>3, <1>4
<1>7. /\ <<"token_rate">> \in DOMAIN registry <=> Rated # {}
      /\ Rated # {} =>
             /\ Max(Rated) \in Rated
             /\ Says(done[Max(Rated)], Max(Rated), <<"token_rate">>, registry[<<"token_rate">>])
    BY <1>5, <1>6, GaugeNames, GaugeShows
<1>8. Rated # {} => registry[<<"token_rate">>] = TokenRate(done[Max(Rated)])
    BY <1>1, <1>5, <1>7
<1> QED BY <1>7, <1>8 DEF TokenRate

\* The counters, one by one.
LEMMA DurationsCounted ==
    ASSUME Books, AtRest
    PROVE  Value(<<"duration">>) = Cardinality({i \in DOMAIN done : done[i].duration > 0})
<1> DEFINE h == {i \in DOMAIN done : done[i].duration > 0}
<1>1. \A x : \A i \in DOMAIN done :
         Says(done[i], i, <<"duration">>, x) <=> done[i].duration > 0 /\ x = 1
    BY Places, SaidOfName DEF TokenCounts
<1>2. \A i \in DOMAIN done : About(done[i], i, <<"duration">>) <=> i \in h
    BY <1>1, AboutSays
<1>3. h \subseteq DOMAIN done
    OBVIOUS
<1> HIDE DEF h
<1>4. Value(<<"duration">>) = Cardinality(h)
    BY <1>2, <1>3, CounterNames, CounterShows
<1> QED BY <1>4 DEF h

LEMMA ConnectsCounted ==
    ASSUME Books, AtRest
    PROVE  Value(<<"connect_duration">>) = Cardinality({i \in DOMAIN done : done[i].connect > 0})
<1> DEFINE h == {i \in DOMAIN done : done[i].connect > 0}
<1>1. \A x : \A i \in DOMAIN done :
         Says(done[i], i, <<"connect_duration">>, x) <=> done[i].connect > 0 /\ x = 1
    BY Places, SaidOfName DEF TokenCounts
<1>2. \A i \in DOMAIN done : About(done[i], i, <<"connect_duration">>) <=> i \in h
    BY <1>1, AboutSays
<1>3. h \subseteq DOMAIN done
    OBVIOUS
<1> HIDE DEF h
<1>4. Value(<<"connect_duration">>) = Cardinality(h)
    BY <1>2, <1>3, CounterNames, CounterShows
<1> QED BY <1>4 DEF h

LEMMA FirstTokensCounted ==
    ASSUME Books, AtRest
    PROVE  Value(<<"ttft">>) = Cardinality(Successes)
<1>1. \A x : \A i \in DOMAIN done :
         Says(done[i], i, <<"ttft">>, x) <=> done[i].success /\ x = 1
    BY Places, SaidOfName DEF TokenCounts
<1>2. \A i \in DOMAIN done : About(done[i], i, <<"ttft">>) <=> i \in Successes
    BY <1>1, AboutSays DEF Successes
<1> QED BY <1>2, Places, CounterNames, CounterShows

LEMMA ErrorsCounted ==
    ASSUME Books, AtRest, NEW p \in Probes
    PROVE  Value(Errors(p)) = Cardinality({i \in DOMAIN done :
                                  ~done[i].success /\ Errors(done[i]) = Errors(p)})
<1> DEFINE s == Errors(p)
           h == {i \in DOMAIN done : ~done[i].success /\ Errors(done[i]) = s}
<1>2. \A x : \A i \in DOMAIN done :
         Says(done[i], i, s, x) <=> done[i].success = FALSE /\ Errors(done[i]) = s /\ x = 1
    BY Places, SaidOfError
<1> HIDE DEF s
<1>3. \A i \in DOMAIN done : done[i].success \in BOOLEAN
    BY Places, OutcomeKnown
<1>4. \A i \in DOMAIN done : About(done[i], i, s) <=> done[i].success = FALSE /\ Errors(done[i]) = s
    BY <1>2, AboutSays
<1>5. \A i \in DOMAIN done : About(done[i], i, s) <=> i \in h
    BY <1>3, <1>4
<1>6. h \subseteq DOMAIN done /\ s \in SeriesNames /\ IsCounter(s)
    BY CounterNames DEF s
<1> HIDE DEF h
<1>7. Value(s) = Cardinality(h)
    BY <1>5, <1>6, CounterShows
<1> QED BY <1>7 DEF h, s

\* Between probes the verdict shown is that of the last probe; time stamp and
\* token counts are all those of the last success, and the rate that of the
\* last success that has one.
THEOREM LatestShown == Spec => []GaugesLatest
<1>1. ASSUME Books PROVE GaugesLatest
    <2> SUFFICES ASSUME AtRest
                 PROVE  /\ ShowsLast(<<"success">>, DOMAIN done, LAMBDA i : IF done[i].success THEN 1 ELSE 0)
                        /\ ShowsLast(<<"last_success">>, Successes, LAMBDA i : i)
                        /\ \A t \in TokenCounts :
                               ShowsLast(<<t>>, Successes, LAMBDA i : done[i].tokens[t])
                        /\ ShowsLast(<<"token_rate">>, Rated,
                                     LAMBDA i : (1000 * done[i].tokens["output_tokens"])
                                                  \div (done[i].duration - done[i].ttft))
        BY DEF GaugesLatest, Rated
    <2>1. ShowsLast(<<"success">>, DOMAIN done, LAMBDA i : IF done[i].success THEN 1 ELSE 0)
        BY <1>1, VerdictShown DEF ShowsLast
    <2>2. ShowsLast(<<"last_success">>, Successes, LAMBDA i : i)
        BY <1>1, LastSuccessShown DEF ShowsLast
    <2>3. \A t \in TokenCounts : ShowsLast(<<t>>, Successes, LAMBDA i : done[i].tokens[t])
        BY <1>1, TokensShown DEF ShowsLast
    <2>4. ShowsLast(<<"token_rate">>, Rated,
                    LAMBDA i : (1000 * done[i].tokens["output_tokens"])
                                 \div (done[i].duration - done[i].ttft))
        BY <1>1, RateShown DEF ShowsLast
    <2> QED BY <2>1, <2>2, <2>3, <2>4
<1> QED BY <1>1, BooksKept, PTL

\* Between probes every failure since the reset has been counted once under its
\* own type and status, and requests, first tokens and connections have been
\* observed once each.
THEOREM CountedOnce == Spec => []CountersExact
<1>1. ASSUME Books PROVE CountersExact
    BY <1>1, DurationsCounted, ConnectsCounted, FirstTokensCounted, ErrorsCounted DEF CountersExact
<1> QED BY <1>1, BooksKept, PTL

-----------------------------------------------------------------------------
(* Induction over data: what a fold comes to.  A fold is a function on the *)
(* subsets of its index set, chosen to satisfy its recursive equation: a   *)
(* function written down for the purpose shows that there is one, and      *)
(* induction over subsets that it is the only one.                         *)

LEMMA LeastNumber ==
    ASSUME NEW T, T \subseteq Nat, T # {}
    PROVE  \E m \in T : \A n \in T : m <= n
<1> DEFINE R == {ss \in Nat \X Nat : ss[1] < ss[2]}
<1>1. IsWellFoundedOn(R, Nat)
    BY NatLessThanWellFounded DEF OpToRel
<1>2. \A y, x \in Nat : y < x => <<y, x>> \in R
    OBVIOUS
<1> HIDE DEF R
<1>3. PICK x \in T : \A y \in T : ~(<<y, x>> \in R)
    BY <1>1, WFMin
<1>4. \A y \in T : ~(y < x)
    BY <1>2, <1>3
<1>5. \A n \in T : x <= n
    BY <1>4
<1> QED BY <1>5

LEMMA LeastOne ==
    ASSUME NEW T, T \subseteq Nat, T # {}
    PROVE  /\ Min(T) \in T /\ \A n \in T : Min(T) <= n
           /\ \A m \in T : (\A n \in T : m <= n) => m = Min(T)
<1>1. PICK m \in T : \A n \in T : m <= n
    BY LeastNumber
<1>2. Min(T) \in T /\ \A n \in T : Min(T) <= n
    BY <1>1 DEF Min
<1>3. ASSUME NEW k \in T, \A n \in T : k <= n PROVE k = Min(T)
    <2>1. k <= Min(T) /\ Min(T) <= k /\ k \in Nat /\ Min(T) \in Nat
        BY <1>2, <1>3
    <2> QED BY <2>1
<1> QED BY <1>2, <1>3

LEMMA GreatestOne ==
    ASSUME NEW n \in Nat, NEW T, T \subseteq 1 .. n, T # {}
    PROVE  Max(T) \in T /\ \A i \in T : i <= Max(T)
<1> DEFINE D == {d \in Nat : \E i \in T : d = n - i}
<1>1. D \subseteq Nat /\ D # {} /\ \A i \in T : n - i \in D
    <2>1. \A i \in T : n - i \in Nat
        OBVIOUS
    <2>2. \A i \in T : n - i \in D
        BY <2>1
    <2> QED BY <2>2
<1>2. PICK d \in D : \A e \in D : d <= e
    BY <1>1, LeastNumber
<1>3. PICK m \in T : d = n - m
    OBVIOUS
<1> HIDE DEF D
<1>4. \A i \in T : i <= m
    BY <1>1, <1>2, <1>3
<1>5. \A i \in T : m >= i
    BY <1>4
<1>6. Max(T) \in T /\ \A i \in T : Max(T) >= i
    BY <1>5 DEF Max
<1> QED BY <1>6

\* Two functions are equal on every subset of S on whose proper subsets they are.
Inductive(S, f, g) ==
    \A s \in SUBSET S : (\A r \in SUBSET s : r # s => f[r] = g[r]) => f[s] = g[s]

LEMMA SubsetInduction ==
    ASSUME NEW S, IsFiniteSet(S), NEW f, NEW g, Inductive(S, f, g)
    PROVE  f[S] = g[S]
<1> DEFINE B == {s \in SUBSET S : f[s] # g[s]}
<1> SUFFICES ASSUME B # {} PROVE FALSE
    <2>1. S \in SUBSET S
        OBVIOUS
    <2> QED BY <2>1
<1>1. IsWellFoundedOn(StrictSubsetOrdering(S), SUBSET S)
    BY FS_StrictSubsetOrderingWellFounded, FS_FiniteSubsetsOfFinite
<1>2. B \subseteq SUBSET S
    OBVIOUS
<1> HIDE DEF B
<1>3. PICK s \in B : \A r \in B : ~(<<r, s>> \in StrictSubsetOrdering(S))
    BY <1>1, <1>2, WFMin
<1>4. ASSUME NEW r \in SUBSET s, r # s PROVE r \notin B
    <2> SUFFICES ASSUME r \in B PROVE FALSE
        OBVIOUS
    <2>1. <<r, s>> \in StrictSubsetOrdering(S)
        BY <1>2, <1>4 DEF StrictSubsetOrdering
    <2> QED BY <1>3, <2>1
<1>5. s \in SUBSET S /\ f[s] # g[s]
    BY DEF B
<1>6. \A r \in SUBSET s : r # s => f[r] = g[r]
    BY <1>4, <1>5 DEF B
<1> QED BY <1>5, <1>6 DEF Inductive

-----------------------------------------------------------------------------
(* The certificates.                                                       *)

\* The fold of EarliestPeerCertNotAfter.
Earliest(it, h, t) ==
    it = [s \in SUBSET (DOMAIN t) |->
             IF s = {} THEN h
             ELSE IF t[Max(s)] < it[s \ {Max(s)}] THEN t[Max(s)] ELSE it[s \ {Max(s)}]]

FirstOf(h, t, s) == Min({h} \cup {t[i] : i \in s})

LEMMA FirstSteps ==
    ASSUME NEW h \in Nat, NEW t \in Seq(Nat), NEW s \in SUBSET (DOMAIN t)
    PROVE  FirstOf(h, t, s) = IF s = {} THEN h
                              ELSE IF t[Max(s)] < FirstOf(h, t, s \ {Max(s)}) THEN t[Max(s)]
                              ELSE FirstOf(h, t, s \ {Max(s)})
<1>1. DOMAIN t = 1 .. Len(t) /\ Len(t) \in Nat /\ \A i \in DOMAIN t : t[i] \in Nat
    OBVIOUS
<1>2. CASE s = {}
    <2> DEFINE A == {h} \cup {t[i] : i \in s}
    <2>1. A = {h}
        BY <1>2
    <2>2. Min(A) \in A
        BY <2>1, LeastOne
    <2> QED BY <1>2, <2>1, <2>2 DEF FirstOf
<1>3. CASE s # {}
    <2> DEFINE m == Max(s)
               A == {h} \cup {t[i] : i \in s \ {m}}
               C == {h} \cup {t[i] : i \in s}
    <2>1. m \in s /\ t[m] \in Nat
        BY <1>1, <1>3, GreatestOne
    <2> HIDE DEF m
    <2>2. A \subseteq Nat /\ A # {} /\ C \subseteq Nat /\ C # {} /\ C = A \cup {t[m]}
        BY <1>1, <2>1
    <2> HIDE DEF A, C
    <2>3. Min(A) \in A /\ \A n \in A : Min(A) <= n
        BY <2>2, LeastOne
    <2>4. \A c \in C : (\A n \in C : c <= n) => c = Min(C)
        BY <2>2, LeastOne
    <2>5. Min(C) = IF t[m] < Min(A) THEN t[m] ELSE Min(A)
        <3>1. CASE t[m] < Min(A)
            <4>1. \A n \in C : t[m] <= n
                BY <2>1, <2>2, <2>3, <3>1
            <4> QED BY <2>2, <2>4, <3>1, <4>1
        <3>2. CASE ~(t[m] < Min(A))
            <4>1. \A n \in C : Min(A) <= n
                BY <2>1, <2>2, <2>3, <3>2
            <4> QED BY <2>2, <2>3, <2>4, <3>2, <4>1
        <3> QED BY <3>1, <3>2
    <2> QED BY <1>3, <2>5 DEF FirstOf, A, C, m
<1> QED BY <1>2, <1>3

LEMMA EarliestFold ==
    ASSUME NEW h \in Nat, NEW t \in Seq(Nat)
    PROVE  FoldLeft(LAMBDA earliest, c : IF c < earliest THEN c ELSE earliest, h, t)
              = FirstOf(h, t, DOMAIN t)
<1> DEFINE D == DOMAIN t
           w == [s \in SUBSET D |-> FirstOf(h, t, s)]
           v == CHOOSE it : Earliest(it, h, t)
<1>1. D = 1 .. Len(t) /\ Len(t) \in Nat /\ IsFiniteSet(D)
    BY FS_Interval
<1>2. Earliest(w, h, t)
    <2>1. ASSUME NEW s \in SUBSET D
          PROVE  w[s] = IF s = {} THEN h
                        ELSE IF t[Max(s)] < w[s \ {Max(s)}] THEN t[Max(s)] ELSE w[s \ {Max(s)}]
        <3>1. w[s] = FirstOf(h, t, s) /\ w[s \ {Max(s)}] = FirstOf(h, t, s \ {Max(s)})
            OBVIOUS
        <3> HIDE DEF w
        <3> QED BY <3>1, FirstSteps
    <2>2. w = [s \in SUBSET D |-> w[s]]
        OBVIOUS
    <2> HIDE DEF w
    <2> QED BY <2>1, <2>2 DEF Earliest
<1>3. Earliest(v, h, t)
    BY <1>2
<1> HIDE DEF v, w
<1>4. Inductive(D, v, w)
    <2> SUFFICES ASSUME NEW s \in SUBSET D, \A r \in SUBSET s : r # s => v[r] = w[r]
                 PROVE  v[s] = w[s]
        BY DEF Inductive
    <2>1. /\ v[s] = IF s = {} THEN h
                    ELSE IF t[Max(s)] < v[s \ {Max(s)}] THEN t[Max(s)] ELSE v[s \ {Max(s)}]
          /\ w[s] = IF s = {} THEN h
                    ELSE IF t[Max(s)] < w[s \ {Max(s)}] THEN t[Max(s)] ELSE w[s \ {Max(s)}]
        BY <1>2, <1>3 DEF Earliest
    <2>2. CASE s # {}
        <3>1. Max(s) \in s
            BY <1>1, <2>2, GreatestOne
        <3>2. v[s \ {Max(s)}] = w[s \ {Max(s)}]
            BY <3>1
        <3> QED BY <2>1, <3>2
    <2> QED BY <2>1, <2>2
<1>5. v[D] = w[D]
    BY <1>1, <1>4, SubsetInduction
<1>6. FoldLeft(LAMBDA earliest, c : IF c < earliest THEN c ELSE earliest, h, t) = v[D]
    BY Zenon DEF FoldLeft, MapThenFoldSet, Earliest, v
<1> QED BY <1>5, <1>6 DEF w

\* earliestPeerCertNotAfter: the first to expire of a chain of any length.
LEMMA EarliestOne ==
    ASSUME NEW certs \in Seq(Nat \ {0})
    PROVE  /\ EarliestPeerCertNotAfter(certs) = 0 <=> certs = << >>
           /\ certs # << >> => EarliestPeerCertNotAfter(certs) = Min(Range(certs))
<1>1. CASE certs = << >>
    BY <1>1 DEF EarliestPeerCertNotAfter
<1>2. CASE certs # << >>
    <2> DEFINE h == Head(certs)
               t == Tail(certs)
    <2>1. h \in Nat /\ t \in Seq(Nat \ {0}) /\ t \in Seq(Nat)
        BY <1>2
    <2>2. EarliestPeerCertNotAfter(certs)
             = FoldLeft(LAMBDA earliest, c : IF c < earliest THEN c ELSE earliest, h, t)
        BY <1>2 DEF EarliestPeerCertNotAfter
    <2>3. Entries(certs) = {h} \cup Entries(t)
        BY <1>2, TailEntries
    <2>4. Range(certs) = {h} \cup {t[i] : i \in DOMAIN t}
        BY <2>3 DEF Range, Entries
    <2> HIDE DEF h, t
    <2>5. EarliestPeerCertNotAfter(certs) = FirstOf(h, t, DOMAIN t)
        BY <2>1, <2>2, EarliestFold
    <2>6. EarliestPeerCertNotAfter(certs) = Min(Range(certs))
        BY <2>4, <2>5 DEF FirstOf
    <2>7. Range(certs) \subseteq Nat \ {0} /\ Range(certs) # {}
        <3>1. Range(certs) \subseteq Nat \ {0}
            BY DEF Range
        <3> QED BY <2>4, <3>1
    <2>8. Min(Range(certs)) \in Range(certs)
        BY <2>7, LeastOne
    <2> QED BY <1>2, <2>6, <2>7, <2>8
<1> QED BY <1>1, <1>2

-----------------------------------------------------------------------------
(* The rate limits.                                                        *)

\* The header of candidate i, and the candidates that report the kind.
Reading(headers, i) == Get(headers, Candidates[i].name)

Reporting(headers, kind, s) ==
    {i \in s : /\ Candidates[i].kind = kind
               /\ Reading(headers, i).numeric
               /\ Reading(headers, i).n # -1}

\* The fold of ParseRateLimitHeaders.
Parsing(it, headers) ==
    it = [s \in SUBSET (DOMAIN Candidates) |->
            IF s = {} THEN Unreported
            ELSE LET left == it[s \ {Max(s)}]
                     c == Candidates[Max(s)]
                 IN IF left[c.kind] # -1 \/ ~Get(headers, c.name).numeric THEN left
                 ELSE [left EXCEPT ![c.kind] = Get(headers, c.name).n]]

\* One turn of it, for the greatest candidate m, and what it comes to.
Turn(headers, m, left) ==
    IF left[Candidates[m].kind] # -1 \/ ~Reading(headers, m).numeric THEN left
    ELSE [left EXCEPT ![Candidates[m].kind] = Reading(headers, m).n]

FirstReported(headers, s) ==
    [kind \in Kinds |->
        IF Reporting(headers, kind, s) = {} THEN -1
        ELSE Reading(headers, Min(Reporting(headers, kind, s))).n]

Plain(headers) == \A i \in DOMAIN Candidates : /\ Reading(headers, i).numeric \in BOOLEAN
                                               /\ Reading(headers, i).n \in Int

LEMMA CandidateKinds ==
    /\ DOMAIN Candidates = 1 .. 6 /\ DOMAIN Candidates \subseteq Nat
    /\ \A i \in DOMAIN Candidates : Candidates[i].kind \in Kinds
<1>1. DOMAIN Candidates = 1 .. 6
    BY DEF Candidates
<1>2. \A i \in 1 .. 6 : i = 1 \/ i = 2 \/ i = 3 \/ i = 4 \/ i = 5 \/ i = 6
    OBVIOUS
<1>3. /\ Candidates[1].kind = "requests" /\ Candidates[2].kind = "requests"
      /\ Candidates[3].kind = "requests" /\ Candidates[4].kind = "tokens"
      /\ Candidates[5].kind = "tokens" /\ Candidates[6].kind = "tokens"
    BY DEF Candidates
<1> QED BY <1>1, <1>2, <1>3 DEF Kinds

LEMMA FirstReportedTurn ==
    ASSUME NEW headers, Plain(headers), NEW s \in SUBSET (DOMAIN Candidates), s # {}
    PROVE  FirstReported(headers, s) = Turn(headers, Max(s), FirstReported(headers, s \ {Max(s)}))
<1> DEFINE m == Max(s)
           k == Candidates[m].kind
           left == FirstReported(headers, s \ {m})
           before(kind) == Reporting(headers, kind, s \ {m})
           after(kind) == Reporting(headers, kind, s)
<1>1. m \in s /\ (\A i \in s : i <= m) /\ s \subseteq Nat
    BY CandidateKinds, GreatestOne
<1>2. k \in Kinds /\ Reading(headers, m).numeric \in BOOLEAN /\ Reading(headers, m).n \in Int
    BY <1>1, CandidateKinds DEF Plain
<1>3. \A kind : after(kind) \subseteq s /\ before(kind) \subseteq s \ {m}
    BY DEF Reporting
<1>4. \A kind : kind # k => after(kind) = before(kind)
    BY DEF Reporting
<1>5. after(k) = IF Reading(headers, m).numeric /\ Reading(headers, m).n # -1
                 THEN before(k) \cup {m} ELSE before(k)
    BY <1>1 DEF Reporting
<1>6. \A i \in before(k) : Reading(headers, i).n # -1
    BY DEF Reporting
<1>7. /\ \A kind \in Kinds : left[kind] = IF before(kind) = {} THEN -1
                                          ELSE Reading(headers, Min(before(kind))).n
      /\ left = [kind \in Kinds |-> left[kind]]
    BY DEF FirstReported
<1>8. \A kind \in Kinds : FirstReported(headers, s)[kind] =
          IF after(kind) = {} THEN -1 ELSE Reading(headers, Min(after(kind))).n
    BY DEF FirstReported
<1> HIDE DEF before, after, left, k, m
<1>9. left[k] # -1 <=> before(k) # {}
    <2>1. ASSUME before(k) # {} PROVE left[k] # -1
        <3>1. Min(before(k)) \in before(k)
            BY <1>1, <1>3, <2>1, LeastOne
        <3> QED BY <1>2, <1>6, <1>7, <2>1, <3>1
    <2> QED BY <1>2, <1>7, <2>1
<1>10. ASSUME NEW kind \in Kinds
       PROVE  FirstReported(headers, s)[kind] = Turn(headers, m, left)[kind]
    <2>1. Turn(headers, m, left) =
             IF left[k] # -1 \/ ~Reading(headers, m).numeric THEN left
             ELSE [left EXCEPT ![k] = Reading(headers, m).n]
        BY DEF Turn, k
    <2>2. CASE kind # k
        <3>1. FirstReported(headers, s)[kind] = left[kind]
            BY <1>4, <1>7, <1>8, <2>2
        <3>2. Turn(headers, m, left)[kind] = left[kind]
            BY <1>7, <2>1, <2>2
        <3> QED BY <3>1, <3>2
    <2>3. CASE kind = k /\ before(k) # {}
        <3>1. Turn(headers, m, left)[k] = left[k]
            BY <1>9, <2>1, <2>3
        <3>2. after(k) # {} /\ Min(after(k)) = Min(before(k))
            <4>1. /\ before(k) \subseteq Nat /\ after(k) \subseteq Nat
                  /\ after(k) = before(k) \/ after(k) = before(k) \cup {m}
                BY <1>1, <1>3, <1>5
            <4>2. /\ Min(before(k)) \in before(k)
                  /\ \A i \in before(k) : Min(before(k)) <= i
                BY <2>3, <4>1, LeastOne
            <4>3. Min(before(k)) \in after(k) /\ \A i \in after(k) : Min(before(k)) <= i
                BY <1>1, <1>3, <4>1, <4>2
            <4> QED BY <4>1, <4>3, LeastOne
        <3> QED BY <1>2, <1>7, <1>8, <2>3, <3>1, <3>2
    <2>4. CASE kind = k /\ before(k) = {} /\ Reading(headers, m).numeric = FALSE
        <3>1. after(k) = before(k)
            BY <1>5, <2>4
        <3> QED BY <1>2, <1>7, <1>8, <2>1, <2>4, <3>1
    <2>5. CASE kind = k /\ before(k) = {} /\ Reading(headers, m).numeric = TRUE
        <3>1. Turn(headers, m, left)[k] = Reading(headers, m).n
            BY <1>2, <1>7, <1>9, <2>1, <2>5
        <3>2. CASE Reading(headers, m).n = -1
            <4>1. after(k) = {}
                BY <1>5, <2>5, <3>2
            <4> QED BY <1>2, <1>8, <2>5, <3>1, <3>2, <4>1
        <3>3. CASE Reading(headers, m).n # -1
            <4>1. after(k) = {m} /\ m \in Nat
                BY <1>1, <1>5, <2>5, <3>3
            <4>2. Min({m}) \in {m}
                BY <4>1, LeastOne
            <4> QED BY <1>2, <1>8, <2>5, <3>1, <4>1, <4>2
        <3> QED BY <3>2, <3>3
    <2> QED BY <1>2, <2>2, <2>3, <2>4, <2>5
<1>11. FirstReported(headers, s) = [kind \in Kinds |-> FirstReported(headers, s)[kind]]
    BY DEF FirstReported
<1>12. Turn(headers, m, left) = [kind \in Kinds |-> Turn(headers, m, left)[kind]]
    BY <1>7 DEF Turn
<1> QED BY <1>10, <1>11, <1>12 DEF m, left

LEMMA ParsingTurns ==
    ASSUME NEW headers, NEW it
    PROVE  Parsing(it, headers) <=>
             it = [s \in SUBSET (DOMAIN Candidates) |->
                      IF s = {} THEN Unreported ELSE Turn(headers, Max(s), it[s \ {Max(s)}])]
BY DEF Parsing, Turn, Reading

\* parseRateLimitHeaders: of each kind, the first candidate that reports one.
LEMMA ParsedFirst ==
    ASSUME NEW headers, Plain(headers)
    PROVE  ParseRateLimitHeaders(headers) = FirstReported(headers, DOMAIN Candidates)
<1> DEFINE D == DOMAIN Candidates
           w == [s \in SUBSET D |-> FirstReported(headers, s)]
           v == CHOOSE it : Parsing(it, headers)
<1>1. D = 1 .. 6 /\ IsFiniteSet(D)
    <2>1. D = 1 .. 6
        BY CandidateKinds
    <2>2. 1 \in Int /\ 6 \in Int
        OBVIOUS
    <2>3. IsFiniteSet(1 .. 6)
        BY ONLY <2>2, FS_Interval
    <2> HIDE DEF D
    <2> QED BY <2>1, <2>3
<1>2. Parsing(w, headers)
    <2>1. ASSUME NEW s \in SUBSET D
          PROVE  w[s] = IF s = {} THEN Unreported ELSE Turn(headers, Max(s), w[s \ {Max(s)}])
        <3>1. w[s] = FirstReported(headers, s) /\ w[s \ {Max(s)}] = FirstReported(headers, s \ {Max(s)})
            OBVIOUS
        <3>2. CASE s = {}
            <4>1. FirstReported(headers, {}) = [kind \in Kinds |-> -1]
                BY DEF FirstReported, Reporting
            <4> QED BY <3>1, <3>2, <4>1 DEF Unreported
        <3>3. CASE s # {}
            <4> HIDE DEF w
            <4> QED BY <3>1, <3>3, FirstReportedTurn
        <3> QED BY <3>2, <3>3
    <2>2. w = [s \in SUBSET D |-> w[s]]
        OBVIOUS
    <2> HIDE DEF w
    <2>3. w = [s \in SUBSET D |-> IF s = {} THEN Unreported ELSE Turn(headers, Max(s), w[s \ {Max(s)}])]
        BY <2>1, <2>2
    <2> QED BY <2>3, ParsingTurns
<1>3. Parsing(v, headers)
    BY <1>2
<1> HIDE DEF v, w
<1>4. Inductive(D, v, w)
    <2> SUFFICES ASSUME NEW s \in SUBSET D, \A r \in SUBSET s : r # s => v[r] = w[r]
                 PROVE  v[s] = w[s]
        BY DEF Inductive
    <2>1. v[s] = IF s = {} THEN Unreported ELSE Turn(headers, Max(s), v[s \ {Max(s)}])
        <3>1. v = [r \in SUBSET D |->
                     IF r = {} THEN Unreported ELSE Turn(headers, Max(r), v[r \ {Max(r)}])]
            BY <1>3, ParsingTurns
        <3> QED BY <3>1
    <2>2. w[s] = IF s = {} THEN Unreported ELSE Turn(headers, Max(s), w[s \ {Max(s)}])
        <3>1. w = [r \in SUBSET D |->
                     IF r = {} THEN Unreported ELSE Turn(headers, Max(r), w[r \ {Max(r)}])]
            BY <1>2, ParsingTurns
        <3> QED BY <3>1
    <2>3. CASE s # {}
        <3>1. Max(s) \in s
            BY <1>1, <2>3, GreatestOne
        <3>2. v[s \ {Max(s)}] = w[s \ {Max(s)}]
            BY <3>1
        <3> QED BY <2>1, <2>2, <3>2
    <2> QED BY <2>1, <2>2, <2>3
<1>5. v[D] = w[D]
    BY <1>1, <1>4, SubsetInduction
<1>6. ParseRateLimitHeaders(headers) = v[D]
    BY Zenon DEF ParseRateLimitHeaders, FoldLeft, MapThenFoldSet, Parsing, v
<1>7. w[D] = FirstReported(headers, D)
    <2>1. D \in SUBSET D
        OBVIOUS
    <2> QED BY <2>1 DEF w
<1> QED BY <1>5, <1>6, <1>7

LEMMA HeadersKnown ==
    ASSUME NEW p \in Probes
    PROVE  Plain(p.headers) /\ p.certs \in Seq(Nat \ {0})
<1>1. /\ \A name \in DOMAIN p.headers : p.headers[name] \in HeaderValues
      /\ p.certs \in Seq(Nat \ {0})
    <2>1. p.headers \in [DOMAIN p.headers -> HeaderValues]
        BY ProbeAssumption
    <2>3. p \in ProbesWith(p.headers)
        BY ProbeAssumption
    <2>4. p.certs \in Seq(Nat \ {0})
        BY <2>3 DEF ProbesWith
    <2>5. ASSUME NEW name \in DOMAIN p.headers
          PROVE  p.headers[name] \in HeaderValues
        <3> DEFINE h == p.headers
                   V == HeaderValues
        <3>1. h \in [DOMAIN h -> V]
            BY <2>1
        <3> HIDE DEF h, V
        <3>2. \A x \in DOMAIN h : h[x] \in V
            BY <3>1
        <3> QED BY <3>2, <2>5 DEF h, V
    <2> QED BY <2>4, <2>5
<1>2. Malformed \in HeaderValues
    BY DEF Malformed, HeaderValues
<1>3. \A i \in DOMAIN Candidates :
         Reading(p.headers, i) = IF Canonical(Candidates[i].name) \in DOMAIN p.headers
                                 THEN p.headers[Canonical(Candidates[i].name)] ELSE Malformed
    BY DEF Reading, Get
<1>4. \A i \in DOMAIN Candidates : Reading(p.headers, i) \in HeaderValues
    BY <1>1, <1>2, <1>3
<1>5. Plain(p.headers)
    BY <1>4 DEF Plain, HeaderValues
<1> QED BY <1>1, <1>5

\* What is found is the budget the provider told.
LEMMA BudgetLeft ==
    ASSUME NEW p \in Probes, NEW kind \in Kinds
    PROVE  Left(p, kind) = Budget(p, kind)
<1> DEFINE H == Reporting(p.headers, kind, DOMAIN Candidates)
<1>1. Left(p, kind) = IF H = {} THEN -1 ELSE Reading(p.headers, Min(H)).n
    BY HeadersKnown, ParsedFirst DEF Left, FirstReported
<1>2. H = Numbers(p, kind)
    BY DEF Reporting, Reading, Numbers
<1> HIDE DEF H
<1> QED BY <1>1, <1>2 DEF Budget, Reading

\* What is said of budgets and certificates.
LEMMA SaidOfBudget ==
    ASSUME NEW p \in Probes, NEW i, NEW kind \in Kinds, NEW x
    PROVE  Says(p, i, Remaining(kind), x) <=> Left(p, kind) >= 0 /\ x = Left(p, kind)
<1> DEFINE s == Remaining(kind)
<1>1. /\ \A v : s # <<v>>
      /\ s # Errors(p)
    BY Names DEF Errors
<1>2. /\ kind = "requests" \/ kind = "tokens"
      /\ s = Remaining("requests") <=> kind = "requests"
      /\ s = Remaining("tokens") <=> kind = "tokens"
    BY Names DEF Kinds
<1> HIDE DEF s
<1>3. SideSays(p, s, x) <=> Left(p, kind) >= 0 /\ x = Left(p, kind)
    BY <1>1, <1>2, Zenon DEF SideSays
<1>4. CASE p.success
    <2>1. Says(p, i, s, x) <=> SuccessSays(p, i, s, x)
        BY <1>4, SuccessSaid
    <2>2. SuccessSays(p, i, s, x) <=> SideSays(p, s, x)
        BY <1>1, Zenon DEF SuccessSays
    <2> QED BY <1>3, <2>1, <2>2, Zenon DEF s
<1>5. CASE p.success = FALSE
    <2>1. Says(p, i, s, x) <=> FailureSays(p, s, x)
        BY <1>5, FailureSaid
    <2>2. FailureSays(p, s, x) <=> SideSays(p, s, x)
        BY <1>1, Zenon DEF FailureSays
    <2> QED BY <1>3, <2>1, <2>2, Zenon DEF s
<1> QED BY <1>4, <1>5, OutcomeKnown

LEMMA SaidOfExpiry ==
    ASSUME NEW p \in Probes, NEW i, NEW x
    PROVE  Says(p, i, <<"ssl_cert_expiry">>, x)
             <=> p.certs # << >> /\ x = Min(Range(p.certs))
<1> DEFINE s == <<"ssl_cert_expiry">>
<1>1. /\ s # <<"success">> /\ s # <<"last_success">> /\ s # <<"duration">> /\ s # <<"ttft">>
      /\ s # <<"connect_duration">> /\ s # <<"token_rate">>
      /\ s # Remaining("requests") /\ s # Remaining("tokens") /\ s # Errors(p)
    BY Names DEF Errors
<1>2. \A t \in TokenCounts : s # <<t>>
    BY Names DEF TokenCounts
<1>3. /\ Cert(p) # 0 <=> p.certs # << >>
      /\ p.certs # << >> => Cert(p) = Min(Range(p.certs))
    BY HeadersKnown, EarliestOne DEF Cert
<1>4. SideSays(p, s, x) <=> p.certs # << >> /\ x = Min(Range(p.certs))
    <2>1. SideSays(p, s, x) <=> Cert(p) # 0 /\ x = Cert(p)
        BY <1>1, Zenon DEF SideSays
    <2> QED BY <1>3, <2>1, Zenon
<1> HIDE DEF s
<1>5. CASE p.success
    <2>1. Says(p, i, s, x) <=> SuccessSays(p, i, s, x)
        BY <1>5, SuccessSaid
    <2>2. SuccessSays(p, i, s, x) <=> SideSays(p, s, x)
        BY <1>1, <1>2, Zenon DEF SuccessSays
    <2> QED BY <1>4, <2>1, <2>2, Zenon DEF s
<1>6. CASE p.success = FALSE
    <2>1. Says(p, i, s, x) <=> FailureSays(p, s, x)
        BY <1>6, FailureSaid
    <2>2. FailureSays(p, s, x) <=> SideSays(p, s, x)
        BY <1>1, Zenon DEF FailureSays
    <2> QED BY <1>4, <2>1, <2>2, Zenon DEF s
<1> QED BY <1>5, <1>6, OutcomeKnown

LEMMA SideNames ==
    /\ \A kind \in Kinds : Remaining(kind) \in SeriesNames /\ ~IsCounter(Remaining(kind))
    /\ <<"ssl_cert_expiry">> \in SeriesNames /\ ~IsCounter(<<"ssl_cert_expiry">>)
<1>1. \A kind : Remaining(kind)[1] = "rate_limit_remaining"
    BY DEF Remaining
<1> QED BY <1>1 DEF SeriesNames, SideSeries, Kinds, IsCounter, Counters

LEMMA BudgetShown ==
    ASSUME Books, AtRest, NEW kind \in Kinds
    PROVE  LET hits == {i \in DOMAIN done : Budget(done[i], kind) >= 0}
           IN  /\ Remaining(kind) \in DOMAIN registry <=> hits # {}
               /\ hits # {} => registry[Remaining(kind)] = Budget(done[Max(hits)], kind)
<1> DEFINE h == {i \in DOMAIN done : Budget(done[i], kind) >= 0}
           s == Remaining(kind)
<1>1. \A x : \A i \in DOMAIN done :
         Says(done[i], i, s, x) <=> Budget(done[i], kind) >= 0 /\ x = Budget(done[i], kind)
    BY Places, SaidOfBudget, BudgetLeft
<1>2. \A i \in DOMAIN done : Budget(done[i], kind) >= 0 <=> i \in h
    OBVIOUS
<1>3. h \subseteq DOMAIN done /\ s \in SeriesNames /\ ~IsCounter(s)
    BY SideNames
<1> HIDE DEF h, s
<1>4. \A i \in DOMAIN done : About(done[i], i, s) <=> i \in h
    BY <1>1, <1>2, AboutSays
<1>5. /\ s \in DOMAIN registry <=> h # {}
      /\ h # {} => Max(h) \in h /\ Says(done[Max(h)], Max(h), s, registry[s])
    BY <1>3, <1>4, GaugeShows
<1>6. h # {} => registry[s] = Budget(done[Max(h)], kind)
    BY <1>1, <1>3, <1>5
<1> QED BY <1>5, <1>6 DEF h, s

LEMMA ExpiryShown ==
    ASSUME Books, AtRest
    PROVE  LET hits == {i \in DOMAIN done : done[i].certs # << >>}
           IN  /\ <<"ssl_cert_expiry">> \in DOMAIN registry <=> hits # {}
               /\ hits # {} => registry[<<"ssl_cert_expiry">>] = Min(Range(done[Max(hits)].certs))
<1> DEFINE h == {i \in DOMAIN done : done[i].certs # << >>}
           s == <<"ssl_cert_expiry">>
<1>1. \A x : \A i \in DOMAIN done :
         Says(done[i], i, s, x) <=> done[i].certs # << >> /\ x = Min(Range(done[i].certs))
    BY Places, SaidOfExpiry
<1>2. h \subseteq DOMAIN done /\ s \in SeriesNames /\ ~IsCounter(s)
    BY SideNames
<1>3. \A i \in DOMAIN done : done[i].certs # << >> <=> i \in h
    OBVIOUS
<1> HIDE DEF h, s
<1>4. \A i \in DOMAIN done : About(done[i], i, s) <=> i \in h
    BY <1>1, <1>3, AboutSays
<1>5. /\ s \in DOMAIN registry <=> h # {}
      /\ h # {} => Max(h) \in h /\ Says(done[Max(h)], Max(h), s, registry[s])
    BY <1>2, <1>4, GaugeShows
<1>6. h # {} => registry[s] = Min(Range(done[Max(h)].certs))
    BY <1>1, <1>2, <1>5
<1> QED BY <1>5, <1>6 DEF h, s

\* emitSideChannelMetrics with parseRateLimitHeaders and earliestPeerCertNotAfter,
\* for any headers, negative numbers included, and any chain of certificates:
\* between probes the budget shown is that of the last answer, failed or
\* successful, whose first number about it is not negative, and the certificate
\* the first to expire of those seen last.
THEOREM SideChannelShown == Spec => []SideChannelLatest
<1>1. ASSUME Books, AtRest
      PROVE  ShowsLast(<<"ssl_cert_expiry">>, {i \in DOMAIN done : done[i].certs # << >>},
                       LAMBDA i : Min(Range(done[i].certs)))
    BY <1>1, ExpiryShown DEF ShowsLast
<1>2. ASSUME Books PROVE SideChannelLatest
    BY <1>1, <1>2, BudgetShown DEF SideChannelLatest, ShowsLast
<1> QED BY <1>2, BooksKept, PTL

-----------------------------------------------------------------------------
(* Errors and durations, in the middle of a recording too.                 *)

\* After every write of q to s there is one to r.
Ordered(q, s, r) ==
    \A j \in DOMAIN q : q[j].series = s => \E k \in DOMAIN q : k > j /\ q[k].series = r

\* Where requests can be built every probe takes time.
Timed == buildable => \A i \in DOMAIN done : done[i].duration > 0

\* The duration of a failure is written before the failure is counted.
DurationFirst ==
    \A p \in Probes :
        pending # << >> /\ done[Len(done)] = p /\ p.success = FALSE =>
            Ordered(pending, <<"duration">>, Errors(p))

Ledger == Books /\ Timed /\ DurationFirst

LEMMA OrderedBefore ==
    ASSUME NEW E, NEW a \in Seq(E), NEW b \in Seq(E), NEW s, NEW r, Ordered(a, s, r),
           \A i \in DOMAIN b : b[i].series # s
    PROVE  Ordered(a \o b, s, r)
<1> SUFFICES ASSUME NEW j \in DOMAIN (a \o b), (a \o b)[j].series = s
             PROVE  \E k \in DOMAIN (a \o b) : k > j /\ (a \o b)[k].series = r
    BY DEF Ordered
<1>1. j \in DOMAIN a /\ a[j].series = s
    BY JoinPlaces
<1>2. PICK k \in DOMAIN a : k > j /\ a[k].series = r
    BY <1>1 DEF Ordered
<1>3. k \in DOMAIN (a \o b) /\ (a \o b)[k] = a[k]
    BY JoinPlaces
<1> QED BY <1>2, <1>3

LEMMA OrderedAfter ==
    ASSUME NEW E, NEW a \in Seq(E), NEW b \in Seq(E), NEW s, NEW r,
           NEW k \in DOMAIN b, b[k].series = r, \A i \in DOMAIN b : b[i].series # s
    PROVE  Ordered(a \o b, s, r)
<1> SUFFICES ASSUME NEW j \in DOMAIN (a \o b), (a \o b)[j].series = s
             PROVE  \E l \in DOMAIN (a \o b) : l > j /\ (a \o b)[l].series = r
    BY DEF Ordered
<1>1. j \in DOMAIN a
    BY JoinPlaces
<1>2. Len(a) + k \in DOMAIN (a \o b) /\ (a \o b)[Len(a) + k] = b[k]
    BY JoinPlaces
<1>3. Len(a) + k > j
    <2>1. DOMAIN a = 1 .. Len(a) /\ Len(a) \in Nat /\ DOMAIN b = 1 .. Len(b) /\ Len(b) \in Nat
        OBVIOUS
    <2> QED BY <1>1, <2>1
<1> QED BY <1>2, <1>3

LEMMA OrderedTail ==
    ASSUME NEW E, NEW q \in Seq(E), q # << >>, NEW s, NEW r, Ordered(q, s, r)
    PROVE  Ordered(Tail(q), s, r)
<1>1. /\ DOMAIN q = 1 .. Len(q) /\ Len(q) \in Nat
      /\ DOMAIN Tail(q) = 1 .. Len(q) - 1
      /\ \A i \in 1 .. Len(q) - 1 : Tail(q)[i] = q[i + 1]
    OBVIOUS
<1> DEFINE t == Tail(q)
<1> HIDE DEF t
<1> SUFFICES ASSUME NEW j \in DOMAIN t, t[j].series = s
             PROVE  \E k \in DOMAIN t : k > j /\ t[k].series = r
    BY DEF Ordered, t
<1>2. j \in 1 .. Len(q) - 1 /\ j + 1 \in DOMAIN q /\ q[j + 1].series = s
    BY <1>1 DEF t
<1>3. PICK k \in DOMAIN q : k > j + 1 /\ q[k].series = r
    BY <1>2 DEF Ordered
<1>4. k - 1 \in 1 .. Len(q) - 1 /\ k - 1 > j /\ (k - 1) + 1 = k
    BY <1>1, <1>2, <1>3
<1>5. k - 1 \in DOMAIN t /\ t[k - 1] = q[k]
    BY <1>1, <1>4 DEF t
<1> QED BY <1>3, <1>4, <1>5

LEMMA FailureOrdered ==
    ASSUME NEW p \in Probes, p.success = FALSE
    PROVE  Ordered(FailureWrites(p), <<"duration">>, Errors(p))
<1> DEFINE E  == Everything(p, 1)
           w  == Inc(Errors(p))
           a  == When(TRUE, <<Set(<<"success">>, 0)>>)
           b  == When(p.duration > 0, <<Inc(<<"duration">>)>>)
           c  == When(p.connect > 0, <<Inc(<<"connect_duration">>)>>)
           d  == When(p.errType # "", <<w>>)
           e  == EmitSideChannel(p)
<1>1. FailureWrites(p) = (((a \o b) \o c) \o d) \o e
    BY DEF FailureWrites, When
<1>2. /\ Set(<<"success">>, 0) \in E /\ Inc(<<"duration">>) \in E
      /\ Inc(<<"connect_duration">>) \in E /\ w \in E
      /\ Set(Remaining("requests"), Left(p, "requests")) \in E
      /\ Set(Remaining("tokens"), Left(p, "tokens")) \in E
      /\ Set(<<"ssl_cert_expiry">>, Cert(p)) \in E
    BY DEF Everything
<1>3. p.errType # ""
    BY OutcomeKnown
<1>4. w.series = Errors(p) /\ w.series # <<"duration">>
    BY SeriesOf, Names DEF Errors
<1> HIDE DEF E, w
<1>5. a \in Seq(E) /\ b \in Seq(E) /\ c \in Seq(E)
    BY <1>2, WhenBatch DEF Batch
<1>6. d = <<w>> /\ d \in Seq(E) /\ 1 \in DOMAIN d /\ d[1] = w /\ \A i \in DOMAIN d : d[i] = w
    <2>1. d = <<w>>
        BY <1>3 DEF When
    <2>2. <<w>> \in Seq(E) /\ DOMAIN <<w>> = {1} /\ <<w>>[1] = w
        BY <1>2
    <2> HIDE DEF d
    <2> QED BY <2>1, <2>2
<1>7. e \in Seq(E) /\ \A i \in DOMAIN e : e[i].series # <<"duration">>
    <2>1. SideEntries(p) \subseteq E
        BY <1>2 DEF SideEntries, If
    <2>2. Batch(e, E, SideSeries)
        BY <1>2, <2>1, SideBatch
    <2>3. <<"duration">> \notin SideSeries
        BY Names DEF SideSeries
    <2> QED BY <2>2, <2>3 DEF Batch, Entries
<1> HIDE DEF a, b, c, d, e
<1>8. (a \o b) \o c \in Seq(E)
    BY <1>5
<1>9. Ordered(((a \o b) \o c) \o d, <<"duration">>, Errors(p))
    BY <1>4, <1>6, <1>8, OrderedAfter
<1>10. ((a \o b) \o c) \o d \in Seq(E)
    BY <1>6, <1>8
<1> QED BY <1>1, <1>7, <1>9, <1>10, OrderedBefore

LEMMA LedgerInit == Init => Ledger
<1> SUFFICES ASSUME Init PROVE Ledger
    OBVIOUS
<1>1. Books
    BY BooksInit
<1>2. DOMAIN << >> = {}
    OBVIOUS
<1>3. Timed /\ DurationFirst
    BY <1>2 DEF Init, Timed, DurationFirst
<1> QED BY <1>1, <1>3 DEF Ledger

LEMMA ProbeReturnsLedger ==
    ASSUME Ledger, NEW p \in Probes, ProbeReturns(p)
    PROVE  Timed' /\ DurationFirst'
<1> DEFINE n == Len(done) + 1
<1>1. /\ done' = Append(done, p) /\ buildable' = buildable /\ (buildable <=> p.duration > 0)
      /\ p.success = FALSE => pending' = FailureWrites(p)
    BY DEF ProbeReturns
<1>2. done \in Seq(Probes)
    BY DEF Ledger, Books, History
<1>3. /\ Len(done') = n /\ DOMAIN done' = 1 .. n /\ done'[n] = p /\ done'[Len(done')] = p
      /\ \A i \in DOMAIN done' : i # n => i \in DOMAIN done /\ done'[i] = done[i]
    BY <1>1, <1>2
<1> HIDE DEF n
<1>4. Timed'
    BY <1>1, <1>3 DEF Ledger, Timed
<1>5. DurationFirst'
    BY <1>1, <1>3, FailureOrdered DEF DurationFirst
<1> QED BY <1>4, <1>5

LEMMA LedgerNext == Ledger /\ [Next]_vars => Ledger'
<1> SUFFICES ASSUME Ledger, [Next]_vars PROVE Ledger'
    OBVIOUS
<1>0. Books'
    BY BooksNext DEF Ledger
<1> SUFFICES Timed' /\ DurationFirst'
    BY <1>0 DEF Ledger
<1>2. ASSUME NEW p \in Probes, ProbeReturns(p) PROVE Timed' /\ DurationFirst'
    BY <1>2, ProbeReturnsLedger
<1>3. CASE Write
    <2>1. /\ pending # << >> /\ pending' = Tail(pending) /\ done' = done /\ buildable' = buildable
        BY <1>3 DEF Write
    <2>2. pending \in Seq(Entries(pending))
        BY DEF Ledger, Books, Sequences
    <2>3. Timed'
        BY <2>1 DEF Ledger, Timed
    <2>4. ASSUME NEW p \in Probes, done[Len(done)] = p, p.success = FALSE
          PROVE  Ordered(pending', <<"duration">>, Errors(p))
        <3>1. Ordered(pending, <<"duration">>, Errors(p))
            BY <2>1, <2>4 DEF Ledger, DurationFirst
        <3> QED BY <2>1, <2>2, <3>1, OrderedTail
    <2>5. DurationFirst'
        BY <2>1, <2>4 DEF DurationFirst
    <2> QED BY <2>3, <2>5
<1>4. CASE BeginReset
    <2>1. pending' = << >> /\ done' = << >> /\ DOMAIN << >> = {}
        BY <1>4 DEF BeginReset, AtRest
    <2> QED BY <2>1 DEF Timed, DurationFirst
<1>5. CASE ClearVector
    BY <1>5 DEF ClearVector, Ledger, Timed, DurationFirst
<1>6. ASSUME NEW s, Scrape(s) PROVE Timed' /\ DurationFirst'
    BY <1>6 DEF Scrape, Ledger, Timed, DurationFirst
<1>7. CASE ScrapeEnds
    BY <1>7 DEF ScrapeEnds, Ledger, Timed, DurationFirst
<1>8. CASE UNCHANGED vars
    BY <1>8 DEF vars, Ledger, Timed, DurationFirst
<1> QED BY <1>2, <1>3, <1>4, <1>5, <1>6, <1>7, <1>8 DEF Next

\* The sum over a finite set, unfolded: it adds one element at a time.
Chosen(s) == CHOOSE x \in s : TRUE

IsSum(it, f, S) ==
    it = [s \in SUBSET S |-> IF s = {} THEN 0 ELSE f[Chosen(s)] + it[s \ {Chosen(s)}]]

LEMMA SumSteps ==
    ASSUME NEW it, NEW f, NEW S, IsSum(it, f, S), NEW s \in SUBSET S
    PROVE  it[s] = IF s = {} THEN 0 ELSE f[Chosen(s)] + it[s \ {Chosen(s)}]
<1> DEFINE g(r) == IF r = {} THEN 0 ELSE f[Chosen(r)] + it[r \ {Chosen(r)}]
<1>1. it = [r \in SUBSET S |-> g(r)]
    BY DEF IsSum
<1> HIDE DEF g
<1>2. it[s] = g(s)
    BY <1>1
<1> QED BY <1>2 DEF g

\* The elements of the sets that c has for the members of t.
Together(c, t) == UNION {c[s] : s \in t}

LEMMA TogetherMember ==
    ASSUME NEW c, NEW t, NEW i
    PROVE  i \in Together(c, t) <=> \E s \in t : i \in c[s]
BY DEF Together

\* Sets that are apart are counted together by the sum of their sizes.
Apart(c, S) == \A s, r \in S : s # r => c[s] \cap c[r] = {}

LEMMA SumOfSizes ==
    ASSUME NEW S, IsFiniteSet(S), NEW D, IsFiniteSet(D), NEW c,
           \A s \in S : c[s] \subseteq D, Apart(c, S),
           NEW f, \A s \in S : f[s] = Cardinality(c[s])
    PROVE  SumFunctionOnSet(f, S) = Cardinality(Together(c, S))
<1> DEFINE w == [t \in SUBSET S |-> Cardinality(Together(c, t))]
           v == CHOOSE it : IsSum(it, f, S)
<1>1. ASSUME NEW t \in SUBSET S PROVE IsFiniteSet(Together(c, t))
    <2>1. Together(c, t) \subseteq D
        BY TogetherMember
    <2> QED BY <2>1, FS_Subset
<1>2. ASSUME NEW t \in SUBSET S, NEW x \in t
      PROVE  /\ Cardinality(Together(c, t)) = f[x] + Cardinality(Together(c, t \ {x}))
             /\ Cardinality(Together(c, t \ {x})) \in Nat /\ f[x] \in Nat
    <2> DEFINE u == Together(c, t \ {x})
               y == c[x]
    <2>1. Together(c, t) = y \cup u
        BY TogetherMember
    <2>2. y \cap u = {}
        BY TogetherMember DEF Apart
    <2>3. IsFiniteSet(y) /\ IsFiniteSet(u)
        BY <1>1, FS_Subset
    <2>4. f[x] = Cardinality(y)
        OBVIOUS
    <2> HIDE DEF u, y
    <2>5. Cardinality(y \cup u) = Cardinality(y) + Cardinality(u) - Cardinality(y \cap u)
        BY <2>3, FS_Union
    <2>6. Cardinality(y) \in Nat /\ Cardinality(u) \in Nat /\ Cardinality(y \cap u) = 0
        BY <2>2, <2>3, FS_CardinalityType, FS_EmptySet
    <2>7. Cardinality(y \cup u) = Cardinality(y) + Cardinality(u)
        BY <2>5, <2>6
    <2> QED BY <2>1, <2>4, <2>6, <2>7 DEF u
<1>3. Cardinality(Together(c, {})) = 0
    <2>1. Together(c, {}) = {}
        BY TogetherMember
    <2> QED BY <2>1, FS_EmptySet
<1>4. IsSum(w, f, S)
    <2> DEFINE g(t) == IF t = {} THEN 0
                       ELSE f[Chosen(t)] + w[t \ {Chosen(t)}]
    <2>1. ASSUME NEW t \in SUBSET S PROVE Cardinality(Together(c, t)) = g(t)
        <3> DEFINE x == Chosen(t)
        <3>1. CASE t = {}
            BY <1>3, <3>1
        <3>2. CASE t # {}
            <4>1. x \in t
                BY <3>2 DEF Chosen
            <4>2. w[t \ {x}] = Cardinality(Together(c, t \ {x}))
                OBVIOUS
            <4>3. g(t) = f[x] + w[t \ {x}]
                BY <3>2
            <4> HIDE DEF x, w, g
            <4> QED BY <1>2, <4>1, <4>2, <4>3
        <3> QED BY <3>1, <3>2
    <2>2. w = [t \in SUBSET S |-> g(t)]
        <3>1. w = [t \in SUBSET S |-> Cardinality(Together(c, t))]
            OBVIOUS
        <3> HIDE DEF w, g
        <3> QED BY <2>1, <3>1
    <2> HIDE DEF w
    <2> QED BY <2>2 DEF IsSum
<1>5. IsSum(v, f, S)
    BY <1>4
<1> HIDE DEF v, w
<1>6. Inductive(S, v, w)
    <2> SUFFICES ASSUME NEW t \in SUBSET S, \A r \in SUBSET t : r # t => v[r] = w[r]
                 PROVE  v[t] = w[t]
        BY DEF Inductive
    <2>1. CASE t = {}
        BY <1>4, <1>5, <2>1, SumSteps
    <2>2. CASE t # {}
        <3> DEFINE x == Chosen(t)
        <3>1. v[t] = f[x] + v[t \ {x}]
            BY <1>5, <2>2, SumSteps
        <3>2. w[t] = f[x] + w[t \ {x}]
            BY <1>4, <2>2, SumSteps
        <3>4. x \in t
            BY <2>2 DEF Chosen
        <3> HIDE DEF x
        <3>3. v[t \ {x}] = w[t \ {x}]
            BY <3>4
        <3> QED BY <3>1, <3>2, <3>3
    <2> QED BY <2>1, <2>2
<1>7. v[S] = w[S]
    BY <1>6, SubsetInduction
<1>8. SumFunctionOnSet(f, S) = v[S]
    BY Zenon DEF SumFunctionOnSet, FoldFunctionOnSet, MapThenFoldSet, IsSum, Chosen, v
<1>9. w[S] = Cardinality(Together(c, S))
    BY DEF w
<1> QED BY <1>7, <1>8, <1>9

LEMMA LedgerKept == Spec => []Ledger
<1> QED BY LedgerInit, LedgerNext, PTL DEF Spec

\* The probes counted by a series, if they are about its error at all.
LEMMA ErrorSeen ==
    ASSUME Books, NEW p \in Probes, NEW i \in Seen(done, pending, Errors(p))
    PROVE  /\ i \in DOMAIN done /\ done[i] \in Probes
           /\ done[i].success = FALSE /\ Errors(done[i]) = Errors(p)
           /\ ~(i = Len(done) /\ Mentions(Entries(pending), Errors(p)))
<1> DEFINE s == Errors(p)
<1>1. /\ i \in DOMAIN done /\ About(done[i], i, s)
      /\ ~(i = Len(done) /\ Mentions(Entries(pending), s))
    BY DEF Seen, Hits
<1>2. done[i] \in Probes
    BY <1>1, Places
<1>3. \E x : Says(done[i], i, s, x)
    BY <1>1, AboutSays
<1>4. done[i].success = FALSE /\ Errors(done[i]) = s
    BY <1>2, <1>3, SaidOfError
<1> QED BY <1>1, <1>2, <1>4

\* A failure that is counted has its duration.
LEMMA ErrorTimed ==
    ASSUME Ledger, buildable, NEW p \in Probes, NEW i \in Seen(done, pending, Errors(p))
    PROVE  i \in Seen(done, pending, <<"duration">>)
<1>1. /\ i \in DOMAIN done /\ done[i] \in Probes
      /\ done[i].success = FALSE /\ Errors(done[i]) = Errors(p)
      /\ ~(i = Len(done) /\ Mentions(Entries(pending), Errors(p)))
    BY ErrorSeen DEF Ledger
<1>2. done[i].duration > 0
    BY <1>1 DEF Ledger, Timed
<1>3. Says(done[i], i, <<"duration">>, 1)
    BY <1>1, <1>2, SaidOfName DEF TokenCounts
<1>4. i \in Hits(done, <<"duration">>)
    BY <1>1, <1>3, AboutSays DEF Hits
<1>5. ASSUME i = Len(done), Mentions(Entries(pending), <<"duration">>)
      PROVE  FALSE
    <2>1. PICK j \in DOMAIN pending : pending[j].series = <<"duration">>
        BY <1>5 DEF Mentions, Entries
    <2>2. pending # << >>
        BY <2>1
    <2>3. Ordered(pending, <<"duration">>, Errors(done[i]))
        BY <1>1, <1>5, <2>2 DEF Ledger, DurationFirst
    <2>4. \E k \in DOMAIN pending : pending[k].series = Errors(done[i])
        BY <2>1, <2>3 DEF Ordered
    <2>5. Mentions(Entries(pending), Errors(p))
        BY <1>1, <2>4 DEF Mentions, Entries
    <2> QED BY <1>1, <1>5, <2>5
<1> QED BY <1>4, <1>5 DEF Seen

\* The error series that there are: each counts its own failures.
LEMMA ErrorSeriesCounted ==
    ASSUME Books, clearing = << >>, NEW s \in ErrorSeries
    PROVE  /\ \E p \in Probes : s = Errors(p)
           /\ registry[s] = Cardinality(Seen(done, pending, s))
           /\ Seen(done, pending, s) # {}
<1>1. s \in DOMAIN registry /\ s[1] = "errors" /\ s \in SeriesNames
    BY DEF ErrorSeries, Books, Inventory
<1>2. Shown(registry, done, Seen(done, pending, s), s)
    BY <1>1 DEF Books, Balance
<1>3. IsCounter(s)
    BY <1>1 DEF IsCounter, Counters
<1>4. \E p \in Probes : s = Errors(p)
    <2>1. \A v : <<v>>[1] = v
        OBVIOUS
    <2>2. \A kind : Remaining(kind)[1] = "rate_limit_remaining"
        BY DEF Remaining
    <2>3. "errors" \notin TokenCounts
        BY DEF TokenCounts
    <2> QED BY <1>1, <2>1, <2>2, <2>3 DEF SeriesNames, SideSeries
<1> QED BY <1>1, <1>2, <1>3, <1>4 DEF Shown

LEMMA ErrorSeriesFinite ==
    ASSUME Books, clearing = << >>
    PROVE  IsFiniteSet(ErrorSeries)
<1> DEFINE D == DOMAIN done
           T == {Errors(done[i]) : i \in D}
           f == [i \in D |-> Errors(done[i])]
<1>1. ErrorSeries \subseteq T
    <2> SUFFICES ASSUME NEW s \in ErrorSeries PROVE \E i \in D : s = Errors(done[i])
        OBVIOUS
    <2>1. PICK p \in Probes : s = Errors(p)
        BY ErrorSeriesCounted
    <2>2. PICK i \in Seen(done, pending, s) : TRUE
        BY ErrorSeriesCounted
    <2> QED BY <2>1, <2>2, ErrorSeen
<1>2. f \in Surjection(D, T)
    <2>1. f \in [D -> T]
        OBVIOUS
    <2>2. \A t \in T : \E i \in D : f[i] = t
        OBVIOUS
    <2> QED BY <2>1, <2>2 DEF Surjection
<1>3. IsFiniteSet(D)
    <2>1. D = 1 .. Len(done) /\ Len(done) \in Nat
        BY DEF Books, History
    <2> QED BY <2>1, FS_Interval
<1> HIDE DEF D, T, f
<1>4. IsFiniteSet(T)
    BY <1>2, <1>3, FS_Surjection
<1> QED BY <1>1, <1>4, FS_Subset

\* What a scrape has read: of each error series, some of the failures that it
\* counts now; of durations, those that were not written since.
ScrapeFits ==
    /\ DOMAIN scrape \subseteq ErrorSeries \cup {<<"duration">>}
    /\ clearing # <<>> => DOMAIN scrape = {}
    /\ \A s \in DOMAIN scrape \ {<<"duration">>} :
          \E b \in SUBSET Seen(done, pending, s) : scrape[s] = Cardinality(b)
    /\ <<"duration">> \in DOMAIN scrape => Value(<<"duration">>) = scrape[<<"duration">>] + meanwhile
    /\ \A s \in DOMAIN scrape : scrape[s] \in Nat
    /\ meanwhile \in Nat /\ (<<"duration">> \notin DOMAIN scrape => meanwhile = 0)

\* What a write does to the registry.
LEMMA WriteEffect ==
    ASSUME Books, Write
    PROVE  /\ DOMAIN registry' = DOMAIN registry \cup {Head(pending).series}
           /\ \A s \in DOMAIN registry : s # Head(pending).series => registry'[s] = registry[s]
           /\ IsCounter(Head(pending).series) =>
                 registry'[Head(pending).series] = 1 + IF Head(pending).series \in DOMAIN registry
                                                       THEN registry[Head(pending).series] ELSE 0
           /\ clearing = << >> /\ clearing' = << >> /\ done' = done
           /\ \A s : Seen(done, pending, s) \subseteq Seen(done', pending', s)
<1> DEFINE w == Head(pending)
           n == Len(done)
<1>1. /\ pending # << >> /\ pending' = Tail(pending) /\ registry' = Written(w)
      /\ clearing' = clearing /\ done' = done
    BY DEF Write
<1>2. /\ clearing = << >> /\ done # << >> /\ done \in Seq(Probes)
      /\ \A v \in Entries(pending) : v \in WritesOf(done[n], n)
      /\ pending \in Seq(Entries(pending))
    BY <1>1 DEF Books, History, Queue, Sequences
<1>3. n \in DOMAIN done /\ done[n] \in Probes
    BY <1>2
<1>4. w \in Entries(pending) /\ Entries(pending') \subseteq Entries(pending)
    BY <1>1, <1>2, TailEntries
<1>5. IsCounter(w.series) => w.add = TRUE /\ w.value = 1
    BY <1>2, <1>3, <1>4, WriteKinds
<1> HIDE DEF w, n
<1>6. /\ DOMAIN registry' = DOMAIN registry \cup {w.series}
      /\ \A s \in DOMAIN registry : s # w.series => registry'[s] = registry[s]
      /\ w.add = TRUE /\ w.series \in DOMAIN registry
            => registry'[w.series] = registry[w.series] + w.value
      /\ w.series \notin DOMAIN registry => registry'[w.series] = w.value
    BY <1>1 DEF Written
<1>7. \A s : Seen(done, pending, s) \subseteq Seen(done', pending', s)
    BY <1>1, <1>4 DEF Seen, Mentions
<1>8. ASSUME IsCounter(w.series)
      PROVE  registry'[w.series] = 1 + IF w.series \in DOMAIN registry THEN registry[w.series] ELSE 0
    <2>1. CASE w.series \notin DOMAIN registry
        BY <1>5, <1>6, <1>8, <2>1
    <2>2. CASE w.series \in DOMAIN registry
        <3>1. registry[w.series] \in Nat
            <4>1. done \in Seq(Probes) /\ w.series \in SeriesNames
                BY <1>2, <2>2 DEF Books, Inventory
            <4>2. Shown(registry, done, Seen(done, pending, w.series), w.series)
                BY <1>2, <4>1 DEF Books, Balance
            <4>3. registry[w.series] = Cardinality(Seen(done, pending, w.series))
                BY <1>8, <2>2, <4>2 DEF Shown
            <4> QED BY <4>1, <4>3, FiniteHits, FS_CardinalityType
        <3> QED BY <1>5, <1>6, <1>8, <2>2, <3>1
    <2> QED BY <2>1, <2>2
<1> QED BY <1>1, <1>2, <1>6, <1>7, <1>8 DEF w

LEMMA WriteFits ==
    ASSUME Books, ScrapeFits, Write
    PROVE  ScrapeFits'
<1> DEFINE r == Head(pending).series
           d == <<"duration">>
<1>1. /\ DOMAIN registry' = DOMAIN registry \cup {r}
      /\ \A s \in DOMAIN registry : s # r => registry'[s] = registry[s]
      /\ IsCounter(r) => registry'[r] = 1 + IF r \in DOMAIN registry THEN registry[r] ELSE 0
      /\ clearing' = << >>
      /\ \A s : Seen(done, pending, s) \subseteq Seen(done', pending', s)
    BY WriteEffect
<1>2. /\ scrape' = scrape
      /\ meanwhile' = IF d \in DOMAIN scrape /\ r = d THEN meanwhile + 1 ELSE meanwhile
    BY DEF Write
<1>3. IsCounter(d)
    BY CounterNames
<1> HIDE DEF r, d
<1>4. DOMAIN scrape' \subseteq ErrorSeries' \cup {d}
    <2>1. ErrorSeries \subseteq ErrorSeries'
        BY <1>1 DEF ErrorSeries
    <2> QED BY <1>2, <2>1 DEF ScrapeFits, d
<1>5. ASSUME d \in DOMAIN scrape' PROVE Value(d)' = scrape'[d] + meanwhile'
    <2>1. Value(d) = scrape[d] + meanwhile /\ scrape[d] \in Nat /\ meanwhile \in Nat
        BY <1>2, <1>5 DEF ScrapeFits, d
    <2>2. CASE r = d
        BY <1>1, <1>2, <1>3, <1>5, <2>1, <2>2 DEF Value
    <2>3. CASE r # d
        BY <1>1, <1>2, <1>5, <2>1, <2>3 DEF Value
    <2> QED BY <2>2, <2>3
<1>6. ASSUME NEW s \in DOMAIN scrape' \ {d}
      PROVE  \E b \in SUBSET Seen(done', pending', s) : scrape'[s] = Cardinality(b)
    <2>1. PICK b \in SUBSET Seen(done, pending, s) : scrape[s] = Cardinality(b)
        BY <1>2 DEF ScrapeFits, d
    <2> QED BY <1>1, <1>2, <2>1
<1>7. /\ meanwhile' \in Nat /\ (d \notin DOMAIN scrape' => meanwhile' = 0)
      /\ \A s \in DOMAIN scrape' : scrape'[s] \in Nat
    BY <1>2 DEF ScrapeFits, d
<1> QED BY <1>1, <1>4, <1>5, <1>6, <1>7 DEF ScrapeFits, d

LEMMA ScrapeStepFits ==
    ASSUME Ledger, ScrapeFits, NEW s \in ErrorSeries \cup {<<"duration">>}, Scrape(s)
    PROVE  ScrapeFits'
<1> DEFINE d == <<"duration">>
<1>1. /\ clearing = << >> /\ s \notin DOMAIN scrape
      /\ registry' = registry /\ pending' = pending /\ clearing' = clearing /\ done' = done
      /\ meanwhile' = meanwhile
    BY DEF Scrape
<1>2. /\ DOMAIN scrape' = DOMAIN scrape \cup {s} /\ scrape'[s] = Value(s)
      /\ \A r \in DOMAIN scrape : r # s => scrape'[r] = scrape[r]
    BY DEF Scrape
<1>3. Books
    BY DEF Ledger
<1>4. d \notin ErrorSeries
    BY DEF ErrorSeries
<1>5. Value(s) \in Nat /\ (s # d => Value(s) = Cardinality(Seen(done, pending, s)))
    <2>1. CASE s \in ErrorSeries
        <3>1. Value(s) = Cardinality(Seen(done, pending, s))
            BY <1>1, <1>3, <2>1, ErrorSeriesCounted DEF Value, ErrorSeries
        <3>2. done \in Seq(Probes)
            BY <1>3 DEF Books, History
        <3> QED BY <3>1, <3>2, FiniteHits, FS_CardinalityType
    <2>2. CASE s = d
        <3>1. Shown(registry, done, Seen(done, pending, d), d) /\ IsCounter(d)
            BY <1>1, <1>3, CounterNames DEF Books, Balance
        <3>2. done \in Seq(Probes)
            BY <1>3 DEF Books, History
        <3>3. Cardinality(Seen(done, pending, d)) \in Nat
            BY <3>2, FiniteHits, FS_CardinalityType
        <3>4. Value(d) \in Nat
            BY <3>1, <3>3 DEF Value, Shown
        <3> QED BY <2>2, <3>4
    <2> QED BY <2>1, <2>2
<1> HIDE DEF d
<1>6. ErrorSeries' = ErrorSeries /\ Value(d)' = Value(d)
    BY <1>1 DEF ErrorSeries, Value
<1>7. ASSUME NEW r \in DOMAIN scrape' \ {d}
      PROVE  \E b \in SUBSET Seen(done', pending', r) : scrape'[r] = Cardinality(b)
    <2>1. CASE r = s
        BY <1>1, <1>2, <1>5, <2>1
    <2>2. CASE r # s
        <3>1. PICK b \in SUBSET Seen(done, pending, r) : scrape[r] = Cardinality(b)
            BY <1>2, <2>2 DEF ScrapeFits, d
        <3> QED BY <1>1, <1>2, <2>2, <3>1
    <2> QED BY <2>1, <2>2
<1>8. DOMAIN scrape' \subseteq ErrorSeries' \cup {d}
    BY <1>2, <1>6 DEF ScrapeFits, d
<1>9. \A r \in DOMAIN scrape' : scrape'[r] \in Nat
    BY <1>2, <1>5 DEF ScrapeFits
<1>10. meanwhile' \in Nat /\ clearing' = << >> /\ (d \notin DOMAIN scrape' => meanwhile' = 0)
    BY <1>1, <1>2 DEF ScrapeFits, d
<1>11. ASSUME d \in DOMAIN scrape' PROVE Value(d)' = scrape'[d] + meanwhile'
    <2>1. CASE s = d
        <3>1. meanwhile = 0
            BY <1>1, <2>1 DEF ScrapeFits, d
        <3> QED BY <1>1, <1>2, <1>5, <1>6, <2>1, <3>1
    <2>2. CASE s # d
        BY <1>1, <1>2, <1>6, <1>11, <2>2 DEF ScrapeFits, d
    <2> QED BY <2>1, <2>2
<1> QED BY <1>7, <1>8, <1>9, <1>10, <1>11 DEF ScrapeFits, d

LEMMA ProbeReturnsFits ==
    ASSUME Books, ScrapeFits, NEW p \in Probes, ProbeReturns(p)
    PROVE  ScrapeFits'
<1>1. /\ pending = << >> /\ clearing' = clearing /\ registry' = registry
      /\ done' = Append(done, p) /\ scrape' = scrape /\ meanwhile' = meanwhile
      /\ pending' = IF p.success THEN SuccessWrites(p, Len(done) + 1) ELSE FailureWrites(p)
    BY DEF ProbeReturns, AtRest, scrapeVars
<1>2. done \in Seq(Probes)
    BY DEF Books, History
<1>3. Entries(pending') = WritesOf(p, Len(done) + 1)
    BY <1>1, Batches
<1>4. ASSUME NEW s, NEW i \in Seen(done, pending, s) PROVE i \in Seen(done', pending', s)
    <2>1. i \in DOMAIN done /\ About(done[i], i, s)
        BY DEF Seen, Hits
    <2>2. i \in DOMAIN done' /\ done'[i] = done[i] /\ i # Len(done')
        BY <1>1, <1>2, <2>1
    <2> QED BY <2>1, <2>2 DEF Seen, Hits
<1>5. \A s \in DOMAIN scrape' \ {<<"duration">>} :
         \E b \in SUBSET Seen(done', pending', s) : scrape'[s] = Cardinality(b)
    <2> SUFFICES ASSUME NEW s \in DOMAIN scrape' \ {<<"duration">>}
                 PROVE  \E b \in SUBSET Seen(done', pending', s) : scrape'[s] = Cardinality(b)
        OBVIOUS
    <2>1. PICK b \in SUBSET Seen(done, pending, s) : scrape[s] = Cardinality(b)
        BY <1>1 DEF ScrapeFits
    <2> QED BY <1>1, <1>4, <2>1
<1>6. ErrorSeries' = ErrorSeries /\ Value(<<"duration">>)' = Value(<<"duration">>)
    BY <1>1 DEF ErrorSeries, Value
<1> QED BY <1>1, <1>5, <1>6 DEF ScrapeFits

LEMMA FitsNext == Ledger /\ ScrapeFits /\ [Next]_vars => ScrapeFits'
<1> SUFFICES ASSUME Ledger, ScrapeFits, [Next]_vars PROVE ScrapeFits'
    OBVIOUS
<1>0. Books
    BY DEF Ledger
<1>1. ASSUME NEW p \in Probes, ProbeReturns(p) PROVE ScrapeFits'
    BY <1>0, <1>1, ProbeReturnsFits
<1>2. CASE Write
    BY <1>0, <1>2, WriteFits
<1>3. CASE BeginReset
    <2>1. DOMAIN scrape' = {} /\ meanwhile' = 0
        BY <1>3 DEF BeginReset
    <2> QED BY <2>1 DEF ScrapeFits
<1>4. CASE ClearVector
    <2>1. DOMAIN scrape' = {} /\ meanwhile' = 0
        BY <1>4 DEF ClearVector, ScrapeFits, scrapeVars
    <2> QED BY <2>1 DEF ScrapeFits
<1>5. ASSUME NEW s \in ErrorSeries \cup {<<"duration">>}, Scrape(s) PROVE ScrapeFits'
    BY <1>5, ScrapeStepFits
<1>6. CASE ScrapeEnds
    <2>1. DOMAIN scrape' = {} /\ meanwhile' = 0
        BY <1>6 DEF ScrapeEnds
    <2> QED BY <2>1 DEF ScrapeFits
<1>7. CASE UNCHANGED vars
    BY <1>7 DEF vars, scrapeVars, ScrapeFits, ErrorSeries, Value
<1> QED BY <1>1, <1>2, <1>3, <1>4, <1>5, <1>6, <1>7 DEF Next

LEMMA FitsKept == Spec => []ScrapeFits
<1>1. Init => ScrapeFits
    <2>1. Init => DOMAIN scrape = {} /\ meanwhile = 0
        BY DEF Init
    <2> QED BY <2>1 DEF ScrapeFits
<1> QED BY <1>1, FitsNext, LedgerKept, PTL DEF Spec

\* What a scrape has read of errors, of all types and statuses together, is no
\* more than the durations there are by then: before it reads them these are
\* what it can read, and afterwards what it read and what was written since.
\* That holds in the middle of a recording as well, for any number of probes,
\* in whatever order the series are read.
THEOREM ErrorShareAtMostOne == Spec => []ErrorsWithinDurations
<1> SUFFICES ASSUME Ledger, ScrapeFits PROVE ErrorsWithinDurations
    BY LedgerKept, FitsKept, PTL
<1> SUFFICES ASSUME buildable, clearing = << >>
             PROVE  ScrapedErrors <= Value(<<"duration">>)
    BY DEF ErrorsWithinDurations, ScrapeFits
<1> DEFINE S == DOMAIN scrape \ {<<"duration">>}
           D == DOMAIN done
           d == Seen(done, pending, <<"duration">>)
           some(s) == CHOOSE b \in SUBSET Seen(done, pending, s) : scrape[s] = Cardinality(b)
           c == [s \in S |-> some(s)]
<1>1. Books /\ done \in Seq(Probes)
    BY DEF Ledger, Books, History
<1>2. IsFiniteSet(S)
    <2>1. S \subseteq ErrorSeries
        BY DEF ScrapeFits
    <2>2. IsFiniteSet(ErrorSeries)
        BY <1>1, ErrorSeriesFinite
    <2> HIDE DEF S
    <2> QED BY <2>1, <2>2, FS_Subset
<1>3. IsFiniteSet(D) /\ IsFiniteSet(d) /\ \A s : Seen(done, pending, s) \subseteq D
    <2>1. D = 1 .. Len(done) /\ Len(done) \in Nat
        BY <1>1
    <2>2. IsFiniteSet(D)
        BY <2>1, FS_Interval
    <2>3. \A s : Seen(done, pending, s) \subseteq D
        BY DEF Seen, Hits
    <2> QED BY <2>2, <2>3, FS_Subset
<1>4. \A s \in S : /\ c[s] = some(s)
                   /\ c[s] \subseteq Seen(done, pending, s) /\ scrape[s] = Cardinality(c[s])
    <2> SUFFICES ASSUME NEW s \in S
                 PROVE  some(s) \subseteq Seen(done, pending, s) /\ scrape[s] = Cardinality(some(s))
        OBVIOUS
    <2>1. \E b \in SUBSET Seen(done, pending, s) : scrape[s] = Cardinality(b)
        BY DEF ScrapeFits
    <2> QED BY <2>1
<1> HIDE DEF c
<1>5. \A s \in S : \A i \in c[s] : Errors(done[i]) = s /\ i \in d
    <2> SUFFICES ASSUME NEW s \in S, NEW i \in c[s] PROVE Errors(done[i]) = s /\ i \in d
        OBVIOUS
    <2>1. s \in ErrorSeries
        BY DEF ScrapeFits
    <2>2. PICK p \in Probes : s = Errors(p)
        BY <1>1, <2>1, ErrorSeriesCounted
    <2>3. i \in Seen(done, pending, Errors(p))
        BY <1>4, <2>2
    <2>4. Errors(done[i]) = Errors(p)
        BY <1>1, <2>3, ErrorSeen
    <2>5. i \in d
        BY <2>3, ErrorTimed
    <2> QED BY <2>2, <2>4, <2>5
<1>6. Apart(c, S)
    BY <1>5 DEF Apart
<1>7. Value(<<"duration">>) = Cardinality(d)
    <2>1. Shown(registry, done, d, <<"duration">>) /\ IsCounter(<<"duration">>)
        BY <1>1, CounterNames DEF Books, Balance
    <2>2. CASE d = {}
        BY <2>1, <2>2, FS_EmptySet DEF Shown, Value
    <2>3. CASE d # {}
        BY <2>1, <2>3 DEF Shown, Value
    <2> QED BY <2>2, <2>3
<1>8. \A s \in S : scrape[s] = Cardinality(c[s]) /\ c[s] \subseteq D
    BY <1>3, <1>4
<1>9. ScrapedErrors = SumFunctionOnSet(scrape, S)
    BY DEF ScrapedErrors
<1> HIDE DEF S, D, d
<1>10. SumFunctionOnSet(scrape, S) = Cardinality(Together(c, S))
    BY <1>2, <1>3, <1>6, <1>8, SumOfSizes
<1>11. Together(c, S) \subseteq d
    BY <1>5, TogetherMember
<1>12. Cardinality(Together(c, S)) <= Cardinality(d)
    BY <1>3, <1>11, FS_Subset
<1> QED BY <1>7, <1>9, <1>10, <1>12
=============================================================================
