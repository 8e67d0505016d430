---------------------------- MODULE ServedConfig ----------------------------
(***************************************************************************)
(* What hot reload promises to whoever reads /api/v1/targets and /metrics: *)
(* probes of at most one configuration run at a time; what is shown is     *)
(* about that configuration only; a new one is taken into service after    *)
(* everything shown about the old one is gone.                             *)
(***************************************************************************)
CONSTANTS Configs, TargetsOf, LabelOf

VARIABLES
    active,   \* the configurations whose probes run
    rows,     \* (name, label set) pairs with a status
    series    \* (name, label set) pairs with metrics

vars == <<active, rows, series>>

Row(c, n) == <<n, LabelOf[c][n]>>

Init == active = {} /\ rows = {} /\ series = {}

\* Probing of c starts, on a clean slate.
Activate(c) ==
    /\ active = {} /\ rows = {} /\ series = {}
    /\ active' = {c}
    /\ UNCHANGED <<rows, series>>

\* A probe of a target of c has ended; its metrics follow.
Report(c, n) ==
    /\ rows' = rows \cup {Row(c, n)}
    /\ UNCHANGED <<active, series>>

Expose(c, n) ==
    /\ Row(c, n) \in rows
    /\ series' = series \cup {Row(c, n)}
    /\ UNCHANGED <<active, rows>>

\* The last probe loop has returned.
Retire ==
    /\ active' = {}
    /\ UNCHANGED <<rows, series>>

ClearSeries ==
    /\ active = {}
    /\ series' = {}
    /\ UNCHANGED <<active, rows>>

ClearRows ==
    /\ active = {} /\ series = {}
    /\ rows' = {}
    /\ UNCHANGED <<active, series>>

Next ==
    \/ \E c \in Configs : Activate(c)
    \/ \E c \in active : \E n \in TargetsOf[c] : Report(c, n) \/ Expose(c, n)
    \/ Retire
    \/ ClearSeries
    \/ ClearRows

Spec == Init /\ [][Next]_vars
=============================================================================
