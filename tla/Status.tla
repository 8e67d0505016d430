------------------------------- MODULE Status -------------------------------
(***************************************************************************)
(* The status tracker (internal/status): a map from target names to the    *)
(* last known state of the target, guarded by one RWMutex, so that every   *)
(* method is one atomic step of the modules that use it.  A map is a       *)
(* function whose DOMAIN is the set of keys present.  Times and durations  *)
(* are left out; model, endpoint and api_format are one value, the label   *)
(* set of the target.                                                      *)
(***************************************************************************)
EXTENDS Naturals

CONSTANTS
    LabelSets   \* the (model, endpoint, api_format) triples in use

Entry == [label          : LabelSets,
          success        : BOOLEAN,
          consecFailures : Nat,
          totalProbes    : Nat,
          totalSuccesses : Nat]

\* A map without keys: what NewTracker makes and Reset leaves.
EmptyMap == [n \in {} |-> 0]

\* The entry Update creates for a name it has not seen, before the outcome.
FreshEntry(label) ==
    [label |-> label, success |-> FALSE,
     consecFailures |-> 0, totalProbes |-> 0, totalSuccesses |-> 0]

\* Slip: a success takes one failure back.
WithOutcomeDecays(st, ok) ==
    [label          |-> st.label,
     success        |-> ok,
     consecFailures |-> IF ok THEN st.consecFailures - 1 ELSE st.consecFailures + 1,
     totalProbes    |-> st.totalProbes + 1,
     totalSuccesses |-> IF ok THEN st.totalSuccesses + 1 ELSE st.totalSuccesses]

\* Slip: only successes count as probes.
WithOutcomeUncounted(st, ok) ==
    [label          |-> st.label,
     success        |-> ok,
     consecFailures |-> IF ok THEN 0 ELSE st.consecFailures + 1,
     totalProbes    |-> IF ok THEN st.totalProbes + 1 ELSE st.totalProbes,
     totalSuccesses |-> IF ok THEN st.totalSuccesses + 1 ELSE st.totalSuccesses]

\* An entry after one more outcome.  The label set stays the one the entry
\* was created with.
WithOutcome(st, ok) ==
    [label          |-> st.label,
     success        |-> ok,
     consecFailures |-> IF ok THEN 0 ELSE st.consecFailures + 1,
     totalProbes    |-> st.totalProbes + 1,
     totalSuccesses |-> IF ok THEN st.totalSuccesses + 1 ELSE st.totalSuccesses]

\* Update: creates the entry on first use, then records the outcome.
Updated(tracker, name, label, ok) ==
    [n \in DOMAIN tracker \cup {name} |->
        IF n # name THEN tracker[n]
        ELSE WithOutcome(IF name \in DOMAIN tracker THEN tracker[name]
                         ELSE FreshEntry(label), ok)]

\* (failures, entry): the snapshot ConsecFailures returns, (0, nil) for a name
\* that is not tracked.  Only the count is needed to decide on an alert.
ConsecFailures(tracker, name) ==
    IF name \in DOMAIN tracker THEN tracker[name].consecFailures ELSE 0
=============================================================================
