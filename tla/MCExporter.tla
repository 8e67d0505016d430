----------------------------- MODULE MCExporter -----------------------------
(* One target, whose labels change with every version of the file and which *)
(* has no webhook; the signal goroutine, a client and two timers -- one for  *)
(* each change -- can reload, and any of them together.  The generations are *)
(* enough for two reloads that load; one more stays before config.Load.      *)
EXTENDS Exporter

CONSTANTS a, t1, t2, c1

MCReloaders == {"signal"} \cup Clients \cup Timers
MCConfigs   == (0 .. MaxVersions) \ Bad
MCTargetsOf == [c \in Configs |-> {a}]
MCLabelOf   == [c \in Configs |-> [n \in Names |-> c]]
MCThreshold == [c \in Configs |-> 0]
=============================================================================
