----------------------------- MODULE MCScheduler ----------------------------
(* Two configurations: "old" has two targets and alerts on every second     *)
(* failure, "new" drops one of them, moves the other to another model and   *)
(* alerts on every failure; "quiet" is "new" without a webhook.             *)
EXTENDS Scheduler

CONSTANTS a, b, old, new, quiet, l1, l2, r1, r2

MCTargetsOf == [c \in Configs |-> IF c = old THEN Names ELSE {a}]
MCLabelOf   == [c \in Configs |-> [n \in Names |-> IF c = old THEN l1 ELSE l2]]
MCThreshold == [c \in Configs |-> IF c = old THEN 2 ELSE IF c = new THEN 1 ELSE 0]
=============================================================================
