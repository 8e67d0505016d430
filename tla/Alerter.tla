------------------------------ MODULE Alerter -------------------------------
(***************************************************************************)
(* The webhook alerter (internal/alerter).  An Alerter is immutable after  *)
(* New: it is the threshold of the configuration it was built from, and 0  *)
(* stands for the nil *Alerter of a configuration without a webhook.  What *)
(* Check leaves behind is a goroutine that posts a copy of the status; the *)
(* goroutine has its own 10 s timeout, is not retried, is not waited for   *)
(* by anybody and cannot be cancelled.                                     *)
(***************************************************************************)
EXTENDS Status

\* Slip: one failure late.
FiresWhenPassed(threshold, failures) ==
    /\ threshold # 0
    /\ failures > threshold
    /\ failures % threshold = 1 % threshold

\* Whether Check starts a webhook goroutine: not on a nil Alerter, not for a
\* target without a failure streak, and on every multiple of the threshold.
Fires(threshold, failures) ==
    /\ threshold # 0
    /\ failures # 0
    /\ failures % threshold = 0
=============================================================================
