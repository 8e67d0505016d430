----------------------------- MODULE MCProcess ------------------------------
(* One HTTP client and two timer goroutines beside the signal goroutine, so  *)
(* that any two can be in reload() together; a file that is changed twice,   *)
(* the first time to something that does not load -- a timer goroutine for   *)
(* every change, so that no callback needs the goroutine of another; three   *)
(* signals, the least with which one is taken, one waits and one is dropped. *)
EXTENDS Process

CONSTANTS c1, t1, t2
=============================================================================
