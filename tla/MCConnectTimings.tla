-------------------------- MODULE MCConnectTimings --------------------------
(* Every route of one host or two.  Six readings of the clock are enough for *)
(* DNS, dial, a second dial, handshake and a late end each at a time of its  *)
(* own.                                                                      *)
EXTENDS ConnectTimings

AllRoutes == [1 .. 1 -> Hosts] \cup [1 .. 2 -> Hosts]
=============================================================================
