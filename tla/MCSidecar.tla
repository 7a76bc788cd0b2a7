------------------------------- MODULE MCSidecar -------------------------------
(***************************************************************************)
(* Two handlers, the three starts of the code and two health checks per     *)
(* start, with a pinned port that may be taken: engines that hang, crash,   *)
(* or find the store open, while calls meet each other and dispose.         *)
(***************************************************************************)
EXTENDS Sidecar

CONSTANTS c1, c2
===============================================================================
