---------------------------- MODULE MCHookDaemon ----------------------------
(***************************************************************************)
(* Two hooks, of an old and a new version of the plugin, one of them with  *)
(* a pinned port, and up to two faults.                                    *)
(***************************************************************************)
EXTENDS HookDaemon, TLC

CONSTANTS h1, h2, p1, p2, p3

MCVersionOf == (h1 :> 1) @@ (h2 :> 2)
=============================================================================
