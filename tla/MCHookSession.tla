---------------------------- MODULE MCHookSession ----------------------------
(***************************************************************************)
(* Prompts beside two tool hooks; a transcript of two lines of prose, of   *)
(* which a prompt sends one at a time; a ring of two files.                *)
(***************************************************************************)
EXTENDS HookSession

CONSTANTS turn, t1, t2, f1, f2, b1

MCTouches == {<<f1>>, <<f2, f1>>}
=============================================================================
