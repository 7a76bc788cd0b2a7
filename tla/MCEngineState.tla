---------------------------- MODULE MCEngineState ----------------------------
(***************************************************************************)
(* Two handlers, two sessions and an open item of each.                    *)
(***************************************************************************)
EXTENDS EngineState, TLC

CONSTANTS S1, S2, i1, i2

(* Handlers differ in name only.                                           *)
HandlerSymmetry == Permutations(Handlers)

MCSessionOf == [i \in Items |-> IF i = i1 THEN S1 ELSE S2]
=============================================================================
