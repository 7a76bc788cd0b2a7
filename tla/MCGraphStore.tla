---------------------------- MODULE MCGraphStore ----------------------------
(***************************************************************************)
(* An open item and a decision of two sessions; an edge that resolves the  *)
(* item and one that does not; databases that are new, or of the version   *)
(* that kept the order in one blob.                                        *)
(***************************************************************************)
EXTENDS GraphStore, TLC

CONSTANTS n1, n2, e1, e2, s1, s2

MCTypeOf    == (n1 :> "OpenItem") @@ (n2 :> "Decision")
MCSessionOf == (n1 :> s1) @@ (n2 :> s2)
MCEdgeOf    == (e1 :> [type |-> "Resolves",  src |-> n2, tgt |-> n1])
            @@ (e2 :> [type |-> "RelatesTo", src |-> n1, tgt |-> n1])
MCLegacyBlobs == {<<>>, <<n2, n1>>}
=============================================================================
