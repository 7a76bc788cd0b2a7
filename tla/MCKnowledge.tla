----------------------------- MODULE MCKnowledge -----------------------------
(***************************************************************************)
(* An open item and two decisions, one of which may be supported, refuted  *)
(* and superseded by the other; posted by agents or found in a batch.      *)
(***************************************************************************)
EXTENDS Knowledge

CONSTANTS q, d1, d2

Edge(type, source, target) == [type |-> type, source |-> source, target |-> target]

MCTimestamp == [n \in Nodes |-> IF n = d2 THEN 2 ELSE 1]
MCEdges == {Edge("RelatesTo", q, d1), Edge("RelatesTo", d1, d2),
            Edge("Refutes", q, d1), Edge("Supersedes", d2, d1)}
MCProposals == {Edge("Resolves", d1, q), Edge("Resolves", q, d1)}
MCResolutions == {<<q, d1>>}
MCResolveLists == {<<d1, q>>}
MCExtractions == {[nodes |-> <<d1, q>>, edges |-> <<Edge("RelatesTo", q, d1)>>]}
=============================================================================
