----------------------------- MODULE MCCommunities -----------------------------
(***************************************************************************)
(* Every graph of four nodes whose pairs are joined by nothing, a strong    *)
(* edge, a weak one, or both in opposite directions, and some larger ones:  *)
(* two triangles with a bridge, a ring of six, a star with loops, two parts.*)
(***************************************************************************)
EXTENDS Communities

E(i, j, t) == [src |-> i, tgt |-> j, type |-> t]
Kinds(i, j) == {<<>>, <<E(i, j, "Resolves")>>, <<E(j, i, "Refutes")>>,
                <<E(i, j, "RelatesTo"), E(j, i, "Supersedes")>>}
Small == {[n |-> 4, edges |-> a \o b \o c \o d \o e \o f] :
            a \in Kinds(1, 2), b \in Kinds(1, 3), c \in Kinds(1, 4),
            d \in Kinds(2, 3), e \in Kinds(2, 4), f \in Kinds(3, 4)}

R(i, j) == E(i, j, "RelatesTo")
Large == {[n |-> 6, edges |-> <<R(1, 2), R(2, 3), R(3, 1), R(4, 5), R(5, 6), R(6, 4), E(3, 4, "Refutes")>>],
          [n |-> 6, edges |-> <<R(1, 2), R(2, 3), R(3, 4), R(4, 5), R(5, 6), R(6, 1)>>],
          [n |-> 6, edges |-> <<R(1, 2), R(1, 3), R(1, 4), R(1, 5), R(1, 1), E(6, 6, "Resolves")>>],
          [n |-> 6, edges |-> <<R(1, 4), R(4, 6), E(2, 5, "Refutes"), R(5, 3), E(3, 2, "Supersedes")>>]}
MCGraphs == Small \cup Large
===============================================================================
