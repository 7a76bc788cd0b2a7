---------------------------- MODULE GraphContract ----------------------------
(***************************************************************************)
(* What the knowledge graph of armin promises about a node's life, without *)
(* any of the machinery (petgraph, sled, flush, crash) that provides it.   *)
(*                                                                         *)
(* A node is first absent, then Active, and it may become Invalidated;     *)
(* while the engine runs it never goes back.  A restart may forget recent  *)
(* steps, but never below what had reached the disk: the floor.            *)
(***************************************************************************)
EXTENDS Naturals

CONSTANT NodeIds

VARIABLES life,   \* life[n]: what a reader of the graph is told about n
          floor   \* floor[n]: what survives any crash

cvars == <<life, floor>>

Lives == {"absent", "Active", "Invalidated"}

(* The order of a life: absent, then Active, then Invalidated.             *)
Rank(s) == CASE s = "absent"      -> 0
             [] s = "Active"      -> 1
             [] s = "Invalidated" -> 2

(* f is nowhere ahead of g.                                                *)
AtMost(f, g) == \A n \in NodeIds : Rank(f[n]) <= Rank(g[n])

ContractTypeOK == /\ life  \in [NodeIds -> Lives]
                  /\ floor \in [NodeIds -> Lives]

ContractInit == /\ life \in [NodeIds -> Lives]
                /\ floor = life

(* A write: one node moves forward in its life.                            *)
Advance(n, s) == /\ Rank(life[n]) < Rank(s)
                 /\ life' = [life EXCEPT ![n] = s]
                 /\ UNCHANGED floor

(* A flush makes writes durable.                                           *)
Settle == /\ floor' \in [NodeIds -> Lives]
          /\ AtMost(floor, floor')
          /\ AtMost(floor', life)
          /\ UNCHANGED life

(* A crash or a restart: whatever was not durable may be forgotten, and    *)
(* what is left was on the disk.                                           *)
Restart == /\ life' \in [NodeIds -> Lives]
           /\ AtMost(floor, life')
           /\ AtMost(life', life)
           /\ floor' = life'

ContractNext == \/ \E n \in NodeIds, s \in Lives : Advance(n, s)
                \/ Settle
                \/ Restart

ContractSpec == ContractInit /\ [][ContractNext]_cvars
==============================================================================
