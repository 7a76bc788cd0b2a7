------------------------------ MODULE Communities ------------------------------
(***************************************************************************)
(* Louvain community detection (armin-core/graph/src/communities.rs): a     *)
(* weighted graph without direction is made of the typed edges, then node   *)
(* after node moves to the neighbouring community that gains most           *)
(* modularity, until a whole round changes nothing.                         *)
(*                                                                          *)
(* It runs under the store's read lock, so the graph stands still.  A       *)
(* HashMap gives the candidates in any order: among equal gains any wins.   *)
(* Weights are ten times those of the code, and gains and qualities are     *)
(* multiplied by (2m)^2 / 2 and (2m)^2: all of them are integers.  The code *)
(* computes them in f64.                                                    *)
(***************************************************************************)
EXTENDS Integers, Sequences, FiniteSets, FiniteSetsExt

CONSTANTS
  Graphs,         \* [n, edges]: nodes 1..n and a sequence of [src, tgt, type]
  MaxIterations   \* rounds

EdgeTypes == {"RelatesTo", "Resolves", "Supersedes", "Refutes"}

(* A graph without nodes has an empty report; an edge of petgraph has both   *)
(* its ends.                                                                *)
ASSUME CommunitiesAssumption ==
  /\ MaxIterations \in Nat \ {0}
  /\ \A g \in Graphs :
       /\ g.n \in Nat \ {0}
       /\ g.edges \in Seq([src : 1..g.n, tgt : 1..g.n, type : EdgeTypes])

VARIABLES
  graph,
  adj,         \* adj[i][j]: the weight between two nodes
  degree,      \* degree[i]: the sum of adj[i]
  community,   \* community[i]: of node i; a community has the name of a node
  sum_tot,     \* degrees of the members of a community
  sum_in,      \* weights inside a community
  step,        \* "move", "report" or "done"
  at,          \* the node whose turn it is
  improved,    \* something moved in this round
  iteration,   \* rounds begun
  report       \* [of, modularity, surprising]: the report

graphVars == <<graph, adj, degree>>
vars == <<graphVars, community, sum_tot, sum_in, step, at, improved, iteration, report>>

-------------------------------------------------------------------------------
(* The weighted graph.                                                      *)

Nodes == 1..graph.n

community_weight(type) ==
  CASE type = "RelatesTo" -> 10 [] type = "Resolves" -> 8
    [] type = "Supersedes" -> 6 [] type = "Refutes" -> 3

(* The sum of f[i] over the numbers i up to n that are in S.                *)
Total(S, n, f) ==
  LET Upto[i \in 0..n] == IF i = 0 THEN 0 ELSE Upto[i - 1] + (IF i \in S THEN f[i] ELSE 0)
  IN  Upto[n]

(* Parallel edges, in either direction, add up; a loop counts nothing.      *)
Adjacency(g) ==
  [i \in 1..g.n |-> [j \in 1..g.n |->
     Total({k \in DOMAIN g.edges : {g.edges[k].src, g.edges[k].tgt} = {i, j} /\ i # j},
           Len(g.edges), [k \in DOMAIN g.edges |-> community_weight(g.edges[k].type)])]]

TwiceM == Total(Nodes, graph.n, degree)

(* From node i to the members of community c.                               *)
WeightTo(i, c) == Total({j \in Nodes : community[j] = c}, graph.n, adj[i])

Adjacent(i) == {community[j] : j \in {k \in Nodes : adj[i][k] > 0}}

(* Mutant: the weight inside the old community is not given up.             *)
GainOnly(i, c) ==
  LET own == community[i]
      k   == degree[i]
  IN  WeightTo(i, c) * TwiceM + k * (sum_tot[own] - sum_tot[c] - k)

(* What the modularity gains when node i moves to community c.              *)
Gain(i, c) ==
  LET own == community[i]
      k   == degree[i]
  IN  (WeightTo(i, c) - WeightTo(i, own)) * TwiceM
        + k * (sum_tot[own] - sum_tot[c] - k)

(* The best neighbouring communities; none when nothing is gained.          *)
Best(i) ==
  LET gains == [c \in Adjacent(i) \ {community[i]} |-> Gain(i, c)]
  IN  {c \in DOMAIN gains : gains[c] > 0 /\ \A d \in DOMAIN gains : gains[d] <= gains[c]}

-------------------------------------------------------------------------------
(* Modularity of an assignment, from its definition.                        *)
InnerWeight(of, c) ==
  Total({i \in Nodes : of[i] = c}, graph.n,
        [i \in Nodes |-> Total({j \in 1..(i - 1) : of[j] = c}, graph.n, adj[i])])
Volume(of, c) == Total({i \in Nodes : of[i] = c}, graph.n, degree)
Share(of, c) == 2 * InnerWeight(of, c) * TwiceM - Volume(of, c) * Volume(of, c)
Quality(of) == Total({of[i] : i \in Nodes}, graph.n, [c \in Nodes |-> Share(of, c)])

NoReport == [of |-> <<>>, modularity |-> 0, surprising |-> {}]

TypeOK ==
  /\ graph \in Graphs
  /\ community \in [Nodes -> Nodes]
  /\ sum_tot \in [Nodes -> Nat]
  /\ sum_in \in [Nodes -> Nat]
  /\ step \in {"move", "report", "done"}
  /\ at \in Nodes
  /\ improved \in BOOLEAN
  /\ iteration \in 1..MaxIterations

Init ==
  /\ graph \in Graphs
  /\ adj = Adjacency(graph)
  /\ degree = [i \in Nodes |-> Total(Nodes, graph.n, adj[i])]
  /\ community = [i \in Nodes |-> i]
  /\ sum_tot = degree
  /\ sum_in = [i \in Nodes |-> 0]
  /\ step = "move"
  /\ at = 1
  /\ improved = FALSE
  /\ iteration = 1
  /\ report = NoReport

(* After the last node of a round: another round if something moved.        *)
Proceed(moved) ==
  IF at < graph.n
  THEN at' = at + 1 /\ improved' = moved /\ UNCHANGED <<step, iteration>>
  ELSE IF moved /\ iteration < MaxIterations
       THEN at' = 1 /\ improved' = FALSE /\ iteration' = iteration + 1 /\ UNCHANGED step
       ELSE step' = "report" /\ UNCHANGED <<at, improved, iteration>>

(* Mutant: the community that was left keeps the degree of the node.        *)
MoveOnce(c) ==
  /\ step = "move"
  /\ c \in Best(at)
  /\ sum_in' = [sum_in EXCEPT ![community[at]] = @ - WeightTo(at, community[at]),
                              ![c] = @ + WeightTo(at, c)]
  /\ sum_tot' = [sum_tot EXCEPT ![c] = @ + degree[at]]
  /\ community' = [community EXCEPT ![at] = c]
  /\ Proceed(TRUE)
  /\ UNCHANGED <<graphVars, report>>

(* Node at goes to community c.                                             *)
Move(c) ==
  LET own == community[at]
      k   == degree[at]
  IN  /\ step = "move"
      /\ c \in Best(at)
      /\ sum_in' = [sum_in EXCEPT ![own] = @ - WeightTo(at, own), ![c] = @ + WeightTo(at, c)]
      /\ sum_tot' = [sum_tot EXCEPT ![own] = @ - k, ![c] = @ + k]
      /\ community' = [community EXCEPT ![at] = c]
      /\ Proceed(TRUE)
      /\ UNCHANGED <<graphVars, report>>

(* Mutant: a move is forgotten by the next node that stays.                 *)
StayForgets ==
  /\ step = "move"
  /\ Best(at) = {}
  /\ Proceed(FALSE)
  /\ UNCHANGED <<graphVars, community, sum_tot, sum_in, report>>

Stay ==
  /\ step = "move"
  /\ Best(at) = {}
  /\ Proceed(improved)
  /\ UNCHANGED <<graphVars, community, sum_tot, sum_in, report>>

(* Communities are numbered in the order of their first nodes, here from 1. *)
Renumbered ==
  LET first(c) == Min({i \in Nodes : community[i] = c})
      firsts   == {first(community[i]) : i \in Nodes}
  IN  [i \in Nodes |-> Cardinality({f \in firsts : f <= first(community[i])})]

(* An edge between communities with how many there are between the two, and *)
(* how many their volumes let expect (over 2m).                             *)
Bridge(of, k) ==
  LET ends(j) == {of[graph.edges[j].src], of[graph.edges[j].tgt]}
      c == of[graph.edges[k].src]
      d == of[graph.edges[k].tgt]
  IN  [edge |-> k, count |-> Cardinality({j \in DOMAIN graph.edges : ends(j) = {c, d}}),
       expected |-> Volume(of, c) * Volume(of, d)]
Crossing(of) == {k \in DOMAIN graph.edges : of[graph.edges[k].src] # of[graph.edges[k].tgt]}

(* All of them are listed; the code sorts them by count over expected, ties *)
(* in any order.                                                            *)
Surprising(of) == {Bridge(of, k) : k \in Crossing(of)}

Report ==
  /\ step = "report"
  /\ report' = [of |-> Renumbered, modularity |-> Quality(Renumbered),
                surprising |-> Surprising(Renumbered)]
  /\ step' = "done"
  /\ UNCHANGED <<graphVars, community, sum_tot, sum_in, at, improved, iteration>>

Finished == step = "done" /\ UNCHANGED vars

Next == (\E c \in Nodes : Move(c)) \/ Stay \/ Report \/ Finished

(* The computation runs to its end.                                         *)
Spec == Init /\ [][Next]_vars /\ WF_vars(Next)

-------------------------------------------------------------------------------
(* Properties.                                                              *)

(* The sums that are kept up from move to move are those of the communities *)
(* there are, and no community reaches across parts of the graph that no    *)
(* edge connects, also when the node that gave it its name has left.        *)
SumsAgree == \A c \in Nodes : /\ sum_tot[c] = Volume(community, c)
                              /\ sum_in[c] = InnerWeight(community, c)
Connected(i) ==
  LET Reach[d \in 0..graph.n] ==
        IF d = 0 THEN {i}
        ELSE Reach[d - 1] \cup {j \in Nodes : \E k \in Reach[d - 1] : adj[j][k] > 0}
  IN  Reach[graph.n]
WithinParts == \A i, j \in Nodes : community[i] = community[j] => j \in Connected(i)
(* Every move makes the modularity strictly greater: rounds cannot go on    *)
(* for ever, however ties are broken.                                       *)
ModularityGrows ==
  [][community' # community => Quality(community') > Quality(community)]_vars

(* The detection comes to its end by itself, before the limit on rounds,    *)
(* with a partition that no single move improves.                           *)
EndsSettled ==
  <>(/\ step = "done"
     /\ iteration < MaxIterations
     /\ \A i \in Nodes : \A c \in Adjacent(i) :
          Quality([community EXCEPT ![i] = c]) <= Quality(community))

(* The report has every node in one community, numbered without gaps in the *)
(* order of first nodes, the modularity of what was found, and every edge   *)
(* that crosses communities, however expected it is.                        *)
ReportFits ==
  step = "done" =>
    /\ \A i, j \in Nodes : report.of[i] = report.of[j] <=> community[i] = community[j]
    /\ \A i \in Nodes : report.of[i] > 1 => \E j \in 1..(i - 1) : report.of[j] = report.of[i] - 1
    /\ report.modularity = Quality(community)
    /\ {s.edge : s \in report.surprising} =
         {k \in DOMAIN graph.edges : community[graph.edges[k].src] # community[graph.edges[k].tgt]}

(* What holds of every detection on its way, and of its report.             *)
Inv == TypeOK /\ SumsAgree /\ WithinParts /\ ReportFits
===============================================================================
