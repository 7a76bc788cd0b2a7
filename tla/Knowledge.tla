------------------------------- MODULE Knowledge -------------------------------
(***************************************************************************)
(* What the engine knows: decisions and open items, and who changes them.   *)
(*                                                                          *)
(* Agents write through the routes (armin-core/engine/src/routes.rs), docs  *)
(* are imported (import.rs), the extraction worker commits what it found    *)
(* and asks an LLM which open items that answers (worker.rs,                *)
(* extraction/src/client.rs).  What is told to the agent is computed from   *)
(* the graph: the state of each decision (graph/src/decisions.rs), the      *)
(* brief (brief.rs) and what lies around a node (store.rs, risks.rs).       *)
(*                                                                          *)
(* The graph is kept as a set of edges and a status per node.  How it is    *)
(* stored is the subject of GraphStore, where resolve_question is taken     *)
(* apart; a node never leaves a running engine's graph (KeepsContract), so  *)
(* that here the call is one step.                                          *)
(***************************************************************************)
EXTENDS Naturals, Sequences, SequencesExt, FiniteSets

CONSTANTS
  Questions, Decisions,  \* node ids: the open items and the decisions
  Edges,         \* the edges that callers may post
  Resolutions,   \* the pairs of open item and resolver that callers may post
  ResolveLists,  \* what a decision may list as resolved
  Extractions,   \* what the extractor may find in a batch: nodes and edges
  Proposals,     \* the edges that the LLM may propose
  Timestamp,     \* Timestamp[n]: when n was said
  LinkLimit,     \* how many open items the LLM is shown
  MaxDecisions   \* MAX_DECISIONS

Nodes == Questions \cup Decisions
EdgeTypes == {"RelatesTo", "Resolves", "Refutes", "Supersedes"}
AllEdges == [type : EdgeTypes, source : Nodes, target : Nodes]
Resolves(r, q) == [type |-> "Resolves", source |-> r, target |-> q]

KnowledgeAssumption ==
  /\ Questions \cap Decisions = {}
  /\ Edges \subseteq AllEdges /\ Proposals \subseteq AllEdges
  /\ Resolutions \subseteq Nodes \X Nodes
  /\ ResolveLists \subseteq Seq(Nodes)
  /\ \A x \in Extractions : x.nodes \in Seq(Nodes) /\ x.edges \in Seq(AllEdges)
  /\ Timestamp \in [Nodes -> Nat]
  /\ LinkLimit \in Nat \ {0} /\ MaxDecisions \in Nat \ {0}
ASSUME KnowledgeAssumption

VARIABLES
  status,      \* of each node: "Absent", "Active" or "Invalidated"
  node_order,  \* the ids in order of insertion
  edges,
  recording,   \* calls of agent_decision: the decision, and what is still to resolve
  worker,      \* the extraction worker
  cut_off      \* history: decisions whose call did not end

graph == <<status, node_order, edges>>
vars == <<graph, recording, worker, cut_off>>

Idle == [at |-> "idle", nodes |-> <<>>, edges |-> <<>>, answers |-> {},
         questions |-> {}, links |-> {}]

TypeOK ==
  /\ status \in [Nodes -> {"Absent", "Active", "Invalidated"}]
  /\ node_order \in Seq(Nodes) /\ IsInjective(node_order)
  /\ ToSet(node_order) = {n \in Nodes : status[n] # "Absent"}
  /\ edges \subseteq AllEdges
  /\ recording \in SUBSET [node : Decisions, todo : Seq(Nodes)]
  /\ worker \in [at : {"idle", "commit", "asking", "linking"},
                 nodes : Seq(Nodes), edges : Seq(AllEdges), answers : SUBSET Nodes,
                 questions : SUBSET Questions, links : SUBSET (Nodes \X Nodes)]
  /\ cut_off \subseteq Decisions

Init ==
  /\ status = [n \in Nodes |-> "Absent"]
  /\ node_order = <<>>
  /\ edges = {}
  /\ recording = {}
  /\ worker = Idle
  /\ cut_off = {}

-------------------------------------------------------------------------------
(* The graph.                                                               *)

Known(n) == status[n] # "Absent"
incoming(n) == {e \in edges : e.target = n}
outgoing(n) == {e \in edges : e.source = n}

(* Mutant: a node that comes again replaces the one that is there.          *)
AddNodeReplace(n, state) ==
  /\ status' = [status EXCEPT ![n] = state]
  /\ node_order' = IF Known(n) THEN node_order ELSE Append(node_order, n)

add_node(n, state) ==
  IF Known(n) THEN UNCHANGED <<status, node_order>>
  ELSE /\ status' = [status EXCEPT ![n] = state]
       /\ node_order' = Append(node_order, n)

(* An edge with an unknown end is refused.                                  *)
add_edge(e) ==
  edges' = IF Known(e.source) /\ Known(e.target) THEN edges \cup {e} ELSE edges

-------------------------------------------------------------------------------
(* The routes.                                                              *)

(* POST /nodes, and each node of an import or of POST /extraction: the      *)
(* caller gives the id and the status.                                      *)
post_node(n) ==
  /\ \E state \in {"Active", "Invalidated"} : add_node(n, state)
  /\ UNCHANGED <<edges, recording, worker, cut_off>>

post_edge(e) == add_edge(e) /\ UNCHANGED <<status, node_order, recording, worker, cut_off>>

(* The routes for agents mint a new id.                                     *)
agent_question(q) ==
  /\ ~Known(q)
  /\ add_node(q, "Active")
  /\ UNCHANGED <<edges, recording, worker, cut_off>>

resolve(q, r) ==
  add_edge(Resolves(r, q)) /\ UNCHANGED <<status, node_order, recording, worker, cut_off>>

invalidate(n) ==
  /\ Known(n)
  /\ status' = [status EXCEPT ![n] = "Invalidated"]
  /\ UNCHANGED <<node_order, edges, recording, worker, cut_off>>

(* agent_decision adds its node, then resolves what it lists one by one.    *)
agent_decision(d, list) ==
  /\ ~Known(d)
  /\ add_node(d, "Active")
  /\ recording' = recording \cup {[node |-> d, todo |-> list]}
  /\ UNCHANGED <<edges, worker, cut_off>>

(* Mutant: the first id that is not known ends the call.                    *)
ResolveUntilUnknown(call) ==
  /\ call.todo # <<>>
  /\ add_edge(Resolves(call.node, Head(call.todo)))
  /\ recording' = (recording \ {call}) \cup
       IF Known(Head(call.todo)) THEN {[call EXCEPT !.todo = Tail(@)]} ELSE {}
  /\ UNCHANGED <<status, node_order, worker, cut_off>>

(* An id that is not known is skipped.                                      *)
ResolveNext(call) ==
  /\ call.todo # <<>>
  /\ add_edge(Resolves(call.node, Head(call.todo)))
  /\ recording' = (recording \ {call}) \cup {[call EXCEPT !.todo = Tail(@)]}
  /\ UNCHANGED <<status, node_order, worker, cut_off>>

Reply(call) ==
  /\ call.todo = <<>>
  /\ recording' = recording \ {call}
  /\ UNCHANGED <<graph, worker, cut_off>>

(* The client goes away: the handler is dropped where it waits.             *)
Disconnect(call) ==
  /\ recording' = recording \ {call}
  /\ cut_off' = cut_off \cup {call.node}
  /\ UNCHANGED <<graph, worker>>

-------------------------------------------------------------------------------
(* The extraction worker: commit_result and link_resolutions.  With jev as  *)
(* the extractor the LLM is not asked, as if it failed.                     *)

Position(n) == CHOOSE i \in DOMAIN node_order : node_order[i] = n

(* Active open items without an incoming Resolves edge: the newest ones.    *)
open_questions ==
  LET open == {n \in Questions : /\ status[n] = "Active"
                                 /\ \A e \in incoming(n) : e.type # "Resolves"}
  IN  {n \in open : Cardinality({m \in open : Position(m) > Position(n)}) < LinkLimit}

Commit(x) ==
  /\ worker.at = "idle"
  /\ worker' = [Idle EXCEPT !.at = "commit", !.nodes = x.nodes, !.edges = x.edges,
                            !.answers = ToSet(x.nodes)]
  /\ UNCHANGED <<graph, recording, cut_off>>

CommitNode ==
  /\ worker.at = "commit" /\ worker.nodes # <<>>
  /\ add_node(Head(worker.nodes), "Active")
  /\ worker' = [worker EXCEPT !.nodes = Tail(@)]
  /\ UNCHANGED <<edges, recording, cut_off>>

CommitEdge ==
  /\ worker.at = "commit" /\ worker.nodes = <<>> /\ worker.edges # <<>>
  /\ add_edge(Head(worker.edges))
  /\ worker' = [worker EXCEPT !.edges = Tail(@)]
  /\ UNCHANGED <<status, node_order, recording, cut_off>>

Ask ==
  /\ worker.at = "commit" /\ worker.nodes = <<>> /\ worker.edges = <<>>
  /\ worker' = IF worker.answers = {} \/ open_questions = {} THEN Idle
               ELSE [worker EXCEPT !.at = "asking", !.questions = open_questions]
  /\ UNCHANGED <<graph, recording, cut_off>>

(* Mutant: the ids that the LLM gives are taken as they are.                *)
TakeAll(proposed) == {<<e.target, e.source>> : e \in proposed}

(* Only Resolves edges from nodes of the batch to items that were shown.    *)
link_resolutions(proposed) ==
  {<<e.target, e.source>> : e \in {e \in proposed :
     e.type = "Resolves" /\ e.target \in worker.questions /\ e.source \in worker.answers}}

(* The LLM proposes any edges at all.                                       *)
Answer(proposed) ==
  /\ worker.at = "asking"
  /\ worker' = [worker EXCEPT !.at = "linking", !.links = link_resolutions(proposed)]
  /\ UNCHANGED <<graph, recording, cut_off>>

LinkerFails == worker.at = "asking" /\ worker' = Idle /\ UNCHANGED <<graph, recording, cut_off>>

Link ==
  /\ worker.at = "linking"
  /\ IF worker.links = {} THEN worker' = Idle /\ UNCHANGED edges
     ELSE \E l \in worker.links :
            /\ add_edge(Resolves(l[2], l[1]))
            /\ worker' = [worker EXCEPT !.links = @ \ {l}]
  /\ UNCHANGED <<status, node_order, recording, cut_off>>

(* The engine is restarted; the graph is persistent (CleanRestart).         *)
Restart ==
  /\ recording' = {} /\ worker' = Idle
  /\ cut_off' = cut_off \cup {call.node : call \in recording}
  /\ UNCHANGED graph

-------------------------------------------------------------------------------
DecisionSteps(d) ==
  \E call \in recording : call.node = d /\ (ResolveNext(call) \/ Reply(call))

Next ==
  \/ \E n \in Nodes : post_node(n) \/ invalidate(n)
  \/ \E q \in Questions : agent_question(q)
  \/ \E e \in Edges : post_edge(e)
  \/ \E p \in Resolutions : resolve(p[1], p[2])
  \/ \E d \in Decisions, list \in ResolveLists : agent_decision(d, list)
  \/ \E d \in Decisions : DecisionSteps(d)
  \/ \E call \in recording : Disconnect(call)
  \/ \E x \in Extractions : Commit(x)
  \/ CommitNode \/ CommitEdge \/ Ask \/ LinkerFails \/ Link
  \/ \E proposed \in SUBSET Proposals : Answer(proposed)
  \/ Restart

Spec == Init /\ [][Next]_vars /\ \A d \in Decisions : WF_vars(DecisionSteps(d))

-------------------------------------------------------------------------------
(* What is told of the graph.                                               *)

(* Open items without an answer: compute_debt.                              *)
unresolved ==
  {q \in Questions : status[q] = "Active" /\ \A e \in incoming(q) : e.type # "Resolves"}

HasIncoming(d, type) == \E e \in incoming(d) : e.type = type
HasResolution(d) == \E e \in outgoing(d) : e.type = "Resolves"

decision_status(d) ==
  IF HasIncoming(d, "Supersedes") THEN "Superseded"
  ELSE IF HasIncoming(d, "RelatesTo") /\ HasResolution(d) THEN "Validated"
  ELSE IF HasIncoming(d, "Refutes") /\ ~HasResolution(d) THEN "Blocked"
  ELSE "Pending"

(* The members of S in the order of a relation: as many come before the     *)
(* n-th as it says.                                                         *)
Listed(S, before) ==
  [n \in 1..Cardinality(S) |->
     CHOOSE a \in S : Cardinality({b \in S : <<b, a>> \in before}) = n - 1]

(* The active decisions, newest first; of the same time, in order of insertion. *)
extract_decisions ==
  LET active == {d \in Decisions : status[d] = "Active"}
      before == {p \in active \X active :
                   \/ Timestamp[p[1]] > Timestamp[p[2]]
                   \/ /\ Timestamp[p[1]] = Timestamp[p[2]]
                      /\ Position(p[1]) < Position(p[2])}
  IN  Listed(active, before)

(* The decisions in the brief: those with a state, then from the end of the *)
(* list of decisions as many others as there is room for.                   *)
build_brief ==
  LET list    == extract_decisions
      decided == {i \in DOMAIN list : decision_status(list[i]) # "Pending"}
      before  == {p \in (DOMAIN list) \X (DOMAIN list) :
                    IF p[1] \in decided THEN p[2] \in decided => p[1] < p[2]
                    ELSE p[2] \notin decided /\ p[1] > p[2]}
      chosen  == Listed(DOMAIN list, before)
  IN  [n \in 1..(IF Len(list) < MaxDecisions THEN Len(list) ELSE MaxDecisions) |->
         list[chosen[n]]]

(* One round of the loop of bfs_downstream_count and                        *)
(* collect_downstream_supported: the next of the queue, a node with its     *)
(* depth, and from it the nodes not yet visited.                            *)
Visit(relation, depth, s) ==
  LET head  == Head(s.queue)
      found == IF head[2] >= depth THEN {}
               ELSE {m \in Nodes : <<head[1], m>> \in relation} \ s.visited
  IN  IF s.queue = <<>> THEN s
      ELSE [queue   |-> Tail(s.queue) \o SetToSeq({<<m, head[2] + 1>> : m \in found}),
            visited |-> s.visited \cup found]

(* Breadth first: as many rounds as there are nodes empty the queue.        *)
Search(relation, start, depth) ==
  LET run[n \in 0..Len(node_order)] ==
        IF n = 0 THEN [queue |-> <<<<start, 0>>>>, visited |-> {start}]
        ELSE Visit(relation, depth, run[n - 1])
  IN  run[Len(node_order)].visited

bfs_downstream_count(n) ==
  Cardinality(Search({<<e.source, e.target>> : e \in edges}, n, 3)) - 1

RelatedTo == {<<e.source, e.target>> : e \in {e \in edges : e.type = "RelatesTo"}}

collect_downstream_supported(d) == Questions \cap (Search(RelatedTo, d, 2) \ {d})

blocked_work(d) ==
  {m \in Nodes : <<d, m>> \in RelatedTo} \cup collect_downstream_supported(d)

(* Frontier by frontier, in both directions.                                *)
adjacent(n) == {e.source : e \in incoming(n)} \cup {e.target : e \in outgoing(n)}

bfs_subgraph(seeds, depth) ==
  LET run[k \in 0..depth] ==
        IF k = 0 THEN [frontier |-> seeds, visited |-> seeds]
        ELSE LET s   == run[k - 1]
                 new == (UNION {adjacent(m) : m \in s.frontier}) \ s.visited
             IN  [frontier |-> new, visited |-> s.visited \cup new]
  IN  run[depth].visited

-------------------------------------------------------------------------------
(* Properties.                                                              *)

(* "re-import is a no-op", and so is everything else that comes again,      *)
(* whoever adds, imports, extracts, links or restarts.  An open item that   *)
(* was answered or invalidated is never owed again; a decision that is      *)
(* superseded stays so, and a validated one can only be superseded.         *)
NothingReverts ==
  [][/\ \A q \in Questions : Known(q) /\ q \notin unresolved => q \notin unresolved'
     /\ \A d \in Decisions :
          /\ decision_status(d) = "Superseded" => decision_status(d)' = "Superseded"
          /\ decision_status(d) = "Validated"  => decision_status(d)' \in {"Validated", "Superseded"}
    ]_vars

(* "hallucinated IDs are filtered here, not trusted": whatever the LLM says, *)
(* and whatever happened while it was asked, the worker answers only open    *)
(* items, with nodes of its batch, and both are in the graph.                *)
LinksJoinKnown ==
  \A l \in worker.links : /\ l[1] \in Questions /\ Known(l[1])
                          /\ l[2] \in worker.answers /\ Known(l[2])

(* An item that a decision lists and that exists is resolved by it in the   *)
(* end, whatever else is on the list, unless the call is cut off.           *)
ListedGetResolved ==
  \A d \in Decisions, q \in Questions :
    (\E call \in recording : call.node = d /\ q \in ToSet(call.todo) /\ Known(q))
      ~> (Resolves(d, q) \in edges \/ d \in cut_off)

(* The nodes a path of at most depth steps leads to.                        *)
Within(relation, start, depth) ==
  {m \in Nodes : \E k \in 0..depth : \E path \in [0..k -> Nodes] :
     /\ path[0] = start /\ path[k] = m
     /\ \A i \in 1..k : <<path[i - 1], path[i]>> \in relation}

(* The impact of a risk, the work that waits for a decision and the graph   *)
(* around a node are exactly what paths of the given length lead to.        *)
ReachIsByPaths ==
  LET all  == {<<e.source, e.target>> : e \in edges}
      both == all \cup {<<p[2], p[1]>> : p \in all}
  IN  /\ \A q \in Questions : bfs_downstream_count(q) = Cardinality(Within(all, q, 3) \ {q})
      /\ \A d \in Decisions : blocked_work(d) \ {d} =
           (Within(RelatedTo, d, 1) \cup (Within(RelatedTo, d, 2) \cap Questions)) \ {d}
      /\ \A n \in Nodes : bfs_subgraph({n}, 1) = Within(both, n, 1)

(* "decided ones first": the brief leaves no room unused, shows no pending  *)
(* decision while a decided one is left out, and of the decided ones none   *)
(* that is older than one it leaves out.                                    *)
BriefShowsDecided ==
  LET shown == ToSet(build_brief)
      active == {d \in Decisions : status[d] = "Active"}
      Decided(d) == decision_status(d) # "Pending"
  IN  /\ IsInjective(build_brief)
      /\ shown \subseteq active
      /\ shown # active => Cardinality(shown) = MaxDecisions
      /\ \A p \in shown, d \in active \ shown :
           Decided(d) => Decided(p) /\ Timestamp[p] >= Timestamp[d]

Inv == TypeOK /\ LinksJoinKnown /\ ReachIsByPaths /\ BriefShowsDecided
===============================================================================
