---------------------------- MODULE KnowledgeProofs ----------------------------
(***************************************************************************)
(* Proofs about Knowledge, for any open items and decisions and whatever    *)
(* callers, the extractor and the LLM come up with.                         *)
(*                                                                          *)
(* Everything rests on the graph only ever gaining nodes and edges, and on  *)
(* a node that is known keeping its status but for an invalidation: facts   *)
(* that were read from the graph stay true while the LLM is asked.          *)
(***************************************************************************)
EXTENDS Knowledge, FiniteSetTheorems, SequenceTheorems, WellFoundedInduction, TLAPS

(* The batch of the worker is in the graph, but for what is left to commit; *)
(* what the LLM was shown is in the graph; and there are links only once it *)
(* has answered.                                                            *)
WorkerOK ==
  /\ \A a \in worker.answers : \/ Known(a)
                               \/ worker.at = "commit" /\ a \in ToSet(worker.nodes)
  /\ \A q \in worker.questions : Known(q)
  /\ worker.at # "linking" => worker.links = {}

(* The ends of an edge are in the graph.                                    *)
EdgesKnown == \A e \in edges : Known(e.source) /\ Known(e.target)

IInv == TypeOK /\ WorkerOK /\ LinksJoinKnown /\ EdgesKnown

-------------------------------------------------------------------------------
(* The graph only gains.                                                    *)

Grows ==
  /\ edges \subseteq edges'
  /\ \A n \in Nodes : \/ status'[n] = status[n]
                      \/ status[n] = "Absent"
                      \/ status'[n] = "Invalidated"

LEMMA GraphGrows ==
  ASSUME TypeOK, [Next]_vars
  PROVE  Grows
<1> USE DEF graph
<1>1. ASSUME NEW n \in Nodes, post_node(n)
      PROVE  Grows
  BY <1>1 DEF post_node, add_node, Known, Grows, TypeOK
<1>2. ASSUME NEW n \in Nodes, invalidate(n)
      PROVE  Grows
  BY <1>2 DEF invalidate, Grows
<1>3. ASSUME NEW q \in Questions, agent_question(q)
      PROVE  Grows
  BY <1>3 DEF agent_question, add_node, Known, Grows, TypeOK
<1>4. ASSUME NEW e \in Edges, post_edge(e)
      PROVE  Grows
  BY <1>4 DEF post_edge, add_edge, Grows
<1>5. ASSUME NEW p \in Resolutions, resolve(p[1], p[2])
      PROVE  Grows
  BY <1>5 DEF resolve, add_edge, Grows
<1>6. ASSUME NEW d \in Decisions, NEW list \in ResolveLists, agent_decision(d, list)
      PROVE  Grows
  BY <1>6 DEF agent_decision, add_node, Known, Grows, TypeOK
<1>7. ASSUME NEW call \in recording, ResolveNext(call)
      PROVE  Grows
  BY <1>7 DEF ResolveNext, add_edge, Grows
<1>8. ASSUME NEW call \in recording, Reply(call)
      PROVE  Grows
  BY <1>8 DEF Reply, Grows
<1>9. ASSUME NEW call \in recording, Disconnect(call)
      PROVE  Grows
  BY <1>9 DEF Disconnect, Grows
<1>10. ASSUME NEW x \in Extractions, Commit(x)
      PROVE  Grows
  BY <1>10 DEF Commit, Grows
<1>11. CASE CommitNode
  BY <1>11 DEF CommitNode, add_node, Known, Grows, TypeOK
<1>12. CASE CommitEdge
  BY <1>12 DEF CommitEdge, add_edge, Grows
<1>13. CASE Ask
  BY <1>13 DEF Ask, Grows
<1>14. CASE LinkerFails
  BY <1>14 DEF LinkerFails, Grows
<1>15. CASE Link
  BY <1>15 DEF Link, add_edge, Grows
<1>16. ASSUME NEW proposed \in SUBSET Proposals, Answer(proposed)
      PROVE  Grows
  BY <1>16 DEF Answer, Grows
<1>17. CASE Restart
  BY <1>17 DEF Restart, Grows
<1>18. CASE UNCHANGED vars
  BY <1>18 DEF vars, Grows
<1> QED
  BY <1>1, <1>2, <1>3, <1>4, <1>5, <1>6, <1>7, <1>8, <1>9, <1>10, <1>11, <1>12,
     <1>13, <1>14, <1>15, <1>16, <1>17, <1>18 DEF Next, DecisionSteps

-------------------------------------------------------------------------------
(* Types.                                                                   *)

LEMMA AppendNew ==
  ASSUME NEW S, NEW list \in Seq(S), IsInjective(list), NEW e \in S, e \notin ToSet(list)
  PROVE  /\ Append(list, e) \in Seq(S) /\ IsInjective(Append(list, e))
         /\ ToSet(Append(list, e)) = ToSet(list) \cup {e}
<1> DEFINE longer == Append(list, e)
<1>1. /\ longer \in Seq(S) /\ Len(longer) = Len(list) + 1
      /\ DOMAIN longer = 1..Len(list) + 1 /\ DOMAIN list = 1..Len(list)
      /\ \A i \in 1..Len(list) : longer[i] = list[i]
      /\ longer[Len(list) + 1] = e
  OBVIOUS
<1>2. IsInjective(longer)
  BY <1>1 DEF IsInjective, ToSet
<1>3. ToSet(longer) = ToSet(list) \cup {e}
  BY <1>1 DEF ToSet
<1> QED
  BY <1>1, <1>2, <1>3

LEMMA HeadAndTail ==
  ASSUME NEW S, NEW list \in Seq(S), list # <<>>
  PROVE  /\ Head(list) \in S /\ Tail(list) \in Seq(S)
         /\ ToSet(list) = {Head(list)} \cup ToSet(Tail(list))
<1>1. /\ Head(list) = list[1] /\ Head(list) \in S /\ Tail(list) \in Seq(S)
      /\ Len(list) > 0 /\ Len(Tail(list)) = Len(list) - 1
      /\ \A i \in 1..Len(list) - 1 : Tail(list)[i] = list[i + 1]
  OBVIOUS
<1>2. ASSUME NEW e \in ToSet(list), e # Head(list)
      PROVE  e \in ToSet(Tail(list))
  <2>1. PICK i \in 1..Len(list) : list[i] = e
    BY DEF ToSet
  <2>2. i # 1
    BY <1>1, <1>2, <2>1
  <2>3. i - 1 \in 1..Len(list) - 1 /\ Tail(list)[i - 1] = e
    BY <1>1, <2>1, <2>2
  <2>4. DOMAIN Tail(list) = 1..Len(list) - 1
    BY <1>1
  <2> QED
    BY <2>3, <2>4 DEF ToSet
<1>3. ToSet(Tail(list)) \subseteq ToSet(list)
  BY <1>1 DEF ToSet
<1>4. Head(list) \in ToSet(list)
  BY <1>1 DEF ToSet
<1> QED
  BY <1>1, <1>2, <1>3, <1>4

(* A node that is added is listed once.                                     *)
LEMMA AddedOnce ==
  ASSUME TypeOK, NEW n \in Nodes, NEW state \in {"Active", "Invalidated"}, add_node(n, state)
  PROVE  /\ status' \in [Nodes -> {"Absent", "Active", "Invalidated"}]
         /\ node_order' \in Seq(Nodes) /\ IsInjective(node_order')
         /\ ToSet(node_order') = {m \in Nodes : status'[m] # "Absent"}
         /\ Known(n)'
<1>1. CASE Known(n)
  BY <1>1 DEF add_node, TypeOK, Known
<1>2. CASE ~Known(n)
  <2>1. status' = [status EXCEPT ![n] = state] /\ node_order' = Append(node_order, n)
    BY <1>2 DEF add_node
  <2>2. n \notin ToSet(node_order)
    BY <1>2 DEF Known, TypeOK
  <2>3. /\ node_order' \in Seq(Nodes) /\ IsInjective(node_order')
        /\ ToSet(node_order') = ToSet(node_order) \cup {n}
    BY <2>1, <2>2, AppendNew DEF TypeOK
  <2>4. /\ status' \in [Nodes -> {"Absent", "Active", "Invalidated"}] /\ status'[n] # "Absent"
        /\ \A m \in Nodes \ {n} : status'[m] = status[m]
    BY <2>1 DEF TypeOK
  <2> QED
    BY <2>3, <2>4 DEF TypeOK, Known
<1> QED
  BY <1>1, <1>2

LEMMA ResolvesEdge ==
  ASSUME NEW r \in Nodes, NEW q \in Nodes
  PROVE  Resolves(r, q) \in AllEdges
BY DEF Resolves, AllEdges, EdgeTypes

LEMMA AddedEdge ==
  ASSUME TypeOK, NEW e \in AllEdges, add_edge(e)
  PROVE  edges' \subseteq AllEdges
BY DEF add_edge, TypeOK

LEMMA TypeStep ==
  ASSUME TypeOK, [Next]_vars
  PROVE  TypeOK'
<1> USE DEF graph
<1>1. ASSUME NEW n \in Nodes, post_node(n)
      PROVE  TypeOK'
  <2>1. /\ status' \in [Nodes -> {"Absent", "Active", "Invalidated"}]
        /\ node_order' \in Seq(Nodes) /\ IsInjective(node_order')
        /\ ToSet(node_order') = {m \in Nodes : status'[m] # "Absent"}
    BY <1>1, AddedOnce DEF post_node
  <2> QED
    BY <1>1, <2>1 DEF post_node, TypeOK
<1>2. ASSUME NEW n \in Nodes, invalidate(n)
      PROVE  TypeOK'
  <2>1. /\ status' \in [Nodes -> {"Absent", "Active", "Invalidated"}]
        /\ \A m \in Nodes : status'[m] # "Absent" <=> status[m] # "Absent"
    BY <1>2 DEF invalidate, Known, TypeOK
  <2> QED
    BY <1>2, <2>1 DEF invalidate, TypeOK
<1>3. ASSUME NEW q \in Questions, agent_question(q)
      PROVE  TypeOK'
  <2>1. /\ status' \in [Nodes -> {"Absent", "Active", "Invalidated"}]
        /\ node_order' \in Seq(Nodes) /\ IsInjective(node_order')
        /\ ToSet(node_order') = {m \in Nodes : status'[m] # "Absent"}
    BY <1>3, AddedOnce DEF agent_question, Nodes
  <2> QED
    BY <1>3, <2>1 DEF agent_question, TypeOK
<1>4. ASSUME NEW e \in Edges, post_edge(e)
      PROVE  TypeOK'
  BY <1>4, KnowledgeAssumption DEF post_edge, add_edge, KnowledgeAssumption,
     TypeOK
<1>5. ASSUME NEW p \in Resolutions, resolve(p[1], p[2])
      PROVE  TypeOK'
  BY <1>5, KnowledgeAssumption DEF resolve, add_edge, KnowledgeAssumption,
     AllEdges, EdgeTypes, Resolves, TypeOK
<1>6. ASSUME NEW d \in Decisions, NEW list \in ResolveLists, agent_decision(d, list)
      PROVE  TypeOK'
  <2>1. /\ status' \in [Nodes -> {"Absent", "Active", "Invalidated"}]
        /\ node_order' \in Seq(Nodes) /\ IsInjective(node_order')
        /\ ToSet(node_order') = {m \in Nodes : status'[m] # "Absent"}
    BY <1>6, AddedOnce DEF agent_decision, Nodes
  <2> QED
    BY <1>6, <2>1, KnowledgeAssumption DEF agent_decision, KnowledgeAssumption,
       TypeOK
<1>7. ASSUME NEW call \in recording, ResolveNext(call)
      PROVE  TypeOK'
  <2>1. /\ call \in [node : Decisions, todo : Seq(Nodes)]
        /\ Head(call.todo) \in Nodes /\ Tail(call.todo) \in Seq(Nodes)
    BY <1>7 DEF ResolveNext, TypeOK
  <2>2. edges' \subseteq AllEdges
    BY <1>7, <2>1, AddedEdge, ResolvesEdge DEF ResolveNext, Nodes
  <2>3. [call EXCEPT !.todo = Tail(@)] \in [node : Decisions, todo : Seq(Nodes)]
    BY <2>1
  <2> QED
    BY <1>7, <2>2, <2>3 DEF ResolveNext, TypeOK
<1>8. ASSUME NEW call \in recording, Reply(call)
      PROVE  TypeOK'
  BY <1>8 DEF Reply, TypeOK
<1>9. ASSUME NEW call \in recording, Disconnect(call)
      PROVE  TypeOK'
  BY <1>9 DEF Disconnect, TypeOK
<1>10. ASSUME NEW x \in Extractions, Commit(x)
      PROVE  TypeOK'
  <2>1. x.nodes \in Seq(Nodes) /\ x.edges \in Seq(AllEdges)
    BY KnowledgeAssumption DEF KnowledgeAssumption
  <2>2. ToSet(x.nodes) \subseteq Nodes
    BY <2>1 DEF ToSet
  <2> QED
    BY <1>10, <2>1, <2>2 DEF Commit, Idle, TypeOK
<1>11. CASE CommitNode
  <2>1. Head(worker.nodes) \in Nodes /\ Tail(worker.nodes) \in Seq(Nodes)
    BY <1>11 DEF CommitNode, TypeOK
  <2>2. /\ status' \in [Nodes -> {"Absent", "Active", "Invalidated"}]
        /\ node_order' \in Seq(Nodes) /\ IsInjective(node_order')
        /\ ToSet(node_order') = {m \in Nodes : status'[m] # "Absent"}
    BY <1>11, <2>1, AddedOnce DEF CommitNode
  <2> QED
    BY <1>11, <2>1, <2>2 DEF CommitNode, TypeOK
<1>12. CASE CommitEdge
  <2>1. Head(worker.edges) \in AllEdges /\ Tail(worker.edges) \in Seq(AllEdges)
    BY <1>12 DEF CommitEdge, TypeOK
  <2>2. edges' \subseteq AllEdges
    BY <1>12, <2>1, AddedEdge DEF CommitEdge
  <2> QED
    BY <1>12, <2>1, <2>2 DEF CommitEdge, TypeOK
<1>13. CASE Ask
  <2>1. open_questions \subseteq Questions
    BY DEF open_questions
  <2>2. worker' = Idle \/ worker' = [worker EXCEPT !.at = "asking", !.questions = open_questions]
    BY <1>13 DEF Ask
  <2> HIDE DEF open_questions
  <2> QED
    BY <1>13, <2>1, <2>2 DEF Ask, Idle, TypeOK
<1>14. CASE LinkerFails
  BY <1>14 DEF LinkerFails, Idle, TypeOK
<1>15. CASE Link
  <2>1. CASE worker.links = {}
    <3>1. worker' = Idle /\ UNCHANGED <<edges, status, node_order, recording, cut_off>>
      BY <1>15, <2>1 DEF Link
    <3> QED
      BY <3>1 DEF Idle, TypeOK
  <2>2. CASE worker.links # {}
    <3>1. PICK l \in worker.links : /\ add_edge(Resolves(l[2], l[1]))
                                   /\ worker' = [worker EXCEPT !.links = @ \ {l}]
      BY <1>15, <2>2 DEF Link
    <3>2. l[1] \in Nodes /\ l[2] \in Nodes
      BY DEF TypeOK
    <3>3. edges' \subseteq AllEdges
      BY <3>1, <3>2, AddedEdge, ResolvesEdge
    <3>4. UNCHANGED <<status, node_order, recording, cut_off>>
      BY <1>15 DEF Link
    <3> QED
      BY <3>1, <3>3, <3>4 DEF TypeOK
  <2> QED
    BY <2>1, <2>2
<1>16. ASSUME NEW proposed \in SUBSET Proposals, Answer(proposed)
      PROVE  TypeOK'
  <2>1. link_resolutions(proposed) \subseteq Nodes \X Nodes
    BY KnowledgeAssumption DEF KnowledgeAssumption, link_resolutions, AllEdges
  <2> HIDE DEF link_resolutions
  <2> QED
    BY <1>16, <2>1 DEF Answer, TypeOK
<1>17. CASE Restart
  BY <1>17 DEF Restart, Idle, TypeOK
<1>18. CASE UNCHANGED vars
  BY <1>18 DEF vars, TypeOK
<1> QED
  BY <1>1, <1>2, <1>3, <1>4, <1>5, <1>6, <1>7, <1>8, <1>9, <1>10, <1>11, <1>12,
     <1>13, <1>14, <1>15, <1>16, <1>17, <1>18 DEF Next, DecisionSteps
-------------------------------------------------------------------------------
(* The worker.                                                              *)

LEMMA StaysKnown == TypeOK /\ Grows => \A n \in Nodes : Known(n) => Known(n)'
  BY DEF TypeOK, Grows, Known

LEMMA WorkerStep ==
  ASSUME TypeOK, WorkerOK, LinksJoinKnown, [Next]_vars
  PROVE  (WorkerOK /\ LinksJoinKnown)'
<1> USE DEF graph
<1>0. /\ \A n \in Nodes : Known(n) => Known(n)'
      /\ worker.answers \subseteq Nodes /\ worker.questions \subseteq Nodes
      /\ worker.links \subseteq Nodes \X Nodes
  BY GraphGrows, StaysKnown DEF TypeOK, Nodes
<1>1. ASSUME NEW n \in Nodes, post_node(n)
      PROVE  (WorkerOK /\ LinksJoinKnown)'
  BY <1>1, <1>0 DEF post_node, WorkerOK, LinksJoinKnown
<1>2. ASSUME NEW n \in Nodes, invalidate(n)
      PROVE  (WorkerOK /\ LinksJoinKnown)'
  BY <1>2, <1>0 DEF invalidate, WorkerOK, LinksJoinKnown
<1>3. ASSUME NEW q \in Questions, agent_question(q)
      PROVE  (WorkerOK /\ LinksJoinKnown)'
  BY <1>3, <1>0 DEF agent_question, WorkerOK, LinksJoinKnown
<1>4. ASSUME NEW e \in Edges, post_edge(e)
      PROVE  (WorkerOK /\ LinksJoinKnown)'
  BY <1>4, <1>0 DEF post_edge, WorkerOK, LinksJoinKnown
<1>5. ASSUME NEW p \in Resolutions, resolve(p[1], p[2])
      PROVE  (WorkerOK /\ LinksJoinKnown)'
  BY <1>5, <1>0 DEF resolve, WorkerOK, LinksJoinKnown
<1>6. ASSUME NEW d \in Decisions, NEW list \in ResolveLists, agent_decision(d, list)
      PROVE  (WorkerOK /\ LinksJoinKnown)'
  BY <1>6, <1>0 DEF agent_decision, WorkerOK, LinksJoinKnown
<1>7. ASSUME NEW call \in recording, ResolveNext(call)
      PROVE  (WorkerOK /\ LinksJoinKnown)'
  BY <1>7, <1>0 DEF ResolveNext, WorkerOK, LinksJoinKnown
<1>8. ASSUME NEW call \in recording, Reply(call)
      PROVE  (WorkerOK /\ LinksJoinKnown)'
  BY <1>8, <1>0 DEF Reply, WorkerOK, LinksJoinKnown
<1>9. ASSUME NEW call \in recording, Disconnect(call)
      PROVE  (WorkerOK /\ LinksJoinKnown)'
  BY <1>9, <1>0 DEF Disconnect, WorkerOK, LinksJoinKnown
<1>10. ASSUME NEW x \in Extractions, Commit(x)
      PROVE  (WorkerOK /\ LinksJoinKnown)'
  BY <1>10, <1>0 DEF Commit, Idle, WorkerOK, LinksJoinKnown
<1>11. CASE CommitNode
  <2> DEFINE h == Head(worker.nodes)
             rest == ToSet(Tail(worker.nodes))
  <2>1. h \in Nodes /\ ToSet(worker.nodes) = {h} \cup rest
    BY <1>11, HeadAndTail DEF CommitNode, TypeOK
  <2>2. status'[h] # "Absent"
    BY <1>11, <2>1 DEF CommitNode, add_node, Known, TypeOK
  <2>3. /\ worker.at = "commit" /\ worker'.at = "commit" /\ ToSet(worker'.nodes) = rest
        /\ worker'.answers = worker.answers /\ worker'.questions = worker.questions
        /\ worker'.links = worker.links
    BY <1>11 DEF CommitNode
  <2> HIDE DEF h, rest
  <2>4. \A a \in worker.answers : Known(a)' \/ a \in rest
    BY <2>1, <2>2, <2>3, <1>0 DEF WorkerOK, Known
  <2>5. \A q \in worker.questions : Known(q)'
    BY <1>0 DEF WorkerOK
  <2> QED
    BY <2>3, <2>4, <2>5 DEF WorkerOK, LinksJoinKnown
<1>12. CASE CommitEdge
  BY <1>12, <1>0 DEF CommitEdge, WorkerOK, LinksJoinKnown
<1>13. CASE Ask
  <2>1. \A q \in open_questions : q \in Nodes /\ Known(q)
    BY DEF open_questions, Known, Nodes
  <2>2. worker' = Idle \/ worker' = [worker EXCEPT !.at = "asking", !.questions = open_questions]
    BY <1>13 DEF Ask
  <2>3. worker.at = "commit" /\ ToSet(worker.nodes) = {}
    BY <1>13 DEF Ask, ToSet
  <2>4. \A n \in Nodes : Known(n)' <=> Known(n)
    BY <1>13 DEF Ask, Known
  <2> HIDE DEF open_questions
  <2>5. CASE worker' = Idle
    BY <2>5 DEF Idle, WorkerOK, LinksJoinKnown
  <2>6. CASE worker' = [worker EXCEPT !.at = "asking", !.questions = open_questions]
    <3>1. /\ worker'.at = "asking" /\ worker'.answers = worker.answers
          /\ worker'.questions = open_questions /\ worker'.links = {}
      BY <2>3, <2>6 DEF WorkerOK
    <3>2. \A a \in worker.answers : Known(a)'
      BY <2>3, <2>4, <1>0 DEF WorkerOK
    <3>3. \A q \in open_questions : Known(q)'
      BY <2>1, <2>4
    <3> QED
      BY <3>1, <3>2, <3>3 DEF WorkerOK, LinksJoinKnown
  <2> QED
    BY <2>2, <2>5, <2>6
<1>14. CASE LinkerFails
  BY <1>14, <1>0 DEF LinkerFails, Idle, WorkerOK, LinksJoinKnown
<1>15. CASE Link
  <2>1. worker' = Idle \/ \E l \in worker.links : worker' = [worker EXCEPT !.links = @ \ {l}]
    BY <1>15 DEF Link
  <2>2. worker.at = "linking"
    BY <1>15 DEF Link
  <2>3. \A n \in Nodes : Known(n)' <=> Known(n)
    BY <1>15 DEF Link, Known
  <2>4. CASE worker' = Idle
    BY <2>4 DEF Idle, WorkerOK, LinksJoinKnown
  <2>5. ASSUME NEW l \in worker.links, worker' = [worker EXCEPT !.links = @ \ {l}]
        PROVE  (WorkerOK /\ LinksJoinKnown)'
    <3>1. /\ worker'.at = "linking" /\ worker'.answers = worker.answers
          /\ worker'.questions = worker.questions /\ worker'.links = worker.links \ {l}
      BY <2>2, <2>5 DEF TypeOK
    <3>2. WorkerOK'
      BY <2>2, <2>3, <3>1, <1>0 DEF WorkerOK, TypeOK, Nodes
    <3>3. LinksJoinKnown'
      BY <2>3, <3>1, <1>0 DEF LinksJoinKnown, TypeOK, Nodes
    <3> QED
      BY <3>2, <3>3
  <2> QED
    BY <2>1, <2>4, <2>5
<1>16. ASSUME NEW proposed \in SUBSET Proposals, Answer(proposed)
      PROVE  (WorkerOK /\ LinksJoinKnown)'
  <2>1. \A l \in link_resolutions(proposed) : l[1] \in worker.questions /\ l[2] \in worker.answers
    BY DEF link_resolutions
  <2>2. worker' = [worker EXCEPT !.at = "linking", !.links = link_resolutions(proposed)]
    BY <1>16 DEF Answer
  <2>3. worker.at = "asking"
    BY <1>16 DEF Answer
  <2> HIDE DEF link_resolutions
  <2> QED
    BY <2>1, <2>2, <2>3, <1>0 DEF WorkerOK, LinksJoinKnown, TypeOK
<1>17. CASE Restart
  BY <1>17, <1>0 DEF Restart, Idle, WorkerOK, LinksJoinKnown
<1>18. CASE UNCHANGED vars
  BY <1>18, <1>0 DEF vars, WorkerOK, LinksJoinKnown
<1> QED
  BY <1>1, <1>2, <1>3, <1>4, <1>5, <1>6, <1>7, <1>8, <1>9, <1>10, <1>11, <1>12,
     <1>13, <1>14, <1>15, <1>16, <1>17, <1>18 DEF Next, DecisionSteps

-------------------------------------------------------------------------------
(* The edges.                                                               *)

EdgesGain == \A e \in edges' : e \in edges \/ (Known(e.source) /\ Known(e.target))

LEMMA AddGains == ASSUME NEW e, add_edge(e) PROVE EdgesGain
BY DEF add_edge, EdgesGain

LEMMA EdgesStep ==
  ASSUME TypeOK, EdgesKnown, [Next]_vars
  PROVE  EdgesKnown'
<1> USE DEF graph
<1>1. ASSUME UNCHANGED edges
      PROVE  EdgesGain
  BY <1>1 DEF EdgesGain
<1>2. ASSUME NEW e \in Edges, post_edge(e)
      PROVE  EdgesGain
  BY <1>2, AddGains DEF post_edge
<1>3. ASSUME NEW p \in Resolutions, resolve(p[1], p[2])
      PROVE  EdgesGain
  BY <1>3, AddGains DEF resolve
<1>4. ASSUME NEW call \in recording, ResolveNext(call)
      PROVE  EdgesGain
  BY <1>4, AddGains DEF ResolveNext
<1>5. ASSUME CommitEdge
      PROVE  EdgesGain
  BY <1>5, AddGains DEF CommitEdge
<1>6. ASSUME Link
      PROVE  EdgesGain
  BY <1>6, <1>1, AddGains DEF Link
<1>7. EdgesGain
  BY <1>1, <1>2, <1>3, <1>4, <1>5, <1>6
     DEF Next, DecisionSteps, vars, post_node, invalidate, agent_question, agent_decision,
         Reply, Disconnect, Commit, CommitNode, Ask, LinkerFails, Answer, Restart
<1>8. /\ \A n \in Nodes : Known(n) => Known(n)'
      /\ \A e \in edges' : e.source \in Nodes /\ e.target \in Nodes
  BY GraphGrows, StaysKnown, TypeStep DEF TypeOK, AllEdges
<1> QED
  BY <1>7, <1>8 DEF EdgesGain, EdgesKnown

-------------------------------------------------------------------------------
(* The invariant, and what never happens.                                   *)

LEMMA InitIInv == Init => IInv
<1> SUFFICES ASSUME Init PROVE IInv
  OBVIOUS
<1>1. node_order \in Seq(Nodes) /\ IsInjective(node_order) /\ ToSet(node_order) = {}
  BY DEF Init, IsInjective, ToSet
<1>2. TypeOK
  BY <1>1 DEF Init, Idle, TypeOK
<1>3. WorkerOK /\ LinksJoinKnown
  BY DEF Init, Idle, WorkerOK, LinksJoinKnown
<1>4. EdgesKnown
  BY DEF Init, EdgesKnown
<1> QED
  BY <1>2, <1>3, <1>4 DEF IInv

LEMMA NextIInv == IInv /\ [Next]_vars => IInv'
<1> SUFFICES ASSUME IInv, [Next]_vars PROVE IInv'
  OBVIOUS
<1> QED
  BY TypeStep, WorkerStep, EdgesStep DEF IInv

(* IInv is an invariant of the graph's writers: what a batch of the worker  *)
(* has committed, and what its LLM was shown, is in the graph, and so are   *)
(* the ends of every edge.                                                  *)
THEOREM Invariance == Spec => []IInv
  BY InitIInv, NextIInv, PTL DEF Spec

(* "hallucinated IDs are filtered here, not trusted" (link_resolutions in   *)
(* client.rs): whatever the LLM proposes, and whatever happens while it is  *)
(* asked, a link goes from a node of the batch to an open item, and both    *)
(* are in the graph.                                                        *)
THEOREM LinksAreKnown == Spec => []LinksJoinKnown
<1>1. IInv => LinksJoinKnown
  BY DEF IInv
<1> QED
  BY <1>1, Invariance, PTL

LEMMA GrownStays ==
  ASSUME TypeOK, Grows
  PROVE  /\ \A q \in Questions : Known(q) /\ q \notin unresolved => q \notin unresolved'
         /\ \A d \in Decisions :
              /\ decision_status(d) = "Superseded" => decision_status(d)' = "Superseded"
              /\ decision_status(d) = "Validated"
                   => decision_status(d)' \in {"Validated", "Superseded"}
<1>1. ASSUME NEW q \in Questions, Known(q), q \notin unresolved
      PROVE  q \notin unresolved'
  <2>1. CASE status[q] = "Invalidated"
    <3>1. status'[q] = "Invalidated"
      BY <2>1 DEF Grows, Nodes
    <3> QED
      BY <3>1 DEF unresolved
  <2>2. CASE status[q] = "Active"
    <3>1. PICK e \in edges : e.target = q /\ e.type = "Resolves"
      BY <1>1, <2>2 DEF unresolved, incoming
    <3>2. e \in edges'
      BY <3>1 DEF Grows
    <3> QED
      BY <3>1, <3>2 DEF unresolved, incoming
  <2> QED
    BY <1>1, <2>1, <2>2 DEF Known, TypeOK, Nodes
<1>2. ASSUME NEW d \in Decisions, NEW type, HasIncoming(d, type)
      PROVE  HasIncoming(d, type)'
  BY <1>2 DEF HasIncoming, incoming, Grows
<1>3. ASSUME NEW d \in Decisions, HasResolution(d)
      PROVE  HasResolution(d)'
  BY <1>3 DEF HasResolution, outgoing, Grows
<1>4. ASSUME NEW d \in Decisions, decision_status(d) = "Superseded"
      PROVE  decision_status(d)' = "Superseded"
  <2>1. HasIncoming(d, "Supersedes")
    BY <1>4 DEF decision_status
  <2> QED
    BY <1>2, <2>1 DEF decision_status
<1>5. ASSUME NEW d \in Decisions, decision_status(d) = "Validated"
      PROVE  decision_status(d)' \in {"Validated", "Superseded"}
  <2>1. HasIncoming(d, "RelatesTo") /\ HasResolution(d)
    BY <1>5 DEF decision_status
  <2>2. HasIncoming(d, "RelatesTo")' /\ HasResolution(d)'
    BY <1>2, <1>3, <2>1
  <2> QED
    BY <2>2 DEF decision_status
<1> QED
  BY <1>1, <1>4, <1>5

(* Whoever adds, imports, extracts, links or restarts: an open item that    *)
(* was answered or invalidated is never owed again, a superseded decision   *)
(* stays so, and a validated one can only be superseded (add_node in        *)
(* store.rs, extract_decisions in decisions.rs).                            *)
THEOREM NothingIsUndone == Spec => NothingReverts
<1> DEFINE Stays ==
      /\ \A q \in Questions : Known(q) /\ q \notin unresolved => q \notin unresolved'
      /\ \A d \in Decisions :
           /\ decision_status(d) = "Superseded" => decision_status(d)' = "Superseded"
           /\ decision_status(d) = "Validated"
                => decision_status(d)' \in {"Validated", "Superseded"}
<1>1. IInv /\ [Next]_vars => [Stays]_vars
  <2> SUFFICES ASSUME IInv, [Next]_vars PROVE Stays
    OBVIOUS
  <2>1. TypeOK /\ Grows
    BY GraphGrows DEF IInv
  <2> QED
    BY <2>1, GrownStays
<1> HIDE DEF Stays
<1>2. Spec => [][Stays]_vars
  BY <1>1, Invariance, PTL DEF Spec
<1> QED
  BY <1>2 DEF NothingReverts, Stays

-------------------------------------------------------------------------------
(* Lists and loops.                                                         *)

LEMMA LeastNumber ==
  ASSUME NEW T \in SUBSET Nat, T # {}
  PROVE  \E m \in T : \A k \in T : m <= k
<1> DEFINE R == {ss \in Nat \X Nat : ss[1] < ss[2]}
<1>1. IsWellFoundedOn(R, Nat)
  BY NatLessThanWellFounded, Zenon DEF OpToRel
<1>2. \E m \in T : \A k \in T : ~(<<k, m>> \in R)
  <2> HIDE DEF R
  <2> QED
    BY <1>1, WFMin, Zenon
<1>3. PICK m \in T : \A k \in T : ~(<<k, m>> \in R)
  BY <1>2
<1>4. ASSUME NEW k \in T PROVE m <= k
  <2>1. ~(<<k, m>> \in R)
    BY <1>3
  <2> QED
    BY <2>1
<1> QED
  BY <1>4

(* A recurrence over states has a solution of any length.                   *)
Iterated(S, step, init, N) ==
  \E f \in [0..N -> S] : f[0] = init /\ \A n \in 1..N : f[n] = step[f[n - 1]]

LEMMA IterateExists ==
  ASSUME NEW S, NEW step \in [S -> S], NEW init \in S, NEW N \in Nat
  PROVE  Iterated(S, step, init, N)
<1> DEFINE Solves(f, m) == /\ f \in [0..m -> S] /\ f[0] = init
                           /\ \A n \in 1..m : f[n] = step[f[n - 1]]
           T == {m \in Nat : ~\E f : Solves(f, m)}
<1>1. SUFFICES ASSUME T # {} PROVE FALSE
  BY DEF Iterated
<1>2. PICK m \in T : \A k \in T : m <= k
  <2> HIDE DEF T
  <2>1. T \in SUBSET Nat
    BY DEF T
  <2> QED
    BY <1>1, <2>1, LeastNumber
<1>3. CASE m = 0
  <2>1. Solves([n \in 0..0 |-> init], 0)
    OBVIOUS
  <2> QED
    BY <1>3, <2>1
<1>4. CASE m # 0
  <2>1. m - 1 \in Nat /\ m - 1 \notin T
    <3>1. m \in Nat
      OBVIOUS
    <3> HIDE DEF T
    <3> QED
      BY <1>2, <1>4, <3>1
  <2>2. PICK f : Solves(f, m - 1)
    BY <2>1
  <2> DEFINE g == [n \in 0..m |-> IF n < m THEN f[n] ELSE step[f[m - 1]]]
  <2>3. f[m - 1] \in S /\ step[f[m - 1]] \in S
    BY <2>1, <2>2
  <2>4. g \in [0..m -> S]
    BY <2>1, <2>2, <2>3
  <2>5. \A n \in 1..m : g[n] = step[g[n - 1]]
    <3>1. ASSUME NEW n \in 1..m
          PROVE  g[n] = step[g[n - 1]]
      <4>1. CASE n = m
        BY <2>1, <4>1
      <4>2. CASE n # m
        <5>1. n \in 1..m - 1 /\ n \in 0..m /\ n - 1 \in 0..m /\ n < m /\ n - 1 < m
          BY <2>1, <4>2
        <5>2. g[n] = f[n] /\ g[n - 1] = f[n - 1]
          BY <5>1
        <5> QED
          BY <2>2, <5>1, <5>2, Zenon
      <4> QED
        BY <4>1, <4>2
    <3> QED
      BY <3>1
  <2>6. g[0] = init
    BY <1>4, <2>2
  <2>7. Solves(g, m)
    <3> HIDE DEF g
    <3> QED
      BY <2>4, <2>5, <2>6
  <2> QED
    BY <2>7
<1> QED
  BY <1>3, <1>4

(* A set with a strict total order is listed, in that order.                *)
Lists(list, S, before) ==
  /\ list \in [1..Cardinality(S) -> S]
  /\ \A m, n \in 1..Cardinality(S) : m < n => <<list[m], list[n]>> \in before
  /\ \A a \in S : \E n \in 1..Cardinality(S) : list[n] = a

LEMMA ListedIs ==
  ASSUME NEW S, IsFiniteSet(S), NEW before,
         \A a \in S : <<a, a>> \notin before,
         \A a, b, c \in S : <<a, b>> \in before /\ <<b, c>> \in before => <<a, c>> \in before,
         \A a, b \in S : a = b \/ <<a, b>> \in before \/ <<b, a>> \in before
  PROVE  Lists(Listed(S, before), S, before)
<1> DEFINE N == Cardinality(S)
           first(a) == {b \in S : <<b, a>> \in before}
           rank == [a \in S |-> Cardinality(first(a))]
           list == Listed(S, before)
<1>1. N \in Nat
  BY FS_CardinalityType
<1>2. \A a \in S : IsFiniteSet(first(a)) /\ Cardinality(first(a)) \in Nat
  <2>1. \A a \in S : first(a) \in SUBSET S
    OBVIOUS
  <2> HIDE DEF first
  <2> QED
    BY <2>1, FS_Subset, FS_CardinalityType
<1>3. ASSUME NEW a \in S, NEW b \in S, <<a, b>> \in before
      PROVE  Cardinality(first(a)) < Cardinality(first(b))
  <2>1. first(a) \in SUBSET first(b) /\ first(a) # first(b)
    BY <1>3
  <2> HIDE DEF first
  <2>2. /\ Cardinality(first(a)) <= Cardinality(first(b))
        /\ Cardinality(first(a)) # Cardinality(first(b))
    BY <1>2, <2>1, FS_Subset
  <2> QED
    BY <1>2, <2>2
<1>4. \A a \in S : Cardinality(first(a)) < N
  <2>1. \A a \in S : first(a) \in SUBSET S /\ first(a) # S
    OBVIOUS
  <2> HIDE DEF first
  <2>2. \A a \in S : Cardinality(first(a)) <= N /\ Cardinality(first(a)) # N
    BY <2>1, FS_Subset
  <2> QED
    BY <1>1, <1>2, <2>2
<1> HIDE DEF first
<1>5. rank \in Injection(S, 0..N - 1)
  <2>1. \A a \in S : Cardinality(first(a)) \in 0..N - 1
    BY <1>1, <1>2, <1>4
  <2>2. \A a, b \in S : Cardinality(first(a)) = Cardinality(first(b)) => a = b
    <3>1. \A a, b \in S : <<a, b>> \in before => Cardinality(first(a)) # Cardinality(first(b))
      BY <1>2, <1>3
    <3> QED
      BY <3>1
  <2> QED
    BY <2>1, <2>2 DEF Injection, IsInjective
<1>6. rank \in Surjection(S, 0..N - 1)
  <2>1. IsFiniteSet(0..N - 1) /\ Cardinality(0..N - 1) = N
    <3>1. N - 1 \in Int /\ (0 > N - 1 => N = 0) /\ N - 1 - 0 + 1 = N
      BY <1>1
    <3>2. IsFiniteSet(0..N - 1) /\ Cardinality(0..N - 1) = IF 0 > N - 1 THEN 0 ELSE N - 1 - 0 + 1
      BY <3>1, FS_Interval
    <3> QED
      BY <3>1, <3>2
  <2> HIDE DEF rank
  <2> QED
    BY <1>5, <2>1, FS_Injection
<1>7. ASSUME NEW n \in 1..N
      PROVE  list[n] \in S /\ Cardinality(first(list[n])) = n - 1
  <2>1. n - 1 \in 0..N - 1
    BY <1>1
  <2>2. PICK a \in S : rank[a] = n - 1
    BY <1>6, <2>1 DEF Surjection
  <2>3. list[n] = CHOOSE x \in S : Cardinality(first(x)) = n - 1
    BY Zenon DEF Listed, first
  <2> HIDE DEF list
  <2> QED
    BY <2>2, <2>3
<1>8. list \in [1..N -> S]
  <2> DEFINE entry(n) == CHOOSE x \in S : Cardinality(first(x)) = n - 1
  <2>1. list = [n \in 1..N |-> entry(n)]
    BY Zenon DEF Listed, first
  <2> HIDE DEF list, entry
  <2>2. \A n \in 1..N : entry(n) \in S
    BY <1>7, <2>1
  <2> QED
    BY <2>1, <2>2
<1>9. ASSUME NEW a \in S
      PROVE  \E n \in 1..N : list[n] = a
  <2>0. PICK k \in Nat : k = Cardinality(first(a))
    BY <1>2
  <2> DEFINE n == k + 1
  <2>1. n \in 1..N /\ n - 1 = k
    BY <1>1, <1>4, <2>0
  <2>2. list[n] \in S /\ Cardinality(first(list[n])) = Cardinality(first(a))
    <3>1. n \in 1..N /\ n - 1 = Cardinality(first(a))
      BY <2>0, <2>1
    <3> HIDE DEF n, list
    <3> QED
      BY <1>7, <3>1
  <2>3. list[n] = a
    <3> HIDE DEF n, list
    <3> QED
      BY <2>2, <1>5 DEF Injection, IsInjective
  <2> QED
    BY <2>1, <2>3
<1>10. ASSUME NEW m \in 1..N, NEW n \in 1..N, m < n
       PROVE  <<list[m], list[n]>> \in before
  <2> HIDE DEF list
  <2>1. list[m] # list[n]
    BY <1>7, <1>10
  <2>2. <<list[n], list[m]>> \notin before
    <3>1. ~(n - 1 < m - 1)
      BY <1>10
    <3> QED
      BY <1>3, <1>7, <3>1
  <2> QED
    BY <1>7, <2>1, <2>2
<1> QED
  BY <1>8, <1>9, <1>10 DEF Lists

(* A set as a sequence has all its members.                                 *)
LEMMA SetToSeqIs ==
  ASSUME NEW T, IsFiniteSet(T)
  PROVE  LET f == SetToSeq(T)
         IN  /\ f \in Seq(T) /\ Len(f) = Cardinality(T)
             /\ \A x \in T : \E i \in 1..Len(f) : f[i] = x
<1> DEFINE N == Cardinality(T)
           f == SetToSeq(T)
<1>1. N \in Nat /\ ExistsBijection(1..N, T)
  BY FS_CardinalityType
<1>2. \E g \in [1..N -> T] : IsInjective(g)
  BY <1>1 DEF ExistsBijection, Bijection, Injection
<1>3. f \in [1..N -> T] /\ IsInjective(f)
  BY <1>2, Zenon DEF SetToSeq
<1> HIDE DEF f
<1>4. f \in Surjection(1..N, T)
  <2>1. f \in Injection(1..N, T)
    BY <1>3 DEF Injection
  <2>2. IsFiniteSet(1..N) /\ Cardinality(1..N) = N
    BY <1>1, FS_Interval
  <2> QED
    BY <1>1, <2>1, <2>2, FS_Injection
<1>5. f \in Seq(T) /\ Len(f) = N
  BY <1>1, <1>3
<1> QED
  BY <1>1, <1>4, <1>5 DEF f, Surjection

-------------------------------------------------------------------------------
(* Paths.                                                                   *)

Succ(R, n) == {m \in Nodes : <<n, m>> \in R}

IsPath(path, R, start, k, m) ==
  /\ path \in [0..k -> Nodes] /\ path[0] = start /\ path[k] = m
  /\ \A i \in 1..k : <<path[i - 1], path[i]>> \in R

LEMMA WithinIs ==
  ASSUME NEW R, NEW start, NEW depth, NEW m
  PROVE  m \in Within(R, start, depth)
           <=> m \in Nodes /\ \E k \in 0..depth : \E path : IsPath(path, R, start, k, m)
  BY DEF Within, IsPath

LEMMA WithinZero ==
  ASSUME NEW R, NEW start \in Nodes
  PROVE  Within(R, start, 0) = {start}
<1>1. IsPath([i \in 0..0 |-> start], R, start, 0, start)
  BY DEF IsPath
<1>2. start \in Within(R, start, 0)
  BY <1>1, WithinIs
<1>3. ASSUME NEW m \in Within(R, start, 0)
      PROVE  m = start
  BY <1>3 DEF Within
<1> QED
  BY <1>2, <1>3

(* One step further.                                                        *)
LEMMA WithinStep ==
  ASSUME NEW R, NEW start \in Nodes, NEW d \in Nat, NEW m
  PROVE  m \in Within(R, start, d + 1)
           <=> m \in Within(R, start, d) \/ \E a \in Within(R, start, d) : m \in Succ(R, a)
<1>1. ASSUME m \in Within(R, start, d)
      PROVE  m \in Within(R, start, d + 1)
  <2>1. \A k \in 0..d : k \in 0..d + 1
    OBVIOUS
  <2> QED
    BY <1>1, <2>1, WithinIs
<1>2. ASSUME NEW a \in Within(R, start, d), m \in Succ(R, a)
      PROVE  m \in Within(R, start, d + 1)
  <2>0. PICK k \in 0..d : \E path : IsPath(path, R, start, k, a)
    BY WithinIs
  <2>1. PICK path : IsPath(path, R, start, k, a)
    BY <2>0
  <2> DEFINE longer == [i \in 0..k + 1 |-> IF i <= k THEN path[i] ELSE m]
  <2>2. m \in Nodes /\ <<a, m>> \in R
    BY <1>2 DEF Succ
  <2>3. IsPath(longer, R, start, k + 1, m)
    <3>1. longer \in [0..k + 1 -> Nodes]
      BY <2>1, <2>2 DEF IsPath
    <3>2. longer[0] = start /\ longer[k + 1] = m
      BY <2>1 DEF IsPath
    <3>3. ASSUME NEW i \in 1..k + 1
          PROVE  <<longer[i - 1], longer[i]>> \in R
      <4>1. CASE i = k + 1
        <5>1. longer[i - 1] = a /\ longer[i] = m
          BY <2>1, <4>1 DEF IsPath
        <5> QED
          BY <2>2, <5>1
      <4>2. CASE i # k + 1
        <5>1. i \in 1..k /\ i - 1 \in 0..k + 1 /\ i \in 0..k + 1 /\ i - 1 <= k /\ i <= k
          BY <4>2
        <5>2. longer[i - 1] = path[i - 1] /\ longer[i] = path[i]
          BY <5>1
        <5> QED
          BY <2>1, <5>1, <5>2 DEF IsPath
      <4> QED
        BY <4>1, <4>2
    <3> HIDE DEF longer
    <3> QED
      BY <3>1, <3>2, <3>3 DEF IsPath
  <2>4. k + 1 \in 0..d + 1
    OBVIOUS
  <2> QED
    BY <2>2, <2>3, <2>4, WithinIs
<1>3. ASSUME m \in Within(R, start, d + 1), m \notin Within(R, start, d)
      PROVE  \E a \in Within(R, start, d) : m \in Succ(R, a)
  <2>0. PICK k \in 0..d + 1 : \E path : IsPath(path, R, start, k, m)
    BY <1>3, WithinIs
  <2>1. PICK path : IsPath(path, R, start, k, m)
    BY <2>0
  <2>2. m \in Nodes
    BY <1>3, WithinIs
  <2>3. k \notin 0..d
    BY <1>3, <2>1, <2>2, WithinIs
  <2>4. k = d + 1 /\ d \in 0..k /\ k \in 1..k /\ k - 1 = d
    BY <2>3
  <2> DEFINE a == path[d]
             shorter == [i \in 0..d |-> path[i]]
  <2>5. a \in Nodes /\ <<a, m>> \in R
    BY <2>1, <2>4 DEF IsPath
  <2>6. IsPath(shorter, R, start, d, a)
    BY <2>1, <2>4 DEF IsPath
  <2>7. a \in Within(R, start, d)
    BY <2>5, <2>6, WithinIs
  <2> QED
    BY <2>2, <2>5, <2>7 DEF Succ
<1> QED
  BY <1>1, <1>2, <1>3

(* What a path cannot leave.                                                *)
LEMMA WithinClosed ==
  ASSUME NEW R, NEW start \in Nodes, NEW depth \in Nat, NEW C, start \in C,
         \A a \in C : Succ(R, a) \subseteq C
  PROVE  Within(R, start, depth) \subseteq C
<1>1. SUFFICES ASSUME NEW k \in 0..depth, NEW path, NEW m, IsPath(path, R, start, k, m)
               PROVE  m \in C
  BY WithinIs
<1> DEFINE T == {i \in 0..k : path[i] \notin C}
<1>2. T = {}
  <2>1. SUFFICES ASSUME T # {} PROVE FALSE
    OBVIOUS
  <2>2. T \in SUBSET Nat
    OBVIOUS
  <2> HIDE DEF T
  <2>3. PICK i \in T : \A j \in T : i <= j
    BY <2>1, <2>2, LeastNumber
  <2>4. i \in 0..k /\ path[i] \notin C
    BY DEF T
  <2>5. i # 0
    BY <1>1, <2>4 DEF IsPath
  <2>6. i - 1 \in 0..k /\ i \in 1..k /\ ~(i <= i - 1)
    BY <2>4, <2>5
  <2>7. path[i - 1] \in C
    BY <2>3, <2>6 DEF T
  <2>8. path[i] \in Succ(R, path[i - 1])
    BY <1>1, <2>4, <2>6 DEF IsPath, Succ
  <2> QED
    BY <2>4, <2>7, <2>8
<1>3. k \in 0..k /\ path[k] = m
  BY <1>1 DEF IsPath
<1> QED
  BY <1>2, <1>3

LEMMA WithinMonotone ==
  ASSUME NEW R, NEW start \in Nodes, NEW d \in Nat, NEW e \in Nat, d <= e
  PROVE  Within(R, start, d) \subseteq Within(R, start, e)
<1>1. \A k \in 0..d : k \in 0..e
  OBVIOUS
<1> QED
  BY <1>1, WithinIs

LEMMA WithinNodes ==
  ASSUME NEW R, NEW start \in Nodes, NEW d \in Nat
  PROVE  start \in Within(R, start, d) /\ Within(R, start, d) \subseteq Nodes
<1>1. start \in Within(R, start, 0)
  BY WithinZero
<1>2. 0 <= d
  OBVIOUS
<1>3. Within(R, start, 0) \subseteq Within(R, start, d)
  BY <1>2, WithinMonotone
<1> QED
  BY <1>1, <1>3 DEF Within

-------------------------------------------------------------------------------
(* Breadth first.                                                           *)

(* The queue has p nodes of depth d, then nodes of the next depth; nodes up *)
(* to depth d are visited, and so is what follows them, but for what the    *)
(* first p lead to.                                                         *)
Frontier(R, start, depth, s, d, p) ==
  LET level == Within(R, start, d)
      next  == Within(R, start, d + 1)
  IN  /\ d \in 0..depth /\ p \in 0..Len(s.queue)
      /\ \A i \in 1..p : s.queue[i][1] \in level /\ s.queue[i][2] = d
      /\ \A i \in p + 1..Len(s.queue) :
           s.queue[i][1] \in next /\ s.queue[i][2] = d + 1 /\ d < depth
      /\ level \subseteq s.visited
      /\ \A m \in level : \/ \E i \in 1..p : s.queue[i][1] = m
                          \/ d = depth
                          \/ Succ(R, m) \subseteq s.visited
      /\ \A m \in s.visited : \/ m \in level
                              \/ \E i \in p + 1..Len(s.queue) : s.queue[i][1] = m

(* After n rounds every node visited is one that was taken from the queue   *)
(* or is still in it.                                                       *)
Counted(n, s) ==
  /\ s.queue \in Seq(Nodes \X Nat) /\ s.visited \subseteq Nodes /\ IsFiniteSet(s.visited)
  /\ s.queue = <<>> \/ n + Len(s.queue) = Cardinality(s.visited)

Searching(R, start, depth, n, s) ==
  Counted(n, s) /\ \E d \in Nat, p \in Nat : Frontier(R, start, depth, s, d, p)

(* When no node of depth d is left, the nodes of the next depth are at the  *)
(* head.                                                                    *)
LEMMA NextDepth ==
  ASSUME NEW R, NEW start \in Nodes, NEW depth \in Nat, NEW s, NEW d \in Nat,
         s.queue \in Seq(Nodes \X Nat), s.queue # <<>>, Frontier(R, start, depth, s, d, 0)
  PROVE  Frontier(R, start, depth, s, d + 1, Len(s.queue))
<1> DEFINE level == Within(R, start, d)
           next == Within(R, start, d + 1)
           Q == s.queue
<1>1. /\ Len(Q) \in Nat /\ Len(Q) > 0 /\ 0 + 1 = 1 /\ 1 \in 1..Len(Q)
      /\ ~\E i \in 1..0 : TRUE
  OBVIOUS
<1>2. /\ d \in 0..depth
      /\ \A i \in 1..Len(Q) : Q[i][1] \in next /\ Q[i][2] = d + 1 /\ d < depth
      /\ level \subseteq s.visited
      /\ \A m \in level : d = depth \/ Succ(R, m) \subseteq s.visited
      /\ \A m \in s.visited : m \in level \/ \E i \in 1..Len(Q) : Q[i][1] = m
  BY <1>1 DEF Frontier
<1>3. d < depth /\ d + 1 \in 0..depth /\ d # depth
  <2>1. d < depth
    BY <1>1, <1>2
  <2> QED
    BY <2>1
<1>4. next \subseteq s.visited
  <2>1. ASSUME NEW m \in next PROVE m \in s.visited
    <3>1. m \in level \/ \E a \in level : m \in Succ(R, a)
      BY WithinStep
    <3> QED
      BY <1>2, <1>3, <3>1
  <2> QED
    BY <2>1
<1>5. \A m \in level : m \in next
  BY WithinStep
<1>6. \A m \in s.visited : m \in next
  BY <1>2, <1>5
<1>7. \A m \in next : (\E i \in 1..Len(Q) : Q[i][1] = m) \/ Succ(R, m) \subseteq s.visited
  BY <1>2, <1>3, <1>4
<1>8. /\ Len(Q) \in 0..Len(Q)
      /\ ~\E i \in Len(Q) + 1..Len(Q) : TRUE
  BY <1>1
<1> HIDE DEF level, next, Q
<1> QED
  BY <1>2, <1>3, <1>4, <1>6, <1>7, <1>8, Zenon DEF Frontier, level, next, Q

LEMMA HasFront ==
  ASSUME NEW R, NEW start \in Nodes, NEW depth \in Nat, NEW n \in Nat, NEW s,
         Searching(R, start, depth, n, s), s.queue # <<>>
  PROVE  \E d \in Nat, p \in Nat \ {0} : Frontier(R, start, depth, s, d, p)
<1>1. PICK d \in Nat, p \in Nat : Frontier(R, start, depth, s, d, p)
  BY DEF Searching
<1>2. CASE p # 0
  BY <1>1, <1>2
<1>3. CASE p = 0
  <2>1. s.queue \in Seq(Nodes \X Nat) /\ Len(s.queue) \in Nat \ {0}
    BY DEF Searching, Counted
  <2>2. d + 1 \in Nat
    OBVIOUS
  <2>3. Frontier(R, start, depth, s, d + 1, Len(s.queue))
    BY <1>1, <1>3, <2>1, NextDepth
  <2> QED
    BY <2>1, <2>2, <2>3
<1> QED
  BY <1>2, <1>3

(* What a round does to the queue: the head leaves, the nodes found queue   *)
(* up behind, each once.                                                    *)
Found(R, depth, s) ==
  IF Head(s.queue)[2] >= depth THEN {} ELSE Succ(R, Head(s.queue)[1]) \ s.visited

Round(s, new, found) ==
  LET Q == s.queue
  IN  /\ new.visited = s.visited \cup found
      /\ found \cap s.visited = {} /\ found \subseteq Nodes /\ IsFiniteSet(found)
      /\ Cardinality(found) \in Nat
      /\ new.queue \in Seq(Nodes \X Nat)
      /\ Len(new.queue) = Len(Q) - 1 + Cardinality(found)
      /\ \A i \in 1..Len(Q) - 1 : new.queue[i] = Q[i + 1]
      /\ \A i \in Len(Q)..Len(new.queue) : /\ new.queue[i][1] \in found
                                           /\ new.queue[i][2] = Q[1][2] + 1
      /\ \A m \in found : \E i \in Len(Q)..Len(new.queue) : new.queue[i][1] = m

LEMMA RoundQueue ==
  ASSUME NEW R, NEW depth \in Nat, NEW s, NEW K,
         IsFiniteSet(K), \A m \in Nodes : Succ(R, m) \subseteq K,
         s.queue \in Seq(Nodes \X Nat), s.queue # <<>>, s.visited \subseteq Nodes
  PROVE  Round(s, Visit(R, depth, s), Found(R, depth, s))
<1> DEFINE Q == s.queue
           new == Visit(R, depth, s)
           found == Found(R, depth, s)
           deeper == Head(Q)[2] + 1
           T == {<<m, deeper>> : m \in found}
           g == SetToSeq(T)
           rest == Tail(Q)
<1>1. /\ Head(Q) = Q[1] /\ Q[1] \in Nodes \X Nat
      /\ rest \in Seq(Nodes \X Nat) /\ Len(rest) = Len(Q) - 1 /\ Len(Q) \in Nat \ {0}
      /\ \A i \in 1..Len(Q) - 1 : rest[i] = Q[i + 1]
  OBVIOUS
<1>2. /\ found \subseteq Nodes /\ found \cap s.visited = {} /\ found \subseteq K
  BY <1>1 DEF Found, Succ
<1>3. IsFiniteSet(found) /\ Cardinality(found) \in Nat
  <2> HIDE DEF found
  <2> QED
    BY <1>2, FS_Subset, FS_CardinalityType
<1>4. new = [queue |-> rest \o g, visited |-> s.visited \cup found]
  BY Zenon DEF Visit, Found, Succ
<1>5. deeper \in Nat
  BY <1>1
<1> HIDE DEF found, deeper
<1>6. IsFiniteSet(T) /\ Cardinality(T) = Cardinality(found)
  <2> DEFINE h == [m \in found |-> <<m, deeper>>]
  <2>1. h \in Bijection(found, T)
    BY DEF Bijection, Injection, Surjection, IsInjective
  <2> HIDE DEF h, T
  <2> QED
    BY <1>3, <2>1, FS_Bijection DEF ExistsBijection
<1>7. T \subseteq Nodes \X Nat
  BY <1>2, <1>5
<1>8. /\ g \in Seq(T) /\ Len(g) = Cardinality(found)
      /\ \A x \in T : \E i \in 1..Len(g) : g[i] = x
  <2> HIDE DEF T
  <2> QED
    BY <1>6, SetToSeqIs
<1> HIDE DEF g
<1>9. g \in Seq(Nodes \X Nat) /\ \A i \in 1..Len(g) : g[i][1] \in found /\ g[i][2] = deeper
  <2>1. \A i \in 1..Len(g) : g[i] \in T
    BY <1>8
  <2>2. g \in Seq(Nodes \X Nat)
    <3> HIDE DEF T
    <3> QED
      BY <1>7, <1>8
  <2> QED
    BY <2>1, <2>2
<1> HIDE DEF rest
<1> DEFINE both == rest \o g
<1>10. /\ both \in Seq(Nodes \X Nat) /\ Len(both) = Len(Q) - 1 + Cardinality(found)
       /\ \A i \in 1..Len(both) : both[i] = IF i <= Len(rest) THEN rest[i] ELSE g[i - Len(rest)]
  <2>1. /\ both \in Seq(Nodes \X Nat) /\ Len(both) = Len(rest) + Len(g)
        /\ \A i \in 1..Len(rest) + Len(g) :
             both[i] = IF i <= Len(rest) THEN rest[i] ELSE g[i - Len(rest)]
    <3> DEFINE P == Nodes \X Nat
    <3>1. rest \in Seq(P) /\ g \in Seq(P)
      BY <1>1, <1>9, Zenon
    <3> HIDE DEF P, g
    <3> QED
      BY <3>1, ConcatProperties DEF P
  <2>2. Len(rest) + Len(g) = Len(Q) - 1 + Cardinality(found)
    BY <1>1, <1>8
  <2> QED
    BY <2>1, <2>2, Zenon
<1> HIDE DEF both
<1> DEFINE l == Len(Q)
           c == Cardinality(found)
<1>0. l \in Nat \ {0} /\ c \in Nat /\ Len(rest) = l - 1 /\ Len(g) = c /\ Len(both) = l - 1 + c
  BY <1>1, <1>3, <1>8, <1>10
<1>11. \A i \in 1..Len(Q) - 1 : both[i] = Q[i + 1]
  <2>1. \A i \in 1..Len(Q) - 1 : i \in 1..Len(both) /\ i <= Len(rest)
    BY <1>1, <1>3, <1>10
  <2> QED
    BY <1>1, <1>10, <2>1
<1>12. \A i \in Len(Q)..Len(both) : both[i][1] \in found /\ both[i][2] = deeper
  <2>1. \A i \in Len(Q)..Len(both) : /\ i \in 1..Len(both) /\ ~(i <= Len(rest))
                                     /\ i - Len(rest) \in 1..Len(g)
    <3> HIDE DEF l, c
    <3>1. \A i \in l..l - 1 + c : i \in 1..l - 1 + c /\ ~(i <= l - 1) /\ i - (l - 1) \in 1..c
      BY <1>0
    <3> QED
      BY <1>0, <3>1, Zenon DEF l
  <2> QED
    BY <1>9, <1>10, <2>1
<1>13. ASSUME NEW m \in found
       PROVE  \E i \in Len(Q)..Len(both) : both[i][1] = m
  <2>1. PICK j \in 1..Len(g) : g[j] = <<m, deeper>>
    BY <1>8
  <2>2. /\ j + Len(rest) \in Len(Q)..Len(both) /\ j + Len(rest) \in 1..Len(both)
        /\ ~(j + Len(rest) <= Len(rest)) /\ j + Len(rest) - Len(rest) = j
    <3> HIDE DEF l, c
    <3>1. /\ j + (l - 1) \in l..l - 1 + c /\ j + (l - 1) \in 1..l - 1 + c
          /\ ~(j + (l - 1) <= l - 1) /\ j + (l - 1) - (l - 1) = j
      <4>1. j \in 1..c
        BY <1>0, <2>1
      <4> QED
        BY <1>0, <4>1
    <3> QED
      BY <1>0, <3>1, Zenon DEF l
  <2>3. both[j + Len(rest)] = <<m, deeper>>
    <3> DEFINE i == j + Len(rest)
    <3>1. i \in 1..Len(both) /\ ~(i <= Len(rest)) /\ i - Len(rest) = j
      BY <2>2
    <3> HIDE DEF i
    <3>2. both[i] = g[i - Len(rest)]
      BY <1>10, <3>1
    <3>3. both[i] = <<m, deeper>>
      BY <2>1, <3>1, <3>2, Zenon
    <3> QED
      BY <3>3 DEF i
  <2> QED
    BY <2>2, <2>3
<1>14. new.queue = both /\ new.visited = s.visited \cup found
  <2> HIDE DEF new
  <2> QED
    BY <1>4 DEF both, rest, g
<1> HIDE DEF new
<1> QED
  BY <1>1, <1>2, <1>3, <1>10, <1>11, <1>12, <1>13, <1>14, Zenon DEF deeper, new, found, Round

LEMMA RoundCounts ==
  ASSUME NEW R, NEW depth \in Nat, NEW s, NEW K,
         IsFiniteSet(K), \A m \in Nodes : Succ(R, m) \subseteq K,
         NEW n \in Nat, Counted(n, s)
  PROVE  Counted(n + 1, Visit(R, depth, s))
<1>1. CASE s.queue = <<>>
  BY <1>1, Zenon DEF Visit, Counted
<1>2. CASE s.queue # <<>>
  <2> DEFINE found == Found(R, depth, s)
             new == Visit(R, depth, s)
  <2>1. /\ new.visited = s.visited \cup found
        /\ found \cap s.visited = {} /\ found \subseteq Nodes /\ IsFiniteSet(found)
        /\ Cardinality(found) \in Nat
        /\ new.queue \in Seq(Nodes \X Nat)
        /\ Len(new.queue) = Len(s.queue) - 1 + Cardinality(found)
    <3> HIDE DEF found, new
    <3>1. s.queue \in Seq(Nodes \X Nat) /\ s.visited \subseteq Nodes
      BY DEF Counted
    <3>2. Round(s, new, found)
      BY <1>2, <3>1, RoundQueue DEF new, found
    <3> QED
      BY <3>2 DEF Round
  <2> HIDE DEF found, new
  <2>2. IsFiniteSet(s.visited) /\ Cardinality(s.visited) \in Nat /\ Len(s.queue) \in Nat
    BY FS_CardinalityType DEF Counted
  <2>3. /\ IsFiniteSet(s.visited \cup found)
        /\ Cardinality(s.visited \cup found) = Cardinality(s.visited) + Cardinality(found)
    <3>1. Cardinality(s.visited \cap found) = 0
      <4>1. s.visited \cap found = {}
        BY <2>1
      <4> QED
        BY <4>1, FS_EmptySet
    <3>2. /\ IsFiniteSet(s.visited \cup found)
          /\ Cardinality(s.visited \cup found)
               = Cardinality(s.visited) + Cardinality(found) - Cardinality(s.visited \cap found)
      BY <2>1, <2>2, FS_Union
    <3> QED
      BY <2>1, <2>2, <3>1, <3>2
  <2>4. n + 1 + Len(new.queue) = Cardinality(new.visited)
    <3>1. n + Len(s.queue) = Cardinality(s.visited)
      BY <1>2 DEF Counted
    <3>2. Cardinality(new.visited) = Cardinality(s.visited) + Cardinality(found)
      BY <2>1, <2>3
    <3>3. Len(new.queue) = Len(s.queue) - 1 + Cardinality(found)
      BY <2>1
    <3>4. \A a, b, c \in Nat : n + a = b => n + 1 + (a - 1 + c) = b + c
      OBVIOUS
    <3>5. n + 1 + (Len(s.queue) - 1 + Cardinality(found))
            = Cardinality(s.visited) + Cardinality(found)
      BY <2>1, <2>2, <3>1, <3>4, ZenonT(60)
    <3> QED
      BY <3>2, <3>3, <3>5, Zenon
  <2>5. new.visited \subseteq Nodes /\ IsFiniteSet(new.visited)
    BY <2>1, <2>3 DEF Counted
  <2> QED
    BY <2>1, <2>4, <2>5 DEF Counted, new
<1> QED
  BY <1>1, <1>2

LEMMA RoundFront ==
  ASSUME NEW R, NEW start \in Nodes, NEW depth \in Nat, NEW s, NEW K, IsFiniteSet(K),
         \A m \in Nodes : Succ(R, m) \subseteq K,
         s.queue \in Seq(Nodes \X Nat), s.queue # <<>>, s.visited \subseteq Nodes,
         NEW d \in Nat, NEW p \in Nat \ {0}, Frontier(R, start, depth, s, d, p)
  PROVE  Frontier(R, start, depth, Visit(R, depth, s), d, p - 1)
<1> DEFINE found == Found(R, depth, s)
           new == Visit(R, depth, s)
           level == Within(R, start, d)
           next == Within(R, start, d + 1)
           l == Len(s.queue)
           c == Cardinality(found)
           h == s.queue[1][1]
<1>1. /\ new.visited = s.visited \cup found
      /\ c \in Nat
      /\ new.queue \in Seq(Nodes \X Nat)
      /\ Len(new.queue) = l - 1 + c
      /\ \A i \in 1..l - 1 : new.queue[i] = s.queue[i + 1]
      /\ \A i \in l..Len(new.queue) : /\ new.queue[i][1] \in found
                                      /\ new.queue[i][2] = s.queue[1][2] + 1
      /\ \A m \in found : \E i \in l..Len(new.queue) : new.queue[i][1] = m
  <2> HIDE DEF found, new
  <2>1. Round(s, new, found)
    BY RoundQueue DEF new, found
  <2> QED
    BY <2>1 DEF Round
<1>2. l \in Nat \ {0} /\ Head(s.queue) = s.queue[1]
  OBVIOUS
<1>3. /\ d \in 0..depth /\ p \in 0..l
      /\ \A i \in 1..p : s.queue[i][1] \in level /\ s.queue[i][2] = d
      /\ \A i \in p + 1..l : s.queue[i][1] \in next /\ s.queue[i][2] = d + 1 /\ d < depth
      /\ level \subseteq s.visited
      /\ \A m \in level : \/ \E i \in 1..p : s.queue[i][1] = m
                          \/ d = depth
                          \/ Succ(R, m) \subseteq s.visited
      /\ \A m \in s.visited : m \in level \/ \E i \in p + 1..l : s.queue[i][1] = m
  BY DEF Frontier
<1>4. h \in level /\ s.queue[1][2] = d
  <2>1. 1 \in 1..p
    BY <1>3
  <2> QED
    BY <1>3, <2>1
<1>5. /\ found \subseteq Succ(R, h)
      /\ found # {} => d < depth
      /\ d = depth \/ Succ(R, h) \subseteq s.visited \cup found
  BY <1>2, <1>3, <1>4 DEF Found
<1>6. found \subseteq next
  BY <1>4, <1>5, WithinStep
<1> HIDE DEF found, new, level, next, l, c, h
<1>7. /\ p - 1 \in 0..Len(new.queue) /\ p - 1 + 1 = p /\ p - 1 \in Nat
      /\ \A i \in 1..p - 1 : i \in 1..l - 1 /\ i + 1 \in 1..p
      /\ \A i \in p..Len(new.queue) :
           (i \in 1..l - 1 /\ i + 1 \in p + 1..l) \/ i \in l..Len(new.queue)
      /\ \A i \in 1..p : i = 1 \/ (i - 1 \in 1..p - 1 /\ i - 1 \in 1..l - 1 /\ i - 1 + 1 = i)
      /\ \A i \in p + 1..l : i - 1 \in p..Len(new.queue) /\ i - 1 \in 1..l - 1 /\ i - 1 + 1 = i
      /\ \A i \in l..Len(new.queue) : i \in p..Len(new.queue)
  <2>1. l \in Nat \ {0} /\ c \in Nat /\ p \in 1..l /\ Len(new.queue) = l - 1 + c
    BY <1>1, <1>2, <1>3
  <2> DEFINE len == Len(new.queue)
  <2>2. len \in Nat /\ len = l - 1 + c
    BY <2>1
  <2> HIDE DEF len
  <2> QED
    BY <2>1, <2>2 DEF len
<1>8. ASSUME NEW i \in 1..p - 1
      PROVE  new.queue[i][1] \in level /\ new.queue[i][2] = d
  <2>1. i \in 1..l - 1 /\ i + 1 \in 1..p
    BY <1>7, Zenon
  <2>2. new.queue[i] = s.queue[i + 1]
    BY <1>1, <2>1, Zenon
  <2>3. s.queue[i + 1][1] \in level /\ s.queue[i + 1][2] = d
    BY <1>3, <2>1, Zenon
  <2> QED
    BY <2>2, <2>3, Zenon
<1>9. ASSUME NEW i \in p..Len(new.queue)
      PROVE  new.queue[i][1] \in next /\ new.queue[i][2] = d + 1 /\ d < depth
  <2>1. CASE i \in 1..l - 1 /\ i + 1 \in p + 1..l
    <3>1. new.queue[i] = s.queue[i + 1]
      BY <1>1, <2>1, Zenon
    <3>2. /\ s.queue[i + 1][1] \in next /\ s.queue[i + 1][2] = d + 1
          /\ d < depth
      BY <1>3, <2>1, Zenon
    <3> QED
      BY <3>1, <3>2, Zenon
  <2>2. CASE i \in l..Len(new.queue)
    <3>1. new.queue[i][1] \in found /\ new.queue[i][2] = s.queue[1][2] + 1
      BY <1>1, <2>2, Zenon
    <3> QED
      BY <1>4, <1>5, <1>6, <3>1, Zenon
  <2> QED
    BY <1>7, <2>1, <2>2
<1>10. level \subseteq new.visited
  BY <1>1, <1>3
<1>11. ASSUME NEW m \in level
       PROVE  \/ \E i \in 1..p - 1 : new.queue[i][1] = m
              \/ d = depth
              \/ Succ(R, m) \subseteq new.visited
  <2>1. CASE m = h
    BY <1>1, <1>5, <2>1
  <2>2. ASSUME NEW i \in 1..p, s.queue[i][1] = m, m # h
        PROVE  \E j \in 1..p - 1 : new.queue[j][1] = m
    <3>1. i # 1
      BY <2>2 DEF h
    <3>2. i - 1 \in 1..p - 1 /\ i - 1 \in 1..l - 1 /\ i - 1 + 1 = i
      BY <1>7, <3>1
    <3>3. new.queue[i - 1] = s.queue[i]
      BY <1>1, <3>2
    <3> QED
      BY <2>2, <3>2, <3>3
  <2> QED
    BY <1>1, <1>3, <2>1, <2>2
<1>12. ASSUME NEW m \in new.visited
       PROVE  m \in level \/ \E i \in p..Len(new.queue) : new.queue[i][1] = m
  <2>1. CASE m \in found
    BY <1>1, <1>7, <2>1
  <2>2. ASSUME NEW i \in p + 1..l, s.queue[i][1] = m
        PROVE  \E j \in p..Len(new.queue) : new.queue[j][1] = m
    <3>1. i - 1 \in p..Len(new.queue) /\ i - 1 \in 1..l - 1 /\ i - 1 + 1 = i
      BY <1>7
    <3>2. new.queue[i - 1] = s.queue[i]
      BY <1>1, <3>1
    <3> QED
      BY <2>2, <3>1, <3>2
  <2> QED
    BY <1>1, <1>3, <2>1, <2>2
<1> QED
  BY <1>3, <1>7, <1>8, <1>9, <1>10, <1>11, <1>12, Zenon DEF Frontier, level, next, new

LEMMA RoundStep ==
  ASSUME NEW R, NEW start \in Nodes, NEW depth \in Nat, NEW s, NEW K, IsFiniteSet(K),
         \A m \in Nodes : Succ(R, m) \subseteq K,
         NEW n \in Nat, Searching(R, start, depth, n, s)
  PROVE  Searching(R, start, depth, n + 1, Visit(R, depth, s))
<1>1. Counted(n, s)
  BY DEF Searching
<1>2. Counted(n + 1, Visit(R, depth, s))
  BY <1>1, RoundCounts
<1>3. CASE s.queue = <<>>
  <2>1. Visit(R, depth, s) = s
    BY <1>3, Zenon DEF Visit
  <2> QED
    BY <1>2, <2>1, Zenon DEF Searching
<1>4. CASE s.queue # <<>>
  <2>1. PICK d \in Nat, p \in Nat \ {0} : Frontier(R, start, depth, s, d, p)
    BY <1>4, HasFront
  <2>2. Frontier(R, start, depth, Visit(R, depth, s), d, p - 1) /\ p - 1 \in Nat
    BY <1>1, <1>4, <2>1, RoundFront DEF Counted
  <2> QED
    BY <1>2, <2>2 DEF Searching
<1> QED
  BY <1>3, <1>4

States == [queue : Seq(Nodes \X Nat), visited : SUBSET Nodes]

LEMMA VisitStates ==
  ASSUME NEW R, NEW depth \in Nat, NEW K,
         IsFiniteSet(K), \A m \in Nodes : Succ(R, m) \subseteq K,
         NEW s \in States
  PROVE  Visit(R, depth, s) \in States
<1>0. s.queue \in Seq(Nodes \X Nat) /\ s.visited \subseteq Nodes
  BY DEF States
<1>1. CASE s.queue = <<>>
  BY <1>1, Zenon DEF Visit
<1>2. CASE s.queue # <<>>
  <2> DEFINE new == Visit(R, depth, s)
  <2>1. Round(s, new, Found(R, depth, s))
    BY <1>0, <1>2, RoundQueue
  <2>2. new.queue \in Seq(Nodes \X Nat) /\ new.visited \subseteq Nodes
    <3> HIDE DEF new
    <3> QED
      BY <1>0, <2>1, Zenon DEF Round
  <2>3. \E q, v : new = [queue |-> q, visited |-> v]
    BY <1>2, Zenon DEF Visit
  <2> HIDE DEF new
  <2>4. new \in States
    BY <2>2, <2>3 DEF States
  <2> QED
    BY <2>4 DEF new
<1> QED
  BY <1>1, <1>2

SearchInit(start) == [queue |-> <<<<start, 0>>>>, visited |-> {start}]

(* Search is the visited nodes at the end of a run of Visit.                *)
LEMMA SearchRuns ==
  ASSUME NEW R, NEW depth \in Nat, NEW K,
         IsFiniteSet(K), \A m \in Nodes : Succ(R, m) \subseteq K,
         NEW start \in Nodes, Len(node_order) \in Nat
  PROVE  \E run : /\ run[0] = SearchInit(start)
                  /\ \A n \in 1..Len(node_order) : run[n] = Visit(R, depth, run[n - 1])
                  /\ Search(R, start, depth) = run[Len(node_order)].visited
<1> DEFINE N == Len(node_order)
           init == SearchInit(start)
           step == [s \in States |-> Visit(R, depth, s)]
           Next1(g) == [n \in 0..N |-> IF n = 0 THEN init ELSE Visit(R, depth, g[n - 1])]
           run == CHOOSE g : g = Next1(g)
<1>0. N \in Nat
  OBVIOUS
<1>1. step \in [States -> States]
  BY VisitStates, Zenon
<1>2. init \in States
  BY DEF SearchInit, States
<1>3. PICK f \in [0..N -> States] : f[0] = init /\ \A n \in 1..N : f[n] = step[f[n - 1]]
  <2> HIDE DEF init, step, N
  <2>1. Iterated(States, step, init, N)
    BY <1>0, <1>1, <1>2, IterateExists
  <2> QED
    BY <2>1 DEF Iterated
<1>4. f = Next1(f)
  <2>1. ASSUME NEW n \in 0..N
        PROVE  f[n] = Next1(f)[n]
    <3>1. CASE n = 0
      BY <1>3, <3>1, Zenon
    <3>2. CASE n # 0
      <4>1. n \in 1..N /\ n - 1 \in 0..N
        BY <3>2, <1>0
      <4>2. f[n - 1] \in States
        BY <1>3, <4>1, Zenon
      <4>3. f[n] = Visit(R, depth, f[n - 1])
        BY <1>3, <4>1, <4>2, Zenon
      <4> QED
        BY <3>2, <4>3, Zenon
    <3> QED
      BY <3>1, <3>2
  <2>2. DOMAIN f = 0..N /\ f = [n \in 0..N |-> f[n]]
    BY <1>3, Zenon
  <2>3. DOMAIN Next1(f) = 0..N /\ Next1(f) = [n \in 0..N |-> Next1(f)[n]]
    BY Zenon
  <2> HIDE DEF Next1
  <2> QED
    BY <2>1, <2>2, <2>3, Zenon
<1>5. run = Next1(run)
  <2> HIDE DEF Next1
  <2> QED
    BY <1>4, Zenon
<1>6. Search(R, start, depth) = run[N].visited
  BY Zenon DEF Search, SearchInit
<1> HIDE DEF run
<1>7. run[0] = init
  <2>1. 0 \in 0..N
    BY <1>0
  <2>2. Next1(run)[0] = init
    BY <2>1, Zenon
  <2> QED
    BY <1>5, <2>2, Zenon
<1>8. ASSUME NEW n \in 1..N
      PROVE  run[n] = Visit(R, depth, run[n - 1])
  <2>1. n \in 0..N /\ n # 0
    BY <1>0
  <2>2. Next1(run)[n] = Visit(R, depth, run[n - 1])
    BY <2>1, Zenon
  <2> QED
    BY <1>5, <2>2, Zenon
<1> QED
  BY <1>6, <1>7, <1>8, Zenon

LEMMA SearchStarts ==
  ASSUME NEW R, NEW start \in Nodes, NEW depth \in Nat
  PROVE  Searching(R, start, depth, 0, SearchInit(start))
<1> DEFINE s == SearchInit(start)
<1>1. s.queue = <<<<start, 0>>>> /\ s.visited = {start}
  BY DEF SearchInit
<1>2. Len(s.queue) = 1 /\ s.queue[1] = <<start, 0>> /\ s.queue \in Seq(Nodes \X Nat)
  BY <1>1
<1>3. Cardinality({start}) = 1 /\ IsFiniteSet({start})
  BY FS_Singleton
<1> HIDE DEF s
<1>4. Counted(0, s)
  BY <1>1, <1>2, <1>3 DEF Counted
<1>5. Within(R, start, 0) = {start}
  BY WithinZero
<1>6. Frontier(R, start, depth, s, 0, 1)
  <2>1. s.queue[1][1] = start /\ s.queue[1][2] = 0
    BY <1>2
  <2> QED
    BY <1>1, <1>2, <1>5, <2>1 DEF Frontier
<1> QED
  BY <1>4, <1>6 DEF Searching, s

LEMMA SearchEnds ==
  ASSUME NEW R, NEW depth \in Nat, NEW K,
         IsFiniteSet(K), \A m \in Nodes : Succ(R, m) \subseteq K,
         NEW start \in Nodes, Len(node_order) \in Nat
  PROVE  \E s : /\ Searching(R, start, depth, Len(node_order), s)
                /\ Search(R, start, depth) = s.visited
<1> DEFINE N == Len(node_order)
<1>1. PICK run : /\ run[0] = SearchInit(start)
                 /\ \A n \in 1..N : run[n] = Visit(R, depth, run[n - 1])
                 /\ Search(R, start, depth) = run[N].visited
  BY SearchRuns
<1> DEFINE T == {n \in Nat : n <= N /\ ~Searching(R, start, depth, n, run[n])}
<1>2. T = {}
  <2>1. SUFFICES ASSUME T # {} PROVE FALSE
    OBVIOUS
  <2>2. PICK n \in T : \A k \in T : n <= k
    <3>1. T \in SUBSET Nat
      OBVIOUS
    <3> HIDE DEF T
    <3> QED
      BY <2>1, <3>1, LeastNumber
  <2>3. n \in Nat /\ n <= N /\ ~Searching(R, start, depth, n, run[n])
    OBVIOUS
  <2>4. n # 0
    BY <1>1, <2>3, SearchStarts, Zenon
  <2>5. n \in 1..N /\ n - 1 \in Nat /\ n - 1 <= N /\ n - 1 + 1 = n /\ ~(n <= n - 1)
    BY <2>3, <2>4
  <2>6. Searching(R, start, depth, n - 1, run[n - 1])
    BY <2>2, <2>5, Zenon
  <2>7. Searching(R, start, depth, n - 1 + 1, Visit(R, depth, run[n - 1]))
    BY <2>5, <2>6, RoundStep
  <2> QED
    BY <1>1, <2>3, <2>5, <2>7, Zenon
<1>3. Searching(R, start, depth, N, run[N])
  <2>1. N \in Nat /\ N <= N
    OBVIOUS
  <2> QED
    BY <1>2, <2>1, Zenon
<1> QED
  BY <1>1, <1>3, Zenon

(* A search visits what paths lead to.                                      *)
LEMMA SearchIs ==
  ASSUME NEW R, NEW start \in Nodes, NEW depth \in Nat, NEW K \in SUBSET Nodes, IsFiniteSet(K),
         Cardinality(K) = Len(node_order), \A m \in Nodes : Succ(R, m) \subseteq K,
         start \in K \/ Succ(R, start) = {}
  PROVE  /\ Search(R, start, depth) = Within(R, start, depth)
         /\ IsFiniteSet(Search(R, start, depth))
<1>0. Len(node_order) \in Nat
  BY FS_CardinalityType, Zenon
<1>1. PICK s : /\ Searching(R, start, depth, Len(node_order), s)
               /\ Search(R, start, depth) = s.visited
  BY <1>0, SearchEnds
<1>2. PICK d \in Nat, p \in Nat : Frontier(R, start, depth, s, d, p)
  BY <1>1 DEF Searching
<1> DEFINE level == Within(R, start, d)
           next == Within(R, start, d + 1)
           l == Len(s.queue)
<1>3. /\ s.queue \in Seq(Nodes \X Nat) /\ IsFiniteSet(s.visited)
      /\ l \in Nat /\ (s.queue = <<>> <=> l = 0)
      /\ s.queue = <<>> \/ Len(node_order) + l = Cardinality(s.visited)
  BY <1>1 DEF Searching, Counted
<1>4. /\ d \in 0..depth /\ p \in 0..l
      /\ \A i \in p + 1..l : s.queue[i][1] \in next
      /\ level \subseteq s.visited
      /\ \A m \in level : \/ \E i \in 1..p : s.queue[i][1] = m
                          \/ d = depth
                          \/ Succ(R, m) \subseteq s.visited
      /\ \A m \in s.visited : m \in level \/ \E i \in p + 1..l : s.queue[i][1] = m
  BY <1>2 DEF Frontier
<1> HIDE DEF level, next, l
<1>5. s.visited \subseteq level \cup next
  BY <1>4
<1>6. start \in level
  BY WithinNodes DEF level
<1>7. CASE Succ(R, start) = {}
  <2>1. ASSUME NEW k \in Nat
        PROVE  Within(R, start, k) = {start}
    <3>1. Within(R, start, k) \subseteq {start}
      BY <1>7, WithinClosed
    <3> QED
      BY <3>1, WithinNodes
  <2>2. level = {start} /\ next = {start} /\ Within(R, start, depth) = {start}
    BY <2>1 DEF level, next
  <2> QED
    BY <1>1, <1>3, <1>4, <1>5, <2>2
<1>8. CASE start \in K
  <2>1. s.visited \subseteq K
    <3>1. level \subseteq K /\ next \subseteq K
      BY <1>8, WithinClosed DEF level, next
    <3> QED
      BY <1>5, <3>1
  <2>2. l = 0
    <3>1. Cardinality(s.visited) <= Cardinality(K) /\ Cardinality(s.visited) \in Nat
      BY <2>1, FS_Subset, FS_CardinalityType
    <3> QED
      BY <1>0, <1>3, <3>1
  <2>3. s.visited = level
    <3>1. ~\E i \in p + 1..l : TRUE
      BY <1>4, <2>2
    <3> QED
      BY <1>4, <3>1
  <2>4. CASE d = depth
    BY <1>1, <1>3, <2>3, <2>4 DEF level
  <2>5. CASE d # depth
    <3>1. ~\E i \in 1..p : TRUE
      BY <1>4, <2>2
    <3>2. \A m \in level : Succ(R, m) \subseteq level
      BY <1>4, <2>3, <2>5, <3>1
    <3>3. Within(R, start, depth) \subseteq level
      BY <1>6, <3>2, WithinClosed
    <3>4. level \subseteq Within(R, start, depth)
      BY <1>4, WithinMonotone DEF level
    <3> QED
      BY <1>1, <1>3, <2>3, <3>3, <3>4
  <2> QED
    BY <2>4, <2>5
<1> QED
  BY <1>7, <1>8

-------------------------------------------------------------------------------
(* What lies around a node.                                                 *)

(* The nodes of the graph are as many as its list is long.                  *)
LEMMA KnownNodes ==
  ASSUME TypeOK
  PROVE  /\ ToSet(node_order) \in SUBSET Nodes /\ IsFiniteSet(ToSet(node_order))
         /\ Cardinality(ToSet(node_order)) = Len(node_order)
<1> DEFINE N == Len(node_order)
           K == ToSet(node_order)
<1>1. N \in Nat /\ DOMAIN node_order = 1..N /\ node_order \in [1..N -> Nodes]
  BY DEF TypeOK
<1>2. K = {node_order[i] : i \in 1..N} /\ K \subseteq Nodes
  BY <1>1 DEF ToSet
<1>3. IsFiniteSet(1..N) /\ Cardinality(1..N) = N
  BY <1>1, FS_Interval
<1>4. node_order \in Bijection(1..N, K)
  <2>1. \A i, j \in 1..N : node_order[i] = node_order[j] => i = j
    BY <1>1 DEF TypeOK, IsInjective
  <2>2. node_order \in [1..N -> K]
    BY <1>1, <1>2
  <2> QED
    BY <1>2, <2>1, <2>2 DEF Bijection, Injection, Surjection, IsInjective
<1>5. IsFiniteSet(K) /\ Cardinality(K) = N
  <2> HIDE DEF K, N
  <2> QED
    BY <1>3, <1>4, FS_Bijection DEF ExistsBijection
<1> QED
  BY <1>2, <1>5

LEMMA SearchInGraph ==
  ASSUME TypeOK, EdgesKnown, NEW R,
         \A m, n \in Nodes : <<m, n>> \in R => m \in ToSet(node_order) /\ n \in ToSet(node_order),
         NEW start \in Nodes, NEW depth \in Nat
  PROVE  /\ Search(R, start, depth) = Within(R, start, depth)
         /\ IsFiniteSet(Search(R, start, depth))
<1> DEFINE K == ToSet(node_order)
<1>1. K \in SUBSET Nodes /\ IsFiniteSet(K) /\ Cardinality(K) = Len(node_order)
  BY KnownNodes
<1>2. /\ \A m \in Nodes : Succ(R, m) \subseteq K
      /\ start \in K \/ Succ(R, start) = {}
  BY DEF Succ
<1> HIDE DEF K
<1> QED
  BY <1>1, <1>2, SearchIs

LEMMA CountIsByPaths ==
  ASSUME TypeOK, EdgesKnown, NEW q \in Questions
  PROVE  bfs_downstream_count(q)
           = Cardinality(Within({<<e.source, e.target>> : e \in edges}, q, 3) \ {q})
<1> DEFINE R == {<<e.source, e.target>> : e \in edges}
           W == Within(R, q, 3)
<1>0. q \in Nodes /\ 3 \in Nat
  BY DEF Nodes
<1>1. \A m, n \in Nodes : <<m, n>> \in R => m \in ToSet(node_order) /\ n \in ToSet(node_order)
  BY DEF EdgesKnown, TypeOK, Known
<1> HIDE DEF R
<1>2. Search(R, q, 3) = W /\ IsFiniteSet(W)
  BY <1>0, <1>1, SearchInGraph
<1>3. q \in W
  BY <1>0, WithinNodes
<1> HIDE DEF W
<1>4. Cardinality(W \ {q}) = Cardinality(W) - 1
  BY <1>2, <1>3, FS_RemoveElement
<1> QED
  BY <1>2, <1>4, Zenon DEF bfs_downstream_count, R, W

LEMMA WithinOne ==
  ASSUME NEW R, NEW start \in Nodes
  PROVE  Within(R, start, 1) = {start} \cup Succ(R, start)
<1>1. Within(R, start, 0) = {start}
  BY WithinZero
<1>2. 0 + 1 = 1 /\ 0 \in Nat
  OBVIOUS
<1>3. ASSUME NEW m
      PROVE  m \in Within(R, start, 1) <=> m \in {start} \cup Succ(R, start)
  <2>1. m \in Within(R, start, 0 + 1)
          <=> m \in Within(R, start, 0) \/ \E a \in Within(R, start, 0) : m \in Succ(R, a)
    BY <1>2, WithinStep
  <2> QED
    BY <1>1, <1>2, <2>1
<1> QED
  BY <1>3

LEMMA WorkIsByPaths ==
  ASSUME TypeOK, EdgesKnown, NEW d \in Decisions
  PROVE  blocked_work(d) \ {d}
           = (Within(RelatedTo, d, 1) \cup (Within(RelatedTo, d, 2) \cap Questions)) \ {d}
<1>0. d \in Nodes /\ 2 \in Nat
  BY DEF Nodes
<1>1. \A m, n \in Nodes : <<m, n>> \in RelatedTo
                            => m \in ToSet(node_order) /\ n \in ToSet(node_order)
  BY DEF EdgesKnown, TypeOK, Known, RelatedTo
<1>2. Search(RelatedTo, d, 2) = Within(RelatedTo, d, 2)
  BY <1>0, <1>1, SearchInGraph
<1>3. Within(RelatedTo, d, 1) = {d} \cup Succ(RelatedTo, d)
  BY <1>0, WithinOne
<1>4. blocked_work(d) = Succ(RelatedTo, d) \cup (Questions \cap (Within(RelatedTo, d, 2) \ {d}))
  BY <1>2, Zenon DEF blocked_work, collect_downstream_supported, Succ
<1> HIDE DEF RelatedTo
<1> QED
  BY <1>3, <1>4

LEMMA AroundIsByPaths ==
  ASSUME TypeOK, NEW n \in Nodes, NEW both,
         both = {<<e.source, e.target>> : e \in edges}
                  \cup {<<p[2], p[1]>> : p \in {<<e.source, e.target>> : e \in edges}}
  PROVE  bfs_subgraph({n}, 1) = Within(both, n, 1)
<1> DEFINE First == [frontier |-> {n}, visited |-> {n}]
           NewOf(s) == (UNION {adjacent(m) : m \in s.frontier}) \ s.visited
           NextOf(s) == [frontier |-> NewOf(s), visited |-> s.visited \cup NewOf(s)]
           RunOf(g) == [k \in 0..1 |-> IF k = 0 THEN First ELSE NextOf(g[k - 1])]
           f == [k \in 0..1 |-> IF k = 0 THEN First ELSE NextOf(First)]
           run == CHOOSE g : g = RunOf(g)
<1>0. 0 \in 0..1 /\ 1 \in 0..1 /\ 1 # 0 /\ 1 - 1 = 0 /\ \A k \in 0..1 : k = 0 \/ k - 1 = 0
  OBVIOUS
<1>1. f = RunOf(f)
  <2> HIDE DEF NextOf, First
  <2>1. f[0] = First
    BY <1>0, Zenon
  <2>2. \A k \in 0..1 : (IF k = 0 THEN First ELSE NextOf(f[k - 1]))
                          = (IF k = 0 THEN First ELSE NextOf(First))
    BY <1>0, <2>1, Zenon
  <2> HIDE DEF f
  <2>3. RunOf(f) = [k \in 0..1 |-> IF k = 0 THEN First ELSE NextOf(First)]
    BY <2>2, Zenon
  <2> QED
    BY <2>3, Zenon DEF f
<1>2. run = RunOf(run)
  <2> HIDE DEF RunOf, f
  <2> QED
    BY <1>1, Zenon
<1>3. bfs_subgraph({n}, 1) = run[1].visited
  BY Zenon DEF bfs_subgraph
<1>4. run[1].visited = {n} \cup adjacent(n)
  <2> HIDE DEF run
  <2>1. run[0] = First
    BY <1>0, <1>2, Zenon
  <2>2. run[1] = NextOf(First)
    <3> HIDE DEF First, NextOf
    <3> QED
      BY <1>0, <1>2, <2>1, Zenon
  <2>3. First.visited = {n} /\ First.frontier = {n}
    OBVIOUS
  <2>4. NextOf(First).visited = First.visited \cup NewOf(First)
    <3> HIDE DEF First, NewOf
    <3> QED
      BY Zenon
  <2>5. {n} \cup NewOf(First) = {n} \cup adjacent(n)
    <3> HIDE DEF First
    <3>1. ASSUME NEW x
          PROVE  x \in NewOf(First) <=> x \in adjacent(n) /\ x # n
      <4>1. x \in NewOf(First)
              <=> x \notin First.visited /\ \E m \in First.frontier : x \in adjacent(m)
        OBVIOUS
      <4> QED
        BY <2>3, <4>1, Zenon
    <3> HIDE DEF NewOf
    <3> QED
      BY <3>1
  <2> HIDE DEF First, NewOf, NextOf
  <2> QED
    BY <2>2, <2>3, <2>4, <2>5, Zenon
<1>5. adjacent(n) = Succ(both, n)
  <2>1. \A e \in edges : e.source \in Nodes /\ e.target \in Nodes
    BY DEF TypeOK, AllEdges
  <2>2. \A m : m \in adjacent(n)
          <=> \E e \in edges : (e.target = n /\ m = e.source) \/ (e.source = n /\ m = e.target)
    BY DEF adjacent, incoming, outgoing
  <2>3. \A m : <<n, m>> \in both
          <=> \E e \in edges : (e.target = n /\ m = e.source) \/ (e.source = n /\ m = e.target)
    <3>1. ASSUME NEW m
          PROVE  <<n, m>> \in both
            <=> \E e \in edges : \/ <<n, m>> = <<e.source, e.target>>
                                \/ <<n, m>> = <<e.target, e.source>>
      <4>1. \A e : <<e.source, e.target>>[1] = e.source /\ <<e.source, e.target>>[2] = e.target
        OBVIOUS
      <4> QED
        BY <4>1, Zenon
    <3>2. \A m, a, b : <<n, m>> = <<a, b>> <=> a = n /\ m = b
      OBVIOUS
    <3> QED
      BY <3>1, <3>2, Zenon
  <2>4. \A m : m \in Succ(both, n) <=> m \in Nodes /\ <<n, m>> \in both
    BY DEF Succ
  <2>5. adjacent(n) \subseteq Nodes
    BY <2>1, <2>2
  <2>6. \A m : m \in adjacent(n) <=> m \in Succ(both, n)
    BY <2>2, <2>3, <2>4, <2>5, Zenon
  <2> QED
    BY <2>6, Zenon
<1> QED
  BY <1>3, <1>4, <1>5, WithinOne, Zenon

LEMMA ReachHolds ==
  ASSUME TypeOK, EdgesKnown
  PROVE  ReachIsByPaths
<1> DEFINE all == {<<e.source, e.target>> : e \in edges}
           both == all \cup {<<p[2], p[1]>> : p \in all}
<1>1. \A q \in Questions : bfs_downstream_count(q) = Cardinality(Within(all, q, 3) \ {q})
  BY CountIsByPaths, Zenon
<1>2. \A d \in Decisions : blocked_work(d) \ {d} =
           (Within(RelatedTo, d, 1) \cup (Within(RelatedTo, d, 2) \cap Questions)) \ {d}
  BY WorkIsByPaths, Zenon
<1>3. \A n \in Nodes : bfs_subgraph({n}, 1) = Within(both, n, 1)
  BY AroundIsByPaths, Zenon
<1> QED
  BY <1>1, <1>2, <1>3, Zenon DEF ReachIsByPaths

-------------------------------------------------------------------------------
(* The brief.                                                               *)

ActiveDecisions == {d \in Decisions : status[d] = "Active"}

Newer == {p \in ActiveDecisions \X ActiveDecisions :
            \/ Timestamp[p[1]] > Timestamp[p[2]]
            \/ /\ Timestamp[p[1]] = Timestamp[p[2]]
               /\ Position(p[1]) < Position(p[2])}

LEMMA PositionIs ==
  ASSUME TypeOK, NEW n \in ActiveDecisions
  PROVE  n \in Nodes /\ Position(n) \in Nat /\ node_order[Position(n)] = n
<1>1. n \in ToSet(node_order) /\ n \in Nodes
  BY DEF ActiveDecisions, TypeOK, Nodes
<1>2. \E i \in DOMAIN node_order : node_order[i] = n
  BY <1>1 DEF ToSet
<1>3. Position(n) \in DOMAIN node_order /\ node_order[Position(n)] = n
  BY <1>2, Zenon DEF Position
<1>4. DOMAIN node_order \subseteq Nat
  BY DEF TypeOK
<1> QED
  BY <1>1, <1>3, <1>4

(* The list of decisions is the active ones, newest first.                  *)
LEMMA DecisionsListed ==
  ASSUME TypeOK
  PROVE  /\ IsFiniteSet(ActiveDecisions)
         /\ Lists(extract_decisions, ActiveDecisions, Newer)
<1> DEFINE A == ActiveDecisions
<1>1. A \subseteq ToSet(node_order) /\ A \subseteq Nodes
  BY DEF ActiveDecisions, TypeOK, Nodes
<1>2. IsFiniteSet(A)
  BY <1>1, KnownNodes, FS_Subset
<1>3. \A a \in A : Position(a) \in Nat /\ node_order[Position(a)] = a
  BY PositionIs
<1>4. \A a \in A : Timestamp[a] \in Nat
  BY <1>1, KnowledgeAssumption DEF KnowledgeAssumption
<1>5. \A a, b : <<a, b>> \in Newer
        <=> /\ a \in A /\ b \in A
            /\ \/ Timestamp[a] > Timestamp[b]
               \/ Timestamp[a] = Timestamp[b] /\ Position(a) < Position(b)
  BY DEF Newer
<1>6. extract_decisions = Listed(A, Newer)
  BY Zenon DEF extract_decisions, ActiveDecisions, Newer
<1> HIDE DEF A
<1>7. \A a \in A : <<a, a>> \notin Newer
  BY <1>3, <1>4, <1>5
<1>8. ASSUME NEW a \in A, NEW b \in A, NEW c \in A, <<a, b>> \in Newer, <<b, c>> \in Newer
      PROVE  <<a, c>> \in Newer
  <2>1. \A t, u, v, i, j, k \in Nat :
          (t > u \/ (t = u /\ i < j)) /\ (u > v \/ (u = v /\ j < k)) => t > v \/ (t = v /\ i < k)
    OBVIOUS
  <2>2. /\ Timestamp[a] \in Nat /\ Timestamp[b] \in Nat /\ Timestamp[c] \in Nat
        /\ Position(a) \in Nat /\ Position(b) \in Nat /\ Position(c) \in Nat
    BY <1>3, <1>4
  <2>3. /\ Timestamp[a] > Timestamp[b] \/ (Timestamp[a] = Timestamp[b] /\ Position(a) < Position(b))
        /\ Timestamp[b] > Timestamp[c] \/ (Timestamp[b] = Timestamp[c] /\ Position(b) < Position(c))
    BY <1>5, <1>8, Zenon
  <2>4. Timestamp[a] > Timestamp[c] \/ (Timestamp[a] = Timestamp[c] /\ Position(a) < Position(c))
    BY <2>1, <2>2, <2>3, Zenon
  <2> QED
    BY <1>5, <2>4, Zenon
<1>9. ASSUME NEW a \in A, NEW b \in A, a # b
      PROVE  <<a, b>> \in Newer \/ <<b, a>> \in Newer
  <2>1. Position(a) \in Nat /\ Position(b) \in Nat /\ Timestamp[a] \in Nat /\ Timestamp[b] \in Nat
    BY <1>3, <1>4
  <2>2. Position(a) # Position(b)
    BY <1>3, <1>9, Zenon
  <2>3. \A t, u, i, j \in Nat : i # j => \/ t > u \/ (t = u /\ i < j)
                                         \/ u > t \/ (u = t /\ j < i)
    OBVIOUS
  <2>4. \/ Timestamp[a] > Timestamp[b] \/ (Timestamp[a] = Timestamp[b] /\ Position(a) < Position(b))
        \/ Timestamp[b] > Timestamp[a] \/ (Timestamp[b] = Timestamp[a] /\ Position(b) < Position(a))
    BY <2>1, <2>2, <2>3, Zenon
  <2> QED
    BY <1>5, <2>4, Zenon
<1>10. Lists(Listed(A, Newer), A, Newer)
  BY <1>2, <1>7, <1>8, <1>9, ListedIs
<1> QED
  BY <1>2, <1>6, <1>10, Zenon DEF A

(* The order of the brief: the decided ones, then the others from the end.  *)
DecidedFirst(list, decided) ==
  {p \in (DOMAIN list) \X (DOMAIN list) :
     IF p[1] \in decided THEN p[2] \in decided => p[1] < p[2]
     ELSE p[2] \notin decided /\ p[1] > p[2]}

LEMMA ChosenListed ==
  ASSUME NEW C \in Nat, NEW list, DOMAIN list = 1..C, NEW decided
  PROVE  Lists(Listed(1..C, DecidedFirst(list, decided)), 1..C, DecidedFirst(list, decided))
<1> DEFINE before == DecidedFirst(list, decided)
<1>1. \A a, b : <<a, b>> \in before
        <=> /\ a \in 1..C /\ b \in 1..C
            /\ IF a \in decided THEN b \in decided => a < b
               ELSE b \notin decided /\ a > b
  BY DEF DecidedFirst
<1> HIDE DEF before
<1>2. \A a \in 1..C : <<a, a>> \notin before
  BY <1>1
<1>3. ASSUME NEW a \in 1..C, NEW b \in 1..C, NEW c \in 1..C,
             <<a, b>> \in before, <<b, c>> \in before
      PROVE  <<a, c>> \in before
  <2>1. /\ IF a \in decided THEN b \in decided => a < b ELSE b \notin decided /\ a > b
        /\ IF b \in decided THEN c \in decided => b < c ELSE c \notin decided /\ b > c
    BY <1>1, <1>3, Zenon
  <2>2. IF a \in decided THEN c \in decided => a < c ELSE c \notin decided /\ a > c
    BY <2>1
  <2> QED
    BY <1>1, <2>2, Zenon
<1>4. ASSUME NEW a \in 1..C, NEW b \in 1..C, a # b
      PROVE  <<a, b>> \in before \/ <<b, a>> \in before
  <2>1. a < b \/ b < a
    BY <1>4
  <2>2. \/ IF a \in decided THEN b \in decided => a < b ELSE b \notin decided /\ a > b
        \/ IF b \in decided THEN a \in decided => b < a ELSE a \notin decided /\ b > a
    BY <2>1
  <2> QED
    BY <1>1, <2>2, Zenon
<1>5. IsFiniteSet(1..C)
  BY FS_Interval
<1>6. Lists(Listed(1..C, before), 1..C, before)
  <2> DEFINE S == 1..C
  <2> HIDE DEF S
  <2>1. /\ IsFiniteSet(S) /\ \A a \in S : <<a, a>> \notin before
        /\ \A a, b, c \in S : <<a, b>> \in before /\ <<b, c>> \in before => <<a, c>> \in before
        /\ \A a, b \in S : a = b \/ <<a, b>> \in before \/ <<b, a>> \in before
    BY <1>2, <1>3, <1>4, <1>5 DEF S
  <2>2. Lists(Listed(S, before), S, before)
    BY <2>1, ListedIs
  <2> QED
    BY <2>2 DEF S
<1> QED
  BY <1>6 DEF before

LEMMA BriefHolds ==
  ASSUME TypeOK
  PROVE  BriefShowsDecided
<1> DEFINE A == ActiveDecisions
           C == Cardinality(A)
           list == extract_decisions
           decided == {i \in DOMAIN list : decision_status(list[i]) # "Pending"}
           before == DecidedFirst(list, decided)
           chosen == Listed(DOMAIN list, before)
           M == IF Len(list) < MaxDecisions THEN Len(list) ELSE MaxDecisions
           shown == ToSet(build_brief)
<1>1. C \in Nat /\ Lists(list, A, Newer)
  BY DecisionsListed, FS_CardinalityType
<1>2. MaxDecisions \in Nat \ {0} /\ \A a \in A : Timestamp[a] \in Nat
  BY KnowledgeAssumption DEF KnowledgeAssumption, ActiveDecisions, Nodes
<1>3. build_brief = [n \in 1..M |-> list[chosen[n]]]
  BY Zenon DEF build_brief, DecidedFirst
<1> HIDE DEF A, C, list
<1>4. /\ list \in [1..C -> A] /\ DOMAIN list = 1..C
      /\ \A m, n \in 1..C : m < n => <<list[m], list[n]>> \in Newer
      /\ \A a \in A : \E n \in 1..C : list[n] = a
  BY <1>1 DEF Lists, C
<1>5. Len(list) = C
  BY <1>1, <1>4
<1>6. Lists(chosen, 1..C, before)
  <2> HIDE DEF decided
  <2>1. Lists(Listed(1..C, before), 1..C, before)
    BY <1>1, <1>4, ChosenListed
  <2> QED
    BY <1>4, <2>1, Zenon
<1>7. Cardinality(1..C) = C
  BY <1>1, FS_Interval
<1>8. /\ chosen \in [1..C -> 1..C]
      /\ \A m, n \in 1..C : m < n => <<chosen[m], chosen[n]>> \in before
      /\ \A a \in 1..C : \E n \in 1..C : chosen[n] = a
  <2> HIDE DEF chosen, before
  <2> QED
    BY <1>6, <1>7 DEF Lists
<1>9. \A i, j : <<i, j>> \in before
        => /\ i \in 1..C /\ j \in 1..C
           /\ IF i \in decided THEN j \in decided => i < j
              ELSE j \notin decided /\ i > j
  BY <1>4 DEF DecidedFirst
<1>10. ASSUME NEW a, NEW b, <<a, b>> \in Newer
       PROVE  a # b /\ Timestamp[a] >= Timestamp[b]
  <2>1. /\ a \in A /\ b \in A
        /\ Timestamp[a] > Timestamp[b] \/ (Timestamp[a] = Timestamp[b] /\ Position(a) < Position(b))
    BY <1>10 DEF Newer, A
  <2>2. a \in Nodes /\ Position(a) \in Nat
    BY <2>1, PositionIs DEF A
  <2> QED
    BY <1>2, <2>1, <2>2
<1> HIDE DEF chosen, before
<1>11. M \in Nat /\ M <= C /\ (M = C \/ M = MaxDecisions)
  BY <1>1, <1>2, <1>5
<1> HIDE DEF M
<1>12. /\ \A m, n \in 1..C : m # n => list[m] # list[n]
       /\ \A m, n \in 1..C : m # n => chosen[m] # chosen[n]
  <2>1. \A m, n \in 1..C : m < n => list[m] # list[n]
    BY <1>4, <1>10
  <2>2. \A m, n \in 1..C : m < n => chosen[m] # chosen[n]
    <3>1. ASSUME NEW m \in 1..C, NEW n \in 1..C, m < n
          PROVE  chosen[m] # chosen[n]
      <4>1. <<chosen[m], chosen[n]>> \in before
        BY <1>8, <3>1
      <4>2. ~(chosen[m] < chosen[m]) /\ ~(chosen[m] > chosen[m])
        <5>1. \A i \in 1..C : ~(i < i) /\ ~(i > i)
          BY <1>1
        <5>2. m \in 1..C => chosen[m] \in 1..C
          BY <1>8, Zenon
        <5> QED
          BY <5>1, <5>2, Zenon
      <4> QED
        BY <1>9, <4>1, <4>2, Zenon
    <3> QED
      BY <3>1
  <2>3. \A m, n \in 1..C : m # n => m < n \/ n < m
    BY <1>1
  <2> QED
    BY <2>1, <2>2, <2>3, Zenon
<1>13. \A m \in 1..M : m \in 1..C
  BY <1>1, <1>11
<1> DEFINE brief == [n \in 1..M |-> list[chosen[n]]]
<1>14. /\ brief \in [1..M -> A] /\ DOMAIN brief = 1..M
       /\ \A n \in 1..M : brief[n] = list[chosen[n]]
       /\ \A m, n \in 1..M : m # n => brief[m] # brief[n]
  BY <1>4, <1>8, <1>12, <1>13
<1> HIDE DEF brief
<1>15. /\ IsInjective(brief)
       /\ ToSet(brief) = {brief[n] : n \in 1..M} /\ ToSet(brief) \subseteq A
  BY <1>14 DEF IsInjective, ToSet
<1>16. Cardinality(ToSet(brief)) = M
  <2> DEFINE T == ToSet(brief)
             I == 1..M
  <2>1. IsFiniteSet(I) /\ Cardinality(I) = M
    BY <1>11, FS_Interval
  <2>2. brief \in Bijection(I, T)
    BY <1>14, <1>15 DEF Bijection, Injection, Surjection, IsInjective
  <2> HIDE DEF T, I
  <2> QED
    BY <2>1, <2>2, FS_Bijection DEF ExistsBijection, T
<1>17. \A a \in A : \E n \in 1..C : list[chosen[n]] = a
  BY <1>4, <1>8
<1>18. ToSet(brief) # A => Cardinality(ToSet(brief)) = MaxDecisions
  <2>1. M = C => A \subseteq ToSet(brief)
    BY <1>14, <1>15, <1>17
  <2> QED
    BY <1>11, <1>15, <1>16, <2>1
<1>19. ASSUME NEW p \in ToSet(brief), NEW d \in A \ ToSet(brief),
              decision_status(d) # "Pending"
       PROVE  decision_status(p) # "Pending" /\ Timestamp[p] >= Timestamp[d]
  <2>1. PICK n \in 1..M : p = list[chosen[n]]
    BY <1>14, <1>15
  <2>2. PICK k \in 1..C : d = list[chosen[k]]
    BY <1>17
  <2>3. k \notin 1..M
    BY <1>14, <1>15, <2>2
  <2>4. n \in 1..C /\ n < k
    BY <1>1, <1>11, <2>3
  <2>5. <<chosen[n], chosen[k]>> \in before
    BY <1>8, <2>4
  <2> DEFINE i == chosen[n]
             j == chosen[k]
  <2>6. i \in 1..C /\ j \in 1..C /\ j \in decided
    BY <1>4, <1>8, <1>19, <2>2, <2>4
  <2>7. i \in decided /\ i < j
    BY <1>9, <2>5, <2>6
  <2>8. <<list[i], list[j]>> \in Newer
    BY <1>4, <2>6, <2>7
  <2> QED
    BY <1>10, <2>1, <2>2, <2>7, <2>8
<1>20. build_brief = brief
  BY <1>3, Zenon DEF brief
<1>21. /\ IsInjective(build_brief) /\ ToSet(build_brief) \subseteq A
       /\ ToSet(build_brief) # A => Cardinality(ToSet(build_brief)) = MaxDecisions
       /\ \A p \in ToSet(build_brief), d \in A \ ToSet(build_brief) :
            decision_status(d) # "Pending"
              => decision_status(p) # "Pending" /\ Timestamp[p] >= Timestamp[d]
  BY <1>15, <1>18, <1>19, <1>20, Zenon
<1> QED
  BY <1>21, Zenon DEF BriefShowsDecided, A, ActiveDecisions

(* What is told of the graph is right, in every state that the writers can  *)
(* bring it to: the impact of a risk, the work that waits for a decision    *)
(* and the nodes around a node are what paths of the given length lead to   *)
(* (bfs_downstream_count in risks.rs, collect_downstream_supported in       *)
(* decisions.rs, bfs_subgraph in store.rs), and the brief shows the newest  *)
(* decided decisions first and leaves no room unused (brief.rs).            *)
THEOREM ToldIsRight == Spec => []Inv
<1>1. IInv => Inv
  BY ReachHolds, BriefHolds DEF IInv, Inv
<1> QED
  BY <1>1, Invariance, PTL
===============================================================================
