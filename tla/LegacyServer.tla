----------------------------- MODULE LegacyServer -----------------------------
(***************************************************************************)
(* armin-server, the older server beside armin-engine: the stream runner    *)
(* and POST /ingest, which take events one by one through the pipeline of   *)
(* stages (armin-core/server/src/stream_runner.rs, routes.rs and pipeline/),*)
(* the agents' writes over HTTP and MCP, the broadcast to WebSocket clients *)
(* (ws.rs), and the retrieval that answers start from (graph/src/retrieval).*)
(*                                                                          *)
(* The tasks share the graph, the event log, the running summary and the    *)
(* broadcast channel, and hold no lock across an await: a step goes from    *)
(* one await to the next.  A node stands for its content; an edge is a pair *)
(* <<source, target>>.  The debt and community reports are left out but for *)
(* whether a message has them.                                              *)
(***************************************************************************)
EXTENDS Naturals, Sequences, FiniteSetsExt, SequencesExt

CONSTANTS
  Events,      \* event ids; an extraction may raise one node per event
  Dropped,     \* nodes an LLM gives to no event or a wrong one: validation drops them
  Malformed,   \* a line of the stream that does not parse
  Runner,      \* the stream runner
  Posts,       \* requests of POST /ingest
  Loads,       \* what a server is given: its settings, the lines of each producer,
               \* how many writes and questions there are, the WebSocket clients
  Window,      \* length of the event log (20 in the code)
  Capacity,    \* capacity of the broadcast channel (1024 in the code)
  TopN         \* nodes a retriever returns (5 in the code)

Producers == {Runner} \cup Posts
Writes == UNION {1..l.writes : l \in Loads}
Nodes == Events \cup Writes         \* an agent's write has its number

ASSUME ServerAssumption ==
  /\ Runner \notin Posts /\ Malformed \notin Events /\ Events \cap Nat = {}
  /\ Dropped \cap (Events \cup Nat) = {}   \* each node has an id of its own
  /\ Loads \subseteq [lines : [Producers -> Seq(Events \cup {Malformed})],
                      writes : Nat, asks : Nat, clients : SUBSET STRING,
                      interval : Nat,       \* of the compression; 0: there is none
                      searcher : BOOLEAN,
                      retriever : {"bm25", "embedding", "hybrid"}]
  /\ {Window, Capacity, TopN} \subseteq Nat \ {0}

Clients == UNION {l.clients : l \in Loads}
Edges == (Nodes \cup Dropped) \X (Nodes \cup Dropped)

VARIABLES
  load,                \* given at the start
  lines,               \* lines[p]: the events a producer has yet to read
  stage, ctx,          \* where its pipeline is, and its PipelineContext
  event_log, compressed_summary, batch_counter,
  nodes, edges, invalid,                     \* the graph
  agent, writes,       \* the write under way, and how many there were
  sent,                \* every message that was broadcast
  client,              \* client[c]: [at, next, last]
  index, rebuild_on_query, asker, asks,      \* the embedding retriever
  batches, raced       \* history: batches summarised; two at the same time

interval == load.interval
retriever == load.retriever
producing == <<lines, stage, ctx, event_log, compressed_summary, batch_counter, batches, raced>>
graph == <<nodes, edges, invalid>>
writing == <<agent, writes>>
asking == <<index, rebuild_on_query, asker, asks>>
vars == <<load, producing, graph, writing, sent, client, asking>>

Places == {"idle", "history", "snapshot", "compress", "summary", "compressing", "extract",
           "ground", "nodes", "edges", "announce", "gone"}
NoCtx == [event |-> Malformed, history |-> <<>>, snapshot |-> {}, due |-> FALSE, old |-> <<>>,
          nodes |-> {}, edges |-> {}, reports |-> FALSE]
Agent(at, n, todo, ns, es, http) ==
  [at |-> at, node |-> n, todo |-> todo, nodes |-> ns, edges |-> es, http |-> http]
NoAgent == Agent("idle", 0, {}, {}, {}, FALSE)
NoAsker == [at |-> "idle", snapshot |-> {}, bm25 |-> {}, seeds |-> {}, had |-> FALSE]
Message(ns, es, reports) == [nodes |-> ns, edges |-> es, reports |-> reports]

Batch == BoundedSeq(Events, Window)
TypeOK ==
  /\ stage \in [Producers -> Places]
  /\ \A p \in Producers :
       /\ ctx[p].event \in Events \cup {Malformed}
       /\ ctx[p].history \in Batch
       /\ ctx[p].snapshot \cup ctx[p].nodes \subseteq Nodes
       /\ ctx[p].edges \subseteq Edges
  /\ event_log \in Batch
  /\ ToSet(compressed_summary) \subseteq Batch
  /\ nodes \subseteq Nodes /\ invalid \subseteq nodes
  /\ edges \subseteq nodes \X nodes
  /\ index \cup asker.seeds \subseteq nodes
  /\ writes \in 0..load.writes /\ asks \in 0..load.asks
  /\ \A c \in Clients : client[c].next \in 0..Len(sent) /\ client[c].last \in 0..client[c].next

Init ==
  /\ load \in Loads
  /\ lines = load.lines
  /\ stage = [p \in Producers |-> "idle"]
  /\ ctx = [p \in Producers |-> NoCtx]
  /\ event_log = <<>> /\ compressed_summary = <<>> /\ batch_counter = 0
  /\ nodes = {} /\ edges = {} /\ invalid = {}
  /\ agent = NoAgent /\ writes = 0
  /\ sent = <<>>
  /\ client = [c \in Clients |-> [at |-> "out", next |-> 0, last |-> 0]]
  /\ index = {} /\ rebuild_on_query = TRUE /\ asker = NoAsker /\ asks = 0
  /\ batches = <<>> /\ raced = FALSE

To(p, place) == stage' = [stage EXCEPT ![p] = place]

-------------------------------------------------------------------------------
(* Producers: the stream runner and POST /ingest, event by event.           *)

Others == UNCHANGED <<load, graph, writing, sent, client, asking>>

(* A line that does not parse is skipped.                                   *)
SkipLine(p) ==
  /\ p = Runner /\ stage[p] = "idle"
  /\ lines[p] # <<>> /\ Head(lines[p]) = Malformed
  /\ lines' = [lines EXCEPT ![p] = Tail(@)]
  /\ UNCHANGED <<stage, ctx, event_log, compressed_summary, batch_counter, batches, raced>>
  /\ Others

(* The next event goes to the log, which keeps the newest.                  *)
Take(p) ==
  /\ stage[p] = "idle"
  /\ lines[p] # <<>> /\ Head(lines[p]) # Malformed
  /\ lines' = [lines EXCEPT ![p] = Tail(@)]
  /\ event_log' = Append(IF Len(event_log) >= Window THEN Tail(event_log) ELSE event_log,
                         Head(lines[p]))
  /\ ctx' = [ctx EXCEPT ![p] = [NoCtx EXCEPT !.event = Head(lines[p])]]
  /\ To(p, "history")
  /\ UNCHANGED <<compressed_summary, batch_counter, batches, raced>>
  /\ Others

ReadHistory(p) ==
  /\ stage[p] = "history"
  /\ ctx' = [ctx EXCEPT ![p].history = event_log]
  /\ To(p, "snapshot")
  /\ UNCHANGED <<lines, event_log, compressed_summary, batch_counter, batches, raced>>
  /\ Others

(* recent_snapshot, then the first stage of the pipeline.                   *)
ReadSnapshot(p) ==
  /\ stage[p] = "snapshot"
  /\ ctx' = [ctx EXCEPT ![p].snapshot = nodes]
  /\ To(p, IF interval = 0 THEN "extract" ELSE "compress")
  /\ UNCHANGED <<lines, event_log, compressed_summary, batch_counter, batches, raced>>
  /\ Others

(* CompressionStage counts the event,                                       *)
Count(p) ==
  /\ stage[p] = "compress"
  /\ batch_counter' = batch_counter + 1
  /\ ctx' = [ctx EXCEPT ![p].due = /\ (batch_counter + 1) % interval = 0
                                   /\ Len(ctx[p].history) >= interval]
  /\ To(p, "summary")
  /\ UNCHANGED <<lines, event_log, compressed_summary, batches, raced>>
  /\ Others

(* reads the running summary,                                               *)
ReadSummary(p) ==
  /\ stage[p] = "summary"
  /\ ctx' = [ctx EXCEPT ![p].old = compressed_summary]
  /\ To(p, IF ctx[p].due THEN "compressing" ELSE "extract")
  /\ raced' = (raced \/ (ctx[p].due /\ \E q \in Producers : stage[q] = "compressing"))
  /\ UNCHANGED <<lines, event_log, compressed_summary, batch_counter, batches>>
  /\ Others

Oldest(p) == SubSeq(ctx[p].history, 1, interval)

(* Mutant: the summary replaces the running one.                            *)
CompressAnew(p) ==
  /\ stage[p] = "compressing"
  /\ compressed_summary' = <<Oldest(p)>>
  /\ batches' = Append(batches, Oldest(p))
  /\ To(p, "extract")
  /\ UNCHANGED <<lines, ctx, event_log, batch_counter, raced>>
  /\ Others

(* and writes it, with the summary of the oldest events added, when the LLM *)
(* has answered.                                                            *)
Compress(p) ==
  /\ stage[p] = "compressing"
  /\ compressed_summary' = Append(ctx[p].old, Oldest(p))
  /\ batches' = Append(batches, Oldest(p))
  /\ To(p, "extract")
  /\ UNCHANGED <<lines, ctx, event_log, batch_counter, raced>>
  /\ Others

(* Without an answer the pipeline ends here, before the extraction.         *)
CompressFails(p) ==
  /\ stage[p] = "compressing"
  /\ To(p, "nodes")
  /\ UNCHANGED <<lines, ctx, event_log, compressed_summary, batch_counter, batches, raced>>
  /\ Others

(* ExtractionStage, of a batch of one event: at most one node and one edge  *)
(* here.  The edge joins nodes of the snapshot and of the reply: validation *)
(* looks at the ends before it drops nodes, so that one may be a dropped    *)
(* one.  Without a node that is kept no edge is.  A failure gives nothing.  *)
Joins(S) == {e \in S \X S : e[1] # e[2]}
Extract(p) ==
  /\ stage[p] = "extract"
  /\ LET ends == ctx[p].snapshot \cup {ctx[p].event} \cup Dropped
     IN  \/ UNCHANGED ctx
         \/ \E es \in {{}} \cup {{e} : e \in Joins(ends)} :
              ctx' = [ctx EXCEPT ![p].nodes = {ctx[p].event}, ![p].edges = es]
  /\ To(p, "ground")
  /\ UNCHANGED <<lines, event_log, compressed_summary, batch_counter, batches, raced>>
  /\ Others

(* GroundingStage; then the debt and the community stage, which cannot fail.*)
Ground(p) ==
  /\ stage[p] = "ground"
  /\ ctx' = [ctx EXCEPT ![p].reports = TRUE]
  /\ To(p, "nodes")
  /\ UNCHANGED <<lines, event_log, compressed_summary, batch_counter, batches, raced>>
  /\ Others

(* Mutant: the error ends the stream, or the request.                       *)
GroundFailsAll(p) ==
  /\ stage[p] = "ground"
  /\ load.searcher /\ ctx[p].edges # {}
  /\ To(p, "gone")
  /\ lines' = [lines EXCEPT ![p] = <<>>]
  /\ UNCHANGED <<ctx, event_log, compressed_summary, batch_counter, batches, raced>>
  /\ Others

(* A search that fails ends the pipeline: the message has no reports.       *)
GroundFails(p) ==
  /\ stage[p] = "ground"
  /\ load.searcher /\ ctx[p].edges # {}
  /\ To(p, "nodes")
  /\ UNCHANGED <<lines, ctx, event_log, compressed_summary, batch_counter, batches, raced>>
  /\ Others

Produced == UNCHANGED <<lines, event_log, compressed_summary, batch_counter, batches,
                        raced, load, writing, asking, client>>

AddNodes(p) ==
  /\ stage[p] = "nodes"
  /\ nodes' = nodes \cup ctx[p].nodes
  /\ To(p, "edges")
  /\ UNCHANGED <<ctx, edges, invalid, sent>>
  /\ Produced

(* add_edge refuses an edge whose ends are not both in the graph.           *)
AddEdges(p) ==
  /\ stage[p] = "edges"
  /\ edges' = edges \cup (ctx[p].edges \cap (nodes \X nodes))
  /\ To(p, "announce")
  /\ UNCHANGED <<ctx, nodes, invalid, sent>>
  /\ Produced

(* POST /ingest announces the nodes and edges only.                         *)
Announce(p) ==
  /\ stage[p] = "announce"
  /\ sent' = Append(sent, Message(ctx[p].nodes, ctx[p].edges, p = Runner /\ ctx[p].reports))
  /\ ctx' = [ctx EXCEPT ![p] = NoCtx]
  /\ To(p, "idle")
  /\ UNCHANGED graph
  /\ Produced

(* The caller of POST /ingest hangs up: its handler is dropped where it     *)
(* waits.  Reading the stream fails: the runner ends.                       *)
Drop(p) ==
  /\ \/ p \in Posts /\ (stage[p] \notin {"idle", "gone"} \/ lines[p] # <<>>)
     \/ p = Runner /\ stage[p] = "idle" /\ lines[p] # <<>>
  /\ To(p, "gone")
  /\ lines' = [lines EXCEPT ![p] = <<>>]
  /\ ctx' = [ctx EXCEPT ![p] = NoCtx]
  /\ UNCHANGED <<event_log, compressed_summary, batch_counter, batches, raced>>
  /\ Others

-------------------------------------------------------------------------------
(* The agents' writes, over HTTP, and over MCP, which announces nothing.    *)

Fresh == writes + 1
MayWrite == agent.at = "idle" /\ writes < load.writes
Counted == writes' = Fresh
WriteOnly == UNCHANGED <<load, producing, asking, client>>
Ending(http) == IF http THEN "say" ELSE "idle"

(* decision, with the questions it resolves, and question, with none        *)
Decide(targets, http) ==
  /\ MayWrite /\ Counted
  /\ nodes' = nodes \cup {Fresh}
  /\ agent' = Agent(IF targets = {} THEN Ending(http) ELSE "edges",
                    Fresh, targets, {Fresh}, {}, http)
  /\ UNCHANGED <<edges, invalid, sent>>
  /\ WriteOnly

(* A target that is not in the graph is passed over.                        *)
ResolveNext ==
  /\ agent.at = "edges"
  /\ \E t \in agent.todo :
       LET new == {<<agent.node, t>>} \cap (nodes \X nodes)
           rest == agent.todo \ {t}
       IN  /\ edges' = edges \cup new
           /\ agent' = [agent EXCEPT !.todo = rest, !.edges = @ \cup new,
                                     !.at = IF rest = {} THEN Ending(agent.http) ELSE "edges"]
  /\ UNCHANGED <<nodes, invalid, writes, sent>>
  /\ WriteOnly

(* resolve; nothing happens when a node is not known                        *)
Resolve(q, n, http) ==
  /\ MayWrite /\ Counted
  /\ {q, n} \subseteq nodes
  /\ edges' = edges \cup {<<n, q>>}
  /\ agent' = IF http THEN Agent("say", Fresh, {}, {}, {<<n, q>>}, TRUE) ELSE NoAgent
  /\ UNCHANGED <<nodes, invalid, sent>>
  /\ WriteOnly

(* invalidate: the status, then a node with the reason, then its edge       *)
Invalidate(n, http) ==
  /\ MayWrite /\ Counted
  /\ n \in nodes
  /\ invalid' = invalid \cup {n}
  /\ agent' = Agent("claim", Fresh, {n}, {Fresh}, {}, http)
  /\ UNCHANGED <<nodes, edges, sent>>
  /\ WriteOnly

Claim ==
  /\ agent.at = "claim"
  /\ nodes' = nodes \cup {agent.node}
  /\ agent' = [agent EXCEPT !.at = "edges"]
  /\ UNCHANGED <<edges, invalid, writes, sent>>
  /\ WriteOnly

Say ==
  /\ agent.at = "say"
  /\ sent' = Append(sent, Message(agent.nodes, agent.edges, FALSE))
  /\ agent' = NoAgent
  /\ UNCHANGED <<graph, writes>>
  /\ WriteOnly

-------------------------------------------------------------------------------
(* WebSocket clients: handle_socket.                                        *)

ClientOnly == UNCHANGED <<load, producing, graph, writing, sent, asking>>
Behind(c) == Len(sent) - client[c].next

Subscribe(c) ==
  /\ c \in load.clients /\ client[c].at = "out"
  /\ client' = [client EXCEPT ![c] = [at |-> "in", next |-> Len(sent), last |-> Len(sent)]]
  /\ ClientOnly

Receive(c) ==
  /\ client[c].at = "in"
  /\ Behind(c) \in 1..Capacity
  /\ client' = [client EXCEPT ![c].next = @ + 1, ![c].last = client[c].next + 1]
  /\ ClientOnly

(* Mutant: a client that fell behind is let go.                             *)
LagEnds(c) ==
  /\ client[c].at = "in"
  /\ Behind(c) > Capacity
  /\ client' = [client EXCEPT ![c].at = "cut"]
  /\ ClientOnly

(* Fallen behind: the receiver goes on with the oldest message still kept.  *)
Lag(c) ==
  /\ client[c].at = "in"
  /\ Behind(c) > Capacity
  /\ client' = [client EXCEPT ![c].next = Len(sent) - Capacity]
  /\ ClientOnly

(* The client closes, or sending to it fails.                               *)
Leave(c) ==
  /\ client[c].at = "in"
  /\ client' = [client EXCEPT ![c].at = "gone"]
  /\ ClientOnly

-------------------------------------------------------------------------------
(* Retrieval: the nodes an answer starts from.  A question has tokens.      *)

AskOnly == UNCHANGED <<load, producing, graph, writing, sent, client>>

Ranked(S, k) == kSubset(IF Cardinality(S) < k THEN Cardinality(S) ELSE k, S)
Bm25(k) == Ranked(nodes, k)         \* every document has a score

Seeds(S) == asker' = [NoAsker EXCEPT !.at = "found", !.seeds = S, !.had = asker.had]

(* find_relevant_nodes of a retriever, up to its first call to the embedder *)
Enter(had) ==
  \/ /\ retriever = "bm25"
     /\ \E S \in Bm25(TopN) : asker' = [NoAsker EXCEPT !.at = "found", !.seeds = S, !.had = had]
     /\ UNCHANGED index
  \/ /\ retriever # "bm25"
     /\ \E S \in IF retriever = "hybrid" THEN Bm25(2 * TopN) ELSE {{}} :
          asker' = [NoAsker EXCEPT !.at = IF rebuild_on_query /\ nodes # {} THEN "rebuild"
                                          ELSE "embed",
                                   !.snapshot = nodes, !.bm25 = S, !.had = had]
     /\ index' = IF rebuild_on_query /\ nodes = {} THEN {} ELSE index

(* What the retriever returns when the embedding side has found S.          *)
Merge(S) ==
  IF retriever # "hybrid" THEN Seeds(S)
  ELSE \E T \in IF Cardinality(asker.bm25) >= TopN
                THEN kSubset(TopN, asker.bm25)
                ELSE {asker.bm25 \cup X : X \in Ranked(S \ asker.bm25,
                                                     TopN - Cardinality(asker.bm25))} :
         Seeds(T)

Width == IF retriever = "hybrid" THEN 2 * TopN ELSE TopN

(* query_handler: the llm mode asks the LLM first.                          *)
Ask(llm) ==
  /\ asker.at = "idle"
  /\ asks < load.asks
  /\ asks' = asks + 1
  /\ \/ /\ llm
        /\ asker' = [NoAsker EXCEPT !.at = "llm", !.snapshot = nodes, !.had = nodes # {}]
        /\ UNCHANGED index
     \/ ~llm /\ Enter(nodes # {})
  /\ UNCHANGED rebuild_on_query
  /\ AskOnly

(* Ids that the LLM names and the graph knows, or the retriever instead.    *)
LlmNames ==
  /\ asker.at = "llm"
  /\ \/ (\E S \in (SUBSET asker.snapshot) \ {{}} : Seeds(S)) /\ UNCHANGED index
     \/ Enter(asker.had)
  /\ UNCHANGED <<rebuild_on_query, asks>>
  /\ AskOnly

(* The index is built once, of the nodes that are there and get a vector.   *)
Rebuilt ==
  /\ asker.at = "rebuild"
  /\ index' \in {{}, asker.snapshot}
  /\ rebuild_on_query' = FALSE
  /\ asker' = [asker EXCEPT !.at = "embed"]
  /\ UNCHANGED asks
  /\ AskOnly

(* The question has its vector; an empty index is no use.                   *)
Embedded ==
  /\ asker.at = "embed"
  /\ \E S \in IF index = {} THEN Bm25(Width) ELSE Ranked(index, Width) : Merge(S)
  /\ UNCHANGED <<index, rebuild_on_query, asks>>
  /\ AskOnly

(* The embedder fails: BM25.                                                *)
EmbedFails ==
  /\ asker.at \in {"rebuild", "embed"}
  /\ \E S \in Bm25(Width) : Merge(S)
  /\ UNCHANGED <<index, rebuild_on_query, asks>>
  /\ AskOnly

Answered ==
  /\ asker.at = "found"
  /\ asker' = NoAsker
  /\ UNCHANGED <<index, rebuild_on_query, asks>>
  /\ AskOnly

-------------------------------------------------------------------------------
Searching(p) == stage[p] = "ground" /\ load.searcher /\ ctx[p].edges # {}

Produce(p) == \/ SkipLine(p) \/ Take(p) \/ ReadHistory(p) \/ ReadSnapshot(p)
              \/ Count(p) \/ ReadSummary(p) \/ Compress(p) \/ CompressFails(p)
              \/ Extract(p) \/ Ground(p) \/ GroundFails(p)
              \/ AddNodes(p) \/ AddEdges(p) \/ Announce(p)
Write == \/ \E http \in BOOLEAN :
              \/ \E targets \in {{}} \cup {{n} : n \in Nodes} : Decide(targets, http)
              \/ \E q, n \in Nodes : Resolve(q, n, http)
              \/ \E n \in Nodes : Invalidate(n, http)
         \/ ResolveNext \/ Claim \/ Say
Watch(c) == Receive(c) \/ Lag(c)
Question == (\E llm \in BOOLEAN : Ask(llm))
            \/ LlmNames \/ Rebuilt \/ Embedded \/ EmbedFails \/ Answered

Next == \/ \E p \in Producers : Produce(p) \/ Drop(p)
        \/ Write
        \/ \E c \in Clients : Subscribe(c) \/ Watch(c) \/ Leave(c)
        \/ Question

(* Fairness: the tasks run.  The LLM client has a time limit, so that its   *)
(* calls end; the search client has none, and its calls may not.            *)
Fairness == /\ \A p \in Producers : WF_vars(Produce(p) /\ ~Searching(p))
            /\ \A c \in Clients : WF_vars(Watch(c))
Spec == Init /\ [][Next]_vars /\ Fairness

-------------------------------------------------------------------------------
(* Properties.                                                              *)

(* What a client is told of is in the graph by then, and stays there; an   *)
(* edge may have been refused and is announced all the same, but only when  *)
(* an end of it is not in the graph, and then never will be.                *)
AnnouncedIsStored ==
  \A i \in DOMAIN sent :
    /\ sent[i].nodes \subseteq nodes
    /\ \A e \in sent[i].edges : e \in edges \/ ~({e[1], e[2]} \subseteq nodes)
(* As long as no two compressions were under way together, the running      *)
(* summary has every batch that was summarised, in that order.              *)
SummaryKeeps == ~raced => compressed_summary = batches
(* A question about a graph with nodes finds one, whatever the LLM, the     *)
(* embedder and the index say.                                              *)
SeedsFound == asker.at = "found" /\ asker.had => asker.seeds # {}
Inv == TypeOK /\ AnnouncedIsStored /\ SummaryKeeps /\ SeedsFound

(* Every event of the stream that was read is announced, whatever stage     *)
(* fails, and so are those of a POST that is not dropped, unless a search   *)
(* never returns.                                                           *)
EveryEventLeaves ==
  (\A p \in Producers : []<>~Searching(p)) =>
    /\ stage[Runner] = "history" ~> stage[Runner] = "idle"
    /\ \A p \in Posts : stage[p] = "history" ~> stage[p] \in {"idle", "gone"}

(* A client that stays gets the newest message, however far it fell behind. *)
NewestArrives ==
  \A c \in Clients :
    client[c].at = "in" ~> client[c].at = "gone" \/ client[c].last = Len(sent)
===============================================================================
