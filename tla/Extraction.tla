------------------------------ MODULE Extraction ------------------------------
(***************************************************************************)
(* One batch of prose events after the other, from the worker's             *)
(* process_batch through the calls to the extractor to commit_result        *)
(* (armin-core/engine/src/worker.rs, armin-core/extraction/src).            *)
(*                                                                          *)
(* Which extractor there is follows from the mode and the keys at the start *)
(* of the engine.  A call is under way in the states "judge", "relate" and  *)
(* "ask", and the service (external) answers, refuses or fails in any way.  *)
(* Meanwhile agents write nodes to the graph.  A commit is one step: the    *)
(* store never forgets a node, so what comes between its writes does not    *)
(* change what they do (GraphStore and Knowledge have them one by one).     *)
(***************************************************************************)
EXTENDS JevJudging, LlmReply

CONSTANTS
  Events,       \* prose events, numbered in the order of their ids
  Said,         \* Said[e]: the sentences of an event, in order
  MinWords,     \* MIN_WORDS_FOR_EXTRACTION
  BatchEvents,  \* events in one batch
  RecentNodes,  \* nodes in a snapshot for the extractor
  AgentNodes,   \* nodes that agents add (a bound)
  Settings,     \* modes and keys an engine may be started with
  Judgements, RelationAnswers,  \* what Jev may answer
  Payloads, Wrappings, MaxCut   \* what an LLM may write, and how it arrives

ASSUME ExtractionAssumption == /\ Events \subseteq Nat \ {0}
                               /\ BatchEvents \in Nat \ {0}
                               /\ DOMAIN EndTime = Events \cup {0}

VARIABLES
  setting,    \* [mode, explicit, typesafe, openrouter, llm, anthropic, openai]
  extractor,  \* "start" until main has read the settings, "jev", "llm" or "none"
  json_mode,  \* the LLM client gave up on forced tool use
  graph,      \* the nodes, oldest first
  edges,      \* [src, tgt, type or why, prov]
  waiting,    \* events not yet in a batch
  outcome,    \* what became of each event
  batch, step,
  known,      \* the snapshot taken when the batch was begun
  call,       \* [at, attempt]: the cursor of the call, and its retries
  pairs,      \* candidate pairs of the batch
  found,      \* [nodes, edges, seen]
  judged, related,  \* what the service answered, by sentence and by pair
  reply,      \* the LLM's reply to the batch
  metrics

configVars == <<setting, extractor>>
graphVars == <<graph, edges>>
batchVars == <<waiting, outcome, batch, known>>
workVars == <<step, call, pairs, found, judged, related, reply>>
vars == <<configVars, json_mode, graphVars, batchVars, workVars, metrics>>

Elems(s) == {s[i] : i \in DOMAIN s}

-------------------------------------------------------------------------------
(* Which extractor: JevClient::from_env, ExtractionClient::resolve, main.   *)

(* The relay; "none" without a key, and for an unknown name.                *)
resolve_provider(s) ==
  CASE s.explicit \in {"typesafe", "openrouter"} -> s.explicit
    [] s.explicit = "unknown" -> "none"
    [] OTHER -> IF s.typesafe THEN "typesafe" ELSE IF s.openrouter THEN "openrouter" ELSE "none"

JevFromEnv(s) ==
  LET relay == resolve_provider(s)
  IN  IF (relay = "typesafe" /\ s.typesafe) \/ (relay = "openrouter" /\ s.openrouter)
      THEN relay ELSE "none"

(* OpenAI only when it is asked for or its key is the only one.             *)
LlmResolve(s) ==
  CASE s.llm = "openai" -> IF s.openai THEN "openai" ELSE "none"
    [] s.llm = "anthropic" -> IF s.anthropic THEN "anthropic" ELSE "none"
    [] OTHER -> IF s.anthropic THEN "anthropic" ELSE IF s.openai THEN "openai" ELSE "none"

(* The extractor of the engine: Jev, or an LLM in its mode and without Jev. *)
Extractor(s) ==
  CASE s.mode = "off" -> "none"
    [] s.mode = "jev" /\ JevFromEnv(s) # "none" -> JevFromEnv(s)
    [] OTHER -> LlmResolve(s)

Kind(service) == CASE service = "none" -> "none"
                   [] service \in {"typesafe", "openrouter"} -> "jev"
                   [] OTHER -> "llm"

-------------------------------------------------------------------------------
Gone == [mode |-> "off"]
NoReply == [via |-> "none"]
Nothing == [nodes |-> <<>>, edges |-> <<>>, seen |-> {}]
FirstCall == [at |-> 1, attempt |-> 0]

TypeOK ==
  /\ setting \in Settings \cup {Gone}
  /\ extractor \in {"start", "jev", "llm", "none"}
  /\ json_mode \in BOOLEAN
  /\ \A n \in Elems(graph) : n.id \in (Events \cup {0}) \X Nat
  /\ \A e \in edges : {e.src, e.tgt} \subseteq IdsOf(graph)
  /\ waiting \subseteq Events
  /\ outcome \in [Events -> {"waiting", "taken", "extracted", "failed"}]
  /\ batch \in Seq(Events)
  /\ step \in {"idle", "judge", "relate", "ask", "commit"}
  /\ Elems(known) \subseteq Elems(graph)
  /\ call.at \in Nat \ {0} /\ call.attempt \in 0..2
  /\ metrics \in [{"batches", "errors", "calls", "billed"} -> Nat]

Init ==
  /\ setting \in Settings
  /\ extractor = "start"
  /\ json_mode = FALSE
  /\ graph = <<>>
  /\ edges = {}
  /\ waiting = Events
  /\ outcome = [e \in Events |-> "waiting"]
  /\ batch = <<>>
  /\ step = "idle"
  /\ known = <<>>
  /\ call = FirstCall
  /\ pairs = <<>>
  /\ found = Nothing
  /\ judged = {} /\ related = {}
  /\ reply = NoReply
  /\ metrics = [m \in {"batches", "errors", "calls", "billed"} |-> 0]

(* main reads the settings once, and never again.                           *)
Start ==
  /\ extractor = "start"
  /\ extractor' = Kind(Extractor(setting))
  /\ setting' = Gone
  /\ UNCHANGED <<json_mode, graphVars, batchVars, workVars, metrics>>

(* An agent adds a node; it shares every token.                             *)
AgentWrites ==
  LET written == {i \in DOMAIN graph : graph[i].event = 0}
      tokens  == UNION {s.tokens : s \in UNION {Elems(Said[e]) : e \in Events}}
  IN  /\ extractor # "start"
      /\ Cardinality(written) < AgentNodes
      /\ graph' = Append(graph, [id |-> <<0, Cardinality(written) + 1>>, event |-> 0,
                                 tokens |-> tokens])
      /\ UNCHANGED <<configVars, json_mode, edges, batchVars, workVars, metrics>>

(* Events with sentences that Jev judges, and events with enough words.     *)
Spoken == SelectSeq(batch, LAMBDA e : split_sentences(Said[e]) # <<>>)
Signal(e) == LET Words[i \in 0..Len(Said[e])] ==
                   IF i = 0 THEN 0 ELSE Words[i - 1] + Said[e][i].words
             IN  Words[Len(Said[e])] >= MinWords
Qualifying == {e \in Elems(batch) : Signal(e)}

Recent == SubSeq(graph, IF Len(graph) > RecentNodes THEN Len(graph) - RecentNodes + 1 ELSE 1,
                 Len(graph))

(* process_batch: the snapshot is taken before the first call.  Without an  *)
(* event that has signal the LLM is not called.                             *)
Take(events) ==
  /\ step = "idle"
  /\ extractor \in {"jev", "llm"}
  /\ Elems(events) \subseteq waiting
  /\ batch' = events
  /\ waiting' = waiting \ Elems(events)
  /\ outcome' = [e \in Events |-> IF e \in Elems(events) THEN "taken" ELSE outcome[e]]
  /\ known' = Recent
  /\ call' = FirstCall
  /\ pairs' = <<>> /\ found' = Nothing /\ judged' = {} /\ related' = {} /\ reply' = NoReply
  /\ step' = IF extractor = "jev" THEN "judge"
             ELSE IF \E e \in Elems(events) : Signal(e) THEN "ask" ELSE "commit"
  /\ UNCHANGED <<configVars, json_mode, graphVars, metrics>>

Batches == {b \in UNION {[1..n -> Events] : n \in 1..BatchEvents} : Cardinality(Elems(b)) = Len(b)}

Settle(how) ==
  /\ outcome' = [e \in Events |-> IF e \in Elems(batch) THEN how ELSE outcome[e]]
  /\ step' = "idle"
  /\ UNCHANGED <<configVars, waiting, batch, known>>

(* Mutant: the calls of a batch that failed are not shown.                  *)
FailUncounted ==
  /\ Settle("failed")
  /\ metrics' = [metrics EXCEPT !["errors"] = @ + 1]

(* The batch is lost: nothing of it reaches the graph.                      *)
Fail ==
  /\ Settle("failed")
  /\ metrics' = [metrics EXCEPT !["errors"] = @ + 1, !["calls"] = metrics["billed"]]

-------------------------------------------------------------------------------
(* Jev: extract_native_batch.                                               *)

Bill == metrics' = [metrics EXCEPT !["billed"] = @ + 1]

(* The answers to the sentences of the next event.                          *)
JevJudged(answers) ==
  LET event     == Spoken[call.at]
      sentences == split_sentences(Said[event])
  IN  /\ step = "judge"
      /\ call.at <= Len(Spoken)
      /\ DOMAIN answers = DOMAIN sentences
      /\ found' = [found EXCEPT
           !.nodes = @ \o build_native_nodes(event, sentences, answers, found.seen),
           !.seen = SeenAfter(sentences, answers, @)]
      /\ judged' = judged \cup {[event |-> event, at |-> i, sentence |-> sentences[i],
                                 answer |-> answers[i]] : i \in DOMAIN sentences}
      /\ call' = [at |-> call.at + 1, attempt |-> 0]
      /\ Bill
      /\ UNCHANGED <<configVars, json_mode, graphVars, batchVars, step, pairs, related, reply>>

(* All events are judged: the pairs to ask about, if any.                   *)
JevPairs ==
  /\ step = "judge"
  /\ call.at > Len(Spoken)
  /\ pairs' = candidate_pairs(found.nodes, known)
  /\ step' = IF pairs' = <<>> THEN "commit" ELSE "relate"
  /\ call' = FirstCall
  /\ UNCHANGED <<configVars, json_mode, graphVars, batchVars, found, judged, related, reply, metrics>>

(* The answers to one chunk of pairs.                                       *)
JevRelated(answers) ==
  LET chunk == ChunkAt(pairs, call.at)
  IN  /\ step = "relate"
      /\ DOMAIN answers = DOMAIN chunk
      /\ found' = [found EXCEPT !.edges = EdgesAfter(@, chunk, answers)]
      /\ related' = related \cup {[pair |-> chunk[k], answer |-> answers[k]] : k \in DOMAIN chunk}
      /\ call' = [at |-> call.at + EdgeChunk, attempt |-> 0]
      /\ step' = IF call.at + EdgeChunk > Len(pairs) THEN "commit" ELSE "relate"
      /\ Bill
      /\ UNCHANGED <<configVars, json_mode, graphVars, batchVars, pairs, judged, reply>>

JevCalling == (step = "judge" /\ call.at <= Len(Spoken)) \/ step = "relate"

(* Mutant: every failed call is tried again.                                *)
JevRetryForEver ==
  /\ JevCalling
  /\ call' = [call EXCEPT !.attempt = (@ + 1) % 3]
  /\ UNCHANGED <<configVars, json_mode, graphVars, batchVars, step, pairs, found, judged,
                 related, reply, metrics>>

(* 429, 529, a server error or no response: three attempts in all.          *)
JevRetry ==
  /\ JevCalling
  /\ call.attempt < 2
  /\ call' = [call EXCEPT !.attempt = @ + 1]
  /\ UNCHANGED <<configVars, json_mode, graphVars, batchVars, step, pairs, found, judged,
                 related, reply, metrics>>

(* The third attempt fails, or another status or an unreadable response.    *)
JevFails ==
  /\ JevCalling
  /\ Fail
  /\ UNCHANGED <<json_mode, graphVars, call, pairs, found, judged, related, reply>>

-------------------------------------------------------------------------------
(* An LLM: extract_batch and call_api.                                      *)

(* 429 is tried three times.                                                *)
LlmRateLimited ==
  /\ step = "ask"
  /\ call.attempt < 2
  /\ call' = [call EXCEPT !.attempt = @ + 1]
  /\ UNCHANGED <<configVars, json_mode, graphVars, batchVars, step, pairs, found, judged,
                 related, reply, metrics>>

(* The call fails.  One in tool mode is repeated in JSON mode, and the      *)
(* client stays in that mode; one in JSON mode fails the batch.             *)
LlmFails ==
  /\ step = "ask"
  /\ json_mode' = TRUE
  /\ \/ ~json_mode
        /\ call' = FirstCall
        /\ UNCHANGED <<configVars, batchVars, step, metrics>>
     \/ json_mode
        /\ Fail
        /\ UNCHANGED call
  /\ UNCHANGED <<graphVars, pairs, found, judged, related, reply>>

(* The replies there are, in a tool call or as a text, and what the client  *)
(* reads in them.                                                           *)
Tool(v) == [via |-> "tool", said |-> v, value |-> v]
Written(v, how, k) == LET whole == Wrapped(v, how)
                          text  == CutAfter(whole, k)
                      IN  [via |-> "text", said |-> v, how |-> how, text |-> text,
                           cut |-> text # whole]
Replies == {Tool(v) : v \in Payloads}
           \cup {Written(v, how, k) : v \in Payloads, how \in Wrappings, k \in 0..MaxCut}
Read == [r \in Replies |-> parse_extraction_response(r)]

(* The LLM replies: one that cannot be parsed fails the batch.              *)
LlmReplies(said) ==
  /\ step = "ask"
  /\ reply' = said
  /\ \/ /\ Read[said] = {}
        /\ Fail
        /\ UNCHANGED found
     \/ \E v \in Read[said] :
          LET result == Together(PerEvent(validate(v, known, Qualifying), batch))
          IN  /\ found' = [nodes |-> result.nodes, edges |-> result.edges, seen |-> {}]
              /\ step' = "commit"
              /\ UNCHANGED <<configVars, batchVars, metrics>>
  /\ UNCHANGED <<json_mode, graphVars, call, pairs, judged, related>>

-------------------------------------------------------------------------------
(* commit_result: nodes the graph has stay where they are, an edge without  *)
(* its endpoints is refused.                                                *)
Commit ==
  LET new(i) == found.nodes[i].id \notin IdsOf(graph)
                /\ \A j \in 1..(i - 1) : found.nodes[j].id # found.nodes[i].id
      fresh  == SelectSeq([i \in DOMAIN found.nodes |-> i], new)
      after  == graph \o [i \in DOMAIN fresh |-> found.nodes[fresh[i]]]
  IN  /\ step = "commit"
      /\ graph' = after
      /\ edges' = edges \cup {e \in Elems(found.edges) : {e.src, e.tgt} \subseteq IdsOf(after)}
      /\ Settle("extracted")
      /\ metrics' = [metrics EXCEPT !["batches"] = @ + 1, !["calls"] = metrics["billed"]]
      /\ UNCHANGED <<json_mode, call, pairs, found, judged, related, reply>>

Answers(n, set) == [1..n -> set]

JevStep ==
  \/ /\ step = "judge" /\ call.at <= Len(Spoken)
     /\ \E a \in Answers(Len(split_sentences(Said[Spoken[call.at]])), Judgements) : JevJudged(a)
  \/ JevPairs
  \/ /\ step = "relate"
     /\ \E a \in Answers(Len(ChunkAt(pairs, call.at)), RelationAnswers) : JevRelated(a)
  \/ JevRetry
  \/ JevFails

LlmStep ==
  \/ LlmRateLimited
  \/ LlmFails
  \/ \E r \in Replies : LlmReplies(r)

WorkerStep == JevStep \/ LlmStep \/ Commit

(* Nothing is left to do.                                                   *)
Done == /\ step = "idle"
        /\ waiting = {} \/ extractor = "none"
        /\ UNCHANGED vars

Next == Start \/ AgentWrites \/ (\E b \in Batches : Take(b)) \/ WorkerStep \/ Done

(* Fairness: both clients give a call 120 seconds, so a call comes to an    *)
(* end, and tokio runs the worker; nobody has to send events.               *)
Spec == Init /\ [][Next]_vars /\ WF_vars(WorkerStep)

-------------------------------------------------------------------------------
(* Properties.                                                              *)

(* A batch that failed leaves nothing in the graph, and the counters tell   *)
(* what happened: the error counter moves when events are lost, the calls   *)
(* shown are those that were answered.                                      *)
FailedLeavesNothing ==
  /\ \A n \in Elems(graph) : n.event # 0 => outcome[n.event] \in {"extracted", "taken"}
  /\ metrics["errors"] = 0 <=> \A e \in Events : outcome[e] # "failed"
  /\ step = "idle" => metrics["calls"] = metrics["billed"]

(* The extractor has the key of its service, and with a key that the        *)
(* settings do not exclude there is an extractor.                           *)
HasKey(s, service) ==
  CASE service = "typesafe" -> s.typesafe [] service = "openrouter" -> s.openrouter
    [] service = "anthropic" -> s.anthropic [] service = "openai" -> s.openai
    [] OTHER -> TRUE
ExtractorHasKey ==
  extractor = "start" =>
    LET service == Extractor(setting)
    IN  /\ HasKey(setting, service)
        /\ setting.mode # "off" /\ setting.llm = "" /\ (setting.anthropic \/ setting.openai) =>
             service # "none"
        /\ setting.explicit = "unknown" => Kind(service) # "jev"

Inv == TypeOK /\ FailedLeavesNothing /\ ExtractorHasKey

(* When Jev's batch is committed, its nodes are the sentences judged worth  *)
(* keeping, one per text, and its edges are what was answered about each    *)
(* pair: no answer went to another sentence or pair, across events, filler  *)
(* sentences and chunks.  Every two nodes that share a word, one of them    *)
(* new, were asked about once.                                              *)
WorthKeeping == {j \in judged : Keeps(j.answer) /\ j.sentence.key # ""}
JudgedIsKept ==
  step = "commit" /\ extractor = "jev" =>
    LET new == Elems(found.nodes)
        all == new \cup Elems(known)
        asked(a, b) == {r \in related : {r.pair.earlier, r.pair.later} = {a, b}}
    IN  /\ \A n \in new : \E j \in WorthKeeping :
             j.event = n.event /\ n.id = <<j.event, j.at>> /\ n.tokens = j.sentence.tokens
        /\ \A j \in WorthKeeping : Cardinality({n \in new : \E k \in WorthKeeping :
             k.sentence.key = j.sentence.key /\ n.id = <<k.event, k.at>>}) = 1
        /\ \A a \in new, b \in all : a # b =>
             Cardinality(asked(a, b)) = IF Overlap(a, b) >= EdgeMinOverlap THEN 1 ELSE 0
        /\ Elems(found.edges) = {Edge(r.pair, r.answer) : r \in {x \in related : Relates(x.answer)}}
        /\ Len(found.edges) = Cardinality(Elems(found.edges))

(* What an LLM wrote down is kept: a reply that is whole is never thrown    *)
(* away, alone, in fences or after words.  (After a remark in brackets it   *)
(* is: the remark is taken for the JSON.)  When one is taken, the result    *)
(* has the complete nodes that name an event of the batch, and every        *)
(* complete and substantive edge between known or kept nodes.  An edge is   *)
(* given up only with all nodes.                                            *)
Arrived(name) == IF reply.via = "tool" THEN Elems(reply.said[name])
                 ELSE Elems(ItemsOf(reply.text, name))
Sound(e) == e.src # e.tgt /\ e.why \notin {"short", "restates"}
Whole(r) == DOMAIN r.said = Sections /\ (r.via = "text" => ~r.cut)
Remarked(r) == r.via = "text" /\ r.how.lead = "remark"
ReplyIsKept ==
  reply.via # "none" =>
    /\ Whole(reply) /\ ~Remarked(reply) => \A e \in Elems(batch) : outcome[e] # "failed"
    /\ step = "commit" =>
         LET kept == {n \in Arrived("nodes") : n.event \in Qualifying}
             ends == IdsOf(known) \cup {n.id : n \in kept}
             Plain(e) == [src |-> e.src, tgt |-> e.tgt, why |-> e.why]
         IN  /\ Elems(found.nodes) = kept
             /\ {Plain(e) : e \in {x \in Elems(found.edges) : {x.src, x.tgt} \subseteq ends}}
                = IF kept = {} THEN {}
                  ELSE {Plain(e) : e \in {x \in Arrived("edges") : Sound(x) /\ {x.src, x.tgt} \subseteq ends}}

(* Every batch comes to an end, whatever the service does.                  *)
BatchEnds == step # "idle" ~> step = "idle"

(* provider.rs promises to salvage the complete leading elements of a text  *)
(* that was cut off: a batch whose reply, written as it was asked for, has  *)
(* such an element is not lost.                                             *)
SalvagesTruncated ==
  /\ reply.via = "text"
  /\ reply.cut
  /\ reply.how = [lead |-> "none", fenced |-> FALSE, trail |-> FALSE]
  /\ Arrived("nodes") # {}
  => \A e \in Elems(batch) : outcome[e] # "failed"
===============================================================================
