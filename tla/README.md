# armin in TLA+

A verification development for [armin](../src/README.md): an engine that listens
to a coding agent, extracts rules, decisions and open items from what it says,
keeps them in a persistent knowledge graph, and tells the agent what is still
owed ("debt"). The modules here are translated from the source, each definition
from the lines that `PROJECT.json` gives for it under `map`.

To check a run: `tlc -config MCGraphStore.cfg MCGraphStore.tla`. To check the
proofs about a module `M`: `tlapm MProofs.tla`, or `tlapm PeripheryProofs.tla`
for `Sidecar`, `LegacyServer` and `Communities`; section 4 lists them.

## 1. The system

Paths are relative to the repository. "State" is what outlives a call.

| Component | State | Operations | Talks to |
|---|---|---|---|
| **Graph store** `armin-core/graph/src/store.rs` | the petgraph, `id_to_node`, `id_to_edge`, `node_order`, `session_order`, BM25 index, all behind one `RwLock` | `new_persistent`, `add_node`, `add_edge`, `invalidate_node`, `resolve_question`, `register_session`, queries, `flush` | sled, by write-through |
| **Persistence** `persistence.rs` | sled trees `nodes`, `edges`, `order`, and the `node_order` blob of older versions | `open`, `load_*` (with a migration), `store_*`, `append_node_order`, `flush` | the disk |
| **Debt, decisions, risks, summary, diff** `graph/src/*.rs` | none: functions of a snapshot and the scratch items | `compute_*` | graph, scratch |
| **Communities, retrieval** `graph/src/communities.rs`, `retrieval/` | none, and an embedding index that is built once | `detect_communities`, `find_relevant_nodes` | graph, an embedder |
| **Ingest and worker** `engine/src/routes.rs`, `worker.rs` | the bounded channel, the worker's batch, counters | `POST /ingest`, batching, extraction, commit, linking | channel, extractor, graph |
| **Session registry** `engine/src/state.rs` | the session list, the current index, the current id | `register_session` | graph |
| **Scratch** `engine/src/toolclass.rs` | per session two ring buffers (edits, checks), sessions in LRU order | `record_tool_event`, `snapshot` | debt, brief |
| **Agent routes** `engine/src/routes.rs`, `import.rs` | `prior_debt` | decision, question, invalidate, resolve, debt, summary, import | graph |
| **Engine process** `engine/src/main.rs` | tokio tasks | start, idle-exit, graceful shutdown, drain, flush | all of the engine |
| **Extractors** `extraction/src` | `json_mode` of the LLM client, counters of Jev | one LLM call per batch, or Jev's many small calls; reading, salvaging and validating replies | LLM services |
| **Hook** `hook/src` | `engine.json` with a lock file, `session-<id>.json` without one, a `pinned-failed` marker | one short process per Claude Code event: ensure the engine, capture the transcript, give the brief | engine, by HTTP and signals |
| **OpenCode plugin** `.opencode/plugins/armin.ts` | the sidecar process handle, port, restart budget; per-session maps | `start`, `ensure`, `dispose`, push, compaction context | engine |
| **Legacy server** `server/src` | its own graph, a window of recent events, the running summary, a broadcast channel | a pipeline of stages per event; writes over HTTP and MCP; WebSocket clients; queries | graph, extraction, grounding |
| **Others** | | grounding scores, HTTP auth, npm launcher, frontend, scripts | |

How they interact: hooks and the plugin post the agent's messages to `/ingest`;
handlers put prose into the channel and tool calls into the scratch layer; the
worker batches, waits for the extractor, adds nodes and edges, and then asks an
LLM whether a new node answers an open question; debt and the brief join the
graph with the scratch layer; the store writes every change through to sled.

### What is hard

- *Failing and partial writes, crashes.* A node, its order entry and its edges
  are separate sled writes; an error is logged and skipped; sled makes them
  durable in its own time. Old databases are migrated while they are opened.
- *Locks that are let go in the middle of a call*: `resolve_question`,
  `GraphStore::register_session`, `EngineState::register_session`, the linker
  (which waits for an LLM in between).
- *Handlers, worker and shutdown run concurrently*: full queues, counters bumped
  after the fact, clients that go away, a channel that closes while a batch is
  being filled, a drain that times out.
- *Processes without a common lock*: two hooks of one session, an old and a new
  engine on one database; calls of the sidecar that meet at an await.
- *Answers of a service*: late, missing, cut off, in the wrong form, or naming
  things that do not exist; matched by position to what was asked.
- *Tasks of the legacy server* that share window, summary, graph and channel and
  hold no lock across an await.
- *Bounded buffers*: the channel, the batch, ring buffers, an LRU, a broadcast.

`PROJECT.json` lists these one by one under `hazards`, at their lines, with the
properties that cover them.

### What makes each component correct

- Graph store: edges have both ends; the order and the session list agree with
  the nodes; an invalidated node stays invalidated; what was checked before a
  lock was let go still holds after; a restart gives back what was served.
- Pipeline: every accepted event is dealt with once, in order; limits are kept;
  a drain loses nothing; no event and no shutdown waits for ever.
- Session registry: the current index is the rank of a session just registered.
- Scratch: a file with an edit newer than its last passing check is reported as
  unverified while its session is kept; debt only reports what exists.
- Linker: only an item that is still active and open gets a `Resolves` edge.
- Hook: no text is skipped or sent twice except where a call is lost; at most
  one engine owns a database; a crash of a hook does not block the next one.
- Extractors: what was judged or written arrives, with the right node and event;
  what was made up does not; a batch fails as a whole, and every batch ends.
- Communities: every move is a gain, and the detection stops by itself.
- Plugin: every call returns; dispose leaves no engine behind.
- Legacy server: every event is announced whichever stage fails, and what is
  announced is stored.

## 2. The modules

| Module | Of | What it is |
|---|---|---|
| `GraphContract` | | abstract: the life of each node (absent, active, invalidated) and the floor a crash cannot take it below |
| `GraphStore` | `store.rs`, `persistence.rs` | the store in front of sled, opening, migration, failing writes, crashes |
| `ExtractionContract` | | abstract: a waiting line of events; each leaves from the front, once, with one fate |
| `IngestPipeline` | `routes.rs`, `worker.rs`, `main.rs` | handlers, channel, worker, shutdown |
| `HookDaemon` | `hook/src/daemon.rs` | the engine daemon of a project, kept by hook processes |
| `HookSession` | `hook/src/main.rs`, `daemon.rs`, `transcript.rs` | what the hooks of one session keep between them |
| `Scratch` | `toolclass.rs`, `debt.rs` | ring buffers and LRU of tool calls; the debt detectors that read them |
| `Knowledge` | `routes.rs`, `import.rs`, `worker.rs`, `client.rs`, `decisions.rs`, `risks.rs`, `brief.rs` | who changes decisions and open items, the linker, and what is told of them |
| `EngineState` | `state.rs`, `debt.rs`, `risks.rs`, `summary.rs` | the current session, and the reports that depend on it |
| `LlmReply` | `provider.rs`, `client.rs` | operators: an LLM's reply from its text to the validated result of each event |
| `JevJudging` | `jev.rs` | operators: sentences, nodes, pairs and edges from Jev's answers |
| `Extraction` | `worker.rs`, `client.rs`, `jev.rs`, `main.rs` | extends both: which extractor, batches, calls with retries, commit |
| `Communities` | `communities.rs` | Louvain, move by move |
| `Sidecar` | `armin.ts` | the plugin's engine: start, ensure, dispose |
| `LegacyServer` | `server/src`, `retrieval/` | pipeline of stages, agents' writes, broadcast, retrieval |
| `GraphStoreProofs`, `IngestPipelineProofs`, `HookDaemonProofs`, `HookSessionProofs`, `KnowledgeProofs`, `EngineStateProofs`, `ScratchProofs` | | theorems about the module of that name, and their proofs |
| `PeripheryProofs` | | the same for `Sidecar`, and for `LegacyServer` and `Communities` as instances `L` and `C` |
| `MCGraphStore`, `MCIngestPipeline`, `MCHookDaemon`, `MCHookSession`, `MCScratch`, `MCKnowledge`, `MCEngineState`, `MCExtraction`, `MCCommunities`, `MCSidecar`, `MCLegacyServer` | | instances for TLC |

`GraphStore` is the bottom: `Knowledge` and `EngineState` take from it that a
node never leaves a running engine's graph (`KeepsContract`) and that a restart
gives the graph back (`CleanRestart`), so that there a graph is a status per
node, an order and a set of edges. `IngestPipeline` takes an extraction as one
outcome; `Extraction` is what is inside that outcome, and `Knowledge` starts where
it is committed. An invariant called `Inv` is the conjunction of a module's type
invariant with its named safety invariants; `WellFormed` is the same of
`GraphStore` without the type invariant.

### `GraphStore`

| State | Code |
|---|---|
| `status`, `edges` | `id_to_node` with each node's status, `id_to_edge` |
| `node_order`, `session_order` | the fields of those names |
| `resolving`, `registering` | calls of `resolve_question` and `register_session` between their two locks |
| `phase`, `cursor` | where `new_persistent` is, or that it has returned |
| `sled` | the trees as the process reads them back |
| `disk` | the trees as of the last flush or start |
| `torn`, `before` | history: whether a write was lost, and what the last process served |

An id stands for the node or edge with all its immutable content, which the
constants `TypeOf`, `SessionOf` and `EdgeOf` give; only the status changes. The
text, and the BM25 index made from it, is left out. A mutation holds the write
lock for its whole body and is one action, with its writes to sled; each write
may fail, which the code logs and ignores. `resolve_question` and
`register_session` are two actions each. `new_persistent` is `Open`, then an
action per order entry, so that a crash may come in the middle: of the migration
too, which is why the next start may find an order tree that is not empty next
to a blob that is.

Choices:

- *sled* is external. Its guarantee is taken as: what was flushed stays; of the
  writes since then any combination survives a crash (`CrashImages`). sled's log
  is ordered, so this allows more than can happen, and what holds here holds
  there. sled also flushes by itself every half second: `Flush` is that too.
- A node may be given as invalidated by the caller (`POST /nodes`).
- `resolving` is a set: two equal calls in flight are one. Each adds its own
  edge in the code; `EdgeIds` bounds how many of those there are.
- `OrderKeys` bounds the keys of the order tree: `add_node` waits when none is
  left. Three keys for two nodes leave one for a gap.

### `IngestPipeline`

| State | Code |
|---|---|
| `request[c]`, `at[c]` | the rest of the request's events and the handler's place in the loop of `ingest` |
| `queue` | the channel of `INGEST_QUEUE_CAPACITY` |
| `worker`, `batch`, `added`, `closing` | where `worker::run` is, its batch, how far `commit_result` is, whether this is the last batch |
| `server`, `engine`, `timed_out` | `main`: serving, draining, closed; waited, flushed, ended |
| `metrics` | the counters the handlers and the worker bump |
| `scratch`, `graph`, `dropped`, `extracted`, `failed`, `lost`, `flushed` | where an event ends |

The steps of a handler are the code between two awaits or two shared accesses:
counting the event, `try_send`, bumping the counter that goes with the outcome.
A tool event is counted and then recorded. A client that goes away cancels the handler
at an await (`Disconnect`). The extractor's answer is an input: it succeeds or
fails for the batch. A successful batch gives one node per event, added one by
one, so that a flush can come in between.

Choices: `Deadline` may fire with events in the channel: `timeout_at` polls the
channel first, but tokio's budget can make a ready channel look pending, and the
timer is then found expired. The engine is only ended in an orderly
way; a kill is `GraphStore`'s subject. The words-per-event filter and the event
log are left out; the linker pass is in `Knowledge`.

### `HookDaemon`

| State | Code |
|---|---|
| `at[h]`, `holder`, `child[h]`, `told[h]` | where a hook is in `ensure` and `spawn_engine`, the flock on `.engine.lock`, the engine it reads the handshake of, and the port it read |
| `rec`, `failed` | `engine.json` (process id, port and version), the `pinned-failed` marker |
| `proc`, `port`, `printed` | processes by id: engines that start, have the database, serve, drain; or another program. The port each was given or has taken; the one in the handshake in the pipe |
| `port_taken`, `faults`, `abandoned` | the world: another program on the pinned port, faults so far; and whether a hook died or could not record its engine |

Each action is the code between two effects another process can see. The token is
left out: a hook has an engine's exactly if `engine.json` names the engine or the
hook started it. Everything between a hook and its lock is in the guards: a
killed hook loses the lock (the kernel drops a flock), its engine lives on
(`configure_detached`). An engine whose hook is gone before it prints the
handshake ends: `println!` panics on the closed pipe. One that printed in time
and was not recorded is a *stray*: it keeps the database until `--idle-exit`. Each
request sets back the clock of `--idle-exit`, refused ones too (`main.rs:277`,
`321`), and a stray gets some if it has the port that `engine.json` names
(`Squats`): it was started with `ARMIN_PORT` after the recorded engine on that port
had ended, or the system gave it the same port.

Choices: process ids are given again only to other programs while `engine.json`
names them (`PidReused`); a hook that then signals the program ends it. The idle
exit does not come while a hook waits for the handshake: the default is 30
minutes, the wait is some seconds. How long nobody asked an engine anything is no
state but in the fairness, section 3. `Spawn` picks a free id by `CHOOSE`, as which
it is makes no difference, and waits if there is none (three suffice for a
draining engine, a stray and a new one).

### `HookSession`

| State | Code |
|---|---|
| `file` | `session-<sid>.json`: cursor, `recent_files`, `brief_hash`; or `Garbled`, which reads as the default |
| `length`, `partial`, `replaced` | the transcript: complete lines, a half-written one, whether it was replaced |
| `brief` | what the engine would give as the brief |
| `at[h]`, `session[h]`, `tail` | a hook between its read and its write, its copy, the texts still to send |
| `sent`, `touched`, `shown`, `disturbed` | history |

A read is one step and a write two, as `std::fs::write` truncates first; a
second write over a longer text may leave its end behind, which does not parse.
`SessionStart` and `UserPromptSubmit` block the turn (`hooks.json`), so that one
process, `Turn`, stands for them; `PostToolUse` is async and runs beside them.
Byte offsets are line numbers, the hash of a brief is the brief. The two loops,
over the lines of the transcript (`read_lines`) and over the recent files
(`retain`), are recursive functions, so that they can be proved about.

Choice: no tool call names a file twice (`Touches`). `extract_files` drops a name
only next to itself; no tool of the host gives one in two places.

### `Scratch`

| State | Code |
|---|---|
| `scratch[s]` | the `edits` and `checks` of session s in `ScratchInner.sessions`; both empty if it is not in there |
| `lru` | `ScratchInner.lru` |
| `log` | history: the tool calls since the engine started |

One action, `record_tool_event`, since every call holds the write lock; and
`Restart`, as the scratch layer is never persisted. A call comes classified: the
word lists of `classify` and `check_passed` are left out, and so are calls of
class Read, which change nothing. Timestamps come from the clients, in any order
and, from the hooks, in whole seconds. The detectors are operators over a
snapshot, with the conditions of `compute_debt`; its first one, unresolved open
items, is `unresolved_items` of `GraphStore`. The properties speak of positions in
the log: `Calls` are the calls of a session and class that are not `Forgotten`,
`Window` the last `MaxEntries` of them.

### `Knowledge`

| State | Code |
|---|---|
| `status`, `node_order`, `edges` | the graph: each node's status, the order, the edges without their ids |
| `recording` | calls of `agent_decision` that have added their node, with the ids still to resolve |
| `worker` | `commit_result` and `link_resolutions`: what is left to add, the items shown to the LLM, the links to add |
| `cut_off` | history: decisions whose client went away |

A route is one action if it holds the lock once, and `agent_decision`, the
worker's commit and the linker are an action per call they make of the store,
with any other calls in between. The LLM proposes any edges at all (`Proposals`);
it may also fail, which stands for an engine without linker, too. An import or a
`POST /extraction` is a sequence of `post_node` and `post_edge`: it keeps nothing
between them. The states of decisions, their order, the decisions in the brief
and the three searches are operators. The two breadth-first loops over a queue
are one function, `Search`, with a round of the loop in `Visit`. A sorted list is
the members by rank (`Listed`): the n-th has n - 1 before it.

Choices: ids stand for labels, so that two decisions with one label, of which the
brief shows one, do not come up. Parallel edges are one edge. `Rule` nodes have
no state of their own and are left out.

### `EngineState`

| State | Code |
|---|---|
| `raised`, `settled`, `session_order` | the graph: open items in order, those resolved or invalidated, its list of sessions |
| `sessions`, `current_session_idx`, `current_session_id`, `prior_debt` | the fields of `EngineState` |
| `registering[h]` | where an ingest is in `register_session` |
| `reporting[r]` | where a `GET /debt` is |
| `scratch` | the debt items that come from tool calls, any at any time |
| `recent` | history: sessions registered since no registration was under way |

`register_session` is four steps (own list, graph's list, index, id), and its
client may go away at either lock it waits for. `Restart` gives the graph back and sets
the rest to its initial values; `session_order` is built again from the nodes in
their order (`store.rs:133`), so that sessions may change places: one that
registered first and added its first node later comes later (`sessions_of`, a
recursive function over the nodes).

### `Extraction`, with `LlmReply` and `JevJudging`

| State | Code |
|---|---|
| `setting`, `extractor` | the environment `main` reads once, and what it builds from it |
| `json_mode` | the flag of `ExtractionClient` |
| `waiting`, `outcome`, `batch`, `step` | events, what became of them, the batch and where `process_batch` is in it |
| `known` | the snapshot `recent_snapshot` gave before the first call |
| `call` | event or chunk of pairs that is asked about, and the attempt |
| `pairs`, `found`, `reply` | `candidate_pairs`, nodes and edges so far, the LLM's reply |
| `judged`, `related` | history: which answer was given to which sentence and pair |
| `graph`, `edges`, `metrics` | the store, as an order and a set; the counters |

The service is external: to a sentence or a pair it answers anything of a small
set, and it may fail, in a way that is retried or not. An LLM's reply is a
sequence of tokens: brackets, an item (a whole flat object), the name of a list, a word, a fence. That
is what `strip_json_fences` and the salvage of `try_parse_extraction_json` tell
apart: they balance and close brackets. It may be wrapped in words and fences
and cut after any token. `serde` is external: `FromStr` takes exactly the whole
values, `FromValue` needs both lists. Texts are keys (for the deduplication) and
sets of tokens (for overlap); probabilities are percents. A commit is one step,
as the store never forgets a node. Bounds: chunks of 2 pairs (15 in the code),
snapshots of 3 nodes (50), 2 events to a batch; `SalvageTries` is the 50 of the
code.

### `Communities`

| State | Code |
|---|---|
| `graph`, `adj`, `degree` | the edges; the undirected weights made of them; their sums |
| `community`, `sum_tot`, `sum_in` | the vectors of those names |
| `at`, `improved`, `iteration` | the two loops |
| `report` | the result |

One action per node's turn. The `HashMap` of candidates has no order, so that of
equal gains any wins. The code's weights are tenths: they are ten times as large
here, and gains and modularity are multiplied by powers of 2m, so that all is
integer. The rounding of `f64` is left out; that it cannot keep the loop going is
what the limit of 100 rounds is for, which `EndsSettled` shows is not needed
otherwise.

### `Sidecar`

| State | Code |
|---|---|
| `pc`, `asked`, `mine`, `polls` | each call: its await, the port of the request that is under way, the engine it spawned, health checks so far |
| `starts`, `disposed`, `proc`, `port`, `pinnedPortFailed` | the fields |
| `killing`, `loaded` | the half second between the signals of `dispose`; what `startArmin` made of the first start |
| `engine`, `listens`, `pinned` | the engines (external): life, announced port, which were given the pinned port |
| `overlapped` | history: two calls, or a call and `dispose`, met |

JavaScript changes over at an await only, so a step goes from one to the next.
What comes before an await reads the fields then; what comes after reads them
again, by then changed by others: `ensure` kills `proc`, which may be another
call's engine. An engine announces a port when it has the store, which one
process at a time can open, may crash, hang, or be slow at any time, and drains
when it is told to stop. Bounds: `MaxRestarts` is the 3 of the code, `MaxPolls` 2
(50).

### `LegacyServer`

| State | Code |
|---|---|
| `lines[p]`, `stage[p]`, `ctx[p]` | the stream runner and each `POST /ingest`: events to come, await, `PipelineContext` |
| `event_log`, `compressed_summary`, `batch_counter` | the fields of `AppState` and of the compression stage |
| `nodes`, `edges`, `invalid` | the graph |
| `agent` | a write of an agent between its calls of the store |
| `sent`, `client` | all that was broadcast; where each receiver is in it |
| `index`, `rebuild_on_query`, `asker` | the embedding retriever and a question |
| `load` | the settings and all that will be asked of the server |
| `batches`, `raced` | history: batches summarised, two compressions at once |

A summary is the sequence of the batches it was made of. Each write of an agent
is a step per call of the store, and one is under way at a time (they share
nothing but the graph, which only grows). MCP writes announce nothing. Any
ranking of a retriever is allowed. The debt and community reports are a flag of
the message; the community stage's `RECOMPUTE_INTERVAL` is left out. `Extract` has
batches of one event: at most one node and one edge, which may join nodes of the
snapshot, the new one, and *dropped* ones, which the reply gave no event of the
batch (`Dropped`): `validate` lets an edge through if its ends are in the reply, and
drops nodes in between. Every node has an id of its own, as the prompt asks
(`prompt.rs:110`). Bounds: a
window of 2 events (20), a channel of 1 message (1024), 1 node found (5).

## 3. The runs

| Run | Bounds | Question |
|---|---|---|
| `graph_store` | 2 nodes in 2 sessions, 2 edges (one `Resolves`, one other), 3 order keys, a database that is empty or has a blob of both nodes | Does the graph survive failing writes, crashes, restarts and the migration with calls racing; does it implement `GraphContract`? |
| `ingest_pipeline` | 3 prose events, 1 tool event, 2 requests of up to 2 events, a channel of 1, batches of 2 | Is every accepted event dealt with once, in order, within limits, and do events and the shutdown make progress? |
| `hook_daemon` | hooks of 2 plugin versions, one with a pinned port, 2 ports, 3 process ids, 2 faults | Is there one engine per project, and do hooks get one again whatever went wrong? |
| `hook_session` | prompts, 2 tool hooks, a transcript of 2 lines of prose, 1 text per read, 2 recent files, 1 brief, 1 fault | What survives of the cursor and the recent files without a lock? |
| `scratch` | 3 sessions of which 2 are kept, 2 files, rings of 2, timestamps 1 to 3 in any order, logs of 5 calls | What do rings and eviction keep, and what do the detectors make of it? |
| `knowledge` | 1 open item, 2 decisions, 4 edges that agents post, 2 that the LLM proposes, a batch of two nodes, a list with an unknown id, 1 item shown to the LLM, 1 decision in the brief | Does what is answered stay answered, do decisions advance, and are the searches right on every graph that comes about? |
| `engine_state` | 2 ingests at once (symmetric), 2 sessions, 1 open item of each, 1 scratch item, 1 report | Is the current index one that fits, and are age and delta right? |
| `extraction` | 2 events of 3 and 2 sentences, all settings that differ, 3 judgements, 3 relations, chunks of 2 pairs, 1 agent's node, replies of up to 3 nodes and 4 edges in 6 wrappings, cut anywhere | Does what was judged or written arrive, under the right node and event, and does every batch end? |
| `communities` | all graphs of 4 nodes with 4 kinds of pairs (4096), and 4 of 6 nodes | Does every move gain, do the sums agree, does it stop by itself where no move improves? |
| `sidecar` | 2 handlers, 3 starts, 2 health checks to a start, a pinned port | Do all calls and `dispose` come to their end, and is the known engine the one there is? |
| `legacy_server` | a stream of 1 beside a POST, and a stream of 2 with a line that does not parse, with compression and search; a stream of 4 with compression of pairs; 1 event, 2 writes and a slow client; 2 events and 2 questions for each retriever | Does every event come out, is what is announced stored, is a node found? |
| `truncated_reply` | as `extraction` | Is what arrived of a truncated reply salvaged? No, see section 5. |

Why the bounds are enough: two nodes give both an edge with two different ends
of which a crash loses one, and an order of which a crash loses the first or the
second entry; two sessions race and are ranked; the order tree has room for a
gap. A blob of two entries can be cut short between them. The proofs take the
bounds away. In the pipeline, one event fills the channel, so that the next is
refused; two fill a batch; three leave one behind a full batch, in the channel
or in a batch the shutdown cuts short; two requests race for the channel. Two hooks
contend for the lock and differ in all that `ensure` looks at; a fault may hit
the recovery from another (a killed hook leaves a stray, and the next one's
handshake times out). One text per read leaves the second line for the next; two
tool hooks overlap with each other and with a prompt; a ring of two is full
after one call. Five calls overflow a ring of two and still leave two for an
edit between checks, or evict a session and let it come back; three timestamps
have an earlier, an equal and a later one. In `knowledge` one decision may be
supported, refuted and superseded by the other and resolved by either, and there
are paths of three steps and cycles for the searches; the open item is shown to
the linker while a decision that lists it is half recorded. In `extraction` two
events share a sentence in other case, have one that is not judged in between,
and give five pairs at most: a first, a full and a short chunk; a reply is cut
in every place, and names events, and relates nodes, that are not there. In
`communities` four nodes are the smallest number on which moves undo each
other's gain, and six have two clusters with a bridge. In `sidecar` two calls
are enough to kill each other's engine and three starts to use up the budget. In
`legacy_server` a window of two is full after two events and is summarised
again; one message is kept, so that a second puts a client behind. In
`engine_state` two sessions can come in either order from ingests, items and
restarts.

What each property says:

`graph_store`
- `WellFormed`: every edge in memory joins two nodes in memory, also while a
  database that lost part of its writes is loaded (`EdgesHaveEndpoints`); unless a
  write was lost, the insertion order lists the nodes, each once
  (`OrderListsNodesOnce`), each node's session has exactly one rank
  (`SessionsRanked`), and the linker is offered exactly the open items that debt
  reports (`OpenItemsOffered`).
- `ResolveChecksHold`: a call past the check of `resolve_question` still finds
  both its nodes.
- `SledMirrorsGraph`, `CleanRestart`: unless a write was lost sled holds what the
  engine holds, and the next start gives it back, order included.
- `KeepsContract`: `GraphStore` implements `GraphContract` under `life <- Life,
  floor <- disk.nodes`: no node is revived or removed while the engine runs; a
  crash takes it no further back than the floor.

`ingest_pipeline`
- `Inv`: `EventsAddUp`, the `queued` counter equals the events in line, extracted,
  failed and lost, at every moment; `WithinLimits`, the channel keeps its capacity
  and a batch its limit, or two if the limit is one.
- `NothingLostInDrain`: an orderly end without a drain timeout.
- `KeepsLine`: `IngestPipeline` implements `ExtractionContract`.
- `EveryEventLeaves`, `ShutdownEnds`: liveness.

`hook_daemon`
- `Inv` (`OneDaemon`, `EnginesKnown`): while no hook was killed half way, at most one
  engine starts or serves, and hooks know it. (With a killed hook there may be a
  stray; sled's lock then keeps the second engine out.)
- `EnsureReturns`: a hook is served or gives up; it never waits for ever.
- `StrayLeaves`: a stray ends, unless hooks come for ever whose probes reach it.
- `HooksGetEngine`: if hooks keep coming, one is served again and again, or a stray
  has the port that `engine.json` names, and keeps it: see section 5.

`hook_session`
- `Inv`: `NothingSkipped`, the cursor in the file is never ahead of what was sent, in
  whatever order hooks overwrite each other.
  And as long as hooks follow one another, no text is sent twice (`SentOnce`) and
  the recent files are the last ones (`RecentFilesAreRecent`).
- `BriefOnlyWhenChanged`: as long as hooks follow one another, a prompt does not
  inject what was injected last, whether by a prompt or at a start.
- `EveryTextSent`: with prompts coming, all prose is sent in the end.

`scratch`
- `Inv` (`ScratchIsWindow`): a session's rings hold its last edits and its last checks,
  in order, since it was last idle while as many others were active as are kept;
  it loses nothing else, and gets nothing back.
- `UnverifiedIsUnchecked`: with growing timestamps, a kept edit is reported exactly
  if no kept check of one of its files was recorded after it. Within one second a
  check before the edit counts, too: see section 5.
- `FailuresAreCurrent`: with growing timestamps, a failure is reported exactly
  if its check is the last one of a file and no later edit touched its files;
  on a file of a rule, it is reported against the rule too.

`knowledge`
- `NothingReverts`: an open item that was answered or invalidated is never owed
  again, whoever adds it again; a superseded decision stays so, and no edge makes a
  validated one blocked or pending again.
- `Inv`, of three parts.
  `LinksJoinKnown`: whatever the LLM says, the worker links open items of the
  graph to nodes of its batch.
  `ReachIsByPaths`: the impact of a risk, the work a decision blocks and the
  graph around a node are what paths of the given length lead to.
  `BriefShowsDecided`: the brief shows active decisions, each once, and leaves no
  room unused; it leaves no decided decision out for a pending or an older one.
- `ListedGetResolved` (liveness): an open item that a decision lists is resolved
  by it, unknown ids on the list or not, unless the client goes away.

`engine_state`
- `Inv` (`IndexIsRecent`): the current index and id are of sessions that were registered
  since no registration was under way: of the same one, if none overlapped.
- `OlderIsNotMilder`: an item of an earlier session is never reported as less
  severe, nor as more recent, than one of a later session.
- `ResolvedIsSettled`: an open item counted as resolved in a summary is.

`extraction`
- `Inv`: a batch that failed leaves nothing in the graph, and the counters say
  what happened (`FailedLeavesNothing`); the extractor has the key of its service,
  and there is one if the settings allow (`ExtractorHasKey`).
- `JudgedIsKept`: Jev's nodes are the sentences judged worth keeping, one per
  text; its edges are what was answered about each pair, and all pairs with a
  common word were asked about once: no answer shifts to another sentence or
  pair, across filler, events and chunks.
- `ReplyIsKept`: a whole reply is never thrown away, alone, in fences or after words
  (without brackets or quotation marks); a reply that is taken gives exactly its
  nodes of the batch and its sound edges. After a remark in brackets a whole reply is
  lost: see section 5.
- `BatchEnds` (liveness).

`communities`
- `Inv`: the running sums are those of the communities, communities do not reach
  across unconnected parts, and the report fits what was found.
- `ModularityGrows`: every move makes the modularity, computed anew, greater.
- `EndsSettled` (liveness): it ends before the limit, where no move improves.

`sidecar`
- `Inv`: while calls do not meet, an engine that was not told to stop is the one
  `dispose` would stop.
- `EnsureReturns`, `DisposeEnds` (liveness): calls return, and `dispose` leaves no
  engine unless it met a call, or calls have met.

`legacy_server`
- `Inv`: what is announced is in the graph, but for edges one of whose ends is not
  (`AnnouncedIsStored`); while no two compressions meet, the summary has every batch
  in order (`SummaryKeeps`); a question about a graph with nodes finds one, whatever
  the LLM, the embedder and the index say (`SeedsFound`).
- `EveryEventLeaves` (liveness): whatever stage fails, the event is announced.
- `NewestArrives` (liveness): a client that stays gets the newest message.

Every property has a mutant in `PROJECT.json`: a plausible bug in one of the
definitions (they stand before it, marked *Mutant*) which makes TLC find the
property violated.

**Fairness.** `GraphStore` has none: its properties are safety. In
`IngestPipeline` weak fairness is on each handler, the worker and `main`: tokio
polls every ready task; the debounce window and the drain timeout are timers; an
extractor call ends because each HTTP request has a timeout and the retries are
bounded. Nothing is assumed of clients, and no fairness makes a shutdown happen.
Weak fairness of the worker as a whole is enough since the worker is
sequential, and no strong fairness is used.

In `HookDaemon` a hook's own steps are weakly fair: its waits have timeouts. An
engine that starts or drains goes on (the drain has a timeout), and another
program with a reused id ends at some time. A waiting hook gets the lock if it
is free again and again (strong fairness): the kernel serves waiters of a flock
in turn. `IdleExit` is weakly fair only for a stray that gets no request any more:
that no hook probes, and while no hook uses the endpoint `ensure` gave it, which may
be the stray's port by then. Others that call the port for ever, an open user
interface or the hooks of another project with the same `ARMIN_PORT`, are presumed
away. In `HookSession` a running hook goes on. Nothing makes hooks
start; `HooksGetEngine` and `EveryTextSent` say so as a premise.

In `Knowledge` each call of `agent_decision` goes on (weak fairness): tokio polls
its handler. `Scratch` and `EngineState` have no fairness.

In `Extraction` the worker goes on: both clients give a call 120 seconds and have
a limit on retries. `Communities` is one loop. In `Sidecar` timers and the
timeouts of `fetch` fire, and a drain ends; no engine has to start, recover or
crash. In `LegacyServer` the tasks go on, and the LLM client has a timeout, but
the client of the evidence search has none: its step has no fairness, and
`EveryEventLeaves` has as a premise that a search returns.

Deadlock is checked everywhere but in `legacy_server`, where the stream ends and
nobody has to call: an engine can always be restarted, a store that
is down can be opened again, the pipeline stops only in `Ended`, and hooks can
always start.

## 4. The proofs

Each module `MProofs` proves theorems about the specification of `M`, for every
value of its constants that satisfies the assumption in `M`. (The assumption of an
instance is no fact to the prover: for `LegacyServer` and `Communities` it is a
premise of the theorem.) A theorem `Invariance` says that the inductive invariant holds (`GraphStoreProofs` has
several, named below); the others follow from it.

| Module | Theorem | States |
|---|---|---|
| `GraphStoreProofs` | `TypeCorrect`, `EdgesAlwaysHaveEndpoints`, `ResolveChecksAlwaysHold` | `[]TypeOK`, `[]EdgesHaveEndpoints`, `[]ResolveChecksHold` |
| | `ContractKept` | `KeepsContract`: the store implements `GraphContract` |
| | `SledAlwaysMirrorsGraph`, `OrderAlwaysListsNodesOnce`, `SessionsAlwaysRanked`, `RestartIsClean` | the four properties of restarts |
| | `AlwaysWellFormed` | `[]WellFormed` |
| `IngestPipelineProofs` | `EventsAlwaysAddUp`, `DrainLosesNothing` | `[]Inv`, `[]NothingLostInDrain` |
| | `PipelineKeepsLine` | `KeepsLine`: the pipeline implements `ExtractionContract` |
| `HookDaemonProofs` | `OneKnownDaemon` | `[]Inv` |
| `HookSessionProofs` | `SharedFileIsGood`, `NoBriefTwice` | `[]Inv`, `BriefOnlyWhenChanged` |
| `EngineStateProofs` | `CurrentIsRecent`, `ResolvedAreSettled`, `OlderAreNotMilder` | `[]Inv`, `[]ResolvedIsSettled`, `[]OlderIsNotMilder` |
| `PeripheryProofs` | `EnginesAreKnown` | `[]Inv` of `Sidecar` |
| | `AnnouncedIsThere` | `[]L!Inv`: `Inv` of `LegacyServer` |
| | `SumsStayRight`, `MovesAlwaysGain` | `[]C!Inv`, `C!ModularityGrows`: `Inv` and `ModularityGrows` of `Communities` |
| `KnowledgeProofs` | `LinksAreKnown`, `NothingIsUndone`, `ToldIsRight` | `[]LinksJoinKnown`, `NothingReverts`, `[]Inv` |
| `ScratchProofs` | `ScratchIsAlwaysWindow`, `UnverifiedAreUnchecked`, `FailuresAreAlwaysCurrent` | `[]Inv`, `[]UnverifiedIsUnchecked`, `[]FailuresAreCurrent` |

What is assumed of the constants is in each module's `ASSUME`: mostly that
bounds are positive and that sets do not overlap. Five are worth a word.
`ContentAssumption`: a blob lists no id twice. `PipelineAssumption`: there are
finitely many clients, as a counter cannot count others. `ServerAssumption`: a node
that validation drops has the id of no other node. `DaemonAssumption` and
`SessionAssumption`: the value for "no `engine.json`" is no record and the value
for "does not parse" no session. `SessionAssumption`: no call names a file twice.

None of the invariants is inductive as it stands. What each one needs:

*`GraphStore`.* While the database is being loaded nothing is said of
`node_order`, yet what has been read so far decides what the engine will serve.
`RestartInv` says, of each phase, how memory, `sled` and `before` relate: *down*,
sled holds `before`, in the tree or in the blob; *loading*, `node_order` is the
part of `before` up to `cursor`; *migrating*, the same of the blob, and the tree
holds that part; *up*, sled mirrors memory, and the order tree is dense, so that
`IsNextKey` picks its length. `StructureInv` keeps the parts that hold whatever
was lost, and `AtRest` what is empty outside of its phase. The refinement needs
that `disk` never runs ahead of `sled`. For `WellFormed`: when the order lists all
nodes, walking it finds the open items that walking the graph finds.

*`IngestPipeline`.* The counter adds up because an event is in at most one
place, and that has to be known of the events still in a request, which are about
to be placed. The invariant comes in layers: types and control states
(`Stages`), then where events are (`Places`: no event in two requests, none placed
that a handler has yet to place, none in two places), then the count. That
nothing is lost in a drain is control: `ShutdownOK` says what is empty by
then. The refinement maps each action to a step of the contract or a stutter.

*`HookDaemon`.* A hook may start an engine because by then whatever `engine.json`
names no longer serves and nobody else waits for one. The invariant says what the
lock gives its holder at each place of `ensure` (`LockOK`), that a handshake comes
from an engine past its start to a hook that waits (`HandshakeOK`), and what a
holder has found out about the recorded engine (`RecordOK`).

*`HookSession`.* One half holds however hooks overlap: no hook's copy is ahead of
what was sent, Turn's only by what it has in hand (`CopiesNotAhead`), since any of
them may be written over the file. The other half holds until hooks overlap:
exactly one copy is up to date, the one of the hook that runs or, if none does,
the file (`OneCurrent`), and what Turn has in hand is unsent (`TailUnsent`, with
`CursorsOK`). The ring of a call after the ring before it is the ring of both
(`RingIsLatest`): its rank of a name is the place of the name's last touch.

*`EngineState`.* `register_session` leaves a handler, after each of its steps, with
knowledge that others may undo; `HandlersOK` says which of it stays true (the
graph's list only grows), `IndexOK` and `IdOK` that the current index and id are
recent or about to be. A summary's baseline has items of the graph only
(`ReportsOK`), which only grow, so that one that is no longer owed was settled.

*`Sidecar`.* Until calls meet there is one at a time (`OneCall`), the engine it
spawned is in `proc` (`WaitsForProc`), and where it may spawn one none is running
(`StartsAlone`).

*`LegacyServer`.* The graph only grows, so that what a pipeline saw or added stays
(`KnownOf`): the ends of an edge in hand are in the graph, or its event's node, which
is added before, or dropped ones. So when its pipeline announces an edge that is not
there, an end of it was dropped, and never comes (`Told`). The running summary is
whole as long as the one compression under way has read all of it (`SummaryOK`).
A question about a graph with nodes keeps, at every await, something to fall back
on (`AskerRight`).

*`Communities`.* `Inv` is inductive once it is said that the graph stands still
(`GraphStands`), but what it says is about sums. A running sum is pinned down by its
first value and its steps (`TotalIs`), so that two sums add up if their parts do
(`TotalAdds`), and a node that joins a set adds its own part (`TotalJoins`). The
weight inside a community grows by the weight of the node to its members, as each
pair counts once and weights are symmetric (`InnerJoins`). With these a move changes
four sums (`GoesOver`) and the modularity by twice the gain (`QualityMoves`); the
rest of the modularity is of communities that did not change, and unused names
count nothing. That a move stays within a connected part: the node has a neighbour
where it goes, and as many rounds as there are nodes reach all that can be reached,
since a round that adds nothing is the last (`ConnectedIs`). The report: the rank of
a community is that of its first node among first nodes (`RankGrows`), and a sum over
names is a sum over first nodes, whatever the names are (`NamesDoNotMatter`).

*`Knowledge`.* The graph only grows, so that what was read stays true while the
LLM is asked: the worker's batch and what the LLM was shown are in the graph
(`WorkerOK`). `NothingReverts` then needs that the state of a decision is a
function of edges that only become more. The other two parts of `Inv` are about
what the loops and sorts compute, in any state where the ends of each edge are in
the graph (`EdgesKnown`). *Breadth first*: at any time the queue has nodes of one
depth, then nodes of the next (`Frontier`); what is visited is all up to that depth,
and what the nodes no longer in the queue lead to; the rounds done and the
nodes in the queue are as many as the nodes visited (`Counted`). So as many
rounds as there are nodes empty the queue, and then the visited nodes are those
that paths lead to. *Sorting*: with a strict total order, ranks are a bijection
(`ListedIs`), so that both lists of the brief have every member, in order.

*`Scratch`.* The window is a fact about the log alone, an idle interval and a count of
later calls, and the engine keeps neither. The invariant says what `lru` and the
rings stand for. `Ranked`: behind each session of `lru` come exactly those that
were active since its last call, so that their number is the cardinality that
`Forgotten` asks for. `OthersForgotten`: the calls of a session that is not in
`lru` are forgotten. `RingsKept`: a ring has calls that are not forgotten, in
order, and if it lacks one it is full and that one came before all it has. The
step of `Ranked` is `session_mut` alone, in both its cases and with an eviction or
without. The detectors follow from the window, which says of each entry which call
it is; `latest_check` needs in addition that a latest timestamp exists and, among
equal ones, a first.

Loops of the code that are recursive functions here (`sessions_of`, `read_lines`,
`retain`, `Search`) are proved about by the least number principle: the first
number at which the claim failed would follow one at which it held. That there is
a function with the recursive equation at all needs the same argument
(`ReadingExists`, `RetainingExists`, `IterateExists`, `RecurrenceExists`).

Only model-checked:

- Liveness, which is out of the prover's reach.
- The invariants of `Extraction`. Most of what they say is what folds and nested
  recursive functions of the community modules compute from an answer, which the
  prover cannot expand.
- In `Communities`, that the rounds end with a partition no single move improves
  (`EndsSettled`). `MovesAlwaysGain` is half of the reason: no partition comes back.

## 5. Where the code and its comments differ

With a run:

- `truncated_reply`: `provider.rs:196` says "on EOF-style truncation (model hit
  the output budget mid-JSON), salvage the complete leading elements". A text that
  is cut in its list of nodes is closed to an object without `new_edges`, which
  `ExtractionResult` (`graph/src/types.rs:133`) requires: the batch is lost. One
  that is cut in its list of edges is salvaged; one in code fences never is.

Seen while modelling, without a run. In the engine:

- `store.rs:441` says "Active OpenItem nodes that have no incoming Resolves edge".
  `open_questions` walks `node_order`; if the order entry of a node was lost (its
  write failed, or a crash came between the two writes), the item is in the graph
  after a restart, and in the debt report, but the linker is never offered it
  again. `OpenItemsOffered` is for databases that lost no write.
- `brief.rs:40` says "decided ones first, then the most recent pending ones". The
  list comes newest first (`decisions.rs:130`) and the brief walks it from its end,
  so that the newest are the ones left out. `BriefShowsDecided` is the first half.
- `state.rs:160` explains why the index is not allowed to restart at 0. It does
  until the first event after a restart (`main.rs:187`): a debt report that comes
  before has every open item at age 0, and `High` ones as `Medium`.
- `state.rs:46` says "Max events per LLM extraction call." The worker looks at
  the size after it pushed a *second* event, so that `ARMIN_BATCH_EVENTS=1`
  gives batches of two, which `WithinLimits` allows for.
- `debt.rs:27` says "a mutation with no subsequent check on its files", and
  `debt.rs:78` "an edit whose files were never checked afterwards". A check with the
  timestamp of the edit counts (`>=`, `debt.rs:86`), and the hooks give whole
  seconds: a check that came before the edit, in the same second, hides it. TLC
  finds it after two calls if `TimesGrow` lets timestamps be equal.
  `UnverifiedIsUnchecked` is for growing ones.
- `debt.rs:28` says "the latest check on files failed, nothing fixed it since".
  Of checks with the same timestamp the first one counts, and the hooks give
  whole seconds: a check that fails and then succeeds within a second stays
  reported. `FailuresAreCurrent` is for growing timestamps.
- The baseline of the summary's delta has scratch items and the summary's own
  report has none, so that they count as resolved. `ResolvedIsSettled` is about
  open items. `changed` of `compute_diff` is always empty.
- An open item of a batch may be shown to the linker with itself as a possible
  answer, and a link from it to itself passes the filter.
- An ingest that is cut off between the two stores of `register_session` leaves
  its index with the id of the session before.

In the hooks and the plugin:

- `daemon.rs:300` says "retire the old process if it still exists". `engine.json`
  is not removed when an engine ends and outlives a reboot; SIGTERM goes to
  whatever process has the recorded id by then (`PidReused`).
- `daemon.rs:300` goes on: "a fresh engine takes over the graph". A stray that has
  the port `engine.json` names refuses the token of every probe, is not the process
  that is signalled, and holds the database, so that each fresh engine exits. The
  refused probes keep it from its idle exit (`main.rs:277`: "even auth failures"): as
  long as hooks come more often than `--idle-exit`, none gets an engine. It takes a
  hook killed after its engine was up and before `engine.json` was written, and a
  port that is pinned or was given out twice. TLC finds it if the second half of
  `HooksGetEngine`, on `Squats`, is left out and both hooks have the pinned port.
- `hook/src/main.rs:181` says the brief is injected "only when it changed, so the
  transcript does not accumulate duplicate copies". A tool hook that read
  `session-<sid>.json` before a prompt wrote it puts the old hash back, and the
  next prompt injects the same brief. `BriefOnlyWhenChanged` is for hooks that
  follow one another.
- `extract_files` (`main.rs:398`) removes repeated names with `dedup`, which sees
  neighbours only: a call that named a file under two keys, with another between
  them, would put it into the recent files twice.
- Two calls of `Sidecar.ensure` at once kill each other's engines and use up
  `MAX_RESTARTS`; an engine that was replaced while it hung, or that a call spawns
  after `dispose`, may outlive the plugin. `EngineIsKnown` and `DisposeEnds` are
  for calls that do not meet.
- `pushSessionModel` notes the model as pushed before the POST (`armin.ts:878`): a
  lost call is not repeated.

In extraction:

- `provider.rs:128` says "Strip markdown fences and surrounding prose from a JSON
  payload". The first balanced brackets of either kind are taken for the payload, so
  that after prose with a remark in brackets, such as `[1]`, a whole reply cannot be
  parsed and its batch is lost. TLC finds it if `ReplyIsKept` does not exempt replies
  that are `Remarked`.
- `client.rs:308` says that a parse failure is repeated in JSON mode. Only an
  error of `call_api` is; a reply that cannot be parsed fails the batch. Any error
  of the transport turns JSON mode on, for good.
- `validate` checks edges against all nodes of a reply before it drops nodes of
  unknown events: edges to those are refused later, by the store; the legacy
  server announces them all the same (`AnnouncedIsStored`). A reply of which
  no node is kept loses its edges between known nodes too (`ReplyIsKept` says so).
- `client.rs:38` says "provider and key can never disagree". The legacy server
  builds the Anthropic client with an OpenAI key if `OPENAI_API_KEY` is the only one
  set and `LLM_PROVIDER` is not.
- `candidate_pairs` orders nodes of the same time by their ids as strings, so
  that sentence 10 comes before sentence 2.

In the legacy server and the graph's functions:

- The compression takes the first events of the window each time: while the window
  fills up it summarises the same events again, with an interval above the window
  it never summarises, and of two producers at once one loses its update.
- Debt and community reports are computed before the event's nodes are in the
  graph. A failing compression or search ends the pipeline, so that the stages
  after it do not run. The message has edges the store then refuses. MCP writes
  are not announced. `POST /ingest` computes reports and leaves them out of its
  message and its answer, whose doc (`routes.rs:243`) promises them.
- The searcher's HTTP client has no timeout: one search can hold the stream for
  ever.
- The embedding index is built at the first question and never again, so that
  later nodes are not found by it; the hybrid retriever cuts to the first `top_n`,
  which BM25 already fills.
- `communities.rs:11` gives other weights than `types.rs:64`, which are used.

## 6. What is left

To be proved: that a failed batch leaves nothing (`FailedLeavesNothing` of
`Extraction`).

To be modelled: a process killed in the middle of the pipeline, as a composition
of `IngestPipeline` with `GraphStore`; the import of CLAUDE.md by the first hook.

### Not modelled

- *Scores*: BM25, cosine similarity, the word overlap of grounding, the impact of
  a risk as a float, the score of a debt report. They order results and keep no
  state; where their order matters any order is allowed.
- *Wording and layout*: prompts and their templates, briefs and answers beyond
  what they show, labels, the graph's text and the word lists that classify tool
  calls and sentences.
- *`compute_diff`*: two snapshots compared by id, no state.
- *`trainer.rs`*: appends samples to a file.
- *The bearer check, the npm launcher, the frontend, scripts*: a comparison, an
  installer, a viewer that polls, and benchmarks.
- *The plugin's capture*: one call to the engine per event of the host, and maps
  that avoid sending a text twice.
