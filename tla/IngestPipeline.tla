---------------------------- MODULE IngestPipeline ----------------------------
(***************************************************************************)
(* From POST /ingest to the graph: the ingest handlers, the bounded channel *)
(* between them and the extraction worker, the worker's batching, and the   *)
(* engine's orderly shutdown (armin-core/engine/src/routes.rs, worker.rs    *)
(* and main.rs).                                                            *)
(*                                                                          *)
(* Handlers, the worker and main run concurrently.  A handler takes the     *)
(* events of its request one by one; between two of its steps others run.   *)
(* An extraction is judged by its outcome only: the extractor (external)    *)
(* answers or fails for the whole batch.                                    *)
(***************************************************************************)
EXTENDS Naturals, Sequences, FiniteSets

CONSTANTS
  Prose,          \* prose events: they go to the extractor
  Tools,          \* tool events: they go to the scratch layer
  Clients,        \* concurrent requests
  QueueCapacity,  \* INGEST_QUEUE_CAPACITY
  BatchEvents,    \* EngineConfig::batch_events
  MaxRequest      \* events in one request (a bound)

ASSUME PipelineAssumption ==
  /\ Prose \cap Tools = {}
  /\ IsFiniteSet(Clients)
  /\ QueueCapacity \in Nat \ {0}
  /\ BatchEvents \in Nat \ {0}
  /\ MaxRequest \in Nat

Events == Prose \cup Tools

VARIABLES
  \* the handlers
  request,   \* request[c]: events the handler of c has yet to deal with
  at,        \* at[c]: where the handler is with the first of them
  posted,    \* events a client has sent (an event has a fresh id)
  \* the channel and the worker
  queue,     \* the channel's contents
  worker,    \* "recv", "fill", "extract", "commit" or "gone"
  batch,     \* the events the worker holds
  added,     \* how many of them are in the graph already
  closing,   \* the worker saw the channel closed: this is its last batch
  \* the process
  server,    \* "serving", "draining" (shutdown signalled) or "closed"
  engine,    \* "running", "waited", "flushed" or "ended"
  timed_out, \* main stopped waiting for the worker
  \* where events end
  scratch, graph, dropped, extracted, failed, lost, flushed,
  metrics

handlerVars == <<request, at, posted>>
workerVars  == <<worker, batch, added, closing>>
mainVars    == <<server, engine, timed_out>>
endVars     == <<scratch, graph, dropped, extracted, failed, lost, flushed>>
vars == <<handlerVars, queue, workerVars, mainVars, endVars, metrics>>

Elems(s) == {s[i] : i \in 1..Len(s)}

Counters == {"ingested", "tool", "queued", "dropped", "batches", "extracted", "errors"}

TypeOK ==
  /\ request \in [Clients -> Seq(Events)]
  /\ at \in [Clients -> {"next", "begun", "tool", "sent", "refused"}]
  /\ posted \subseteq Events
  /\ queue \in Seq(Prose)
  /\ worker \in {"recv", "fill", "extract", "commit", "gone"}
  /\ batch \in Seq(Prose)
  /\ added \in Nat
  /\ closing \in BOOLEAN
  /\ server \in {"serving", "draining", "closed"}
  /\ engine \in {"running", "waited", "flushed", "ended"}
  /\ timed_out \in BOOLEAN
  /\ scratch \subseteq Tools
  /\ {graph, dropped, extracted, failed, lost, flushed} \subseteq SUBSET Prose
  /\ metrics \in [Counters -> Nat]

Init ==
  /\ request = [c \in Clients |-> <<>>]
  /\ at = [c \in Clients |-> "next"]
  /\ posted = {}
  /\ queue = <<>>
  /\ worker = "recv"
  /\ batch = <<>>
  /\ added = 0
  /\ closing = FALSE
  /\ server = "serving"
  /\ engine = "running"
  /\ timed_out = FALSE
  /\ scratch = {} /\ graph = {} /\ dropped = {} /\ extracted = {}
  /\ failed = {} /\ lost = {} /\ flushed = {}
  /\ metrics = [m \in Counters |-> 0]

Bump(m) == metrics' = [metrics EXCEPT ![m] = @ + 1]

-------------------------------------------------------------------------------
(* The handlers: routes::ingest.                                            *)

(* A request of new events arrives; a draining server accepts none.         *)
Post(c, events) ==
  /\ server = "serving"
  /\ request[c] = <<>>
  /\ Elems(events) \cap posted = {}
  /\ request' = [request EXCEPT ![c] = events]
  /\ posted' = posted \cup Elems(events)
  /\ UNCHANGED <<at, queue, workerVars, mainVars, endVars, metrics>>

Bodies == {body \in UNION {[1..n -> Events] : n \in 1..MaxRequest} :
             \A i, j \in DOMAIN body : body[i] = body[j] => i = j}

Busy(c) == request[c] # <<>> /\ engine # "ended"

(* The event is counted; register_session and push_event_log follow.        *)
Begin(c) ==
  /\ Busy(c)
  /\ at[c] = "next"
  /\ at' = [at EXCEPT ![c] = "begun"]
  /\ Bump("ingested")
  /\ UNCHANGED <<request, posted, queue, workerVars, mainVars, endVars>>

Advance(c) == /\ request' = [request EXCEPT ![c] = Tail(@)]
              /\ at' = [at EXCEPT ![c] = "next"]

(* A tool call is counted, then recorded in the scratch layer.              *)
TakeTool(c) ==
  /\ Busy(c)
  /\ at[c] = "begun"
  /\ Head(request[c]) \in Tools
  /\ at' = [at EXCEPT ![c] = "tool"]
  /\ Bump("tool")
  /\ UNCHANGED <<request, posted, queue, workerVars, mainVars, endVars>>

RecordTool(c) ==
  /\ Busy(c)
  /\ at[c] = "tool"
  /\ scratch' = scratch \cup {Head(request[c])}
  /\ Advance(c)
  /\ UNCHANGED <<posted, queue, workerVars, mainVars,
                 graph, dropped, extracted, failed, lost, flushed, metrics>>

(* try_send into the channel: never blocks, refuses when it is full.        *)
Send(c) ==
  /\ Busy(c)
  /\ at[c] = "begun"
  /\ Head(request[c]) \in Prose
  /\ Len(queue) < QueueCapacity
  /\ queue' = Append(queue, Head(request[c]))
  /\ at' = [at EXCEPT ![c] = "sent"]
  /\ UNCHANGED <<request, posted, workerVars, mainVars, endVars, metrics>>

Refuse(c) ==
  /\ Busy(c)
  /\ at[c] = "begun"
  /\ Head(request[c]) \in Prose
  /\ Len(queue) >= QueueCapacity
  /\ dropped' = dropped \cup {Head(request[c])}
  /\ at' = [at EXCEPT ![c] = "refused"]
  /\ UNCHANGED <<request, posted, queue, workerVars, mainVars,
                 scratch, graph, extracted, failed, lost, flushed, metrics>>

(* The counter that goes with the outcome is bumped after try_send.         *)
Count(c) ==
  /\ Busy(c)
  /\ \/ at[c] = "sent"    /\ Bump("queued")
     \/ at[c] = "refused" /\ Bump("dropped")
  /\ Advance(c)
  /\ UNCHANGED <<posted, queue, workerVars, mainVars, endVars>>

(* The client goes away and the handler is cancelled where it awaits: what  *)
(* it has not sent yet is never sent.                                       *)
Disconnect(c) ==
  /\ Busy(c)
  /\ at[c] \in {"begun", "tool"}
  /\ request' = [request EXCEPT ![c] = <<>>]
  /\ at' = [at EXCEPT ![c] = "next"]
  /\ UNCHANGED <<posted, queue, workerVars, mainVars, endVars, metrics>>

-------------------------------------------------------------------------------
(* The worker: worker::run.                                                 *)

Alive == worker # "gone" /\ engine # "ended"

(* rx.recv, for the first event of a batch.                                 *)
ReceiveFirst ==
  /\ Alive
  /\ worker = "recv"
  /\ queue # <<>>
  /\ batch' = <<Head(queue)>>
  /\ queue' = Tail(queue)
  /\ worker' = "fill"
  /\ UNCHANGED <<handlerVars, added, closing, mainVars, endVars, metrics>>

(* The sender lives in the server's state: it is gone when that is closed.  *)
ChannelClosed == server = "closed" /\ queue = <<>>

ReceiveNone ==
  /\ Alive
  /\ worker = "recv"
  /\ ChannelClosed
  /\ worker' = "gone"
  /\ UNCHANGED <<handlerVars, queue, batch, added, closing, mainVars, endVars, metrics>>

Receive(newBatch, full) ==
  /\ Alive
  /\ worker = "fill"
  /\ queue # <<>>
  /\ batch' = newBatch
  /\ queue' = Tail(queue)
  /\ worker' = IF full THEN "extract" ELSE "fill"
  /\ UNCHANGED <<handlerVars, added, closing, mainVars, endVars, metrics>>

(* Mutants: the batch starts over; newest event first.                      *)
ReceiveOver ==
  Receive(<<Head(queue)>>, Len(batch) + 1 >= BatchEvents)
ReceiveInFront ==
  Receive(<<Head(queue)>> \o batch, Len(batch) + 1 >= BatchEvents)

(* The size is looked at when an event was added to the first.              *)
ReceiveMore ==
  Receive(Append(batch, Head(queue)), Len(batch) + 1 >= BatchEvents)

(* Mutant: only a full batch is extracted.                                  *)
DeadlineWhenFull ==
  /\ Alive
  /\ worker = "fill"
  /\ Len(batch) >= BatchEvents
  /\ worker' = "extract"
  /\ UNCHANGED <<handlerVars, queue, batch, added, closing, mainVars, endVars, metrics>>

(* The debounce window of batch_ms closes.                                  *)
Deadline ==
  /\ Alive
  /\ worker = "fill"
  /\ worker' = "extract"
  /\ UNCHANGED <<handlerVars, queue, batch, added, closing, mainVars, endVars, metrics>>

(* Mutant: the worker returns with its pending batch.                       *)
FillClosedDrop ==
  /\ Alive
  /\ worker = "fill"
  /\ ChannelClosed
  /\ worker' = "gone"
  /\ batch' = <<>>
  /\ UNCHANGED <<handlerVars, queue, added, closing, mainVars, endVars, metrics>>

(* The channel closes while the worker waits for more.                      *)
FillClosed ==
  /\ Alive
  /\ worker = "fill"
  /\ ChannelClosed
  /\ worker' = "extract"
  /\ closing' = TRUE
  /\ UNCHANGED <<handlerVars, queue, batch, added, mainVars, endVars, metrics>>

(* After a batch: the next one, or the end of the worker.                   *)
NextBatch == /\ batch' = <<>>
             /\ added' = 0
             /\ worker' = IF closing THEN "gone" ELSE "recv"

(* process_batch, the extractor answered.                                   *)
ExtractOk ==
  /\ Alive
  /\ worker = "extract"
  /\ worker' = "commit"
  /\ UNCHANGED <<handlerVars, queue, batch, added, closing, mainVars, endVars, metrics>>

(* process_batch, the extractor failed: the events are dropped.             *)
ExtractErr ==
  /\ Alive
  /\ worker = "extract"
  /\ failed' = failed \cup Elems(batch)
  /\ NextBatch
  /\ Bump("errors")
  /\ UNCHANGED <<handlerVars, queue, closing, mainVars,
                 scratch, graph, dropped, extracted, lost, flushed>>

(* commit_result: one add_node after the other.                             *)
CommitNode ==
  /\ Alive
  /\ worker = "commit"
  /\ added < Len(batch)
  /\ graph' = graph \cup {batch[added + 1]}
  /\ added' = added + 1
  /\ UNCHANGED <<handlerVars, queue, worker, batch, closing, mainVars,
                 scratch, dropped, extracted, failed, lost, flushed, metrics>>

(* commit_result: the edges, then the metrics.                              *)
CommitDone ==
  /\ Alive
  /\ worker = "commit"
  /\ added = Len(batch)
  /\ extracted' = extracted \cup Elems(batch)
  /\ NextBatch
  /\ metrics' = [metrics EXCEPT !["batches"] = @ + 1,
                                !["extracted"] = @ + Len(batch)]
  /\ UNCHANGED <<handlerVars, queue, closing, mainVars,
                 scratch, graph, dropped, failed, lost, flushed>>

-------------------------------------------------------------------------------
(* The process: main.                                                       *)

(* ctrl-c, SIGTERM or --idle-exit.                                          *)
ShutdownSignal ==
  /\ server = "serving"
  /\ engine = "running"
  /\ server' = "draining"
  /\ UNCHANGED <<handlerVars, queue, workerVars, engine, timed_out, endVars, metrics>>

(* Mutant: the sender is dropped once the worker has gone.                  *)
ServerClosedLate ==
  /\ server = "draining"
  /\ engine = "running"
  /\ \A c \in Clients : request[c] = <<>>
  /\ worker = "gone"
  /\ server' = "closed"
  /\ UNCHANGED <<handlerVars, queue, workerVars, engine, timed_out, endVars, metrics>>

(* axum's graceful shutdown: requests in flight are served, then the state  *)
(* with the sender is dropped.                                              *)
ServerClosed ==
  /\ server = "draining"
  /\ engine = "running"
  /\ \A c \in Clients : request[c] = <<>>
  /\ server' = "closed"
  /\ UNCHANGED <<handlerVars, queue, workerVars, engine, timed_out, endVars, metrics>>

(* main waits for the worker, at most WORKER_DRAIN_TIMEOUT.                 *)
WorkerJoined ==
  /\ server = "closed"
  /\ engine = "running"
  /\ worker = "gone"
  /\ engine' = "waited"
  /\ UNCHANGED <<handlerVars, queue, workerVars, server, timed_out, endVars, metrics>>

DrainTimeout ==
  /\ server = "closed"
  /\ engine = "running"
  /\ worker # "gone"
  /\ engine' = "waited"
  /\ timed_out' = TRUE
  /\ UNCHANGED <<handlerVars, queue, workerVars, server, endVars, metrics>>

FlushGraph ==
  /\ engine = "waited"
  /\ flushed' = graph
  /\ engine' = "flushed"
  /\ UNCHANGED <<handlerVars, queue, workerVars, server, timed_out,
                 scratch, graph, dropped, extracted, failed, lost, metrics>>

(* main returns; a worker it no longer waits for is cancelled.              *)
Exit ==
  /\ engine = "flushed"
  /\ engine' = "ended"
  /\ lost' = Elems(batch) \cup Elems(queue)
  /\ batch' = <<>>
  /\ queue' = <<>>
  /\ UNCHANGED <<handlerVars, worker, added, closing, server, timed_out,
                 scratch, graph, dropped, extracted, failed, flushed, metrics>>

(* Nothing runs any more.                                                   *)
Ended == engine = "ended" /\ UNCHANGED vars

HandlerStep(c) == \/ Begin(c) \/ TakeTool(c) \/ RecordTool(c)
                  \/ Send(c) \/ Refuse(c) \/ Count(c)

WorkerStep == \/ ReceiveFirst \/ ReceiveNone \/ ReceiveMore \/ Deadline \/ FillClosed
              \/ ExtractOk \/ ExtractErr \/ CommitNode \/ CommitDone

MainStep == ServerClosed \/ WorkerJoined \/ DrainTimeout \/ FlushGraph \/ Exit

Next == \/ \E c \in Clients : \/ \E body \in Bodies : Post(c, body)
                              \/ HandlerStep(c)
                              \/ Disconnect(c)
        \/ WorkerStep
        \/ ShutdownSignal
        \/ MainStep
        \/ Ended

(* Fairness: tokio runs every task that can run; a debounce window, a drain *)
(* timeout and an extractor call (retries are bounded, each HTTP call has a *)
(* timeout) end.  Nothing makes clients post, leave, or the engine stop.    *)
Fairness == /\ \A c \in Clients : WF_vars(HandlerStep(c))
            /\ WF_vars(WorkerStep)
            /\ WF_vars(MainStep)

Spec == Init /\ [][Next]_vars /\ Fairness

-------------------------------------------------------------------------------
(* Properties.                                                              *)

(* The accepted events the worker has not dealt with, oldest first.         *)
InLine == batch \o queue

(* No accepted event is lost sight of, and none is dealt with twice: the    *)
(* queued counter and the places an event can be in add up at every moment, *)
(* also between try_send and its counter.                                   *)
EventsAddUp ==
  metrics["queued"] + Cardinality({c \in Clients : at[c] = "sent"})
    = Len(InLine) + Cardinality(extracted) + Cardinality(failed) + Cardinality(lost)

(* The channel never holds more than its capacity, and a batch, hence one   *)
(* extraction call, no more than batch_events; a limit of one gives two,    *)
(* since the worker looks at the size only when it has received a second.   *)
WithinLimits == /\ Len(queue) <= QueueCapacity
                /\ Len(batch) <= BatchEvents \/ Len(batch) <= 2

(* What holds at every moment, of types, places and limits.                 *)
Inv == TypeOK /\ EventsAddUp /\ WithinLimits

(* An orderly shutdown in which the worker was not given up on leaves no    *)
(* accepted event behind, and all that was extracted is flushed.            *)
NothingLostInDrain ==
  engine = "ended" /\ ~timed_out =>
    /\ metrics["queued"] = Cardinality(extracted) + Cardinality(failed)
    /\ extracted \subseteq flushed

(* The pipeline implements the waiting line of ExtractionContract.          *)
Fate == [e \in Prose |-> CASE e \in Elems(InLine) -> "waiting"
                          [] e \in extracted -> "extracted"
                          [] e \in failed -> "failed"
                          [] e \in lost -> "abandoned"
                          [] OTHER -> "new"]
Contract == INSTANCE ExtractionContract
              WITH Events <- Prose, line <- InLine, fate <- Fate
KeepsLine == Contract!ContractSpec

(* Every accepted event is eventually dealt with, or the engine ends.       *)
EveryEventLeaves ==
  \A e \in Prose : e \in Elems(InLine) ~> e \notin Elems(InLine)

(* A shutdown signal ends the engine, whatever is in flight or in line.     *)
ShutdownEnds == server = "draining" ~> engine = "ended"
===============================================================================
