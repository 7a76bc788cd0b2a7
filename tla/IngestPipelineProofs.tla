------------------------- MODULE IngestPipelineProofs -------------------------
(***************************************************************************)
(* Proofs about IngestPipeline, for any events, any finite set of clients,  *)
(* any capacity of the channel and any limit on a batch.                    *)
(*                                                                          *)
(* The counters and the places of events add up because an event is in at   *)
(* most one place; that needs to be known of the events still in a request  *)
(* too, which are about to be placed.  The invariant is built in layers:    *)
(* types and control states, then where events are, then the count.         *)
(***************************************************************************)
EXTENDS IngestPipeline, SequenceTheorems, FiniteSetTheorems, TLAPS

USE PipelineAssumption

(* No event is twice in a sequence.                                         *)
Distinct(s) == \A i, j \in 1..Len(s) : s[i] = s[j] => i = j

(* What the handlers know of the events in their requests.                  *)
HandlersOK ==
  \A c \in Clients :
    /\ at[c] # "next" => request[c] # <<>>
    /\ at[c] = "tool" => Head(request[c]) \in Tools

(* The worker holds events exactly while it works on them; a batch in the   *)
(* making has room left.                                                    *)
WorkerOK ==
  /\ worker \in {"recv", "gone"} => batch = <<>>
  /\ worker \in {"fill", "extract", "commit"} /\ engine # "ended" => batch # <<>>
  /\ worker = "fill" => Len(batch) < BatchEvents \/ Len(batch) = 1
  /\ worker # "commit" /\ engine # "ended" => added = 0
  /\ worker = "commit" /\ engine # "ended" => added <= Len(batch)

(* What shutting down has settled so far.                                   *)
ShutdownOK ==
  /\ server = "closed" => \A c \in Clients : request[c] = <<>>
  /\ (closing \/ worker = "gone") => ChannelClosed
  /\ engine # "running" => server = "closed"
  /\ engine # "running" /\ ~timed_out => worker = "gone"

(* The graph has what was extracted, and what is being committed so far;    *)
(* a worker that was waited for leaves nothing behind.                      *)
GraphOK ==
  /\ extracted \subseteq graph
  /\ worker = "commit" /\ engine # "ended" => \A i \in 1..added : batch[i] \in graph
  /\ engine \in {"flushed", "ended"} /\ ~timed_out => flushed = graph
  /\ engine = "ended" /\ ~timed_out => lost = {}

Stages == TypeOK /\ WithinLimits /\ HandlersOK /\ WorkerOK /\ ShutdownOK /\ GraphOK

(* The events of a request that have no place yet: at "sent" and "refused"  *)
(* the first of them has one.                                               *)
Unplaced(c) == IF at[c] \in {"sent", "refused"} THEN Elems(Tail(request[c]))
                                                ELSE Elems(request[c])

(* No event is in two requests, nor twice in one.                           *)
RequestsOK ==
  /\ \A c \in Clients : Distinct(request[c]) /\ Elems(request[c]) \subseteq posted
  /\ \A c, d \in Clients : c # d => Elems(request[c]) \cap Elems(request[d]) = {}

Done == extracted \cup failed \cup lost
Placed == Elems(InLine) \cup Done

(* What has no place yet will not meet itself there.                        *)
PlacedOK ==
  /\ Placed \subseteq posted
  /\ \A c \in Clients : Unplaced(c) \cap Placed = {}

(* No event is in two places, nor twice in line.                            *)
ApartOK ==
  /\ Distinct(InLine)
  /\ Elems(InLine) \cap Done = {}
  /\ extracted \cap failed = {}
  /\ (extracted \cup failed) \cap lost = {}
  /\ engine # "ended" => lost = {}
  /\ IsFiniteSet(extracted) /\ IsFiniteSet(failed) /\ IsFiniteSet(lost)

Places == RequestsOK /\ PlacedOK /\ ApartOK
IInv == Stages /\ Places /\ EventsAddUp
-------------------------------------------------------------------------------
(* Sequences.                                                               *)

LEMMA HeadAndTail ==
  ASSUME NEW S, NEW s \in Seq(S), s # <<>>
  PROVE  /\ Head(s) \in S
         /\ Tail(s) \in Seq(S)
         /\ Elems(s) = {Head(s)} \cup Elems(Tail(s))
         /\ Distinct(s) => Distinct(Tail(s)) /\ Head(s) \notin Elems(Tail(s))
<1>1. /\ Len(s) \in Nat \ {0}
      /\ Head(s) = s[1] /\ s[1] \in S
      /\ Tail(s) \in Seq(S)
      /\ Len(Tail(s)) = Len(s) - 1
      /\ \A i \in 1..Len(s) - 1 : Tail(s)[i] = s[i + 1]
  BY HeadTailProperties, EmptySeq
<1>2. Elems(s) \subseteq {Head(s)} \cup Elems(Tail(s))
  <2>1. SUFFICES ASSUME NEW i \in 1..Len(s), i # 1
                 PROVE  s[i] \in Elems(Tail(s))
    BY <1>1 DEF Elems
  <2>2. i - 1 \in 1..Len(Tail(s)) /\ Tail(s)[i - 1] = s[i]
    BY <1>1, <2>1
  <2> QED
    BY <2>2 DEF Elems
<1>3. {Head(s)} \cup Elems(Tail(s)) \subseteq Elems(s)
  BY <1>1 DEF Elems
<1>4. ASSUME Distinct(s)
      PROVE  Distinct(Tail(s)) /\ Head(s) \notin Elems(Tail(s))
  <2>1. \A i, j \in 1..Len(s) - 1 : s[i + 1] = s[j + 1] => i = j
    BY <1>1, <1>4 DEF Distinct
  <2>2. \A i \in 1..Len(s) - 1 : s[i + 1] # s[1]
    BY <1>1, <1>4 DEF Distinct
  <2> QED
    BY <1>1, <2>1, <2>2 DEF Distinct, Elems
<1> QED
  BY <1>1, <1>2, <1>3, <1>4

LEMMA AppendOne ==
  ASSUME NEW S, NEW s \in Seq(S), NEW e \in S
  PROVE  /\ Append(s, e) \in Seq(S)
         /\ Elems(Append(s, e)) = Elems(s) \cup {e}
         /\ Distinct(s) /\ e \notin Elems(s) => Distinct(Append(s, e))
<1>1. /\ Append(s, e) \in Seq(S)
      /\ Len(Append(s, e)) = Len(s) + 1
      /\ \A i \in 1..Len(s) : Append(s, e)[i] = s[i]
      /\ Append(s, e)[Len(s) + 1] = e
      /\ Len(s) \in Nat
  OBVIOUS
<1>2. Elems(Append(s, e)) = Elems(s) \cup {e}
  BY <1>1 DEF Elems
<1>3. ASSUME Distinct(s), e \notin Elems(s),
             NEW i \in 1..Len(s) + 1, NEW j \in 1..Len(s) + 1,
             Append(s, e)[i] = Append(s, e)[j]
      PROVE  i = j
  <2>1. \A k \in 1..Len(s) : s[k] # e
    BY <1>3 DEF Elems
  <2>2. CASE i \in 1..Len(s) /\ j \in 1..Len(s)
    BY <1>1, <1>3, <2>2 DEF Distinct
  <2>3. CASE i = Len(s) + 1 \/ j = Len(s) + 1
    BY <1>1, <1>3, <2>1, <2>3
  <2> QED
    BY <1>1, <2>2, <2>3
<1> QED
  BY <1>1, <1>2, <1>3 DEF Distinct

LEMMA EmptyElems == Elems(<<>>) = {} /\ Distinct(<<>>)
  BY DEF Elems, Distinct

LEMMA Concatenation ==
  ASSUME NEW S, NEW s \in Seq(S), NEW t \in Seq(S)
  PROVE  /\ s \o t \in Seq(S)
         /\ Len(s \o t) = Len(s) + Len(t)
         /\ Elems(s \o t) = Elems(s) \cup Elems(t)
         /\ Distinct(s \o t) => /\ Distinct(s) /\ Distinct(t)
                                /\ Elems(s) \cap Elems(t) = {}
<1>1. /\ s \o t \in Seq(S)
      /\ Len(s \o t) = Len(s) + Len(t)
      /\ Len(s) \in Nat /\ Len(t) \in Nat
      /\ \A i \in 1..Len(s) : (s \o t)[i] = s[i]
      /\ \A j \in 1..Len(t) : (s \o t)[Len(s) + j] = t[j]
  BY ConcatProperties
<1>2. \A j \in 1..Len(t) : Len(s) + j \in 1..Len(s \o t)
  BY <1>1
<1>3. \A i \in 1..Len(s) : i \in 1..Len(s \o t)
  BY <1>1
<1>4. Elems(s) \cup Elems(t) \subseteq Elems(s \o t)
  BY <1>1, <1>2, <1>3 DEF Elems
<1>5. Elems(s \o t) \subseteq Elems(s) \cup Elems(t)
  <2>1. SUFFICES ASSUME NEW k \in 1..Len(s) + Len(t)
                 PROVE  (s \o t)[k] \in Elems(s) \cup Elems(t)
    BY <1>1 DEF Elems
  <2>2. CASE k \in 1..Len(s)
    BY <1>1, <2>2 DEF Elems
  <2>3. CASE k \notin 1..Len(s)
    <3>1. k - Len(s) \in 1..Len(t) /\ k = Len(s) + (k - Len(s))
      BY <1>1, <2>3
    <3> QED
      BY <1>1, <3>1 DEF Elems
  <2> QED
    BY <2>2, <2>3
<1>6. ASSUME Distinct(s \o t)
      PROVE  Distinct(s) /\ Distinct(t) /\ Elems(s) \cap Elems(t) = {}
  <2>1. Distinct(s)
    BY <1>1, <1>3, <1>6 DEF Distinct
  <2>2. Distinct(t)
    <3>1. SUFFICES ASSUME NEW i \in 1..Len(t), NEW j \in 1..Len(t), t[i] = t[j]
                   PROVE  i = j
      BY DEF Distinct
    <3>2. Len(s) + i = Len(s) + j
      BY <1>1, <1>2, <1>6, <3>1 DEF Distinct
    <3> QED
      BY <1>1, <3>2
  <2>3. ASSUME NEW i \in 1..Len(s), NEW j \in 1..Len(t), s[i] = t[j]
        PROVE  FALSE
    <3>1. i = Len(s) + j
      BY <1>1, <1>2, <1>3, <1>6, <2>3 DEF Distinct
    <3> QED
      BY <1>1, <3>1
  <2> QED
    BY <2>1, <2>2, <2>3 DEF Elems
<1> QED
  BY <1>1, <1>4, <1>5, <1>6

(* Receiving moves the boundary between the batch and the channel only.     *)
LEMMA MoveOne ==
  ASSUME NEW S, NEW s \in Seq(S), NEW t \in Seq(S), t # <<>>
  PROVE  Append(s, Head(t)) \o Tail(t) = s \o t
<1>1. <<Head(t)>> \o Tail(t) = t /\ Head(t) \in S /\ Tail(t) \in Seq(S)
  <2>1. /\ Head(t) \in S /\ Tail(t) \in Seq(S)
        /\ Len(t) \in Nat \ {0} /\ Len(Tail(t)) = Len(t) - 1 /\ Head(t) = t[1]
        /\ \A i \in 1..Len(t) - 1 : Tail(t)[i] = t[i + 1]
    BY HeadTailProperties, EmptySeq
  <2>2. <<Head(t)>> \in Seq(S) /\ Len(<<Head(t)>>) = 1 /\ <<Head(t)>>[1] = Head(t)
    BY <2>1
  <2>3. /\ <<Head(t)>> \o Tail(t) \in Seq(S)
        /\ Len(<<Head(t)>> \o Tail(t)) = Len(t)
        /\ (<<Head(t)>> \o Tail(t))[1] = t[1]
        /\ \A j \in 1..Len(t) - 1 : (<<Head(t)>> \o Tail(t))[1 + j] = t[j + 1]
    BY <2>1, <2>2, ConcatProperties
  <2>4. ASSUME NEW i \in 1..Len(t)
        PROVE  (<<Head(t)>> \o Tail(t))[i] = t[i]
    <3>1. CASE i = 1
      BY <2>3, <3>1
    <3>2. CASE i # 1
      <4>1. i - 1 \in 1..Len(t) - 1 /\ i = 1 + (i - 1)
        BY <2>1, <3>2
      <4> QED
        BY <2>3, <4>1
    <3> QED
      BY <3>1, <3>2
  <2> QED
    BY <2>1, <2>3, <2>4, SeqEqual
<1>2. Append(s, Head(t)) = s \o <<Head(t)>> /\ <<Head(t)>> \in Seq(S)
  BY <1>1, AppendIsConcat
<1>3. (s \o <<Head(t)>>) \o Tail(t) = s \o (<<Head(t)>> \o Tail(t))
  BY <1>1, <1>2, ConcatAssociative
<1> QED
  BY <1>1, <1>2, <1>3

LEMMA AppendBehind ==
  ASSUME NEW S, NEW s \in Seq(S), NEW t \in Seq(S), NEW e \in S
  PROVE  s \o Append(t, e) = Append(s \o t, e)
<1>1. Append(t, e) = t \o <<e>> /\ Append(s \o t, e) = (s \o t) \o <<e>>
  BY AppendIsConcat, ConcatProperties
<1> QED
  BY <1>1, ConcatAssociative

(* Counting a sequence without repetitions is counting its elements.        *)
LEMMA CountElems ==
  ASSUME NEW S, NEW s \in Seq(S), Distinct(s)
  PROVE  IsFiniteSet(Elems(s)) /\ Cardinality(Elems(s)) = Len(s)
<1> DEFINE f == [i \in 1..Len(s) |-> s[i]]
<1>1. Len(s) \in Nat
  OBVIOUS
<1>2. f \in Bijection(1..Len(s), Elems(s))
  BY DEF Distinct, Elems, Bijection, Injection, Surjection, IsInjective
<1>3. IsFiniteSet(1..Len(s)) /\ Cardinality(1..Len(s)) = Len(s)
  BY <1>1, FS_Interval
<1>4. ExistsBijection(1..Len(s), Elems(s))
  BY <1>2 DEF ExistsBijection
<1> QED
  BY <1>3, <1>4, FS_Bijection
-------------------------------------------------------------------------------
(* Types and control states.                                                *)

LEMMA BodiesAre ==
  ASSUME NEW body \in Bodies
  PROVE  body \in Seq(Events) /\ Distinct(body)
<1>1. PICK n \in 1..MaxRequest : body \in [1..n -> Events]
  BY DEF Bodies
<1>2. n \in Nat /\ body \in Seq(Events) /\ Len(body) = n /\ DOMAIN body = 1..n
  BY <1>1
<1> QED
  BY <1>2 DEF Bodies, Distinct

LEMMA RequestParts ==
  ASSUME TypeOK, NEW c \in Clients, request[c] # <<>>
  PROVE  /\ Head(request[c]) \in Events
         /\ Tail(request[c]) \in Seq(Events)
         /\ Elems(request[c]) = {Head(request[c])} \cup Elems(Tail(request[c]))
         /\ Distinct(request[c]) => /\ Distinct(Tail(request[c]))
                                    /\ Head(request[c]) \notin Elems(Tail(request[c]))
<1>1. request[c] \in Seq(Events)
  BY DEF TypeOK
<1> QED
  BY <1>1, HeadAndTail

LEMMA TypeInit == Init => TypeOK
<1>1. /\ <<>> \in Seq(Events) /\ <<>> \in Seq(Prose)
      /\ [c \in Clients |-> <<>>] \in [Clients -> Seq(Events)]
      /\ [m \in Counters |-> 0] \in [Counters -> Nat]
  OBVIOUS
<1>2. ASSUME Init PROVE TypeOK
  <2>1. {graph, dropped, extracted, failed, lost, flushed} \subseteq SUBSET Prose
    BY <1>2 DEF Init
  <2> QED
    BY <1>1, <1>2, <2>1 DEF Init, TypeOK
<1> QED
  BY <1>2

LEMMA BumpType ==
  ASSUME metrics \in [Counters -> Nat], NEW m \in Counters, Bump(m)
  PROVE  metrics' \in [Counters -> Nat]
  BY DEF Bump

LEMMA ElemsType ==
  ASSUME NEW S, NEW s \in Seq(S)
  PROVE  Elems(s) \subseteq S /\ \A i \in 1..Len(s) : s[i] \in S
  BY DEF Elems

LEMMA AdvanceType ==
  ASSUME TypeOK, NEW c \in Clients, request[c] # <<>>, Advance(c)
  PROVE  /\ request' \in [Clients -> Seq(Events)]
         /\ at' \in [Clients -> {"next", "begun", "tool", "sent", "refused"}]
<1>1. Tail(request[c]) \in Seq(Events)
  BY RequestParts
<1> QED
  BY <1>1 DEF Advance, TypeOK

LEMMA TypeHandler ==
  ASSUME TypeOK, HandlersOK, NEW c \in Clients, HandlerStep(c)
  PROVE  TypeOK'
<1> USE DEF handlerVars, workerVars, mainVars, endVars
<1>1. {"ingested", "tool", "queued", "dropped", "batches", "extracted", "errors"} = Counters
  BY DEF Counters
<1>2. CASE Begin(c)
  <2>1. metrics' \in [Counters -> Nat]
    BY <1>1, <1>2, BumpType DEF Begin, TypeOK
  <2> QED
    BY <1>2, <2>1 DEF Begin, TypeOK
<1>3. CASE TakeTool(c)
  <2>1. metrics' \in [Counters -> Nat]
    BY <1>1, <1>3, BumpType DEF TakeTool, TypeOK
  <2> QED
    BY <1>3, <2>1 DEF TakeTool, TypeOK
<1>4. CASE RecordTool(c)
  <2>1. request[c] # <<>> /\ Advance(c)
    BY <1>4 DEF RecordTool, Busy
  <2>2. Head(request[c]) \in Tools
    BY <1>4 DEF RecordTool, HandlersOK
  <2> QED
    BY <1>4, <2>1, <2>2, AdvanceType DEF RecordTool, TypeOK
<1>5. CASE Send(c)
  <2>1. Append(queue, Head(request[c])) \in Seq(Prose)
    BY <1>5, AppendOne DEF Send, TypeOK
  <2> QED
    BY <1>5, <2>1 DEF Send, TypeOK
<1>6. CASE Refuse(c)
  BY <1>6 DEF Refuse, TypeOK
<1>7. CASE Count(c)
  <2>1. request[c] # <<>> /\ Advance(c)
    BY <1>7 DEF Count, Busy
  <2>2. metrics' \in [Counters -> Nat]
    BY <1>1, <1>7, BumpType DEF Count, TypeOK
  <2> QED
    BY <1>7, <2>1, <2>2, AdvanceType DEF Count, TypeOK
<1> QED
  BY <1>2, <1>3, <1>4, <1>5, <1>6, <1>7 DEF HandlerStep
LEMMA QueueParts ==
  ASSUME TypeOK, queue # <<>>
  PROVE  Head(queue) \in Prose /\ Tail(queue) \in Seq(Prose) /\ Len(Tail(queue)) = Len(queue) - 1
  BY HeadTailProperties, EmptySeq DEF TypeOK

LEMMA TypeWorker ==
  ASSUME TypeOK, WorkerStep
  PROVE  TypeOK'
<1> USE DEF handlerVars, workerVars, mainVars, endVars
<1>1. {"ingested", "tool", "queued", "dropped", "batches", "extracted", "errors"} = Counters
  BY DEF Counters
<1>2. /\ Elems(batch) \subseteq Prose /\ \A i \in 1..Len(batch) : batch[i] \in Prose
      /\ batch \in Seq(Prose) /\ Len(batch) \in Nat /\ added \in Nat
  BY ElemsType DEF TypeOK
<1>3. CASE ReceiveFirst
  <2>1. <<Head(queue)>> \in Seq(Prose) /\ Tail(queue) \in Seq(Prose)
    BY <1>3, QueueParts DEF ReceiveFirst
  <2> QED
    BY <1>3, <2>1 DEF ReceiveFirst, TypeOK
<1>4. CASE ReceiveNone
  BY <1>4 DEF ReceiveNone, TypeOK
<1>5. CASE ReceiveMore
  <2>1. Append(batch, Head(queue)) \in Seq(Prose) /\ Tail(queue) \in Seq(Prose)
    BY <1>2, <1>5, QueueParts, AppendOne DEF ReceiveMore, Receive
  <2> QED
    BY <1>5, <2>1 DEF ReceiveMore, Receive, TypeOK
<1>6. CASE Deadline
  BY <1>6 DEF Deadline, TypeOK
<1>7. CASE FillClosed
  BY <1>7 DEF FillClosed, TypeOK
<1>8. CASE ExtractOk
  BY <1>8 DEF ExtractOk, TypeOK
<1>9. CASE ExtractErr
  <2>1. metrics' \in [Counters -> Nat]
    BY <1>1, <1>9, BumpType DEF ExtractErr, TypeOK
  <2>2. failed' \subseteq Prose
    BY <1>2, <1>9 DEF ExtractErr, TypeOK
  <2> QED
    BY <1>9, <2>1, <2>2 DEF ExtractErr, NextBatch, TypeOK
<1>10. CASE CommitNode
  <2>1. batch[added + 1] \in Prose
    BY <1>2, <1>10 DEF CommitNode
  <2> QED
    BY <1>10, <2>1 DEF CommitNode, TypeOK
<1>11. CASE CommitDone
  <2>1. metrics' \in [Counters -> Nat]
    <3>1. metrics' = [metrics EXCEPT !["batches"] = @ + 1, !["extracted"] = @ + Len(batch)]
      BY <1>11 DEF CommitDone
    <3>2. metrics \in [Counters -> Nat] /\ "batches" \in Counters /\ "extracted" \in Counters
      BY <1>1 DEF TypeOK
    <3> QED
      BY <1>2, <3>1, <3>2
  <2>2. extracted' \subseteq Prose
    BY <1>2, <1>11 DEF CommitDone, TypeOK
  <2>3. /\ batch' = <<>> /\ added' = 0 /\ worker' \in {"gone", "recv"}
        /\ UNCHANGED <<handlerVars, queue, closing, mainVars,
                       scratch, graph, dropped, failed, lost, flushed>>
    BY <1>11 DEF CommitDone, NextBatch
  <2> QED
    BY <2>1, <2>2, <2>3 DEF TypeOK
<1> QED
  BY <1>3, <1>4, <1>5, <1>6, <1>7, <1>8, <1>9, <1>10, <1>11 DEF WorkerStep

LEMMA TypeMain ==
  ASSUME TypeOK, MainStep \/ ShutdownSignal \/ Ended
  PROVE  TypeOK'
<1> USE DEF handlerVars, workerVars, mainVars, endVars
<1>1. CASE ServerClosed
  BY <1>1 DEF ServerClosed, TypeOK
<1>2. CASE WorkerJoined
  BY <1>2 DEF WorkerJoined, TypeOK
<1>3. CASE DrainTimeout
  BY <1>3 DEF DrainTimeout, TypeOK
<1>4. CASE FlushGraph
  BY <1>4 DEF FlushGraph, TypeOK
<1>5. CASE Exit
  <2>1. Elems(batch) \cup Elems(queue) \subseteq Prose
    BY ElemsType DEF TypeOK
  <2> QED
    BY <1>5, <2>1 DEF Exit, TypeOK
<1>6. CASE ShutdownSignal
  BY <1>6 DEF ShutdownSignal, TypeOK
<1>7. CASE Ended
  BY <1>7 DEF Ended, vars, TypeOK
<1> QED
  BY <1>1, <1>2, <1>3, <1>4, <1>5, <1>6, <1>7 DEF MainStep

LEMMA TypeClient ==
  ASSUME TypeOK, NEW c \in Clients,
         (\E body \in Bodies : Post(c, body)) \/ Disconnect(c)
  PROVE  TypeOK'
<1> USE DEF handlerVars, workerVars, mainVars, endVars
<1>1. CASE Disconnect(c)
  BY <1>1 DEF Disconnect, TypeOK
<1>2. ASSUME NEW body \in Bodies, Post(c, body)
      PROVE  TypeOK'
  <2>1. body \in Seq(Events) /\ Elems(body) \subseteq Events
    BY BodiesAre, ElemsType
  <2> QED
    BY <1>2, <2>1 DEF Post, TypeOK
<1> QED
  BY <1>1, <1>2

(* The control states of the handlers.                                      *)
LEMMA HandlersStep ==
  ASSUME TypeOK, HandlersOK, [Next]_vars
  PROVE  HandlersOK'
<1> USE DEF handlerVars, workerVars, mainVars, endVars
<1>1. ASSUME NEW c \in Clients, NEW body \in Bodies, Post(c, body)
      PROVE  HandlersOK'
  BY <1>1 DEF Post, HandlersOK, TypeOK
<1>2. ASSUME NEW c \in Clients, Begin(c)
      PROVE  HandlersOK'
  BY <1>2 DEF Begin, Busy, HandlersOK, TypeOK
<1>3. ASSUME NEW c \in Clients, TakeTool(c)
      PROVE  HandlersOK'
  BY <1>3 DEF TakeTool, Busy, HandlersOK, TypeOK
<1>4. ASSUME NEW c \in Clients, Advance(c)
      PROVE  HandlersOK'
  BY <1>4 DEF Advance, HandlersOK, TypeOK
<1>5. ASSUME NEW c \in Clients, Send(c) \/ Refuse(c)
      PROVE  HandlersOK'
  BY <1>5 DEF Send, Refuse, Busy, HandlersOK, TypeOK
<1>6. ASSUME NEW c \in Clients, Disconnect(c)
      PROVE  HandlersOK'
  BY <1>6 DEF Disconnect, HandlersOK, TypeOK
<1>7. CASE UNCHANGED <<request, at>>
  BY <1>7 DEF HandlersOK
<1>8. CASE WorkerStep
  BY <1>7, <1>8 DEF WorkerStep, ReceiveFirst, ReceiveNone, ReceiveMore, Receive, Deadline,
       FillClosed, ExtractOk, ExtractErr, CommitNode, CommitDone
<1>9. CASE MainStep \/ ShutdownSignal \/ Ended \/ UNCHANGED vars
  BY <1>7, <1>9 DEF MainStep, ServerClosed, WorkerJoined, DrainTimeout, FlushGraph, Exit,
       ShutdownSignal, Ended, vars
<1> QED
  BY <1>1, <1>2, <1>3, <1>4, <1>5, <1>6, <1>8, <1>9 DEF Next, HandlerStep, RecordTool, Count
(* Neither a handler nor main touches what the worker holds, up to the end. *)
LEMMA OthersLeaveWorker ==
  ASSUME \E c \in Clients : (\E body \in Bodies : Post(c, body)) \/ HandlerStep(c) \/ Disconnect(c)
  PROVE  UNCHANGED <<workerVars, mainVars, graph, extracted, failed, lost, flushed>>
  BY DEF Post, HandlerStep, Begin, TakeTool, RecordTool, Send, Refuse, Count, Disconnect, endVars

LEMMA WorkerStepOK ==
  ASSUME TypeOK, WithinLimits, WorkerOK, [Next]_vars
  PROVE  WithinLimits' /\ WorkerOK'
<1> USE DEF handlerVars, workerVars, mainVars, endVars
<1>1. /\ Len(queue) \in Nat /\ Len(batch) \in Nat /\ added \in Nat
      /\ BatchEvents \in Nat \ {0} /\ QueueCapacity \in Nat \ {0}
      /\ batch \in Seq(Prose) /\ queue \in Seq(Prose)
  BY DEF TypeOK
<1>2. ASSUME NEW c \in Clients, Send(c)
      PROVE  WithinLimits' /\ WorkerOK'
  <2>1. queue' = Append(queue, Head(request[c])) /\ Head(request[c]) \in Prose
        /\ Len(queue) < QueueCapacity
    BY <1>2 DEF Send
  <2>2. Len(queue') <= QueueCapacity
    BY <1>1, <2>1
  <2> QED
    BY <1>2, <2>2 DEF Send, WithinLimits, WorkerOK
<1>3. CASE UNCHANGED <<queue, workerVars, engine>>
  BY <1>3 DEF WithinLimits, WorkerOK
<1>4. ASSUME NEW c \in Clients,
             \/ \E body \in Bodies : Post(c, body)
             \/ Begin(c) \/ TakeTool(c) \/ RecordTool(c) \/ Refuse(c) \/ Count(c)
             \/ Disconnect(c)
      PROVE  UNCHANGED <<queue, workerVars, engine>>
  BY <1>4 DEF Post, Begin, TakeTool, RecordTool, Refuse, Count, Disconnect
<1>5. CASE ReceiveFirst
  <2>1. Len(Tail(queue)) <= QueueCapacity /\ Len(<<Head(queue)>>) = 1
    BY <1>1, <1>5, QueueParts DEF ReceiveFirst, WithinLimits
  <2> QED
    BY <1>1, <1>5, <2>1 DEF ReceiveFirst, WithinLimits, WorkerOK, Alive
<1>6. CASE ReceiveNone
  BY <1>6 DEF ReceiveNone, WithinLimits, WorkerOK, Alive
<1>7. CASE ReceiveMore
  <2>1. /\ Len(Tail(queue)) <= QueueCapacity /\ Head(queue) \in Prose
        /\ Len(batch) < BatchEvents \/ Len(batch) = 1
        /\ worker = "fill" /\ engine # "ended" /\ added = 0
    BY <1>1, <1>7, QueueParts DEF ReceiveMore, Receive, WithinLimits, WorkerOK, Alive
  <2>2. batch' = Append(batch, Head(queue)) /\ Len(batch') = Len(batch) + 1
    BY <1>1, <1>7, <2>1 DEF ReceiveMore, Receive
  <2>3. batch' # <<>>
    BY <1>1, <2>2
  <2> QED
    BY <1>1, <1>7, <2>1, <2>2, <2>3 DEF ReceiveMore, Receive, WithinLimits, WorkerOK
<1>8. CASE Deadline \/ FillClosed \/ ExtractOk
  BY <1>1, <1>8 DEF Deadline, FillClosed, ExtractOk, WithinLimits, WorkerOK, Alive
<1>9. CASE ExtractErr \/ CommitDone
  <2>1. /\ batch' = <<>> /\ added' = 0 /\ worker' \in {"gone", "recv"}
        /\ UNCHANGED <<queue, engine>>
    BY <1>9 DEF ExtractErr, CommitDone, NextBatch
  <2> QED
    BY <1>1, <2>1 DEF WithinLimits, WorkerOK
<1>10. CASE CommitNode
  BY <1>1, <1>10 DEF CommitNode, WithinLimits, WorkerOK, Alive
<1>11. CASE Exit
  <2>1. batch' = <<>> /\ queue' = <<>> /\ engine' = "ended" /\ worker' = worker
    BY <1>11 DEF Exit
  <2>2. worker # "fill" \/ Len(batch) < BatchEvents \/ Len(batch) = 1
    BY DEF WorkerOK
  <2> QED
    BY <1>1, <2>1 DEF WithinLimits, WorkerOK
<1>12. CASE ServerClosed \/ ShutdownSignal \/ WorkerJoined \/ DrainTimeout \/ FlushGraph
  BY <1>12 DEF ServerClosed, ShutdownSignal, WorkerJoined, DrainTimeout, FlushGraph,
       WithinLimits, WorkerOK
<1>13. CASE Ended \/ UNCHANGED vars
  BY <1>3, <1>13 DEF Ended, vars
<1> QED
  BY <1>2, <1>3, <1>4, <1>5, <1>6, <1>7, <1>8, <1>9, <1>10, <1>11, <1>12, <1>13
     DEF Next, HandlerStep, WorkerStep, MainStep

LEMMA ShutdownStepOK ==
  ASSUME TypeOK, WorkerOK, ShutdownOK, [Next]_vars
  PROVE  ShutdownOK'
<1> USE DEF handlerVars, workerVars, mainVars, endVars
<1>1. ASSUME NEW c \in Clients, NEW body \in Bodies, Post(c, body)
      PROVE  ShutdownOK'
  BY <1>1 DEF Post, ShutdownOK, ChannelClosed
<1>2. ASSUME NEW c \in Clients, HandlerStep(c) \/ Disconnect(c)
      PROVE  ShutdownOK'
  <2>1. request[c] # <<>>
    BY <1>2 DEF HandlerStep, Disconnect, Begin, TakeTool, RecordTool, Send, Refuse, Count, Busy
  <2>2. server # "closed"
    BY <2>1 DEF ShutdownOK
  <2>3. UNCHANGED <<workerVars, mainVars>>
    BY <1>2, OthersLeaveWorker
  <2> QED
    BY <2>2, <2>3 DEF ShutdownOK, ChannelClosed
<1>3. CASE ReceiveFirst \/ ReceiveMore
  BY <1>3 DEF ReceiveFirst, ReceiveMore, Receive, Alive, ShutdownOK, ChannelClosed
<1>4. CASE ReceiveNone
  BY <1>4 DEF ReceiveNone, Alive, ShutdownOK, ChannelClosed
<1>5. CASE Deadline \/ ExtractOk \/ CommitNode
  BY <1>5 DEF Deadline, ExtractOk, CommitNode, Alive, ShutdownOK, ChannelClosed
<1>6. CASE FillClosed
  BY <1>6 DEF FillClosed, Alive, ShutdownOK, ChannelClosed
<1>7. CASE ExtractErr \/ CommitDone
  <2>1. /\ worker' = "gone" => closing
        /\ worker # "gone"
        /\ UNCHANGED <<request, queue, closing, server, engine, timed_out>>
    BY <1>7 DEF ExtractErr, CommitDone, NextBatch, Alive
  <2> QED
    BY <2>1 DEF ShutdownOK, ChannelClosed
<1>8. CASE ShutdownSignal \/ ServerClosed
  BY <1>8 DEF ShutdownSignal, ServerClosed, ShutdownOK, ChannelClosed
<1>9. CASE WorkerJoined \/ DrainTimeout \/ FlushGraph
  BY <1>9 DEF WorkerJoined, DrainTimeout, FlushGraph, ShutdownOK, ChannelClosed
<1>10. CASE Exit
  BY <1>10 DEF Exit, ShutdownOK, ChannelClosed
<1>11. CASE Ended \/ UNCHANGED vars
  BY <1>11 DEF Ended, vars, ShutdownOK, ChannelClosed
<1> QED
  BY <1>1, <1>2, <1>3, <1>4, <1>5, <1>6, <1>7, <1>8, <1>9, <1>10, <1>11
     DEF Next, WorkerStep, MainStep

LEMMA GraphStepOK ==
  ASSUME TypeOK, WorkerOK, ShutdownOK, GraphOK, [Next]_vars
  PROVE  GraphOK'
<1> USE DEF handlerVars, workerVars, mainVars, endVars
<1>1. Len(batch) \in Nat /\ added \in Nat /\ batch \in Seq(Prose)
  BY DEF TypeOK
<1>2. CASE UNCHANGED <<workerVars, mainVars, graph, extracted, failed, lost, flushed>>
  BY <1>2 DEF GraphOK
<1>3. CASE ReceiveFirst \/ ReceiveNone \/ ReceiveMore \/ Deadline \/ FillClosed
  BY <1>3 DEF ReceiveFirst, ReceiveNone, ReceiveMore, Receive, Deadline, FillClosed,
              GraphOK, Alive
<1>4. CASE ExtractOk
  <2>1. added = 0
    BY <1>4 DEF ExtractOk, Alive, WorkerOK
  <2>2. UNCHANGED <<batch, added, engine, timed_out, graph, extracted, flushed, lost>>
    BY <1>4 DEF ExtractOk
  <2>3. \A i \in 1..added' : batch'[i] \in graph'
    BY <2>1, <2>2
  <2> QED
    BY <2>2, <2>3 DEF GraphOK
<1>5. CASE ExtractErr
  BY <1>5 DEF ExtractErr, NextBatch, GraphOK, Alive
<1>6. CASE CommitNode
  <2>1. /\ worker = "commit" /\ engine # "ended" /\ worker' = worker
        /\ graph' = graph \cup {batch[added + 1]} /\ added' = added + 1
        /\ UNCHANGED <<batch, engine, timed_out, extracted, flushed, lost>>
    BY <1>6 DEF CommitNode, Alive
  <2>2. \A i \in 1..added + 1 : i \in 1..added \/ i = added + 1
    BY <1>1
  <2>3. \A i \in 1..added' : batch'[i] \in graph'
    BY <2>1, <2>2 DEF GraphOK
  <2>4. engine # "running" => timed_out
    BY <2>1 DEF ShutdownOK
  <2>5. engine \notin {"flushed", "ended"} \/ timed_out
    BY <2>4
  <2> QED
    BY <2>1, <2>3, <2>5 DEF GraphOK
<1>7. CASE CommitDone
  <2>1. /\ worker = "commit" /\ engine # "ended" /\ added = Len(batch)
        /\ extracted' = extracted \cup Elems(batch)
        /\ worker' \in {"gone", "recv"}
        /\ UNCHANGED <<engine, timed_out, graph, flushed, lost>>
    BY <1>7 DEF CommitDone, NextBatch, Alive
  <2>2. Elems(batch) \subseteq graph
    BY <2>1 DEF GraphOK, Elems
  <2> QED
    BY <2>1, <2>2 DEF GraphOK
<1>8. CASE ShutdownSignal \/ ServerClosed \/ WorkerJoined \/ DrainTimeout
  BY <1>8 DEF ShutdownSignal, ServerClosed, WorkerJoined, DrainTimeout, GraphOK
<1>9. CASE FlushGraph
  BY <1>9 DEF FlushGraph, GraphOK
<1>10. CASE Exit
  <2>1. ~timed_out => batch = <<>> /\ queue = <<>>
    BY <1>10 DEF Exit, ShutdownOK, WorkerOK, ChannelClosed
  <2>2. ~timed_out => Elems(batch) \cup Elems(queue) = {}
    BY <2>1, EmptyElems
  <2> QED
    BY <1>10, <2>2 DEF Exit, GraphOK
<1>11. CASE Ended \/ UNCHANGED vars
  BY <1>2, <1>11 DEF Ended, vars
<1> QED
  BY <1>2, <1>3, <1>4, <1>5, <1>6, <1>7, <1>8, <1>9, <1>10, <1>11, OthersLeaveWorker
     DEF Next, WorkerStep, MainStep

LEMMA StagesInit == Init => Stages
<1>1. ASSUME Init PROVE Stages
  <2>1. WithinLimits /\ HandlersOK /\ WorkerOK
    BY <1>1 DEF Init, WithinLimits, HandlersOK, WorkerOK
  <2>2. ShutdownOK /\ GraphOK
    BY <1>1 DEF Init, ShutdownOK, GraphOK
  <2> QED
    BY <1>1, <2>1, <2>2, TypeInit DEF Stages
<1> QED
  BY <1>1

LEMMA StagesStep ==
  ASSUME Stages, [Next]_vars
  PROVE  Stages'
<1>1. TypeOK'
  <2>1. CASE UNCHANGED vars
    BY <2>1 DEF Stages, TypeOK, vars, handlerVars, workerVars, mainVars, endVars
  <2>2. CASE Next
    BY <2>2, TypeClient, TypeHandler, TypeWorker, TypeMain DEF Stages, Next
  <2> QED
    BY <2>1, <2>2
<1> QED
  BY <1>1, HandlersStep, WorkerStepOK, ShutdownStepOK, GraphStepOK DEF Stages
-------------------------------------------------------------------------------
(* Where events are.                                                        *)

LEMMA LineParts ==
  ASSUME TypeOK
  PROVE  /\ InLine \in Seq(Prose)
         /\ Len(InLine) = Len(batch) + Len(queue)
         /\ Len(batch) \in Nat /\ Len(queue) \in Nat
         /\ Elems(InLine) = Elems(batch) \cup Elems(queue)
         /\ Distinct(InLine) => /\ Distinct(batch) /\ Distinct(queue)
                                /\ Elems(batch) \cap Elems(queue) = {}
<1>1. batch \in Seq(Prose) /\ queue \in Seq(Prose)
  BY DEF TypeOK
<1> QED
  BY <1>1, Concatenation DEF InLine

(* Sending lengthens the line at its end.                                   *)
LEMMA SendLine ==
  ASSUME TypeOK, NEW c \in Clients, Send(c)
  PROVE  /\ InLine' = Append(InLine, Head(request[c]))
         /\ Elems(InLine') = Elems(InLine) \cup {Head(request[c])}
         /\ Len(InLine') = Len(InLine) + 1
<1>1. /\ batch \in Seq(Prose) /\ queue \in Seq(Prose) /\ Head(request[c]) \in Prose
      /\ queue' = Append(queue, Head(request[c])) /\ batch' = batch
  BY DEF Send, TypeOK, workerVars
<1>2. InLine' = Append(InLine, Head(request[c]))
  BY <1>1, AppendBehind DEF InLine
<1> QED
  BY <1>1, <1>2, LineParts, AppendOne

(* Receiving leaves the line as it is.                                      *)
LEMMA ReceiveLine ==
  ASSUME TypeOK, WorkerOK, ReceiveFirst \/ ReceiveMore
  PROVE  InLine' = InLine
<1>1. batch \in Seq(Prose) /\ queue \in Seq(Prose) /\ <<>> \in Seq(Prose)
  BY DEF TypeOK
<1>2. CASE ReceiveFirst
  <2>1. batch = <<>> /\ queue # <<>> /\ batch' = <<Head(queue)>> /\ queue' = Tail(queue)
    BY <1>2 DEF ReceiveFirst, WorkerOK
  <2>2. batch' = Append(batch, Head(queue))
    BY <2>1
  <2> QED
    BY <1>1, <2>1, <2>2, MoveOne DEF InLine
<1>3. CASE ReceiveMore
  BY <1>1, <1>3, MoveOne DEF ReceiveMore, Receive, InLine
<1> QED
  BY <1>2, <1>3

(* A batch leaves the front of the line.                                    *)
LEMMA BatchLine ==
  ASSUME TypeOK, batch' = <<>>, queue' = queue
  PROVE  /\ InLine' = queue
         /\ Elems(InLine') = Elems(queue)
         /\ Elems(InLine) = Elems(batch) \cup Elems(InLine')
<1>1. queue \in Seq(Prose)
  BY DEF TypeOK
<1>2. InLine' = queue
  BY <1>1, ConcatEmptySeq DEF InLine
<1> QED
  BY <1>2, LineParts

(* The steps that change neither a request nor what is placed.              *)
Elsewhere == \/ ReceiveNone \/ Deadline \/ FillClosed \/ ExtractOk \/ CommitNode
             \/ ShutdownSignal \/ ServerClosed \/ WorkerJoined \/ DrainTimeout \/ FlushGraph
             \/ Ended \/ UNCHANGED vars

LEMMA ElsewhereIs ==
  ASSUME Elsewhere, ApartOK, EventsAddUp
  PROVE  /\ UNCHANGED <<request, at, posted, queue, batch, extracted, failed, lost>>
         /\ UNCHANGED metrics
         /\ InLine' = InLine
         /\ ApartOK' /\ EventsAddUp'
<1>1. /\ UNCHANGED <<request, at, posted, queue, batch, extracted, failed, lost, metrics>>
      /\ engine = "ended" => engine' = "ended"
  BY DEF Elsewhere, ReceiveNone, Deadline, FillClosed, ExtractOk, CommitNode, ShutdownSignal,
         ServerClosed, WorkerJoined, DrainTimeout, FlushGraph, Ended, vars,
         handlerVars, workerVars, mainVars, endVars
<1>2. InLine' = InLine
  BY <1>1 DEF InLine
<1>3. ApartOK'
  BY <1>1, <1>2 DEF ApartOK, Done
<1>4. EventsAddUp'
  BY <1>1, <1>2 DEF EventsAddUp
<1> QED
  BY <1>1, <1>2, <1>3, <1>4

LEMMA RequestsStep ==
  ASSUME TypeOK, RequestsOK, [Next]_vars
  PROVE  RequestsOK'
<1> USE DEF handlerVars, workerVars, mainVars, endVars
<1>1. ASSUME NEW c \in Clients, NEW body \in Bodies, Post(c, body)
      PROVE  RequestsOK'
  <2>1. Distinct(body) /\ Elems(body) \cap posted = {}
    BY <1>1, BodiesAre DEF Post
  <2>2. /\ posted' = posted \cup Elems(body)
        /\ request'[c] = body
        /\ \A d \in Clients : d # c => request'[d] = request[d]
    BY <1>1 DEF Post, TypeOK
  <2>3. \A d \in Clients : Distinct(request'[d]) /\ Elems(request'[d]) \subseteq posted'
    BY <2>1, <2>2 DEF RequestsOK
  <2>4. ASSUME NEW d \in Clients, NEW e \in Clients, d # e
        PROVE  Elems(request'[d]) \cap Elems(request'[e]) = {}
    BY <2>1, <2>2, <2>4 DEF RequestsOK
  <2> QED
    BY <2>3, <2>4 DEF RequestsOK
<1>2. ASSUME NEW c \in Clients, posted' = posted,
             \/ request' = [request EXCEPT ![c] = Tail(@)] /\ request[c] # <<>>
             \/ request' = [request EXCEPT ![c] = <<>>]
      PROVE  RequestsOK'
  <2>1. Distinct(request'[c]) /\ Elems(request'[c]) \subseteq Elems(request[c])
    BY <1>2, RequestParts, EmptyElems DEF RequestsOK, TypeOK
  <2>2. \A d \in Clients : d # c => request'[d] = request[d]
    BY <1>2 DEF TypeOK
  <2>3. \A d \in Clients : Distinct(request'[d]) /\ Elems(request'[d]) \subseteq posted'
    BY <1>2, <2>1, <2>2 DEF RequestsOK
  <2>4. ASSUME NEW d \in Clients, NEW e \in Clients, d # e
        PROVE  Elems(request'[d]) \cap Elems(request'[e]) = {}
    BY <2>1, <2>2, <2>4 DEF RequestsOK
  <2> QED
    BY <2>3, <2>4 DEF RequestsOK
<1>3. ASSUME NEW c \in Clients, RecordTool(c) \/ Count(c) \/ Disconnect(c)
      PROVE  RequestsOK'
  BY <1>2, <1>3 DEF RecordTool, Count, Disconnect, Advance, Busy
<1>4. CASE UNCHANGED <<request, posted>>
  BY <1>4 DEF RequestsOK
<1>5. ASSUME NEW c \in Clients, Begin(c) \/ TakeTool(c) \/ Send(c) \/ Refuse(c)
      PROVE  RequestsOK'
  BY <1>4, <1>5 DEF Begin, TakeTool, Send, Refuse
<1>6. CASE WorkerStep \/ MainStep \/ ShutdownSignal \/ Ended \/ UNCHANGED vars
  BY <1>4, <1>6 DEF WorkerStep, ReceiveFirst, ReceiveNone, ReceiveMore, Receive, Deadline,
     FillClosed, ExtractOk, ExtractErr, CommitNode, CommitDone, MainStep, ServerClosed,
     WorkerJoined, DrainTimeout, FlushGraph, Exit, ShutdownSignal, Ended, vars
<1> QED
  BY <1>1, <1>3, <1>5, <1>6 DEF Next, HandlerStep
LEMMA HeadUnplaced ==
  ASSUME TypeOK, NEW c \in Clients, request[c] # <<>>
  PROVE  /\ Elems(Tail(request[c])) \subseteq Unplaced(c)
         /\ Unplaced(c) \subseteq Elems(request[c])
         /\ at[c] \notin {"sent", "refused"} => Head(request[c]) \in Unplaced(c)
  BY RequestParts DEF Unplaced

(* What has a place grows by what is sent only, and that had none.          *)
LEMMA PlacedStep ==
  ASSUME TypeOK, HandlersOK, WorkerOK, RequestsOK, PlacedOK, ApartOK, EventsAddUp, [Next]_vars
  PROVE  PlacedOK'
<1> USE DEF handlerVars, workerVars, mainVars, endVars
<1>1. ASSUME NEW c \in Clients, NEW body \in Bodies, Post(c, body)
      PROVE  PlacedOK'
  <2>1. /\ request[c] = <<>> /\ at[c] = "next"
        /\ posted' = posted \cup Elems(body) /\ Elems(body) \cap posted = {}
        /\ request'[c] = body /\ at' = at
        /\ \A d \in Clients : d # c => request'[d] = request[d]
    BY <1>1 DEF Post, TypeOK, HandlersOK
  <2>2. Placed' = Placed
    BY <1>1 DEF Post, Placed, Done, InLine
  <2>3. Unplaced(c)' = Elems(body)
    BY <2>1 DEF Unplaced
  <2>4. \A d \in Clients : d # c => Unplaced(d)' = Unplaced(d)
    BY <2>1 DEF Unplaced
  <2> QED
    BY <2>1, <2>2, <2>3, <2>4 DEF PlacedOK
<1>2. ASSUME NEW c \in Clients, Placed' = Placed, posted' = posted,
             Unplaced(c)' \subseteq Unplaced(c),
             \A d \in Clients : d # c => request'[d] = request[d] /\ at'[d] = at[d]
      PROVE  PlacedOK'
  <2>1. \A d \in Clients : d # c => Unplaced(d)' = Unplaced(d)
    BY <1>2 DEF Unplaced
  <2> QED
    BY <1>2, <2>1 DEF PlacedOK
<1>3. ASSUME NEW c \in Clients, Begin(c) \/ TakeTool(c)
      PROVE  PlacedOK'
  <2>1. /\ at[c] \in {"next", "begun"} /\ at'[c] \in {"begun", "tool"}
        /\ request' = request /\ posted' = posted
        /\ \A d \in Clients : d # c => at'[d] = at[d]
    BY <1>3 DEF Begin, TakeTool, TypeOK
  <2>2. Placed' = Placed
    BY <1>3 DEF Begin, TakeTool, Placed, Done, InLine
  <2>3. Unplaced(c)' = Unplaced(c)
    BY <2>1 DEF Unplaced
  <2> QED
    BY <1>2, <2>1, <2>2, <2>3
<1>4. ASSUME NEW c \in Clients, RecordTool(c) \/ Count(c)
      PROVE  PlacedOK'
  <2>1. request[c] # <<>> /\ Advance(c) /\ posted' = posted
    BY <1>4 DEF RecordTool, Count, Busy
  <2>2. /\ at'[c] = "next" /\ request'[c] = Tail(request[c])
        /\ \A d \in Clients : d # c => request'[d] = request[d] /\ at'[d] = at[d]
    BY <2>1 DEF Advance, TypeOK
  <2>3. Placed' = Placed
    BY <1>4 DEF RecordTool, Count, Placed, Done, InLine
  <2>4. Unplaced(c)' = Elems(Tail(request[c]))
    BY <2>2 DEF Unplaced
  <2> QED
    BY <1>2, <2>1, <2>2, <2>3, <2>4, HeadUnplaced
<1>5. ASSUME NEW c \in Clients, Send(c)
      PROVE  PlacedOK'
  <2>1. /\ request[c] # <<>> /\ at[c] = "begun" /\ at'[c] = "sent"
        /\ request' = request /\ posted' = posted
        /\ \A d \in Clients : d # c => at'[d] = at[d]
    BY <1>5 DEF Send, Busy, TypeOK
  <2>2. Placed' = Placed \cup {Head(request[c])}
    BY <1>5, SendLine DEF Send, Placed, Done
  <2>3. /\ Unplaced(c)' = Elems(Tail(request[c]))
        /\ \A d \in Clients : d # c => Unplaced(d)' = Unplaced(d)
    BY <2>1 DEF Unplaced
  <2>4. /\ Head(request[c]) \in Elems(request[c])
        /\ Head(request[c]) \notin Elems(Tail(request[c]))
    BY <2>1, RequestParts DEF RequestsOK
  <2>5. \A d \in Clients : d # c => Head(request[c]) \notin Elems(request[d])
    BY <2>4 DEF RequestsOK
  <2>6. \A d \in Clients : Unplaced(d) \subseteq Elems(request[d])
    <3>1. ASSUME NEW d \in Clients, request[d] = <<>>
          PROVE  Unplaced(d) \subseteq Elems(request[d])
      BY <3>1 DEF HandlersOK, Unplaced
    <3> QED
      BY <3>1, HeadUnplaced
  <2>7. \A d \in Clients : Unplaced(d)' \cap Placed' = {}
    BY <2>1, <2>2, <2>3, <2>4, <2>5, <2>6, HeadUnplaced DEF PlacedOK
  <2> QED
    BY <2>1, <2>2, <2>4, <2>7 DEF PlacedOK, RequestsOK
<1>6. ASSUME NEW c \in Clients, Refuse(c)
      PROVE  PlacedOK'
  <2>1. /\ request[c] # <<>> /\ at'[c] = "refused" /\ request' = request /\ posted' = posted
        /\ \A d \in Clients : d # c => at'[d] = at[d]
    BY <1>6 DEF Refuse, Busy, TypeOK
  <2>2. Placed' = Placed
    BY <1>6 DEF Refuse, Placed, Done, InLine
  <2>3. Unplaced(c)' = Elems(Tail(request[c]))
    BY <2>1 DEF Unplaced
  <2> QED
    BY <1>2, <2>1, <2>2, <2>3, HeadUnplaced
<1>7. ASSUME NEW c \in Clients, Disconnect(c)
      PROVE  PlacedOK'
  <2>1. /\ at'[c] = "next" /\ request'[c] = <<>> /\ posted' = posted
        /\ \A d \in Clients : d # c => request'[d] = request[d] /\ at'[d] = at[d]
    BY <1>7 DEF Disconnect, TypeOK
  <2>2. Placed' = Placed
    BY <1>7 DEF Disconnect, Placed, Done, InLine
  <2>3. Unplaced(c)' = {}
    BY <2>1, EmptyElems DEF Unplaced
  <2> QED
    BY <1>2, <2>1, <2>2, <2>3
<1>8. ASSUME UNCHANGED <<request, at, posted>>, Placed' = Placed
      PROVE  PlacedOK'
  BY <1>8 DEF PlacedOK, Unplaced
<1>9. CASE ReceiveFirst \/ ReceiveMore
  <2>1. Placed' = Placed
    BY <1>9, ReceiveLine DEF ReceiveFirst, ReceiveMore, Receive, Placed, Done
  <2> QED
    BY <1>8, <1>9, <2>1 DEF ReceiveFirst, ReceiveMore, Receive
<1>10. CASE ExtractErr \/ CommitDone
  <2>1. Done' = Done \cup Elems(batch)
    BY <1>10 DEF ExtractErr, CommitDone, Done
  <2>2. Elems(InLine) = Elems(batch) \cup Elems(InLine')
    BY <1>10, BatchLine DEF ExtractErr, CommitDone, NextBatch
  <2>3. Placed' = Placed
    BY <2>1, <2>2 DEF Placed
  <2> QED
    BY <1>8, <1>10, <2>3 DEF ExtractErr, CommitDone
<1>11. CASE Exit
  <2>1. Elems(InLine) = Elems(batch) \cup Elems(queue) /\ lost = {} /\ <<>> \in Seq(Prose)
    BY <1>11, LineParts DEF Exit, ApartOK
  <2>2. Elems(InLine') = {}
    BY <1>11, EmptyElems, ConcatEmptySeq, <2>1 DEF Exit, InLine
  <2>3. Placed' = Placed
    BY <1>11, <2>1, <2>2 DEF Exit, Placed, Done
  <2> QED
    BY <1>8, <1>11, <2>3 DEF Exit
<1>12. CASE Elsewhere
  BY <1>8, <1>12, ElsewhereIs DEF Placed, Done
<1> QED
  BY <1>1, <1>3, <1>4, <1>5, <1>6, <1>7, <1>9, <1>10, <1>11, <1>12
     DEF Next, HandlerStep, WorkerStep, MainStep, Elsewhere

LEMMA ApartStep ==
  ASSUME TypeOK, WorkerOK, PlacedOK, ApartOK, EventsAddUp, [Next]_vars
  PROVE  ApartOK'
<1> USE DEF handlerVars, workerVars, mainVars, endVars
<1>1. ASSUME UNCHANGED <<extracted, failed, lost, engine>>, InLine' = InLine
      PROVE  ApartOK'
  BY <1>1 DEF ApartOK, Done
<1>2. ASSUME NEW c \in Clients,
             \/ \E body \in Bodies : Post(c, body)
             \/ Begin(c) \/ TakeTool(c) \/ RecordTool(c) \/ Refuse(c) \/ Count(c)
             \/ Disconnect(c)
      PROVE  ApartOK'
  <2>1. UNCHANGED <<extracted, failed, lost, engine, batch, queue>>
    BY <1>2 DEF Post, Begin, TakeTool, RecordTool, Refuse, Count, Disconnect
  <2> QED
    BY <1>1, <2>1 DEF InLine
<1>3. ASSUME NEW c \in Clients, Send(c)
      PROVE  ApartOK'
  <2>1. /\ request[c] # <<>> /\ at[c] = "begun" /\ Head(request[c]) \in Prose
        /\ UNCHANGED <<extracted, failed, lost, engine>>
    BY <1>3 DEF Send, Busy
  <2>2. Head(request[c]) \notin Placed
    BY <2>1, HeadUnplaced DEF PlacedOK
  <2>3. Distinct(InLine')
    <3>1. /\ InLine \in Seq(Prose) /\ Distinct(InLine)
          /\ Head(request[c]) \notin Elems(InLine)
      BY <2>2, LineParts DEF ApartOK, Placed
    <3>2. Distinct(Append(InLine, Head(request[c])))
      BY <2>1, <3>1, AppendOne
    <3>3. InLine' = Append(InLine, Head(request[c]))
      BY <1>3, SendLine
    <3> QED
      BY <3>2, <3>3, Zenon
  <2>4. Elems(InLine') \cap Done' = {}
    BY <1>3, <2>1, <2>2, SendLine DEF ApartOK, Placed, Done
  <2> QED
    BY <2>1, <2>3, <2>4 DEF ApartOK
<1>4. CASE ReceiveFirst \/ ReceiveMore
  BY <1>1, <1>4, ReceiveLine DEF ReceiveFirst, ReceiveMore, Receive
<1>5. CASE ExtractErr \/ CommitDone
  <2>1. /\ InLine' = queue
        /\ Elems(InLine') = Elems(queue)
        /\ Elems(InLine) = Elems(batch) \cup Elems(queue)
    BY <1>5, BatchLine DEF ExtractErr, CommitDone, NextBatch
  <2>2. Distinct(queue) /\ Distinct(batch) /\ Elems(batch) \cap Elems(queue) = {}
    BY LineParts DEF ApartOK
  <2>3. IsFiniteSet(Elems(batch))
    BY <2>2, CountElems DEF TypeOK
  <2>4. IsFiniteSet(failed \cup Elems(batch)) /\ IsFiniteSet(extracted \cup Elems(batch))
    BY <2>3, FS_Union DEF ApartOK
  <2>5. Elems(batch) \cap Done = {} /\ Elems(queue) \cap Done = {}
    BY <2>1 DEF ApartOK
  <2>6. /\ lost' = lost /\ engine' = engine
        /\ \/ extracted' = extracted \cup Elems(batch) /\ failed' = failed
           \/ failed' = failed \cup Elems(batch) /\ extracted' = extracted
    BY <1>5 DEF ExtractErr, CommitDone
  <2>7. Done' = Done \cup Elems(batch)
    BY <2>6 DEF Done
  <2>8. Distinct(InLine)' /\ (Elems(InLine) \cap Done)' = {}
    BY <2>1, <2>2, <2>5, <2>7
  <2>9. extracted' \cap failed' = {} /\ (extracted' \cup failed') \cap lost' = {}
    BY <2>5, <2>6 DEF ApartOK, Done
  <2>10. IsFiniteSet(extracted') /\ IsFiniteSet(failed') /\ IsFiniteSet(lost')
    BY <2>4, <2>6 DEF ApartOK
  <2> QED
    BY <2>6, <2>8, <2>9, <2>10 DEF ApartOK
<1>6. CASE Exit
  <2>1. /\ lost' = Elems(batch) \cup Elems(queue) /\ batch' = <<>> /\ queue' = <<>>
        /\ engine' = "ended" /\ UNCHANGED <<extracted, failed>>
        /\ batch \in Seq(Prose) /\ queue \in Seq(Prose)
    BY <1>6 DEF Exit, TypeOK
  <2>2. InLine' = <<>> /\ lost' = Elems(InLine)
    BY <2>1, ConcatEmptySeq, LineParts DEF InLine
  <2>3. IsFiniteSet(lost')
    BY <2>2, LineParts, CountElems DEF ApartOK
  <2>4. Distinct(InLine)' /\ (Elems(InLine) \cap Done)' = {}
    BY <2>2, EmptyElems
  <2> QED
    BY <2>1, <2>2, <2>3, <2>4 DEF ApartOK, Done
<1>7. CASE Elsewhere
  BY <1>7, ElsewhereIs
<1> QED
  BY <1>2, <1>3, <1>4, <1>5, <1>6, <1>7
     DEF Next, HandlerStep, WorkerStep, MainStep, Elsewhere

-------------------------------------------------------------------------------
(* Counting.                                                                *)

(* The handlers between try_send and the counter that goes with it.         *)
Uncounted == {c \in Clients : at[c] = "sent"}

LEMMA UncountedIsFinite == IsFiniteSet(Uncounted) /\ Cardinality(Uncounted) \in Nat
<1>1. IsFiniteSet(Clients) /\ Uncounted \subseteq Clients
  BY DEF Uncounted
<1> QED
  BY <1>1, FS_Subset, FS_CardinalityType

LEMMA PlacesAreCounted ==
  ASSUME TypeOK, ApartOK
  PROVE  /\ Len(InLine) \in Nat /\ Cardinality(Uncounted) \in Nat
         /\ Cardinality(extracted) \in Nat /\ Cardinality(failed) \in Nat
         /\ Cardinality(lost) \in Nat
  BY LineParts, UncountedIsFinite, FS_CardinalityType DEF ApartOK

(* Handler c arriving at a place other than "sent" from one other than      *)
(* "sent" leaves the uncounted ones as they are.                            *)
LEMMA SameUncounted ==
  ASSUME NEW c \in Clients, at[c] # "sent", at'[c] # "sent",
         \A d \in Clients : d # c => at'[d] = at[d]
  PROVE  Uncounted' = Uncounted
  BY DEF Uncounted

LEMMA CountHandler ==
  ASSUME TypeOK, ApartOK, EventsAddUp, NEW c \in Clients,
         HandlerStep(c) \/ Disconnect(c) \/ \E body \in Bodies : Post(c, body)
  PROVE  EventsAddUp'
<1> USE DEF handlerVars, workerVars, mainVars, endVars
<1>1. metrics["queued"] + Cardinality(Uncounted)
        = Len(InLine) + Cardinality(extracted) + Cardinality(failed) + Cardinality(lost)
  BY DEF EventsAddUp, Uncounted
<1>2. SUFFICES metrics'["queued"] + Cardinality(Uncounted')
        = Len(InLine') + Cardinality(extracted) + Cardinality(failed) + Cardinality(lost)
  <2>1. UNCHANGED <<extracted, failed, lost>>
    BY OthersLeaveWorker
  <2> QED
    BY <1>2, <2>1 DEF EventsAddUp, Uncounted
<1>3. /\ metrics \in [Counters -> Nat] /\ metrics["queued"] \in Nat
      /\ at \in [Clients -> {"next", "begun", "tool", "sent", "refused"}]
  BY DEF TypeOK, Counters
<1>4. ASSUME Uncounted' = Uncounted, metrics'["queued"] = metrics["queued"],
             batch' = batch, queue' = queue
      PROVE  metrics'["queued"] + Cardinality(Uncounted')
        = Len(InLine') + Cardinality(extracted) + Cardinality(failed) + Cardinality(lost)
  BY <1>1, <1>4 DEF InLine
<1>5. CASE Begin(c) \/ TakeTool(c)
  <2>1. /\ batch' = batch /\ queue' = queue
        /\ at[c] # "sent" /\ at'[c] # "sent" /\ \A d \in Clients : d # c => at'[d] = at[d]
    BY <1>3, <1>5 DEF Begin, TakeTool
  <2>2. metrics'["queued"] = metrics["queued"]
    BY <1>3, <1>5 DEF Begin, TakeTool, Bump, Counters
  <2> QED
    BY <1>4, <2>1, <2>2, SameUncounted
<1>6. CASE RecordTool(c) \/ Refuse(c) \/ Disconnect(c)
  <2>1. /\ batch' = batch /\ queue' = queue /\ metrics' = metrics
        /\ at[c] # "sent" /\ at'[c] # "sent" /\ \A d \in Clients : d # c => at'[d] = at[d]
    BY <1>3, <1>6 DEF RecordTool, Refuse, Disconnect, Advance
  <2> QED
    BY <1>4, <2>1, SameUncounted
<1>7. CASE Send(c)
  <2>1. /\ metrics' = metrics /\ at[c] = "begun" /\ at'[c] = "sent"
        /\ \A d \in Clients : d # c => at'[d] = at[d]
    BY <1>3, <1>7 DEF Send
  <2>2. Uncounted' = Uncounted \cup {c} /\ c \notin Uncounted
    BY <2>1 DEF Uncounted
  <2>3. Cardinality(Uncounted') = Cardinality(Uncounted) + 1
    BY <2>2, UncountedIsFinite, FS_AddElement
  <2>4. Len(InLine') = Len(InLine) + 1
    BY <1>7, SendLine
  <2>5. metrics'["queued"] = metrics["queued"]
    BY <2>1
  <2>6. /\ Len(InLine) \in Nat /\ Cardinality(Uncounted) \in Nat
        /\ Cardinality(extracted) \in Nat /\ Cardinality(failed) \in Nat
        /\ Cardinality(lost) \in Nat /\ metrics["queued"] \in Nat
    BY <1>3, PlacesAreCounted
  <2>7. metrics["queued"] + (Cardinality(Uncounted) + 1)
          = (Len(InLine) + 1) + Cardinality(extracted) + Cardinality(failed) + Cardinality(lost)
    BY <1>1, <2>6, SMTT(60)
  <2> QED
    BY <2>3, <2>4, <2>5, <2>7, Zenon
<1>8. CASE Count(c) /\ at[c] = "sent"
  <2>1. /\ Bump("queued") /\ batch' = batch /\ queue' = queue
        /\ at'[c] = "next" /\ \A d \in Clients : d # c => at'[d] = at[d]
    BY <1>3, <1>8 DEF Count, Advance
  <2>2. Uncounted' = Uncounted \ {c} /\ c \in Uncounted
    BY <1>8, <2>1 DEF Uncounted
  <2>3. Cardinality(Uncounted') = Cardinality(Uncounted) - 1
    BY <2>2, UncountedIsFinite, FS_RemoveElement
  <2>4. metrics'["queued"] = metrics["queued"] + 1
    BY <1>3, <2>1 DEF Bump, Counters
  <2>5. InLine' = InLine
    BY <2>1 DEF InLine
  <2> QED
    BY <1>1, <1>3, <2>3, <2>4, <2>5, PlacesAreCounted
<1>9. CASE Count(c) /\ at[c] # "sent"
  <2>1. /\ Bump("dropped") /\ batch' = batch /\ queue' = queue
        /\ at'[c] = "next" /\ \A d \in Clients : d # c => at'[d] = at[d]
    BY <1>3, <1>9 DEF Count, Advance
  <2>2. metrics'["queued"] = metrics["queued"]
    BY <1>3, <2>1 DEF Bump, Counters
  <2>3. Uncounted' = Uncounted
    BY <1>9, <2>1, SameUncounted
  <2> QED
    BY <1>4, <2>1, <2>2, <2>3
<1>10. CASE \E body \in Bodies : Post(c, body)
  <2>1. UNCHANGED <<at, batch, queue, metrics>>
    BY <1>10 DEF Post
  <2>2. Uncounted' = Uncounted
    BY <2>1 DEF Uncounted
  <2> QED
    BY <1>4, <2>1, <2>2
<1> QED
  BY <1>5, <1>6, <1>7, <1>8, <1>9, <1>10 DEF HandlerStep

(* A batch that leaves the line is counted where it goes.                   *)
LEMMA CountBatch ==
  ASSUME TypeOK, ApartOK, NEW S, IsFiniteSet(S), S \subseteq Done
  PROVE  Cardinality(S \cup Elems(batch)) = Cardinality(S) + Len(batch)
<1>1. Distinct(batch) /\ Elems(batch) \cap S = {}
  BY LineParts DEF ApartOK
<1>2. IsFiniteSet(Elems(batch)) /\ Cardinality(Elems(batch)) = Len(batch)
  BY <1>1, CountElems DEF TypeOK
<1>3. Cardinality(S \cup Elems(batch))
        = Cardinality(S) + Cardinality(Elems(batch)) - Cardinality(S \cap Elems(batch))
  BY <1>2, FS_Union
<1>4. Cardinality(S \cap Elems(batch)) = 0
  <2>1. S \cap Elems(batch) = {} /\ Cardinality({}) = 0
    BY <1>1, FS_EmptySet
  <2> QED
    BY <2>1, Zenon
<1>5. Cardinality(S) \in Nat /\ Len(batch) \in Nat
  BY FS_CardinalityType, LineParts
<1> QED
  BY <1>2, <1>3, <1>4, <1>5

LEMMA CountOthers ==
  ASSUME TypeOK, WorkerOK, ApartOK, EventsAddUp, WorkerStep \/ MainStep
  PROVE  EventsAddUp'
<1> USE DEF handlerVars, workerVars, mainVars, endVars
<1>1. metrics["queued"] + Cardinality(Uncounted)
        = Len(InLine) + Cardinality(extracted) + Cardinality(failed) + Cardinality(lost)
  BY DEF EventsAddUp, Uncounted
<1>2. /\ metrics \in [Counters -> Nat] /\ metrics["queued"] \in Nat
      /\ Len(InLine) = Len(batch) + Len(queue) /\ Len(batch) \in Nat /\ Len(queue) \in Nat
  BY LineParts DEF TypeOK, Counters
<1>3. CASE ReceiveFirst \/ ReceiveMore
  <2>1. InLine' = InLine /\ UNCHANGED <<at, extracted, failed, lost, metrics>>
    BY <1>3, ReceiveLine DEF ReceiveFirst, ReceiveMore, Receive
  <2> QED
    BY <2>1 DEF EventsAddUp
<1>4. CASE ExtractErr \/ CommitDone
  <2>1. Len(InLine') = Len(queue) /\ UNCHANGED <<at, lost>>
    BY <1>4, BatchLine DEF ExtractErr, CommitDone, NextBatch
  <2>2. metrics'["queued"] = metrics["queued"]
    BY <1>2, <1>4 DEF ExtractErr, CommitDone, Bump, Counters
  <2>3. /\ Cardinality(extracted \cup Elems(batch)) = Cardinality(extracted) + Len(batch)
        /\ Cardinality(failed \cup Elems(batch)) = Cardinality(failed) + Len(batch)
    BY CountBatch DEF ApartOK, Done
  <2>4. \/ extracted' = extracted \cup Elems(batch) /\ failed' = failed
        \/ failed' = failed \cup Elems(batch) /\ extracted' = extracted
    BY <1>4 DEF ExtractErr, CommitDone
  <2>5. \/ /\ Cardinality(extracted') = Cardinality(extracted) + Len(batch)
           /\ Cardinality(failed') = Cardinality(failed)
        \/ /\ Cardinality(failed') = Cardinality(failed) + Len(batch)
           /\ Cardinality(extracted') = Cardinality(extracted)
    BY <2>3, <2>4, Zenon
  <2>6. Cardinality(lost') = Cardinality(lost)
    BY <2>1
  <2>7. Len(InLine') = Len(queue)
    BY <2>1
  <2>8. /\ Cardinality(Uncounted) \in Nat /\ Cardinality(extracted) \in Nat
        /\ Cardinality(failed) \in Nat /\ Cardinality(lost) \in Nat
    BY PlacesAreCounted
  <2>9. /\ metrics["queued"] + Cardinality(Uncounted)
            = Len(queue) + (Cardinality(extracted) + Len(batch)) + Cardinality(failed)
              + Cardinality(lost)
        /\ metrics["queued"] + Cardinality(Uncounted)
            = Len(queue) + Cardinality(extracted) + (Cardinality(failed) + Len(batch))
              + Cardinality(lost)
    BY <1>1, <1>2, <2>8
  <2>10. metrics'["queued"] + Cardinality(Uncounted)
          = Len(InLine') + Cardinality(extracted') + Cardinality(failed') + Cardinality(lost')
    BY <2>2, <2>5, <2>6, <2>7, <2>9, Zenon
  <2> QED
    BY <2>1, <2>10 DEF EventsAddUp, Uncounted
<1>5. CASE Exit
  <2>1. /\ lost' = Elems(batch) \cup Elems(queue) /\ batch' = <<>> /\ queue' = <<>>
        /\ lost = {} /\ UNCHANGED <<at, extracted, failed, metrics>>
        /\ <<>> \in Seq(Prose)
    BY <1>5 DEF Exit, ApartOK
  <2>2. Len(InLine') = 0 /\ lost' = Elems(InLine)
    BY <2>1, ConcatEmptySeq, LineParts DEF InLine
  <2>3. Cardinality(lost') = Len(InLine) /\ Cardinality(lost) = 0
    BY <2>1, <2>2, LineParts, CountElems, FS_EmptySet DEF ApartOK
  <2>4. metrics'["queued"] + Cardinality(Uncounted)
          = Len(InLine') + Cardinality(extracted') + Cardinality(failed') + Cardinality(lost')
    BY <1>1, <2>1, <2>2, <2>3, PlacesAreCounted
  <2> QED
    BY <2>1, <2>4 DEF EventsAddUp, Uncounted
<1>6. CASE Elsewhere
  BY <1>6, ElsewhereIs
<1> QED
  BY <1>3, <1>4, <1>5, <1>6 DEF WorkerStep, MainStep, Elsewhere

-------------------------------------------------------------------------------
(* The inductive invariant, and what follows from it.                       *)

LEMMA InvariantInit == Init => IInv
<1>1. ASSUME Init
      PROVE  Places /\ EventsAddUp
  <2>1. InLine = <<>> /\ Done = {} /\ Placed = {} /\ Uncounted = {}
    BY <1>1, ConcatEmptySeq, EmptyElems DEF Init, InLine, Done, Placed, Uncounted
  <2>2. RequestsOK
    BY <1>1, EmptyElems DEF Init, RequestsOK
  <2>3. PlacedOK
    BY <1>1, <2>1, EmptyElems DEF Init, PlacedOK
  <2>4. IsFiniteSet({}) /\ Cardinality({}) = 0
    BY FS_EmptySet
  <2>5. ApartOK
    BY <1>1, <2>1, <2>4, EmptyElems DEF Init, ApartOK
  <2>6. EventsAddUp
    <3>1. /\ Cardinality(Uncounted) = 0 /\ Cardinality(extracted) = 0
          /\ Cardinality(failed) = 0 /\ Cardinality(lost) = 0
      BY <1>1, <2>1, <2>4, Zenon DEF Init
    <3>2. metrics["queued"] = 0 /\ Len(InLine) = 0
      BY <1>1, <2>1 DEF Init, Counters
    <3> QED
      BY <3>1, <3>2 DEF EventsAddUp, Uncounted
  <2> QED
    BY <2>2, <2>3, <2>5, <2>6 DEF Places
<1> QED
  BY <1>1, StagesInit DEF IInv

LEMMA InvariantStep ==
  ASSUME IInv, [Next]_vars
  PROVE  IInv'
<1>1. Stages'
  BY StagesStep DEF IInv
<1>2. Places'
  BY RequestsStep, PlacedStep, ApartStep DEF IInv, Stages, Places
<1>3. EventsAddUp'
  <2>1. CASE \E c \in Clients : HandlerStep(c) \/ Disconnect(c) \/ \E body \in Bodies : Post(c, body)
    BY <2>1, CountHandler DEF IInv, Stages, Places
  <2>2. CASE WorkerStep \/ MainStep
    BY <2>2, CountOthers DEF IInv, Stages, Places
  <2>3. CASE ShutdownSignal \/ Ended \/ UNCHANGED vars
    BY <2>3, ElsewhereIs DEF Elsewhere, IInv, Places
  <2> QED
    BY <2>1, <2>2, <2>3 DEF Next
<1> QED
  BY <1>1, <1>2, <1>3 DEF IInv

THEOREM Invariance == Spec => []IInv
  BY InvariantInit, InvariantStep, PTL DEF Spec

(* At every moment, for any number of clients and any sizes: the queued     *)
(* counter equals the events that were accepted and not yet counted, wait,  *)
(* were extracted, failed, or were given up at exit; the channel keeps to   *)
(* its capacity and a batch to its limit (routes.rs, worker.rs).            *)
THEOREM EventsAlwaysAddUp == Spec => []Inv
<1>1. IInv => Inv
  BY DEF IInv, Stages, Inv
<1> QED
  BY <1>1, Invariance, PTL

(* An orderly shutdown that did not give up on the worker loses no accepted *)
(* event and flushes all that was extracted (main.rs, worker.rs).           *)
THEOREM DrainLosesNothing == Spec => []NothingLostInDrain
<1>1. ASSUME IInv, engine = "ended", ~timed_out
      PROVE  /\ metrics["queued"] = Cardinality(extracted) + Cardinality(failed)
             /\ extracted \subseteq flushed
  <2> USE DEF IInv, Stages
  <2>1. TypeOK /\ ApartOK /\ EventsAddUp /\ ShutdownOK
    BY <1>1 DEF Places
  <2>2. worker = "gone" /\ server = "closed"
    BY <1>1, <2>1 DEF ShutdownOK
  <2>3. batch = <<>> /\ queue = <<>>
    BY <1>1, <2>1, <2>2 DEF ShutdownOK, WorkerOK, ChannelClosed
  <2>4. Uncounted = {}
    BY <1>1, <2>1, <2>2 DEF ShutdownOK, HandlersOK, Uncounted, TypeOK
  <2>5. lost = {}
    BY <1>1 DEF GraphOK
  <2>6. /\ Cardinality(Uncounted) = 0 /\ Cardinality(lost) = 0
    BY <2>4, <2>5, FS_EmptySet, Zenon
  <2>7. Len(InLine) = 0
    BY <2>3, ConcatEmptySeq DEF InLine
  <2>8. metrics["queued"] = Cardinality(extracted) + Cardinality(failed)
    <3>1. metrics["queued"] + Cardinality(Uncounted)
            = Len(InLine) + Cardinality(extracted) + Cardinality(failed) + Cardinality(lost)
      BY <2>1 DEF EventsAddUp, Uncounted
    <3>2. metrics["queued"] \in Nat
      BY <2>1 DEF TypeOK, Counters
    <3>3. Cardinality(extracted) \in Nat /\ Cardinality(failed) \in Nat
      BY <2>1, PlacesAreCounted
    <3> QED
      BY <2>6, <2>7, <3>1, <3>2, <3>3
  <2> QED
    BY <1>1, <2>8 DEF GraphOK
<1>2. IInv => NothingLostInDrain
  BY <1>1 DEF NothingLostInDrain
<1> QED
  BY <1>2, Invariance, PTL
-------------------------------------------------------------------------------
(* The pipeline implements ExtractionContract.                              *)

LEMMA RestOfConcat ==
  ASSUME NEW S, NEW s \in Seq(S), NEW t \in Seq(S)
  PROVE  /\ SubSeq(s \o t, Len(s) + 1, Len(s \o t)) = t
         /\ {(s \o t)[i] : i \in 1..Len(s)} = Elems(s)
<1> DEFINE rest == SubSeq(s \o t, Len(s) + 1, Len(s \o t))
<1>1. /\ s \o t \in Seq(S)
      /\ Len(s \o t) = Len(s) + Len(t)
      /\ Len(s) \in Nat /\ Len(t) \in Nat
      /\ \A i \in 1..Len(s) : (s \o t)[i] = s[i]
      /\ \A j \in 1..Len(t) : (s \o t)[Len(s) + j] = t[j]
  BY ConcatProperties
<1>2. \A i \in Len(s) + 1..Len(s \o t) : (s \o t)[i] \in S
  BY <1>1
<1>3. /\ rest \in Seq(S)
      /\ Len(rest) = Len(t)
      /\ \A j \in 1..Len(t) : rest[j] = (s \o t)[Len(s) + j]
  <2>1. Len(s) + 1 \in Int /\ Len(s \o t) \in Int
    BY <1>1
  <2>2. /\ rest \in Seq(S)
        /\ Len(rest) = IF Len(s) + 1 <= Len(s \o t) THEN Len(s \o t) - (Len(s) + 1) + 1 ELSE 0
        /\ \A j \in 1..Len(s \o t) - (Len(s) + 1) + 1 : rest[j] = (s \o t)[(Len(s) + 1) + j - 1]
    BY <1>2, <2>1, SubSeqProperties
  <2>3. /\ Len(s \o t) - (Len(s) + 1) + 1 = Len(t)
        /\ \A j \in 1..Len(t) : (Len(s) + 1) + j - 1 = Len(s) + j
        /\ ~(Len(s) + 1 <= Len(s \o t)) => Len(t) = 0
    BY <1>1
  <2> QED
    BY <2>2, <2>3
<1>4. rest = t
  BY <1>1, <1>3, SeqEqual
<1>5. {(s \o t)[i] : i \in 1..Len(s)} = Elems(s)
  BY <1>1 DEF Elems
<1> QED
  BY <1>4, <1>5

(* Fate reads off where an event is, since it is in one place only.         *)
LEMMA FateIs ==
  ASSUME TypeOK, ApartOK, NEW e \in Prose
  PROVE  /\ e \in Elems(InLine) => Fate[e] = "waiting"
         /\ e \in extracted => Fate[e] = "extracted"
         /\ e \in failed => Fate[e] = "failed"
         /\ e \in lost => Fate[e] = "abandoned"
         /\ e \notin Placed => Fate[e] = "new"
  BY DEF ApartOK, Fate, Placed, Done

LEMMA FateFunction == Fate' = [e \in Prose |-> Fate'[e]]
  BY DEF Fate

Stays(e) == \/ e \in Elems(InLine) /\ e \in Elems(InLine')
            \/ e \in extracted /\ e \in extracted'
            \/ e \in failed /\ e \in failed'
            \/ e \in lost /\ e \in lost'
            \/ e \notin Placed /\ e \notin Placed'

LEMMA FateStays ==
  ASSUME TypeOK, ApartOK, ApartOK', NEW e \in Prose, Stays(e)
  PROVE  Fate'[e] = Fate[e]
<1>1. /\ e \in Elems(InLine') => Fate'[e] = "waiting"
      /\ e \in extracted' => Fate'[e] = "extracted"
      /\ e \in failed' => Fate'[e] = "failed"
      /\ e \in lost' => Fate'[e] = "abandoned"
      /\ e \notin Placed' => Fate'[e] = "new"
  BY DEF ApartOK, Fate, Placed, Done
<1> QED
  BY <1>1, FateIs DEF Stays

LEMMA RefineInit == Init => Contract!ContractInit
<1>1. ASSUME Init
      PROVE  InLine = <<>> /\ Fate = [e \in Prose |-> "new"]
  <2>1. InLine = <<>> /\ Elems(InLine) = {}
    BY <1>1, ConcatEmptySeq, EmptyElems DEF Init, InLine
  <2> QED
    BY <1>1, <2>1 DEF Init, Fate
<1> QED
  BY <1>1 DEF Contract!ContractInit

(* Sending is Accept, a batch that is extracted or fails leaves the front   *)
(* of the line, exiting abandons whoever is left; no other step shows.      *)
LEMMA RefineStep ==
  ASSUME IInv, IInv', [Next]_vars
  PROVE  [Contract!ContractNext]_Contract!ecvars
<1> USE DEF handlerVars, workerVars, mainVars, endVars
<1>1. /\ TypeOK /\ WorkerOK /\ ApartOK /\ PlacedOK /\ EventsAddUp
      /\ TypeOK' /\ ApartOK'
  BY DEF IInv, Stages, Places
<1>2. ASSUME InLine' = InLine, UNCHANGED <<extracted, failed, lost>>
      PROVE  UNCHANGED Contract!ecvars
  BY <1>2 DEF Contract!ecvars, Fate
<1>3. ASSUME NEW c \in Clients, Send(c)
      PROVE  Contract!ContractNext
  <2> DEFINE h == Head(request[c])
  <2>1. /\ request[c] # <<>> /\ at[c] = "begun" /\ h \in Prose
        /\ UNCHANGED <<extracted, failed, lost>>
    BY <1>3 DEF Send, Busy
  <2>2. h \notin Placed
    BY <1>1, <2>1, HeadUnplaced DEF PlacedOK
  <2>3. InLine' = Append(InLine, h) /\ Elems(InLine)' = Elems(InLine) \cup {h}
    BY <1>1, <1>3, SendLine
  <2>4. Fate[h] = "new"
    BY <1>1, <2>1, <2>2, FateIs
  <2>5. Fate'[h] = "waiting"
    BY <2>1, <2>2, <2>3 DEF Fate, Placed, Done
  <2>6. Fate' = [e \in Prose |-> IF e \in {h} THEN "waiting" ELSE Fate[e]]
    <3>1. \A e \in Prose \ {h} : Stays(e)
      BY <2>1, <2>3 DEF Placed, Done, Stays
    <3> QED
      BY <1>1, <2>1, <2>5, <3>1, FateStays, FateFunction
  <2>7. Fate' = [Fate EXCEPT ![h] = "waiting"]
    BY <2>1, <2>6 DEF Fate
  <2> QED
    BY <2>1, <2>3, <2>4, <2>7 DEF Contract!ContractNext, Contract!Accept
<1>4. ASSUME NEW outcome \in {"extracted", "failed"}, batch # <<>>, batch' = <<>>,
             UNCHANGED <<queue, lost>>,
             \/ extracted' = extracted \cup Elems(batch) /\ UNCHANGED failed
                  /\ outcome = "extracted"
             \/ failed' = failed \cup Elems(batch) /\ UNCHANGED extracted
                  /\ outcome = "failed"
      PROVE  Contract!ContractNext
  <2>1. /\ InLine' = queue /\ Elems(InLine') = Elems(queue)
        /\ Elems(InLine) = Elems(batch) \cup Elems(queue)
        /\ batch \in Seq(Prose) /\ queue \in Seq(Prose) /\ Elems(batch) \subseteq Prose
    BY <1>1, <1>4, BatchLine, ElemsType DEF TypeOK
  <2>2. Elems(batch) \cap Elems(queue) = {} /\ Elems(batch) \cap Done = {}
    BY <1>1, <2>1, LineParts DEF ApartOK
  <2>3. \A e \in Elems(batch) : Fate'[e] = outcome
    BY <1>4, <2>1, <2>2 DEF Fate, Done
  <2>4. \A e \in Prose \ Elems(batch) : Stays(e)
    BY <1>4, <2>1 DEF Placed, Done, Stays
  <2>5. Fate' = [e \in Prose |-> IF e \in Elems(batch) THEN outcome ELSE Fate[e]]
    BY <1>1, <2>1, <2>3, <2>4, FateStays, FateFunction
  <2>6. /\ InLine' = SubSeq(InLine, Len(batch) + 1, Len(InLine))
        /\ {InLine[i] : i \in 1..Len(batch)} = Elems(batch)
    <3>1. SubSeq(batch \o queue, Len(batch) + 1, Len(batch \o queue)) = queue
      BY <2>1, RestOfConcat
    <3>2. {(batch \o queue)[i] : i \in 1..Len(batch)} = Elems(batch)
      BY <2>1, RestOfConcat
    <3> QED
      BY <2>1, <3>1, <3>2, Zenon DEF InLine
  <2>7. Len(batch) \in 1..Len(InLine)
    BY <1>1, <1>4, <2>1, LineParts, EmptySeq
  <2>8. Contract!Leave(Len(batch), outcome)
    BY <2>5, <2>6 DEF Contract!Leave
  <2> QED
    BY <2>7, <2>8 DEF Contract!ContractNext
<1>5. CASE ExtractErr
  <2>1. /\ batch # <<>> /\ batch' = <<>> /\ UNCHANGED <<queue, lost>>
        /\ failed' = failed \cup Elems(batch) /\ UNCHANGED extracted
    BY <1>1, <1>5 DEF ExtractErr, NextBatch, Alive, WorkerOK
  <2> QED
    BY <1>4, <2>1
<1>6. CASE CommitDone
  <2>1. /\ batch # <<>> /\ batch' = <<>> /\ UNCHANGED <<queue, lost>>
        /\ extracted' = extracted \cup Elems(batch) /\ UNCHANGED failed
    BY <1>1, <1>6 DEF CommitDone, NextBatch, Alive, WorkerOK
  <2> QED
    BY <1>4, <2>1
<1>7. CASE Exit
  <2>1. /\ lost = {} /\ lost' = Elems(batch) \cup Elems(queue)
        /\ batch' = <<>> /\ queue' = <<>> /\ UNCHANGED <<extracted, failed>>
    BY <1>1, <1>7 DEF Exit, ApartOK
  <2>2. /\ InLine' = <<>> /\ Elems(InLine)' = {} /\ lost' = Elems(InLine)
        /\ InLine \in Seq(Prose) /\ Elems(InLine) \subseteq Prose
    BY <1>1, <2>1, ConcatEmptySeq, EmptyElems, LineParts, ElemsType DEF InLine
  <2>3. \A e \in Elems(InLine) : Fate'[e] = "abandoned"
    BY <1>1, <2>1, <2>2 DEF Fate, ApartOK, Done
  <2>4. \A e \in Prose \ Elems(InLine) : Stays(e)
    BY <2>1, <2>2 DEF Placed, Done, Stays
  <2>5. Fate' = [e \in Prose |-> IF e \in Elems(InLine) THEN "abandoned" ELSE Fate[e]]
    BY <1>1, <2>2, <2>3, <2>4, FateStays, FateFunction
  <2>6. SubSeq(InLine, Len(InLine) + 1, Len(InLine)) = <<>>
    <3>1. Len(InLine) \in Nat
      BY <2>2
    <3> QED
      BY <3>1, SubSeqEmpty
  <2>7. Elems(InLine) = {InLine[i] : i \in 1..Len(InLine)}
    BY DEF Elems
  <2>8. Contract!Leave(Len(InLine), "abandoned")
    BY <2>2, <2>5, <2>6, <2>7 DEF Contract!Leave
  <2> QED
    BY <2>8 DEF Contract!ContractNext
<1>8. CASE ReceiveFirst \/ ReceiveMore
  BY <1>1, <1>2, <1>8, ReceiveLine DEF ReceiveFirst, ReceiveMore, Receive
<1>9. ASSUME NEW c \in Clients,
             \/ \E body \in Bodies : Post(c, body)
             \/ Begin(c) \/ TakeTool(c) \/ RecordTool(c) \/ Refuse(c) \/ Count(c)
             \/ Disconnect(c)
      PROVE  UNCHANGED Contract!ecvars
  <2>1. UNCHANGED <<extracted, failed, lost, batch, queue>>
    BY <1>9 DEF Post, Begin, TakeTool, RecordTool, Refuse, Count, Disconnect
  <2> QED
    BY <1>2, <2>1 DEF InLine
<1>10. CASE Elsewhere
  BY <1>1, <1>2, <1>10, ElsewhereIs
<1> QED
  BY <1>3, <1>5, <1>6, <1>7, <1>8, <1>9, <1>10
     DEF Next, HandlerStep, WorkerStep, MainStep, Elsewhere

(* Accepted events wait in order, leave from the front in groups with one   *)
(* outcome, each once, and only the end of the engine abandons any: the     *)
(* pipeline of routes.rs, worker.rs and main.rs implements the contract.    *)
THEOREM PipelineKeepsLine == Spec => KeepsLine
<1>1. Init => Contract!ContractInit
  BY RefineInit
<1>2. IInv /\ IInv' /\ [Next]_vars => [Contract!ContractNext]_Contract!ecvars
  BY RefineStep
<1> QED
  BY <1>1, <1>2, Invariance, PTL DEF Spec, KeepsLine, Contract!ContractSpec
===============================================================================
