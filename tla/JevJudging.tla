------------------------------ MODULE JevJudging ------------------------------
(***************************************************************************)
(* What the Jev extractor makes of answers (armin-core/extraction/src/      *)
(* jev.rs): sentences are cut from an event, judged one by one, and the     *)
(* pairs of nodes that share a word are asked for a relation.               *)
(*                                                                          *)
(* A sentence is [words, key, tokens]: how many words it has, its           *)
(* normalized text ("" when nothing is left), its content tokens.  An       *)
(* answer is [choice, p], p in percent; an answer that is missing or of     *)
(* another kind has the choice "".  The choice for a pair is <<which node   *)
(* is the source, relation>>.  Ids are <<event, index>> and compare         *)
(* like the strings they stand for (fewer than eleven sentences).           *)
(***************************************************************************)
EXTENDS Integers, Sequences, FiniteSets, SequencesExt

CONSTANTS
  MinSentenceWords, MaxSentences,    \* JevNativeConfig: sentences judged
  DecisionThreshold, EdgeThreshold,  \* JevNativeConfig: what is kept
  EdgeMinOverlap,                    \* JevNativeConfig: candidate pairs
  EdgeChunk,                         \* pairs in one call
  EndTime                            \* EndTime[e]: when event e ended

ASSUME JevAssumption == /\ MaxSentences \in Nat \ {0}
                        /\ EdgeChunk \in Nat \ {0}

ExtractedProvenance == 80

split_sentences(text) ==
  LET long == SelectSeq(text, LAMBDA s : s.words >= MinSentenceWords)
  IN  SubSeq(long, 1, IF Len(long) < MaxSentences THEN Len(long) ELSE MaxSentences)

NodeTypes == {"Decision", "OpenItem"}

(* parse_node_type fails for noise and for anything unknown.                *)
Keeps(answer) == answer.choice \in NodeTypes /\ answer.p >= DecisionThreshold

(* The nodes of one event: what clears the threshold, the first of each key. *)
build_native_nodes(event, sentences, answers, seen) ==
  LET kept == {i \in DOMAIN sentences :
                 /\ Keeps(answers[i])
                 /\ sentences[i].key \notin seen \cup {""}
                 /\ \A j \in 1..(i - 1) : Keeps(answers[j]) => sentences[j].key # sentences[i].key}
  IN  [i \in 1..Cardinality(kept) |->
         LET k == CHOOSE k \in kept : Cardinality({j \in kept : j <= k}) = i
         IN  [id |-> <<event, k>>, event |-> event, tokens |-> sentences[k].tokens]]

SeenAfter(sentences, answers, seen) ==
  seen \cup {sentences[i].key : i \in {j \in DOMAIN sentences : Keeps(answers[j])}}

Overlap(a, b) == Cardinality(a.tokens \cap b.tokens)

IdBefore(x, y) == x[1] < y[1] \/ (x[1] = y[1] /\ x[2] < y[2])
Before(a, b) == \/ EndTime[a.event] < EndTime[b.event]
                \/ EndTime[a.event] = EndTime[b.event] /\ IdBefore(a.id, b.id)

InOrder(nodes) ==
  [i \in 1..Cardinality(nodes) |->
     CHOOSE n \in nodes : Cardinality({m \in nodes : Before(m, n)}) = i - 1]

(* Pairs in chronological order with a new node in them that share tokens;  *)
(* they come in the order of their first, then of their second node.        *)
candidate_pairs(new, recent) ==
  LET newIds == {new[i].id : i \in DOMAIN new}
      nodes  == InOrder({new[i] : i \in DOMAIN new} \cup {recent[i] : i \in DOMAIN recent})
      Asked(pair) == /\ {pair.earlier.id, pair.later.id} \cap newIds # {}
                     /\ pair.earlier.id # pair.later.id
                     /\ Overlap(pair.earlier, pair.later) >= EdgeMinOverlap
      With(i) == [j \in 1..(Len(nodes) - i) |-> [earlier |-> nodes[i], later |-> nodes[i + j]]]
  IN  FlattenSeq([i \in 1..Len(nodes) |-> SelectSeq(With(i), Asked)])

Relations == {"supersedes", "refutes", "resolves", "relates"}

Edge(pair, answer) ==
  LET forth == answer.choice[1] = "later"
      prov  == IF answer.p >= ExtractedProvenance THEN "extracted" ELSE "inferred"
  IN  [type |-> answer.choice[2], prov |-> prov,
       src |-> IF forth THEN pair.later.id ELSE pair.earlier.id,
       tgt |-> IF forth THEN pair.earlier.id ELSE pair.later.id]

Relates(answer) ==
  /\ answer.choice \in {"later", "earlier"} \X Relations
  /\ answer.p >= EdgeThreshold

EdgeKey(edge) == <<edge.src, edge.tgt, edge.type>>

(* The edges of one chunk after those found already, each key once.         *)
EdgesAfter(edges, chunk, answers) ==
  LET Add(found, k) ==
        IF /\ Relates(answers[k])
           /\ \A i \in DOMAIN found : EdgeKey(found[i]) # EdgeKey(Edge(chunk[k], answers[k]))
        THEN Append(found, Edge(chunk[k], answers[k]))
        ELSE found
  IN  FoldLeft(Add, edges, [k \in DOMAIN chunk |-> k])

(* Mutant: the last pair of a full chunk is left to the next one, which     *)
(* starts after it.                                                         *)
ChunkOneShort(pairs, i) ==
  SubSeq(pairs, i, IF i + EdgeChunk - 2 < Len(pairs) THEN i + EdgeChunk - 2 ELSE Len(pairs))

(* The pairs of the call that starts with pair i.                           *)
ChunkAt(pairs, i) ==
  SubSeq(pairs, i, IF i + EdgeChunk - 1 < Len(pairs) THEN i + EdgeChunk - 1 ELSE Len(pairs))
===============================================================================
