------------------------------- MODULE LlmReply -------------------------------
(***************************************************************************)
(* What the LLM extractor makes of a reply (armin-core/extraction:          *)
(* provider.rs and client.rs): the tool call or the text is parsed, a text  *)
(* that was cut off is salvaged, what it says is validated against the      *)
(* graph the prompt showed, and shared out to the events of the batch.      *)
(*                                                                          *)
(* A payload is a JSON object with up to two sections, each a list of flat  *)
(* objects (items).  A text is a sequence of tokens; an item is one token,  *)
(* and a cut inside an item leaves the token "part".  A result that may be  *)
(* an error is a set with at most one value.                                *)
(***************************************************************************)
EXTENDS Integers, Sequences, FiniteSets, SequencesExt, FiniteSetsExt

CONSTANT SalvageTries   \* object boundaries tried from the end of a cut text

Sections == {"nodes", "edges"}

Mark(m) == [tok |-> m]
ItemToken(name, item) == [tok |-> name, item |-> item]
OpenMark(name) == Mark(IF name = "nodes" THEN "nodes[" ELSE "edges[")

Section(v, name) ==
  IF name \in DOMAIN v
  THEN <<OpenMark(name)>> \o [i \in 1..Len(v[name]) |-> ItemToken(name, v[name][i])]
         \o <<Mark("]")>>
  ELSE <<>>

(* The text of a payload.                                                   *)
Text(v) == <<Mark("{")>> \o Section(v, "nodes") \o Section(v, "edges") \o <<Mark("}")>>

(* How a gateway delivers a text: after a word or a bracketed remark, in    *)
(* fences, before a closing word, and cut off after k tokens (in the middle *)
(* of the next one when inside says so).                                    *)
Wrapped(v, how) ==
  (CASE how.lead = "word" -> <<Mark("word")>>
     [] how.lead = "remark" -> <<Mark("[word]")>>
     [] OTHER -> <<>>)
  \o (IF how.fenced THEN <<Mark("fence")>> \o Text(v) \o <<Mark("fence")>> ELSE Text(v))
  \o (IF how.trail THEN <<Mark("word")>> ELSE <<>>)

IsItem(token) == token.tok \in Sections

CutAfter(text, k) ==
  IF k >= Len(text) THEN text
  ELSE SubSeq(text, 1, k) \o (IF IsItem(text[k + 1]) THEN <<Mark("part")>> ELSE <<>>)

-------------------------------------------------------------------------------
(* provider.rs: from the text to the result.                                *)

Openers == {"{", "nodes[", "edges[", "part"}
Closers == {"}", "]"}
Count(text, i, j, toks) == Cardinality({k \in i..j : text[k].tok \in toks})

(* A fence in front without one at the end keeps the fence.                 *)
WithoutFences(text) ==
  LET body == IF text # <<>> /\ text[1].tok = "fence" THEN Tail(text) ELSE text
  IN  IF body # <<>> /\ Last(body).tok = "fence" THEN Front(body) ELSE text

(* The first balanced structure, or everything when there is none.          *)
FirstBalanced(text) ==
  LET starts == {i \in 1..Len(text) : text[i].tok \notin {"fence", "word"}}
      first  == Min(starts)
      ends   == {j \in first..Len(text) :
                   Count(text, first, j, Openers) = Count(text, first, j, Closers)}
  IN  IF starts = {} THEN text
      ELSE IF ends = {} THEN text ELSE SubSeq(text, first, Min(ends))

strip_json_fences(text) ==
  LET plain == WithoutFences(text)
  IN  IF plain # <<>> /\ plain[1].tok = "{" /\ (Last(plain).tok = "}" \/ IsItem(Last(plain)))
      THEN plain
      ELSE FirstBalanced(plain)

ItemsOf(text, name) ==
  LET tokens == SelectSeq(text, LAMBDA t : t.tok = name)
  IN  [i \in 1..Len(tokens) |-> tokens[i].item]

(* What a text says if it is JSON, and whether it is.                       *)
ValueOf(text) ==
  [name \in {n \in Sections : \E i \in DOMAIN text : text[i] = OpenMark(n)} |-> ItemsOf(text, name)]
FromStr(text) == {v \in {ValueOf(text)} : Text(v) = text}

Closings == <<<<Mark("]"), Mark("}")>>, <<Mark("}")>>>>

(* The ends of objects, the last SalvageTries of them.                      *)
Boundaries(text) ==
  LET ends == {i \in 1..Len(text) : IsItem(text[i]) \/ text[i].tok = "}"}
  IN  {i \in ends : Cardinality({j \in ends : j > i}) < SalvageTries}

Salvage(text) ==
  LET Closed(i) == {v \in UNION {FromStr(SubSeq(text, 1, i) \o Closings[c]) : c \in 1..2} :
                      DOMAIN v # {}}
      good == {i \in Boundaries(text) : Closed(i) # {}}
  IN  IF good = {} THEN {} ELSE Closed(Max(good))

try_parse_extraction_json(text) ==
  IF FromStr(text) # {} THEN FromStr(text) ELSE Salvage(text)

(* serde: ExtractionResult has no default, both sections are required.      *)
FromValue(v) == {x \in {v} : DOMAIN x = Sections}

parse_extraction_response(reply) ==
  IF reply.via = "tool" THEN FromValue(reply.value)
  ELSE UNION {FromValue(v) : v \in try_parse_extraction_json(strip_json_fences(reply.text))}

-------------------------------------------------------------------------------
(* client.rs: validate, and the results per event.                          *)

IdsOf(nodes) == {nodes[i].id : i \in DOMAIN nodes}
EventOf(nodes, id) == {nodes[i].event : i \in {j \in DOMAIN nodes : nodes[j].id = id}}

(* Gate 4: the provenance of an edge.                                       *)
Provenance(edge, nodes, valid) ==
  IF edge.why = "brief" THEN "ambiguous"
  ELSE IF EventOf(nodes, edge.src) \cap EventOf(nodes, edge.tgt) \cap valid # {}
       THEN "extracted" ELSE edge.prov

(* Gate 2 keeps the nodes of the batch; gate 3 asks for known endpoints,    *)
(* those that gate 2 dropped included, and for a substantive reason.        *)
validate(result, snapshot, valid) ==
  LET known == IdsOf(snapshot) \cup IdsOf(result.nodes)
      kept  == SelectSeq(result.nodes, LAMBDA n : n.event \in valid)
      sound == SelectSeq(result.edges, LAMBDA e : /\ e.src # e.tgt
                                                  /\ {e.src, e.tgt} \subseteq known
                                                  /\ e.why \notin {"short", "restates"})
      clamp(e) == [e EXCEPT !.prov = Provenance(e, snapshot \o kept, valid)]
  IN  [nodes |-> kept, edges |-> [i \in DOMAIN sound |-> clamp(sound[i])]]

(* Mutant: an edge needs an endpoint among the new nodes.                   *)
BucketOfNew(edge, buckets) ==
  {i \in DOMAIN buckets : {edge.src, edge.tgt} \cap IdsOf(buckets[i]) # {}}

(* The event an edge goes with: the first one with an endpoint, or else the *)
(* first one that has new nodes.                                            *)
BucketOf(edge, buckets) ==
  LET ends == {i \in DOMAIN buckets : {edge.src, edge.tgt} \cap IdsOf(buckets[i]) # {}}
      any  == {i \in DOMAIN buckets : buckets[i] # <<>>}
  IN  IF ends # {} THEN {Min(ends)} ELSE IF any # {} THEN {Min(any)} ELSE {}

(* One result per event; an edge without a bucket is gone.                  *)
PerEvent(result, events) ==
  LET buckets == [i \in DOMAIN events |->
                    SelectSeq(result.nodes, LAMBDA n : n.event = events[i])]
  IN  [i \in DOMAIN events |->
         [nodes |-> buckets[i],
          edges |-> SelectSeq(result.edges, LAMBDA e : i \in BucketOf(e, buckets))]]

(* process_batch_llm puts them together again.                              *)
Together(results) ==
  [nodes |-> FlattenSeq([i \in DOMAIN results |-> results[i].nodes]),
   edges |-> FlattenSeq([i \in DOMAIN results |-> results[i].edges])]
===============================================================================
