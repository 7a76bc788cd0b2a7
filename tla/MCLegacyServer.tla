---------------------------- MODULE MCLegacyServer ----------------------------
(***************************************************************************)
(* Loads: a stream beside a POST, with compression and evidence search; the *)
(* same for a stream with a line that does not parse; a longer stream; a    *)
(* stream and agents' writes, with a WebSocket client; questions to each    *)
(* kind of retriever while the graph grows.                                 *)
(***************************************************************************)
EXTENDS LegacyServer

CONSTANTS e1, e2, e3, e4, run, post

Load(stream, posted, w, a, cs, i, s, r) ==
  [lines |-> (run :> stream @@ post :> posted), writes |-> w, asks |-> a, clients |-> cs,
   interval |-> i, searcher |-> s, retriever |-> r]

SomeLoads ==
  {Load(<<e1>>, <<e3>>, 0, 0, {}, 1, TRUE, "bm25"),
   Load(<<e1, Malformed, e2>>, <<>>, 0, 0, {}, 1, TRUE, "bm25"),
   Load(<<e1, e2, e3, e4>>, <<>>, 0, 0, {}, 2, FALSE, "bm25"),
   Load(<<e1>>, <<>>, 2, 0, {"client"}, 0, FALSE, "bm25")} \cup
  {Load(<<e1, e2>>, <<>>, 0, 2, {}, 0, FALSE, r) : r \in {"bm25", "embedding", "hybrid"}}
===============================================================================
