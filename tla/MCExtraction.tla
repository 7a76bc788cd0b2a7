----------------------------- MODULE MCExtraction -----------------------------
(***************************************************************************)
(* Two prose events that end at the same time: the first has a short        *)
(* sentence before two that are judged, and the second repeats one of them  *)
(* in other case.  Two pairs go into one call, so a batch of both events    *)
(* takes several calls.  An agent adds a node at any moment.  The LLM may   *)
(* name an event of the past, relate nodes the prompt did not show, give a  *)
(* short reason, and write its reply in every wrapping, cut off anywhere.   *)
(***************************************************************************)
EXTENDS Extraction

Sentence(w, k, t) == [words |-> w, key |-> k, tokens |-> t]
MCSaid == <<<<Sentence(2, "ok", {"cache"}), Sentence(7, "use a cache", {"cache"}),
              Sentence(6, "drop the lock", {"lock"})>>,
            <<Sentence(7, "use a cache", {"cache"}), Sentence(8, "cache or lock", {"cache", "lock"})>>>>
MCEndTime == [e \in 0..2 |-> IF e = 0 THEN 3 ELSE 5]

NoKeys == [mode |-> "jev", explicit |-> "", typesafe |-> FALSE, openrouter |-> FALSE,
           llm |-> "", anthropic |-> FALSE, openai |-> FALSE]
MCSettings == {[NoKeys EXCEPT !.openrouter = TRUE, !.explicit = x, !.mode = m, !.openai = a] :
                 x \in {"", "typesafe", "unknown"}, m \in {"jev", "llm", "off"}, a \in BOOLEAN}
              \cup {[NoKeys EXCEPT !.anthropic = TRUE, !.llm = l] : l \in {"", "openai"}}

Choice(c, p) == [choice |-> c, p |-> p]
MCJudgements == {Choice("noise", 90), Choice("Decision", 60), Choice("OpenItem", 65)}
MCRelationAnswers == {Choice(<<"none", "">>, 95), Choice(<<"later", "resolves">>, 80),
                      Choice(<<"earlier", "refutes">>, 70)}

Node(e) == [id |-> <<e, 1>>, event |-> e, tokens |-> {"cache"}]
Relate(a, b, w) == [src |-> <<a, 1>>, tgt |-> <<b, 1>>, why |-> w, prov |-> "inferred"]
NodeLists == {<<>>, <<Node(1)>>, <<Node(7), Node(2), Node(1)>>}
EdgeLists == {<<>>, <<Relate(1, 2, "full"), Relate(1, 0, "brief")>>,
              <<Relate(1, 1, "full"), Relate(2, 1, "short"), Relate(7, 1, "full"), Relate(1, 2, "full")>>}
MCPayloads == {[nodes |-> n, edges |-> e] : n \in NodeLists, e \in EdgeLists \ {<<>>}}
              \cup {[nodes |-> <<Node(1)>>]}
Wrapping(l, f, t) == [lead |-> l, fenced |-> f, trail |-> t]
MCWrappings == {Wrapping("none", FALSE, FALSE), Wrapping("word", FALSE, TRUE),
                Wrapping("remark", FALSE, FALSE), Wrapping("none", TRUE, FALSE),
                Wrapping("none", TRUE, TRUE), Wrapping("word", TRUE, FALSE)}
===============================================================================
