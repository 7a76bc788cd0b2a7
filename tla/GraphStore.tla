------------------------------ MODULE GraphStore ------------------------------
(***************************************************************************)
(* The knowledge graph of armin-graph: the in-memory GraphStoreInner (nodes *)
(* and edges of a petgraph, node_order, session_order) in front of sled     *)
(* (armin-core/graph/src/store.rs and persistence.rs).                      *)
(*                                                                          *)
(* Every mutation holds the store's write lock for its whole body, so it is *)
(* one action, together with its write-through to sled.  Two operations let *)
(* go of a lock halfway: resolve_question (read lock, then add_edge) and    *)
(* register_session (read lock, then write lock); each is two actions, and  *)
(* calls between the two are in flight in `resolving` and `registering`.    *)
(*                                                                          *)
(* An id stands for the node (edge) and its immutable content: TypeOf,      *)
(* SessionOf and EdgeOf give the content.  What changes is the status.      *)
(***************************************************************************)
EXTENDS Naturals, Sequences

CONSTANTS
  NodeIds,      \* ids a caller may give a node
  EdgeIds,      \* ids a caller, or uuid, may give an edge
  Sessions,     \* session ids
  TypeOf,       \* TypeOf[n]: the NodeType of n
  SessionOf,    \* SessionOf[n]: the session that raised n
  EdgeOf,       \* EdgeOf[e]: [type, src, tgt]
  OrderKeys,    \* keys of sled's `order` tree (a bound on its length in TLC)
  LegacyBlobs,  \* the node_order blobs an old database may hold; <<>> is none
  Empty         \* no entry under a key of the order tree

NodeTypes == {"Rule", "Decision", "OpenItem"}
EdgeTypes == {"Supersedes", "Refutes", "Resolves", "RelatesTo"}
Statuses  == {"Active", "Invalidated"}
Stored    == {"absent"} \cup Statuses

RangeOf(s) == {s[i] : i \in 1..Len(s)}
Listed(s)  == \A i, j \in 1..Len(s) : s[i] = s[j] => i = j

ASSUME ContentAssumption ==
  /\ TypeOf \in [NodeIds -> NodeTypes]
  /\ SessionOf \in [NodeIds -> Sessions]
  /\ EdgeOf \in [EdgeIds -> [type : EdgeTypes, src : NodeIds, tgt : NodeIds]]

ASSUME OrderAssumption ==
  /\ OrderKeys \subseteq Nat
  /\ Empty \notin NodeIds
  /\ LegacyBlobs \subseteq Seq(NodeIds)
  /\ \A b \in LegacyBlobs : Listed(b)

VARIABLES
  \* the process
  phase,          \* "down", "migrating", "loading" or "up"
  status,         \* id_to_node and the status of each node, or "absent"
  edges,          \* id_to_edge
  node_order,     \* insertion-ordered node ids
  session_order,  \* insertion-ordered session ids
  resolving,      \* resolve_question calls past their check
  registering,    \* register_session calls past their fast path
  cursor,         \* next entry new_persistent reads, or migrates
  \* sled: what the process reads back, and what survives a crash
  sled,           \* [nodes, edges, order, legacy]
  disk,           \* the trees as of the last flush, or start
  \* history, read by the properties only
  torn,           \* a write failed or was lost, or a migration was cut short
  before          \* the graph served when the last process ended

memory  == <<status, edges, node_order, session_order, resolving, registering>>
vars    == <<phase, memory, cursor, sled, disk, torn, before>>

(* The history: nothing is compared once a write was lost.                  *)
NoHistory == [status |-> [n \in NodeIds |-> "absent"], edges |-> {}, order |-> <<>>]
Remember(lost, graph) == /\ torn' = lost
                         /\ before' = IF lost THEN NoHistory ELSE graph

Ends(e)  == {EdgeOf[e].src, EdgeOf[e].tgt}
Known    == {n \in NodeIds : status[n] # "absent"}
Graph    == [status |-> status, edges |-> edges, order |-> node_order]

Trees == [nodes  : [NodeIds -> Stored],
          edges  : SUBSET EdgeIds,
          order  : [OrderKeys -> NodeIds \cup {Empty}],
          legacy : Seq(NodeIds)]

TypeOK ==
  /\ phase \in {"down", "migrating", "loading", "up"}
  /\ status \in [NodeIds -> Stored]
  /\ edges \subseteq EdgeIds
  /\ node_order \in Seq(NodeIds)
  /\ session_order \in Seq(Sessions)
  /\ resolving \subseteq (NodeIds \X NodeIds)
  /\ registering \subseteq Sessions
  /\ cursor \in Nat
  /\ sled \in Trees
  /\ disk \in Trees
  /\ torn \in BOOLEAN
  /\ before \in [status : [NodeIds -> Stored],
                 edges  : SUBSET EdgeIds,
                 order  : Seq(NodeIds)]

-------------------------------------------------------------------------------
(* Opening the database: GraphStore::new_persistent.                        *)

NoGraph == /\ status = [n \in NodeIds |-> "absent"]
           /\ edges = {}
           /\ node_order = <<>>
           /\ session_order = <<>>
           /\ resolving = {}
           /\ registering = {}

(* The databases a process may find: empty, or one written by the version   *)
(* that kept the whole insertion order in one blob.                         *)
FirstDb(blob, nodes, links) ==
  [nodes  |-> nodes,
   edges  |-> links,
   order  |-> [k \in OrderKeys |-> Empty],
   legacy |-> blob]

Init ==
  /\ phase = "down"
  /\ NoGraph
  /\ cursor = 0
  /\ \E blob \in LegacyBlobs, nodes \in [NodeIds -> Stored], links \in SUBSET EdgeIds :
       /\ RangeOf(blob) = {n \in NodeIds : nodes[n] # "absent"}
       /\ \A e \in links : Ends(e) \subseteq RangeOf(blob)
       /\ disk = FirstDb(blob, nodes, links)
  /\ sled = disk
  /\ torn = FALSE
  /\ before = [status |-> disk.nodes, edges |-> disk.edges, order |-> disk.legacy]

(* Mutant: dangling edges are loaded.                                       *)
LoadEveryEdge(t) == t.edges

(* A persisted edge with a missing endpoint is skipped.                     *)
LoadableEdges(t) ==
  {e \in t.edges : \A n \in Ends(e) : t.nodes[n] # "absent"}

OrderTreeEmpty(t) == \A k \in OrderKeys : t.order[k] = Empty

Open ==
  /\ phase = "down"
  /\ status' = sled.nodes
  /\ edges' = LoadableEdges(sled)
  /\ phase' = IF OrderTreeEmpty(sled) /\ sled.legacy # <<>>
              THEN "migrating" ELSE "loading"
  /\ cursor' = 0
  /\ UNCHANGED <<node_order, session_order, resolving, registering,
                 sled, disk, torn, before>>

PushSession(s) ==
  session_order' = IF s \in RangeOf(session_order)
                   THEN session_order
                   ELSE Append(session_order, s)

(* One entry of the loaded order: unknown ids are filtered out, and the     *)
(* session list is rebuilt from the nodes that are left.                    *)
TakeEntry(n) ==
  IF status[n] = "absent"
  THEN UNCHANGED <<node_order, session_order>>
  ELSE /\ node_order' = Append(node_order, n)
       /\ PushSession(SessionOf[n])

(* The order tree is read in key order.                                     *)
LoadEntry ==
  /\ phase = "loading"
  /\ \E k \in OrderKeys :
       /\ cursor <= k
       /\ sled.order[k] # Empty
       /\ \A j \in OrderKeys : cursor <= j /\ j < k => sled.order[j] = Empty
       /\ TakeEntry(sled.order[k])
       /\ cursor' = k + 1
  /\ UNCHANGED <<phase, status, edges, resolving, registering,
                 sled, disk, torn, before>>

LoadDone ==
  /\ phase = "loading"
  /\ \A k \in OrderKeys : cursor <= k => sled.order[k] = Empty
  /\ phase' = "up"
  /\ cursor' = 0
  /\ UNCHANGED <<memory, sled, disk, torn, before>>

(* The blob is migrated entry by entry, then removed; new_persistent works  *)
(* on with the ids of the blob.                                             *)
MigrateEntry ==
  /\ phase = "migrating"
  /\ cursor < Len(sled.legacy)
  /\ cursor \in OrderKeys
  /\ sled' = [sled EXCEPT !.order[cursor] = sled.legacy[cursor + 1]]
  /\ TakeEntry(sled.legacy[cursor + 1])
  /\ cursor' = cursor + 1
  /\ UNCHANGED <<phase, status, edges, resolving, registering,
                 disk, torn, before>>

(* Mutant: the blob is not removed.                                         *)
MigrateDoneKeepsBlob ==
  /\ phase = "migrating"
  /\ cursor = Len(sled.legacy)
  /\ phase' = "up"
  /\ cursor' = 0
  /\ UNCHANGED <<memory, sled, disk, torn, before>>

MigrateDone ==
  /\ phase = "migrating"
  /\ cursor = Len(sled.legacy)
  /\ sled' = [sled EXCEPT !.legacy = <<>>]
  /\ phase' = "up"
  /\ cursor' = 0
  /\ UNCHANGED <<memory, disk, torn, before>>

-------------------------------------------------------------------------------
(* The operations.                                                          *)

(* append_node_order: the next key follows the last key of the tree.        *)
IsNextKey(k) ==
  /\ k \in OrderKeys
  /\ \A j \in OrderKeys : k <= j => sled.order[j] = Empty
  /\ k = 0 \/ (k - 1 \in OrderKeys /\ sled.order[k - 1] # Empty)

(* Mutant: the node's id goes to the list of sessions.                      *)
AddNodeAsSession(n) ==
  /\ phase = "up"
  /\ status[n] = "absent"
  /\ node_order' = Append(node_order, n)
  /\ PushSession(n)
  /\ \E given \in Statuses, stored, ordered \in BOOLEAN, k \in OrderKeys :
       /\ IsNextKey(k)
       /\ status' = [status EXCEPT ![n] = given]
       /\ sled' = [sled EXCEPT !.nodes[n] = IF stored THEN given ELSE @,
                               !.order[k] = IF ordered THEN n ELSE @]
       /\ Remember(torn \/ ~stored \/ ~ordered, before)
  /\ UNCHANGED <<phase, edges, resolving, registering, cursor, disk>>

(* add_node of an id the graph does not know; of a known id it changes      *)
(* nothing.  The caller gives the status too.  Each of the two writes may   *)
(* fail: the code warns and goes on.                                        *)
AddNode(n) ==
  /\ phase = "up"
  /\ status[n] = "absent"
  /\ node_order' = Append(node_order, n)
  /\ PushSession(SessionOf[n])
  /\ \E given \in Statuses, stored, ordered \in BOOLEAN, k \in OrderKeys :
       /\ IsNextKey(k)
       /\ status' = [status EXCEPT ![n] = given]
       /\ sled' = [sled EXCEPT !.nodes[n] = IF stored THEN given ELSE @,
                               !.order[k] = IF ordered THEN n ELSE @]
       /\ Remember(torn \/ ~stored \/ ~ordered, before)
  /\ UNCHANGED <<phase, edges, resolving, registering, cursor, disk>>

(* add_edge of a new id between known nodes; otherwise it changes nothing.  *)
AddEdge(e) ==
  /\ phase = "up"
  /\ e \notin edges
  /\ Ends(e) \subseteq Known
  /\ edges' = edges \cup {e}
  /\ \E stored \in BOOLEAN :
       /\ sled' = [sled EXCEPT !.edges = IF stored THEN @ \cup {e} ELSE @]
       /\ Remember(torn \/ ~stored, before)
  /\ UNCHANGED <<phase, status, node_order, session_order, registering,
                 cursor, disk>>

PostEdge(e) == AddEdge(e) /\ UNCHANGED resolving

(* Mutant: invalidation takes the node out of the graph and of sled.        *)
RemoveNode(n) ==
  /\ phase = "up"
  /\ status[n] # "absent"
  /\ status' = [status EXCEPT ![n] = "absent"]
  /\ sled' = [sled EXCEPT !.nodes[n] = "absent"]
  /\ UNCHANGED <<phase, edges, node_order, session_order, resolving,
                 registering, cursor, disk, torn, before>>

(* Mutant: invalidation forgets to write the node back.                     *)
InvalidateInMemory(n) ==
  /\ phase = "up"
  /\ status[n] # "absent"
  /\ status' = [status EXCEPT ![n] = "Invalidated"]
  /\ UNCHANGED <<phase, edges, node_order, session_order, resolving,
                 registering, cursor, sled, disk, torn, before>>

(* invalidate_node of a known node; of an unknown id it is an error.        *)
InvalidateNode(n) ==
  /\ phase = "up"
  /\ status[n] # "absent"
  /\ status' = [status EXCEPT ![n] = "Invalidated"]
  /\ \E stored \in BOOLEAN :
       /\ sled' = [sled EXCEPT !.nodes[n] = IF stored THEN "Invalidated" ELSE @]
       /\ Remember(torn \/ ~stored, before)
  /\ UNCHANGED <<phase, edges, node_order, session_order, resolving,
                 registering, cursor, disk>>

ResolvesEdge(e, q, r) == EdgeOf[e] = [type |-> "Resolves", src |-> r, tgt |-> q]

(* resolve_question, under the read lock: both nodes exist.  The last guard *)
(* is a bound: the calls for which EdgeIds holds an edge.                   *)
ResolveCheck(q, r) ==
  /\ phase = "up"
  /\ \E e \in EdgeIds : ResolvesEdge(e, q, r)
  /\ status[q] # "absent"
  /\ status[r] # "absent"
  /\ resolving' = resolving \cup {<<q, r>>}
  /\ UNCHANGED <<phase, status, edges, node_order, session_order, registering,
                 cursor, sled, disk, torn, before>>

(* resolve_question, the rest: add_edge of a Resolves edge with a new uuid. *)
ResolveCommit(q, r) ==
  /\ <<q, r>> \in resolving
  /\ \E e \in EdgeIds \ sled.edges :
       /\ ResolvesEdge(e, q, r)
       /\ AddEdge(e)
  /\ resolving' = resolving \ {<<q, r>>}

(* register_session, under the read lock: the session is not listed yet.    *)
RegisterCheck(s) ==
  /\ phase = "up"
  /\ s \notin RangeOf(session_order)
  /\ registering' = registering \cup {s}
  /\ UNCHANGED <<phase, status, edges, node_order, session_order, resolving,
                 cursor, sled, disk, torn, before>>

(* register_session, under the write lock: look again, then push.           *)
RegisterCommit(s) ==
  /\ s \in registering
  /\ PushSession(s)
  /\ registering' = registering \ {s}
  /\ UNCHANGED <<phase, status, edges, node_order, resolving,
                 cursor, sled, disk, torn, before>>

-------------------------------------------------------------------------------
(* sled (external): flush, the engine's at its end or the one sled's own     *)
(* thread makes from time to time, takes every write to the disk.  Without   *)
(* it a write reaches the disk or is lost with the process, in any           *)
(* combination: `disk` is what the last flush or start is sure of.           *)

Flush ==
  /\ phase # "down"
  /\ disk' = sled
  /\ UNCHANGED <<phase, memory, cursor, sled, torn, before>>

(* The values a key may be left with: each write since the flush or none.   *)
NodeImages(n) == {disk.nodes[n], sled.nodes[n]} \cup
                 (IF disk.nodes[n] = "absent" /\ sled.nodes[n] = "Invalidated"
                  THEN {"Active"} ELSE {})

CrashImages ==
  {[nodes |-> ns, edges |-> es, order |-> os, legacy |-> lg] :
     ns \in {f \in [NodeIds -> Stored] : \A n \in NodeIds : f[n] \in NodeImages(n)},
     es \in {E \in SUBSET sled.edges : disk.edges \subseteq E},
     os \in {f \in [OrderKeys -> NodeIds \cup {Empty}] :
               \A k \in OrderKeys : f[k] \in {disk.order[k], sled.order[k]}},
     lg \in {disk.legacy, sled.legacy}}

(* The process ends, orderly (after its flush) or not.                      *)
ProcessEnds ==
  /\ phase # "down"
  /\ phase' = "down"
  /\ status' = [n \in NodeIds |-> "absent"]
  /\ edges' = {}
  /\ node_order' = <<>>
  /\ session_order' = <<>>
  /\ resolving' = {}
  /\ registering' = {}
  /\ cursor' = 0
  /\ disk' \in CrashImages
  /\ sled' = disk'
  /\ LET lost == torn \/ disk' # sled \/ phase = "migrating"
     IN  Remember(lost, IF phase = "up" THEN Graph ELSE before)

Next ==
  \/ Open \/ LoadEntry \/ LoadDone \/ MigrateEntry \/ MigrateDone
  \/ \E n \in NodeIds : AddNode(n) \/ InvalidateNode(n)
  \/ \E e \in EdgeIds : PostEdge(e)
  \/ \E q, r \in NodeIds : ResolveCheck(q, r) \/ ResolveCommit(q, r)
  \/ \E s \in Sessions : RegisterCheck(s) \/ RegisterCommit(s)
  \/ Flush \/ ProcessEnds

Spec == Init /\ [][Next]_vars
-------------------------------------------------------------------------------
(* Two readers of the graph.                                               *)

(* open_questions: what the linker is offered, through node_order.          *)
ActiveUnresolved(n) ==
  /\ TypeOf[n] = "OpenItem"
  /\ status[n] = "Active"
  /\ ~ \E e \in edges : EdgeOf[e].type = "Resolves" /\ EdgeOf[e].tgt = n
open_questions == {n \in RangeOf(node_order) : ActiveUnresolved(n)}

(* compute_debt's first detector: what is reported, through the graph.      *)
unresolved_items == {n \in NodeIds : ActiveUnresolved(n)}

-------------------------------------------------------------------------------
(* Properties.                                                              *)

(* Every edge of the graph in memory joins two nodes of the graph, also     *)
(* while a database that lost part of its writes is being loaded: readers   *)
(* and compute_debt follow edges without looking at their ends.             *)
EdgesHaveEndpoints == \A e \in edges : Ends(e) \subseteq Known

(* Unless a write was lost, node_order lists exactly the nodes of the graph *)
(* and each of them once, after any number of restarts and a migration: the *)
(* "last N" queries, the brief and the linker see the graph only through    *)
(* this list.                                                               *)
OrderListsNodesOnce ==
  phase = "up" /\ ~torn => Listed(node_order) /\ RangeOf(node_order) = Known

(* A session has one index, whatever calls race to register it; and, unless *)
(* a write was lost, the session of every node has one, so that its age is  *)
(* not taken for zero by compute_debt.                                      *)
SessionsRanked ==
  /\ Listed(session_order)
  /\ phase = "up" /\ ~torn =>
       \A n \in Known : SessionOf[n] \in RangeOf(session_order)

(* Unless a write was lost, the linker is offered, through node_order, the  *)
(* very items that compute_debt, which walks the graph, reports as open.    *)
OpenItemsOffered == phase = "up" /\ ~torn => open_questions = unresolved_items

(* The graph in memory is well-formed, during a load, after a crash, and    *)
(* with calls in flight: its edges have ends, its lists are exact.          *)
WellFormed ==
  /\ EdgesHaveEndpoints
  /\ OrderListsNodesOnce
  /\ SessionsRanked
  /\ OpenItemsOffered

(* The check of resolve_question still holds when its edge is added, though *)
(* the lock was free in between and other calls went through.               *)
ResolveChecksHold ==
  \A call \in resolving : {call[1], call[2]} \subseteq Known

(* What a restart relies on: unless a write was lost, sled holds what the   *)
(* running engine holds, and, while none runs, what the last one held: in   *)
(* the order tree, in the blob, or, during the migration, in both.          *)
Mirrors(list, m) ==
  /\ \A k \in 0..(m - 1) : k \in OrderKeys
  /\ \A k \in OrderKeys : sled.order[k] = IF k < m THEN list[k + 1] ELSE Empty

SledHolds(nodes, links, list) ==
  /\ sled.nodes = nodes
  /\ sled.edges = links
  /\ \/ /\ phase # "migrating"
        /\ sled.legacy = <<>>
        /\ Mirrors(list, Len(list))
     \/ /\ phase \in {"down", "migrating"}
        /\ sled.legacy = list
        /\ list # <<>>
        /\ Mirrors(list, cursor)

SledMirrorsGraph ==
  ~torn => IF phase = "up" THEN SledHolds(status, edges, node_order)
                           ELSE SledHolds(before.status, before.edges, before.order)

(* A process that lost no write starts with the graph the previous one      *)
(* served: statuses, edges and insertion order.                             *)
CleanRestart ==
  [][phase # "up" /\ phase' = "up" /\ ~torn' => Graph' = before]_vars

(* The graph keeps the promise of GraphContract: a node's life never goes   *)
(* back while the engine runs (an invalidated decision is not revived by    *)
(* adding it again), and no crash takes it below what was on disk.          *)
Life == IF phase = "down" THEN sled.nodes ELSE status
Contract == INSTANCE GraphContract WITH life <- Life, floor <- disk.nodes
KeepsContract == Contract!ContractSpec
===============================================================================
