------------------------------ MODULE EngineState ------------------------------
(***************************************************************************)
(* The sessions an engine knows (armin-core/engine/src/state.rs) and what   *)
(* hangs on the current one: the age of open items in the debt report and   *)
(* the risks (armin-core/graph/src/debt.rs, risks.rs), and the baseline     *)
(* that a summary is compared with (summary.rs, routes.rs).                 *)
(*                                                                          *)
(* Every ingested event registers its session; requests are served          *)
(* concurrently, so that registrations and reports interleave.  The graph   *)
(* is persistent, the rest of the state is not.                             *)
(***************************************************************************)
EXTENDS Naturals, Sequences, SequencesExt

CONSTANTS
  Sessions,
  Items,        \* open items
  SessionOf,    \* SessionOf[i]: the session that raised i
  ScratchItems, \* debt that comes from tool calls
  Handlers,     \* requests that ingest an event
  Reports,      \* requests for the debt report
  NoSession     \* the current session of an engine that has had no event

EngineAssumption ==
  /\ SessionOf \in [Items -> Sessions]
  /\ NoSession \notin Sessions
  /\ Items \cap ScratchItems = {}
ASSUME EngineAssumption

VARIABLES
  raised,               \* the graph: open items in order of insertion
  settled,              \* those that are resolved or invalidated
  session_order,        \* the graph's list of sessions
  sessions,             \* the engine's own list
  current_session_idx,
  current_session_id,
  registering,          \* registering[h]: where handler h is in register_session
  scratch,              \* what is owed for tool calls
  reporting,            \* reporting[r]: where report r is
  prior_debt,
  recent                \* history: the sessions registered since none was under way,
                        \* and those current when one was cut off since

graph == <<raised, settled, session_order>>
current == <<sessions, current_session_idx, current_session_id, registering, recent>>
debt_state == <<scratch, reporting, prior_debt>>
vars == <<graph, current, debt_state>>

NotRegistering == [at |-> "idle", session |-> NoSession, idx |-> 0]
NoReport == [made |-> FALSE, items |-> {}]
NotReporting == [at |-> "idle", idx |-> 0, items |-> {}]

TypeOK ==
  /\ raised \in Seq(Items) /\ IsInjective(raised) /\ settled \subseteq ToSet(raised)
  /\ session_order \in Seq(Sessions) /\ IsInjective(session_order)
  /\ sessions \in Seq(Sessions) /\ IsInjective(sessions)
  /\ {SessionOf[i] : i \in ToSet(raised)} \subseteq ToSet(session_order)
  /\ current_session_idx \in Nat
  /\ current_session_id \in Sessions \cup {NoSession}
  /\ registering \in [Handlers -> [at : {"idle", "listed", "ranked", "stored"},
                                   session : Sessions \cup {NoSession},
                                   idx : Nat]]
  /\ scratch \subseteq ScratchItems
  /\ reporting \in [Reports -> [at : {"idle", "loaded", "computed"},
                                idx : Nat,
                                items : SUBSET (Items \cup ScratchItems)]]
  /\ prior_debt \in [made : BOOLEAN, items : SUBSET (Items \cup ScratchItems)]
  /\ recent \subseteq Sessions \cup {NoSession}

-------------------------------------------------------------------------------
(* Sessions.                                                                *)

Position(list, s) == CHOOSE i \in DOMAIN list : list[i] = s
session_index(list, s) == Position(list, s) - 1
With(list, s) == IF s \in ToSet(list) THEN list ELSE Append(list, s)

(* Mutant: the index comes from the engine's own list.                      *)
OwnIndex(s) == session_index(With(sessions, s), s)

(* GraphStore::register_session, one step here, gives the index.            *)
GraphIndex(s) == session_index(With(session_order, s), s)

(* EngineState::register_session: the engine's own list, ...                *)
RegisterList(h, s) ==
  /\ registering[h].at = "idle"
  /\ sessions' = With(sessions, s)
  /\ registering' = [registering EXCEPT ![h] = [at |-> "listed", session |-> s, idx |-> 0]]
  /\ recent' = IF \A k \in Handlers : registering[k].at = "idle" THEN {s} ELSE recent \cup {s}
  /\ UNCHANGED <<graph, current_session_idx, current_session_id, debt_state>>

(* ... the graph's list, from which the index comes, ...                    *)
RegisterGraph(h) ==
  /\ registering[h].at = "listed"
  /\ session_order' = With(session_order, registering[h].session)
  /\ registering' = [registering EXCEPT ![h].at = "ranked",
                                        ![h].idx = GraphIndex(registering[h].session)]
  /\ UNCHANGED <<raised, settled, sessions, current_session_idx, current_session_id, recent,
                 debt_state>>

(* ... the current index ...                                                *)
StoreIndex(h) ==
  /\ registering[h].at = "ranked"
  /\ current_session_idx' = registering[h].idx
  /\ registering' = [registering EXCEPT ![h].at = "stored"]
  /\ UNCHANGED <<graph, sessions, current_session_id, recent, debt_state>>

(* ... and the current id.                                                  *)
StoreId(h) ==
  /\ registering[h].at = "stored"
  /\ current_session_id' = registering[h].session
  /\ registering' = [registering EXCEPT ![h] = NotRegistering]
  /\ UNCHANGED <<graph, sessions, current_session_idx, recent, debt_state>>

(* The client goes away: the handler is dropped where it waits for a lock.  *)
Disconnect(h) ==
  /\ registering[h].at \in {"listed", "stored"}
  /\ registering' = [registering EXCEPT ![h] = NotRegistering]
  /\ recent' = recent \cup {current_session_id} \cup
       {s \in ToSet(session_order) : session_index(session_order, s) = current_session_idx}
  /\ UNCHANGED <<graph, sessions, current_session_idx, current_session_id, debt_state>>

-------------------------------------------------------------------------------
(* The graph, as far as reports depend on it.                               *)

Raise(i) ==
  /\ i \notin ToSet(raised)
  /\ raised' = Append(raised, i)
  /\ session_order' = With(session_order, SessionOf[i])
  /\ UNCHANGED <<settled, current, debt_state>>

Settle(i) ==
  /\ i \in ToSet(raised) \ settled
  /\ settled' = settled \cup {i}
  /\ UNCHANGED <<raised, session_order, current, debt_state>>

-------------------------------------------------------------------------------
(* Reports.                                                                 *)

unresolved == ToSet(raised) \ settled

(* Mutant: the subtraction wraps (at two bits).                             *)
WrappingAge(i, idx) ==
  LET m == session_index(session_order, SessionOf[i])
  IN  (idx + 4 - m) % 4

age(i, idx) ==
  LET m == session_index(session_order, SessionOf[i])
  IN  IF m <= idx THEN idx - m ELSE 0

severity(i, idx) == IF age(i, idx) >= 1 THEN "High" ELSE "Medium"

recency_bonus(i, idx) ==
  LET oldest == IF idx = 0 THEN 0 ELSE idx - 1
  IN  IF session_index(session_order, SessionOf[i]) >= oldest THEN 20 ELSE 5

(* GET /debt: the index is loaded and the scratch layer read (nothing here  *)
(* depends on both), the report is computed, and it is given as the         *)
(* baseline; other requests may come in between.                            *)
DebtLoad(r) ==
  /\ reporting[r].at = "idle"
  /\ reporting' = [reporting EXCEPT ![r] = [at |-> "loaded", idx |-> current_session_idx,
                                            items |-> scratch]]
  /\ UNCHANGED <<graph, current, scratch, prior_debt>>

DebtCompute(r) ==
  /\ reporting[r].at = "loaded"
  /\ reporting' = [reporting EXCEPT ![r].at = "computed", ![r].items = @ \cup unresolved]
  /\ UNCHANGED <<graph, current, scratch, prior_debt>>

DebtStore(r) ==
  /\ reporting[r].at = "computed"
  /\ prior_debt' = [made |-> TRUE, items |-> reporting[r].items]
  /\ reporting' = [reporting EXCEPT ![r] = NotReporting]
  /\ UNCHANGED <<graph, current, scratch>>

ToolCall(owed) == scratch' = owed /\ UNCHANGED <<graph, current, reporting, prior_debt>>

(* Mutant: the differences are taken the other way round.                   *)
DeltaSwapped(debt, prior) ==
  [new |-> prior \ debt, resolved |-> debt \ prior, persisted |-> debt \cap prior]

compute_debt_delta(debt, prior) ==
  [new |-> debt \ prior, resolved |-> prior \ debt, persisted |-> debt \cap prior]

(* The delta in GET /summary, whose report is without scratch items.        *)
debt_delta ==
  IF prior_debt.made THEN compute_debt_delta(unresolved, prior_debt.items)
  ELSE [new |-> unresolved, resolved |-> {}, persisted |-> {}]

-------------------------------------------------------------------------------
(* The sessions of an engine that starts are those of the graph's nodes.    *)
sessions_of(items) ==
  LET order[n \in 0..Len(items)] ==
        IF n = 0 THEN <<>> ELSE With(order[n - 1], SessionOf[items[n]])
  IN  order[Len(items)]

Restart ==
  /\ session_order' = sessions_of(raised)
  /\ sessions' = <<>>
  /\ current_session_idx' = 0
  /\ current_session_id' = NoSession
  /\ registering' = [h \in Handlers |-> NotRegistering]
  /\ recent' = {}
  /\ scratch' = {}
  /\ reporting' = [r \in Reports |-> NotReporting]
  /\ prior_debt' = NoReport
  /\ UNCHANGED <<raised, settled>>

Init ==
  /\ raised = <<>> /\ settled = {} /\ session_order = <<>>
  /\ sessions = <<>>
  /\ current_session_idx = 0 /\ current_session_id = NoSession
  /\ registering = [h \in Handlers |-> NotRegistering]
  /\ recent = {}
  /\ scratch = {}
  /\ reporting = [r \in Reports |-> NotReporting]
  /\ prior_debt = NoReport

Next ==
  \/ \E h \in Handlers, s \in Sessions : RegisterList(h, s)
  \/ \E h \in Handlers : RegisterGraph(h) \/ StoreIndex(h) \/ StoreId(h) \/ Disconnect(h)
  \/ \E i \in Items : Raise(i) \/ Settle(i)
  \/ \E r \in Reports : DebtLoad(r) \/ DebtCompute(r) \/ DebtStore(r)
  \/ \E owed \in SUBSET ScratchItems : ToolCall(owed)
  \/ Restart

Spec == Init /\ [][Next]_vars

-------------------------------------------------------------------------------
(* Properties.                                                              *)

(* When no registration is under way, the current index and the current id  *)
(* are those of sessions that were registered since the last such moment: of *)
(* the same one, if registrations did not overlap.  (One that is cut off may *)
(* leave its index with the id of the session before.)  "The index comes    *)
(* from the graph's own session order": also after restarts, and when agents *)
(* raise items in sessions that no event came from.                         *)
IndexIsRecent ==
  (\A h \in Handlers : registering[h].at = "idle") /\ recent # {} =>
    /\ current_session_id \in recent
    /\ \/ NoSession \in recent /\ current_session_idx = 0
       \/ \E s \in recent \cap ToSet(session_order) :
            session_index(session_order, s) = current_session_idx

Inv == TypeOK /\ IndexIsRecent

(* Whatever session is current, an item of an earlier session is at least   *)
(* as severe in the debt report as one of a later session, and as a risk    *)
(* gets no more for being recent.                                           *)
OlderIsNotMilder ==
  \A i, j \in unresolved :
    session_index(session_order, SessionOf[i]) <= session_index(session_order, SessionOf[j]) =>
      \A idx \in {current_session_idx} \cup {reporting[r].idx : r \in Reports} :
        /\ severity(j, idx) = "High" => severity(i, idx) = "High"
        /\ recency_bonus(i, idx) <= recency_bonus(j, idx)

(* An open item that a summary counts as resolved is settled, and one that  *)
(* it counts as new or persisted is not, whatever came between computing    *)
(* the report and storing it as the baseline.                               *)
ResolvedIsSettled ==
  /\ debt_delta.resolved \cap Items \subseteq settled
  /\ (debt_delta.new \cup debt_delta.persisted) \cap settled = {}
===============================================================================
