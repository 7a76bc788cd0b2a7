--------------------------- MODULE EngineStateProofs ---------------------------
(***************************************************************************)
(* Proofs about EngineState, for any sessions, items, handlers and reports. *)
(*                                                                          *)
(* Which session is current is a matter of several handlers and four steps  *)
(* each; the invariant says what a handler knows at each of them.  The list *)
(* that a start makes of the graph's nodes is a recursive function: that it *)
(* is well defined, and what it returns, is proved by the least number      *)
(* principle, which follows from the well-foundedness of < on Nat.          *)
(***************************************************************************)
EXTENDS EngineState, WellFoundedInduction, TLAPS

Registering(h) == registering[h].at # "idle"

(* A list of sessions as the code keeps it: one entry per session.          *)
IsList(list) == list \in Seq(Sessions) /\ IsInjective(list)

(* A handler under way has a session of recent; once it has been to the     *)
(* graph, that one is listed, and until the index is stored at the place    *)
(* the handler was given.                                                   *)
HandlersOK ==
  \A h \in Handlers : Registering(h) =>
    /\ registering[h].session \in recent \cap Sessions
    /\ registering[h].at \in {"ranked", "stored"} =>
         registering[h].session \in ToSet(session_order)
    /\ registering[h].at = "ranked" =>
         registering[h].idx = session_index(session_order, registering[h].session)

(* The current index is a place on the list, except in an engine that has   *)
(* listed no session.                                                       *)
IndexListed ==
  /\ current_session_idx = 0 \/ current_session_idx < Len(session_order)
  /\ session_order = <<>> => current_session_id = NoSession

(* The current index is of a recent session, or about to be.                *)
IndexOK ==
  recent # {} =>
    \/ \E h \in Handlers : registering[h].at \in {"listed", "ranked"}
    \/ NoSession \in recent /\ current_session_idx = 0
    \/ \E s \in recent \cap ToSet(session_order) :
         session_index(session_order, s) = current_session_idx

IdOK ==
  recent # {} => current_session_id \in recent \/ \E h \in Handlers : Registering(h)

(* Reports are made of items of the graph and of tool calls.                *)
ReportsOK ==
  /\ \A r \in Reports : reporting[r].items \cap Items \subseteq ToSet(raised)
  /\ prior_debt.items \cap Items \subseteq ToSet(raised)

IInv == TypeOK /\ HandlersOK /\ IndexListed /\ IndexOK /\ IdOK /\ ReportsOK

-------------------------------------------------------------------------------
(* The least number principle, for sets.                                    *)

LEMMA LeastNumber ==
  ASSUME NEW T \in SUBSET Nat, T # {}
  PROVE  \E m \in T : \A k \in T : m <= k
<1> DEFINE R == {ss \in Nat \X Nat : ss[1] < ss[2]}
<1>1. IsWellFoundedOn(R, Nat)
  BY NatLessThanWellFounded, Zenon DEF OpToRel
<1>2. \E m \in T : \A k \in T : ~(<<k, m>> \in R)
  <2> HIDE DEF R
  <2> QED
    BY <1>1, WFMin, Zenon
<1>3. PICK m \in T : \A k \in T : ~(<<k, m>> \in R)
  BY <1>2
<1>4. ASSUME NEW k \in T PROVE m <= k
  <2>1. ~(<<k, m>> \in R)
    BY <1>3
  <2> QED
    BY <2>1
<1> QED
  BY <1>4

-------------------------------------------------------------------------------
(* Lists of sessions.                                                       *)

LEMMA PositionOf ==
  ASSUME NEW list \in Seq(Sessions), NEW s \in ToSet(list)
  PROVE  Position(list, s) \in 1..Len(list) /\ list[Position(list, s)] = s
<1>1. \E i \in DOMAIN list : list[i] = s
  BY DEF ToSet
<1> QED
  BY <1>1 DEF Position

LEMMA PositionAt ==
  ASSUME NEW list, IsList(list), NEW i \in 1..Len(list)
  PROVE  list[i] \in ToSet(list) /\ Position(list, list[i]) = i
<1>1. list[i] \in ToSet(list)
  BY DEF ToSet
<1>2. Position(list, list[i]) \in 1..Len(list) /\ list[Position(list, list[i])] = list[i]
  BY <1>1, PositionOf DEF IsList
<1> QED
  BY <1>1, <1>2 DEF IsList, IsInjective

LEMMA IndexIsNat ==
  ASSUME NEW list \in Seq(Sessions), NEW s \in ToSet(list)
  PROVE  session_index(list, s) \in Nat /\ session_index(list, s) < Len(list)
BY PositionOf DEF session_index

(* Adding a session keeps the list one, and every place on it.              *)
LEMMA WithIsList ==
  ASSUME NEW list, IsList(list), NEW s \in Sessions
  PROVE  /\ IsList(With(list, s))
         /\ ToSet(With(list, s)) = ToSet(list) \cup {s}
         /\ Len(With(list, s)) >= Len(list) /\ Len(With(list, s)) > 0
<1>1. CASE s \in ToSet(list)
  <2>1. With(list, s) = list
    BY <1>1 DEF With
  <2>2. Len(list) > 0
    BY <1>1 DEF ToSet
  <2> QED
    BY <1>1, <2>1, <2>2 DEF IsList
<1>2. CASE s \notin ToSet(list)
  <2> DEFINE longer == Append(list, s)
  <2>1. With(list, s) = longer
    BY <1>2 DEF With
  <2>2. /\ longer \in Seq(Sessions) /\ Len(longer) = Len(list) + 1
        /\ DOMAIN longer = 1..Len(list) + 1 /\ DOMAIN list = 1..Len(list)
        /\ \A i \in 1..Len(list) : longer[i] = list[i]
        /\ longer[Len(list) + 1] = s
    BY DEF IsList
  <2>3. IsInjective(longer)
    BY <1>2, <2>2 DEF IsInjective, IsList, ToSet
  <2>4. ToSet(longer) = ToSet(list) \cup {s}
    BY <2>2 DEF ToSet
  <2> QED
    BY <2>1, <2>2, <2>3, <2>4 DEF IsList
<1> QED
  BY <1>1, <1>2

LEMMA WithKeepsIndex ==
  ASSUME NEW list, IsList(list), NEW s \in Sessions, NEW t \in ToSet(list)
  PROVE  session_index(With(list, s), t) = session_index(list, t)
<1>1. PICK i \in 1..Len(list) : list[i] = t
  BY DEF ToSet
<1>2. With(list, s)[i] = t /\ i \in 1..Len(With(list, s))
  BY <1>1 DEF With
<1>3. Position(list, t) = i
  BY <1>1, PositionAt
<1>4. Position(With(list, s), t) = i
  BY <1>2, PositionAt, WithIsList
<1> QED
  BY <1>3, <1>4 DEF session_index
-------------------------------------------------------------------------------
(* The list of a start.                                                     *)

IsOrder(f, items, n) ==
  f = [k \in 0..n |-> IF k = 0 THEN <<>> ELSE With(f[k - 1], SessionOf[items[k]])]

(* The recursion has a solution up to any length.                           *)
LEMMA OrderExists ==
  ASSUME NEW items, NEW n \in Nat
  PROVE  \E f : IsOrder(f, items, n)
<1> DEFINE T == {m \in Nat : ~\E f : IsOrder(f, items, m)}
<1>1. SUFFICES ASSUME T # {} PROVE FALSE
  OBVIOUS
<1>2. PICK m \in T : \A k \in T : m <= k
  <2> HIDE DEF T
  <2>1. T \subseteq Nat
    BY DEF T
  <2> QED
    BY <1>1, <2>1, LeastNumber
<1>3. CASE m = 0
  <2> DEFINE f == [k \in 0..0 |-> <<>>]
  <2>1. IsOrder(f, items, 0)
    BY DEF IsOrder
  <2> QED
    BY <1>3, <2>1
<1>4. CASE m # 0
  <2>1. m - 1 \in Nat /\ m - 1 \notin T
    BY <1>2, <1>4
  <2>2. PICK f : IsOrder(f, items, m - 1)
    BY <2>1
  <2> DEFINE g == [k \in 0..m |-> IF k < m THEN f[k] ELSE With(f[m - 1], SessionOf[items[m]])]
  <2>3. ASSUME NEW k \in 0..m
        PROVE  g[k] = IF k = 0 THEN <<>> ELSE With(g[k - 1], SessionOf[items[k]])
    <3>1. CASE k = 0
      BY <1>4, <2>2, <3>1 DEF IsOrder
    <3>2. CASE k # 0 /\ k < m
      <4>1. g[k] = f[k] /\ g[k - 1] = f[k - 1]
        BY <3>2
      <4>2. f[k] = With(f[k - 1], SessionOf[items[k]])
        BY <2>2, <3>2 DEF IsOrder
      <4> QED
        BY <3>2, <4>1, <4>2
    <3>3. CASE k = m
      <4>1. g[k] = With(f[m - 1], SessionOf[items[m]]) /\ g[k - 1] = f[m - 1]
        BY <1>4, <3>3
      <4> QED
        BY <1>4, <3>3, <4>1
    <3> QED
      BY <3>1, <3>2, <3>3
  <2>4. IsOrder(g, items, m)
    <3> HIDE DEF g
    <3>1. g = [k \in 0..m |-> g[k]]
      BY DEF g
    <3>2. [k \in 0..m |-> g[k]]
            = [k \in 0..m |-> IF k = 0 THEN <<>> ELSE With(g[k - 1], SessionOf[items[k]])]
      BY <2>3
    <3> QED
      BY <3>1, <3>2, Zenon DEF IsOrder
  <2> QED
    BY <2>4
<1> QED
  BY <1>3, <1>4

(* What a start finds: one entry for every session that has a node.         *)
LEMMA SessionsOf ==
  ASSUME NEW items \in Seq(Items)
  PROVE  /\ IsList(sessions_of(items))
         /\ ToSet(sessions_of(items)) = {SessionOf[i] : i \in ToSet(items)}
<1> DEFINE order == CHOOSE f : IsOrder(f, items, Len(items))
           Listed(n) == {SessionOf[items[k]] : k \in 1..n}
           Good(n) == IsList(order[n]) /\ ToSet(order[n]) = Listed(n)
<1>1. sessions_of(items) = order[Len(items)]
  BY Zenon DEF sessions_of, IsOrder
<1>2. IsOrder(order, items, Len(items))
  BY OrderExists
<1> HIDE DEF order
<1>3. ASSUME NEW n \in 0..Len(items)
      PROVE  order[n] = IF n = 0 THEN <<>> ELSE With(order[n - 1], SessionOf[items[n]])
  BY <1>2 DEF IsOrder
<1>4. Good(0)
  <2>1. IsList(<<>>) /\ ToSet(<<>>) = {}
    BY DEF IsList, IsInjective, ToSet
  <2> QED
    BY <1>3, <2>1
<1>5. ASSUME NEW n \in 1..Len(items), Good(n - 1)
      PROVE  Good(n)
  <2>1. SessionOf[items[n]] \in Sessions
    BY EngineAssumption DEF EngineAssumption
  <2>2. order[n] = With(order[n - 1], SessionOf[items[n]])
    BY <1>3
  <2>3. IsList(order[n]) /\ ToSet(order[n]) = Listed(n - 1) \cup {SessionOf[items[n]]}
    BY <1>5, <2>1, <2>2, WithIsList
  <2>4. Listed(n) = Listed(n - 1) \cup {SessionOf[items[n]]}
    OBVIOUS
  <2> QED
    BY <2>3, <2>4
<1>6. \A n \in 0..Len(items) : Good(n)
  <2> DEFINE T == {m \in 0..Len(items) : ~Good(m)}
  <2>1. SUFFICES ASSUME T # {} PROVE FALSE
    OBVIOUS
  <2>2. PICK m \in T : \A k \in T : m <= k
    <3> HIDE DEF T
    <3>1. T \subseteq Nat
      BY DEF T
    <3> QED
      BY <2>1, <3>1, LeastNumber
  <2>3. m # 0
    <3> HIDE DEF Good
    <3> QED
      BY <1>4
  <2>4. m \in 1..Len(items) /\ m - 1 \notin T
    <3> HIDE DEF Good
    <3> QED
      BY <2>2, <2>3
  <2>5. Good(m - 1)
    <3> HIDE DEF Good
    <3> QED
      BY <2>4
  <2> QED
    BY <1>5, <2>2, <2>4, <2>5
<1>7. Listed(Len(items)) = {SessionOf[i] : i \in ToSet(items)}
  <2>1. DOMAIN items = 1..Len(items)
    OBVIOUS
  <2> QED
    BY <2>1 DEF ToSet
<1>8. Good(Len(items))
  <2> HIDE DEF Good
  <2> QED
    BY <1>6
<1> HIDE DEF Listed
<1> QED
  BY <1>1, <1>7, <1>8
-------------------------------------------------------------------------------
(* Types.                                                                   *)

LEMMA AppendNew ==
  ASSUME NEW S, NEW list \in Seq(S), IsInjective(list), NEW e \in S, e \notin ToSet(list)
  PROVE  /\ Append(list, e) \in Seq(S) /\ IsInjective(Append(list, e))
         /\ ToSet(Append(list, e)) = ToSet(list) \cup {e}
<1> DEFINE longer == Append(list, e)
<1>1. /\ longer \in Seq(S) /\ Len(longer) = Len(list) + 1
      /\ DOMAIN longer = 1..Len(list) + 1 /\ DOMAIN list = 1..Len(list)
      /\ \A i \in 1..Len(list) : longer[i] = list[i]
      /\ longer[Len(list) + 1] = e
  OBVIOUS
<1>2. IsInjective(longer)
  BY <1>1 DEF IsInjective, ToSet
<1>3. ToSet(longer) = ToSet(list) \cup {e}
  BY <1>1 DEF ToSet
<1> QED
  BY <1>1, <1>2, <1>3

LEMMA TypeStep ==
  ASSUME TypeOK, HandlersOK, [Next]_vars
  PROVE  TypeOK'
<1> USE DEF graph, current, debt_state
<1>1. ASSUME NEW h \in Handlers, NEW s \in Sessions, RegisterList(h, s)
      PROVE  TypeOK'
  <2>1. IsList(sessions')
    BY <1>1, WithIsList DEF RegisterList, TypeOK, IsList
  <2> QED
    BY <1>1, <2>1 DEF RegisterList, TypeOK, IsList
<1>2. ASSUME NEW h \in Handlers, RegisterGraph(h)
      PROVE  TypeOK'
  <2>1. registering[h].session \in Sessions
    BY <1>2 DEF RegisterGraph, HandlersOK, Registering
  <2>2. IsList(session_order') /\ ToSet(session_order) \subseteq ToSet(session_order')
    BY <1>2, <2>1, WithIsList DEF RegisterGraph, TypeOK, IsList
  <2>3. GraphIndex(registering[h].session) \in Nat
    BY <2>1, WithIsList, IndexIsNat DEF GraphIndex, TypeOK, IsList
  <2>4. registering' \in [Handlers -> [at : {"idle", "listed", "ranked", "stored"},
                                       session : Sessions \cup {NoSession}, idx : Nat]]
    <3>1. registering' = [registering EXCEPT ![h].at = "ranked",
                                             ![h].idx = GraphIndex(registering[h].session)]
      BY <1>2 DEF RegisterGraph
    <3>2. registering \in [Handlers -> [at : {"idle", "listed", "ranked", "stored"},
                                       session : Sessions \cup {NoSession}, idx : Nat]]
      BY DEF TypeOK
    <3> DEFINE rank == GraphIndex(registering[h].session)
    <3> HIDE DEF rank
    <3>3. registering' = [registering EXCEPT ![h].at = "ranked", ![h].idx = rank]
      BY <3>1 DEF rank
    <3>4. rank \in Nat
      BY <2>3 DEF rank
    <3> QED
      BY <3>2, <3>3, <3>4
  <2>5. {SessionOf[i] : i \in ToSet(raised)} \subseteq ToSet(session_order')
    BY <2>2, Zenon DEF TypeOK
  <2> QED
    BY <1>2, <2>2, <2>4, <2>5 DEF RegisterGraph, TypeOK, IsList
<1>3. ASSUME NEW h \in Handlers, StoreIndex(h)
      PROVE  TypeOK'
  BY <1>3 DEF StoreIndex, TypeOK
<1>4. ASSUME NEW h \in Handlers, StoreId(h)
      PROVE  TypeOK'
  BY <1>4 DEF StoreId, TypeOK, NotRegistering
<1>5. ASSUME NEW h \in Handlers, Disconnect(h)
      PROVE  TypeOK'
  <2>1. recent' \subseteq Sessions \cup {NoSession}
    <3>1. ToSet(session_order) \subseteq Sessions
      BY DEF TypeOK, ToSet
    <3> QED
      BY <1>5, <3>1 DEF Disconnect, TypeOK
  <2> QED
    BY <1>5, <2>1 DEF Disconnect, TypeOK, NotRegistering
<1>6. ASSUME NEW i \in Items, Raise(i)
      PROVE  TypeOK'
  <2>1. SessionOf[i] \in Sessions
    BY EngineAssumption DEF EngineAssumption
  <2>2. /\ IsList(session_order')
        /\ ToSet(session_order') = ToSet(session_order) \cup {SessionOf[i]}
    BY <1>6, <2>1, WithIsList DEF Raise, TypeOK, IsList
  <2>3. raised' \in Seq(Items) /\ IsInjective(raised') /\ ToSet(raised') = ToSet(raised) \cup {i}
    BY <1>6, AppendNew DEF Raise, TypeOK
  <2> QED
    BY <1>6, <2>2, <2>3 DEF Raise, TypeOK, IsList
<1>7. ASSUME NEW i \in Items, Settle(i)
      PROVE  TypeOK'
  BY <1>7 DEF Settle, TypeOK
<1>8. ASSUME NEW r \in Reports, DebtLoad(r)
      PROVE  TypeOK'
  BY <1>8 DEF DebtLoad, TypeOK
<1>9. ASSUME NEW r \in Reports, DebtCompute(r)
      PROVE  TypeOK'
  <2>1. unresolved \subseteq Items
    BY DEF TypeOK, ToSet, unresolved
  <2>2. reporting' \in [Reports -> [at : {"idle", "loaded", "computed"}, idx : Nat,
                                   items : SUBSET (Items \cup ScratchItems)]]
    <3>1. reporting' = [reporting EXCEPT ![r].at = "computed", ![r].items = @ \cup unresolved]
      BY <1>9 DEF DebtCompute
    <3>2. reporting \in [Reports -> [at : {"idle", "loaded", "computed"}, idx : Nat,
                                    items : SUBSET (Items \cup ScratchItems)]]
      BY DEF TypeOK
    <3> HIDE DEF unresolved, TypeOK
    <3> QED
      BY <2>1, <3>1, <3>2
  <2> QED
    BY <1>9, <2>2 DEF DebtCompute, TypeOK
<1>10. ASSUME NEW r \in Reports, DebtStore(r)
      PROVE  TypeOK'
  BY <1>10 DEF DebtStore, TypeOK, NotReporting
<1>11. ASSUME NEW owed \in SUBSET ScratchItems, ToolCall(owed)
      PROVE  TypeOK'
  BY <1>11 DEF ToolCall, TypeOK
<1>12. CASE Restart
  <2>1. /\ IsList(session_order')
        /\ ToSet(session_order') = {SessionOf[i] : i \in ToSet(raised)}
    BY <1>12, SessionsOf DEF Restart, TypeOK
  <2>2. sessions' \in Seq(Sessions) /\ IsInjective(sessions')
    BY <1>12 DEF Restart, IsInjective
  <2> QED
    BY <1>12, <2>1, <2>2 DEF Restart, TypeOK, IsList, NotRegistering,
       NotReporting, NoReport
<1>13. CASE UNCHANGED vars
  BY <1>13 DEF vars, TypeOK
<1> QED
  BY <1>1, <1>2, <1>3, <1>4, <1>5, <1>6, <1>7, <1>8, <1>9, <1>10, <1>11, <1>12,
     <1>13 DEF Next
-------------------------------------------------------------------------------
(* The current session.                                                     *)

(* What the graph's list gains: a session, at no other's expense.           *)
LEMMA ListGrows ==
  ASSUME TypeOK, NEW s \in Sessions, session_order' = With(session_order, s)
  PROVE  /\ IsList(session_order) /\ IsList(session_order')
         /\ ToSet(session_order') = ToSet(session_order) \cup {s}
         /\ Len(session_order') >= Len(session_order) /\ Len(session_order') > 0
         /\ \A t \in ToSet(session_order) :
              session_index(session_order', t) = session_index(session_order, t)
<1>1. IsList(session_order)
  BY DEF TypeOK, IsList
<1> QED
  BY <1>1, WithIsList, WithKeepsIndex

LEMMA RegisterGrows ==
  ASSUME TypeOK, HandlersOK, NEW h \in Handlers, RegisterGraph(h)
  PROVE  /\ registering[h].session \in Sessions
         /\ session_order' = With(session_order, registering[h].session)
BY DEF RegisterGraph, HandlersOK, Registering

LEMMA RaiseGrows ==
  ASSUME NEW i \in Items, Raise(i)
  PROVE  SessionOf[i] \in Sessions /\ session_order' = With(session_order, SessionOf[i])
BY EngineAssumption DEF Raise, EngineAssumption

LEMMA HandlersStep ==
  ASSUME TypeOK, HandlersOK, [Next]_vars
  PROVE  HandlersOK'
<1> USE DEF graph, current, debt_state
<1>1. ASSUME NEW h \in Handlers, NEW s \in Sessions, RegisterList(h, s)
      PROVE  HandlersOK'
  <2>1. registering' = [registering EXCEPT ![h] = [at |-> "listed", session |-> s, idx |-> 0]]
        /\ s \in recent' /\ session_order' = session_order
    BY <1>1 DEF RegisterList
  <2>2. ASSUME NEW k \in Handlers, k # h, Registering(k)
        PROVE  recent \subseteq recent'
    BY <1>1, <2>2 DEF RegisterList, Registering
  <2> QED
    BY <2>1, <2>2 DEF HandlersOK, Registering, TypeOK
<1>2. ASSUME NEW h \in Handlers, RegisterGraph(h)
      PROVE  HandlersOK'
  <2>1. /\ ToSet(session_order') = ToSet(session_order) \cup {registering[h].session}
        /\ \A t \in ToSet(session_order) :
             session_index(session_order', t) = session_index(session_order, t)
    BY <1>2, RegisterGrows, ListGrows
  <2>2. GraphIndex(registering[h].session) = session_index(session_order', registering[h].session)
    BY <1>2 DEF RegisterGraph, GraphIndex
  <2>3. /\ registering[h].at = "listed" /\ recent' = recent
        /\ registering' = [registering EXCEPT ![h].at = "ranked",
                                              ![h].idx = GraphIndex(registering[h].session)]
    BY <1>2 DEF RegisterGraph
  <2>4. ASSUME NEW k \in Handlers, Registering(k)'
        PROVE  /\ registering'[k].session = registering[k].session
               /\ Registering(k)
    BY <2>3, <2>4 DEF Registering, TypeOK
  <2>5. registering'[h].at = "ranked" /\ registering'[h].idx = GraphIndex(registering[h].session)
    BY <2>3 DEF TypeOK
  <2>6. \A k \in Handlers \ {h} : registering'[k] = registering[k]
    BY <2>3 DEF TypeOK
  <2> HIDE DEF session_index
  <2> QED
    BY <2>1, <2>2, <2>3, <2>4, <2>5, <2>6 DEF HandlersOK
<1>3. ASSUME NEW h \in Handlers, StoreIndex(h)
      PROVE  HandlersOK'
  BY <1>3 DEF StoreIndex, HandlersOK, Registering
<1>4. ASSUME NEW h \in Handlers, StoreId(h)
      PROVE  HandlersOK'
  BY <1>4 DEF StoreId, HandlersOK, Registering, NotRegistering
<1>5. ASSUME NEW h \in Handlers, Disconnect(h)
      PROVE  HandlersOK'
  BY <1>5 DEF Disconnect, HandlersOK, Registering, NotRegistering
<1>6. ASSUME NEW i \in Items, Raise(i)
      PROVE  HandlersOK'
  <2>1. /\ ToSet(session_order') = ToSet(session_order) \cup {SessionOf[i]}
        /\ \A t \in ToSet(session_order) :
             session_index(session_order', t) = session_index(session_order, t)
    BY <1>6, RaiseGrows, ListGrows
  <2> QED
    BY <1>6, <2>1 DEF Raise, HandlersOK, Registering
<1>7. ASSUME NEW i \in Items, Settle(i)
      PROVE  HandlersOK'
  BY <1>7 DEF Settle, HandlersOK, Registering
<1>8. ASSUME NEW r \in Reports, DebtLoad(r)
      PROVE  HandlersOK'
  BY <1>8 DEF DebtLoad, HandlersOK, Registering
<1>9. ASSUME NEW r \in Reports, DebtCompute(r)
      PROVE  HandlersOK'
  BY <1>9 DEF DebtCompute, HandlersOK, Registering
<1>10. ASSUME NEW r \in Reports, DebtStore(r)
      PROVE  HandlersOK'
  BY <1>10 DEF DebtStore, HandlersOK, Registering
<1>11. ASSUME NEW owed \in SUBSET ScratchItems, ToolCall(owed)
      PROVE  HandlersOK'
  BY <1>11 DEF ToolCall, HandlersOK, Registering
<1>12. CASE Restart
  BY <1>12 DEF Restart, HandlersOK, Registering, NotRegistering
<1>13. CASE UNCHANGED vars
  BY <1>13 DEF vars, HandlersOK, Registering
<1> QED
  BY <1>1, <1>2, <1>3, <1>4, <1>5, <1>6, <1>7, <1>8, <1>9, <1>10, <1>11, <1>12,
     <1>13 DEF Next

LEMMA ListedStep ==
  ASSUME TypeOK, HandlersOK, IndexListed, [Next]_vars
  PROVE  IndexListed'
<1> USE DEF graph, current, debt_state
<1>1. ASSUME NEW h \in Handlers, NEW s \in Sessions, RegisterList(h, s)
      PROVE  IndexListed'
  BY <1>1 DEF RegisterList, IndexListed
<1>2. ASSUME NEW h \in Handlers, RegisterGraph(h)
      PROVE  IndexListed'
  <2>1. Len(session_order') >= Len(session_order) /\ Len(session_order') > 0
    BY <1>2, RegisterGrows, ListGrows
  <2> QED
    BY <1>2, <2>1 DEF RegisterGraph, IndexListed, TypeOK
<1>3. ASSUME NEW h \in Handlers, StoreIndex(h)
      PROVE  IndexListed'
  <2>1. registering[h].idx < Len(session_order)
    BY <1>3, IndexIsNat DEF StoreIndex, HandlersOK, Registering, TypeOK
  <2> QED
    BY <1>3, <2>1 DEF StoreIndex, IndexListed
<1>4. ASSUME NEW h \in Handlers, StoreId(h)
      PROVE  IndexListed'
  <2>1. session_order # <<>>
    BY <1>4 DEF StoreId, HandlersOK, Registering, ToSet
  <2> QED
    BY <1>4, <2>1 DEF StoreId, IndexListed
<1>5. ASSUME NEW h \in Handlers, Disconnect(h)
      PROVE  IndexListed'
  BY <1>5 DEF Disconnect, IndexListed
<1>6. ASSUME NEW i \in Items, Raise(i)
      PROVE  IndexListed'
  <2>1. Len(session_order') >= Len(session_order) /\ Len(session_order') > 0
    BY <1>6, RaiseGrows, ListGrows
  <2> QED
    BY <1>6, <2>1 DEF Raise, IndexListed, TypeOK
<1>7. ASSUME NEW i \in Items, Settle(i)
      PROVE  IndexListed'
  BY <1>7 DEF Settle, IndexListed
<1>8. ASSUME NEW r \in Reports, DebtLoad(r)
      PROVE  IndexListed'
  BY <1>8 DEF DebtLoad, IndexListed
<1>9. ASSUME NEW r \in Reports, DebtCompute(r)
      PROVE  IndexListed'
  BY <1>9 DEF DebtCompute, IndexListed
<1>10. ASSUME NEW r \in Reports, DebtStore(r)
      PROVE  IndexListed'
  BY <1>10 DEF DebtStore, IndexListed
<1>11. ASSUME NEW owed \in SUBSET ScratchItems, ToolCall(owed)
      PROVE  IndexListed'
  BY <1>11 DEF ToolCall, IndexListed
<1>12. CASE Restart
  BY <1>12 DEF Restart, IndexListed
<1>13. CASE UNCHANGED vars
  BY <1>13 DEF vars, IndexListed
<1> QED
  BY <1>1, <1>2, <1>3, <1>4, <1>5, <1>6, <1>7, <1>8, <1>9, <1>10, <1>11, <1>12,
     <1>13 DEF Next
LEMMA IndexStep ==
  ASSUME TypeOK, HandlersOK, IndexListed, IndexOK, [Next]_vars
  PROVE  IndexOK'
<1> USE DEF graph, current, debt_state
<1>1. ASSUME NEW h \in Handlers, NEW s \in Sessions, RegisterList(h, s)
      PROVE  IndexOK'
  BY <1>1 DEF RegisterList, IndexOK, TypeOK
<1>2. ASSUME NEW h \in Handlers, RegisterGraph(h)
      PROVE  IndexOK'
  BY <1>2 DEF RegisterGraph, IndexOK, TypeOK
<1>3. ASSUME NEW h \in Handlers, StoreIndex(h)
      PROVE  IndexOK'
  <2>1. /\ registering[h].session \in recent' \cap ToSet(session_order')
        /\ session_index(session_order', registering[h].session) = current_session_idx'
    BY <1>3 DEF StoreIndex, HandlersOK, Registering
  <2> HIDE DEF session_index
  <2> QED
    BY <2>1 DEF IndexOK
<1>4. ASSUME NEW h \in Handlers, StoreId(h)
      PROVE  IndexOK'
  BY <1>4 DEF StoreId, IndexOK
<1>5. ASSUME NEW h \in Handlers, Disconnect(h)
      PROVE  IndexOK'
  <2>1. CASE session_order = <<>>
    <3>1. current_session_idx = 0 /\ current_session_id = NoSession
      BY <2>1 DEF IndexListed, TypeOK
    <3> QED
      BY <1>5, <3>1 DEF Disconnect, IndexOK
  <2>2. CASE session_order # <<>>
    <3> DEFINE s == session_order[current_session_idx + 1]
    <3>1. current_session_idx + 1 \in 1..Len(session_order)
      BY <2>2 DEF IndexListed, TypeOK
    <3>2. s \in ToSet(session_order) /\ session_index(session_order, s) = current_session_idx
      BY <3>1, PositionAt DEF session_index, TypeOK, IsList
    <3>3. /\ s \in recent' /\ session_order' = session_order
          /\ current_session_idx' = current_session_idx
      BY <1>5, <3>2 DEF Disconnect
    <3> HIDE DEF s
    <3> QED
      BY <3>2, <3>3 DEF IndexOK
  <2> QED
    BY <2>1, <2>2
<1>6. ASSUME NEW i \in Items, Raise(i)
      PROVE  IndexOK'
  <2>1. /\ ToSet(session_order') = ToSet(session_order) \cup {SessionOf[i]}
        /\ \A t \in ToSet(session_order) :
             session_index(session_order', t) = session_index(session_order, t)
    BY <1>6, RaiseGrows, ListGrows
  <2>2. UNCHANGED current
    BY <1>6 DEF Raise
  <2> HIDE DEF session_index
  <2> QED
    BY <2>1, <2>2 DEF IndexOK
<1>7. ASSUME NEW i \in Items, Settle(i)
      PROVE  IndexOK'
  BY <1>7 DEF Settle, IndexOK
<1>8. ASSUME NEW r \in Reports, DebtLoad(r)
      PROVE  IndexOK'
  BY <1>8 DEF DebtLoad, IndexOK
<1>9. ASSUME NEW r \in Reports, DebtCompute(r)
      PROVE  IndexOK'
  BY <1>9 DEF DebtCompute, IndexOK
<1>10. ASSUME NEW r \in Reports, DebtStore(r)
      PROVE  IndexOK'
  BY <1>10 DEF DebtStore, IndexOK
<1>11. ASSUME NEW owed \in SUBSET ScratchItems, ToolCall(owed)
      PROVE  IndexOK'
  BY <1>11 DEF ToolCall, IndexOK
<1>12. CASE Restart
  BY <1>12 DEF Restart, IndexOK
<1>13. CASE UNCHANGED vars
  BY <1>13 DEF vars, IndexOK
<1> QED
  BY <1>1, <1>2, <1>3, <1>4, <1>5, <1>6, <1>7, <1>8, <1>9, <1>10, <1>11, <1>12,
     <1>13 DEF Next

LEMMA IdStep ==
  ASSUME TypeOK, HandlersOK, IdOK, [Next]_vars
  PROVE  IdOK'
<1> USE DEF graph, current, debt_state
<1>1. ASSUME NEW h \in Handlers, NEW s \in Sessions, RegisterList(h, s)
      PROVE  IdOK'
  BY <1>1 DEF RegisterList, IdOK, Registering, TypeOK
<1>2. ASSUME NEW h \in Handlers, RegisterGraph(h)
      PROVE  IdOK'
  BY <1>2 DEF RegisterGraph, IdOK, Registering, TypeOK
<1>3. ASSUME NEW h \in Handlers, StoreIndex(h)
      PROVE  IdOK'
  BY <1>3 DEF StoreIndex, IdOK, Registering
<1>4. ASSUME NEW h \in Handlers, StoreId(h)
      PROVE  IdOK'
  BY <1>4 DEF StoreId, HandlersOK, IdOK, Registering
<1>5. ASSUME NEW h \in Handlers, Disconnect(h)
      PROVE  IdOK'
  BY <1>5 DEF Disconnect, IdOK
<1>6. ASSUME NEW i \in Items, Raise(i)
      PROVE  IdOK'
  BY <1>6 DEF Raise, IdOK, Registering
<1>7. ASSUME NEW i \in Items, Settle(i)
      PROVE  IdOK'
  BY <1>7 DEF Settle, IdOK, Registering
<1>8. ASSUME NEW r \in Reports, DebtLoad(r)
      PROVE  IdOK'
  BY <1>8 DEF DebtLoad, IdOK, Registering
<1>9. ASSUME NEW r \in Reports, DebtCompute(r)
      PROVE  IdOK'
  BY <1>9 DEF DebtCompute, IdOK, Registering
<1>10. ASSUME NEW r \in Reports, DebtStore(r)
      PROVE  IdOK'
  BY <1>10 DEF DebtStore, IdOK, Registering
<1>11. ASSUME NEW owed \in SUBSET ScratchItems, ToolCall(owed)
      PROVE  IdOK'
  BY <1>11 DEF ToolCall, IdOK, Registering
<1>12. CASE Restart
  BY <1>12 DEF Restart, IdOK
<1>13. CASE UNCHANGED vars
  BY <1>13 DEF vars, IdOK, Registering
<1> QED
  BY <1>1, <1>2, <1>3, <1>4, <1>5, <1>6, <1>7, <1>8, <1>9, <1>10, <1>11, <1>12,
     <1>13 DEF Next

-------------------------------------------------------------------------------
(* Reports.                                                                 *)

LEMMA ReportsStep ==
  ASSUME TypeOK, ReportsOK, [Next]_vars
  PROVE  ReportsOK'
<1> USE DEF graph, current, debt_state
<1>1. ASSUME NEW h \in Handlers, NEW s \in Sessions, RegisterList(h, s)
      PROVE  ReportsOK'
  BY <1>1 DEF EngineAssumption, RegisterList, ReportsOK
<1>2. ASSUME NEW h \in Handlers, RegisterGraph(h)
      PROVE  ReportsOK'
  BY <1>2 DEF EngineAssumption, RegisterGraph, ReportsOK
<1>3. ASSUME NEW h \in Handlers, StoreIndex(h)
      PROVE  ReportsOK'
  BY <1>3 DEF EngineAssumption, StoreIndex, ReportsOK
<1>4. ASSUME NEW h \in Handlers, StoreId(h)
      PROVE  ReportsOK'
  BY <1>4 DEF EngineAssumption, StoreId, ReportsOK
<1>5. ASSUME NEW h \in Handlers, Disconnect(h)
      PROVE  ReportsOK'
  BY <1>5 DEF EngineAssumption, Disconnect, ReportsOK
<1>6. ASSUME NEW i \in Items, Raise(i)
      PROVE  ReportsOK'
  <2>1. ToSet(raised) \subseteq ToSet(raised')
    BY <1>6, AppendNew DEF Raise, TypeOK
  <2> QED
    BY <1>6, <2>1 DEF Raise, ReportsOK
<1>7. ASSUME NEW i \in Items, Settle(i)
      PROVE  ReportsOK'
  BY <1>7 DEF EngineAssumption, Settle, ReportsOK
<1>8. ASSUME NEW r \in Reports, DebtLoad(r)
      PROVE  ReportsOK'
  BY <1>8, EngineAssumption DEF EngineAssumption, DebtLoad, ReportsOK, TypeOK
<1>9. ASSUME NEW r \in Reports, DebtCompute(r)
      PROVE  ReportsOK'
  BY <1>9 DEF EngineAssumption, DebtCompute, ReportsOK, unresolved, TypeOK
<1>10. ASSUME NEW r \in Reports, DebtStore(r)
      PROVE  ReportsOK'
  BY <1>10 DEF EngineAssumption, DebtStore, ReportsOK, NotReporting
<1>11. ASSUME NEW owed \in SUBSET ScratchItems, ToolCall(owed)
      PROVE  ReportsOK'
  BY <1>11 DEF EngineAssumption, ToolCall, ReportsOK
<1>12. CASE Restart
  BY <1>12 DEF EngineAssumption, Restart, ReportsOK, NotReporting, NoReport
<1>13. CASE UNCHANGED vars
  BY <1>13 DEF EngineAssumption, vars, ReportsOK
<1> QED
  BY <1>1, <1>2, <1>3, <1>4, <1>5, <1>6, <1>7, <1>8, <1>9, <1>10, <1>11, <1>12,
     <1>13 DEF Next

-------------------------------------------------------------------------------
(* The invariant.                                                           *)

LEMMA InitIInv == Init => IInv
<1> SUFFICES ASSUME Init PROVE IInv
  OBVIOUS
<1>1. TypeOK
  BY DEF Init, TypeOK, NotRegistering, NotReporting, NoReport, IsInjective,
     ToSet
<1>2. HandlersOK /\ IndexListed /\ IndexOK /\ IdOK
  BY DEF Init, HandlersOK, IndexListed, IndexOK, IdOK, Registering,
     NotRegistering
<1>3. ReportsOK
  BY DEF Init, ReportsOK, NotReporting, NoReport
<1> QED
  BY <1>1, <1>2, <1>3 DEF IInv

LEMMA NextIInv == IInv /\ [Next]_vars => IInv'
<1> SUFFICES ASSUME IInv, [Next]_vars PROVE IInv'
  OBVIOUS
<1> QED
  BY TypeStep, HandlersStep, ListedStep, IndexStep, IdStep, ReportsStep DEF IInv

(* IInv is an invariant of the engine, whatever requests overlap, are cut   *)
(* off, or find an engine that was restarted (register_session in state.rs, *)
(* debt in routes.rs).                                                      *)
THEOREM Invariance == Spec => []IInv
  BY InitIInv, NextIInv, PTL DEF Spec

LEMMA IInvGivesInv == IInv => Inv
<1> SUFFICES ASSUME IInv, \A h \in Handlers : registering[h].at = "idle", recent # {}
             PROVE  IndexIsRecent
  BY DEF IInv, Inv, IndexIsRecent
<1>1. current_session_id \in recent
  BY DEF IInv, IdOK, Registering
<1> HIDE DEF session_index
<1>2. \/ NoSession \in recent /\ current_session_idx = 0
      \/ \E s \in recent \cap ToSet(session_order) :
           session_index(session_order, s) = current_session_idx
  BY DEF IInv, IndexOK
<1> QED
  BY <1>1, <1>2 DEF IndexIsRecent

(* Whenever no registration is under way, the current index and id are      *)
(* those of sessions registered since the last such moment, and the index   *)
(* is the graph's own, for any number of overlapping handlers.              *)
THEOREM CurrentIsRecent == Spec => []Inv
  BY Invariance, IInvGivesInv, PTL

LEMMA IInvGivesResolved == IInv => ResolvedIsSettled
<1> SUFFICES ASSUME IInv PROVE ResolvedIsSettled
  OBVIOUS
<1>1. prior_debt.items \cap Items \subseteq ToSet(raised)
  BY DEF IInv, ReportsOK
<1>2. debt_delta.resolved \cap Items \subseteq settled
  BY <1>1 DEF debt_delta, compute_debt_delta, unresolved
<1>3. debt_delta.new \cup debt_delta.persisted \subseteq unresolved
  BY DEF debt_delta, compute_debt_delta
<1> QED
  BY <1>2, <1>3 DEF ResolvedIsSettled, unresolved

(* A summary counts an open item as resolved only if it is, and none that   *)
(* is settled as new or persisted, whatever happened between a report and   *)
(* its use as the baseline (debt in routes.rs, compute_debt_delta).         *)
THEOREM ResolvedAreSettled == Spec => []ResolvedIsSettled
  BY Invariance, IInvGivesResolved, PTL

(* Severity and recency bonus are monotone in the place of the session.     *)
LEMMA IInvGivesOlder == IInv => OlderIsNotMilder
<1> SUFFICES ASSUME IInv, NEW i \in unresolved, NEW j \in unresolved,
                    NEW idx \in {current_session_idx} \cup {reporting[r].idx : r \in Reports},
                    session_index(session_order, SessionOf[i])
                      <= session_index(session_order, SessionOf[j])
             PROVE  /\ severity(j, idx) = "High" => severity(i, idx) = "High"
                    /\ recency_bonus(i, idx) <= recency_bonus(j, idx)
  BY DEF OlderIsNotMilder
<1> DEFINE m == session_index(session_order, SessionOf[i])
           n == session_index(session_order, SessionOf[j])
<1>1. idx \in Nat
  BY DEF IInv, TypeOK
<1>2. m \in Nat /\ n \in Nat
  <2>1. SessionOf[i] \in ToSet(session_order) /\ SessionOf[j] \in ToSet(session_order)
    BY DEF IInv, TypeOK, unresolved
  <2> QED
    BY <2>1, IndexIsNat DEF IInv, TypeOK
<1>3. m <= n
  OBVIOUS
<1>4. /\ severity(i, idx) = IF (IF m <= idx THEN idx - m ELSE 0) >= 1 THEN "High" ELSE "Medium"
      /\ severity(j, idx) = IF (IF n <= idx THEN idx - n ELSE 0) >= 1 THEN "High" ELSE "Medium"
  BY DEF severity, age
<1>5. /\ recency_bonus(i, idx) = IF m >= (IF idx = 0 THEN 0 ELSE idx - 1) THEN 20 ELSE 5
      /\ recency_bonus(j, idx) = IF n >= (IF idx = 0 THEN 0 ELSE idx - 1) THEN 20 ELSE 5
  BY DEF recency_bonus
<1> HIDE DEF m, n
<1> QED
  BY <1>1, <1>2, <1>3, <1>4, <1>5

(* An older open item is never milder than a newer one, for every current   *)
(* index a report may use, also one that is behind the item's session       *)
(* (saturating_sub in debt.rs, risks.rs).                                   *)
THEOREM OlderAreNotMilder == Spec => []OlderIsNotMilder
  BY Invariance, IInvGivesOlder, PTL
===============================================================================
