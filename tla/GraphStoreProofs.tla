--------------------------- MODULE GraphStoreProofs ---------------------------
(***************************************************************************)
(* Proofs about GraphStore, for any sets of nodes, edges and sessions and   *)
(* an order tree of any size: first what holds whatever writes are lost,    *)
(* then what a restart gives back when none is.                             *)
(***************************************************************************)
EXTENDS GraphStore, SequenceTheorems, TLAPS

USE ContentAssumption, OrderAssumption

-------------------------------------------------------------------------------
(* Sequences.                                                               *)

LEMMA RangeOfAppend ==
  ASSUME NEW S, NEW s \in Seq(S), NEW e \in S
  PROVE  /\ Append(s, e) \in Seq(S)
         /\ RangeOf(Append(s, e)) = RangeOf(s) \cup {e}
         /\ Listed(s) /\ e \notin RangeOf(s) => Listed(Append(s, e))
<1>1. /\ Append(s, e) \in Seq(S)
      /\ Len(Append(s, e)) = Len(s) + 1
      /\ \A i \in 1..Len(s) : Append(s, e)[i] = s[i]
      /\ Append(s, e)[Len(s) + 1] = e
      /\ Len(s) \in Nat
  OBVIOUS
<1>2. RangeOf(Append(s, e)) = RangeOf(s) \cup {e}
  BY <1>1 DEF RangeOf
<1>3. ASSUME Listed(s), e \notin RangeOf(s)
      PROVE  Listed(Append(s, e))
  <2>1. SUFFICES ASSUME NEW i \in 1..Len(s) + 1, NEW j \in 1..Len(s) + 1,
                        Append(s, e)[i] = Append(s, e)[j]
                 PROVE  i = j
    BY <1>1 DEF Listed
  <2>2. \A k \in 1..Len(s) : s[k] # e
    BY <1>3 DEF RangeOf
  <2>3. CASE i \in 1..Len(s) /\ j \in 1..Len(s)
    BY <1>1, <1>3, <2>1, <2>3 DEF Listed
  <2>4. CASE i = Len(s) + 1 \/ j = Len(s) + 1
    BY <1>1, <2>1, <2>2, <2>4
  <2> QED
    BY <1>1, <2>3, <2>4
<1> QED
  BY <1>1, <1>2, <1>3

LEMMA RangeOfEmpty == RangeOf(<<>>) = {} /\ Listed(<<>>)
  BY DEF RangeOf, Listed

-------------------------------------------------------------------------------
(* Type correctness.                                                        *)

LEMMA PushSessionType ==
  ASSUME session_order \in Seq(Sessions), NEW s \in Sessions, PushSession(s)
  PROVE  session_order' \in Seq(Sessions)
  BY RangeOfAppend DEF PushSession

LEMMA TakeEntryType ==
  ASSUME TypeOK, NEW n \in NodeIds, TakeEntry(n)
  PROVE  /\ node_order' \in Seq(NodeIds)
         /\ session_order' \in Seq(Sessions)
<1>1. SessionOf[n] \in Sessions
  OBVIOUS
<1>2. node_order \in Seq(NodeIds) /\ session_order \in Seq(Sessions)
  BY DEF TypeOK
<1>3. CASE status[n] = "absent"
  BY <1>2, <1>3 DEF TakeEntry
<1>4. CASE status[n] # "absent"
  <2>1. node_order' = Append(node_order, n) /\ PushSession(SessionOf[n])
    BY <1>4 DEF TakeEntry
  <2>2. node_order' \in Seq(NodeIds)
    BY <1>2, <2>1, RangeOfAppend
  <2>3. session_order' \in Seq(Sessions)
    BY <1>1, <1>2, <2>1, PushSessionType
  <2> QED
    BY <2>2, <2>3
<1> QED
  BY <1>3, <1>4

LEMMA EndsType == \A e \in EdgeIds : Ends(e) \subseteq NodeIds
  BY DEF Ends

LEMMA FirstDbType ==
  ASSUME NEW blob \in LegacyBlobs, NEW nodes \in [NodeIds -> Stored],
         NEW links \in SUBSET EdgeIds
  PROVE  FirstDb(blob, nodes, links) \in Trees
  BY DEF FirstDb, Trees, Stored, Statuses

LEMMA GraphType ==
  ASSUME TypeOK
  PROVE  Graph \in [status : [NodeIds -> Stored], edges : SUBSET EdgeIds,
                    order : Seq(NodeIds)]
  BY DEF TypeOK, Graph

LEMMA RememberType ==
  ASSUME TypeOK, NEW lost \in BOOLEAN, NEW graph,
         graph \in [status : [NodeIds -> Stored], edges : SUBSET EdgeIds,
                    order : Seq(NodeIds)],
         Remember(lost, graph)
  PROVE  /\ torn' \in BOOLEAN
         /\ before' \in [status : [NodeIds -> Stored], edges : SUBSET EdgeIds,
                         order : Seq(NodeIds)]
<1>1. NoHistory \in [status : [NodeIds -> Stored], edges : SUBSET EdgeIds,
                     order : Seq(NodeIds)]
  BY DEF NoHistory, Stored
<1> QED
  BY <1>1 DEF Remember

LEMMA CrashImagesType ==
  ASSUME TypeOK
  PROVE  CrashImages \subseteq Trees
  BY DEF TypeOK, Trees, CrashImages

LEMMA TypeInit == Init => TypeOK
<1> SUFFICES ASSUME Init PROVE TypeOK
  OBVIOUS
<1>1. disk \in Trees
  <2>1. PICK blob \in LegacyBlobs, nodes \in [NodeIds -> Stored], links \in SUBSET EdgeIds :
          disk = FirstDb(blob, nodes, links)
    BY DEF Init
  <2> QED
    BY <2>1, FirstDbType
<1>2. before \in [status : [NodeIds -> Stored], edges : SUBSET EdgeIds,
                  order : Seq(NodeIds)]
  BY <1>1 DEF Init, Trees
<1> QED
  BY <1>1, <1>2, EmptySeq DEF Init, NoGraph, TypeOK, Stored

LEMMA TypeStep == TypeOK /\ [Next]_vars => TypeOK'
<1> SUFFICES ASSUME TypeOK, [Next]_vars PROVE TypeOK'
  OBVIOUS
<1>1. CASE Open
  BY <1>1 DEF Open, TypeOK, Trees, LoadableEdges
<1>2. CASE LoadEntry
  <2>1. PICK k \in OrderKeys : /\ sled.order[k] # Empty
                               /\ TakeEntry(sled.order[k])
                               /\ cursor' = k + 1
    BY <1>2 DEF LoadEntry
  <2>2. sled.order[k] \in NodeIds
    BY <2>1 DEF TypeOK, Trees
  <2>3. node_order' \in Seq(NodeIds) /\ session_order' \in Seq(Sessions)
    BY <2>1, <2>2, TakeEntryType
  <2>4. cursor' \in Nat
    <3>1. cursor' = k + 1
      BY <2>1
    <3>2. k \in Nat
      OBVIOUS
    <3> QED
      BY <3>1, <3>2
  <2>5. UNCHANGED <<phase, status, edges, resolving, registering, sled, disk, torn, before>>
    BY <1>2 DEF LoadEntry
  <2> QED
    BY <2>3, <2>4, <2>5 DEF TypeOK
<1>3. CASE LoadDone
  BY <1>3 DEF LoadDone, TypeOK, memory
<1>4. CASE MigrateEntry
  <2>1. sled.legacy[cursor + 1] \in NodeIds
    BY <1>4 DEF MigrateEntry, TypeOK, Trees
  <2>2. node_order' \in Seq(NodeIds) /\ session_order' \in Seq(Sessions)
    BY <1>4, <2>1, TakeEntryType DEF MigrateEntry
  <2>3. sled' \in Trees
    BY <1>4, <2>1 DEF MigrateEntry, TypeOK, Trees
  <2> QED
    BY <1>4, <2>2, <2>3 DEF MigrateEntry, TypeOK
<1>5. CASE MigrateDone
  <2>1. sled' \in Trees
    BY <1>5, EmptySeq DEF MigrateDone, TypeOK, Trees
  <2> QED
    BY <1>5, <2>1 DEF MigrateDone, TypeOK, memory
<1>6. ASSUME NEW n \in NodeIds, AddNode(n) PROVE TypeOK'
  <2>1. node_order' \in Seq(NodeIds)
    BY <1>6, RangeOfAppend DEF AddNode, TypeOK
  <2>2. session_order' \in Seq(Sessions)
    BY <1>6, PushSessionType DEF AddNode, TypeOK
  <2>3. PICK given \in Statuses, stored \in BOOLEAN, ordered \in BOOLEAN, k \in OrderKeys :
          /\ status' = [status EXCEPT ![n] = given]
          /\ sled' = [sled EXCEPT !.nodes[n] = IF stored THEN given ELSE @,
                                  !.order[k] = IF ordered THEN n ELSE @]
          /\ Remember(torn \/ ~stored \/ ~ordered, before)
    BY <1>6 DEF AddNode
  <2>4. sled' \in Trees
    BY <2>3 DEF TypeOK, Trees, Stored, Statuses
  <2>5. torn' \in BOOLEAN /\ before' \in [status : [NodeIds -> Stored],
                                          edges : SUBSET EdgeIds, order : Seq(NodeIds)]
    BY <2>3, RememberType DEF TypeOK
  <2>6. status' \in [NodeIds -> Stored]
    BY <2>3 DEF TypeOK, Stored, Statuses
  <2> QED
    BY <1>6, <2>1, <2>2, <2>4, <2>5, <2>6 DEF AddNode, TypeOK
<1>7. ASSUME NEW n \in NodeIds, InvalidateNode(n) PROVE TypeOK'
  <2>3. PICK stored \in BOOLEAN :
          /\ sled' = [sled EXCEPT !.nodes[n] = IF stored THEN "Invalidated" ELSE @]
          /\ Remember(torn \/ ~stored, before)
    BY <1>7 DEF InvalidateNode
  <2>4. sled' \in Trees
    BY <2>3 DEF TypeOK, Trees, Stored, Statuses
  <2>5. torn' \in BOOLEAN /\ before' \in [status : [NodeIds -> Stored],
                                          edges : SUBSET EdgeIds, order : Seq(NodeIds)]
    BY <2>3, RememberType DEF TypeOK
  <2>6. status' \in [NodeIds -> Stored]
    BY <1>7 DEF InvalidateNode, TypeOK, Stored, Statuses
  <2> QED
    BY <1>7, <2>4, <2>5, <2>6 DEF InvalidateNode, TypeOK
<1>8. ASSUME NEW e \in EdgeIds, AddEdge(e),
             resolving' \subseteq NodeIds \X NodeIds
      PROVE  TypeOK'
  <2>3. PICK stored \in BOOLEAN :
          /\ sled' = [sled EXCEPT !.edges = IF stored THEN @ \cup {e} ELSE @]
          /\ Remember(torn \/ ~stored, before)
    BY <1>8 DEF AddEdge
  <2>4. sled' \in Trees
    BY <2>3 DEF TypeOK, Trees
  <2>5. torn' \in BOOLEAN /\ before' \in [status : [NodeIds -> Stored],
                                          edges : SUBSET EdgeIds, order : Seq(NodeIds)]
    BY <2>3, RememberType DEF TypeOK
  <2> QED
    BY <1>8, <2>4, <2>5 DEF AddEdge, TypeOK
<1>9. ASSUME NEW e \in EdgeIds, PostEdge(e) PROVE TypeOK'
  BY <1>8, <1>9 DEF PostEdge, TypeOK
<1>10. ASSUME NEW q \in NodeIds, NEW r \in NodeIds, ResolveCheck(q, r) PROVE TypeOK'
  BY <1>10 DEF ResolveCheck, TypeOK
<1>11. ASSUME NEW q \in NodeIds, NEW r \in NodeIds, ResolveCommit(q, r) PROVE TypeOK'
  <2>1. PICK e \in EdgeIds : AddEdge(e)
    BY <1>11 DEF ResolveCommit
  <2>2. resolving' \subseteq NodeIds \X NodeIds
    BY <1>11 DEF ResolveCommit, TypeOK
  <2> QED
    BY <2>1, <2>2, <1>8
<1>12. ASSUME NEW s \in Sessions, RegisterCheck(s) PROVE TypeOK'
  BY <1>12 DEF RegisterCheck, TypeOK
<1>13. ASSUME NEW s \in Sessions, RegisterCommit(s) PROVE TypeOK'
  <2>1. session_order' \in Seq(Sessions)
    BY <1>13, PushSessionType DEF RegisterCommit, TypeOK
  <2> QED
    BY <1>13, <2>1 DEF RegisterCommit, TypeOK
<1>14. CASE Flush
  BY <1>14 DEF Flush, TypeOK, memory
<1>15. CASE ProcessEnds
  <2>1. disk' \in Trees /\ sled' \in Trees
    BY <1>15, CrashImagesType DEF ProcessEnds
  <2>2. torn' \in BOOLEAN /\ before' \in [status : [NodeIds -> Stored],
                                          edges : SUBSET EdgeIds, order : Seq(NodeIds)]
    <3> DEFINE lost  == torn \/ disk' # sled \/ phase = "migrating"
               graph == IF phase = "up" THEN Graph ELSE before
    <3>1. lost \in BOOLEAN
      BY DEF TypeOK
    <3>2. graph \in [status : [NodeIds -> Stored], edges : SUBSET EdgeIds,
                     order : Seq(NodeIds)]
      BY GraphType DEF TypeOK
    <3>3. Remember(lost, graph)
      BY <1>15 DEF ProcessEnds
    <3> HIDE DEF lost, graph
    <3> QED
      BY <3>1, <3>2, <3>3, RememberType
  <2> QED
    BY <1>15, <2>1, <2>2 DEF ProcessEnds, TypeOK, Stored
<1>16. CASE UNCHANGED vars
  BY <1>16 DEF vars, memory, TypeOK
<1> QED
  BY <1>1, <1>2, <1>3, <1>4, <1>5, <1>6, <1>7, <1>9, <1>10, <1>11, <1>12, <1>13,
     <1>14, <1>15, <1>16 DEF Next

(* Every variable of the store keeps its type, whatever fails or crashes.   *)
THEOREM TypeCorrect == Spec => []TypeOK
  BY TypeInit, TypeStep, PTL DEF Spec

-------------------------------------------------------------------------------
(* What holds in every state, lost writes or not.  A process that is not    *)
(* running has nothing in memory and finds what the disk has; the statuses  *)
(* on disk are never ahead of those in sled, nor these of those in memory.  *)

NothingInMemory == phase = "down" => NoGraph /\ sled = disk

WritesAhead ==
  /\ Contract!AtMost(disk.nodes, sled.nodes)
  /\ phase # "down" => Contract!AtMost(sled.nodes, status)

StructureInv ==
  /\ TypeOK
  /\ NothingInMemory
  /\ WritesAhead
  /\ EdgesHaveEndpoints
  /\ ResolveChecksHold
  /\ Listed(session_order)

LEMMA RankValues ==
  /\ Contract!Rank("absent") = 0
  /\ Contract!Rank("Active") = 1
  /\ Contract!Rank("Invalidated") = 2
  BY DEF Contract!Rank

LEMMA StatusCases ==
  ASSUME NEW f \in [NodeIds -> Stored], NEW n \in NodeIds
  PROVE  f[n] = "absent" \/ f[n] = "Active" \/ f[n] = "Invalidated"
  BY DEF Stored, Statuses

LEMMA AtMostSame ==
  ASSUME NEW f \in [NodeIds -> Stored]
  PROVE  Contract!AtMost(f, f)
  BY RankValues, StatusCases DEF Contract!AtMost

(* A process that ends leaves statuses between the disk's and its own.      *)
LEMMA CrashBetween ==
  ASSUME TypeOK, WritesAhead, ProcessEnds
  PROVE  /\ Contract!AtMost(disk.nodes, disk'.nodes)
         /\ Contract!AtMost(disk'.nodes, sled.nodes)
<1>1. disk'.nodes \in [NodeIds -> Stored] /\ \A n \in NodeIds : disk'.nodes[n] \in NodeImages(n)
  BY DEF ProcessEnds, CrashImages
<1>2. ASSUME NEW n \in NodeIds
      PROVE  /\ Contract!Rank(disk.nodes[n]) <= Contract!Rank(disk'.nodes[n])
             /\ Contract!Rank(disk'.nodes[n]) <= Contract!Rank(sled.nodes[n])
  <2>1. disk'.nodes[n] \in NodeImages(n)
    BY <1>1
  <2>2. Contract!Rank(disk.nodes[n]) <= Contract!Rank(sled.nodes[n])
    BY DEF WritesAhead, Contract!AtMost
  <2>3. /\ disk.nodes[n] \in {"absent", "Active", "Invalidated"}
        /\ sled.nodes[n] \in {"absent", "Active", "Invalidated"}
    BY DEF TypeOK, Trees, Stored, Statuses
  <2> QED
    BY <2>1, <2>2, <2>3, RankValues DEF NodeImages
<1> QED
  BY <1>2 DEF Contract!AtMost

LEMMA StructureInit == Init => StructureInv
<1> SUFFICES ASSUME Init PROVE StructureInv
  OBVIOUS
<1>1. TypeOK
  BY TypeInit
<1>2. NothingInMemory
  BY DEF Init, NothingInMemory
<1>3. WritesAhead
  <2>1. disk.nodes \in [NodeIds -> Stored] /\ sled = disk /\ phase = "down"
    BY <1>1 DEF Init, TypeOK, Trees
  <2> QED
    BY <2>1, AtMostSame DEF WritesAhead
<1>4. EdgesHaveEndpoints /\ ResolveChecksHold /\ Listed(session_order)
  BY RangeOfEmpty DEF Init, NoGraph, EdgesHaveEndpoints, ResolveChecksHold
<1> QED
  BY <1>1, <1>2, <1>3, <1>4 DEF StructureInv

LEMMA PushSessionListed ==
  ASSUME session_order \in Seq(Sessions), Listed(session_order),
         NEW s \in Sessions, PushSession(s)
  PROVE  Listed(session_order')
  BY RangeOfAppend DEF PushSession

LEMMA TakeEntryListed ==
  ASSUME TypeOK, Listed(session_order), NEW n \in NodeIds, TakeEntry(n)
  PROVE  Listed(session_order')
<1>1. CASE status[n] = "absent"
  BY <1>1 DEF TakeEntry
<1>2. CASE status[n] # "absent"
  BY <1>2, PushSessionListed DEF TakeEntry, TypeOK
<1> QED
  BY <1>1, <1>2

(* A new edge joins known nodes, and the writes stay behind the memory.     *)
LEMMA AddEdgeStructure ==
  ASSUME StructureInv, NEW e \in EdgeIds, AddEdge(e)
  PROVE  NothingInMemory' /\ WritesAhead' /\ EdgesHaveEndpoints'
         /\ Known' = Known /\ session_order' = session_order
<1>1. sled'.nodes = sled.nodes /\ UNCHANGED <<phase, status, session_order, disk>>
  BY DEF AddEdge, StructureInv, TypeOK, Trees
<1>2. NothingInMemory' /\ WritesAhead'
  BY <1>1 DEF AddEdge, StructureInv, NothingInMemory, WritesAhead, Contract!AtMost
<1>3. EdgesHaveEndpoints'
  BY <1>1 DEF AddEdge, StructureInv, EdgesHaveEndpoints, Known
<1> QED
  BY <1>1, <1>2, <1>3 DEF Known

LEMMA StructureStep == StructureInv /\ [Next]_vars => StructureInv'
<1> SUFFICES ASSUME StructureInv, [Next]_vars PROVE StructureInv'
  OBVIOUS
<1> USE DEF StructureInv
<1>0. TypeOK'
  BY TypeStep
<1>1. CASE Open
  <2>1. WritesAhead'
    <3>1. sled.nodes \in [NodeIds -> Stored]
      BY DEF TypeOK, Trees
    <3> QED
      BY <1>1, <3>1, AtMostSame DEF Open, WritesAhead, Contract!AtMost
  <2>2. EdgesHaveEndpoints'
    <3>1. ASSUME NEW e \in edges' PROVE Ends(e) \subseteq Known'
      <4>1. e \in EdgeIds /\ \A n \in Ends(e) : status'[n] # "absent"
        BY <1>1 DEF Open, LoadableEdges, TypeOK, Trees
      <4> QED
        BY <4>1, EndsType DEF Known
    <3> QED
      BY <3>1 DEF EdgesHaveEndpoints
  <2>3. NothingInMemory' /\ ResolveChecksHold' /\ Listed(session_order')
    BY <1>1 DEF Open, NothingInMemory, NoGraph, ResolveChecksHold
  <2> QED
    BY <1>0, <2>1, <2>2, <2>3
<1>2. CASE LoadEntry
  <2>1. PICK k \in OrderKeys : sled.order[k] # Empty /\ TakeEntry(sled.order[k])
    BY <1>2 DEF LoadEntry
  <2>2. Listed(session_order')
    BY <2>1, TakeEntryListed DEF TypeOK, Trees
  <2>3. UNCHANGED <<phase, status, edges, resolving, sled, disk>> /\ phase = "loading"
    BY <1>2 DEF LoadEntry
  <2> QED
    BY <1>0, <2>2, <2>3
    DEF NothingInMemory, WritesAhead, EdgesHaveEndpoints, Known, ResolveChecksHold
<1>3. CASE LoadDone
  BY <1>0, <1>3 DEF LoadDone, memory, NothingInMemory, WritesAhead, EdgesHaveEndpoints,
                    Known, ResolveChecksHold
<1>4. CASE MigrateEntry
  <2>1. sled.legacy[cursor + 1] \in NodeIds
    BY <1>4 DEF MigrateEntry, TypeOK, Trees
  <2>2. Listed(session_order')
    BY <1>4, <2>1, TakeEntryListed DEF MigrateEntry
  <2>3. /\ UNCHANGED <<phase, status, edges, resolving, disk>> /\ phase = "migrating"
        /\ sled'.nodes = sled.nodes
    BY <1>4 DEF MigrateEntry, TypeOK, Trees
  <2> QED
    BY <1>0, <2>2, <2>3
    DEF NothingInMemory, WritesAhead, EdgesHaveEndpoints, Known, ResolveChecksHold
<1>5. CASE MigrateDone
  <2>1. /\ UNCHANGED <<status, edges, resolving, session_order, disk>>
        /\ phase # "down" /\ phase' # "down"
        /\ sled'.nodes = sled.nodes
    BY <1>5 DEF MigrateDone, TypeOK, Trees, memory
  <2> QED
    BY <1>0, <2>1
    DEF NothingInMemory, WritesAhead, EdgesHaveEndpoints, Known, ResolveChecksHold
<1>6. ASSUME NEW n \in NodeIds, AddNode(n) PROVE StructureInv'
  <2>0. PICK given \in Statuses, stored \in BOOLEAN, ordered \in BOOLEAN, k \in OrderKeys :
          /\ status' = [status EXCEPT ![n] = given]
          /\ sled' = [sled EXCEPT !.nodes[n] = IF stored THEN given ELSE @,
                                  !.order[k] = IF ordered THEN n ELSE @]
    <3>1. \E given \in Statuses, stored, ordered \in BOOLEAN, k \in OrderKeys :
            /\ IsNextKey(k)
            /\ status' = [status EXCEPT ![n] = given]
            /\ sled' = [sled EXCEPT !.nodes[n] = IF stored THEN given ELSE @,
                                    !.order[k] = IF ordered THEN n ELSE @]
            /\ Remember(torn \/ ~stored \/ ~ordered, before)
      BY <1>6, Zenon DEF AddNode
    <3> QED
      BY <3>1, Zenon
  <2>1. Known \subseteq Known'
    BY <1>6, <2>0 DEF AddNode, Known, TypeOK, Statuses
  <2>2. EdgesHaveEndpoints' /\ ResolveChecksHold' /\ NothingInMemory'
    BY <1>6, <2>1 DEF AddNode, EdgesHaveEndpoints, ResolveChecksHold, NothingInMemory
  <2>3. Listed(session_order')
    BY <1>6, PushSessionListed DEF AddNode, TypeOK
  <2>4. WritesAhead'
    <3>1. ASSUME NEW m \in NodeIds
          PROVE  /\ Contract!Rank(disk.nodes[m]) <= Contract!Rank(sled'.nodes[m])
                 /\ Contract!Rank(sled'.nodes[m]) <= Contract!Rank(status'[m])
      <4>1. /\ Contract!Rank(disk.nodes[m]) <= Contract!Rank(sled.nodes[m])
            /\ Contract!Rank(sled.nodes[m]) <= Contract!Rank(status[m])
        BY <1>6 DEF AddNode, WritesAhead, Contract!AtMost
      <4>2. /\ disk.nodes[m] \in {"absent", "Active", "Invalidated"}
            /\ sled.nodes[m] \in {"absent", "Active", "Invalidated"}
        BY DEF TypeOK, Trees, Stored, Statuses
      <4>3. /\ status[n] = "absent" /\ given \in {"Active", "Invalidated"}
            /\ status'[m] = IF m = n THEN given ELSE status[m]
            /\ sled'.nodes[m] = sled.nodes[m] \/ (m = n /\ sled'.nodes[m] = given)
        BY <1>6, <2>0 DEF AddNode, TypeOK, Trees, Statuses
      <4> QED
        BY <4>1, <4>2, <4>3, RankValues
    <3>2. disk' = disk
      BY <1>6 DEF AddNode
    <3> QED
      BY <3>1, <3>2 DEF WritesAhead, Contract!AtMost
  <2> QED
    BY <1>0, <2>2, <2>3, <2>4
<1>7. ASSUME NEW n \in NodeIds, InvalidateNode(n) PROVE StructureInv'
  <2>1. Known' = Known
    BY <1>7 DEF InvalidateNode, Known, TypeOK
  <2>2. EdgesHaveEndpoints' /\ ResolveChecksHold' /\ NothingInMemory' /\ Listed(session_order')
    BY <1>7, <2>1 DEF InvalidateNode, EdgesHaveEndpoints, ResolveChecksHold, NothingInMemory
  <2>4. WritesAhead'
    <3>1. ASSUME NEW m \in NodeIds
          PROVE  /\ Contract!Rank(disk.nodes[m]) <= Contract!Rank(sled'.nodes[m])
                 /\ Contract!Rank(sled'.nodes[m]) <= Contract!Rank(status'[m])
      <4>1. /\ Contract!Rank(disk.nodes[m]) <= Contract!Rank(sled.nodes[m])
            /\ Contract!Rank(sled.nodes[m]) <= Contract!Rank(status[m])
        BY <1>7 DEF InvalidateNode, WritesAhead, Contract!AtMost
      <4>2. /\ disk.nodes[m] \in {"absent", "Active", "Invalidated"}
            /\ sled.nodes[m] \in {"absent", "Active", "Invalidated"}
        BY DEF TypeOK, Trees, Stored, Statuses
      <4>3. /\ status'[m] = IF m = n THEN "Invalidated" ELSE status[m]
            /\ sled'.nodes[m] = sled.nodes[m] \/ (m = n /\ sled'.nodes[m] = "Invalidated")
        BY <1>7 DEF InvalidateNode, TypeOK, Trees
      <4> QED
        BY <4>1, <4>2, <4>3, RankValues
    <3>2. disk' = disk
      BY <1>7 DEF InvalidateNode
    <3> QED
      BY <3>1, <3>2 DEF WritesAhead, Contract!AtMost
  <2> QED
    BY <1>0, <2>2, <2>4
<1>9. ASSUME NEW e \in EdgeIds, PostEdge(e) PROVE StructureInv'
  BY <1>0, <1>9, AddEdgeStructure DEF PostEdge, ResolveChecksHold
<1>10. ASSUME NEW q \in NodeIds, NEW r \in NodeIds, ResolveCheck(q, r) PROVE StructureInv'
  <2>1. ResolveChecksHold'
    BY <1>10 DEF ResolveCheck, ResolveChecksHold, Known
  <2> QED
    BY <1>0, <1>10, <2>1
    DEF ResolveCheck, NothingInMemory, WritesAhead, EdgesHaveEndpoints, Known
<1>11. ASSUME NEW q \in NodeIds, NEW r \in NodeIds, ResolveCommit(q, r) PROVE StructureInv'
  <2>1. PICK e \in EdgeIds : AddEdge(e)
    BY <1>11 DEF ResolveCommit
  <2>2. resolving' \subseteq resolving
    BY <1>11 DEF ResolveCommit
  <2> QED
    BY <1>0, <2>1, <2>2, AddEdgeStructure DEF ResolveChecksHold
<1>12. ASSUME NEW s \in Sessions, RegisterCheck(s) PROVE StructureInv'
  BY <1>0, <1>12
  DEF RegisterCheck, NothingInMemory, WritesAhead, EdgesHaveEndpoints, Known, ResolveChecksHold
<1>13. ASSUME NEW s \in Sessions, RegisterCommit(s) PROVE StructureInv'
  <2>1. Listed(session_order')
    BY <1>13, PushSessionListed DEF RegisterCommit, TypeOK
  <2>2. NothingInMemory'
    BY <1>13 DEF RegisterCommit, NothingInMemory, NoGraph
  <2> QED
    BY <1>0, <1>13, <2>1, <2>2
    DEF RegisterCommit, WritesAhead, EdgesHaveEndpoints, Known, ResolveChecksHold
<1>14. CASE Flush
  <2>1. WritesAhead'
    <3>1. sled.nodes \in [NodeIds -> Stored]
      BY DEF TypeOK, Trees
    <3> QED
      BY <1>14, <3>1, AtMostSame DEF Flush, WritesAhead, memory, Contract!AtMost
  <2> QED
    BY <1>0, <1>14, <2>1
    DEF Flush, memory, NothingInMemory, EdgesHaveEndpoints, Known, ResolveChecksHold
<1>15. CASE ProcessEnds
  <2>1. NothingInMemory'
    BY <1>15 DEF ProcessEnds, NothingInMemory, NoGraph
  <2>2. WritesAhead'
    <3>1. disk' \in Trees /\ sled' = disk' /\ phase' = "down"
      BY <1>15, CrashImagesType DEF ProcessEnds
    <3> QED
      BY <3>1, AtMostSame DEF WritesAhead, Trees, Contract!AtMost
  <2>3. EdgesHaveEndpoints' /\ ResolveChecksHold' /\ Listed(session_order')
    BY <1>15, RangeOfEmpty DEF ProcessEnds, EdgesHaveEndpoints, ResolveChecksHold
  <2> QED
    BY <1>0, <2>1, <2>2, <2>3
<1>16. CASE UNCHANGED vars
  BY <1>0, <1>16
  DEF vars, memory, NothingInMemory, NoGraph, WritesAhead, EdgesHaveEndpoints, Known,
      ResolveChecksHold
<1> QED
  BY <1>1, <1>2, <1>3, <1>4, <1>5, <1>6, <1>7, <1>9, <1>10, <1>11, <1>12, <1>13,
     <1>14, <1>15, <1>16 DEF Next

LEMMA StructureInvariant == Spec => []StructureInv
  BY StructureInit, StructureStep, PTL DEF Spec

(* No reader follows an edge to a node that is not there, after any crash.  *)
THEOREM EdgesAlwaysHaveEndpoints == Spec => []EdgesHaveEndpoints
  BY StructureInvariant, PTL DEF StructureInv

(* What resolve_question has checked under its read lock holds when it adds *)
(* the edge, whatever ran in between.                                       *)
THEOREM ResolveChecksAlwaysHold == Spec => []ResolveChecksHold
  BY StructureInvariant, PTL DEF StructureInv

-------------------------------------------------------------------------------
(* The store implements GraphContract.  Memory is ahead of sled and sled of  *)
(* the disk, so a flush settles what the contract lets it settle, and a     *)
(* crash forgets no more than the contract lets a restart forget.           *)

LEMMA LivesAreStored == Contract!Lives = Stored
  BY DEF Contract!Lives, Stored, Statuses

LEMMA LifeType ==
  ASSUME TypeOK
  PROVE  Life \in [NodeIds -> Contract!Lives]
  BY LivesAreStored DEF Life, TypeOK, Trees

LEMMA ContractStart == Init => Contract!ContractInit
<1> SUFFICES ASSUME Init PROVE Contract!ContractInit
  OBVIOUS
<1>1. Life \in [NodeIds -> Contract!Lives]
  BY TypeInit, LifeType
<1>2. disk.nodes = Life
  BY DEF Init, Life
<1> QED
  BY <1>1, <1>2 DEF Contract!ContractInit

(* A store that changes neither statuses nor the disk does not move.        *)
LEMMA ContractStutter ==
  ASSUME UNCHANGED <<phase, status, disk>>, sled'.nodes = sled.nodes
  PROVE  UNCHANGED Contract!cvars
  BY DEF Contract!cvars, Life

LEMMA ContractStep ==
  StructureInv /\ [Next]_vars => [Contract!ContractNext]_(Contract!cvars)
<1> SUFFICES ASSUME StructureInv, [Next]_vars
             PROVE  Contract!ContractNext \/ UNCHANGED Contract!cvars
  OBVIOUS
<1> USE DEF StructureInv
<1>1. CASE Open
  BY <1>1 DEF Open, Life, Contract!cvars
<1>2. CASE LoadEntry
  BY <1>2, ContractStutter DEF LoadEntry
<1>3. CASE LoadDone
  BY <1>3 DEF LoadDone, memory, Life, Contract!cvars
<1>4. CASE MigrateEntry
  <2>1. UNCHANGED <<phase, status, disk>> /\ sled'.nodes = sled.nodes
    BY <1>4 DEF MigrateEntry, TypeOK, Trees
  <2> QED
    BY <2>1, ContractStutter
<1>5. CASE MigrateDone
  BY <1>5 DEF MigrateDone, memory, Life, Contract!cvars
<1>6. ASSUME NEW n \in NodeIds, AddNode(n) PROVE Contract!ContractNext
  <2>0. PICK given \in Statuses : status' = [status EXCEPT ![n] = given]
    BY <1>6 DEF AddNode
  <2>1. Life[n] = "absent" /\ Life' = [Life EXCEPT ![n] = given] /\ disk' = disk
    BY <1>6, <2>0 DEF AddNode, Life
  <2>2. given \in Contract!Lives /\ given \in {"Active", "Invalidated"}
    BY DEF Contract!Lives, Statuses
  <2>3. Contract!Advance(n, given)
    BY <2>1, <2>2, RankValues DEF Contract!Advance
  <2> QED
    BY <2>2, <2>3 DEF Contract!ContractNext
<1>7. ASSUME NEW n \in NodeIds, InvalidateNode(n)
      PROVE  Contract!ContractNext \/ UNCHANGED Contract!cvars
  <2>1. /\ Life = status /\ Life' = status' /\ disk' = disk
        /\ status' = [status EXCEPT ![n] = "Invalidated"]
    BY <1>7 DEF InvalidateNode, Life
  <2>2. CASE status[n] = "Active"
    <3>1. "Invalidated" \in Contract!Lives
      BY DEF Contract!Lives
    <3>2. Contract!Advance(n, "Invalidated")
      BY <2>1, <2>2, RankValues DEF Contract!Advance
    <3> QED
      BY <3>1, <3>2 DEF Contract!ContractNext
  <2>3. CASE status[n] = "Invalidated"
    BY <2>1, <2>3 DEF TypeOK, Contract!cvars
  <2> QED
    BY <1>7, <2>2, <2>3, StatusCases DEF InvalidateNode, TypeOK
<1>8. ASSUME NEW e \in EdgeIds, AddEdge(e) PROVE UNCHANGED Contract!cvars
  <2>1. UNCHANGED <<phase, status, disk>> /\ sled'.nodes = sled.nodes
    BY <1>8 DEF AddEdge, TypeOK, Trees
  <2> QED
    BY <2>1, ContractStutter
<1>9. ASSUME NEW e \in EdgeIds, PostEdge(e) PROVE UNCHANGED Contract!cvars
  BY <1>8, <1>9 DEF PostEdge
<1>10. ASSUME NEW q \in NodeIds, NEW r \in NodeIds, ResolveCheck(q, r)
       PROVE  UNCHANGED Contract!cvars
  BY <1>10, ContractStutter DEF ResolveCheck
<1>11. ASSUME NEW q \in NodeIds, NEW r \in NodeIds, ResolveCommit(q, r)
       PROVE  UNCHANGED Contract!cvars
  BY <1>8, <1>11 DEF ResolveCommit
<1>12. ASSUME NEW s \in Sessions, RegisterCheck(s) PROVE UNCHANGED Contract!cvars
  BY <1>12, ContractStutter DEF RegisterCheck
<1>13. ASSUME NEW s \in Sessions, RegisterCommit(s) PROVE UNCHANGED Contract!cvars
  BY <1>13, ContractStutter DEF RegisterCommit
<1>14. CASE Flush
  <2>1. Life = status /\ Life' = Life /\ disk'.nodes = sled.nodes
    BY <1>14 DEF Flush, memory, Life
  <2>2. disk'.nodes \in [NodeIds -> Contract!Lives]
    BY <2>1, LivesAreStored DEF TypeOK, Trees
  <2>3. Contract!AtMost(disk.nodes, disk'.nodes) /\ Contract!AtMost(disk'.nodes, Life)
    BY <1>14, <2>1 DEF Flush, WritesAhead, Contract!AtMost
  <2>4. Contract!Settle
    BY <2>1, <2>2, <2>3 DEF Contract!Settle, Contract!AtMost
  <2> QED
    BY <2>4 DEF Contract!ContractNext
<1>15. CASE ProcessEnds
  <2>1. Life = status /\ Life' = disk'.nodes
    BY <1>15 DEF ProcessEnds, Life
  <2>2. Life' \in [NodeIds -> Contract!Lives]
    BY <1>15, <2>1, CrashImagesType, LivesAreStored DEF ProcessEnds, Trees
  <2>3. ASSUME NEW n \in NodeIds
        PROVE  /\ Contract!Rank(disk.nodes[n]) <= Contract!Rank(Life'[n])
               /\ Contract!Rank(Life'[n]) <= Contract!Rank(Life[n])
    <3>1. /\ Contract!Rank(disk.nodes[n]) <= Contract!Rank(disk'.nodes[n])
          /\ Contract!Rank(disk'.nodes[n]) <= Contract!Rank(sled.nodes[n])
      BY <1>15, CrashBetween DEF Contract!AtMost
    <3>2. Contract!Rank(sled.nodes[n]) <= Contract!Rank(status[n])
      BY <1>15 DEF ProcessEnds, WritesAhead, Contract!AtMost
    <3>3. /\ disk'.nodes[n] \in {"absent", "Active", "Invalidated"}
          /\ sled.nodes[n] \in {"absent", "Active", "Invalidated"}
          /\ status[n] \in {"absent", "Active", "Invalidated"}
      BY <2>1, <2>2, LivesAreStored DEF TypeOK, Trees, Stored, Statuses
    <3> QED
      BY <2>1, <3>1, <3>2, <3>3, RankValues
  <2>4. Contract!Restart
    BY <2>1, <2>2, <2>3 DEF Contract!Restart, Contract!AtMost
  <2> QED
    BY <2>4 DEF Contract!ContractNext
<1>16. CASE UNCHANGED vars
  BY <1>16, ContractStutter DEF vars, memory
<1> QED
  BY <1>1, <1>2, <1>3, <1>4, <1>5, <1>6, <1>7, <1>9, <1>10, <1>11, <1>12, <1>13,
     <1>14, <1>15, <1>16 DEF Next

(* A node's life never goes back while the engine runs, and a crash takes   *)
(* it no further back than the last flush.                                  *)
THEOREM ContractKept == Spec => KeepsContract
<1>1. Init => Contract!ContractInit
  BY ContractStart
<1>2. StructureInv /\ [Next]_vars => [Contract!ContractNext]_(Contract!cvars)
  BY ContractStep
<1>3. Spec => []StructureInv
  BY StructureInvariant
<1> QED
  BY <1>1, <1>2, <1>3, PTL DEF Spec, KeepsContract, Contract!ContractSpec

-------------------------------------------------------------------------------
(* Restarts: as long as no write is lost, the graph and its insertion order *)
(* come back as they were, over any number of restarts and through the      *)
(* migration of an old database.                                            *)

(* What the running engine serves is in sled, and its order and sessions    *)
(* list what it serves.                                                     *)
UpClean ==
  phase = "up" =>
    /\ SledHolds(status, edges, node_order)
    /\ Listed(node_order)
    /\ RangeOf(node_order) = Known
    /\ \A n \in Known : SessionOf[n] \in RangeOf(session_order)

(* What the last engine served is in sled, and was a graph.                 *)
DownClean ==
  phase # "up" =>
    /\ SledHolds(before.status, before.edges, before.order)
    /\ Listed(before.order)
    /\ RangeOf(before.order) = {n \in NodeIds : before.status[n] # "absent"}
    /\ \A e \in before.edges : \A n \in Ends(e) : before.status[n] # "absent"

(* What is being loaded is a prefix of it.                                  *)
LoadClean ==
  phase \in {"loading", "migrating"} =>
    /\ status = before.status
    /\ edges = before.edges
    /\ Len(node_order) = cursor
    /\ cursor <= Len(before.order)
    /\ \A i \in 1..cursor : node_order[i] = before.order[i]
    /\ \A i \in 1..cursor : SessionOf[before.order[i]] \in RangeOf(session_order)

AtRest ==
  /\ phase = "down" => cursor = 0
  /\ phase # "up" => registering = {}

RestartInv ==
  /\ StructureInv
  /\ AtRest
  /\ ~torn => UpClean /\ DownClean /\ LoadClean

-------------------------------------------------------------------------------
(* Sequences and the order tree.                                            *)

LEMMA BeforeType ==
  ASSUME TypeOK
  PROVE  /\ before.status \in [NodeIds -> Stored]
         /\ before.edges \subseteq EdgeIds
         /\ before.order \in Seq(NodeIds)
         /\ before = [status |-> before.status, edges |-> before.edges,
                      order |-> before.order]
  BY DEF TypeOK

(* A key is taken exactly if it is one of the first m.                      *)
LEMMA MirrorTaken ==
  ASSUME NEW list \in Seq(NodeIds), NEW m \in Nat, m <= Len(list), Mirrors(list, m),
         NEW k \in OrderKeys
  PROVE  sled.order[k] # Empty <=> k < m
<1>1. k < m => list[k + 1] \in NodeIds
  OBVIOUS
<1> QED
  BY <1>1 DEF Mirrors

(* The next free key is the length of the list.                             *)
LEMMA NextKeyIsLength ==
  ASSUME NEW list \in Seq(NodeIds), Mirrors(list, Len(list)),
         NEW k, IsNextKey(k)
  PROVE  k = Len(list)
<1>1. k \in OrderKeys /\ k \in Nat /\ Len(list) \in Nat
  BY DEF IsNextKey
<1>2. ~ (k < Len(list))
  BY <1>1, MirrorTaken DEF IsNextKey
<1>3. ~ (k > Len(list))
  <2>1. SUFFICES ASSUME k > Len(list) PROVE FALSE
    OBVIOUS
  <2>2. k - 1 \in OrderKeys /\ sled.order[k - 1] # Empty
    BY <1>1, <2>1 DEF IsNextKey
  <2>3. k - 1 < Len(list)
    BY <1>1, <2>2, MirrorTaken
  <2> QED
    BY <1>1, <2>1, <2>3
<1> QED
  BY <1>1, <1>2, <1>3

(* The session of a node that is added, or loaded, is ranked, and those     *)
(* that were ranked stay so.                                                *)
LEMMA PushSessionRanks ==
  ASSUME session_order \in Seq(Sessions), NEW s \in Sessions, PushSession(s)
  PROVE  RangeOf(session_order') = RangeOf(session_order) \cup {s}
<1>1. CASE s \in RangeOf(session_order)
  BY <1>1 DEF PushSession
<1>2. CASE s \notin RangeOf(session_order)
  BY <1>2, RangeOfAppend DEF PushSession
<1> QED
  BY <1>1, <1>2

-------------------------------------------------------------------------------
(* Start: the database of the old version, or none.                         *)

LEMMA RestartInit == Init => RestartInv
<1> SUFFICES ASSUME Init PROVE RestartInv
  OBVIOUS
<1>1. StructureInv /\ AtRest
  BY StructureInit DEF Init, NoGraph, AtRest
<1>2. PICK blob \in LegacyBlobs, nodes \in [NodeIds -> Stored], links \in SUBSET EdgeIds :
        /\ RangeOf(blob) = {n \in NodeIds : nodes[n] # "absent"}
        /\ \A e \in links : Ends(e) \subseteq RangeOf(blob)
        /\ disk = FirstDb(blob, nodes, links)
  BY DEF Init
<1>3. /\ sled = FirstDb(blob, nodes, links) /\ phase = "down" /\ cursor = 0
      /\ before.status = disk.nodes /\ before.edges = links /\ before.order = blob
      /\ blob \in Seq(NodeIds) /\ Listed(blob)
  BY <1>2 DEF Init, FirstDb
<1>4. before.status = nodes
  BY <1>2, <1>3 DEF FirstDb
<1>5. RangeOf(blob) = {n \in NodeIds : before.status[n] # "absent"}
  BY <1>2, <1>4
<1>6. \A e \in before.edges : \A n \in Ends(e) : before.status[n] # "absent"
  BY <1>2, <1>3, <1>5
<1>7. SledHolds(before.status, before.edges, before.order)
  <2>1. Mirrors(blob, 0)
    BY <1>3 DEF Mirrors, FirstDb
  <2>2. sled.nodes = before.status /\ sled.edges = before.edges /\ sled.legacy = blob
    BY <1>2, <1>3 DEF FirstDb
  <2>3. CASE blob = <<>>
    BY <1>3, <2>1, <2>2, <2>3 DEF SledHolds
  <2>4. CASE blob # <<>>
    BY <1>3, <2>1, <2>2, <2>4 DEF SledHolds
  <2> QED
    BY <2>3, <2>4
<1>8. UpClean /\ DownClean /\ LoadClean
  BY <1>3, <1>5, <1>6, <1>7 DEF UpClean, DownClean, LoadClean
<1> QED
  BY <1>1, <1>8 DEF RestartInv

-------------------------------------------------------------------------------
(* Loading and migrating.                                                   *)

(* The next entry of the order the last engine had is taken over.           *)
LEMMA NextEntryTaken ==
  ASSUME RestartInv, ~torn, phase \in {"loading", "migrating"},
         cursor < Len(before.order), TakeEntry(before.order[cursor + 1]),
         cursor' = cursor + 1, UNCHANGED <<phase, status, edges, before>>
  PROVE  LoadClean'
<1> DEFINE n == before.order[cursor + 1]
<1>1. /\ TypeOK /\ DownClean /\ LoadClean /\ cursor \in Nat
      /\ node_order \in Seq(NodeIds) /\ session_order \in Seq(Sessions)
  BY DEF RestartInv, StructureInv, TypeOK
<1>2. before.order \in Seq(NodeIds) /\ n \in NodeIds
  BY <1>1, BeforeType
<1>3. status[n] # "absent"
  <2>1. cursor + 1 \in 1..Len(before.order)
    BY <1>1, <1>2
  <2>2. n \in RangeOf(before.order)
    BY <2>1 DEF RangeOf
  <2>3. n \in {m \in NodeIds : before.status[m] # "absent"}
    BY <1>1, <2>2 DEF DownClean
  <2> QED
    BY <1>1, <2>3 DEF LoadClean
<1>4. node_order' = Append(node_order, n) /\ PushSession(SessionOf[n])
  BY <1>3 DEF TakeEntry
<1>5. SessionOf[n] \in Sessions
  BY <1>2
<1>6. RangeOf(session_order') = RangeOf(session_order) \cup {SessionOf[n]}
  BY <1>1, <1>4, <1>5, PushSessionRanks
<1>7. /\ Len(node_order) = cursor
      /\ \A i \in 1..cursor : node_order[i] = before.order[i]
      /\ \A i \in 1..cursor : SessionOf[before.order[i]] \in RangeOf(session_order)
      /\ status = before.status /\ edges = before.edges
  BY <1>1 DEF LoadClean
<1>8. /\ Len(node_order') = cursor + 1
      /\ \A i \in 1..cursor + 1 : node_order'[i] = before.order[i]
  BY <1>1, <1>2, <1>4, <1>7
<1>9. \A i \in 1..cursor + 1 : SessionOf[before.order[i]] \in RangeOf(session_order')
  BY <1>1, <1>6, <1>7
<1>10. cursor + 1 <= Len(before.order)
  BY <1>1, <1>2
<1> QED
  BY <1>7, <1>8, <1>9, <1>10 DEF LoadClean

(* All entries taken over: the graph is the one the last engine had.        *)
LEMMA AllEntriesTaken ==
  ASSUME RestartInv, ~torn, phase \in {"loading", "migrating"},
         cursor = Len(before.order)
  PROVE  /\ Graph = before
         /\ Listed(node_order)
         /\ RangeOf(node_order) = Known
         /\ \A n \in Known : SessionOf[n] \in RangeOf(session_order)
<1>1. /\ TypeOK /\ DownClean /\ LoadClean /\ node_order \in Seq(NodeIds)
  BY DEF RestartInv, StructureInv, TypeOK
<1>2. before.order \in Seq(NodeIds)
  BY <1>1, BeforeType
<1>3. node_order = before.order
  <2>1. /\ Len(node_order) = Len(before.order)
        /\ \A i \in 1..Len(node_order) : node_order[i] = before.order[i]
    BY <1>1 DEF LoadClean
  <2> QED
    BY <1>1, <1>2, <2>1, SeqEqual
<1>4. Graph = before
  BY <1>1, <1>3, BeforeType DEF Graph, LoadClean
<1>5. Listed(node_order) /\ RangeOf(node_order) = Known
  BY <1>1, <1>3 DEF DownClean, LoadClean, Known
<1>6. \A n \in RangeOf(node_order) : SessionOf[n] \in RangeOf(session_order)
  BY <1>1, <1>3 DEF LoadClean, RangeOf
<1> QED
  BY <1>4, <1>5, <1>6

LEMMA OpenClean ==
  ASSUME RestartInv, Open, ~torn
  PROVE  DownClean' /\ LoadClean'
<1>1. /\ TypeOK /\ DownClean /\ phase = "down" /\ cursor = 0 /\ cursor' = 0
      /\ NoGraph /\ UNCHANGED <<node_order, session_order, sled, before>>
  BY DEF RestartInv, StructureInv, Open, AtRest, NothingInMemory
<1>2. before.order \in Seq(NodeIds)
  BY <1>1, BeforeType
<1>3. SledHolds(before.status, before.edges, before.order)
  BY <1>1 DEF DownClean
<1>4. LoadClean'
  <2>1. status' = before.status
    BY <1>3 DEF Open, SledHolds
  <2>2. edges' = before.edges
    BY <1>1, <1>3, BeforeType DEF Open, SledHolds, LoadableEdges, DownClean
  <2> QED
    BY <1>1, <1>2, <2>1, <2>2 DEF LoadClean, NoGraph
<1>5. SledHolds(before.status, before.edges, before.order)'
  <2>1. CASE sled.legacy = <<>>
    <3>1. phase' = "loading"
      BY <2>1 DEF Open
    <3>2. Mirrors(before.order, Len(before.order))
      BY <1>3, <2>1 DEF SledHolds
    <3> QED
      BY <1>1, <1>3, <2>1, <3>1, <3>2 DEF SledHolds, Mirrors
  <2>2. CASE sled.legacy # <<>>
    <3>1. sled.legacy = before.order /\ before.order # <<>> /\ Mirrors(before.order, 0)
      BY <1>1, <1>3, <2>2 DEF SledHolds
    <3>2. OrderTreeEmpty(sled)
      <4>1. \A k \in OrderKeys : ~ (k < 0)
        OBVIOUS
      <4> QED
        BY <3>1, <4>1 DEF Mirrors, OrderTreeEmpty
    <3>3. phase' = "migrating"
      BY <2>2, <3>2 DEF Open
    <3> QED
      BY <1>1, <1>3, <3>1, <3>3 DEF SledHolds, Mirrors
  <2> QED
    BY <2>1, <2>2
<1> QED
  BY <1>1, <1>4, <1>5 DEF DownClean, Open

LEMMA LoadEntryClean ==
  ASSUME RestartInv, LoadEntry, ~torn
  PROVE  DownClean' /\ LoadClean'
<1>1. /\ TypeOK /\ DownClean /\ LoadClean /\ phase = "loading" /\ cursor \in Nat
      /\ UNCHANGED <<phase, status, edges, sled, before>>
  BY DEF RestartInv, StructureInv, LoadEntry, TypeOK
<1>2. before.order \in Seq(NodeIds) /\ Len(before.order) \in Nat
  BY <1>1, BeforeType
<1>3. /\ sled.legacy = <<>> /\ Mirrors(before.order, Len(before.order))
      /\ sled.nodes = before.status /\ sled.edges = before.edges
  BY <1>1 DEF DownClean, SledHolds
<1>4. PICK k \in OrderKeys :
        /\ cursor <= k /\ sled.order[k] # Empty
        /\ \A j \in OrderKeys : cursor <= j /\ j < k => sled.order[j] = Empty
        /\ TakeEntry(sled.order[k])
        /\ cursor' = k + 1
  BY DEF LoadEntry
<1>5. k < Len(before.order)
  <2>1. sled.order[k] # Empty /\ Len(before.order) <= Len(before.order)
    BY <1>2, <1>4
  <2> QED
    BY <1>2, <1>3, <2>1, MirrorTaken
<1>6. k = cursor
  <2>0. cursor <= k /\ k \in Nat
    BY <1>4
  <2>1. SUFFICES ASSUME cursor < k PROVE FALSE
    BY <1>1, <2>0
  <2>2. cursor \in OrderKeys /\ cursor < Len(before.order)
    BY <1>1, <1>2, <1>3, <1>5, <2>1 DEF Mirrors
  <2>3. sled.order[cursor] # Empty
    BY <1>2, <1>3, <2>2, MirrorTaken
  <2> QED
    BY <1>1, <1>4, <2>1, <2>2, <2>3
<1>7. sled.order[k] = before.order[cursor + 1]
  BY <1>3, <1>5, <1>6 DEF Mirrors
<1>8. LoadClean'
  BY <1>1, <1>4, <1>5, <1>6, <1>7, NextEntryTaken
<1>9. SledHolds(before.status, before.edges, before.order)'
  BY <1>1, <1>3 DEF SledHolds, Mirrors
<1> QED
  BY <1>1, <1>8, <1>9 DEF DownClean

LEMMA LoadDoneClean ==
  ASSUME RestartInv, LoadDone, ~torn
  PROVE  UpClean' /\ Graph' = before
<1>1. /\ TypeOK /\ DownClean /\ LoadClean /\ phase = "loading" /\ cursor \in Nat
      /\ phase' = "up" /\ UNCHANGED <<status, edges, node_order, session_order, sled>>
  BY DEF RestartInv, StructureInv, LoadDone, TypeOK, memory
<1>2. before.order \in Seq(NodeIds) /\ Len(before.order) \in Nat
  BY <1>1, BeforeType
<1>3. /\ sled.legacy = <<>> /\ Mirrors(before.order, Len(before.order))
      /\ sled.nodes = before.status /\ sled.edges = before.edges
  BY <1>1 DEF DownClean, SledHolds
<1>4. cursor = Len(before.order)
  <2>1. SUFFICES ASSUME cursor < Len(before.order) PROVE FALSE
    BY <1>1, <1>2 DEF LoadClean
  <2>2. cursor \in OrderKeys
    BY <1>1, <1>2, <1>3, <2>1 DEF Mirrors
  <2>3. sled.order[cursor] # Empty
    BY <1>2, <1>3, <2>1, <2>2, MirrorTaken
  <2> QED
    BY <1>1, <2>2, <2>3 DEF LoadDone
<1>5. /\ Graph = before /\ Listed(node_order) /\ RangeOf(node_order) = Known
      /\ \A n \in Known : SessionOf[n] \in RangeOf(session_order)
  BY <1>1, <1>4, AllEntriesTaken
<1>6. status = before.status /\ edges = before.edges /\ node_order = before.order
  BY <1>5 DEF Graph
<1>7. SledHolds(status, edges, node_order)'
  BY <1>1, <1>3, <1>6 DEF SledHolds, Mirrors
<1> QED
  BY <1>1, <1>5, <1>7 DEF UpClean, Graph, Known

LEMMA MigrateEntryClean ==
  ASSUME RestartInv, MigrateEntry, ~torn
  PROVE  DownClean' /\ LoadClean'
<1>1. /\ TypeOK /\ DownClean /\ LoadClean /\ phase = "migrating" /\ cursor \in Nat
      /\ UNCHANGED <<phase, status, edges, before>> /\ cursor' = cursor + 1
      /\ cursor \in OrderKeys
  BY DEF RestartInv, StructureInv, MigrateEntry, TypeOK
<1>2. before.order \in Seq(NodeIds) /\ Len(before.order) \in Nat
  BY <1>1, BeforeType
<1>3. /\ sled.legacy = before.order /\ before.order # <<>> /\ Mirrors(before.order, cursor)
      /\ sled.nodes = before.status /\ sled.edges = before.edges
  BY <1>1 DEF DownClean, SledHolds
<1>4. /\ cursor < Len(before.order)
      /\ TakeEntry(before.order[cursor + 1])
      /\ sled' = [sled EXCEPT !.order[cursor] = before.order[cursor + 1]]
  BY <1>3 DEF MigrateEntry
<1>5. LoadClean'
  BY <1>1, <1>4, NextEntryTaken
<1>6. /\ sled'.legacy = sled.legacy /\ sled'.nodes = sled.nodes /\ sled'.edges = sled.edges
      /\ \A k \in OrderKeys :
           sled'.order[k] = IF k = cursor THEN before.order[cursor + 1] ELSE sled.order[k]
  BY <1>1, <1>4 DEF TypeOK, Trees
<1>7. Mirrors(before.order, cursor)'
  <2>1. \A k \in 0..cursor : k \in OrderKeys
    BY <1>1, <1>3 DEF Mirrors
  <2>2. ASSUME NEW k \in OrderKeys
        PROVE  sled'.order[k] = IF k < cursor + 1 THEN before.order[k + 1] ELSE Empty
    <3>1. sled.order[k] = IF k < cursor THEN before.order[k + 1] ELSE Empty
      BY <1>3 DEF Mirrors
    <3>2. k \in Nat
      OBVIOUS
    <3> QED
      BY <1>1, <1>6, <3>1, <3>2
  <2> QED
    BY <1>1, <2>1, <2>2 DEF Mirrors
<1>8. SledHolds(before.status, before.edges, before.order)'
  BY <1>1, <1>3, <1>6, <1>7 DEF SledHolds
<1> QED
  BY <1>1, <1>5, <1>8 DEF DownClean

LEMMA MigrateDoneClean ==
  ASSUME RestartInv, MigrateDone, ~torn
  PROVE  UpClean' /\ Graph' = before
<1>1. /\ TypeOK /\ DownClean /\ LoadClean /\ phase = "migrating"
      /\ phase' = "up" /\ UNCHANGED <<status, edges, node_order, session_order>>
      /\ sled' = [sled EXCEPT !.legacy = <<>>]
  BY DEF RestartInv, StructureInv, MigrateDone, TypeOK, memory
<1>2. /\ sled.legacy = before.order /\ Mirrors(before.order, cursor)
      /\ sled.nodes = before.status /\ sled.edges = before.edges
  BY <1>1 DEF DownClean, SledHolds
<1>3. cursor = Len(before.order)
  BY <1>2 DEF MigrateDone
<1>4. /\ Graph = before /\ Listed(node_order) /\ RangeOf(node_order) = Known
      /\ \A n \in Known : SessionOf[n] \in RangeOf(session_order)
  BY <1>1, <1>3, AllEntriesTaken
<1>5. status = before.status /\ edges = before.edges /\ node_order = before.order
  BY <1>4 DEF Graph
<1>6. /\ sled'.order = sled.order /\ sled'.nodes = sled.nodes
      /\ sled'.edges = sled.edges /\ sled'.legacy = <<>>
  BY <1>1 DEF TypeOK, Trees
<1>7. SledHolds(status, edges, node_order)'
  BY <1>1, <1>2, <1>3, <1>5, <1>6 DEF SledHolds, Mirrors
<1> QED
  BY <1>1, <1>4, <1>7 DEF UpClean, Graph, Known

-------------------------------------------------------------------------------
(* Serving.                                                                 *)

LEMMA AddNodeClean ==
  ASSUME RestartInv, NEW n \in NodeIds, AddNode(n), ~torn'
  PROVE  UpClean'
<1>1. PICK given \in Statuses, stored \in BOOLEAN, ordered \in BOOLEAN, k \in OrderKeys :
        /\ IsNextKey(k)
        /\ status' = [status EXCEPT ![n] = given]
        /\ sled' = [sled EXCEPT !.nodes[n] = IF stored THEN given ELSE @,
                                !.order[k] = IF ordered THEN n ELSE @]
        /\ Remember(torn \/ ~stored \/ ~ordered, before)
  BY DEF AddNode
<1>2. ~torn /\ stored /\ ordered
  BY <1>1 DEF Remember
<1>3. /\ TypeOK /\ UpClean /\ phase = "up" /\ phase' = "up" /\ edges' = edges
      /\ status[n] = "absent" /\ status' = [status EXCEPT ![n] = given]
      /\ node_order' = Append(node_order, n) /\ PushSession(SessionOf[n])
  BY <1>1, <1>2 DEF RestartInv, StructureInv, AddNode
<1>4. node_order \in Seq(NodeIds) /\ Len(node_order) \in Nat /\ session_order \in Seq(Sessions)
  BY <1>3 DEF TypeOK
<1>5. /\ sled.nodes = status /\ sled.edges = edges /\ sled.legacy = <<>>
      /\ Mirrors(node_order, Len(node_order))
  BY <1>3 DEF UpClean, SledHolds
<1>6. k = Len(node_order)
  BY <1>1, <1>4, <1>5, NextKeyIsLength
<1>7. /\ sled'.nodes = [status EXCEPT ![n] = given]
      /\ sled'.edges = edges /\ sled'.legacy = <<>>
      /\ \A j \in OrderKeys : sled'.order[j] = IF j = k THEN n ELSE sled.order[j]
  BY <1>1, <1>2, <1>3, <1>5 DEF TypeOK, Trees
<1>8. Mirrors(node_order, Len(node_order))'
  <2>1. /\ Len(node_order') = k + 1 /\ node_order'[k + 1] = n
        /\ \A i \in 1..k : node_order'[i] = node_order[i]
    BY <1>3, <1>4, <1>6
  <2>2. \A j \in 0..k : j \in OrderKeys
    BY <1>4, <1>5, <1>6 DEF Mirrors
  <2>3. ASSUME NEW j \in OrderKeys
        PROVE  sled'.order[j] = IF j < k + 1 THEN node_order'[j + 1] ELSE Empty
    <3>1. sled.order[j] = IF j < k THEN node_order[j + 1] ELSE Empty
      BY <1>5, <1>6 DEF Mirrors
    <3>2. j \in Nat /\ k \in Nat
      OBVIOUS
    <3>3. CASE j < k
      <4>1. j + 1 \in 1..k
        BY <3>2, <3>3
      <4> QED
        BY <1>7, <2>1, <3>1, <3>2, <3>3, <4>1
    <3>4. CASE j >= k
      BY <1>7, <2>1, <3>1, <3>2, <3>4
    <3> QED
      BY <3>2, <3>3, <3>4
  <2>4. k \in Nat
    OBVIOUS
  <2> QED
    BY <2>1, <2>2, <2>3, <2>4 DEF Mirrors
<1>9. SledHolds(status, edges, node_order)'
  BY <1>3, <1>7, <1>8 DEF SledHolds
<1>10. Known' = Known \cup {n} /\ n \notin Known
  BY <1>3 DEF Known, TypeOK, Statuses
<1>11. Listed(node_order') /\ RangeOf(node_order') = Known'
  BY <1>3, <1>4, <1>10, RangeOfAppend DEF UpClean
<1>12. RangeOf(session_order') = RangeOf(session_order) \cup {SessionOf[n]}
  <2>1. SessionOf[n] \in Sessions
    OBVIOUS
  <2> QED
    BY <1>3, <1>4, <2>1, PushSessionRanks
<1>13. \A m \in Known' : SessionOf[m] \in RangeOf(session_order')
  BY <1>3, <1>10, <1>12 DEF UpClean
<1> QED
  BY <1>9, <1>11, <1>13 DEF UpClean

LEMMA InvalidateClean ==
  ASSUME RestartInv, NEW n \in NodeIds, InvalidateNode(n), ~torn'
  PROVE  UpClean'
<1>1. PICK stored \in BOOLEAN :
        /\ sled' = [sled EXCEPT !.nodes[n] = IF stored THEN "Invalidated" ELSE @]
        /\ Remember(torn \/ ~stored, before)
  BY DEF InvalidateNode
<1>2. ~torn /\ stored
  BY <1>1 DEF Remember
<1>3. /\ TypeOK /\ UpClean /\ phase = "up"
      /\ UNCHANGED <<phase, edges, node_order, session_order>>
      /\ status[n] # "absent" /\ status' = [status EXCEPT ![n] = "Invalidated"]
  BY <1>2 DEF RestartInv, StructureInv, InvalidateNode
<1>4. /\ sled.nodes = status /\ sled.edges = edges /\ sled.legacy = <<>>
      /\ Mirrors(node_order, Len(node_order))
  BY <1>3 DEF UpClean, SledHolds
<1>5. /\ sled'.nodes = status' /\ sled'.edges = edges /\ sled'.legacy = <<>>
      /\ sled'.order = sled.order
  BY <1>1, <1>2, <1>3, <1>4 DEF TypeOK, Trees
<1>6. Known' = Known
  BY <1>3 DEF Known, TypeOK
<1>7. SledHolds(status, edges, node_order)'
  BY <1>3, <1>4, <1>5 DEF SledHolds, Mirrors
<1> QED
  BY <1>3, <1>6, <1>7 DEF UpClean

LEMMA AddEdgeClean ==
  ASSUME RestartInv, NEW e \in EdgeIds, AddEdge(e), ~torn'
  PROVE  UpClean'
<1>1. PICK stored \in BOOLEAN :
        /\ sled' = [sled EXCEPT !.edges = IF stored THEN @ \cup {e} ELSE @]
        /\ Remember(torn \/ ~stored, before)
  BY DEF AddEdge
<1>2. ~torn /\ stored
  BY <1>1 DEF Remember
<1>3. /\ TypeOK /\ UpClean /\ phase = "up" /\ edges' = edges \cup {e}
      /\ UNCHANGED <<phase, status, node_order, session_order>>
  BY <1>2 DEF RestartInv, StructureInv, AddEdge
<1>4. /\ sled.nodes = status /\ sled.edges = edges /\ sled.legacy = <<>>
      /\ Mirrors(node_order, Len(node_order))
  BY <1>3 DEF UpClean, SledHolds
<1>5. /\ sled'.nodes = status /\ sled'.edges = edges' /\ sled'.legacy = <<>>
      /\ sled'.order = sled.order
  BY <1>1, <1>2, <1>3, <1>4 DEF TypeOK, Trees
<1>6. SledHolds(status, edges, node_order)'
  BY <1>3, <1>4, <1>5 DEF SledHolds, Mirrors
<1> QED
  BY <1>3, <1>6 DEF UpClean, Known

(* A process that ends and loses no write leaves what it served, or what it *)
(* was about to serve.                                                      *)
LEMMA ProcessEndsClean ==
  ASSUME RestartInv, ProcessEnds, ~torn'
  PROVE  DownClean'
<1>1. /\ ~torn /\ disk' = sled /\ sled' = sled /\ phase # "migrating" /\ phase # "down"
      /\ before' = IF phase = "up" THEN Graph ELSE before
      /\ phase' = "down" /\ cursor' = 0
  BY DEF ProcessEnds, Remember
<1>2. TypeOK /\ UpClean /\ DownClean /\ EdgesHaveEndpoints
  BY <1>1 DEF RestartInv, StructureInv
<1>3. CASE phase = "up"
  <2>1. /\ before'.status = status /\ before'.edges = edges /\ before'.order = node_order
    BY <1>1, <1>3 DEF Graph
  <2>2. SledHolds(status, edges, node_order)
    BY <1>2, <1>3 DEF UpClean
  <2>3. SledHolds(before.status, before.edges, before.order)'
    BY <1>1, <1>3, <2>1, <2>2 DEF SledHolds, Mirrors
  <2>4. /\ Listed(before'.order)
        /\ RangeOf(before'.order) = {n \in NodeIds : before'.status[n] # "absent"}
    BY <1>2, <1>3, <2>1 DEF UpClean, Known
  <2>5. \A e \in before'.edges : \A n \in Ends(e) : before'.status[n] # "absent"
    BY <1>2, <2>1 DEF EdgesHaveEndpoints, Known
  <2> QED
    BY <2>3, <2>4, <2>5 DEF DownClean
<1>4. CASE phase = "loading"
  <2>1. before' = before
    BY <1>1, <1>4
  <2>2. SledHolds(before.status, before.edges, before.order)'
    BY <1>1, <1>2, <1>4, <2>1 DEF DownClean, SledHolds, Mirrors
  <2> QED
    BY <1>2, <1>4, <2>1, <2>2 DEF DownClean
<1> QED
  BY <1>1, <1>2, <1>3, <1>4 DEF TypeOK

-------------------------------------------------------------------------------
(* The invariant, and the theorems that rest on it.                         *)

(* A step that touches none of what a restart relies on.                    *)
LEMMA CleanUntouched ==
  ASSUME UpClean /\ DownClean /\ LoadClean,
         UNCHANGED <<phase, status, edges, node_order, session_order, cursor, sled, before>>
  PROVE  (UpClean /\ DownClean /\ LoadClean)'
  BY DEF UpClean, DownClean, LoadClean, SledHolds, Mirrors, Known

LEMMA RegisterClean ==
  ASSUME RestartInv, NEW s \in Sessions, RegisterCommit(s), ~torn
  PROVE  UpClean'
<1>1. /\ UpClean /\ session_order \in Seq(Sessions) /\ PushSession(s)
      /\ UNCHANGED <<phase, status, edges, node_order, cursor, sled>>
  BY DEF RestartInv, StructureInv, TypeOK, RegisterCommit
<1>2. RangeOf(session_order') = RangeOf(session_order) \cup {s}
  BY <1>1, PushSessionRanks
<1> QED
  BY <1>1, <1>2 DEF UpClean, SledHolds, Mirrors, Known

LEMMA RestartStep == RestartInv /\ [Next]_vars => RestartInv'
<1> SUFFICES ASSUME RestartInv, [Next]_vars PROVE RestartInv'
  OBVIOUS
<1>0. StructureInv'
  BY StructureStep DEF RestartInv
<1>a. SUFFICES AtRest' /\ (~torn' => UpClean' /\ DownClean' /\ LoadClean')
  BY <1>0 DEF RestartInv
<1>b. ~torn => UpClean /\ DownClean /\ LoadClean
  BY DEF RestartInv
<1>1. CASE Open
  <2>1. phase' # "up" /\ phase' # "down" /\ torn' = torn /\ registering' = {}
    BY <1>1 DEF Open, RestartInv, AtRest
  <2> QED
    BY <1>1, <2>1, OpenClean DEF AtRest, UpClean
<1>2. CASE LoadEntry
  <2>1. phase' = "loading" /\ torn' = torn /\ registering' = {}
    BY <1>2 DEF LoadEntry, RestartInv, AtRest
  <2> QED
    BY <1>2, <2>1, LoadEntryClean DEF AtRest, UpClean
<1>3. CASE LoadDone
  <2>1. phase' = "up" /\ torn' = torn
    BY <1>3 DEF LoadDone
  <2> QED
    BY <1>3, <2>1, LoadDoneClean DEF AtRest, DownClean, LoadClean
<1>4. CASE MigrateEntry
  <2>1. phase' = "migrating" /\ torn' = torn /\ registering' = {}
    BY <1>4 DEF MigrateEntry, RestartInv, AtRest
  <2> QED
    BY <1>4, <2>1, MigrateEntryClean DEF AtRest, UpClean
<1>5. CASE MigrateDone
  <2>1. phase' = "up" /\ torn' = torn
    BY <1>5 DEF MigrateDone
  <2> QED
    BY <1>5, <2>1, MigrateDoneClean DEF AtRest, DownClean, LoadClean
<1>c. ASSUME phase' = "up", ~torn' => UpClean'
      PROVE  AtRest' /\ (~torn' => UpClean' /\ DownClean' /\ LoadClean')
  BY <1>c DEF AtRest, DownClean, LoadClean
<1>6. ASSUME NEW n \in NodeIds, AddNode(n)
      PROVE  AtRest' /\ (~torn' => UpClean' /\ DownClean' /\ LoadClean')
  <2>1. phase' = "up"
    BY <1>6 DEF AddNode
  <2> QED
    BY <1>6, <1>c, <2>1, AddNodeClean
<1>7. ASSUME NEW n \in NodeIds, InvalidateNode(n)
      PROVE  AtRest' /\ (~torn' => UpClean' /\ DownClean' /\ LoadClean')
  <2>1. phase' = "up"
    BY <1>7 DEF InvalidateNode
  <2> QED
    BY <1>7, <1>c, <2>1, InvalidateClean
<1>8. ASSUME NEW e \in EdgeIds, AddEdge(e)
      PROVE  AtRest' /\ (~torn' => UpClean' /\ DownClean' /\ LoadClean')
  <2>1. phase' = "up"
    BY <1>8 DEF AddEdge
  <2> QED
    BY <1>8, <1>c, <2>1, AddEdgeClean
<1>9. ASSUME NEW e \in EdgeIds, PostEdge(e)
      PROVE  AtRest' /\ (~torn' => UpClean' /\ DownClean' /\ LoadClean')
  BY <1>8, <1>9 DEF PostEdge
<1>d. ASSUME UNCHANGED <<phase, status, edges, node_order, session_order, cursor,
                         sled, torn, before>>,
             phase = "up" \/ UNCHANGED registering
      PROVE  AtRest' /\ (~torn' => UpClean' /\ DownClean' /\ LoadClean')
  BY <1>b, <1>d, CleanUntouched DEF RestartInv, AtRest
<1>10. ASSUME NEW q \in NodeIds, NEW r \in NodeIds, ResolveCheck(q, r)
       PROVE  AtRest' /\ (~torn' => UpClean' /\ DownClean' /\ LoadClean')
  BY <1>d, <1>10 DEF ResolveCheck
<1>11. ASSUME NEW q \in NodeIds, NEW r \in NodeIds, ResolveCommit(q, r)
       PROVE  AtRest' /\ (~torn' => UpClean' /\ DownClean' /\ LoadClean')
  BY <1>8, <1>11 DEF ResolveCommit
<1>12. ASSUME NEW s \in Sessions, RegisterCheck(s)
       PROVE  AtRest' /\ (~torn' => UpClean' /\ DownClean' /\ LoadClean')
  BY <1>d, <1>12 DEF RegisterCheck
<1>13. ASSUME NEW s \in Sessions, RegisterCommit(s)
       PROVE  AtRest' /\ (~torn' => UpClean' /\ DownClean' /\ LoadClean')
  <2>1. CASE phase = "up"
    BY <1>13, <1>c, <2>1, RegisterClean DEF RegisterCommit
  <2> QED
    BY <1>13, <2>1 DEF RegisterCommit, RestartInv, AtRest
<1>14. CASE Flush
  BY <1>d, <1>14 DEF Flush, memory
<1>15. CASE ProcessEnds
  <2>1. phase' = "down" /\ cursor' = 0 /\ registering' = {}
    BY <1>15 DEF ProcessEnds
  <2> QED
    BY <1>15, <2>1, ProcessEndsClean DEF AtRest, UpClean, LoadClean
<1>16. CASE UNCHANGED vars
  BY <1>d, <1>16 DEF vars, memory
<1> QED
  BY <1>1, <1>2, <1>3, <1>4, <1>5, <1>6, <1>7, <1>9, <1>10, <1>11, <1>12, <1>13,
     <1>14, <1>15, <1>16 DEF Next

LEMMA RestartInvariant == Spec => []RestartInv
  BY RestartInit, RestartStep, PTL DEF Spec

(* Unless a write was lost, sled holds what the running engine holds, or    *)
(* what the last one held.                                                  *)
THEOREM SledAlwaysMirrorsGraph == Spec => []SledMirrorsGraph
<1>1. RestartInv => SledMirrorsGraph
  BY DEF RestartInv, SledMirrorsGraph, UpClean, DownClean
<1> QED
  BY <1>1, RestartInvariant, PTL

(* Unless a write was lost, node_order lists the nodes of the graph, each   *)
(* of them once, after any number of restarts.                              *)
THEOREM OrderAlwaysListsNodesOnce == Spec => []OrderListsNodesOnce
<1>1. RestartInv => OrderListsNodesOnce
  BY DEF RestartInv, OrderListsNodesOnce, UpClean
<1> QED
  BY <1>1, RestartInvariant, PTL

(* A session has one index, and unless a write was lost the session of      *)
(* every node has one.                                                      *)
THEOREM SessionsAlwaysRanked == Spec => []SessionsRanked
<1>1. RestartInv => SessionsRanked
  BY DEF RestartInv, StructureInv, SessionsRanked, UpClean
<1> QED
  BY <1>1, RestartInvariant, PTL

(* The graph in memory stays well-formed, whatever was lost or is in flight; *)
(* and while no write was lost the linker is offered what debt reports.     *)
THEOREM AlwaysWellFormed == Spec => []WellFormed
<1>1. OrderListsNodesOnce => OpenItemsOffered
  <2> SUFFICES ASSUME RangeOf(node_order) = Known
               PROVE  open_questions = unresolved_items
    BY DEF OrderListsNodesOnce, OpenItemsOffered
  <2>1. ASSUME NEW n \in NodeIds, ActiveUnresolved(n)
        PROVE  n \in Known
    BY <2>1 DEF ActiveUnresolved, Known
  <2> QED
    BY <2>1 DEF open_questions, unresolved_items, Known
<1>2. /\ EdgesHaveEndpoints
      /\ OrderListsNodesOnce
      /\ SessionsRanked
      => WellFormed
  BY <1>1 DEF WellFormed
<1> QED
  BY <1>2, EdgesAlwaysHaveEndpoints, OrderAlwaysListsNodesOnce,
     SessionsAlwaysRanked, PTL

(* An engine that starts after no write was lost serves the graph the last  *)
(* one served.                                                              *)
THEOREM RestartIsClean == Spec => CleanRestart
<1>1. RestartInv /\ [Next]_vars =>
        [phase # "up" /\ phase' = "up" /\ ~torn' => Graph' = before]_vars
  <2> SUFFICES ASSUME RestartInv, [Next]_vars, phase # "up", phase' = "up", ~torn'
               PROVE  Graph' = before
    OBVIOUS
  <2>1. CASE LoadDone
    BY <2>1, LoadDoneClean DEF LoadDone
  <2>2. CASE MigrateDone
    BY <2>2, MigrateDoneClean DEF MigrateDone
  <2>3. CASE Open
    BY <2>3 DEF Open
  <2>4. CASE LoadEntry \/ MigrateEntry \/ Flush \/ ProcessEnds \/ UNCHANGED vars
    BY <2>4 DEF LoadEntry, MigrateEntry, Flush, ProcessEnds, vars
  <2>5. ASSUME NEW s \in Sessions, RegisterCheck(s) \/ RegisterCommit(s) PROVE FALSE
    BY <2>5 DEF RegisterCheck, RegisterCommit
  <2>6. ASSUME NEW e \in EdgeIds, PostEdge(e) PROVE FALSE
    BY <2>6 DEF PostEdge, AddEdge
  <2>7. ASSUME NEW q \in NodeIds, NEW r \in NodeIds, ResolveCheck(q, r) \/ ResolveCommit(q, r)
        PROVE  FALSE
    BY <2>7 DEF ResolveCheck, ResolveCommit, AddEdge
  <2>8. ASSUME NEW n \in NodeIds, AddNode(n) \/ InvalidateNode(n) PROVE FALSE
    BY <2>8 DEF AddNode, InvalidateNode
  <2> QED
    BY <2>1, <2>2, <2>3, <2>4, <2>5, <2>6, <2>7, <2>8 DEF Next
<1> QED
  BY <1>1, RestartInvariant, PTL DEF Spec, CleanRestart
===============================================================================
