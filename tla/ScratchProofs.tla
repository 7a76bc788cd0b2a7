---------------------------- MODULE ScratchProofs ----------------------------
(***************************************************************************)
(* Proofs about Scratch, for any sessions, files and tool calls, and any    *)
(* limits on entries and sessions.                                          *)
(*                                                                          *)
(* The window is a fact about the log alone: an idle interval, a count of   *)
(* later calls.  The engine keeps neither.  The invariant says what lru and *)
(* the rings stand for: behind each session of lru come exactly those that  *)
(* were active since its last call, calls of any other session are          *)
(* forgotten, and a ring that is not full has every call of its session     *)
(* and class that is not.                                                   *)
(***************************************************************************)
EXTENDS Scratch, FiniteSetTheorems, SequenceTheorems,
        WellFoundedInduction, TLAPS

(* Who called between a and b, and who is behind place a of lru.            *)
Active(a, b) == {log[q].session : q \in a..b}
Behind(a) == {lru[b] : b \in a+1..Len(lru)}

(* The session at a has a last call, and those behind it called since.      *)
Ranked ==
  /\ IsInjective(lru)
  /\ \A a \in DOMAIN lru : \E p \in DOMAIN log :
       log[p].session = lru[a] /\ Active(p + 1, Len(log)) = Behind(a)

OthersForgotten == \A i \in DOMAIN log : log[i].session \notin ToSet(lru) => Forgotten(i)

(* A ring holds calls that are not forgotten, in order; one that it does    *)
(* not hold came before them, and the ring is full.                         *)
Holds(ring, at, calls, lg) ==
  /\ at \in [DOMAIN ring -> calls]
  /\ \A n \in DOMAIN ring : ring[n] = lg[at[n]]
  /\ \A m, n \in DOMAIN ring : m < n => at[m] < at[n]
  /\ \A i \in calls : \/ \E n \in DOMAIN ring : at[n] = i
                      \/ Len(ring) = MaxEntries /\ \A n \in DOMAIN ring : i < at[n]

Kept(ring, calls, lg) == \E at \in [DOMAIN ring -> calls] : Holds(ring, at, calls, lg)

RingsKept ==
  \A s \in Sessions : /\ Kept(scratch[s].edits, Calls(s, "Write"), log)
                      /\ Kept(scratch[s].checks, Calls(s, "Check"), log)

IInv ==
  /\ TypeOK
  /\ scratch \in [Sessions -> [edits : Seq(ToolEvents), checks : Seq(ToolEvents)]]
  /\ Ranked
  /\ OthersForgotten
  /\ RingsKept

-------------------------------------------------------------------------------
(* Lists.                                                                   *)

LEMMA LastOfIs ==
  ASSUME NEW S, NEW seq \in Seq(S), NEW n \in Nat \ {0}
  PROVE  LET last == LastOf(seq, n) IN
         /\ last \in Seq(S)
         /\ Len(last) = IF Len(seq) > n THEN n ELSE Len(seq)
         /\ \A i \in 1..Len(last) : last[i] = seq[i + (Len(seq) - Len(last))]
<1>1. CASE Len(seq) > n
  <2>1. Len(seq) - n + 1 \in 1..Len(seq) + 1 /\ Len(seq) \in Nat
    BY <1>1
  <2>2. /\ SubSeq(seq, Len(seq) - n + 1, Len(seq)) \in Seq(S)
        /\ Len(SubSeq(seq, Len(seq) - n + 1, Len(seq))) = n
        /\ \A i \in 1..n : SubSeq(seq, Len(seq) - n + 1, Len(seq))[i] = seq[i + (Len(seq) - n)]
    BY <1>1, <2>1
  <2> QED
    BY <1>1, <2>2 DEF LastOf
<1>2. CASE ~(Len(seq) > n)
  <2>1. SubSeq(seq, 1, Len(seq)) = seq
    BY SubSeqFull
  <2>2. LastOf(seq, n) = seq
    BY <1>2, <2>1 DEF LastOf
  <2>3. \A i \in 1..Len(seq) : i + (Len(seq) - Len(seq)) = i
    OBVIOUS
  <2> QED
    BY <1>2, <2>2, <2>3
<1> QED
  BY <1>1, <1>2

LEMMA AppendIs ==
  ASSUME NEW S, NEW seq \in Seq(S), NEW x \in S
  PROVE  LET longer == Append(seq, x) IN
         /\ longer \in Seq(S) /\ Len(longer) = Len(seq) + 1
         /\ \A i \in 1..Len(seq) : longer[i] = seq[i]
         /\ longer[Len(seq) + 1] = x
  OBVIOUS

(* Without its x, a list without repetition keeps the rest in order.        *)
LEMMA WithoutIs ==
  ASSUME NEW S, NEW list \in Seq(S), IsInjective(list), NEW k \in DOMAIN list
  PROVE  LET rest == Without(list, list[k]) IN
         /\ rest \in Seq(S) /\ Len(rest) = Len(list) - 1
         /\ \A i \in 1..Len(list) - 1 : rest[i] = IF i < k THEN list[i] ELSE list[i + 1]
<1>1. (CHOOSE pos \in DOMAIN list : list[pos] = list[k]) = k
  BY DEF IsInjective
<1>2. list[k] \in ToSet(list)
  BY DEF ToSet
<1>3. Without(list, list[k]) = SubSeq(list, 1, k - 1) \o SubSeq(list, k + 1, Len(list))
  BY <1>1, <1>2 DEF Without, RemoveAt
<1>4. k \in 1..Len(list) /\ Len(list) \in Nat
  OBVIOUS
<1> DEFINE left == SubSeq(list, 1, k - 1)
           right == SubSeq(list, k + 1, Len(list))
<1>5. /\ left \in Seq(S) /\ Len(left) = k - 1 /\ \A i \in 1..k - 1 : left[i] = list[i]
  BY <1>4
<1>6. /\ right \in Seq(S) /\ Len(right) = Len(list) - k
      /\ \A i \in 1..Len(list) - k : right[i] = list[i + k]
  BY <1>4
<1> HIDE DEF left, right
<1>7. /\ left \o right \in Seq(S) /\ Len(left \o right) = Len(list) - 1
      /\ \A i \in 1..k - 1 : (left \o right)[i] = left[i]
      /\ \A i \in k..Len(list) - 1 : (left \o right)[i] = right[i - (k - 1)]
  <2>1. /\ left \o right \in Seq(S) /\ Len(left \o right) = Len(left) + Len(right)
        /\ \A i \in 1..Len(left) + Len(right) :
             (left \o right)[i] = IF i <= Len(left) THEN left[i] ELSE right[i - Len(left)]
    BY <1>5, <1>6, ConcatProperties
  <2>2. Len(left) + Len(right) = Len(list) - 1
    BY <1>4, <1>5, <1>6
  <2>3. ASSUME NEW i \in 1..k - 1
        PROVE  (left \o right)[i] = left[i]
    <3>1. i \in 1..Len(left) + Len(right) /\ i <= Len(left)
      BY <1>4, <1>5, <2>2
    <3> QED
      BY <2>1, <3>1
  <2>4. ASSUME NEW i \in k..Len(list) - 1
        PROVE  (left \o right)[i] = right[i - (k - 1)]
    <3>1. i \in 1..Len(left) + Len(right) /\ ~(i <= Len(left))
      BY <1>4, <1>5, <2>2
    <3> QED
      BY <1>5, <2>1, <3>1
  <2> QED
    BY <2>1, <2>2, <2>3, <2>4
<1>8. \A i \in 1..Len(list) - 1 : (left \o right)[i] = IF i < k THEN list[i] ELSE list[i + 1]
  <2>1. ASSUME NEW i \in 1..Len(list) - 1
        PROVE  (left \o right)[i] = IF i < k THEN list[i] ELSE list[i + 1]
    <3>1. CASE i < k
      BY <1>4, <1>5, <1>7, <3>1
    <3>2. CASE ~(i < k)
      <4>1. i - (k - 1) \in 1..Len(list) - k /\ i - (k - 1) + k = i + 1
        BY <1>4, <3>2
      <4>2. (left \o right)[i] = right[i - (k - 1)]
        <5>1. i \in k..Len(list) - 1
          BY <1>4, <3>2
        <5> QED
          BY <1>7, <5>1
      <4>3. right[i - (k - 1)] = list[i - (k - 1) + k]
        BY <1>6, <4>1
      <4> QED
        BY <3>2, <4>1, <4>2, <4>3, Zenon
    <3> QED
      BY <3>1, <3>2
  <2> QED
    BY <2>1
<1> QED
  BY <1>3, <1>7, <1>8 DEF left, right

-------------------------------------------------------------------------------
(* session_mut.                                                             *)

(* The new list is s behind the others, each from where src says: in order, *)
(* and only the first may be missing.                                       *)
Source(new, s, src) ==
  LET last == Len(new) IN
  /\ new \in Seq(Sessions) /\ last \in 1..MaxSessions
  /\ new[last] = s
  /\ src \in [1..last - 1 -> DOMAIN lru]
  /\ \A i \in 1..last - 1 : new[i] = lru[src[i]] /\ lru[src[i]] # s
  /\ \A i, j \in 1..last - 1 : i < j => src[i] < src[j]
  /\ \A b \in DOMAIN lru : \/ lru[b] = s
                           \/ \E i \in 1..last - 1 : src[i] = b
                           \/ b = 1 /\ Len(lru) = MaxSessions /\ s \notin ToSet(lru)

LEMMA SessionMutSource ==
  ASSUME NEW s \in Sessions, lru \in Seq(Sessions), Len(lru) <= MaxSessions, IsInjective(lru)
  PROVE  \E src : Source(session_mut(s), s, src)
<1> DEFINE new == session_mut(s)
<1>0. MaxSessions \in Nat \ {0} /\ Len(lru) \in Nat /\ Len(lru) <= MaxSessions
  BY ScratchAssumption DEF ScratchAssumption
<1>1. /\ MaxSessions \in Nat \ {0} /\ Len(lru) \in Nat /\ DOMAIN lru = 1..Len(lru)
      /\ \A b \in 1..Len(lru) : lru[b] \in Sessions
  BY ScratchAssumption DEF ScratchAssumption
<1>2. ASSUME NEW k \in 1..Len(lru), lru[k] = s
      PROVE  \E src : Source(new, s, src)
  <2> DEFINE from(i) == IF i < k THEN i ELSE i + 1
             src == [i \in 1..Len(lru) - 1 |-> from(i)]
  <2>1. /\ new \in Seq(Sessions) /\ Len(new) = Len(lru) /\ new[Len(lru)] = s
        /\ \A i \in 1..Len(lru) - 1 : new[i] = lru[from(i)]
    <3>1. CASE k = Len(lru)
      <4>1. new = lru
        BY <1>1, <1>2, <3>1 DEF session_mut, Last
      <4> QED
        BY <1>1, <1>2, <3>1, <4>1
    <3>2. CASE k # Len(lru)
      <4> DEFINE rest == Without(lru, s)
                 longer == Append(rest, s)
      <4>1. lru[Len(lru)] # s
        <5>1. k \in DOMAIN lru /\ Len(lru) \in DOMAIN lru
          BY <1>1, <1>2
        <5> QED
          BY <1>2, <3>2, <5>1 DEF IsInjective
      <4>2. new = LastOf(longer, MaxSessions)
        BY <4>1 DEF session_mut, Last
      <4>3. /\ rest \in Seq(Sessions) /\ Len(rest) = Len(lru) - 1
            /\ \A i \in 1..Len(lru) - 1 : rest[i] = lru[from(i)]
        <5>1. \A i \in 1..Len(lru) - 1 : rest[i] = IF i < k THEN lru[i] ELSE lru[i + 1]
          BY <1>1, <1>2, WithoutIs
        <5> QED
          BY <1>1, <1>2, <5>1, WithoutIs
      <4> HIDE DEF rest
      <4>4. /\ longer \in Seq(Sessions) /\ Len(longer) = Len(lru)
            /\ \A i \in 1..Len(lru) - 1 : longer[i] = rest[i]
            /\ longer[Len(lru)] = s
        <5>1. /\ longer \in Seq(Sessions) /\ Len(longer) = Len(rest) + 1
              /\ \A i \in 1..Len(rest) : longer[i] = rest[i]
              /\ longer[Len(rest) + 1] = s
          BY <4>3, AppendIs
        <5>2. Len(rest) = Len(lru) - 1 /\ Len(rest) + 1 = Len(lru)
          BY <1>0, <4>3
        <5> QED
          BY <5>1, <5>2
      <4> HIDE DEF longer
      <4>5. /\ new \in Seq(Sessions) /\ Len(new) = Len(lru)
            /\ \A i \in 1..Len(lru) : new[i] = longer[i]
        <5>1. Len(longer) <= MaxSessions
          BY <4>4
        <5>2. /\ new \in Seq(Sessions) /\ Len(new) = Len(longer)
              /\ \A i \in 1..Len(new) : new[i] = longer[i + (Len(longer) - Len(new))]
          BY <1>1, <4>2, <4>4, <5>1, LastOfIs
        <5>3. \A i \in 1..Len(new) : i + (Len(longer) - Len(new)) = i
          BY <1>1, <4>4, <5>2
        <5> QED
          BY <4>4, <5>2, <5>3
      <4> HIDE DEF new, from
      <4>6. Len(lru) \in 1..Len(lru) /\ \A i \in 1..Len(lru) - 1 : i \in 1..Len(lru)
        BY <1>1, <1>2
      <4> QED
        BY <4>3, <4>4, <4>5, <4>6
    <3> QED
      BY <3>1, <3>2
  <2> HIDE DEF new
  <2>2. \A i \in 1..Len(lru) - 1 : from(i) \in 1..Len(lru) /\ from(i) # k
    BY <1>1, <1>2
  <2>3. \A i \in 1..Len(lru) - 1 : lru[from(i)] # s
    BY <1>1, <1>2, <2>2 DEF IsInjective
  <2>4. \A i, j \in 1..Len(lru) - 1 : i < j => from(i) < from(j)
    BY <1>0
  <2>5. ASSUME NEW b \in 1..Len(lru), b # k
        PROVE  \E i \in 1..Len(lru) - 1 : from(i) = b
    <3>1. CASE b < k
      <4>1. b \in 1..Len(lru) - 1 /\ from(b) = b
        BY <1>0, <1>2, <3>1
      <4> QED
        BY <4>1
    <3>2. CASE k < b
      <4>1. b - 1 \in 1..Len(lru) - 1 /\ from(b - 1) = b
        BY <1>1, <1>2, <3>2
      <4> QED
        BY <4>1
    <3> QED
      BY <2>5, <3>1, <3>2
  <2> HIDE DEF from
  <2>6. \A i \in 1..Len(lru) - 1 : src[i] = from(i)
    OBVIOUS
  <2>7. src \in [1..Len(lru) - 1 -> DOMAIN lru]
    BY <1>1, <2>2
  <2> HIDE DEF src
  <2>8. Len(lru) \in 1..MaxSessions
    BY <1>1, <1>2
  <2>9. \A b \in DOMAIN lru : lru[b] = s \/ \E i \in 1..Len(lru) - 1 : src[i] = b
    BY <1>1, <1>2, <2>5, <2>6
  <2>10. Source(new, s, src)
    BY <2>1, <2>3, <2>4, <2>6, <2>7, <2>8, <2>9 DEF Source
  <2> QED
    BY <2>10
<1>3. CASE s \notin ToSet(lru)
  <2> DEFINE longer == Append(lru, s)
             d == Len(longer) - Len(new)
             src == [i \in 1..Len(new) - 1 |-> i + d]
  <2>1. new = LastOf(longer, MaxSessions)
    <3>1. ~(lru # <<>> /\ lru[Len(lru)] = s)
      BY <1>1, <1>3 DEF ToSet
    <3> QED
      BY <1>3, <3>1 DEF session_mut, Last, Without
  <2>2. /\ longer \in Seq(Sessions) /\ Len(longer) = Len(lru) + 1
        /\ \A i \in 1..Len(lru) : longer[i] = lru[i]
        /\ longer[Len(lru) + 1] = s
    BY AppendIs
  <2>22. Len(longer) = Len(lru) + 1
    BY <2>2
  <2> HIDE DEF longer, new
  <2>3. /\ new \in Seq(Sessions)
        /\ Len(new) = IF Len(lru) = MaxSessions THEN MaxSessions ELSE Len(lru) + 1
        /\ \A i \in 1..Len(new) : new[i] = longer[i + d]
    <3>1. /\ new \in Seq(Sessions)
          /\ Len(new) = IF Len(longer) > MaxSessions THEN MaxSessions ELSE Len(longer)
          /\ \A i \in 1..Len(new) : new[i] = longer[i + (Len(longer) - Len(new))]
      BY <1>1, <2>1, <2>2, LastOfIs
    <3>2. Len(longer) > MaxSessions <=> Len(lru) = MaxSessions
      BY <1>0, <2>22
    <3>3. Len(lru) # MaxSessions => Len(longer) = Len(lru) + 1
      BY <2>2
    <3> QED
      BY <3>1, <3>2, <3>3, Zenon
  <2>4. /\ Len(new) \in 1..MaxSessions
        /\ d = (IF Len(lru) = MaxSessions THEN 1 ELSE 0) /\ Len(new) + d = Len(lru) + 1
    <3>1. Len(new) = IF Len(lru) = MaxSessions THEN MaxSessions ELSE Len(lru) + 1
      BY <2>3
    <3> QED
      BY <1>0, <2>22, <3>1
  <2>20. d \in Nat
    BY <2>4
  <2> HIDE DEF d
  <2>5. \A i \in 1..Len(new) - 1 : i + d \in 1..Len(lru)
    BY <1>0, <2>4, <2>20
  <2>6. new[Len(new)] = s
    BY <2>2, <2>3, <2>4
  <2>7. \A i \in 1..Len(new) - 1 : new[i] = lru[i + d]
    <3>1. \A i \in 1..Len(new) - 1 : i \in 1..Len(new)
      BY <2>4
    <3> QED
      BY <2>2, <2>3, <2>5, <3>1
  <2>8. \A i \in 1..Len(new) - 1 : src[i] = i + d
    OBVIOUS
  <2>9. src \in [1..Len(new) - 1 -> DOMAIN lru]
    BY <1>1, <2>5
  <2> HIDE DEF src
  <2>10. \A b \in DOMAIN lru : lru[b] # s
    BY <1>3 DEF ToSet
  <2>11. ASSUME NEW b \in DOMAIN lru
         PROVE  \/ \E i \in 1..Len(new) - 1 : src[i] = b
                \/ b = 1 /\ Len(lru) = MaxSessions
    <3>1. CASE d = 0
      <4>1. b \in 1..Len(new) - 1 /\ b + 0 = b
        BY <1>0, <2>4, <3>1
      <4> QED
        BY <2>8, <3>1, <4>1
    <3>2. CASE d = 1 /\ b # 1
      <4>1. b - 1 \in 1..Len(new) - 1 /\ b - 1 + 1 = b
        BY <1>0, <2>4, <3>2
      <4> QED
        BY <2>8, <3>2, <4>1
    <3> QED
      BY <2>4, <3>1, <3>2
  <2>12. \A i, j \in 1..Len(new) - 1 : i < j => src[i] < src[j]
    BY <2>20, <2>8
  <2>13. Source(new, s, src)
    BY <1>1, <1>3, <2>3, <2>4, <2>6, <2>7, <2>8, <2>9, <2>10, <2>11, <2>12 DEF Source
  <2> QED
    BY <2>13 DEF new
<1> QED
  BY <1>1, <1>2, <1>3 DEF ToSet

-------------------------------------------------------------------------------
(* A step of the log.                                                       *)

Grown(e) ==
  /\ e \in ToolEvents /\ e.session \in Sessions
  /\ Len(log) \in Nat /\ Len(log') = Len(log) + 1
  /\ DOMAIN log = 1..Len(log) /\ DOMAIN log' = 1..Len(log) + 1
  /\ \A i \in 1..Len(log) : log'[i] = log[i]
  /\ log'[Len(log) + 1] = e
  /\ \A i \in 1..Len(log) : log[i].session \in Sessions

LEMMA LogGrows ==
  ASSUME NEW e \in ToolEvents, log \in Seq(ToolEvents), record_tool_event(e)
  PROVE  Grown(e)
<1>1. \A ev \in ToolEvents : ev.session \in Sessions
  BY ScratchAssumption DEF ScratchAssumption
<1>2. log' = Append(log, e)
  BY DEF record_tool_event
<1>3. /\ Len(log) \in Nat /\ Len(log') = Len(log) + 1 /\ log' \in Seq(ToolEvents)
      /\ \A i \in 1..Len(log) : log'[i] = log[i]
      /\ log'[Len(log) + 1] = e
  BY <1>2, AppendIs
<1> QED
  BY <1>1, <1>3 DEF Grown

(* An interval of the old log is active with the same sessions; one that    *)
(* reaches the new call has its session too.                                *)
LEMMA ActiveGrows ==
  ASSUME NEW e, Grown(e)
  PROVE  /\ \A a, b \in 1..Len(log) : Active(a, b)' = Active(a, b)
         /\ \A a, b \in 1..Len(log) + 1 : b = Len(log) + 1 =>
              Active(a, b)' = Active(a, Len(log)) \cup {e.session}
<1>1. ASSUME NEW a \in 1..Len(log), NEW b \in 1..Len(log)
      PROVE  Active(a, b)' = Active(a, b)
  <2>1. \A q \in a..b : log'[q] = log[q]
    BY DEF Grown
  <2> QED
    BY <2>1 DEF Active
<1>2. ASSUME NEW a \in 1..Len(log) + 1, NEW b, b = Len(log) + 1
      PROVE  Active(a, b)' = Active(a, Len(log)) \cup {e.session}
  <2>1. \A q \in a..Len(log) : q \in a..b /\ log'[q] = log[q]
    BY <1>2 DEF Grown
  <2>2. /\ b \in a..b /\ log'[b] = e
        /\ \A q \in a..b : q \in a..Len(log) \/ q = b
    BY <1>2 DEF Grown
  <2>3. ASSUME NEW x \in Active(a, b)'
        PROVE  x \in Active(a, Len(log)) \cup {e.session}
    <3>1. PICK q \in a..b : x = log'[q].session
      BY <2>3 DEF Active
    <3> QED
      BY <2>1, <2>2, <3>1, Zenon DEF Active
  <2>4. ASSUME NEW x \in Active(a, Len(log)) \cup {e.session}
        PROVE  x \in Active(a, b)'
    <3>1. CASE x = e.session
      BY <2>2, <3>1, Zenon DEF Active
    <3>2. CASE x \in Active(a, Len(log))
      <4>1. PICK q \in a..Len(log) : x = log[q].session
        BY <3>2 DEF Active
      <4> QED
        BY <2>1, <4>1, Zenon DEF Active
    <3> QED
      BY <2>4, <3>1, <3>2
  <2> QED
    BY <2>3, <2>4
<1> QED
  BY <1>1, <1>2

LEMMA ForgottenIs ==
  \A i : Forgotten(i) <=> \E a, b \in i + 1..Len(log) :
           log[i].session \notin Active(a, b) /\ Cardinality(Active(a, b)) >= MaxSessions
  BY Zenon DEF Forgotten, Active

LEMMA ForgottenStays ==
  ASSUME NEW e, Grown(e), NEW i \in 1..Len(log), Forgotten(i)
  PROVE  Forgotten(i)'
<1>1. PICK a, b \in i + 1..Len(log) : /\ log[i].session \notin Active(a, b)
                                      /\ Cardinality(Active(a, b)) >= MaxSessions
  BY ForgottenIs, Zenon
<1>2. /\ a \in 1..Len(log) /\ b \in 1..Len(log)
      /\ a \in i + 1..Len(log)' /\ b \in i + 1..Len(log)' /\ log'[i] = log[i]
  BY DEF Grown
<1>3. Active(a, b)' = Active(a, b)
  BY <1>2, ActiveGrows, Zenon
<1>4. \E c, d \in i + 1..Len(log') :
        log'[i].session \notin Active(c, d)' /\ Cardinality(Active(c, d)') >= MaxSessions
  BY <1>1, <1>2, <1>3, Zenon
<1> QED
  BY <1>4, Zenon DEF Forgotten, Active

(* What is forgotten now and was not is so for an interval up to the call.  *)
LEMMA NewlyForgotten ==
  ASSUME NEW e, Grown(e), NEW i \in 1..Len(log), Forgotten(i)', ~Forgotten(i)
  PROVE  \E a \in i + 1..Len(log) + 1 :
           /\ log[i].session \notin Active(a, Len(log)) \cup {e.session}
           /\ Cardinality(Active(a, Len(log)) \cup {e.session}) >= MaxSessions
<1>1. PICK a, b \in i + 1..Len(log') : /\ log'[i].session \notin Active(a, b)'
                                       /\ Cardinality(Active(a, b)') >= MaxSessions
  BY Zenon DEF Forgotten, Active
<1>2. /\ a \in 1..Len(log) + 1 /\ a \in i + 1..Len(log) + 1 /\ log'[i] = log[i]
      /\ b \in i + 1..Len(log) + 1
  BY <1>1 DEF Grown
<1>3. CASE b = Len(log) + 1
  <2>1. b \in 1..Len(log) + 1
    BY <1>2, <1>3 DEF Grown
  <2>2. Active(a, b)' = Active(a, Len(log)) \cup {e.session}
    BY <1>2, <1>3, <2>1, ActiveGrows, Zenon
  <2> QED
    BY <1>1, <1>2, <2>2, Zenon
<1>4. CASE b # Len(log) + 1 /\ a <= Len(log)
  <2>1. a \in 1..Len(log) /\ b \in 1..Len(log) /\ a \in i + 1..Len(log) /\ b \in i + 1..Len(log)
    <3>1. Len(log) \in Nat /\ i \in Nat /\ a \in Nat /\ b \in Nat
      BY <1>2 DEF Grown
    <3> QED
      BY <1>2, <1>4, <3>1
  <2>2. Active(a, b)' = Active(a, b)
    BY <2>1, ActiveGrows, Zenon
  <2>3. Forgotten(i)
    BY <1>1, <1>2, <2>1, <2>2, ForgottenIs, Zenon
  <2> QED
    BY <2>3
<1>5. CASE b # Len(log) + 1 /\ ~(a <= Len(log))
  <2>1. a..b = {}
    BY <1>2, <1>5 DEF Grown
  <2>2. Active(a, b)' = {}
    BY <2>1 DEF Active
  <2>3. ~(0 >= MaxSessions)
    BY ScratchAssumption DEF ScratchAssumption
  <2> QED
    BY <1>1, <2>2, <2>3, FS_EmptySet
<1> QED
  BY <1>3, <1>4, <1>5

LEMMA OwnCallsStay ==
  ASSUME NEW e, Grown(e), NEW i \in 1..Len(log), log[i].session = e.session
  PROVE  Forgotten(i)' <=> Forgotten(i)
<1>1. Forgotten(i) => Forgotten(i)'
  BY ForgottenStays
<1>2. Forgotten(i)' => Forgotten(i)
  BY NewlyForgotten
<1> QED
  BY <1>1, <1>2

LEMMA NewCallIsNot ==
  ASSUME NEW e, Grown(e), NEW n, n = Len(log) + 1
  PROVE  ~Forgotten(n)'
<1>1. n + 1..Len(log') = {}
  BY DEF Grown
<1> QED
  BY <1>1 DEF Forgotten

-------------------------------------------------------------------------------
(* A step of lru.                                                           *)

LEMMA TailSize ==
  ASSUME NEW S, NEW list \in Seq(S), IsInjective(list), NEW a \in 0..Len(list)
  PROVE  /\ IsFiniteSet({list[b] : b \in a + 1..Len(list)})
         /\ Cardinality({list[b] : b \in a + 1..Len(list)}) = Len(list) - a
<1> DEFINE T == {list[b] : b \in a + 1..Len(list)}
           f == [b \in a + 1..Len(list) |-> list[b]]
<1>1. IsFiniteSet(a + 1..Len(list)) /\ Cardinality(a + 1..Len(list)) = Len(list) - a
  <2>1. a \in Nat /\ Len(list) \in Nat /\ a <= Len(list)
    OBVIOUS
  <2>2. /\ IsFiniteSet(a + 1..Len(list))
        /\ Cardinality(a + 1..Len(list)) =
             IF a + 1 > Len(list) THEN 0 ELSE Len(list) - (a + 1) + 1
    <3>1. a + 1 \in Int /\ Len(list) \in Int
      BY <2>1
    <3> QED
      BY <3>1, FS_Interval
  <2> QED
    BY <2>1, <2>2
<1>2. f \in Bijection(a + 1..Len(list), T)
  <2>1. \A b \in a + 1..Len(list) : b \in DOMAIN list
    OBVIOUS
  <2>2. \A b, c \in a + 1..Len(list) : f[b] = f[c] => b = c
    BY <2>1 DEF IsInjective
  <2>3. f \in [a + 1..Len(list) -> T] /\ \A t \in T : \E b \in a + 1..Len(list) : f[b] = t
    OBVIOUS
  <2> QED
    BY <2>2, <2>3 DEF Bijection, Injection, Surjection, IsInjective
<1> QED
  BY <1>1, <1>2, FS_Bijection DEF ExistsBijection

(* Before the call the last call of a listed session, and those behind it.  *)
Placed(e, src) ==
  /\ lru \in Seq(Sessions) /\ Len(lru) <= MaxSessions
  /\ Ranked
  /\ Grown(e)
  /\ Source(lru', e.session, src)

LEMMA BehindMoves ==
  ASSUME NEW e, NEW src, Placed(e, src), NEW a \in 1..Len(lru') - 1
  PROVE  Behind(a)' = Behind(src[a]) \cup {e.session}
<1>1. /\ Len(lru') \in Nat /\ lru'[Len(lru')] = e.session
      /\ \A i \in 1..Len(lru') - 1 : src[i] \in 1..Len(lru) /\ lru'[i] = lru[src[i]]
      /\ \A i, j \in 1..Len(lru') - 1 : i < j => src[i] < src[j]
      /\ \A b \in 1..Len(lru) : \/ lru[b] = e.session
                                \/ \E i \in 1..Len(lru') - 1 : src[i] = b
                                \/ b = 1
  <2>1. DOMAIN lru = 1..Len(lru) /\ Len(lru') \in Nat
    BY DEF Placed, Source
  <2> QED
    BY <2>1, Zenon DEF Placed, Source
<1>2. ASSUME NEW x \in Behind(a)'
      PROVE  x \in Behind(src[a]) \cup {e.session}
  <2>1. PICK b \in a + 1..Len(lru') : x = lru'[b]
    BY <1>2 DEF Behind
  <2>2. CASE b = Len(lru')
    BY <1>1, <2>1, <2>2
  <2>3. CASE b # Len(lru')
    <3>1. b \in 1..Len(lru') - 1 /\ a < b
      BY <1>1, <2>1, <2>3
    <3>2. src[b] \in src[a] + 1..Len(lru) /\ x = lru[src[b]]
      BY <1>1, <2>1, <3>1
    <3> QED
      BY <3>2, Zenon DEF Behind
  <2> QED
    BY <2>2, <2>3
<1>3. ASSUME NEW x \in Behind(src[a])
      PROVE  x \in Behind(a)'
  <2>1. PICK b \in src[a] + 1..Len(lru) : x = lru[b]
    BY <1>3 DEF Behind
  <2>2. b \in 1..Len(lru) /\ src[a] < b /\ b # 1
    BY <1>1, <2>1
  <2>3. CASE lru[b] = e.session
    <3>1. Len(lru') \in a + 1..Len(lru')
      BY <1>1
    <3> QED
      BY <1>1, <2>1, <2>3, <3>1, Zenon DEF Behind
  <2>4. CASE \E i \in 1..Len(lru') - 1 : src[i] = b
    <3>1. PICK i \in 1..Len(lru') - 1 : src[i] = b
      BY <2>4
    <3>2. i \in a + 1..Len(lru')
      <4>1. ~(i < a) /\ i # a
        BY <1>1, <2>2, <3>1
      <4> QED
        BY <1>1, <4>1
    <3>3. x = lru'[i]
      BY <1>1, <2>1, <3>1
    <3> QED
      BY <3>2, <3>3, Zenon DEF Behind
  <2> QED
    BY <1>1, <2>2, <2>3, <2>4
<1>4. e.session \in Behind(a)'
  <2>1. Len(lru') \in a + 1..Len(lru')
    BY <1>1
  <2> QED
    BY <1>1, <2>1, Zenon DEF Behind
<1> QED
  BY <1>2, <1>3, <1>4

LEMMA RankedStep ==
  ASSUME NEW e, NEW src, Placed(e, src)
  PROVE  Ranked'
<1>0. Len(lru') \in Nat /\ Len(lru') # 0
  BY DEF Placed, Source
<1>1. /\ Len(lru') \in Nat /\ DOMAIN lru' = 1..Len(lru') /\ Len(lru') # 0
      /\ lru'[Len(lru')] = e.session
      /\ \A i \in 1..Len(lru') - 1 : /\ src[i] \in DOMAIN lru
                                     /\ lru'[i] = lru[src[i]] /\ lru[src[i]] # e.session
      /\ \A i, j \in 1..Len(lru') - 1 : i < j => src[i] < src[j]
  <2>1. DOMAIN lru' = 1..Len(lru')
    BY DEF Placed, Source
  <2> QED
    BY <1>0, <2>1, Zenon DEF Placed, Source
<1>2. \A i, j \in 1..Len(lru') - 1 : lru'[i] = lru'[j] => i = j
  <2>1. \A i, j \in 1..Len(lru') - 1 : lru'[i] = lru'[j] => src[i] = src[j]
    <3>1. \A b, c \in DOMAIN lru : lru[b] = lru[c] => b = c
      BY Zenon DEF Placed, Ranked, IsInjective
    <3>2. \A i \in 1..Len(lru') - 1 : src[i] \in DOMAIN lru /\ lru'[i] = lru[src[i]]
      BY <1>1, Zenon
    <3>3. ASSUME NEW i \in 1..Len(lru') - 1, NEW j \in 1..Len(lru') - 1, lru'[i] = lru'[j]
          PROVE  src[i] = src[j]
      <4>1. lru[src[i]] = lru[src[j]]
        BY <3>2, <3>3, Zenon
      <4> QED
        BY <3>1, <3>2, <4>1, Zenon
    <3> QED
      BY <3>3
  <2>2. \A i, j \in 1..Len(lru') - 1 : src[i] = src[j] => i = j
    <3>1. ASSUME NEW i \in 1..Len(lru') - 1, NEW j \in 1..Len(lru') - 1, src[i] = src[j]
          PROVE  i = j
      <4>1. src[i] \in Nat
        BY <1>1 DEF Placed
      <4>2. ~(i < j) /\ ~(j < i)
        BY <1>1, <3>1, <4>1
      <4> QED
        BY <1>1, <4>2
    <3> QED
      BY <3>1
  <2> QED
    BY <2>1, <2>2, Zenon
<1>3. IsInjective(lru')
  <2>1. \A i \in 1..Len(lru') : i \in 1..Len(lru') - 1 \/ i = Len(lru')
    BY <1>0
  <2>2. \A i \in 1..Len(lru') - 1 : lru'[i] # e.session
    BY <1>1, Zenon
  <2> QED
    BY <1>1, <1>2, <2>1, <2>2, Zenon DEF IsInjective
<1>4. ASSUME NEW a \in 1..Len(lru')
      PROVE  \E p \in DOMAIN log' : /\ log'[p].session = lru'[a]
                                    /\ Active(p + 1, Len(log))' = Behind(a)'
  <2>1. CASE a = Len(lru')
    <3>1. /\ Len(log) + 1 \in DOMAIN log' /\ log'[Len(log) + 1].session = lru'[a]
          /\ Len(log) + 1 + 1..Len(log') = {}
      BY <1>1, <2>1 DEF Placed, Grown
    <3>2. a + 1..Len(lru') = {}
      BY <1>1, <2>1
    <3>3. ASSUME NEW p, p = Len(log) + 1
          PROVE  Active(p + 1, Len(log))' = {} /\ Behind(a)' = {}
      BY <3>1, <3>2, <3>3 DEF Active, Behind
    <3> QED
      BY <3>1, <3>3
  <2>2. CASE a # Len(lru')
    <3>1. a \in 1..Len(lru') - 1
      BY <1>0, <2>2
    <3>2. PICK p \in DOMAIN log : /\ log[p].session = lru[src[a]]
                                  /\ Active(p + 1, Len(log)) = Behind(src[a])
      BY <1>1, <3>1, Zenon DEF Placed, Ranked
    <3>3. /\ p \in DOMAIN log' /\ log'[p] = log[p] /\ Len(log') = Len(log) + 1
          /\ p + 1 \in 1..Len(log) + 1 /\ Len(log') \in 1..Len(log) + 1
      BY DEF Placed, Grown
    <3>4. Active(p + 1, Len(log))' = Active(p + 1, Len(log)) \cup {e.session}
      <4> DEFINE first == p + 1
                 last == Len(log')
      <4>1. \A a1, b1 \in 1..Len(log) + 1 : b1 = Len(log) + 1 =>
              Active(a1, b1)' = Active(a1, Len(log)) \cup {e.session}
        BY ActiveGrows DEF Placed
      <4> QED
        BY <3>3, <4>1 DEF Active
    <3>5. Behind(a)' = Behind(src[a]) \cup {e.session}
      BY <3>1, BehindMoves, Zenon
    <3>6. log'[p].session = lru'[a]
      BY <1>1, <3>1, <3>2, <3>3, Zenon
    <3> QED
      BY <3>2, <3>3, <3>4, <3>5, <3>6, Zenon
  <2> QED
    BY <2>1, <2>2
<1> QED
  BY <1>1, <1>3, <1>4, Zenon DEF Ranked

(* A session that stays listed was not idle for MaxSessions others ...      *)
LEMMA HeldAreNotForgotten ==
  ASSUME NEW e, NEW src, Placed(e, src), NEW i \in 1..Len(log),
         log[i].session \in ToSet(lru'), log[i].session # e.session
  PROVE  Forgotten(i)' <=> Forgotten(i)
<1>0. Len(lru') \in 1..MaxSessions /\ MaxSessions \in Nat /\ lru' \in Seq(Sessions)
  BY ScratchAssumption DEF ScratchAssumption, Placed, Source
<1>1. PICK k \in 1..Len(lru') : lru'[k] = log[i].session
  <2>1. DOMAIN lru' = 1..Len(lru')
    BY <1>0
  <2> QED
    BY <2>1, Zenon DEF ToSet
<1>2. k \in 1..Len(lru') - 1
  <2>1. k # Len(lru')
    BY <1>1 DEF Placed, Source
  <2> QED
    BY <1>0, <2>1
<1>3. src[k] \in DOMAIN lru /\ lru[src[k]] = log[i].session
  BY <1>1, <1>2, Zenon DEF Placed, Source
<1>4. PICK p \in DOMAIN log : /\ log[p].session = log[i].session
                              /\ Active(p + 1, Len(log)) = Behind(src[k])
  BY <1>3, Zenon DEF Placed, Ranked
<1>5. /\ IsFiniteSet(Behind(src[k]) \cup {e.session})
      /\ ~(Cardinality(Behind(src[k]) \cup {e.session}) >= MaxSessions)
  <2>1. Behind(k)' = Behind(src[k]) \cup {e.session}
    BY <1>2, BehindMoves, Zenon
  <2>2. IsInjective(lru')
    BY RankedStep DEF Ranked
  <2>3. /\ IsFiniteSet({lru'[b] : b \in k + 1..Len(lru')})
        /\ Cardinality({lru'[b] : b \in k + 1..Len(lru')}) = Len(lru') - k
    <3>1. k \in 0..Len(lru') /\ lru' \in Seq(Sessions)
      BY <1>0
    <3> QED
      BY <2>2, <3>1, TailSize
  <2>4. ~(Len(lru') - k >= MaxSessions)
    BY <1>0
  <2> QED
    BY <2>1, <2>3, <2>4, Zenon DEF Behind
<1>6. SUFFICES ASSUME Forgotten(i)', ~Forgotten(i)
               PROVE  FALSE
  BY ForgottenStays DEF Placed
<1>7. PICK a \in i + 1..Len(log) + 1 :
        /\ log[i].session \notin Active(a, Len(log)) \cup {e.session}
        /\ Cardinality(Active(a, Len(log)) \cup {e.session}) >= MaxSessions
  BY <1>6, NewlyForgotten DEF Placed
<1>8. Active(a, Len(log)) \subseteq Active(p + 1, Len(log))
  <2>1. p \notin a..Len(log)
    BY <1>4, <1>7 DEF Active
  <2>2. p \in Nat /\ p <= Len(log) /\ Len(log) \in Nat /\ a \in Nat
    BY DEF Placed, Grown
  <2>3. \A q \in a..Len(log) : q \in p + 1..Len(log)
    BY <2>1, <2>2
  <2> QED
    BY <2>3 DEF Active
<1>9. Active(a, Len(log)) \cup {e.session} \subseteq Behind(src[k]) \cup {e.session}
  BY <1>4, <1>8
<1>10. Cardinality(Active(a, Len(log)) \cup {e.session})
         <= Cardinality(Behind(src[k]) \cup {e.session})
  BY <1>5, <1>9, FS_Subset
<1>11. /\ Cardinality(Active(a, Len(log)) \cup {e.session}) \in Nat
       /\ Cardinality(Behind(src[k]) \cup {e.session}) \in Nat
  BY <1>5, <1>9, FS_Subset, FS_CardinalityType
<1> QED
  BY <1>0, <1>5, <1>7, <1>10, <1>11

(* ... and one that leaves the list was.                                    *)
LEMMA DroppedAreForgotten ==
  ASSUME NEW e, NEW src, Placed(e, src), OthersForgotten, NEW i \in 1..Len(log),
         log[i].session \notin ToSet(lru')
  PROVE  Forgotten(i)'
<1>1. CASE log[i].session \notin ToSet(lru)
  <2>1. Forgotten(i)
    BY <1>1 DEF OthersForgotten, Placed, Grown
  <2> QED
    BY <2>1, ForgottenStays DEF Placed
<1>2. CASE log[i].session \in ToSet(lru)
  <2>0. /\ Len(lru) \in Nat /\ MaxSessions \in Nat /\ Len(log) \in Nat
        /\ DOMAIN lru' = 1..Len(lru') /\ Len(lru') \in 1..Len(lru')
    BY ScratchAssumption DEF ScratchAssumption, Placed, Grown, Source
  <2>1. PICK k \in DOMAIN lru : lru[k] = log[i].session
    BY <1>2 DEF ToSet
  <2>2. log[i].session # e.session
    <3>1. e.session \in ToSet(lru')
      BY <2>0, Zenon DEF Placed, Source, ToSet
    <3> QED
      BY <3>1
  <2>3. k = 1 /\ Len(lru) = MaxSessions /\ e.session \notin ToSet(lru)
    <3>1. ~\E j \in 1..Len(lru') - 1 : src[j] = k
      <4>1. SUFFICES ASSUME NEW j \in 1..Len(lru') - 1, src[j] = k
                     PROVE  FALSE
        OBVIOUS
      <4>2. lru'[j] = log[i].session
        BY <2>1, <4>1, Zenon DEF Placed, Source
      <4>3. j \in DOMAIN lru'
        BY <2>0
      <4> QED
        BY <4>2, <4>3 DEF ToSet
    <3> QED
      BY <2>1, <2>2, <3>1, Zenon DEF Placed, Source
  <2>4. PICK p \in DOMAIN log : /\ log[p].session = log[i].session
                                /\ Active(p + 1, Len(log)) = Behind(k)
    BY <2>1, Zenon DEF Placed, Ranked
  <2>5. log[i].session \notin Behind(k)
    <3>1. \A b \in 2..Len(lru) : b \in DOMAIN lru /\ lru[b] # lru[1]
      <4>1. \A b \in 2..Len(lru) : b \in DOMAIN lru /\ b # 1
        BY DEF Placed
      <4>2. 1 \in DOMAIN lru
        BY <2>1, <2>3, Zenon
      <4> QED
        BY <4>1, <4>2, Zenon DEF Placed, Ranked, IsInjective
    <3> QED
      BY <2>1, <2>3, <3>1 DEF Behind
  <2>6. IsFiniteSet(Behind(k)) /\ Cardinality(Behind(k)) = MaxSessions - 1
    <3>1. IsInjective(lru) /\ lru \in Seq(Sessions) /\ k \in 0..Len(lru)
      BY DEF Placed, Ranked
    <3>2. IsFiniteSet(Behind(k)) /\ Cardinality(Behind(k)) = Len(lru) - k
      BY <3>1, TailSize DEF Behind
    <3> QED
      BY <2>3, <3>2
  <2>7. e.session \notin Behind(k)
    <3>1. \A b \in k + 1..Len(lru) : b \in DOMAIN lru
      BY <2>3 DEF Placed
    <3> QED
      BY <2>3, <3>1 DEF Behind, ToSet
  <2>8. Cardinality(Behind(k) \cup {e.session}) >= MaxSessions
    <3>1. Cardinality(Behind(k) \cup {e.session}) = MaxSessions - 1 + 1
      BY <2>6, <2>7, FS_AddElement
    <3> QED
      BY <2>0, <3>1
  <2>9. /\ p + 1 \in 1..Len(log) + 1 /\ Len(log) + 1 \in 1..Len(log) + 1
        /\ p + 1 \in i + 1..Len(log') /\ Len(log) + 1 \in i + 1..Len(log')
        /\ log'[i] = log[i]
    <3>1. p \in 1..Len(log) /\ i \in 1..Len(log) /\ Len(log') = Len(log) + 1
      BY <2>0 DEF Placed, Grown
    <3>2. ~(p < i)
      <4>1. p < i => i \in p + 1..Len(log)
        BY <2>0, <3>1
      <4>2. i \notin p + 1..Len(log)
        BY <2>4, <2>5 DEF Active
      <4> QED
        BY <4>1, <4>2
    <3>3. log'[i] = log[i]
      BY DEF Placed, Grown
    <3> QED
      BY <2>0, <3>1, <3>2, <3>3
  <2>10. \E a, b \in i + 1..Len(log') :
           log'[i].session \notin Active(a, b)' /\ Cardinality(Active(a, b)') >= MaxSessions
    <3>1. \A a, b \in 1..Len(log) + 1 : b = Len(log) + 1 =>
            Active(a, b)' = Active(a, Len(log)) \cup {e.session}
      BY ActiveGrows DEF Placed
    <3>2. \A a, b : a = p + 1 /\ b = Len(log) + 1 => Active(a, b)' = Behind(k) \cup {e.session}
      BY <2>4, <2>9, <3>1, Zenon
    <3>3. \E a, b : a = p + 1 /\ b = Len(log) + 1
      OBVIOUS
    <3> QED
      BY <2>2, <2>5, <2>8, <2>9, <3>2, <3>3, Zenon
  <2> QED
    BY <2>10, Zenon DEF Forgotten, Active
<1> QED
  BY <1>1, <1>2

LEMMA OthersForgottenStep ==
  ASSUME NEW e, NEW src, Placed(e, src), OthersForgotten
  PROVE  OthersForgotten'
<1>1. e.session \in ToSet(lru')
  BY DEF Placed, Source, ToSet
<1>2. ASSUME NEW i \in DOMAIN log', log'[i].session \notin ToSet(lru')
      PROVE  Forgotten(i)'
  <2>1. CASE i = Len(log) + 1
    BY <1>1, <1>2, <2>1 DEF Placed, Grown
  <2>2. CASE i # Len(log) + 1
    <3>1. i \in 1..Len(log) /\ log'[i] = log[i]
      BY <2>2 DEF Placed, Grown
    <3> QED
      BY <1>2, <3>1, DroppedAreForgotten
  <2> QED
    BY <2>1, <2>2
<1> QED
  BY <1>2 DEF OthersForgotten

-------------------------------------------------------------------------------
(* A step of the calls of a session that are not forgotten.                 *)

LEMMA CallsOfSession ==
  ASSUME NEW e, NEW src, Placed(e, src), NEW s \in Sessions, NEW class, s = e.session
  PROVE  Calls(s, class)' =
           Calls(s, class) \cup (IF e.class = class THEN {Len(log) + 1} ELSE {})
<1>0. /\ Grown(e)
      /\ Len(log) \in Nat /\ DOMAIN log = 1..Len(log) /\ DOMAIN log' = 1..Len(log) + 1
      /\ log'[Len(log) + 1] = e
      /\ \A i \in 1..Len(log) : log'[i] = log[i]
  BY DEF Placed, Grown
<1>1. ASSUME NEW i \in 1..Len(log)
      PROVE  i \in Calls(s, class)' <=> i \in Calls(s, class)
  <2>1. log'[i] = log[i] /\ i \in DOMAIN log /\ i \in DOMAIN log'
    BY <1>0
  <2>2. log[i].session = s => (Forgotten(i)' <=> Forgotten(i))
    BY <1>0, OwnCallsStay
  <2> QED
    BY <2>1, <2>2 DEF Calls
<1>2. ASSUME NEW i, i = Len(log) + 1
      PROVE  i \in Calls(s, class)' <=> e.class = class
  <2>1. ~Forgotten(i)'
    BY <1>0, <1>2, NewCallIsNot
  <2>2. log'[i] = e /\ i \in DOMAIN log'
    BY <1>0, <1>2
  <2> QED
    BY <2>1, <2>2 DEF Calls
<1>3. /\ Calls(s, class) \subseteq 1..Len(log) /\ Calls(s, class)' \subseteq 1..Len(log) + 1
      /\ \A i \in 1..Len(log) + 1 : i \in 1..Len(log) \/ i = Len(log) + 1
  BY <1>0 DEF Calls
<1>4. ASSUME NEW i \in Calls(s, class)'
      PROVE  i \in Calls(s, class) \cup (IF e.class = class THEN {Len(log) + 1} ELSE {})
  BY <1>1, <1>2, <1>3, Zenon
<1>5. ASSUME NEW i \in Calls(s, class) \cup (IF e.class = class THEN {Len(log) + 1} ELSE {})
      PROVE  i \in Calls(s, class)'
  <2>1. CASE i \in Calls(s, class)
    BY <1>1, <1>3, <2>1
  <2>2. CASE i = Len(log) + 1 /\ e.class = class
    BY <1>2, <2>2
  <2> QED
    BY <1>5, <2>1, <2>2, Zenon
<1> QED
  BY <1>4, <1>5

LEMMA CallsOfOther ==
  ASSUME NEW e, NEW src, Placed(e, src), NEW s \in Sessions, NEW class, s # e.session,
         s \in ToSet(lru')
  PROVE  Calls(s, class)' = Calls(s, class)
<1>0. /\ Len(log) \in Nat /\ DOMAIN log = 1..Len(log) /\ DOMAIN log' = 1..Len(log) + 1
      /\ log'[Len(log) + 1] = e
      /\ \A i \in 1..Len(log) : log'[i] = log[i]
  BY DEF Placed, Grown
<1>1. ASSUME NEW i \in 1..Len(log)
      PROVE  i \in Calls(s, class)' <=> i \in Calls(s, class)
  <2>1. log'[i] = log[i] /\ i \in DOMAIN log /\ i \in DOMAIN log'
    BY <1>0
  <2>2. log[i].session = s => (Forgotten(i)' <=> Forgotten(i))
    BY HeldAreNotForgotten
  <2> QED
    BY <2>1, <2>2 DEF Calls
<1>2. Calls(s, class)' \subseteq 1..Len(log)
  <2>1. \A i \in 1..Len(log) + 1 : i \in 1..Len(log) \/ i = Len(log) + 1
    BY <1>0
  <2> QED
    BY <1>0, <2>1 DEF Calls
<1>3. Calls(s, class) \subseteq 1..Len(log)
  BY <1>0 DEF Calls
<1> QED
  BY <1>1, <1>2, <1>3

LEMMA CallsOfDropped ==
  ASSUME NEW e, NEW src, Placed(e, src), OthersForgotten, NEW s \in Sessions, NEW class,
         s \notin ToSet(lru')
  PROVE  Calls(s, class)' = {}
<1>1. OthersForgotten'
  BY OthersForgottenStep
<1> QED
  BY <1>1 DEF Calls, OthersForgotten

-------------------------------------------------------------------------------
(* A step of a ring.                                                        *)

LEMMA KeptNone ==
  ASSUME NEW lg
  PROVE  Kept(<<>>, {}, lg)
<1>1. Holds(<<>>, [n \in {} |-> n], {}, lg)
  BY DEF Holds
<1> QED
  BY <1>1 DEF Kept, Holds

LEMMA KeptStays ==
  ASSUME NEW ring, NEW calls, NEW lg, NEW longer, \A i \in calls : longer[i] = lg[i],
         Kept(ring, calls, lg)
  PROVE  Kept(ring, calls, longer)
<1>1. PICK at \in [DOMAIN ring -> calls] : Holds(ring, at, calls, lg)
  BY Zenon DEF Kept
<1>2. \A n \in DOMAIN ring : ring[n] = longer[at[n]]
  BY <1>1 DEF Holds
<1>3. Holds(ring, at, calls, longer)
  BY <1>1, <1>2, Zenon DEF Holds
<1> QED
  BY <1>3, Zenon DEF Kept

(* The ring with x behind its last entries: without the first if it is full. *)
Pushed(S, ring, x, new, d) ==
  /\ new \in Seq(S) /\ Len(new) \in 1..MaxEntries
  /\ d = (IF Len(ring) = MaxEntries THEN 1 ELSE 0)
  /\ new[Len(new)] = x
  /\ \A i \in 1..Len(new) - 1 : i + d \in 1..Len(ring) /\ new[i] = ring[i + d]

LEMMA PushIs ==
  ASSUME NEW S, NEW ring \in Seq(S), Len(ring) <= MaxEntries, NEW x \in S,
         NEW new, new = Push(ring, x), NEW d, d = Len(ring) + 1 - Len(new)
  PROVE  Pushed(S, ring, x, new, d)
<1> DEFINE longer == Append(ring, x)
<1>0. MaxEntries \in Nat \ {0} /\ Len(ring) \in Nat /\ Len(ring) <= MaxEntries
  BY ScratchAssumption DEF ScratchAssumption
<1>1. /\ longer \in Seq(S) /\ Len(longer) = Len(ring) + 1
      /\ \A i \in 1..Len(ring) : longer[i] = ring[i]
      /\ longer[Len(ring) + 1] = x
  BY AppendIs
<1>2. new = LastOf(longer, MaxEntries)
  BY DEF Push
<1> HIDE DEF longer
<1>3. /\ new \in Seq(S)
      /\ Len(new) = IF Len(longer) > MaxEntries THEN MaxEntries ELSE Len(longer)
      /\ \A i \in 1..Len(new) : new[i] = longer[i + (Len(longer) - Len(new))]
  BY <1>0, <1>1, <1>2, LastOfIs
<1>4. Len(new) = IF Len(ring) = MaxEntries THEN MaxEntries ELSE Len(ring) + 1
  <2>1. Len(longer) = Len(ring) + 1
    BY <1>1
  <2>2. Len(new) = IF Len(longer) > MaxEntries THEN MaxEntries ELSE Len(longer)
    BY <1>3
  <2> QED
    BY <1>0, <2>1, <2>2
<1>5. /\ Len(new) \in 1..MaxEntries
      /\ d = (IF Len(ring) = MaxEntries THEN 1 ELSE 0) /\ d \in Nat
      /\ Len(new) + d = Len(ring) + 1
  BY <1>0, <1>4
<1>6. \A i \in 1..Len(new) : new[i] = longer[i + d]
  <2>1. Len(longer) - Len(new) = d
    BY <1>0, <1>1
  <2> QED
    BY <1>3, <2>1, Zenon
<1>7. /\ Len(new) \in 1..Len(new)
      /\ \A i \in 1..Len(new) - 1 : i + d \in 1..Len(ring) /\ i \in 1..Len(new)
  BY <1>0, <1>5
<1>8. new[Len(new)] = x
  BY <1>1, <1>5, <1>6, <1>7, Zenon
<1>9. \A i \in 1..Len(new) - 1 : new[i] = ring[i + d]
  BY <1>1, <1>6, <1>7, Zenon
<1> QED
  BY <1>3, <1>5, <1>7, <1>8, <1>9 DEF Pushed

LEMMA KeptPush ==
  ASSUME NEW S, NEW ring \in Seq(S), Len(ring) <= MaxEntries, NEW x \in S, NEW n \in Nat,
         NEW calls \in SUBSET (1..n), NEW lg, NEW longer,
         \A i \in calls : longer[i] = lg[i], longer[n + 1] = x,
         Kept(ring, calls, lg)
  PROVE  Kept(Push(ring, x), calls \cup {n + 1}, longer)
<1> DEFINE new == Push(ring, x)
           d == Len(ring) + 1 - Len(new)
           all == calls \cup {n + 1}
<1>0. new = Push(ring, x) /\ d = Len(ring) + 1 - Len(new)
  OBVIOUS
<1> HIDE DEF new, d
<1>1. PICK at \in [DOMAIN ring -> calls] : Holds(ring, at, calls, lg)
  BY Zenon DEF Kept
<1>2. /\ new \in Seq(S) /\ Len(new) \in 1..MaxEntries
      /\ d = (IF Len(ring) = MaxEntries THEN 1 ELSE 0)
      /\ new[Len(new)] = x
      /\ \A i \in 1..Len(new) - 1 : i + d \in 1..Len(ring) /\ new[i] = ring[i + d]
  <2>1. Pushed(S, ring, x, new, d)
    BY <1>0, PushIs
  <2> QED
    BY <2>1, Zenon DEF Pushed
<1>3. /\ MaxEntries \in Nat /\ Len(ring) \in Nat /\ Len(new) \in Nat /\ d \in Nat
      /\ Len(new) # 0 /\ Len(new) + d = Len(ring) + 1
      /\ d = 1 => Len(new) = MaxEntries
  <2>1. /\ d = (IF Len(ring) = MaxEntries THEN 1 ELSE 0)
        /\ Len(ring) \in Nat /\ MaxEntries \in Nat /\ Len(new) \in 1..MaxEntries
    BY <1>2, ScratchAssumption DEF ScratchAssumption
  <2> QED
    BY <1>0, <2>1
<1>4. DOMAIN ring = 1..Len(ring) /\ DOMAIN new = 1..Len(new)
  BY <1>2
<1> DEFINE at2 == [i \in 1..Len(new) |-> IF i = Len(new) THEN n + 1 ELSE at[i + d]]
<1>5. /\ at2[Len(new)] = n + 1
      /\ \A i \in 1..Len(new) - 1 : at2[i] = at[i + d]
  BY <1>3
<1>6. \A i \in 1..Len(new) : i \in 1..Len(new) - 1 \/ i = Len(new)
  BY <1>3
<1>7. \A i \in 1..Len(new) - 1 : at[i + d] \in calls /\ at[i + d] <= n
  <2>1. \A i \in calls : i \in Nat /\ i <= n
    <3>1. calls \subseteq 1..n
      OBVIOUS
    <3> QED
      BY <3>1
  <2>2. \A i \in 1..Len(new) - 1 : at[i + d] \in calls
    BY <1>2, <1>4, Zenon
  <2> QED
    BY <2>1, <2>2
<1>20. \A i \in calls : i \in Nat /\ i < n + 1
  OBVIOUS
<1>8. at2 \in [1..Len(new) -> all]
  BY <1>6, <1>7
<1> HIDE DEF at2
<1>9. \A i \in 1..Len(new) : new[i] = longer[at2[i]]
  <2>1. \A i \in 1..Len(new) - 1 : new[i] = longer[at2[i]]
    <3>1. ASSUME NEW i \in 1..Len(new) - 1
          PROVE  new[i] = longer[at2[i]]
      <4>1. i + d \in DOMAIN ring /\ new[i] = ring[i + d] /\ at2[i] = at[i + d]
        BY <1>2, <1>4, <1>5, Zenon
      <4>2. ring[i + d] = lg[at[i + d]]
        BY <1>1, <4>1, Zenon DEF Holds
      <4>3. longer[at[i + d]] = lg[at[i + d]]
        BY <1>7, Zenon
      <4> QED
        BY <4>1, <4>2, <4>3, Zenon
    <3> QED
      BY <3>1
  <2>2. new[Len(new)] = longer[at2[Len(new)]]
    BY <1>2, <1>5
  <2> QED
    BY <1>6, <2>1, <2>2, Zenon
<1>10. \A i, j \in 1..Len(new) : i < j => at2[i] < at2[j]
  <2>1. ASSUME NEW i \in 1..Len(new), NEW j \in 1..Len(new), i < j
        PROVE  at2[i] < at2[j]
    <3>1. i \in 1..Len(new) - 1
      BY <1>3, <2>1
    <3>2. CASE j = Len(new)
      <4>1. at2[i] = at[i + d] /\ at[i + d] < n + 1 /\ at2[j] = n + 1
        BY <1>5, <1>7, <1>20, <3>1, <3>2, Zenon
      <4> QED
        BY <4>1
    <3>3. CASE j \in 1..Len(new) - 1
      <4>1. i + d < j + d
        BY <1>3, <2>1
      <4>2. at[i + d] < at[j + d]
        BY <1>1, <1>2, <1>4, <3>1, <3>3, <4>1, Zenon DEF Holds
      <4> QED
        BY <1>5, <3>1, <3>3, <4>2
    <3> QED
      BY <1>6, <3>2, <3>3
  <2> QED
    BY <2>1
<1>11. ASSUME NEW i \in all
       PROVE  \/ \E k \in 1..Len(new) : at2[k] = i
              \/ Len(new) = MaxEntries /\ \A k \in 1..Len(new) : i < at2[k]
  <2>1. CASE i = n + 1
    <3>1. Len(new) \in 1..Len(new)
      BY <1>3
    <3> QED
      BY <1>5, <2>1, <3>1
  <2>2. CASE i \in calls /\ \E k \in 1..Len(ring) : at[k] = i
    <3>1. PICK k \in 1..Len(ring) : at[k] = i
      BY <2>2
    <3>2. CASE k > d
      <4>1. k - d \in 1..Len(new) - 1 /\ k - d \in 1..Len(new) /\ k - d + d = k
        BY <1>3, <3>2
      <4> QED
        BY <1>5, <3>1, <4>1
    <3>3. CASE ~(k > d)
      <4>1. d = 1 /\ k = 1
        BY <1>2, <1>3, <3>3
      <4>2. \A m \in 1..Len(new) - 1 : 1 < m + d
        BY <4>1
      <4>3. \A m \in 1..Len(new) - 1 : i < at2[m]
        <5>1. ASSUME NEW m \in 1..Len(new) - 1
              PROVE  i < at2[m]
          <6>1. 1 < m + d /\ m + d \in DOMAIN ring /\ k \in DOMAIN ring
            BY <1>2, <1>4, <4>2
          <6>2. at[k] < at[m + d]
            BY <1>1, <4>1, <6>1 DEF Holds
          <6> QED
            BY <1>5, <3>1, <6>2
        <5> QED
          BY <5>1
      <4>4. i < at2[Len(new)]
        BY <1>5, <1>20, <2>2, Zenon
      <4> QED
        BY <1>3, <1>6, <4>1, <4>3, <4>4
    <3> QED
      BY <3>2, <3>3
  <2>3. CASE i \in calls /\ ~\E k \in 1..Len(ring) : at[k] = i
    <3>1. Len(ring) = MaxEntries /\ \A k \in 1..Len(ring) : i < at[k]
      BY <1>1, <1>4, <2>3, Zenon DEF Holds
    <3>2. Len(new) = MaxEntries
      BY <1>2, <1>3, <3>1
    <3>3. \A k \in 1..Len(new) - 1 : i < at2[k]
      BY <1>2, <1>5, <3>1
    <3>4. i < at2[Len(new)]
      BY <1>5, <1>20, <2>3, Zenon
    <3> QED
      BY <1>6, <3>2, <3>3, <3>4
  <2> QED
    BY <2>1, <2>2, <2>3
<1>12. Holds(new, at2, all, longer)
  <2> HIDE DEF all
  <2> QED
    BY <1>4, <1>8, <1>9, <1>10, <1>11, Zenon DEF Holds
<1>13. at2 \in [DOMAIN new -> all]
  BY <1>4, <1>8, Zenon
<1> QED
  BY <1>12, <1>13, Zenon DEF Kept, new

-------------------------------------------------------------------------------
(* The invariant.                                                           *)

(* The two classes of calls.                                                *)
Edits == {e \in ToolEvents : e.class = "Write"}
Checks == {e \in ToolEvents : e.class = "Check"}

LEMMA Constants ==
  /\ MaxEntries \in Nat \ {0} /\ MaxSessions \in Nat \ {0}
  /\ \A e \in ToolEvents : e.session \in Sessions /\ e.class \in {"Write", "Check"}
  BY ScratchAssumption DEF ScratchAssumption

LEMMA NoLog ==
  ASSUME log = <<>>, scratch = [s \in Sessions |-> Empty], lru = <<>>
  PROVE  IInv
<1>1. TypeOK
  <2>1. \A s \in Sessions : scratch[s].edits = <<>> /\ scratch[s].checks = <<>>
    BY DEF Empty
  <2>2. <<>> \in Seq(Edits) /\ <<>> \in Seq(Checks) /\ <<>> \in Seq(Sessions)
        /\ <<>> \in Seq(ToolEvents) /\ Len(<<>>) = 0
    OBVIOUS
  <2>3. 0 <= MaxEntries /\ 0 <= MaxSessions
    BY Constants
  <2> QED
    BY <2>1, <2>2, <2>3 DEF TypeOK, Edits, Checks
<1>2. scratch \in [Sessions -> [edits : Seq(ToolEvents), checks : Seq(ToolEvents)]]
  BY DEF Empty
<1>3. Ranked /\ OthersForgotten
  BY DEF Ranked, OthersForgotten, IsInjective
<1>4. RingsKept
  <2>1. \A s \in Sessions, class \in {"Write", "Check"} : Calls(s, class) = {}
    BY DEF Calls
  <2>2. \A s \in Sessions : scratch[s].edits = <<>> /\ scratch[s].checks = <<>>
    BY DEF Empty
  <2>3. Kept(<<>>, {}, log)
    BY KeptNone
  <2> QED
    BY <2>1, <2>2, <2>3, Zenon DEF RingsKept
<1> QED
  BY <1>1, <1>2, <1>3, <1>4 DEF IInv

LEMMA RecordPlaced ==
  ASSUME IInv, NEW e \in ToolEvents, record_tool_event(e)
  PROVE  \E src : Placed(e, src)
<1>1. Grown(e)
  BY LogGrows DEF IInv, TypeOK
<1>2. /\ lru \in Seq(Sessions) /\ Len(lru) <= MaxSessions /\ IsInjective(lru) /\ Ranked
      /\ e.session \in Sessions
  BY Constants DEF IInv, TypeOK, Ranked
<1>3. PICK src : Source(session_mut(e.session), e.session, src)
  BY <1>2, SessionMutSource
<1>4. lru' = session_mut(e.session)
  BY DEF record_tool_event
<1>5. Source(lru', e.session, src)
  BY <1>3, <1>4, Zenon
<1>6. Placed(e, src)
  BY <1>1, <1>2, <1>5 DEF Placed
<1> QED
  BY <1>6

(* What becomes of the scratch of a session.                                *)
Recorded(e, s) ==
  CASE s = e.session /\ e.class = "Write" ->
         /\ scratch'[s].edits = Push(scratch[s].edits, e)
         /\ scratch'[s].checks = scratch[s].checks
    [] s = e.session /\ e.class = "Check" ->
         /\ scratch'[s].edits = scratch[s].edits
         /\ scratch'[s].checks = Push(scratch[s].checks, e)
    [] s # e.session /\ s \in ToSet(lru') -> scratch'[s] = scratch[s]
    [] OTHER -> scratch'[s] = Empty

LEMMA RecordIs ==
  ASSUME IInv, NEW e \in ToolEvents, record_tool_event(e)
  PROVE  /\ scratch' \in [Sessions -> [edits : Seq(ToolEvents), checks : Seq(ToolEvents)]]
         /\ \A s \in Sessions : Recorded(e, s)
<1>0. scratch' = [s \in Sessions |->
       IF s = e.session
       THEN IF e.class = "Write"
            THEN [scratch[s] EXCEPT !.edits = Push(@, e)]
            ELSE [scratch[s] EXCEPT !.checks = Push(@, e)]
       ELSE IF s \in ToSet(lru') THEN scratch[s] ELSE Empty]
  BY DEF record_tool_event
<1>1. ASSUME NEW s \in Sessions
      PROVE  /\ scratch'[s] \in [edits : Seq(ToolEvents), checks : Seq(ToolEvents)]
             /\ Recorded(e, s)
  <2>1. scratch[s] \in [edits : Seq(ToolEvents), checks : Seq(ToolEvents)]
    BY DEF IInv
  <2>2. /\ Len(scratch[s].edits) <= MaxEntries /\ Len(scratch[s].checks) <= MaxEntries
        /\ scratch[s].edits \in Seq(ToolEvents) /\ scratch[s].checks \in Seq(ToolEvents)
    BY <2>1 DEF IInv, TypeOK
  <2> DEFINE edits == Push(scratch[s].edits, e)
             checks == Push(scratch[s].checks, e)
  <2>3. edits \in Seq(ToolEvents) /\ checks \in Seq(ToolEvents)
    <3>1. \A ring \in Seq(ToolEvents) : \A new, d :
            Len(ring) <= MaxEntries /\ new = Push(ring, e) /\ d = Len(ring) + 1 - Len(new) =>
              Pushed(ToolEvents, ring, e, new, d)
      BY PushIs
    <3>2. \A ring \in Seq(ToolEvents) : Len(ring) <= MaxEntries => Push(ring, e) \in Seq(ToolEvents)
      BY <3>1, Zenon DEF Pushed
    <3> QED
      BY <2>2, <3>2
  <2>4. CASE s = e.session /\ e.class = "Write"
    <3>1. scratch'[s] = [scratch[s] EXCEPT !.edits = edits]
      BY <1>0, <2>4
    <3> HIDE DEF edits
    <3> QED
      BY <2>1, <2>3, <2>4, <3>1 DEF Recorded, edits
  <2>5. CASE s = e.session /\ e.class # "Write"
    <3>1. scratch'[s] = [scratch[s] EXCEPT !.checks = checks]
      BY <1>0, <2>5
    <3>2. e.class = "Check"
      BY <2>5, Constants
    <3> HIDE DEF checks
    <3> QED
      BY <2>1, <2>3, <2>5, <3>1, <3>2 DEF Recorded, checks
  <2>6. CASE s # e.session
    BY <1>0, <2>1, <2>6 DEF Recorded, Empty
  <2> QED
    BY <2>4, <2>5, <2>6
<1>2. scratch' = [s \in Sessions |-> scratch'[s]]
  BY <1>0
<1> QED
  BY <1>1, <1>2

LEMMA TypeStep ==
  ASSUME IInv, NEW e \in ToolEvents, record_tool_event(e), NEW src, Placed(e, src)
  PROVE  TypeOK'
<1>1. /\ lru' \in Seq(Sessions) /\ Len(lru') <= MaxSessions /\ e.session \in ToSet(lru')
  <2>1. lru' \in Seq(Sessions) /\ Len(lru') \in 1..MaxSessions /\ lru'[Len(lru')] = e.session
    BY DEF Placed, Source
  <2>2. Len(lru') <= MaxSessions /\ Len(lru') \in DOMAIN lru'
    BY <2>1, Constants
  <2> QED
    BY <2>1, <2>2, Zenon DEF ToSet
<1>2. log' \in Seq(ToolEvents)
  BY AppendIs DEF record_tool_event, IInv, TypeOK
<1>3. ASSUME NEW s \in Sessions
      PROVE  /\ scratch'[s].edits \in Seq(Edits) /\ scratch'[s].checks \in Seq(Checks)
             /\ Len(scratch'[s].edits) <= MaxEntries /\ Len(scratch'[s].checks) <= MaxEntries
             /\ scratch'[s] # Empty => s \in ToSet(lru')
  <2>1. /\ scratch[s].edits \in Seq(Edits) /\ scratch[s].checks \in Seq(Checks)
        /\ Len(scratch[s].edits) <= MaxEntries /\ Len(scratch[s].checks) <= MaxEntries
    BY DEF IInv, TypeOK, Edits, Checks
  <2>2. ASSUME NEW S, NEW ring \in Seq(S), e \in S, Len(ring) <= MaxEntries
        PROVE  Push(ring, e) \in Seq(S) /\ Len(Push(ring, e)) <= MaxEntries
    <3>1. PICK new, d : new = Push(ring, e) /\ d = Len(ring) + 1 - Len(new)
      OBVIOUS
    <3>2. Pushed(S, ring, e, new, d)
      BY <2>2, <3>1, PushIs
    <3>3. new \in Seq(S) /\ Len(new) <= MaxEntries
      BY <3>2, Constants DEF Pushed
    <3> QED
      BY <3>1, <3>3, Zenon
  <2>3. Recorded(e, s)
    BY RecordIs
  <2>4. CASE s = e.session /\ e.class = "Write"
    <3>1. e \in Edits
      BY <2>4 DEF Edits
    <3>2. scratch'[s].edits = Push(scratch[s].edits, e) /\ scratch'[s].checks = scratch[s].checks
      BY <2>3, <2>4 DEF Recorded
    <3>3. /\ Push(scratch[s].edits, e) \in Seq(Edits)
          /\ Len(Push(scratch[s].edits, e)) <= MaxEntries
      BY <2>1, <2>2, <3>1
    <3> QED
      BY <1>1, <2>1, <2>4, <3>2, <3>3, Zenon
  <2>5. CASE s = e.session /\ e.class = "Check"
    <3>1. e \in Checks
      BY <2>5 DEF Checks
    <3>2. scratch'[s].edits = scratch[s].edits /\ scratch'[s].checks = Push(scratch[s].checks, e)
      BY <2>3, <2>5 DEF Recorded
    <3>3. /\ Push(scratch[s].checks, e) \in Seq(Checks)
          /\ Len(Push(scratch[s].checks, e)) <= MaxEntries
      BY <2>1, <2>2, <3>1
    <3> QED
      BY <1>1, <2>1, <2>5, <3>2, <3>3, Zenon
  <2>6. CASE s # e.session /\ s \in ToSet(lru')
    <3>1. scratch'[s] = scratch[s]
      BY <2>3, <2>6 DEF Recorded
    <3> QED
      BY <2>1, <2>6, <3>1
  <2>7. CASE s # e.session /\ s \notin ToSet(lru')
    <3>1. scratch'[s] = Empty
      BY <2>3, <2>7 DEF Recorded
    <3>2. scratch'[s].edits = <<>> /\ scratch'[s].checks = <<>>
      BY <3>1 DEF Empty
    <3>3. <<>> \in Seq(Edits) /\ <<>> \in Seq(Checks) /\ Len(<<>>) <= MaxEntries
      BY Constants
    <3> QED
      BY <3>1, <3>2, <3>3, Zenon
  <2> QED
    BY <2>4, <2>5, <2>6, <2>7, Constants
<1> QED
  BY <1>1, <1>2, <1>3 DEF TypeOK, Edits, Checks

LEMMA RingsStep ==
  ASSUME IInv, NEW e \in ToolEvents, record_tool_event(e), NEW src, Placed(e, src)
  PROVE  RingsKept'
<1>1. ASSUME NEW s \in Sessions
      PROVE  /\ Kept(scratch'[s].edits, Calls(s, "Write")', log')
             /\ Kept(scratch'[s].checks, Calls(s, "Check")', log')
  <2>0. /\ Kept(scratch[s].edits, Calls(s, "Write"), log)
        /\ Kept(scratch[s].checks, Calls(s, "Check"), log)
    BY DEF IInv, RingsKept
  <2>1. /\ scratch[s].edits \in Seq(ToolEvents) /\ scratch[s].checks \in Seq(ToolEvents)
        /\ Len(scratch[s].edits) <= MaxEntries /\ Len(scratch[s].checks) <= MaxEntries
    <3>1. scratch[s] \in [edits : Seq(ToolEvents), checks : Seq(ToolEvents)]
      BY DEF IInv
    <3> QED
      BY <3>1 DEF IInv, TypeOK
  <2>2. /\ Len(log) \in Nat /\ log'[Len(log) + 1] = e
        /\ \A class : Calls(s, class) \subseteq 1..Len(log)
        /\ \A class : \A i \in Calls(s, class) : log'[i] = log[i]
    BY DEF Placed, Grown, Calls
  <2>3. \A ring, class : Kept(ring, Calls(s, class), log) => Kept(ring, Calls(s, class), log')
    BY <2>2, KeptStays
  <2>4. ASSUME NEW ring \in Seq(ToolEvents), NEW class, Len(ring) <= MaxEntries,
               Kept(ring, Calls(s, class), log)
        PROVE  Kept(Push(ring, e), Calls(s, class) \cup {Len(log) + 1}, log')
    BY <2>2, <2>4, KeptPush
  <2>5. Recorded(e, s)
    BY RecordIs
  <2>6. CASE s = e.session /\ e.class = "Write"
    <3>1. scratch'[s].edits = Push(scratch[s].edits, e) /\ scratch'[s].checks = scratch[s].checks
      BY <2>5, <2>6 DEF Recorded
    <3>2. /\ Calls(s, "Write")' = Calls(s, "Write") \cup {Len(log) + 1}
          /\ Calls(s, "Check")' = Calls(s, "Check") \cup {}
      <4>1. \A class : Calls(s, class)' =
              Calls(s, class) \cup (IF e.class = class THEN {Len(log) + 1} ELSE {})
        BY <2>6, CallsOfSession
      <4>2. e.class = "Write" /\ e.class # "Check"
        BY <2>6
      <4> QED
        BY <4>1, <4>2, Zenon
    <3>3. Calls(s, "Check")' = Calls(s, "Check")
      BY <3>2
    <3> QED
      BY <2>0, <2>1, <2>3, <2>4, <3>1, <3>2, <3>3, Zenon
  <2>7. CASE s = e.session /\ e.class = "Check"
    <3>1. scratch'[s].edits = scratch[s].edits /\ scratch'[s].checks = Push(scratch[s].checks, e)
      BY <2>5, <2>7 DEF Recorded
    <3>2. /\ Calls(s, "Check")' = Calls(s, "Check") \cup {Len(log) + 1}
          /\ Calls(s, "Write")' = Calls(s, "Write") \cup {}
      <4>1. \A class : Calls(s, class)' =
              Calls(s, class) \cup (IF e.class = class THEN {Len(log) + 1} ELSE {})
        BY <2>7, CallsOfSession
      <4>2. e.class = "Check" /\ e.class # "Write"
        BY <2>7
      <4> QED
        BY <4>1, <4>2, Zenon
    <3>3. Calls(s, "Write")' = Calls(s, "Write")
      BY <3>2
    <3> QED
      BY <2>0, <2>1, <2>3, <2>4, <3>1, <3>2, <3>3, Zenon
  <2>8. CASE s # e.session /\ s \in ToSet(lru')
    <3>1. scratch'[s] = scratch[s]
      BY <2>5, <2>8 DEF Recorded
    <3>2. \A class : Calls(s, class)' = Calls(s, class)
      BY <2>8, CallsOfOther
    <3> QED
      BY <2>0, <2>3, <3>1, <3>2, Zenon
  <2>9. CASE s # e.session /\ s \notin ToSet(lru')
    <3>1. scratch'[s].edits = <<>> /\ scratch'[s].checks = <<>>
      BY <2>5, <2>9 DEF Recorded, Empty
    <3>2. \A class : Calls(s, class)' = {}
      BY <2>9, CallsOfDropped DEF IInv
    <3>3. Kept(<<>>, {}, log')
      BY KeptNone
    <3> QED
      BY <3>1, <3>2, <3>3, Zenon
  <2> QED
    BY <2>6, <2>7, <2>8, <2>9, Constants
<1> QED
  BY <1>1, Zenon DEF RingsKept

LEMMA NoLogNext ==
  log' = <<>> /\ scratch' = [s \in Sessions |-> Empty] /\ lru' = <<>> => IInv'
<1>1. log = <<>> /\ scratch = [s \in Sessions |-> Empty] /\ lru = <<>> => IInv
  BY NoLog
<1>2. (log = <<>> /\ scratch = [s \in Sessions |-> Empty] /\ lru = <<>> => IInv)'
  BY <1>1, PTL
<1> QED
  BY <1>2

LEMMA InitIInv ==
  ASSUME Init
  PROVE  IInv
  BY NoLog DEF Init

LEMMA NextIInv ==
  ASSUME IInv, [Next]_vars
  PROVE  IInv'
<1>1. ASSUME NEW e \in ToolEvents, record_tool_event(e)
      PROVE  IInv'
  <2>1. PICK src : Placed(e, src)
    BY <1>1, RecordPlaced
  <2>2. TypeOK' /\ RingsKept'
    BY <1>1, <2>1, TypeStep, RingsStep
  <2>3. Ranked' /\ OthersForgotten'
    BY <2>1, RankedStep, OthersForgottenStep DEF IInv
  <2>4. scratch' \in [Sessions -> [edits : Seq(ToolEvents), checks : Seq(ToolEvents)]]
    BY <1>1, RecordIs
  <2> QED
    BY <2>2, <2>3, <2>4 DEF IInv
<1>2. CASE Restart
  BY <1>2, NoLogNext DEF Restart
<1>3. CASE UNCHANGED vars
  <2>1. lru' = lru /\ log' = log /\ scratch' = scratch
    BY <1>3 DEF vars
  <2>2. TypeOK'
    BY <2>1 DEF IInv, TypeOK
  <2>3. \A i : Forgotten(i)' <=> Forgotten(i)
    BY <2>1 DEF Forgotten
  <2>4. \A s, class : Calls(s, class)' = Calls(s, class)
    BY <2>1, <2>3 DEF Calls
  <2>5. RingsKept'
    BY <2>1, <2>4, Zenon DEF IInv, RingsKept
  <2>6. OthersForgotten'
    BY <2>1, <2>3 DEF IInv, OthersForgotten
  <2>7. Ranked'
    <3> DEFINE R(list, lg) ==
                 IsInjective(list) /\ \A a \in DOMAIN list : \E p \in DOMAIN lg :
                   /\ lg[p].session = list[a]
                   /\ {lg[q].session : q \in p + 1..Len(lg)} = {list[b] : b \in a + 1..Len(list)}
    <3>1. R(lru, log)
      BY Zenon DEF IInv, Ranked, Active, Behind
    <3>2. R(lru', log')
      <4> HIDE DEF R
      <4> QED
        BY <2>1, <3>1, Zenon
    <3> QED
      BY <3>2, Zenon DEF Ranked, Active, Behind
  <2> QED
    BY <2>1, <2>2, <2>5, <2>6, <2>7 DEF IInv
<1> QED
  BY <1>1, <1>2, <1>3 DEF Next

THEOREM Invariance == Spec => []IInv
  BY InitIInv, NextIInv, PTL DEF Spec

-------------------------------------------------------------------------------
(* The rings are the window.                                                *)

(* All calls of the window, and only those, are in the ring.                *)
Covers(at, ring, window) ==
  /\ \A n \in DOMAIN ring : at[n] \in window
  /\ \A i \in window : \E n \in DOMAIN ring : at[n] = i

LEMMA KeptIsWindow ==
  ASSUME IInv, NEW s \in Sessions, NEW class, NEW ring, DOMAIN ring = 1..Len(ring),
         Len(ring) \in Nat, Len(ring) <= MaxEntries, NEW at, Holds(ring, at, Calls(s, class), log)
  PROVE  Covers(at, ring, Window(s, class))
<1> DEFINE calls == Calls(s, class)
           last == Len(ring)
<1>0. MaxEntries \in Nat /\ Len(log) \in Nat /\ DOMAIN log = 1..Len(log)
  BY Constants DEF IInv, TypeOK
<1>1. calls \subseteq 1..Len(log)
  BY <1>0 DEF Calls
<1>2. /\ at \in [1..last -> calls]
      /\ \A m, n \in 1..last : m < n => at[m] < at[n]
      /\ \A i \in calls : \/ \E n \in 1..last : at[n] = i
                          \/ last = MaxEntries /\ \A n \in 1..last : i < at[n]
  BY Zenon DEF Holds
<1>20. /\ \A i \in calls : i \in Nat
       /\ \A n \in 1..last : at[n] \in calls /\ at[n] \in Nat
  BY <1>1, <1>2
<1>3. at \in Seq(Nat) /\ Len(at) = last
  <2>1. at \in [1..last -> Nat]
    BY <1>1, <1>2
  <2> QED
    BY <2>1
<1>4. IsInjective(at)
  <2>1. ASSUME NEW m \in 1..last, NEW n \in 1..last, at[m] = at[n]
        PROVE  m = n
    <3>1. at[m] \in Nat
      BY <1>1, <1>2
    <3>2. ~(m < n) /\ ~(n < m)
      BY <1>2, <2>1, <3>1
    <3> QED
      BY <3>2
  <2> QED
    BY <1>2, <2>1 DEF IsInjective
<1>5. \A a \in 0..last : /\ IsFiniteSet({at[b] : b \in a + 1..last})
                         /\ Cardinality({at[b] : b \in a + 1..last}) = last - a
  BY <1>3, <1>4, TailSize
<1>6. \A i : /\ IsFiniteSet(Since(i, s, class))
             /\ Since(i, s, class) = {k \in calls : k > i}
  <2>1. ASSUME NEW i
        PROVE  IsFiniteSet(Since(i, s, class))
    <3>1. Since(i, s, class) \subseteq 1..Len(log)
      BY <1>1 DEF Since
    <3>2. IsFiniteSet(1..Len(log))
      BY <1>0, FS_Interval
    <3> QED
      BY <3>1, <3>2, FS_Subset
  <2> QED
    BY <2>1 DEF Since
<1> HIDE DEF calls
<1>7. ASSUME NEW n \in 1..last
      PROVE  at[n] \in Window(s, class)
  <2>1. Since(at[n], s, class) = {at[b] : b \in n + 1..last}
    <3>1. ASSUME NEW k \in calls, k > at[n]
          PROVE  \E b \in n + 1..last : k = at[b]
      <4>1. at[n] \in Nat /\ k \in Nat
        BY <1>20
      <4>2. PICK b \in 1..last : at[b] = k
        BY <1>2, <3>1, <4>1
      <4>3. ~(b < n) /\ b # n
        BY <1>2, <3>1, <4>1, <4>2
      <4> QED
        BY <4>2, <4>3
    <3>2. ASSUME NEW b \in n + 1..last
          PROVE  at[b] \in calls /\ at[b] > at[n]
      <4>1. b \in 1..last /\ n < b
        OBVIOUS
      <4>2. at[b] \in calls /\ at[n] < at[b] /\ at[n] \in calls
        BY <1>2, <4>1
      <4> QED
        BY <1>1, <4>2
    <3> QED
      BY <1>6, <3>1, <3>2
  <2>2. Cardinality(Since(at[n], s, class)) = last - n
    <3>1. n \in 0..last
      OBVIOUS
    <3>2. Cardinality({at[b] : b \in n + 1..last}) = last - n
      BY <1>5, <3>1
    <3> QED
      BY <2>1, <3>2, Zenon
  <2>3. last - n < MaxEntries
    BY <1>0
  <2>4. at[n] \in calls
    BY <1>2
  <2> QED
    BY <2>2, <2>3, <2>4, Zenon DEF Window, calls
<1>8. ASSUME NEW i \in Window(s, class), ~\E n \in 1..last : at[n] = i
      PROVE  FALSE
  <2>1. i \in calls /\ Cardinality(Since(i, s, class)) < MaxEntries
    BY <1>8, Zenon DEF Window, calls
  <2>2. last = MaxEntries /\ \A n \in 1..last : i < at[n]
    BY <1>2, <1>8, <2>1
  <2>3. {at[b] : b \in 1..last} \subseteq Since(i, s, class)
    <3>1. \A n \in 1..last : at[n] \in calls /\ at[n] > i
      <4>1. \A n \in 1..last : at[n] \in calls /\ at[n] \in Nat
        BY <1>20
      <4>2. i \in Nat
        BY <1>20, <2>1
      <4> QED
        BY <2>2, <4>1, <4>2
    <3> QED
      BY <1>6, <3>1
  <2>4. Cardinality({at[b] : b \in 1..last}) = last
    <3>1. 0 \in 0..last /\ 0 + 1 = 1 /\ last - 0 = last
      OBVIOUS
    <3> QED
      BY <1>5, <3>1
  <2>5. Cardinality({at[b] : b \in 1..last}) <= Cardinality(Since(i, s, class))
    BY <1>6, <2>3, FS_Subset
  <2>6. Cardinality(Since(i, s, class)) \in Nat
    BY <1>6, FS_CardinalityType
  <2> QED
    BY <1>0, <2>1, <2>2, <2>4, <2>5, <2>6
<1> QED
  BY <1>7, <1>8, Zenon DEF Covers

LEMMA RingIsWindow ==
  ASSUME IInv, NEW s \in Sessions, NEW class, NEW ring \in Seq(ToolEvents),
         Len(ring) <= MaxEntries, Kept(ring, Calls(s, class), log)
  PROVE  InWindow(ring, s, class)
<1>1. PICK at \in [DOMAIN ring -> Calls(s, class)] : Holds(ring, at, Calls(s, class), log)
  BY Zenon DEF Kept
<1>2. DOMAIN ring = 1..Len(ring) /\ Len(ring) \in Nat
  OBVIOUS
<1>3. /\ \A n \in DOMAIN ring : at[n] \in Window(s, class)
      /\ \A i \in Window(s, class) : \E n \in DOMAIN ring : at[n] = i
  <2>1. Covers(at, ring, Window(s, class))
    BY <1>1, <1>2, KeptIsWindow
  <2> QED
    BY <2>1, Zenon DEF Covers
<1>4. at \in [DOMAIN ring -> Window(s, class)]
  BY <1>3
<1> QED
  BY <1>1, <1>3, <1>4, Zenon DEF InWindow, Holds

LEMMA ScratchShowsWindow ==
  ASSUME IInv
  PROVE  /\ ScratchIsWindow
         /\ \A s \in Sessions :
              /\ scratch[s].edits \in Seq(ToolEvents) /\ scratch[s].checks \in Seq(ToolEvents)
              /\ \A n \in DOMAIN scratch[s].checks : scratch[s].checks[n].class = "Check"
<1>1. ASSUME NEW s \in Sessions
      PROVE  /\ scratch[s].edits \in Seq(ToolEvents) /\ scratch[s].checks \in Seq(ToolEvents)
             /\ Len(scratch[s].edits) <= MaxEntries /\ Len(scratch[s].checks) <= MaxEntries
             /\ \A n \in DOMAIN scratch[s].checks : scratch[s].checks[n].class = "Check"
  <2>1. scratch[s] \in [edits : Seq(ToolEvents), checks : Seq(ToolEvents)]
    BY DEF IInv
  <2>2. /\ scratch[s].checks \in Seq(Checks)
        /\ Len(scratch[s].edits) <= MaxEntries /\ Len(scratch[s].checks) <= MaxEntries
    BY DEF IInv, TypeOK, Checks
  <2>3. \A n \in DOMAIN scratch[s].checks : scratch[s].checks[n] \in Checks
    BY <2>2
  <2> QED
    BY <2>1, <2>2, <2>3 DEF Checks
<1>2. ScratchIsWindow
  <2>1. ASSUME NEW s \in Sessions
        PROVE  InWindow(scratch[s].edits, s, "Write") /\ InWindow(scratch[s].checks, s, "Check")
    BY <1>1, RingIsWindow DEF IInv, RingsKept
  <2> QED
    BY <2>1 DEF ScratchIsWindow
<1> QED
  BY <1>1, <1>2

(* The ring buffers and the list of sessions (record_tool_event and         *)
(* session_mut in toolclass.rs) keep exactly the window: a session's last   *)
(* MaxEntries edits and checks, in the order they came, and nothing of what *)
(* came before it was idle for MaxSessions others.                          *)
THEOREM ScratchIsAlwaysWindow == Spec => []Inv
<1>1. IInv => Inv
  BY ScratchShowsWindow DEF IInv, Inv
<1> QED
  BY <1>1, Invariance, PTL

-------------------------------------------------------------------------------
(* The detectors.                                                           *)

LEMMA SnapshotIsWindow ==
  ASSUME IInv, NEW s \in Sessions
  PROVE  /\ ToSet(scratch[s].edits) = {log[i] : i \in Window(s, "Write")}
         /\ ToSet(scratch[s].checks) = {log[i] : i \in Window(s, "Check")}
<1>1. ASSUME NEW ring, NEW class, InWindow(ring, s, class)
      PROVE  ToSet(ring) = {log[i] : i \in Window(s, class)}
  <2>1. PICK at \in [DOMAIN ring -> Window(s, class)] :
          /\ \A n \in DOMAIN ring : ring[n] = log[at[n]]
          /\ \A i \in Window(s, class) : \E n \in DOMAIN ring : at[n] = i
    BY <1>1, Zenon DEF InWindow
  <2>2. ASSUME NEW n \in DOMAIN ring
        PROVE  ring[n] \in {log[i] : i \in Window(s, class)}
    <3>1. at[n] \in Window(s, class) /\ ring[n] = log[at[n]]
      BY <2>1, Zenon
    <3> QED
      BY <3>1, Zenon
  <2>3. ASSUME NEW i \in Window(s, class)
        PROVE  log[i] \in ToSet(ring)
    <3>1. PICK n \in DOMAIN ring : at[n] = i
      BY <2>1, Zenon
    <3>2. ring[n] = log[i]
      BY <2>1, <3>1, Zenon
    <3> QED
      BY <3>2, Zenon DEF ToSet
  <2>4. ToSet(ring) \subseteq {log[i] : i \in Window(s, class)}
    BY <2>2, Zenon DEF ToSet
  <2>5. {log[i] : i \in Window(s, class)} \subseteq ToSet(ring)
    BY <2>3, Zenon
  <2> QED
    BY <2>4, <2>5, Zenon
<1> QED
  BY <1>1, ScratchShowsWindow DEF ScratchIsWindow

LEMMA LeastNumber ==
  ASSUME NEW T \in SUBSET Nat, T # {}
  PROVE  \E m \in T : \A k \in T : m <= k
<1> DEFINE R == {ss \in Nat \X Nat : ss[1] < ss[2]}
<1>1. IsWellFoundedOn(R, Nat)
  BY NatLessThanWellFounded, Zenon DEF OpToRel
<1>2. \E m \in T : \A k \in T : ~(<<k, m>> \in R)
  <2> HIDE DEF R
  <2> QED
    BY <1>1, WFMin, Zenon
<1>3. PICK m \in T : \A k \in T : ~(<<k, m>> \in R)
  BY <1>2
<1>4. ASSUME NEW k \in T PROVE m <= k
  <2>1. ~(<<k, m>> \in R)
    BY <1>3
  <2> QED
    BY <2>1
<1> QED
  BY <1>4

(* Of the checks of a file one is the latest.                               *)
IsLatest(checks, f, i) ==
  /\ i \in DOMAIN checks
  /\ f \in checks[i].files
  /\ \A j \in DOMAIN checks : f \in checks[j].files =>
       \/ checks[j].timestamp < checks[i].timestamp
       \/ checks[j].timestamp = checks[i].timestamp /\ i <= j

LEMMA LatestExists ==
  ASSUME NEW checks \in Seq(ToolEvents), NEW f, NEW first \in DOMAIN checks,
         f \in checks[first].files
  PROVE  \E i : latest_check(checks, f) = checks[i] /\ IsLatest(checks, f, i)
<1> DEFINE Of(n) == f \in checks[n].files
           Time(n) == checks[n].timestamp
           Best(n, m) == /\ m \in 1..n /\ Of(m)
                         /\ \A j \in 1..n : Of(j) => \/ Time(j) < Time(m)
                                                     \/ Time(j) = Time(m) /\ m <= j
           Good(n) == (\E m \in 1..n : Of(m)) => \E m : Best(n, m)
           T == {n \in 0..Len(checks) : ~Good(n)}
<1>1. /\ DOMAIN checks = 1..Len(checks) /\ Len(checks) \in Nat
      /\ \A n \in 1..Len(checks) : Time(n) \in Nat
  <2>1. \A e \in ToolEvents : e.timestamp \in Nat
    BY ScratchAssumption DEF ScratchAssumption
  <2> QED
    BY <2>1
<1> HIDE DEF Of, Time
<1>2. Good(0)
  OBVIOUS
<1>3. ASSUME NEW n \in 1..Len(checks), Good(n - 1)
      PROVE  Good(n)
  <2>0. /\ n \in Nat /\ n - 1 \in Nat
        /\ \A j \in 1..n : j \in 1..n - 1 \/ j = n
        /\ \A j \in 1..n : Time(j) \in Nat /\ j \in Nat
        /\ \A j \in 1..n - 1 : j \in 1..n /\ j < n
        /\ n \in 1..n
    BY <1>1
  <2>1. CASE ~Of(n)
    <3>1. SUFFICES ASSUME \E m \in 1..n : Of(m)
                   PROVE  \E m : Best(n, m)
      OBVIOUS
    <3>2. PICK m : Best(n - 1, m)
      BY <1>3, <2>0, <2>1, <3>1
    <3>3. Best(n, m)
      BY <2>0, <2>1, <3>2
    <3> QED
      BY <3>3
  <2>2. CASE Of(n) /\ ~\E m \in 1..n - 1 : Of(m)
    <3>1. Best(n, n)
      BY <2>0, <2>2
    <3> QED
      BY <3>1
  <2>3. CASE Of(n) /\ \E m \in 1..n - 1 : Of(m)
    <3>1. PICK m : Best(n - 1, m)
      BY <1>3, <2>3
    <3>2. CASE Time(m) < Time(n)
      <4>1. \A j \in 1..n - 1 : Of(j) => Time(j) < Time(n)
        BY <2>0, <3>1, <3>2
      <4>2. \A j \in 1..n : Of(j) => Time(j) < Time(n) \/ j = n
        BY <2>0, <4>1
      <4>3. Best(n, n)
        BY <2>0, <2>3, <4>2
      <4> QED
        BY <4>3
    <3>3. CASE ~(Time(m) < Time(n))
      <4>1. Best(n, m)
        BY <2>0, <2>3, <3>1, <3>3
      <4> QED
        BY <4>1
    <3> QED
      BY <3>2, <3>3
  <2> QED
    BY <2>1, <2>2, <2>3
<1> HIDE DEF Good
<1>4. T = {}
  <2>1. SUFFICES ASSUME T # {} PROVE FALSE
    OBVIOUS
  <2>2. PICK m \in T : \A k \in T : m <= k
    <3> HIDE DEF T
    <3>1. T \subseteq Nat
      BY DEF T
    <3> QED
      BY <2>1, <3>1, LeastNumber
  <2>3. m # 0
    BY <1>2
  <2>4. m \in 1..Len(checks) /\ m - 1 \notin T /\ m - 1 \in 0..Len(checks)
    BY <1>1, <2>2, <2>3
  <2> QED
    BY <1>3, <2>2, <2>4
<1>5. PICK m : Best(Len(checks), m)
  <2>1. Good(Len(checks))
    BY <1>1, <1>4
  <2> QED
    BY <1>1, <2>1 DEF Good, Of
<1>6. IsLatest(checks, f, m)
  BY <1>1, <1>5 DEF IsLatest, Of, Time
<1> DEFINE choice == CHOOSE i \in DOMAIN checks :
                         /\ f \in checks[i].files
                         /\ \A j \in DOMAIN checks : f \in checks[j].files =>
                              \/ checks[j].timestamp < checks[i].timestamp
                              \/ checks[j].timestamp = checks[i].timestamp /\ i <= j
<1>8. IsLatest(checks, f, choice)
  BY <1>6, Zenon DEF IsLatest
<1> QED
  BY <1>8 DEF latest_check

LEMMA ChecksOfWindow ==
  ASSUME IInv, NEW s \in Sessions
  PROVE  \E at : Holds(scratch[s].checks, at, Calls(s, "Check"), log)
                 /\ Covers(at, scratch[s].checks, Window(s, "Check"))
<1> DEFINE ring == scratch[s].checks
<1>1. PICK at \in [DOMAIN ring -> Calls(s, "Check")] : Holds(ring, at, Calls(s, "Check"), log)
  BY Zenon DEF IInv, RingsKept, Kept
<1>2. DOMAIN ring = 1..Len(ring) /\ Len(ring) \in Nat /\ Len(ring) <= MaxEntries
  <2>1. ring \in Seq(ToolEvents)
    BY ScratchShowsWindow
  <2>2. Len(ring) <= MaxEntries
    BY DEF IInv, TypeOK
  <2> HIDE DEF ring
  <2> QED
    BY <2>1, <2>2
<1>3. Covers(at, ring, Window(s, "Check"))
  <2> HIDE DEF ring
  <2> QED
    BY <1>1, <1>2, KeptIsWindow
<1> QED
  BY <1>1, <1>3, Zenon

LEMMA CallsAreCalls ==
  ASSUME IInv, NEW s \in Sessions, NEW class, NEW i \in Calls(s, class)
  PROVE  /\ i \in DOMAIN log /\ i \in Nat
         /\ log[i].session = s /\ log[i].class = class
         /\ log[i].timestamp \in Nat /\ log[i].files \subseteq Files
<1>1. i \in DOMAIN log /\ log[i].session = s /\ log[i].class = class
  BY DEF Calls
<1>2. log \in Seq(ToolEvents)
  BY DEF IInv, TypeOK
<1>3. log[i] \in ToolEvents /\ i \in Nat
  BY <1>1, <1>2
<1> QED
  BY <1>1, <1>3, ScratchAssumption DEF ScratchAssumption

(* Where timestamps grow, calls of two classes are in the order of their    *)
(* timestamps.                                                              *)
LEMMA LaterIsNewer ==
  ASSUME IInv, NEW s \in Sessions, TimesGrow(s),
         NEW class, NEW other, class # other,
         NEW i \in Calls(s, class), NEW k \in Calls(s, other)
  PROVE  log[k].timestamp >= log[i].timestamp <=> k \in Since(i, s, other)
<1>1. /\ k \in DOMAIN log /\ k \in Nat /\ log[k].session = s /\ log[k].class = other
      /\ log[k].timestamp \in Nat
  BY CallsAreCalls
<1>2. /\ i \in DOMAIN log /\ i \in Nat /\ log[i].session = s /\ log[i].class = class
      /\ log[i].timestamp \in Nat
  BY CallsAreCalls
<1>3. k # i
  BY <1>1, <1>2
<1>4. i < k => log[i].timestamp < log[k].timestamp
  BY <1>1, <1>2, Zenon DEF TimesGrow
<1>5. k < i => log[k].timestamp < log[i].timestamp
  BY <1>1, <1>2, Zenon DEF TimesGrow
<1>6. log[k].timestamp >= log[i].timestamp <=> k > i
  BY <1>1, <1>2, <1>3, <1>4, <1>5
<1> QED
  BY <1>6 DEF Since

LEMMA VerifiedByLater ==
  ASSUME IInv, NEW s \in Sessions, TimesGrow(s), NEW i \in Calls(s, "Write")
  PROVE  Verified(log[i], scratch[s].checks) <=>
           \E k \in Window(s, "Check") \cap Since(i, s, "Check") : files_overlap(log[k], log[i])
<1>1. Verified(log[i], scratch[s].checks) <=>
        \E k \in Window(s, "Check") : /\ log[k].timestamp >= log[i].timestamp
                                      /\ files_overlap(log[k], log[i])
  BY SnapshotIsWindow DEF Verified
<1>2. ASSUME NEW k \in Window(s, "Check")
      PROVE  log[k].timestamp >= log[i].timestamp <=> k \in Since(i, s, "Check")
  BY LaterIsNewer DEF Window
<1> QED
  BY <1>1, <1>2, Zenon

(* The first detector of compute_debt (debt.rs): where a session's          *)
(* timestamps grow, an edit that is kept is reported exactly while no kept  *)
(* check of its files came after it.                                        *)
THEOREM UnverifiedAreUnchecked == Spec => []UnverifiedIsUnchecked
<1>1. ASSUME IInv, NEW s \in Sessions, TimesGrow(s)
      PROVE  UnverifiedChanges(scratch[s]) =
               {log[i] : i \in {i \in Window(s, "Write") :
                                  /\ log[i].files # {}
                                  /\ \A k \in Window(s, "Check") \cap Since(i, s, "Check") :
                                       ~files_overlap(log[k], log[i])}}
  <2> DEFINE Open(i) == /\ log[i].files # {}
                        /\ \A k \in Window(s, "Check") \cap Since(i, s, "Check") :
                             ~files_overlap(log[k], log[i])
             edits == Window(s, "Write")
             reported == UnverifiedChanges(scratch[s])
  <2>1. ASSUME NEW i \in edits
        PROVE  Open(i) <=> log[i].files # {} /\ ~Verified(log[i], scratch[s].checks)
    <3>1. i \in Calls(s, "Write")
      BY DEF Window
    <3> QED
      BY <1>1, <3>1, VerifiedByLater
  <2>2. \A e : e \in reported <=> /\ \E i \in edits : e = log[i]
                                  /\ e.files # {} /\ ~Verified(e, scratch[s].checks)
    BY <1>1, SnapshotIsWindow DEF UnverifiedChanges
  <2> HIDE DEF Open, edits, reported
  <2>3. ASSUME NEW e
        PROVE  e \in reported <=> \E i \in edits : Open(i) /\ e = log[i]
    BY <2>1, <2>2, Zenon
  <2>4. reported = {log[i] : i \in {i \in edits : Open(i)}}
    BY <2>3
  <2> QED
    BY <2>4, Zenon DEF Open, edits, reported
<1>2. IInv => UnverifiedIsUnchecked
  BY <1>1, Zenon DEF UnverifiedIsUnchecked
<1> QED
  BY <1>2, Invariance, PTL

(* The files a session's kept checks are about.                             *)
Checked(s) == UNION {c.files : c \in ToSet(scratch[s].checks)}

(* Where timestamps grow, the latest check of a file is the last call that  *)
(* checked it.                                                              *)
LEMMA LatestIsLast ==
  ASSUME IInv, NEW s \in Sessions, TimesGrow(s), NEW f
  PROVE  /\ f \in Checked(s) =>
              \E i \in LastCheckOf(s, f) : log[i] = latest_check(scratch[s].checks, f)
         /\ \A i \in LastCheckOf(s, f) :
              log[i] = latest_check(scratch[s].checks, f) /\ f \in Checked(s)
<1> DEFINE ring == scratch[s].checks
           calls == Calls(s, "Check")
<1>1. PICK at : Holds(ring, at, calls, log) /\ Covers(at, ring, Window(s, "Check"))
  BY ChecksOfWindow
<1>2. ring \in Seq(ToolEvents)
  BY ScratchShowsWindow
<1>3. \A i \in calls : /\ i \in DOMAIN log /\ i \in Nat
                       /\ log[i].session = s /\ log[i].timestamp \in Nat
  BY CallsAreCalls
<1>4. Window(s, "Check") \subseteq calls
  BY DEF Window
<1>5. \A i, k : k \in Since(i, s, "Check") <=> k \in calls /\ k > i
  BY DEF Since
<1> HIDE DEF ring, calls
<1>6. ASSUME f \in Checked(s)
      PROVE  \E i \in LastCheckOf(s, f) : log[i] = latest_check(ring, f)
  <2>1. PICK first \in DOMAIN ring : f \in ring[first].files
    BY <1>6 DEF Checked, ToSet, ring
  <2>2. PICK n : latest_check(ring, f) = ring[n] /\ IsLatest(ring, f, n)
    BY <1>2, <2>1, LatestExists
  <2>3. /\ n \in DOMAIN ring /\ at[n] \in Window(s, "Check") /\ at[n] \in calls
        /\ ring[n] = log[at[n]] /\ f \in log[at[n]].files
    BY <1>1, <1>4, <2>2 DEF IsLatest, Covers, Holds
  <2>4. ASSUME NEW k \in Since(at[n], s, "Check"), f \in log[k].files
        PROVE  FALSE
    <3>1. k \in calls /\ k > at[n] /\ k \in Nat /\ at[n] \in Nat
      BY <1>3, <1>5, <2>3
    <3>2. PICK m \in DOMAIN ring : at[m] = k
      <4>1. ~(k < at[n])
        BY <3>1
      <4> QED
        BY <1>1, <2>3, <3>1, <4>1, Zenon DEF Holds
    <3>3. ring[m] = log[k] /\ f \in ring[m].files
      BY <1>1, <2>4, <3>2, Zenon DEF Holds
    <3>4. ~(ring[n].timestamp < ring[m].timestamp)
      <4>1. ring[n].timestamp \in Nat /\ ring[m].timestamp \in Nat
        BY <1>3, <2>3, <3>1, <3>3
      <4>2. ring[m].timestamp < ring[n].timestamp \/ ring[m].timestamp = ring[n].timestamp
        BY <2>2, <3>3, Zenon DEF IsLatest
      <4> QED
        BY <4>1, <4>2
    <3>5. log[at[n]].timestamp < log[k].timestamp
      <4>1. at[n] < k
        BY <3>1
      <4> QED
        BY <1>3, <2>3, <3>1, <4>1, Zenon DEF TimesGrow
    <3> QED
      BY <2>3, <3>3, <3>4, <3>5, Zenon
  <2>5. at[n] \in LastCheckOf(s, f)
    BY <2>3, <2>4, Zenon DEF LastCheckOf
  <2> QED
    BY <2>2, <2>3, <2>5, Zenon
<1>7. ASSUME NEW i \in LastCheckOf(s, f)
      PROVE  log[i] = latest_check(ring, f) /\ f \in Checked(s)
  <2>1. /\ i \in Window(s, "Check") /\ i \in calls /\ f \in log[i].files
        /\ \A j \in Since(i, s, "Check") : f \notin log[j].files
    BY <1>4, <1>7, Zenon DEF LastCheckOf
  <2>2. f \in Checked(s)
    <3>1. log[i] \in ToSet(ring)
      BY <2>1, SnapshotIsWindow DEF ring
    <3> QED
      BY <2>1, <3>1 DEF Checked, ring
  <2>3. PICK j \in LastCheckOf(s, f) : log[j] = latest_check(ring, f)
    BY <1>6, <2>2
  <2>4. /\ j \in calls /\ f \in log[j].files
        /\ \A k \in Since(j, s, "Check") : f \notin log[k].files
    BY <1>4, <2>3, Zenon DEF LastCheckOf
  <2>5. ~(i > j) /\ ~(j > i)
    BY <1>5, <2>1, <2>4, Zenon
  <2>6. i = j
    BY <1>3, <2>1, <2>4, <2>5
  <2> QED
    BY <2>2, <2>3, <2>6, Zenon
<1> QED
  BY <1>6, <1>7 DEF ring

LEMMA FixedByLater ==
  ASSUME IInv, NEW s \in Sessions, TimesGrow(s), NEW i \in Calls(s, "Check")
  PROVE  Fixed(log[i], scratch[s].edits) <=>
           \E k \in Window(s, "Write") \cap Since(i, s, "Write") : files_overlap(log[k], log[i])
<1>1. Fixed(log[i], scratch[s].edits) <=>
        \E k \in Window(s, "Write") : /\ log[k].timestamp >= log[i].timestamp
                                      /\ files_overlap(log[k], log[i])
  BY SnapshotIsWindow DEF Fixed
<1>2. ASSUME NEW k \in Window(s, "Write")
      PROVE  log[k].timestamp >= log[i].timestamp <=> k \in Since(i, s, "Write")
  BY LaterIsNewer DEF Window
<1> QED
  BY <1>1, <1>2, Zenon

(* The second and the third detector: where a session's timestamps grow, a  *)
(* failure is reported exactly while its check is the last one of a file    *)
(* and no later edit touched what it checked; and the rules it breaks with  *)
(* it.                                                                      *)
THEOREM FailuresAreAlwaysCurrent == Spec => []FailuresAreCurrent
<1>1. ASSUME IInv, NEW s \in Sessions, TimesGrow(s)
      PROVE  FailedVerifications(scratch[s]) =
               {log[i] : i \in {i \in UNION {LastCheckOf(s, f) : f \in Files} :
                                  /\ ~log[i].passed
                                  /\ \A k \in Window(s, "Write") \cap Since(i, s, "Write") :
                                       ~files_overlap(log[k], log[i])}}
  <2> DEFINE Open(i) == /\ ~log[i].passed
                        /\ \A k \in Window(s, "Write") \cap Since(i, s, "Write") :
                             ~files_overlap(log[k], log[i])
             reported == FailedVerifications(scratch[s])
             last == {i \in UNION {LastCheckOf(s, f) : f \in Files} : Open(i)}
  <2>1. \A f : \A i \in LastCheckOf(s, f) : i \in Calls(s, "Check") /\ f \in log[i].files
    BY Zenon DEF LastCheckOf, Window
  <2>2. \A i \in Calls(s, "Check") :
          Open(i) <=> ~log[i].passed /\ ~Fixed(log[i], scratch[s].edits)
    BY <1>1, FixedByLater
  <2>3. \A c : c \in reported <=> /\ \E f \in Checked(s) : c = latest_check(scratch[s].checks, f)
                                  /\ ~c.passed /\ ~Fixed(c, scratch[s].edits)
    BY DEF FailedVerifications, Checked
  <2>4. \A f : /\ f \in Checked(s) =>
                    \E i \in LastCheckOf(s, f) : log[i] = latest_check(scratch[s].checks, f)
               /\ \A i \in LastCheckOf(s, f) :
                    log[i] = latest_check(scratch[s].checks, f) /\ f \in Checked(s)
    BY <1>1, LatestIsLast
  <2>5. \A f : \A i \in LastCheckOf(s, f) : f \in Files
    BY <1>1, <2>1, CallsAreCalls
  <2> HIDE DEF Open, reported
  <2>6. ASSUME NEW c \in reported
        PROVE  \E i \in last : c = log[i]
    <3>1. PICK f \in Checked(s) : c = latest_check(scratch[s].checks, f)
      BY <2>3, <2>6
    <3>2. PICK i \in LastCheckOf(s, f) : log[i] = c
      BY <2>4, <3>1, Zenon
    <3>3. Open(i)
      BY <2>1, <2>2, <2>3, <2>6, <3>2, Zenon
    <3>4. i \in UNION {LastCheckOf(s, g) : g \in Files}
      BY <2>5, <3>2
    <3> QED
      BY <3>2, <3>3, <3>4
  <2>7. ASSUME NEW i \in last
        PROVE  log[i] \in reported
    <3>1. PICK f \in Files : i \in LastCheckOf(s, f)
      BY <2>7
    <3>2. ~log[i].passed /\ ~Fixed(log[i], scratch[s].edits)
      <4>1. Open(i)
        BY <2>7
      <4> QED
        BY <2>1, <2>2, <3>1, <4>1, Zenon
    <3> QED
      BY <2>3, <2>4, <3>1, <3>2, Zenon
  <2>8. reported = {log[i] : i \in last}
    <3> HIDE DEF last
    <3>1. \A c \in {log[i] : i \in last} : c \in reported
      BY <2>7, Zenon
    <3>2. \A c \in reported : c \in {log[i] : i \in last}
      BY <2>6, Zenon
    <3> QED
      BY <3>1, <3>2, Zenon
  <2> QED
    BY <2>8, Zenon DEF Open, reported
<1>2. ASSUME IInv, NEW s \in Sessions
      PROVE  {c \in FailedVerifications(scratch[s]) : \E r \in RuleFiles : r \cap c.files # {}}
               \subseteq RuleViolations(scratch[s])
  <2>1. ASSUME NEW c \in FailedVerifications(scratch[s])
        PROVE  c \in ToSet(scratch[s].checks) /\ ~c.passed
    <3>1. PICK f \in Checked(s) : c = latest_check(scratch[s].checks, f)
      BY <2>1, Zenon DEF FailedVerifications, Checked
    <3>2. PICK first \in DOMAIN scratch[s].checks : f \in scratch[s].checks[first].files
      BY <3>1 DEF Checked, ToSet
    <3>3. scratch[s].checks \in Seq(ToolEvents)
      BY <1>2, ScratchShowsWindow
    <3>4. PICK i : /\ latest_check(scratch[s].checks, f) = scratch[s].checks[i]
                   /\ IsLatest(scratch[s].checks, f, i)
      BY <3>2, <3>3, LatestExists
    <3>5. c \in ToSet(scratch[s].checks)
      BY <3>1, <3>4, Zenon DEF IsLatest, ToSet
    <3> QED
      BY <2>1, <3>5, Zenon DEF FailedVerifications
  <2> QED
    BY <2>1, Zenon DEF RuleViolations
<1>3. IInv => FailuresAreCurrent
  BY <1>1, <1>2, Zenon DEF FailuresAreCurrent
<1> QED
  BY <1>3, Invariance, PTL

=============================================================================
