--------------------------- MODULE HookSessionProofs ---------------------------
(***************************************************************************)
(* Proofs about HookSession, for any transcript, any number of tool hooks,  *)
(* any files and any briefs.                                                *)
(*                                                                          *)
(* No lock protects the file, so that the invariant has two halves.  One    *)
(* holds however hooks overlap: nothing before a cursor, in the file or in  *)
(* a hook's copy of it, was left unsent, but for what Turn has in hand.     *)
(* The other holds while they follow one another: whoever reads next reads  *)
(* what was written last.                                                   *)
(***************************************************************************)
EXTENDS HookSession, FiniteSetTheorems, WellFoundedInduction, TLAPS

-------------------------------------------------------------------------------
(* The least number principle, for sets.                                    *)

LEMMA LeastNumber ==
  ASSUME NEW T \in SUBSET Nat, T # {}
  PROVE  \E m \in T : \A k \in T : m <= k
<1> DEFINE R == {ss \in Nat \X Nat : ss[1] < ss[2]}
<1>1. IsWellFoundedOn(R, Nat)
  BY NatLessThanWellFounded, Zenon DEF OpToRel
<1>2. \E m \in T : \A k \in T : ~(<<k, m>> \in R)
  <2> HIDE DEF R
  <2> QED
    BY <1>1, WFMin, Zenon
<1>3. PICK m \in T : \A k \in T : ~(<<k, m>> \in R)
  BY <1>2
<1>4. ASSUME NEW k \in T PROVE m <= k
  <2>1. ~(<<k, m>> \in R)
    BY <1>3
  <2> QED
    BY <2>1
<1> QED
  BY <1>4

-------------------------------------------------------------------------------
(* Reading the transcript.                                                  *)

Reading(f, start, end) ==
  f = [line \in start..end |->
         IF line = start THEN [texts |-> <<>>, new_cursor |-> start]
         ELSE IF Len(f[line - 1].texts) = MaxTexts THEN f[line - 1]
         ELSE [texts |-> IF line \in ProseLines THEN Append(f[line - 1].texts, line)
                         ELSE f[line - 1].texts,
               new_cursor |-> line]]

(* The recursion has a solution up to any line.                             *)
LEMMA ReadingExists ==
  ASSUME NEW start \in Nat, NEW end \in Nat, start <= end
  PROVE  \E f : Reading(f, start, end)
<1> DEFINE T == {m \in Nat : start <= m /\ ~\E f : Reading(f, start, m)}
           Next1(r, line) ==
             IF Len(r.texts) = MaxTexts THEN r
             ELSE [texts |-> IF line \in ProseLines THEN Append(r.texts, line) ELSE r.texts,
                   new_cursor |-> line]
<1>1. SUFFICES ASSUME T # {} PROVE FALSE
  OBVIOUS
<1>2. PICK m \in T : \A k \in T : m <= k
  <2> HIDE DEF T
  <2>1. T \subseteq Nat
    BY DEF T
  <2> QED
    BY <1>1, <2>1, LeastNumber
<1>3. CASE m = start
  <2> DEFINE f == [line \in start..start |-> [texts |-> <<>>, new_cursor |-> start]]
  <2>1. Reading(f, start, start)
    BY DEF Reading
  <2> QED
    BY <1>3, <2>1
<1>4. CASE m # start
  <2>1. m - 1 \in Nat /\ start <= m - 1 /\ m - 1 \notin T
    BY <1>2, <1>4
  <2>2. PICK f : Reading(f, start, m - 1)
    BY <2>1
  <2> DEFINE g == [line \in start..m |-> IF line < m THEN f[line] ELSE Next1(f[m - 1], m)]
             first == [texts |-> <<>>, new_cursor |-> start]
  <2> HIDE DEF Next1, first
  <2>3. \A line \in start..m - 1 :
          f[line] = IF line = start THEN first ELSE Next1(f[line - 1], line)
    BY <2>2, Zenon DEF Reading, Next1, first
  <2>4. \A line \in start..m : g[line] = IF line = start THEN first ELSE Next1(g[line - 1], line)
    BY <1>4, <2>1, <2>3
  <2>5. Reading(g, start, m)
    <3> HIDE DEF g
    <3>1. g = [line \in start..m |-> g[line]]
      BY DEF g
    <3>2. [line \in start..m |-> g[line]]
            = [line \in start..m |-> IF line = start THEN first ELSE Next1(g[line - 1], line)]
      BY <2>4
    <3> QED
      BY <3>1, <3>2, Zenon DEF Reading, Next1, first
  <2> QED
    BY <2>5
<1> QED
  BY <1>3, <1>4

(* What is read: each line of prose from `start` up to the new cursor, once. *)
LEMMA ReadLines ==
  ASSUME NEW start \in Nat, NEW end \in Nat, start <= end
  PROVE  LET new == read_lines(start, end)
         IN  /\ new.texts \in Seq(ProseLines) /\ IsInjective(new.texts)
             /\ new.new_cursor \in start..end
             /\ ToSet(new.texts) = {i \in ProseLines : start < i /\ i <= new.new_cursor}
<1> DEFINE read == CHOOSE f : Reading(f, start, end)
           Good(n) ==
             /\ read[n].texts \in Seq(ProseLines) /\ IsInjective(read[n].texts)
             /\ read[n].new_cursor \in start..n
             /\ ToSet(read[n].texts) = {i \in ProseLines : start < i /\ i <= read[n].new_cursor}
             /\ Len(read[n].texts) # MaxTexts => read[n].new_cursor = n
<1>1. read_lines(start, end) = read[end]
  BY Zenon DEF read_lines, Reading
<1>2. Reading(read, start, end)
  BY ReadingExists
<1> HIDE DEF read
<1>3. \A n \in start..end :
        read[n] = IF n = start THEN [texts |-> <<>>, new_cursor |-> start]
                  ELSE IF Len(read[n - 1].texts) = MaxTexts THEN read[n - 1]
                  ELSE [texts |-> IF n \in ProseLines THEN Append(read[n - 1].texts, n)
                                  ELSE read[n - 1].texts,
                        new_cursor |-> n]
  BY <1>2, Zenon DEF Reading
<1>0. ProseLines \subseteq Nat
  BY SessionAssumption DEF SessionAssumption
<1>4. Good(start)
  <2>1. read[start] = [texts |-> <<>>, new_cursor |-> start]
    <3>1. start \in start..end
      OBVIOUS
    <3> QED
      BY <1>3, <3>1
  <2>2. /\ <<>> \in Seq(ProseLines) /\ IsInjective(<<>>) /\ ToSet(<<>>) = {}
    BY DEF IsInjective, ToSet
  <2>3. {i \in ProseLines : start < i /\ i <= start} = {}
    <3>1. \A i \in ProseLines : ~(start < i /\ i <= start)
      BY <1>0
    <3> QED
      BY <3>1
  <2> QED
    BY <2>1, <2>2, <2>3
<1>5. ASSUME NEW n \in start..end, n # start, Good(n - 1)
      PROVE  Good(n)
  <2> DEFINE r == read[n - 1]
             s == r.texts
             longer == Append(s, n)
  <2>0. /\ s \in Seq(ProseLines) /\ IsInjective(s) /\ r.new_cursor \in start..n - 1
        /\ ToSet(s) = {i \in ProseLines : start < i /\ i <= r.new_cursor}
        /\ Len(s) # MaxTexts => r.new_cursor = n - 1
        /\ read[n] = IF Len(s) = MaxTexts THEN r
                     ELSE [texts |-> IF n \in ProseLines THEN longer ELSE s, new_cursor |-> n]
    BY <1>3, <1>5
  <2> HIDE DEF r
  <2>1. CASE Len(s) = MaxTexts
    BY <2>0, <2>1
  <2>2. CASE Len(s) # MaxTexts /\ n \notin ProseLines
    <3>1. read[n].texts = s /\ read[n].new_cursor = n
      BY <2>0, <2>2
    <3>2. \A i \in ProseLines : start < i /\ i <= n <=> start < i /\ i <= n - 1
      BY <2>2, <1>0
    <3>3. {i \in ProseLines : start < i /\ i <= n} = {i \in ProseLines : start < i /\ i <= n - 1}
      BY <3>2
    <3> QED
      BY <2>0, <2>2, <3>1, <3>3
  <2>3. CASE Len(s) # MaxTexts /\ n \in ProseLines
    <3>1. read[n].texts = longer /\ read[n].new_cursor = n
      BY <2>0, <2>3
    <3>2. /\ s \in Seq(ProseLines) /\ IsInjective(s)
          /\ ToSet(s) = {i \in ProseLines : start < i /\ i <= n - 1}
          /\ n \notin ToSet(s)
      <4>1. ToSet(s) = {i \in ProseLines : start < i /\ i <= n - 1}
        BY <2>0, <2>3, Zenon
      <4>2. n \in Nat /\ ~(n <= n - 1)
        BY <2>3, <1>0
      <4> QED
        BY <2>0, <4>1, <4>2, Zenon
    <3>3. /\ longer \in Seq(ProseLines) /\ Len(longer) = Len(s) + 1
          /\ DOMAIN longer = 1..Len(s) + 1 /\ DOMAIN s = 1..Len(s)
          /\ \A i \in 1..Len(s) : longer[i] = s[i]
          /\ longer[Len(s) + 1] = n
      BY <2>3, <3>2
    <3>4. IsInjective(longer)
      <4>1. \A i \in 1..Len(s) : longer[i] # n
        BY <3>2, <3>3 DEF ToSet
      <4>2. \A i, j \in 1..Len(s) : longer[i] = longer[j] => i = j
        BY <3>2, <3>3 DEF IsInjective
      <4>3. \A i \in 1..Len(s) + 1 : i \in 1..Len(s) \/ i = Len(s) + 1
        BY <3>2
      <4> QED
        BY <3>3, <4>1, <4>2, <4>3, Zenon DEF IsInjective
    <3>5. ToSet(longer) = ToSet(s) \cup {n}
      BY <3>3 DEF ToSet
    <3>6. {i \in ProseLines : start < i /\ i <= n}
            = {i \in ProseLines : start < i /\ i <= n - 1} \cup {n}
      <4>1. \A i \in ProseLines : start < i /\ i <= n <=> (start < i /\ i <= n - 1) \/ i = n
        BY <1>5, <1>0
      <4> QED
        BY <2>3, <4>1
    <3> QED
      BY <3>1, <3>2, <3>3, <3>4, <3>5, <3>6
  <2> QED
    BY <2>1, <2>2, <2>3
<1> HIDE DEF Good
<1>6. \A n \in start..end : Good(n)
  <2> DEFINE T == {m \in start..end : ~Good(m)}
  <2>1. SUFFICES ASSUME T # {} PROVE FALSE
    OBVIOUS
  <2>2. PICK m \in T : \A k \in T : m <= k
    <3> HIDE DEF T
    <3>1. T \subseteq Nat
      BY DEF T
    <3> QED
      BY <2>1, <3>1, LeastNumber
  <2>3. m # start
    BY <1>4
  <2>4. m - 1 \in start..end /\ m - 1 \notin T
    BY <2>2, <2>3
  <2> QED
    BY <1>5, <2>2, <2>3, <2>4
<1>7. Good(end) /\ end \in start..end
  BY <1>6
<1> QED
  BY <1>1, <1>7 DEF Good

-------------------------------------------------------------------------------
(* The ring of recent files.                                                *)

Retaining(f, recent, files) ==
  f = [n \in 0..Len(recent) |->
         IF n = 0 THEN <<>>
         ELSE IF recent[n] \in ToSet(files) THEN f[n - 1]
         ELSE Append(f[n - 1], recent[n])]

LEMMA RetainingExists ==
  ASSUME NEW recent \in Seq(Files), NEW files
  PROVE  \E f : Retaining(f, recent, files)
<1> DEFINE Next1(kept, n) == IF recent[n] \in ToSet(files) THEN kept ELSE Append(kept, recent[n])
           Solves(f, m) == f = [n \in 0..m |-> IF n = 0 THEN <<>> ELSE Next1(f[n - 1], n)]
           T == {m \in Nat : ~\E f : Solves(f, m)}
<1>1. T = {}
  <2>1. SUFFICES ASSUME T # {} PROVE FALSE
    OBVIOUS
  <2>2. PICK m \in T : \A k \in T : m <= k
    <3> HIDE DEF T
    <3>1. T \subseteq Nat
      BY DEF T
    <3> QED
      BY <2>1, <3>1, LeastNumber
  <2> HIDE DEF Next1
  <2>3. CASE m = 0
    <3> DEFINE f == [n \in 0..0 |-> <<>>]
    <3>1. Solves(f, 0)
      OBVIOUS
    <3> QED
      BY <2>3, <3>1
  <2>4. CASE m # 0
    <3>1. m - 1 \in Nat /\ m - 1 \notin T
      <4> HIDE DEF Solves
      <4> QED
        BY <2>2, <2>4
    <3>2. PICK f : Solves(f, m - 1)
      BY <3>1
    <3> DEFINE g == [n \in 0..m |-> IF n < m THEN f[n] ELSE Next1(f[m - 1], m)]
    <3>3. \A n \in 0..m - 1 : f[n] = IF n = 0 THEN <<>> ELSE Next1(f[n - 1], n)
      BY <3>2, Zenon
    <3>4. \A n \in 0..m : g[n] = IF n = 0 THEN <<>> ELSE Next1(g[n - 1], n)
      BY <2>4, <3>1, <3>3
    <3>5. Solves(g, m)
      <4> HIDE DEF g
      <4>1. g = [n \in 0..m |-> g[n]]
        BY DEF g
      <4>2. [n \in 0..m |-> g[n]] = [n \in 0..m |-> IF n = 0 THEN <<>> ELSE Next1(g[n - 1], n)]
        BY <3>4
      <4> QED
        BY <4>1, <4>2, Zenon
    <3> QED
      BY <3>5
  <2> QED
    BY <2>3, <2>4
<1>2. PICK f : Solves(f, Len(recent))
  BY <1>1
<1>3. Retaining(f, recent, files)
  BY <1>2, Zenon DEF Retaining
<1> QED
  BY <1>3

(* What is retained: everything that is not among the files, in order.      *)
LEMMA Retained ==
  ASSUME NEW recent \in Seq(Files), NEW files
  PROVE  LET kept == retain(recent, files)
         IN  /\ kept \in Seq(Files)
             /\ \A i, j \in DOMAIN kept : i < j =>
                  \E a, b \in DOMAIN recent : a < b /\ kept[i] = recent[a] /\ kept[j] = recent[b]
             /\ ToSet(kept) = ToSet(recent) \ ToSet(files)
<1> DEFINE kept == CHOOSE f : Retaining(f, recent, files)
           Rest(k, n) ==
             /\ k \in Seq(Files)
             /\ \A i, j \in DOMAIN k : i < j =>
                  \E a, b \in 1..n : a < b /\ k[i] = recent[a] /\ k[j] = recent[b]
             /\ ToSet(k) = {recent[a] : a \in 1..n} \ ToSet(files)
           Good(n) == Rest(kept[n], n)
<1>1. retain(recent, files) = kept[Len(recent)]
  BY Zenon DEF retain, Retaining
<1>2. Retaining(kept, recent, files)
  BY RetainingExists
<1> HIDE DEF kept
<1>3. \A n \in 0..Len(recent) :
        kept[n] = IF n = 0 THEN <<>>
                  ELSE IF recent[n] \in ToSet(files) THEN kept[n - 1]
                  ELSE Append(kept[n - 1], recent[n])
  BY <1>2, Zenon DEF Retaining
<1>4. Good(0)
  <2>1. kept[0] = <<>>
    BY <1>3
  <2> QED
    BY <2>1 DEF ToSet
<1>5. ASSUME NEW n \in 1..Len(recent), Good(n - 1)
      PROVE  Good(n)
  <2> DEFINE s == kept[n - 1]
             longer == Append(s, recent[n])
  <2>0. /\ s \in Seq(Files)
        /\ \A i, j \in DOMAIN s : i < j =>
             \E a, b \in 1..n - 1 : a < b /\ s[i] = recent[a] /\ s[j] = recent[b]
        /\ ToSet(s) = {recent[a] : a \in 1..n - 1} \ ToSet(files)
        /\ kept[n] = IF recent[n] \in ToSet(files) THEN s ELSE longer
    BY <1>3, <1>5
  <2> HIDE DEF s
  <2>1. CASE recent[n] \in ToSet(files)
    <3>1. {recent[a] : a \in 1..n} \ ToSet(files) = {recent[a] : a \in 1..n - 1} \ ToSet(files)
      BY <2>1
    <3>2. kept[n] = s
      BY <2>0, <2>1
    <3>3. \A i, j \in DOMAIN s : i < j =>
            \E a, b \in 1..n : a < b /\ s[i] = recent[a] /\ s[j] = recent[b]
      BY <2>0
    <3>4. ToSet(s) = {recent[a] : a \in 1..n} \ ToSet(files)
      BY <2>0, <3>1, Zenon
    <3>5. Rest(s, n)
      BY <2>0, <3>3, <3>4
    <3> HIDE DEF Rest
    <3> QED
      BY <3>2, <3>5, Zenon
  <2>2. CASE recent[n] \notin ToSet(files)
    <3>1. /\ longer \in Seq(Files) /\ Len(longer) = Len(s) + 1
          /\ DOMAIN longer = 1..Len(s) + 1 /\ DOMAIN s = 1..Len(s)
          /\ \A i \in 1..Len(s) : longer[i] = s[i]
          /\ longer[Len(s) + 1] = recent[n]
      BY <2>0
    <3>2. kept[n] = longer
      BY <2>0, <2>2
    <3>3. ToSet(longer) = ToSet(s) \cup {recent[n]}
      BY <3>1 DEF ToSet
    <3>4. {recent[a] : a \in 1..n} = {recent[a] : a \in 1..n - 1} \cup {recent[n]}
      OBVIOUS
    <3>5. ASSUME NEW i \in DOMAIN longer, NEW j \in DOMAIN longer, i < j
          PROVE  \E a, b \in 1..n : a < b /\ longer[i] = recent[a] /\ longer[j] = recent[b]
      <4>1. CASE j \in DOMAIN s
        <5>1. i \in DOMAIN s /\ longer[i] = s[i] /\ longer[j] = s[j]
          BY <3>1, <3>5, <4>1
        <5> QED
          BY <2>0, <3>5, <4>1, <5>1
      <4>2. CASE j \notin DOMAIN s
        <5>1. i \in DOMAIN s /\ longer[i] = s[i] /\ longer[j] = recent[n]
          BY <3>1, <3>5, <4>2
        <5>2. s[i] \in ToSet(s)
          BY <5>1 DEF ToSet
        <5>3. PICK a \in 1..n - 1 : s[i] = recent[a]
          BY <2>0, <5>2
        <5> QED
          BY <5>1, <5>3
      <4> QED
        BY <4>1, <4>2
    <3>6. Rest(longer, n)
      BY <2>0, <2>2, <3>1, <3>3, <3>4, <3>5
    <3> HIDE DEF Rest
    <3> QED
      BY <3>2, <3>6, Zenon
  <2> QED
    BY <2>1, <2>2
<1> HIDE DEF Good
<1>6. \A n \in 0..Len(recent) : Good(n)
  <2> DEFINE T == {m \in 0..Len(recent) : ~Good(m)}
  <2>1. SUFFICES ASSUME T # {} PROVE FALSE
    OBVIOUS
  <2>2. PICK m \in T : \A k \in T : m <= k
    <3> HIDE DEF T
    <3>1. T \subseteq Nat
      BY DEF T
    <3> QED
      BY <2>1, <3>1, LeastNumber
  <2>3. m # 0
    BY <1>4
  <2>4. m \in 1..Len(recent) /\ m - 1 \notin T
    BY <2>2, <2>3
  <2> QED
    BY <1>5, <2>2, <2>4
<1>7. Good(Len(recent))
  BY <1>6
<1>8. DOMAIN recent = 1..Len(recent) /\ ToSet(recent) = {recent[a] : a \in 1..Len(recent)}
  BY DEF ToSet
<1> DEFINE result == retain(recent, files)
<1>9. Rest(result, Len(recent))
  <2> HIDE DEF Rest
  <2> QED
    BY <1>1, <1>7, Zenon DEF Good
<1> HIDE DEF result
<1>10. \A i, j \in DOMAIN result : i < j =>
         \E a, b \in DOMAIN recent : a < b /\ result[i] = recent[a] /\ result[j] = recent[b]
  <2>1. \A i, j \in DOMAIN result : i < j =>
          \E a, b \in 1..Len(recent) : a < b /\ result[i] = recent[a] /\ result[j] = recent[b]
    BY <1>9, Zenon
  <2>2. DOMAIN recent = 1..Len(recent)
    BY <1>8
  <2> HIDE DEF Rest
  <2> QED
    BY <2>1, <2>2
<1>11. ToSet(result) = ToSet(recent) \ ToSet(files)
  BY <1>8, <1>9, Zenon
<1> QED
  BY <1>9, <1>10, <1>11 DEF result
LEMMA FirstAtIs ==
  ASSUME NEW files \in Seq(Files), NEW f \in ToSet(files)
  PROVE  /\ FirstAt(f, files) \in 1..Len(files) /\ files[FirstAt(f, files)] = f
         /\ \A j \in 1..Len(files) : files[j] = f => FirstAt(f, files) <= j
<1> DEFINE At == {i \in 1..Len(files) : files[i] = f}
<1>1. At # {} /\ At \subseteq Nat
  BY DEF ToSet
<1>2. PICK i \in At : \A j \in At : i <= j
  <2> HIDE DEF At
  <2> QED
    BY <1>1, LeastNumber
<1>3. DOMAIN files = 1..Len(files)
  OBVIOUS
<1>4. i \in DOMAIN files /\ files[i] = f /\ \A j \in DOMAIN files : files[j] = f => i <= j
  BY <1>2, <1>3
<1> QED
  BY <1>3, <1>4, Zenon DEF FirstAt

(* The first place of a file on a list that was put before another.         *)
LEMMA FirstAtConcat ==
  ASSUME NEW files \in Seq(Files), NEW older \in Seq(Files), NEW f
  PROVE  /\ f \in ToSet(files) => FirstAt(f, files \o older) = FirstAt(f, files)
         /\ f \in ToSet(older) \ ToSet(files) =>
              FirstAt(f, files \o older) = Len(files) + FirstAt(f, older)
<1> DEFINE all == files \o older
<1>1. /\ all \in Seq(Files) /\ Len(all) = Len(files) + Len(older)
      /\ \A i \in 1..Len(files) : all[i] = files[i]
      /\ \A i \in 1..Len(older) : all[Len(files) + i] = older[i]
      /\ DOMAIN all = 1..Len(files) + Len(older)
      /\ DOMAIN files = 1..Len(files) /\ DOMAIN older = 1..Len(older)
  OBVIOUS
<1>2. \A i \in 1..Len(all) : i \in 1..Len(files) \/
                             (i - Len(files) \in 1..Len(older) /\ all[i] = older[i - Len(files)])
  BY <1>1
<1> HIDE DEF all
<1>3. ASSUME f \in ToSet(files)
      PROVE  FirstAt(f, all) = FirstAt(f, files)
  <2> DEFINE n == FirstAt(f, files)
             m == FirstAt(f, all)
  <2>1. n \in 1..Len(files) /\ files[n] = f /\ \A j \in 1..Len(files) : files[j] = f => n <= j
    BY <1>3, FirstAtIs
  <2>2. f \in ToSet(all)
    BY <1>1, <2>1 DEF ToSet
  <2>3. m \in 1..Len(all) /\ all[m] = f /\ \A j \in 1..Len(all) : all[j] = f => m <= j
    BY <1>1, <2>2, FirstAtIs
  <2> HIDE DEF n, m
  <2>4. n \in 1..Len(all) /\ all[n] = f
    BY <1>1, <2>1
  <2>5. m <= n /\ m \in 1..Len(files) /\ files[m] = f
    BY <1>1, <2>1, <2>3, <2>4
  <2>6. m = n
    BY <2>1, <2>5
  <2> QED
    BY <2>6 DEF n, m
<1>4. ASSUME f \in ToSet(older), f \notin ToSet(files)
      PROVE  FirstAt(f, all) = Len(files) + FirstAt(f, older)
  <2> DEFINE n == FirstAt(f, older)
             m == FirstAt(f, all)
  <2>1. n \in 1..Len(older) /\ older[n] = f /\ \A j \in 1..Len(older) : older[j] = f => n <= j
    BY <1>4, FirstAtIs
  <2>2. Len(files) + n \in 1..Len(all) /\ all[Len(files) + n] = f
    BY <1>1, <2>1
  <2>3. f \in ToSet(all)
    BY <1>1, <2>2 DEF ToSet
  <2>4. m \in 1..Len(all) /\ all[m] = f /\ \A j \in 1..Len(all) : all[j] = f => m <= j
    BY <1>1, <2>3, FirstAtIs
  <2> HIDE DEF n, m
  <2>5. m \notin 1..Len(files)
    BY <1>1, <1>4, <2>4 DEF ToSet
  <2>6. m - Len(files) \in 1..Len(older) /\ older[m - Len(files)] = f
    BY <1>2, <2>4, <2>5
  <2>7. n <= m - Len(files) /\ m <= Len(files) + n
    BY <2>1, <2>2, <2>4, <2>6
  <2>8. m = Len(files) + n
    BY <2>1, <2>4, <2>7
  <2> QED
    BY <2>8 DEF n, m
<1> QED
  BY <1>3, <1>4 DEF all

(* A list without repetitions is no longer than one that has all it has.    *)
LEMMA Covering ==
  ASSUME NEW s \in Seq(Files), NEW t \in Seq(Files), IsInjective(s), ToSet(s) \subseteq ToSet(t)
  PROVE  Len(s) <= Len(t)
<1> DEFINE place == [i \in 1..Len(s) |-> CHOOSE k \in 1..Len(t) : t[k] = s[i]]
<1>1. \A i \in 1..Len(s) : \E k \in 1..Len(t) : t[k] = s[i]
  <2>1. DOMAIN s = 1..Len(s) /\ DOMAIN t = 1..Len(t)
    OBVIOUS
  <2> QED
    BY <2>1 DEF ToSet
<1>2. \A i \in 1..Len(s) : place[i] \in 1..Len(t) /\ t[place[i]] = s[i]
  BY <1>1
<1>3. place \in [1..Len(s) -> 1..Len(t)] /\ DOMAIN s = 1..Len(s)
  BY <1>2
<1> HIDE DEF place
<1>4. place \in Injection(1..Len(s), 1..Len(t))
  BY <1>2, <1>3 DEF Injection, IsInjective
<1>5. Cardinality(1..Len(s)) <= Cardinality(1..Len(t))
  BY <1>4, FS_Injection, FS_Interval
<1>6. Len(s) \in Nat /\ Len(t) \in Nat
  OBVIOUS
<1>7. \A n \in Nat : Cardinality(1..n) = n
  <2> SUFFICES ASSUME NEW n \in Nat PROVE Cardinality(1..n) = n
    OBVIOUS
  <2>1. Cardinality(1..n) = IF 1 > n THEN 0 ELSE n - 1 + 1
    BY FS_Interval
  <2> QED
    BY <2>1
<1> QED
  BY <1>5, <1>6, <1>7

LEMMA RingIs ==
  ASSUME NEW old \in Seq(Files), NEW files \in Touches
  PROVE  Ring(files, old) \in Seq(Files) /\ Len(Ring(files, old)) <= MaxRecent
<1> DEFINE kept == retain(old, files)
           c == files \o kept
           m == IF Len(c) < MaxRecent THEN Len(c) ELSE MaxRecent
<1>1. files \in Seq(Files) /\ kept \in Seq(Files) /\ MaxRecent \in Nat
  BY SessionAssumption, Retained DEF SessionAssumption
<1> HIDE DEF kept
<1>2. c \in Seq(Files) /\ m \in 0..Len(c) /\ m <= MaxRecent
  BY <1>1
<1>3. Ring(files, old) = SubSeq(c, 1, m)
  BY DEF Ring, UpTo, kept
<1> HIDE DEF c, m
<1> QED
  BY <1>2, <1>3

(* The ring after a call is the latest of all that was touched, if it was   *)
(* before the call.                                                         *)
LEMMA RingIsLatest ==
  ASSUME NEW old \in Seq(Files), Len(old) <= MaxRecent, NEW touches \in Seq(Files),
         IsLatest(old, touches), NEW files \in Touches
  PROVE  /\ Ring(files, old) \in Seq(Files) /\ Len(Ring(files, old)) <= MaxRecent
         /\ IsLatest(Ring(files, old), files \o touches)
<1> DEFINE kept == retain(old, files)
           c == files \o kept
           m == IF Len(c) < MaxRecent THEN Len(c) ELSE MaxRecent
           ring == SubSeq(c, 1, m)
           all == files \o touches
           F(f) == FirstAt(f, all)
           G(f) == FirstAt(f, touches)
<1>1. files \in Seq(Files) /\ IsInjective(files) /\ MaxRecent \in Nat
  BY SessionAssumption DEF SessionAssumption
<1>2. /\ kept \in Seq(Files)
      /\ \A i, j \in DOMAIN kept : i < j =>
           \E a, b \in DOMAIN old : a < b /\ kept[i] = old[a] /\ kept[j] = old[b]
      /\ ToSet(kept) = ToSet(old) \ ToSet(files)
  BY Retained
<1> HIDE DEF kept
<1>3. /\ c \in Seq(Files) /\ Len(c) = Len(files) + Len(kept)
      /\ \A i \in 1..Len(files) : c[i] = files[i]
      /\ \A i \in 1..Len(kept) : c[Len(files) + i] = kept[i]
      /\ DOMAIN files = 1..Len(files) /\ DOMAIN kept = 1..Len(kept) /\ DOMAIN old = 1..Len(old)
      /\ DOMAIN touches = 1..Len(touches)
  BY <1>1, <1>2
<1> HIDE DEF c
<1>4. /\ all \in Seq(Files)
      /\ ToSet(all) = ToSet(files) \cup ToSet(touches)
  <2>1. /\ all \in Seq(Files) /\ Len(all) = Len(files) + Len(touches)
        /\ DOMAIN all = 1..Len(files) + Len(touches)
        /\ \A i \in 1..Len(files) : all[i] = files[i]
        /\ \A i \in 1..Len(touches) : all[Len(files) + i] = touches[i]
    BY <1>1
  <2>2. \A i \in DOMAIN all : i \in 1..Len(files) \/
                              (i - Len(files) \in 1..Len(touches) /\ all[i] = touches[i - Len(files)])
    BY <2>1
  <2> HIDE DEF all
  <2>3. \A f \in ToSet(all) : f \in ToSet(files) \/ f \in ToSet(touches)
    BY <1>3, <2>1, <2>2 DEF ToSet
  <2>4. \A f \in ToSet(files) : f \in ToSet(all)
    BY <1>3, <2>1 DEF ToSet
  <2>5. \A f \in ToSet(touches) : f \in ToSet(all)
    <3> SUFFICES ASSUME NEW f \in ToSet(touches) PROVE f \in ToSet(all)
      OBVIOUS
    <3>1. PICK i \in 1..Len(touches) : touches[i] = f
      BY <1>3 DEF ToSet
    <3>2. Len(files) + i \in DOMAIN all /\ all[Len(files) + i] = f
      BY <1>3, <2>1, <3>1
    <3> QED
      BY <3>2 DEF ToSet
  <2> QED
    BY <2>1, <2>3, <2>4, <2>5
<1>5. /\ \A f \in ToSet(files) : F(f) = FirstAt(f, files) /\ F(f) \in 1..Len(files)
      /\ \A f \in ToSet(touches) \ ToSet(files) :
           F(f) = Len(files) + G(f) /\ G(f) \in 1..Len(touches)
  BY <1>1, FirstAtIs, FirstAtConcat
<1>6. \A i \in 1..Len(files) : files[i] \in ToSet(files) /\ F(files[i]) = i
  <2> SUFFICES ASSUME NEW i \in 1..Len(files)
               PROVE  files[i] \in ToSet(files) /\ F(files[i]) = i
    OBVIOUS
  <2>1. files[i] \in ToSet(files)
    BY <1>3 DEF ToSet
  <2>2. FirstAt(files[i], files) \in 1..Len(files) /\ files[FirstAt(files[i], files)] = files[i]
    BY <1>1, <2>1, FirstAtIs
  <2>3. FirstAt(files[i], files) = i
    BY <1>1, <1>3, <2>2 DEF IsInjective
  <2> QED
    BY <1>5, <2>1, <2>3
<1> HIDE DEF all, F, G
<1>7. /\ ToSet(old) \subseteq ToSet(touches)
      /\ \A a, b \in DOMAIN old : a < b => G(old[a]) < G(old[b])
      /\ \A f \in ToSet(touches) \ ToSet(old) :
           Len(old) = MaxRecent /\ \A g \in ToSet(old) : G(g) < G(f)
  BY DEF IsLatest, G
<1>8. \A i \in 1..Len(kept) : kept[i] \in ToSet(touches) \ ToSet(files)
  BY <1>2, <1>3, <1>7 DEF ToSet
<1>9. \A i \in 1..Len(c) : i \in 1..Len(files) \/
                           (i - Len(files) \in 1..Len(kept) /\ c[i] = kept[i - Len(files)])
  BY <1>1, <1>2, <1>3
<1>10. \A i \in 1..Len(c) : c[i] \in ToSet(all) /\ F(c[i]) \in Nat
  <2> SUFFICES ASSUME NEW i \in 1..Len(c) PROVE c[i] \in ToSet(all) /\ F(c[i]) \in Nat
    OBVIOUS
  <2>1. c[i] \in ToSet(files) \/ c[i] \in ToSet(touches) \ ToSet(files)
    BY <1>3, <1>6, <1>8, <1>9
  <2>2. Len(files) \in Nat
    BY <1>1
  <2> QED
    BY <1>4, <1>5, <2>1, <2>2
<1>11. ASSUME NEW i \in 1..Len(c), NEW j \in 1..Len(c), i < j
       PROVE  F(c[i]) < F(c[j])
  <2>1. CASE j \in 1..Len(files)
    <3>1. i \in 1..Len(files) /\ c[i] = files[i] /\ c[j] = files[j]
      BY <1>1, <1>3, <1>11, <2>1
    <3> QED
      BY <1>6, <1>11, <2>1, <3>1
  <2>2. CASE i \in 1..Len(files) /\ j \notin 1..Len(files)
    <3>1. c[i] = files[i] /\ F(c[i]) = i
      BY <1>3, <1>6, <2>2
    <3>2. c[j] \in ToSet(touches) \ ToSet(files)
      BY <1>8, <1>9, <2>2
    <3>3. F(c[j]) = Len(files) + G(c[j]) /\ G(c[j]) \in 1..Len(touches)
      BY <1>5, <3>2
    <3> QED
      BY <1>1, <2>2, <3>1, <3>3
  <2>3. CASE i \notin 1..Len(files) /\ j \notin 1..Len(files)
    <3>1. PICK x, y \in 1..Len(kept) : x < y /\ c[i] = kept[x] /\ c[j] = kept[y]
      <4>1. /\ i - Len(files) \in 1..Len(kept) /\ c[i] = kept[i - Len(files)]
            /\ j - Len(files) \in 1..Len(kept) /\ c[j] = kept[j - Len(files)]
        BY <1>9, <2>3
      <4>2. i - Len(files) < j - Len(files)
        BY <1>1, <1>11
      <4> QED
        BY <4>1, <4>2
    <3>2. G(kept[x]) < G(kept[y])
      <4>1. x \in DOMAIN kept /\ y \in DOMAIN kept
        BY <1>3
      <4>2. PICK a, b \in DOMAIN old : a < b /\ kept[x] = old[a] /\ kept[y] = old[b]
        BY <1>2, <3>1, <4>1, Zenon
      <4> QED
        BY <1>7, <4>2
    <3>3. /\ F(c[i]) = Len(files) + G(kept[x]) /\ G(kept[x]) \in 1..Len(touches)
          /\ F(c[j]) = Len(files) + G(kept[y]) /\ G(kept[y]) \in 1..Len(touches)
      BY <1>5, <1>8, <3>1
    <3> QED
      BY <1>1, <3>2, <3>3
  <2>4. CASE i \notin 1..Len(files) /\ j \in 1..Len(files)
    BY <1>1, <1>11, <2>4
  <2> QED
    BY <2>1, <2>2, <2>3, <2>4
<1>12. /\ m \in Nat /\ m <= Len(c) /\ m <= MaxRecent /\ (m < Len(c) => m = MaxRecent)
       /\ Ring(files, old) = ring
  BY <1>1, <1>3 DEF Ring, UpTo, c, kept
<1> HIDE DEF m
<1>13. /\ ring \in Seq(Files) /\ Len(ring) = m /\ DOMAIN ring = 1..m
       /\ \A i \in 1..m : ring[i] = c[i] /\ i \in 1..Len(c)
  BY <1>3, <1>12
<1> HIDE DEF ring
<1>14. ToSet(ring) \subseteq ToSet(all)
  BY <1>10, <1>13 DEF ToSet
<1>15. \A i, j \in DOMAIN ring : i < j => F(ring[i]) < F(ring[j])
  BY <1>11, <1>13
<1>16. ASSUME NEW f \in ToSet(all) \ ToSet(ring)
       PROVE  Len(ring) = MaxRecent /\ \A g \in ToSet(ring) : F(g) < F(f)
  <2>1. CASE \E k \in 1..Len(c) : c[k] = f
    <3>1. PICK k \in 1..Len(c) : c[k] = f
      BY <2>1
    <3>2. k \notin 1..m
      BY <1>13, <1>16, <3>1 DEF ToSet
    <3>3. m = MaxRecent /\ \A i \in 1..m : i < k
      BY <1>3, <1>12, <3>2
    <3>4. \A g \in ToSet(ring) : \E i \in 1..m : g = c[i]
      BY <1>13 DEF ToSet
    <3> QED
      BY <1>11, <1>13, <3>1, <3>3, <3>4
  <2>2. CASE \A k \in 1..Len(c) : c[k] # f
    <3>1. f \notin ToSet(files)
      BY <1>1, <1>2, <1>3, <2>2 DEF ToSet
    <3>2. f \notin ToSet(kept)
      <4>1. \A i \in 1..Len(kept) : Len(files) + i \in 1..Len(c)
        BY <1>1, <1>2, <1>3
      <4> QED
        BY <1>3, <2>2, <4>1 DEF ToSet
    <3>3. f \in ToSet(touches) \ ToSet(old)
      BY <1>2, <1>4, <1>16, <3>1, <3>2
    <3>4. Len(old) = MaxRecent /\ \A g \in ToSet(old) : G(g) < G(f)
      BY <1>7, <3>3
    <3>5. Len(old) <= Len(c)
      <4>1. IsInjective(old)
        <5>1. \A a \in 1..Len(old) : G(old[a]) \in Nat
          <6>1. \A a \in 1..Len(old) : old[a] \in ToSet(touches)
            BY <1>3, <1>7 DEF ToSet
          <6> QED
            BY <6>1, FirstAtIs DEF G
        <5> QED
          BY <1>3, <1>7, <5>1 DEF IsInjective
      <4>2. ToSet(old) \subseteq ToSet(c)
        <5>1. \A x \in ToSet(files) : x \in ToSet(c)
          BY <1>1, <1>2, <1>3 DEF ToSet
        <5>2. \A i \in 1..Len(kept) : Len(files) + i \in DOMAIN c /\ c[Len(files) + i] = kept[i]
          BY <1>1, <1>2, <1>3
        <5>3. ASSUME NEW x \in ToSet(kept)
              PROVE  x \in ToSet(c)
          <6>1. PICK i \in 1..Len(kept) : x = kept[i]
            BY <1>3, <5>3 DEF ToSet
          <6> QED
            BY <5>2, <6>1, Zenon DEF ToSet
        <5> QED
          BY <1>2, <5>1, <5>3
      <4> QED
        BY <1>3, <4>1, <4>2, Covering
    <3>6. m = MaxRecent
      BY <1>3, <1>12, <3>4, <3>5
    <3>7. F(f) = Len(files) + G(f) /\ G(f) \in 1..Len(touches)
      BY <1>5, <3>1, <3>3
    <3>8. ASSUME NEW g \in ToSet(ring) PROVE F(g) < F(f)
      <4>1. PICK i \in 1..m : g = c[i]
        BY <1>13 DEF ToSet
      <4>2. CASE i \in 1..Len(files)
        <5>1. F(g) = i
          BY <1>3, <1>6, <4>1, <4>2
        <5> QED
          BY <1>1, <3>7, <4>2, <5>1
      <4>3. CASE i \notin 1..Len(files)
        <5>1. PICK x \in 1..Len(kept) : g = kept[x]
          BY <1>9, <1>13, <4>1, <4>3
        <5>2. g \in ToSet(old) /\ g \in ToSet(touches) \ ToSet(files)
          BY <1>2, <1>3, <1>8, <5>1 DEF ToSet
        <5>3. F(g) = Len(files) + G(g) /\ G(g) \in 1..Len(touches) /\ G(g) < G(f)
          BY <1>5, <3>4, <5>2
        <5> QED
          BY <1>1, <3>7, <5>3
      <4> QED
        BY <4>2, <4>3
    <3> QED
      BY <1>13, <3>6, <3>8
  <2> QED
    BY <2>1, <2>2
<1>17. IsLatest(ring, all)
  BY <1>14, <1>15, <1>16 DEF IsLatest, F
<1> QED
  BY <1>12, <1>13, <1>17 DEF all
-------------------------------------------------------------------------------
(* The invariant.                                                           *)

FileOK == file # Garbled => Len(file.recent_files) <= MaxRecent

(* Turn has something to send only at a prompt.                             *)
TailOK == at[Turn] # "prompt" => tail = <<>>

(* A transcript that is appended to does not end before a cursor; Turn has  *)
(* nothing in hand from behind its own.                                     *)
CursorsOK ==
  ~replaced => /\ file # Garbled => file.cursor <= length
               /\ \A h \in Hooks : session[h].cursor <= length
               /\ \A i \in ToSet(tail) : i <= session[Turn].cursor

(* No hook's copy is ahead of what was sent; Turn's only by what it has     *)
(* still to send.                                                           *)
CopiesNotAhead ==
  ~replaced =>
    /\ \A h \in ToolHooks : ~Ahead(session[h])
    /\ \A i \in ProseLines : i <= session[Turn].cursor => sent[i] > 0 \/ i \in ToSet(tail)

(* A copy of the file that has everything the hooks did until now.          *)
Current(s) ==
  /\ s.brief_hash = shown
  /\ IsLatest(s.recent_files, touched)
  /\ ~replaced => \A i \in ProseLines : sent[i] > 0 => i <= s.cursor

(* While hooks follow one another there is one at most, and the current     *)
(* copy is with it or in the file.                                          *)
OneCurrent ==
  ~disturbed =>
    /\ \A g, h \in Hooks : Running(g) /\ Running(h) => g = h
    /\ (\A h \in Hooks : ~Running(h)) \/ at[Turn] = "start" => Current(read_session)
    /\ \A h \in Hooks : Running(h) => Current(session[h])
    /\ \A h \in Hooks : at[h] = "write" => file = Garbled

(* And what Turn has in hand was not sent before.                           *)
TailUnsent ==
  ~replaced /\ ~disturbed =>
    /\ \A i \in ProseLines : sent[i] <= 1
    /\ \A i \in ToSet(tail) : sent[i] = 0
    /\ IsInjective(tail)

IInv ==
  /\ TypeOK /\ FileOK /\ TailOK /\ CursorsOK
  /\ NothingSkipped /\ CopiesNotAhead
  /\ OneCurrent /\ TailUnsent
-------------------------------------------------------------------------------
(* What a hook reads.                                                       *)

LEMMA Constants ==
  /\ Turn \in Hooks /\ ToolHooks \subseteq Hooks /\ Turn \notin ToolHooks
  /\ MaxLines \in Nat /\ MaxFaults \in Nat /\ ProseLines \subseteq 1..MaxLines
  /\ NoBrief \notin Briefs /\ Touches \subseteq Seq(Files)
  BY SessionAssumption DEF SessionAssumption, Hooks

LEMMA DefaultIs ==
  /\ Default \in SessionState /\ Len(Default.recent_files) <= MaxRecent
  /\ Default.cursor = 0 /\ ~Ahead(Default)
<1>1. /\ Default.cursor = 0 /\ Default.recent_files = <<>> /\ Default.brief_hash = NoBrief
      /\ Default = [cursor |-> 0, recent_files |-> <<>>, brief_hash |-> NoBrief]
  BY DEF Default
<1>2. 0 \in 0..MaxLines /\ MaxRecent \in Nat /\ \A i \in ProseLines : ~(i <= 0)
  BY Constants, SessionAssumption DEF SessionAssumption
<1> QED
  BY <1>1, <1>2 DEF SessionState, Ahead

LEMMA ReadSession ==
  ASSUME IInv
  PROVE  /\ read_session \in SessionState /\ Len(read_session.recent_files) <= MaxRecent
         /\ ~replaced => read_session.cursor <= length /\ ~Ahead(read_session)
<1>1. CASE file = Garbled
  <2>1. read_session = Default /\ length \in Nat
    BY <1>1 DEF read_session, IInv, TypeOK
  <2> QED
    BY <2>1, DefaultIs
<1>2. CASE file # Garbled
  BY <1>2 DEF read_session, IInv, TypeOK, FileOK, CursorsOK, NothingSkipped
<1> QED
  BY <1>1, <1>2

LEMMA ReadNew ==
  ASSUME TypeOK, NEW cursor \in 0..MaxLines
  PROVE  LET new == read_new(cursor)
         IN  /\ new.texts \in Seq(ProseLines) /\ IsInjective(new.texts)
             /\ new.new_cursor \in 0..length /\ length \in 0..MaxLines
             /\ cursor <= length => cursor <= new.new_cursor
             /\ \A i \in ProseLines : i <= new.new_cursor => i <= cursor \/ i \in ToSet(new.texts)
             /\ \A i \in ToSet(new.texts) : i <= new.new_cursor /\ (cursor <= length => cursor < i)
<1>1. /\ From(cursor) \in Nat /\ length \in Nat /\ From(cursor) <= length
      /\ From(cursor) <= cursor /\ (cursor <= length => From(cursor) = cursor)
      /\ length \in 0..MaxLines
  BY Constants DEF TypeOK, From
<1> DEFINE new == read_lines(From(cursor), length)
<1>2. /\ new.texts \in Seq(ProseLines) /\ IsInjective(new.texts)
      /\ new.new_cursor \in From(cursor)..length
      /\ ToSet(new.texts) = {i \in ProseLines : From(cursor) < i /\ i <= new.new_cursor}
  BY <1>1, ReadLines
<1>3. read_new(cursor) = new
  BY DEF read_new
<1> HIDE DEF new
<1>4. ProseLines \subseteq Nat
  BY Constants
<1>5. \A i \in ProseLines : i <= new.new_cursor => i <= cursor \/ i \in ToSet(new.texts)
  BY <1>1, <1>2, <1>4
<1>6. \A i \in ToSet(new.texts) : i <= new.new_cursor /\ (cursor <= length => cursor < i)
  BY <1>1, <1>2
<1> QED
  BY <1>1, <1>2, <1>3, <1>5, <1>6

LEMMA HeadAndTail ==
  ASSUME NEW s \in Seq(ProseLines), s # <<>>
  PROVE  /\ Head(s) \in ProseLines /\ Tail(s) \in Seq(ProseLines)
         /\ ToSet(s) = {Head(s)} \cup ToSet(Tail(s))
         /\ IsInjective(s) => IsInjective(Tail(s)) /\ Head(s) \notin ToSet(Tail(s))
<1> DEFINE rest == Tail(s)
<1>1. /\ Len(s) \in Nat /\ Len(s) >= 1 /\ DOMAIN s = 1..Len(s) /\ Head(s) = s[1]
      /\ rest \in Seq(ProseLines) /\ Len(rest) = Len(s) - 1 /\ DOMAIN rest = 1..Len(s) - 1
      /\ \A i \in 1..Len(s) - 1 : rest[i] = s[i + 1]
      /\ Head(s) \in ProseLines
  OBVIOUS
<1> HIDE DEF rest
<1>2. ASSUME NEW x \in ToSet(s) PROVE x = Head(s) \/ x \in ToSet(rest)
  <2>1. PICK i \in 1..Len(s) : s[i] = x
    BY <1>1 DEF ToSet
  <2>2. CASE i = 1
    BY <1>1, <2>1, <2>2
  <2>3. CASE i # 1
    <3>1. i - 1 \in DOMAIN rest /\ rest[i - 1] = x
      BY <1>1, <2>1, <2>3
    <3> QED
      BY <3>1 DEF ToSet
  <2> QED
    BY <2>2, <2>3
<1>3. ASSUME NEW x \in ToSet(rest) PROVE \E i \in 2..Len(s) : x = s[i]
  <2>1. PICK i \in 1..Len(s) - 1 : rest[i] = x
    BY <1>1, <1>3 DEF ToSet
  <2>2. i + 1 \in 2..Len(s) /\ s[i + 1] = x
    BY <1>1, <2>1
  <2> QED
    BY <2>2
<1>4. ToSet(s) = {Head(s)} \cup ToSet(rest)
  <2>1. Head(s) \in ToSet(s) /\ \A i \in 2..Len(s) : s[i] \in ToSet(s)
    BY <1>1 DEF ToSet
  <2> QED
    BY <1>2, <1>3, <2>1
<1>5. ASSUME IsInjective(s) PROVE IsInjective(rest) /\ Head(s) \notin ToSet(rest)
  <2>1. IsInjective(rest)
    <3>1. \A a, b \in 1..Len(s) - 1 : rest[a] = rest[b] => a = b
      <4> SUFFICES ASSUME NEW a \in 1..Len(s) - 1, NEW b \in 1..Len(s) - 1, rest[a] = rest[b]
                   PROVE  a = b
        OBVIOUS
      <4>1. a + 1 \in DOMAIN s /\ b + 1 \in DOMAIN s /\ s[a + 1] = s[b + 1]
        BY <1>1
      <4>2. a + 1 = b + 1
        BY <1>5, <4>1 DEF IsInjective
      <4> QED
        BY <1>1, <4>2
    <3> QED
      BY <1>1, <3>1 DEF IsInjective
  <2>2. Head(s) \notin ToSet(rest)
    BY <1>1, <1>3, <1>5 DEF IsInjective
  <2> QED
    BY <2>1, <2>2
<1> QED
  BY <1>1, <1>4, <1>5 DEF rest

-------------------------------------------------------------------------------
(* One lemma per action.                                                    *)

LEMMA SessionStartKeeps ==
  ASSUME IInv, SessionStart
  PROVE  IInv'
<1> DEFINE s == read_session
<1>1. /\ s \in SessionState /\ Len(s.recent_files) <= MaxRecent
      /\ ~replaced => s.cursor <= length /\ ~Ahead(s)
  BY ReadSession
<1>2. /\ at[Turn] = "idle" /\ at' = [at EXCEPT ![Turn] = "start"]
      /\ session' = [session EXCEPT ![Turn] = s]
      /\ disturbed' = (disturbed \/ \E g \in Hooks \ {Turn} : Running(g))
      /\ UNCHANGED <<file, length, partial, replaced, brief, tail, faults, sent, touched, shown>>
  BY DEF SessionStart, Go, transcriptVars, Overlaps
<1>3. read_session' = s
  BY <1>2 DEF read_session
<1> HIDE DEF s
<1>4. TypeOK'
  BY <1>1, <1>2, Constants DEF IInv, TypeOK
<1>5. FileOK' /\ TailOK' /\ CursorsOK'
  <2>1. tail' = <<>>
    BY <1>2 DEF IInv, TailOK
  <2>2. ToSet(tail') = {}
    BY <2>1 DEF ToSet
  <2> QED
    BY <1>1, <1>2, <2>1, <2>2, Constants DEF IInv, FileOK, TailOK, CursorsOK, TypeOK
<1>6. NothingSkipped' /\ CopiesNotAhead'
  BY <1>1, <1>2, Constants DEF IInv, NothingSkipped, CopiesNotAhead, Ahead, TypeOK
<1>7. OneCurrent'
  <2> SUFFICES ASSUME ~disturbed' PROVE OneCurrent'
    BY DEF OneCurrent
  <2>1. ~disturbed /\ \A h \in Hooks : ~Running(h)
    BY <1>2 DEF Running
  <2>2. Current(read_session)'
    BY <1>2, <1>3, <2>1 DEF IInv, OneCurrent, Current, s
  <2>3. session'[Turn] = read_session' /\ at'[Turn] = "start"
    BY <1>2, <1>3, Constants DEF IInv, TypeOK
  <2>4. \A h \in Hooks : Running(h)' => h = Turn
    BY <1>2, <2>1 DEF Running, IInv, TypeOK
  <2>5. Current(session[Turn])'
    BY <2>2, <2>3 DEF Current
  <2>6. \A h \in Hooks : at'[h] # "write"
    BY <2>3, <2>4 DEF Running
  <2> QED
    BY <2>2, <2>4, <2>5, <2>6 DEF OneCurrent
<1>8. TailUnsent'
  BY <1>2 DEF IInv, TailUnsent
<1> QED
  BY <1>4, <1>5, <1>6, <1>7, <1>8 DEF IInv

LEMMA UserPromptSubmitKeeps ==
  ASSUME IInv, UserPromptSubmit
  PROVE  IInv'
<1> DEFINE s == read_session
           new == read_new(s.cursor)
           copy == [s EXCEPT !.cursor = new.new_cursor]
<1>1. /\ s \in SessionState /\ Len(s.recent_files) <= MaxRecent
      /\ ~replaced => s.cursor <= length /\ ~Ahead(s)
  BY ReadSession
<1>2. /\ at[Turn] = "idle" /\ at' = [at EXCEPT ![Turn] = "prompt"]
      /\ session' = [session EXCEPT ![Turn] = copy] /\ tail' = new.texts
      /\ disturbed' = (disturbed \/ \E g \in Hooks \ {Turn} : Running(g))
      /\ UNCHANGED <<file, length, partial, replaced, brief, faults, sent, touched, shown>>
  BY DEF UserPromptSubmit, Go, transcriptVars, Overlaps
<1>3. s.cursor \in 0..MaxLines
  BY <1>1 DEF SessionState
<1>4. /\ new.texts \in Seq(ProseLines) /\ IsInjective(new.texts)
      /\ new.new_cursor \in 0..length /\ length \in 0..MaxLines
      /\ s.cursor <= length => s.cursor <= new.new_cursor
      /\ \A i \in ProseLines : i <= new.new_cursor => i <= s.cursor \/ i \in ToSet(new.texts)
      /\ \A i \in ToSet(new.texts) : i <= new.new_cursor /\ (s.cursor <= length => s.cursor < i)
  BY <1>3, ReadNew DEF IInv
<1>5. ~disturbed' => ~disturbed /\ (\A h \in Hooks : ~Running(h)) /\ Current(s)
  BY <1>2 DEF Running, IInv, OneCurrent
<1> HIDE DEF s, new
<1>6. /\ copy \in SessionState /\ copy.cursor = new.new_cursor
      /\ copy.recent_files = s.recent_files /\ copy.brief_hash = s.brief_hash
  <2>1. new.new_cursor \in 0..MaxLines
    <3>1. MaxLines \in Nat
      BY Constants
    <3> QED
      BY <1>4, <3>1
  <2> QED
    BY <1>1, <2>1 DEF SessionState
<1> HIDE DEF copy
<1>7. /\ session'[Turn] = copy /\ at'[Turn] = "prompt"
      /\ \A h \in Hooks \ {Turn} : session'[h] = session[h] /\ at'[h] = at[h]
  BY <1>2, Constants DEF IInv, TypeOK
<1>8. TypeOK'
  BY <1>1, <1>2, <1>4, <1>6, Constants DEF IInv, TypeOK
<1>9. FileOK' /\ TailOK' /\ CursorsOK'
  BY <1>2, <1>4, <1>6, <1>7, Constants DEF IInv, FileOK, TailOK, CursorsOK
<1>10. NothingSkipped' /\ CopiesNotAhead'
  <2>1. NothingSkipped'
    BY <1>2 DEF IInv, NothingSkipped, Ahead
  <2>2. ~replaced => \A i \in ProseLines : i <= copy.cursor => sent[i] > 0 \/ i \in ToSet(tail')
    BY <1>1, <1>2, <1>4, <1>6 DEF IInv, TypeOK, Ahead
  <2> QED
    BY <1>2, <1>7, <2>1, <2>2, Constants DEF IInv, CopiesNotAhead, Ahead
<1>11. OneCurrent'
  <2> SUFFICES ASSUME ~disturbed' PROVE OneCurrent'
    BY DEF OneCurrent
  <2>1. \A h \in Hooks : Running(h)' => h = Turn
    BY <1>2, <1>5, <1>7 DEF Running
  <2>2. Running(Turn)' /\ at'[Turn] # "start" /\ \A h \in Hooks : at'[h] # "write"
    BY <1>7, <2>1 DEF Running
  <2>3. \A i \in ProseLines : ~replaced /\ sent[i] > 0 => i <= copy.cursor
    <3>1. ProseLines \subseteq Nat /\ copy.cursor \in Nat /\ s.cursor \in Nat
      BY <1>3, <1>4, <1>6, Constants
    <3> QED
      BY <1>1, <1>4, <1>5, <1>6, <3>1 DEF Current
  <2>4. Current(session[Turn])'
    BY <1>2, <1>5, <1>6, <1>7, <2>3 DEF Current
  <2> QED
    BY <2>1, <2>2, <2>4, Constants DEF OneCurrent
<1>12. TailUnsent'
  <2> SUFFICES ASSUME ~replaced, ~disturbed' PROVE TailUnsent'
    BY <1>2 DEF TailUnsent
  <2>1. \A i \in ToSet(new.texts) : i \in ProseLines /\ s.cursor < i
    BY <1>1, <1>4 DEF ToSet
  <2>2. \A i \in ToSet(new.texts) : sent[i] = 0
    <3>1. ProseLines \subseteq Nat /\ s.cursor \in Nat /\ \A i \in ProseLines : sent[i] \in Nat
      BY <1>3, Constants DEF IInv, TypeOK
    <3>2. \A i \in ProseLines : sent[i] > 0 => i <= s.cursor
      BY <1>5 DEF Current
    <3>3. ASSUME NEW i \in ToSet(new.texts) PROVE sent[i] = 0
      <4>1. i \in ProseLines /\ s.cursor < i /\ (sent[i] > 0 => i <= s.cursor)
        BY <2>1, <3>2
      <4>2. i \in Nat /\ s.cursor \in Nat /\ sent[i] \in Nat
        BY <3>1, <4>1
      <4> QED
        BY <4>1, <4>2
    <3> QED
      BY <3>3
  <2> QED
    BY <1>2, <1>4, <1>5, <2>2 DEF IInv, TailUnsent
<1> QED
  BY <1>8, <1>9, <1>10, <1>11, <1>12 DEF IInv
LEMMA CaptureKeeps ==
  ASSUME IInv, Capture
  PROVE  IInv'
<1> DEFINE i0 == Head(tail)
           rest == Tail(tail)
<1>1. /\ at[Turn] = "prompt" /\ tail # <<>> /\ tail \in Seq(ProseLines)
      /\ sent' = [sent EXCEPT ![i0] = IF sent[i0] < 2 THEN sent[i0] + 1 ELSE sent[i0]]
      /\ tail' = rest
      /\ UNCHANGED <<file, length, partial, replaced, brief, at, session, faults,
                     touched, shown, disturbed>>
  BY DEF Capture, transcriptVars, IInv, TypeOK
<1>2. /\ i0 \in ProseLines /\ rest \in Seq(ProseLines)
      /\ ToSet(tail) = {i0} \cup ToSet(rest)
      /\ IsInjective(tail) => IsInjective(rest) /\ i0 \notin ToSet(rest)
  BY <1>1, HeadAndTail
<1> HIDE DEF i0, rest
<1>3. /\ sent \in [ProseLines -> 0..2] /\ sent' \in [ProseLines -> 0..2]
      /\ sent'[i0] > 0 /\ (sent[i0] = 0 => sent'[i0] = 1)
      /\ \A i \in ProseLines : sent[i] > 0 => sent'[i] > 0
      /\ \A i \in ProseLines \ {i0} : sent'[i] = sent[i]
  <2>1. sent \in [ProseLines -> 0..2]
    BY DEF IInv, TypeOK
  <2>2. sent[i0] \in 0..2
    BY <1>2, <2>1
  <2> QED
    BY <1>1, <1>2, <2>1, <2>2
<1>4. \A i \in ProseLines : sent'[i] = 0 => sent[i] = 0
  <2>1. \A i \in ProseLines : sent[i] \in 0..2 /\ sent'[i] \in 0..2
    BY <1>3
  <2> QED
    BY <1>3, <2>1
<1>5. TypeOK'
  BY <1>1, <1>2, <1>3 DEF IInv, TypeOK
<1>6. FileOK' /\ TailOK' /\ CursorsOK'
  BY <1>1, <1>2 DEF IInv, FileOK, TailOK, CursorsOK
<1>7. NothingSkipped' /\ CopiesNotAhead'
  <2>1. NothingSkipped'
    BY <1>1, <1>4 DEF IInv, NothingSkipped, Ahead
  <2>2. \A h \in ToolHooks : ~replaced => ~(Ahead(session[h])')
    BY <1>1, <1>4 DEF IInv, CopiesNotAhead, Ahead
  <2>3. ~replaced => \A i \in ProseLines : i <= session[Turn].cursor => sent'[i] > 0 \/ i \in ToSet(rest)
    BY <1>2, <1>3 DEF IInv, CopiesNotAhead
  <2> QED
    BY <1>1, <2>1, <2>2, <2>3 DEF CopiesNotAhead
<1>8. OneCurrent'
  <2> SUFFICES ASSUME ~disturbed PROVE OneCurrent'
    BY <1>1 DEF OneCurrent
  <2>1. at[Turn] # "start" /\ Running(Turn) /\ Turn \in Hooks
    BY <1>1, Constants DEF Running
  <2>2. \A h \in Hooks : Running(h) => h = Turn
    BY <2>1 DEF IInv, OneCurrent
  <2>3. Current(session[Turn])
    BY <2>1 DEF IInv, OneCurrent
  <2>4. ~replaced => i0 <= session[Turn].cursor
    BY <1>2 DEF IInv, CursorsOK
  <2>5. ~replaced => \A i \in ProseLines : sent'[i] > 0 => i <= session[Turn].cursor
    BY <1>3, <2>3, <2>4 DEF Current
  <2>6. Current(session[Turn])'
    BY <1>1, <2>3, <2>5 DEF Current
  <2>7. \A h \in Hooks : at'[h] = "write" => file' = Garbled
    BY <1>1 DEF IInv, OneCurrent
  <2>8. \A h \in Hooks : Running(h)' => h = Turn
    BY <1>1, <2>2 DEF Running
  <2> QED
    BY <1>1, <2>1, <2>6, <2>7, <2>8 DEF OneCurrent, Running
<1>9. TailUnsent'
  <2> SUFFICES ASSUME ~replaced, ~disturbed PROVE TailUnsent'
    BY <1>1 DEF TailUnsent
  <2>1. /\ \A i \in ProseLines : sent[i] <= 1
        /\ \A i \in ToSet(tail) : sent[i] = 0
        /\ IsInjective(tail)
    BY DEF IInv, TailUnsent
  <2>2. sent'[i0] = 1 /\ i0 \notin ToSet(rest) /\ IsInjective(rest)
    BY <1>2, <1>3, <2>1
  <2>3. \A i \in ToSet(rest) : i \in ProseLines
    BY <1>2 DEF ToSet
  <2>4. \A i \in ToSet(rest) : sent'[i] = 0
    BY <1>2, <1>3, <2>1, <2>2, <2>3
  <2>5. \A i \in ProseLines : sent'[i] <= 1
    BY <1>3, <2>1, <2>2
  <2> QED
    BY <1>1, <2>2, <2>4, <2>5 DEF TailUnsent
<1> QED
  BY <1>5, <1>6, <1>7, <1>8, <1>9 DEF IInv
(* A brief that is put into the context.                                    *)
LEMMA InjectKeeps ==
  ASSUME IInv, NEW b \in Briefs, Inject(b),
         at[Turn] \in {"start", "prompt"}, tail = <<>>, Go(Turn, "truncate"),
         brief \in Briefs \cup {NoBrief}, faults' \in 0..MaxFaults,
         UNCHANGED <<file, transcriptVars, brief, tail, sent, touched, disturbed>>
  PROVE  IInv'
<1> DEFINE copy == [session[Turn] EXCEPT !.brief_hash = b]
<1>1. /\ at' = [at EXCEPT ![Turn] = "truncate"] /\ shown' = b
      /\ UNCHANGED <<file, length, partial, replaced, brief, tail, sent, touched, disturbed>>
  BY DEF Inject, Go, transcriptVars
<1>2. session' = [session EXCEPT ![Turn] = copy]
  BY DEF Inject
<1>3. session[Turn] \in SessionState /\ Len(session[Turn].recent_files) <= MaxRecent
  BY Constants DEF IInv, TypeOK
<1>4. /\ copy \in SessionState /\ copy.cursor = session[Turn].cursor
      /\ copy.recent_files = session[Turn].recent_files /\ copy.brief_hash = b
  BY <1>3 DEF SessionState
<1> HIDE DEF copy
<1>5. /\ session'[Turn] = copy /\ at'[Turn] = "truncate"
      /\ \A h \in Hooks \ {Turn} : session'[h] = session[h] /\ at'[h] = at[h]
  BY <1>1, <1>2, Constants DEF IInv, TypeOK
<1>6. TypeOK'
  BY <1>1, <1>2, <1>3, <1>4, Constants DEF IInv, TypeOK
<1>7. ToSet(tail) = {}
  BY DEF ToSet
<1>8. FileOK' /\ TailOK' /\ CursorsOK'
  BY <1>1, <1>4, <1>5, <1>7, Constants DEF IInv, FileOK, TailOK, CursorsOK
<1>9. NothingSkipped' /\ CopiesNotAhead'
  <2>1. NothingSkipped'
    BY <1>1 DEF IInv, NothingSkipped, Ahead
  <2>2. \A h \in ToolHooks : ~replaced => ~(Ahead(session[h])')
    BY <1>1, <1>5, Constants DEF IInv, CopiesNotAhead, Ahead
  <2> QED
    BY <1>1, <1>4, <1>5, <2>1, <2>2 DEF IInv, CopiesNotAhead
<1>10. OneCurrent'
  <2> SUFFICES ASSUME ~disturbed PROVE OneCurrent'
    BY <1>1 DEF OneCurrent
  <2>1. Running(Turn) /\ Turn \in Hooks
    BY Constants DEF Running
  <2>2. \A h \in Hooks : Running(h) => h = Turn
    BY <2>1 DEF IInv, OneCurrent
  <2>3. Current(session[Turn])
    BY <2>1 DEF IInv, OneCurrent
  <2>4. Current(session[Turn])'
    BY <1>1, <1>4, <1>5, <2>3 DEF Current
  <2>5. \A h \in Hooks : Running(h)' => h = Turn
    BY <1>5, <2>2 DEF Running
  <2>6. Running(Turn)' /\ at'[Turn] # "start" /\ \A h \in Hooks : at'[h] # "write"
    BY <1>5, <2>5 DEF Running
  <2> QED
    BY <2>1, <2>4, <2>5, <2>6 DEF OneCurrent
<1>11. TailUnsent'
  BY <1>1 DEF IInv, TailUnsent
<1> QED
  BY <1>6, <1>8, <1>9, <1>10, <1>11 DEF IInv

(* A hook that is over without a word, or with its copy in the file.        *)
LEMMA EndKeeps ==
  ASSUME IInv, NEW h \in Hooks, Go(h, Ended(h)), Running(h),
         session' = [session EXCEPT ![h] = Default],
         tail' = IF h = Turn THEN <<>> ELSE tail,
         file' \in SessionState \cup {Garbled}, FileOK', NothingSkipped',
         ~replaced /\ file' # Garbled => file'.cursor <= length,
         faults' \in 0..MaxFaults,
         UNCHANGED <<transcriptVars, brief, sent, touched, shown>>,
         disturbed' \in BOOLEAN, (~disturbed' => ~disturbed /\ Current(read_session)')
  PROVE  IInv'
<1>1. /\ at' = [at EXCEPT ![h] = Ended(h)] /\ Ended(h) \in {"idle", "done"}
      /\ UNCHANGED <<length, partial, replaced, brief, sent, touched, shown>>
      /\ disturbed' \in BOOLEAN /\ (disturbed => disturbed')
  BY DEF Go, Ended, transcriptVars, IInv, TypeOK
<1>2. /\ session'[h] = Default /\ at'[h] \in {"idle", "done"}
      /\ \A g \in Hooks \ {h} : session'[g] = session[g] /\ at'[g] = at[g]
  BY <1>1 DEF IInv, TypeOK
<1>3. length \in Nat /\ ToSet(<<>>) = {}
  BY DEF IInv, TypeOK, ToSet
<1>4. TypeOK'
  <2>1. tail' \in Seq(ProseLines)
    BY DEF IInv, TypeOK
  <2> QED
    BY <1>1, <2>1, DefaultIs DEF IInv, TypeOK
<1>5. TailOK'
  BY <1>2, Constants DEF IInv, TailOK
<1>6. CursorsOK'
  BY <1>1, <1>2, <1>3, DefaultIs, Constants DEF IInv, CursorsOK
<1>7. CopiesNotAhead'
  <2>1. \A g \in ToolHooks : ~replaced => ~(Ahead(session[g])')
    BY <1>1, <1>2, DefaultIs, Constants DEF IInv, CopiesNotAhead, Ahead
  <2>2. h = Turn => \A i \in ProseLines : ~(i <= session'[Turn].cursor)
    BY <1>2, DefaultIs, Constants
  <2>3. h # Turn => session'[Turn] = session[Turn] /\ tail' = tail
    BY <1>2, Constants
  <2> QED
    BY <1>1, <2>1, <2>2, <2>3 DEF IInv, CopiesNotAhead
<1>8. OneCurrent'
  <2> SUFFICES ASSUME ~disturbed' PROVE OneCurrent'
    BY DEF OneCurrent
  <2>1. ~disturbed /\ Current(read_session)'
    BY <1>1
  <2>2. \A g \in Hooks : Running(g) => g = h
    BY <2>1 DEF IInv, OneCurrent
  <2>3. \A g \in Hooks : ~(Running(g)')
    BY <1>2, <2>2 DEF Running
  <2>4. \A g \in Hooks : at'[g] # "write"
    BY <2>3 DEF Running
  <2> QED
    BY <2>1, <2>3, <2>4 DEF OneCurrent
<1>9. TailUnsent'
  <2>1. IsInjective(<<>>)
    BY DEF IsInjective
  <2> QED
    BY <1>1, <1>3, <2>1 DEF IInv, TailUnsent
<1> QED
  BY <1>4, <1>5, <1>6, <1>7, <1>8, <1>9 DEF IInv
(* A hook that goes on to write, with its copy as it is.                    *)
LEMMA AdvanceKeeps ==
  ASSUME IInv, NEW h \in Hooks, Running(h), h = Turn => tail = <<>>,
         NEW place \in {"truncate", "write"}, Go(h, place),
         file' \in {file, Garbled}, place = "write" => file' = Garbled,
         faults' \in 0..MaxFaults,
         UNCHANGED <<transcriptVars, brief, session, tail, sent, touched, shown, disturbed>>
  PROVE  IInv'
<1>1. /\ at' = [at EXCEPT ![h] = place]
      /\ UNCHANGED <<length, partial, replaced, brief, session, tail, sent,
                     touched, shown, disturbed>>
  BY DEF Go, transcriptVars
<1>2. at'[h] = place /\ \A g \in Hooks \ {h} : at'[g] = at[g]
  BY <1>1 DEF IInv, TypeOK
<1>3. TypeOK'
  BY <1>1 DEF IInv, TypeOK
<1>4. FileOK' /\ TailOK' /\ CursorsOK'
  BY <1>1, <1>2, Constants DEF IInv, FileOK, TailOK, CursorsOK
<1>5. NothingSkipped' /\ CopiesNotAhead'
  BY <1>1 DEF IInv, NothingSkipped, CopiesNotAhead, Ahead
<1>6. OneCurrent'
  <2> SUFFICES ASSUME ~disturbed PROVE OneCurrent'
    BY <1>1 DEF OneCurrent
  <2>1. \A g \in Hooks : Running(g) => g = h
    BY DEF IInv, OneCurrent
  <2>2. Current(session[h])'
    BY <1>1 DEF IInv, OneCurrent, Current
  <2>3. \A g \in Hooks : Running(g)' => g = h
    BY <1>2, <2>1 DEF Running
  <2>4. Running(h)' /\ at'[Turn] # "start"
    BY <1>2, <2>1, Constants DEF Running
  <2>5. \A g \in Hooks : at'[g] = "write" => file' = Garbled
    BY <1>2, <2>3 DEF Running
  <2> QED
    BY <2>2, <2>3, <2>4, <2>5 DEF OneCurrent
<1>7. TailUnsent'
  BY <1>1 DEF IInv, TailUnsent
<1> QED
  BY <1>3, <1>4, <1>5, <1>6, <1>7 DEF IInv

LEMMA Fetched ==
  ASSUME IInv, NEW b, Fetch(b)
  PROVE  faults' \in 0..MaxFaults
BY Constants DEF IInv, TypeOK, Fetch, Fault

LEMMA BriefAtStartKeeps ==
  ASSUME IInv, BriefAtStart
  PROVE  IInv'
<1>1. /\ at[Turn] = "start" /\ tail = <<>>
      /\ UNCHANGED <<file, transcriptVars, brief, tail, sent, touched, disturbed>>
  BY DEF BriefAtStart, IInv, TailOK
<1>2. PICK b \in {brief, NoBrief} :
        /\ Fetch(b)
        /\ IF b = NoBrief
           THEN /\ Go(Turn, "idle")
                /\ session' = [session EXCEPT ![Turn] = Default]
                /\ UNCHANGED shown
           ELSE Go(Turn, "truncate") /\ Inject(b)
  BY DEF BriefAtStart
<1>3. faults' \in 0..MaxFaults
  BY <1>2, Fetched
<1>4. brief \in Briefs \cup {NoBrief}
  BY DEF IInv, TypeOK
<1>5. CASE b = NoBrief
  <2>1. Go(Turn, "idle") /\ session' = [session EXCEPT ![Turn] = Default] /\ UNCHANGED shown
    BY <1>2, <1>5
  <2>2. /\ Ended(Turn) = "idle" /\ Running(Turn) /\ Turn \in Hooks
        /\ file' \in SessionState \cup {Garbled} /\ disturbed' \in BOOLEAN
    BY <1>1, Constants DEF Ended, Running, IInv, TypeOK
  <2>3. FileOK' /\ NothingSkipped'
    BY <1>1 DEF IInv, FileOK, NothingSkipped, Ahead, transcriptVars
  <2>4. ~disturbed' => ~disturbed /\ Current(read_session)'
    <3>1. ~disturbed => Current(read_session)
      BY <1>1 DEF IInv, OneCurrent
    <3> QED
      BY <1>1, <2>1, <3>1 DEF Current, read_session, transcriptVars
  <2>5. ~replaced /\ file' # Garbled => file'.cursor <= length
    BY <1>1 DEF IInv, CursorsOK
  <2> QED
    BY <1>1, <1>3, <2>1, <2>2, <2>3, <2>4, <2>5, EndKeeps
<1>6. CASE b # NoBrief
  <2>1. b \in Briefs /\ Go(Turn, "truncate") /\ Inject(b)
    BY <1>2, <1>4, <1>6
  <2> QED
    BY <1>1, <1>3, <1>4, <2>1, InjectKeeps
<1> QED
  BY <1>5, <1>6

LEMMA BriefAtPromptKeeps ==
  ASSUME IInv, BriefAtPrompt
  PROVE  IInv'
<1>1. /\ at[Turn] = "prompt" /\ tail = <<>> /\ Go(Turn, "truncate")
      /\ UNCHANGED <<file, transcriptVars, brief, tail, sent, touched, disturbed>>
  BY DEF BriefAtPrompt
<1>2. PICK b \in {brief, NoBrief} :
        /\ Fetch(b)
        /\ IF b \in {NoBrief, session[Turn].brief_hash}
           THEN UNCHANGED <<session, shown>>
           ELSE Inject(b)
  BY DEF BriefAtPrompt
<1>3. faults' \in 0..MaxFaults
  BY <1>2, Fetched
<1>4. brief \in Briefs \cup {NoBrief}
  BY DEF IInv, TypeOK
<1>5. CASE b \in {NoBrief, session[Turn].brief_hash}
  <2>1. Running(Turn) /\ Turn \in Hooks
    BY <1>1, Constants DEF Running
  <2> QED
    BY <1>1, <1>2, <1>3, <1>5, <2>1, AdvanceKeeps
<1>6. CASE b \notin {NoBrief, session[Turn].brief_hash}
  <2>1. b \in Briefs /\ Inject(b)
    BY <1>2, <1>4, <1>6
  <2> QED
    BY <1>1, <1>3, <1>4, <2>1, InjectKeeps
<1> QED
  BY <1>5, <1>6

LEMMA TruncateKeeps ==
  ASSUME IInv, NEW h \in Hooks, Truncate(h)
  PROVE  IInv'
<1>1. Running(h) /\ (h = Turn => tail = <<>>) /\ faults' \in 0..MaxFaults
  BY DEF Truncate, Running, IInv, TailOK, TypeOK
<1> QED
  BY <1>1, AdvanceKeeps DEF Truncate

LEMMA WriteKeeps ==
  ASSUME IInv, NEW h \in Hooks, Write(h)
  PROVE  IInv'
<1>1. /\ at[h] = "write" /\ Running(h) /\ Go(h, Ended(h))
      /\ file' \in {session[h], Garbled} /\ (file = Garbled => file' = session[h])
      /\ session' = [session EXCEPT ![h] = Default]
      /\ UNCHANGED <<transcriptVars, brief, tail, faults, sent, touched, shown, disturbed>>
  BY DEF Write, Running
<1>2. /\ session[h] \in SessionState /\ Len(session[h].recent_files) <= MaxRecent
      /\ session[h] # Garbled /\ faults' \in 0..MaxFaults /\ disturbed' \in BOOLEAN
  BY <1>1, SessionAssumption DEF SessionAssumption, IInv, TypeOK
<1>3. tail' = IF h = Turn THEN <<>> ELSE tail
  BY <1>1 DEF IInv, TailOK
<1>4. ToSet(<<>>) = {}
  BY DEF ToSet
<1>5. ~replaced => session[h].cursor <= length /\ ~Ahead(session[h])
  <2>1. h \in ToolHooks \/ (h = Turn /\ tail = <<>>)
    BY <1>1, <1>3 DEF Hooks
  <2> QED
    BY <1>4, <2>1 DEF IInv, TypeOK, CursorsOK, CopiesNotAhead, Ahead
<1>6. FileOK' /\ NothingSkipped' /\ (~replaced /\ file' # Garbled => file'.cursor <= length)
  BY <1>1, <1>2, <1>5 DEF FileOK, NothingSkipped, Ahead, transcriptVars
<1>7. ~disturbed' => ~disturbed /\ Current(read_session)'
  <2> SUFFICES ASSUME ~disturbed PROVE Current(read_session)'
    BY <1>1
  <2>1. file = Garbled /\ Current(session[h])
    BY <1>1 DEF IInv, OneCurrent
  <2>2. file' = session[h] /\ read_session' = session[h]
    BY <1>1, <1>2, <2>1 DEF read_session
  <2> QED
    BY <1>1, <2>1, <2>2 DEF Current, transcriptVars
<1>8. file' \in SessionState \cup {Garbled}
  BY <1>1, <1>2
<1> QED
  BY <1>1, <1>2, <1>3, <1>6, <1>7, <1>8, EndKeeps

LEMMA KilledKeeps ==
  ASSUME IInv, NEW h \in Hooks, Killed(h)
  PROVE  IInv'
<1>1. /\ Running(h) /\ Go(h, Ended(h)) /\ disturbed' = TRUE
      /\ faults < MaxFaults /\ faults' = faults + 1
      /\ session' = [session EXCEPT ![h] = Default]
      /\ tail' = IF h = Turn THEN <<>> ELSE tail
      /\ UNCHANGED <<file, transcriptVars, brief, sent, touched, shown>>
  BY DEF Killed, Fault
<1>2. faults' \in 0..MaxFaults /\ file' \in SessionState \cup {Garbled} /\ disturbed' \in BOOLEAN
  BY <1>1, Constants DEF IInv, TypeOK
<1>3. FileOK' /\ NothingSkipped' /\ (~replaced /\ file' # Garbled => file'.cursor <= length)
  BY <1>1 DEF IInv, FileOK, NothingSkipped, Ahead, CursorsOK, transcriptVars
<1> QED
  BY <1>1, <1>2, <1>3, EndKeeps
LEMMA PostToolUseKeeps ==
  ASSUME IInv, NEW h \in ToolHooks, PostToolUse(h)
  PROVE  IInv'
<1> DEFINE s == read_session
<1>1. /\ s \in SessionState /\ Len(s.recent_files) <= MaxRecent
      /\ ~replaced => s.cursor <= length /\ ~Ahead(s)
  BY ReadSession
<1>2. PICK files \in Touches :
        /\ session' = [session EXCEPT ![h] =
             [read_session EXCEPT !.recent_files = Ring(files, @)]]
        /\ touched' = IF disturbed' THEN <<>> ELSE files \o touched
  BY DEF PostToolUse
<1> DEFINE copy == [s EXCEPT !.recent_files = Ring(files, s.recent_files)]
<1>3. /\ at[h] = "idle" /\ at' = [at EXCEPT ![h] = "truncate"]
      /\ session' = [session EXCEPT ![h] = copy]
      /\ disturbed' = (disturbed \/ \E g \in Hooks \ {h} : Running(g))
      /\ UNCHANGED <<file, length, partial, replaced, brief, tail, faults, sent, shown>>
  BY <1>2 DEF PostToolUse, Go, transcriptVars, Overlaps
<1>4. ~disturbed' => ~disturbed /\ (\A g \in Hooks : ~Running(g)) /\ Current(s)
  BY <1>3 DEF Running, IInv, OneCurrent
<1>5. h \in Hooks /\ h # Turn
  BY Constants
<1> HIDE DEF s
<1>6. s.recent_files \in Seq(Files) /\ files \in Seq(Files) /\ touched \in Seq(Files)
  BY <1>1, Constants DEF SessionState, IInv, TypeOK
<1>7. Ring(files, s.recent_files) \in Seq(Files) /\ Len(Ring(files, s.recent_files)) <= MaxRecent
  BY <1>6, RingIs
<1>8. /\ copy \in SessionState /\ copy.recent_files = Ring(files, s.recent_files)
      /\ copy.cursor = s.cursor /\ copy.brief_hash = s.brief_hash
  BY <1>1, <1>7 DEF SessionState
<1> HIDE DEF copy
<1>9. /\ session'[h] = copy /\ at'[h] = "truncate"
      /\ \A g \in Hooks \ {h} : session'[g] = session[g] /\ at'[g] = at[g]
  BY <1>3, <1>5 DEF IInv, TypeOK
<1>10. TypeOK'
  <2>1. touched' \in Seq(Files)
    BY <1>2, <1>6
  <2>2. disturbed' \in BOOLEAN
    BY <1>3 DEF IInv, TypeOK
  <2> QED
    BY <1>3, <1>5, <1>7, <1>8, <2>1, <2>2 DEF IInv, TypeOK
<1>11. FileOK' /\ TailOK' /\ CursorsOK'
  BY <1>1, <1>3, <1>5, <1>8, <1>9, Constants DEF IInv, FileOK, TailOK, CursorsOK
<1>12. NothingSkipped' /\ CopiesNotAhead'
  <2>1. NothingSkipped'
    BY <1>3 DEF IInv, NothingSkipped, Ahead
  <2>2. \A g \in ToolHooks : ~replaced => ~(Ahead(session[g])')
    BY <1>1, <1>3, <1>8, <1>9, Constants DEF IInv, CopiesNotAhead, Ahead
  <2>3. session'[Turn] = session[Turn]
    BY <1>5, <1>9, Constants
  <2> QED
    BY <1>3, <2>1, <2>2, <2>3 DEF IInv, CopiesNotAhead
<1>13. OneCurrent'
  <2> SUFFICES ASSUME ~disturbed' PROVE OneCurrent'
    BY DEF OneCurrent
  <2>1. \A g \in Hooks : Running(g)' => g = h
    BY <1>4, <1>9 DEF Running
  <2>2. Running(h)' /\ at'[Turn] # "start" /\ \A g \in Hooks : at'[g] # "write"
    BY <1>5, <1>9, <2>1, Constants DEF Running
  <2>3. touched' = files \o touched /\ IsLatest(s.recent_files, touched)
    BY <1>2, <1>4 DEF Current
  <2>4. IsLatest(copy.recent_files, touched')
    BY <1>1, <1>6, <1>8, <2>3, RingIsLatest
  <2>5. copy.brief_hash = shown' /\ (~replaced' => \A i \in ProseLines : sent'[i] > 0 => i <= copy.cursor)
    BY <1>3, <1>4, <1>8 DEF Current
  <2>6. Current(session[h])'
    BY <1>9, <2>4, <2>5 DEF Current
  <2> QED
    BY <1>5, <2>1, <2>2, <2>6 DEF OneCurrent
<1>14. TailUnsent'
  BY <1>3 DEF IInv, TailUnsent
<1> QED
  BY <1>10, <1>11, <1>12, <1>13, <1>14 DEF IInv

LEMMA Append1Keeps ==
  ASSUME IInv, Append1
  PROVE  IInv'
<1>1. /\ length' \in 0..MaxLines /\ length <= length' /\ length \in Nat /\ length' \in Nat
      /\ partial' \in BOOLEAN
      /\ UNCHANGED <<file, replaced, brief, at, session, tail, faults, sent,
                     touched, shown, disturbed>>
  <2>1. length \in 0..MaxLines /\ partial \in BOOLEAN /\ MaxLines \in Nat
    BY Constants DEF IInv, TypeOK
  <2>2. (length' = length /\ partial' = TRUE) \/ (length' = length + 1 /\ partial' = FALSE)
    BY DEF Append1
  <2>3. length' \in 0..MaxLines /\ length <= length' /\ length \in Nat /\ length' \in Nat
    BY <2>1, <2>2 DEF Append1
  <2>4. partial' \in BOOLEAN
    BY <2>2
  <2> QED
    BY <2>3, <2>4 DEF Append1
<1>2. TypeOK'
  BY <1>1 DEF IInv, TypeOK
<1>3. CursorsOK'
  <2>1. /\ file # Garbled => file.cursor \in Nat
        /\ \A h \in Hooks : session[h].cursor \in Nat
    BY Constants DEF IInv, TypeOK, SessionState
  <2> QED
    BY <1>1, <2>1 DEF IInv, CursorsOK
<1>4. FileOK' /\ TailOK' /\ NothingSkipped' /\ CopiesNotAhead' /\ TailUnsent'
  BY <1>1 DEF IInv, FileOK, TailOK, NothingSkipped, CopiesNotAhead, TailUnsent, Ahead
<1>5. OneCurrent'
  BY <1>1 DEF IInv, OneCurrent, Current, Running, read_session
<1> QED
  BY <1>2, <1>3, <1>4, <1>5 DEF IInv

LEMMA ReplaceKeeps ==
  ASSUME IInv, Replace
  PROVE  IInv'
<1>1. /\ length' \in 0..MaxLines /\ partial' = FALSE /\ replaced' = TRUE
      /\ sent' = [i \in ProseLines |-> 0] /\ faults < MaxFaults /\ faults' = faults + 1
      /\ UNCHANGED <<file, brief, at, session, tail, touched, shown, disturbed>>
  BY DEF Replace, Fault
<1>2. faults' \in 0..MaxFaults
  BY <1>1, Constants DEF IInv, TypeOK
<1>3. TypeOK'
  <2>1. {replaced', disturbed'} \subseteq BOOLEAN /\ partial' \in BOOLEAN
    BY <1>1 DEF IInv, TypeOK
  <2>2. sent' \in [ProseLines -> 0..2]
    BY <1>1
  <2> QED
    BY <1>1, <1>2, <2>1, <2>2 DEF IInv, TypeOK
<1>4. FileOK' /\ TailOK' /\ CursorsOK' /\ NothingSkipped' /\ CopiesNotAhead' /\ TailUnsent'
  BY <1>1 DEF IInv, FileOK, TailOK, CursorsOK, NothingSkipped, CopiesNotAhead, TailUnsent
<1>5. OneCurrent'
  BY <1>1 DEF IInv, OneCurrent, Current, Running, read_session
<1> QED
  BY <1>3, <1>4, <1>5 DEF IInv

LEMMA BriefChangesKeeps ==
  ASSUME IInv, BriefChanges
  PROVE  IInv'
<1>1. /\ brief' \in Briefs
      /\ UNCHANGED <<file, length, partial, replaced, at, session, tail, faults, sent,
                     touched, shown, disturbed>>
  BY DEF BriefChanges, transcriptVars
<1>2. TypeOK' /\ FileOK' /\ TailOK' /\ CursorsOK'
  BY <1>1 DEF IInv, TypeOK, FileOK, TailOK, CursorsOK
<1>3. NothingSkipped' /\ CopiesNotAhead' /\ TailUnsent'
  BY <1>1 DEF IInv, NothingSkipped, CopiesNotAhead, TailUnsent, Ahead
<1>4. OneCurrent'
  BY <1>1 DEF IInv, OneCurrent, Current, Running, read_session
<1> QED
  BY <1>2, <1>3, <1>4 DEF IInv

LEMMA StutterKeeps ==
  ASSUME IInv, UNCHANGED vars
  PROVE  IInv'
<1>1. TypeOK' /\ FileOK' /\ TailOK' /\ CursorsOK'
  BY DEF vars, IInv, TypeOK, FileOK, TailOK, CursorsOK
<1>2. NothingSkipped' /\ CopiesNotAhead' /\ TailUnsent'
  BY DEF vars, IInv, NothingSkipped, CopiesNotAhead, TailUnsent, Ahead
<1>3. OneCurrent'
  BY DEF vars, IInv, OneCurrent, Current, Running, read_session
<1> QED
  BY <1>1, <1>2, <1>3 DEF IInv

-------------------------------------------------------------------------------
(* The theorems.                                                            *)

LEMMA InitIInv == Init => IInv
<1> SUFFICES ASSUME Init PROVE IInv
  OBVIOUS
<1>1. /\ \A h \in Hooks : at[h] = "idle" /\ session[h] = Default
      /\ read_session = Default /\ ToSet(tail) = {}
  BY DEF Init, read_session, ToSet
<1>2. TypeOK
  <2>1. 0 \in 0..MaxLines /\ 0 \in 0..MaxFaults
    BY Constants
  <2>2. /\ session \in [Hooks -> SessionState] /\ sent \in [ProseLines -> 0..2]
        /\ \A h \in Hooks : Len(session[h].recent_files) <= MaxRecent
        /\ at \in [Hooks -> {"idle", "start", "prompt", "truncate", "write", "done"}]
    BY <1>1, DefaultIs DEF Init
  <2>3. {replaced, disturbed} \subseteq BOOLEAN /\ partial \in BOOLEAN
    BY DEF Init
  <2> QED
    BY <2>1, <2>2, <2>3 DEF Init, TypeOK
<1>3. FileOK /\ TailOK /\ CursorsOK
  BY <1>1, DefaultIs DEF Init, FileOK, TailOK, CursorsOK
<1>4. NothingSkipped /\ CopiesNotAhead
  BY <1>1, DefaultIs, Constants DEF Init, NothingSkipped, CopiesNotAhead, Ahead
<1>5. Current(read_session)
  <2>1. IsLatest(<<>>, <<>>)
    BY DEF IsLatest, ToSet
  <2>2. Default.brief_hash = NoBrief /\ Default.recent_files = <<>>
    BY DEF Default
  <2> QED
    BY <1>1, <2>1, <2>2 DEF Init, Current
<1>6. OneCurrent
  BY <1>1, <1>5 DEF OneCurrent, Running
<1>7. TailUnsent
  <2>1. IsInjective(<<>>)
    BY DEF IsInjective
  <2> QED
    BY <1>1, <2>1 DEF Init, TailUnsent
<1> QED
  BY <1>2, <1>3, <1>4, <1>6, <1>7 DEF IInv

LEMMA NextIInv == IInv /\ [Next]_vars => IInv'
<1> SUFFICES ASSUME IInv, [Next]_vars PROVE IInv'
  OBVIOUS
<1> USE Constants
<1>1. CASE SessionStart
  BY <1>1, SessionStartKeeps
<1>2. CASE UserPromptSubmit
  BY <1>2, UserPromptSubmitKeeps
<1>3. CASE Capture
  BY <1>3, CaptureKeeps
<1>4. CASE BriefAtStart
  BY <1>4, BriefAtStartKeeps
<1>5. CASE BriefAtPrompt
  BY <1>5, BriefAtPromptKeeps
<1>6. CASE \E h \in ToolHooks : PostToolUse(h)
  BY <1>6, PostToolUseKeeps
<1>7. CASE \E h \in Hooks : Truncate(h)
  BY <1>7, TruncateKeeps
<1>8. CASE \E h \in Hooks : Write(h)
  BY <1>8, WriteKeeps
<1>9. CASE \E h \in Hooks : Killed(h)
  BY <1>9, KilledKeeps
<1>10. CASE Append1
  BY <1>10, Append1Keeps
<1>11. CASE Replace
  BY <1>11, ReplaceKeeps
<1>12. CASE BriefChanges
  BY <1>12, BriefChangesKeeps
<1>13. CASE UNCHANGED vars
  BY <1>13, StutterKeeps
<1> QED
  BY <1>1, <1>2, <1>3, <1>4, <1>5, <1>6, <1>7, <1>8, <1>9, <1>10, <1>11, <1>12, <1>13
  DEF Next, TurnStep, ToolStep

(* Nothing before a cursor was left unsent, in the file or in any hook's    *)
(* copy but for what is in hand; and as long as hooks follow one another,   *)
(* the next one reads what the last one wrote (daemon.rs, main.rs).         *)
THEOREM Invariance == Spec => []IInv
<1>1. Init => IInv
  BY InitIInv
<1>2. IInv /\ [Next]_vars => IInv'
  BY NextIInv
<1> QED
  BY <1>1, <1>2, PTL DEF Spec

LEMMA IInvGivesInv == IInv => Inv
<1> SUFFICES ASSUME IInv PROVE Inv
  OBVIOUS
<1>1. TypeOK /\ NothingSkipped
  BY DEF IInv
<1>2. SentOnce
  BY DEF IInv, TailUnsent, SentOnce
<1>3. RecentFilesAreRecent
  BY DEF IInv, OneCurrent, Current, read_session, RecentFilesAreRecent
<1> QED
  BY <1>1, <1>2, <1>3 DEF Inv

(* What the shared file promises without a lock: whatever hooks overlap,    *)
(* die or find it torn, no prose is skipped; and while they follow one      *)
(* another each text is sent once and the recent files are the last ones    *)
(* touched (read_session and write_session in daemon.rs).                   *)
THEOREM SharedFileIsGood == Spec => []Inv
  BY Invariance, IInvGivesInv, PTL

LEMMA IInvGivesBrief ==
  IInv /\ [Next]_vars => [BriefAtPrompt /\ session' # session /\ ~disturbed => shown' # shown]_vars
<1> SUFFICES ASSUME IInv, BriefAtPrompt, session' # session, ~disturbed PROVE shown' # shown
  OBVIOUS
<1>1. session[Turn].brief_hash = shown
  <2>1. Running(Turn) /\ Turn \in Hooks
    BY Constants DEF BriefAtPrompt, Running
  <2> QED
    BY <2>1 DEF IInv, OneCurrent, Current
<1>2. PICK b \in {brief, NoBrief} :
        IF b \in {NoBrief, session[Turn].brief_hash} THEN UNCHANGED <<session, shown>> ELSE Inject(b)
  BY DEF BriefAtPrompt
<1>3. b # session[Turn].brief_hash /\ shown' = b
  BY <1>2 DEF Inject
<1> QED
  BY <1>1, <1>3

(* A prompt does not put the same brief into the context twice in a row,    *)
(* whoever injected it, as long as hooks follow one another: the hash the   *)
(* copy carries is that of the last brief shown (main.rs,                   *)
(* handle_user_prompt_submit).                                              *)
THEOREM NoBriefTwice == Spec => BriefOnlyWhenChanged
<1>1. IInv /\ [Next]_vars => [BriefAtPrompt /\ session' # session /\ ~disturbed => shown' # shown]_vars
  BY IInvGivesBrief
<1> QED
  BY <1>1, Invariance, PTL DEF Spec, BriefOnlyWhenChanged
===============================================================================
