-------------------------------- MODULE Scratch --------------------------------
(***************************************************************************)
(* The scratch layer (armin-core/engine/src/toolclass.rs): what the tool    *)
(* calls of recent sessions changed and checked, and the debt detectors     *)
(* that read it (armin-core/graph/src/debt.rs).                             *)
(*                                                                          *)
(* A session has two ring buffers, edits and checks; the least recently     *)
(* active session is evicted when there are too many.  Every call holds the *)
(* write lock, so that calls follow one another; but their timestamps come  *)
(* from the clients, which report in whole seconds and may report late.     *)
(* Calls of class Read leave no trace and are left out.                     *)
(***************************************************************************)
EXTENDS Naturals, Sequences, SequencesExt, FiniteSets

CONSTANTS
  Sessions,
  Files,
  ToolEvents,   \* the classified tool calls that may come
  RuleFiles,    \* the file sets of the active rules
  MaxEntries,   \* MAX_ENTRIES
  MaxSessions,  \* MAX_SESSIONS
  MaxEvents     \* length of the log (a bound)

ScratchAssumption ==
  /\ MaxEntries \in Nat \ {0} /\ MaxSessions \in Nat \ {0} /\ MaxEvents \in Nat
  /\ RuleFiles \subseteq SUBSET Files
  /\ ToolEvents \subseteq [session : Sessions, class : {"Write", "Check"},
                           files : SUBSET Files, passed : BOOLEAN, timestamp : Nat]
ASSUME ScratchAssumption

VARIABLES
  scratch,  \* scratch[s]: the ring buffers of session s, empty if it has none
  lru,      \* session ids, least recently active first
  log       \* history: every tool call since the engine started

vars == <<scratch, lru, log>>

Empty == [edits |-> <<>>, checks |-> <<>>]

TypeOK ==
  /\ \A s \in Sessions :
       /\ scratch[s].edits  \in Seq({e \in ToolEvents : e.class = "Write"})
       /\ scratch[s].checks \in Seq({e \in ToolEvents : e.class = "Check"})
       /\ Len(scratch[s].edits) <= MaxEntries /\ Len(scratch[s].checks) <= MaxEntries
  /\ lru \in Seq(Sessions) /\ Len(lru) <= MaxSessions
  /\ \A s \in Sessions : scratch[s] # Empty => s \in ToSet(lru)
  /\ log \in Seq(ToolEvents)

Init ==
  /\ scratch = [s \in Sessions |-> Empty]
  /\ lru = <<>>
  /\ log = <<>>

LastOf(seq, n) == SubSeq(seq, IF Len(seq) > n THEN Len(seq) - n + 1 ELSE 1, Len(seq))

-------------------------------------------------------------------------------
(* Recording.                                                               *)

(* Mutant: a session that is known keeps its place.                         *)
session_mut_fifo(session) ==
  IF session \in ToSet(lru) THEN lru ELSE LastOf(Append(lru, session), MaxSessions)

Without(list, x) ==
  IF x \in ToSet(list) THEN RemoveAt(list, CHOOSE pos \in DOMAIN list : list[pos] = x) ELSE list

(* The session becomes the most recently active one.                        *)
session_mut(session) ==
  IF lru # <<>> /\ Last(lru) = session THEN lru
  ELSE LastOf(Append(Without(lru, session), session), MaxSessions)

Push(ring, entry) == LastOf(Append(ring, entry), MaxEntries)

record_tool_event(e) ==
  /\ Len(log) < MaxEvents
  /\ lru' = session_mut(e.session)
  /\ scratch' = [s \in Sessions |->
       IF s = e.session
       THEN IF e.class = "Write"
            THEN [scratch[s] EXCEPT !.edits = Push(@, e)]
            ELSE [scratch[s] EXCEPT !.checks = Push(@, e)]
       ELSE IF s \in ToSet(lru') THEN scratch[s] ELSE Empty]
  /\ log' = Append(log, e)

(* The scratch dies with the engine.                                        *)
Restart == scratch' = [s \in Sessions |-> Empty] /\ lru' = <<>> /\ log' = <<>>

Next == Restart \/ \E e \in ToolEvents : record_tool_event(e)

Spec == Init /\ [][Next]_vars

-------------------------------------------------------------------------------
(* The detectors of compute_debt.                                           *)

files_overlap(a, b) == a.files \cap b.files # {}

(* Mutant: a check counts for every file.                                   *)
VerifiedByAny(edit, checks) ==
  \E c \in ToSet(checks) : c.timestamp >= edit.timestamp

Verified(edit, checks) ==
  \E c \in ToSet(checks) : c.timestamp >= edit.timestamp /\ files_overlap(c, edit)

UnverifiedChanges(snap) ==
  {e \in ToSet(snap.edits) : e.files # {} /\ ~Verified(e, snap.checks)}

(* Mutant: the check that came first decides.                               *)
first_check(checks, f) ==
  checks[CHOOSE i \in DOMAIN checks :
           /\ f \in checks[i].files
           /\ \A j \in DOMAIN checks : f \in checks[j].files => i <= j]

(* Of the checks of a file the one with the latest timestamp; of several    *)
(* with the same, the one that came first.                                  *)
latest_check(checks, f) ==
  checks[CHOOSE i \in DOMAIN checks :
           /\ f \in checks[i].files
           /\ \A j \in DOMAIN checks : f \in checks[j].files =>
                \/ checks[j].timestamp < checks[i].timestamp
                \/ checks[j].timestamp = checks[i].timestamp /\ i <= j]

Fixed(check, edits) ==
  \E e \in ToSet(edits) : e.timestamp >= check.timestamp /\ files_overlap(e, check)

FailedVerifications(snap) ==
  LET checked == UNION {c.files : c \in ToSet(snap.checks)}
      latest  == {latest_check(snap.checks, f) : f \in checked}
  IN  {c \in latest : ~c.passed /\ ~Fixed(c, snap.edits)}

(* The failed checks on files under a rule (rules without files have none). *)
RuleViolations(snap) ==
  {c \in ToSet(snap.checks) : ~c.passed /\ \E r \in RuleFiles : r \cap c.files # {}}

-------------------------------------------------------------------------------
(* Properties.  They are about the log: position i is the i-th call.        *)

(* After call i its session was idle while MaxSessions others were active.  *)
Forgotten(i) ==
  \E a, b \in i+1..Len(log) :
    LET active == {log[q].session : q \in a..b}
    IN  log[i].session \notin active /\ Cardinality(active) >= MaxSessions

Calls(s, class) ==
  {i \in DOMAIN log : log[i].session = s /\ log[i].class = class /\ ~Forgotten(i)}
Since(i, s, class) == {k \in Calls(s, class) : k > i}
Window(s, class) == {i \in Calls(s, class) : Cardinality(Since(i, s, class)) < MaxEntries}

(* The ring holds the window in order: entry n is the call at[n].           *)
InWindow(ring, s, class) ==
  LET window == Window(s, class)
  IN  \E at \in [DOMAIN ring -> window] :
        /\ \A n \in DOMAIN ring : ring[n] = log[at[n]]
        /\ \A m, n \in DOMAIN ring : m < n => at[m] < at[n]
        /\ \A i \in window : \E n \in DOMAIN ring : at[n] = i

(* The scratch of a session is a window of the log: the latest edits and    *)
(* checks since it was last evicted, in order; and it is evicted exactly    *)
(* when MaxSessions other sessions were active since it was.                *)
ScratchIsWindow ==
  \A s \in Sessions : /\ InWindow(scratch[s].edits, s, "Write")
                      /\ InWindow(scratch[s].checks, s, "Check")

Inv == TypeOK /\ ScratchIsWindow

TimesGrow(s) ==
  \A i, j \in DOMAIN log : i < j /\ log[i].session = s /\ log[j].session = s =>
    log[i].timestamp < log[j].timestamp

(* Where timestamps grow, the edits reported are those that no check of     *)
(* their files followed, as far as edits and checks are kept: a check that  *)
(* came before an edit does not verify it, and one that came after does,    *)
(* whatever was evicted or recorded in between.                             *)
UnverifiedIsUnchecked ==
  \A s \in Sessions : TimesGrow(s) =>
    UnverifiedChanges(scratch[s]) =
      {log[i] : i \in {i \in Window(s, "Write") :
                         /\ log[i].files # {}
                         /\ \A k \in Window(s, "Check") \cap Since(i, s, "Check") :
                              ~files_overlap(log[k], log[i])}}

LastCheckOf(s, f) ==
  {i \in Window(s, "Check") : /\ f \in log[i].files
                              /\ \A j \in Since(i, s, "Check") : f \notin log[j].files}

(* Where timestamps grow, a failure is reported exactly while its check is  *)
(* the last one of a file and no later edit, as far as edits are kept,      *)
(* touched any of the check's files; and, if a file is under a rule, the    *)
(* rule is reported with it.  (Within one second the first check counts.)   *)
FailuresAreCurrent ==
  \A s \in Sessions :
    LET reported == FailedVerifications(scratch[s])
    IN  /\ TimesGrow(s) =>
             reported =
               {log[i] : i \in {i \in UNION {LastCheckOf(s, f) : f \in Files} :
                                  /\ ~log[i].passed
                                  /\ \A k \in Window(s, "Write") \cap Since(i, s, "Write") :
                                       ~files_overlap(log[k], log[i])}}
        /\ {c \in reported : \E r \in RuleFiles : r \cap c.files # {}}
             \subseteq RuleViolations(scratch[s])
===============================================================================
