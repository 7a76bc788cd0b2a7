----------------------------- MODULE HookSession -----------------------------
(***************************************************************************)
(* What the hooks of one Claude Code session keep between them: the file    *)
(* session-<sid>.json with the transcript cursor, the recently touched      *)
(* files and the hash of the last brief (armin-core/hook/src/main.rs,       *)
(* daemon.rs and transcript.rs).                                            *)
(*                                                                          *)
(* Every hook is a process of its own that reads the file, works, and       *)
(* writes it back; no lock is held.  SessionStart and UserPromptSubmit      *)
(* block the turn, so at most one of them runs (`Turn`); PostToolUse hooks *)
(* are async and run beside it and beside each other.  Writing truncates    *)
(* the file first.  A hook may be killed.                                   *)
(*                                                                          *)
(* The transcript is a file of lines that the session appends to; its byte  *)
(* offsets are line numbers here.  A line may hold assistant prose.         *)
(***************************************************************************)
EXTENDS Naturals, Sequences, SequencesExt

CONSTANTS
  Turn,        \* the process of the blocking hooks
  ToolHooks,    \* the PostToolUse hooks (a bound: each runs once)
  MaxLines,     \* length of the transcript (a bound)
  ProseLines,   \* the lines that hold assistant prose
  MaxTexts,     \* MAX_TRANSCRIPT_EVENTS
  Files,        \* file names
  Touches,      \* the lists of files a tool call may name
  MaxRecent,    \* MAX_RECENT_FILES
  Briefs,       \* briefs the engine may give
  MaxFaults,    \* kills, failing calls, replaced transcripts (a bound)
  NoBrief,      \* no brief, or the empty hash
  Garbled       \* the file does not parse: it is empty, or torn

Hooks == {Turn} \cup ToolHooks

SessionState == [cursor : 0..MaxLines, recent_files : Seq(Files),
                 brief_hash : Briefs \cup {NoBrief}]
Default == [cursor |-> 0, recent_files |-> <<>>, brief_hash |-> NoBrief]

ASSUME SessionAssumption ==
  /\ Turn \notin ToolHooks
  /\ MaxLines \in Nat /\ ProseLines \subseteq 1..MaxLines
  /\ MaxTexts \in Nat \ {0} /\ MaxRecent \in Nat /\ MaxFaults \in Nat
  /\ NoBrief \notin Briefs /\ Garbled \notin SessionState
  /\ Touches \subseteq Seq(Files)
  \* no tool names a file twice: `dedup` would drop neighbours only
  /\ \A files \in Touches : IsInjective(files)

VARIABLES
  file,      \* session-<sid>.json
  length,    \* complete lines of the transcript
  partial,   \* a further line is partly written
  brief,     \* the engine's brief at the moment
  at,        \* at[h]: where the hook is
  session,   \* session[h]: what the hook has read, and will write
  tail,      \* the lines Turn has still to send
  \* history
  faults,
  sent,      \* sent[i]: how often the prose of line i was sent (up to 2)
  touched,   \* the files tool hooks touched, latest first, until hooks overlap
  shown,     \* the last brief put into the context
  replaced,  \* the transcript was replaced by another
  disturbed  \* hooks overlapped, or one was killed

vars == <<file, length, partial, brief, at, session, tail,
          faults, sent, touched, shown, replaced, disturbed>>
transcriptVars == <<length, partial, replaced>>

TypeOK ==
  /\ file \in SessionState \cup {Garbled}
  /\ length \in 0..MaxLines /\ partial \in BOOLEAN
  /\ brief \in Briefs \cup {NoBrief}
  /\ at \in [Hooks -> {"idle", "start", "prompt", "truncate", "write", "done"}]
  /\ session \in [Hooks -> SessionState]
  /\ \A h \in Hooks : Len(session[h].recent_files) <= MaxRecent
  /\ tail \in Seq(ProseLines)
  /\ faults \in 0..MaxFaults
  /\ sent \in [ProseLines -> 0..2]
  /\ touched \in Seq(Files)
  /\ shown \in Briefs \cup {NoBrief}
  /\ {replaced, disturbed} \subseteq BOOLEAN

Init ==
  /\ file = Garbled
  /\ length = 0 /\ partial = FALSE
  /\ brief = NoBrief
  /\ at = [h \in Hooks |-> "idle"]
  /\ session = [h \in Hooks |-> Default]
  /\ tail = <<>>
  /\ faults = 0
  /\ sent = [i \in ProseLines |-> 0]
  /\ touched = <<>>
  /\ shown = NoBrief
  /\ replaced = FALSE /\ disturbed = FALSE

Ended(h) == IF h = Turn THEN "idle" ELSE "done"
Go(h, place) == at' = [at EXCEPT ![h] = place]
Fault == faults < MaxFaults /\ faults' = faults + 1
Running(h) == at[h] \notin {"idle", "done"}

-------------------------------------------------------------------------------
(* What every hook does.                                                    *)

(* read_session: what cannot be read is the default.                        *)
read_session == IF file = Garbled THEN Default ELSE file

From(cursor) == IF length < cursor THEN 0 ELSE cursor

(* From line to line until there are max_texts texts: the prose among the   *)
(* lines, and the last line that was read.                                  *)
read_lines(start, end) ==
  LET read[line \in start..end] ==
        IF line = start THEN [texts |-> <<>>, new_cursor |-> start]
        ELSE LET r == read[line - 1] IN
             IF Len(r.texts) = MaxTexts THEN r
             ELSE [texts |-> IF line \in ProseLines THEN Append(r.texts, line) ELSE r.texts,
                   new_cursor |-> line]
  IN  read[end]

(* Mutant: the last line is left for the next time, always.                 *)
ReadButLast(cursor) ==
  LET start == From(cursor)
  IN  read_lines(start, IF start < length THEN length - 1 ELSE length)

(* Mutant: the partly written line is taken for complete.                   *)
ReadPartial(cursor) ==
  [read_lines(From(cursor), length) EXCEPT
     !.new_cursor = IF partial THEN length + 1 ELSE length]

(* transcript::read_new: the prose of the complete lines after the cursor;  *)
(* from the start if the file has shrunk below the cursor.                  *)
read_new(cursor) == read_lines(From(cursor), length)

(* Another hook has read the file and not written it back yet.              *)
Overlaps(h) == \E g \in Hooks \ {h} : Running(g)

(* SessionStart, once the daemon is ensured.  (Without a daemon no hook     *)
(* does anything: for Turn that is no step.)                                *)
SessionStart ==
  /\ at[Turn] = "idle"
  /\ session' = [session EXCEPT ![Turn] = read_session]
  /\ Go(Turn, "start")
  /\ disturbed' = (disturbed \/ Overlaps(Turn))
  /\ UNCHANGED <<file, transcriptVars, brief, tail, faults, sent, touched, shown>>

(* UserPromptSubmit sends what is new in the transcript.                    *)
UserPromptSubmit ==
  /\ at[Turn] = "idle"
  /\ LET s == read_session
         new == read_new(s.cursor)
     IN  /\ session' = [session EXCEPT ![Turn] = [s EXCEPT !.cursor = new.new_cursor]]
         /\ tail' = new.texts
  /\ Go(Turn, "prompt")
  /\ disturbed' = (disturbed \/ Overlaps(Turn))
  /\ UNCHANGED <<file, transcriptVars, brief, faults, sent, touched, shown>>

(* capture, fire and forget: the engine may or may not take it.             *)
Capture ==
  /\ at[Turn] = "prompt"
  /\ tail # <<>>
  /\ sent' = [sent EXCEPT ![Head(tail)] = IF @ < 2 THEN @ + 1 ELSE @]
  /\ tail' = Tail(tail)
  /\ UNCHANGED <<file, transcriptVars, brief, at, session, faults,
                 touched, shown, disturbed>>

(* fetch_brief: a call that fails gives no brief.                           *)
Fetch(b) == \/ b = brief /\ UNCHANGED faults
            \/ b = NoBrief /\ brief # NoBrief /\ Fault

Inject(b) == /\ shown' = b
             /\ session' = [session EXCEPT ![Turn].brief_hash = b]

(* Mutant: the hash of what a session starts with is not kept.              *)
BriefUnhashed ==
  /\ at[Turn] = "start"
  /\ \E b \in {brief, NoBrief} :
       /\ Fetch(b)
       /\ IF b = NoBrief
          THEN Go(Turn, "idle") /\ UNCHANGED shown
          ELSE Go(Turn, "truncate") /\ shown' = b
  /\ UNCHANGED <<file, transcriptVars, brief, session, tail, sent, touched, disturbed>>

(* SessionStart always injects a brief, and writes nothing without one.     *)
BriefAtStart ==
  /\ at[Turn] = "start"
  /\ \E b \in {brief, NoBrief} :
       /\ Fetch(b)
       /\ IF b = NoBrief
          THEN /\ Go(Turn, "idle")
               /\ session' = [session EXCEPT ![Turn] = Default]
               /\ UNCHANGED shown
          ELSE Go(Turn, "truncate") /\ Inject(b)
  /\ UNCHANGED <<file, transcriptVars, brief, tail, sent, touched, disturbed>>

(* UserPromptSubmit injects a brief whose hash is not the last one's.       *)
BriefAtPrompt ==
  /\ at[Turn] = "prompt"
  /\ tail = <<>>
  /\ \E b \in {brief, NoBrief} :
       /\ Fetch(b)
       /\ IF b \in {NoBrief, session[Turn].brief_hash}
          THEN UNCHANGED <<session, shown>>
          ELSE Inject(b)
  /\ Go(Turn, "truncate")
  /\ UNCHANGED <<file, transcriptVars, brief, tail, sent, touched, disturbed>>

(* Vec::retain: what is not among the files.                                *)
retain(recent, files) ==
  LET kept[n \in 0..Len(recent)] ==
        IF n = 0 THEN <<>>
        ELSE IF recent[n] \in ToSet(files) THEN kept[n - 1]
        ELSE Append(kept[n - 1], recent[n])
  IN  kept[Len(recent)]

UpTo(s, n) == SubSeq(s, 1, IF Len(s) < n THEN Len(s) ELSE n)

(* The ring of recent files: `files` come first, in their order.            *)
Ring(files, recent) == UpTo(files \o retain(recent, files), MaxRecent)

(* PostToolUse: reads, adds the files, captures the call.                   *)
PostToolUse(h) ==
  /\ at[h] = "idle"
  /\ disturbed' = (disturbed \/ Overlaps(h))
  /\ \E files \in Touches :
       /\ session' = [session EXCEPT ![h] =
            [read_session EXCEPT !.recent_files = Ring(files, @)]]
       /\ touched' = IF disturbed' THEN <<>> ELSE files \o touched
  /\ Go(h, "truncate")
  /\ UNCHANGED <<file, transcriptVars, brief, tail, faults, sent, shown>>

(* write_session is std::fs::write: it truncates, then writes.              *)
Truncate(h) ==
  /\ at[h] = "truncate"
  /\ file' = Garbled
  /\ Go(h, "write")
  /\ UNCHANGED <<transcriptVars, brief, session, tail, faults, sent,
                 touched, shown, disturbed>>

(* Another hook may have written since: its longer text shows at the end.   *)
Write(h) ==
  /\ at[h] = "write"
  /\ file' \in IF file = Garbled THEN {session[h]} ELSE {session[h], Garbled}
  /\ Go(h, Ended(h))
  /\ session' = [session EXCEPT ![h] = Default]
  /\ UNCHANGED <<transcriptVars, brief, tail, faults, sent,
                 touched, shown, disturbed>>

Killed(h) ==
  /\ Running(h)
  /\ Fault
  /\ Go(h, Ended(h))
  /\ disturbed' = TRUE
  /\ session' = [session EXCEPT ![h] = Default]
  /\ tail' = IF h = Turn THEN <<>> ELSE tail
  /\ UNCHANGED <<file, transcriptVars, brief, sent, touched, shown>>

-------------------------------------------------------------------------------
(* The session writes its transcript; the engine's brief changes.           *)

Append1 ==
  /\ length < MaxLines
  /\ \/ partial = FALSE /\ partial' = TRUE /\ UNCHANGED length
     \/ partial' = FALSE /\ length' = length + 1
  /\ UNCHANGED <<file, replaced, brief, at, session, tail, faults, sent,
                 touched, shown, disturbed>>

(* Another transcript under the same name: its lines are all new.           *)
Replace ==
  /\ Fault
  /\ length' \in 0..MaxLines
  /\ partial' = FALSE
  /\ replaced' = TRUE
  /\ sent' = [i \in ProseLines |-> 0]
  /\ UNCHANGED <<file, brief, at, session, tail, touched, shown, disturbed>>

(* Once there is memory there is a brief, of one content or another.        *)
BriefChanges ==
  /\ brief' \in Briefs \ {brief}
  /\ UNCHANGED <<file, transcriptVars, at, session, tail, faults, sent,
                 touched, shown, disturbed>>

TurnStep == Capture \/ BriefAtStart \/ BriefAtPrompt \/ Truncate(Turn) \/ Write(Turn)
ToolStep(h) == Truncate(h) \/ Write(h)

Next == \/ SessionStart \/ UserPromptSubmit \/ TurnStep
        \/ \E h \in ToolHooks : PostToolUse(h) \/ ToolStep(h)
        \/ \E h \in Hooks : Killed(h)
        \/ Append1 \/ Replace \/ BriefChanges

(* Fairness: a hook that runs goes on (each of its calls has a timeout).    *)
(* Nothing makes a hook start or a transcript grow.                         *)
Fairness == WF_vars(TurnStep) /\ \A h \in ToolHooks : WF_vars(ToolStep(h))

Spec == Init /\ [][Next]_vars /\ Fairness

-------------------------------------------------------------------------------
(* Properties.                                                              *)

(* The cursor never runs ahead of what was sent: of a transcript that is    *)
(* only appended to, all prose before the cursor was sent, however hooks    *)
(* overlap, die, or find the file torn.                                     *)
Ahead(s) == \E i \in ProseLines : i <= s.cursor /\ sent[i] = 0
NothingSkipped == ~replaced /\ file # Garbled => ~Ahead(file)

(* Hooks that follow one another send every text once at most, though lines *)
(* are only partly written when they read.                                  *)
SentOnce == ~replaced /\ ~disturbed => \A i \in ProseLines : sent[i] <= 1

(* And then the recent files are the last ones touched, each once, in the   *)
(* order of their last touch; only a full list leaves one out.              *)
FirstAt(f, files) ==
  CHOOSE i \in DOMAIN files : files[i] = f /\ \A j \in DOMAIN files : files[j] = f => i <= j
IsLatest(recent, files) ==
  /\ ToSet(recent) \subseteq ToSet(files)
  /\ \A i, j \in DOMAIN recent : i < j => FirstAt(recent[i], files) < FirstAt(recent[j], files)
  /\ \A f \in ToSet(files) \ ToSet(recent) :
       /\ Len(recent) = MaxRecent
       /\ \A g \in ToSet(recent) : FirstAt(g, files) < FirstAt(f, files)
RecentFilesAreRecent ==
  ~disturbed /\ (\A h \in Hooks : ~Running(h)) /\ file # Garbled =>
    IsLatest(file.recent_files, touched)

(* What the shared file is good for, however hooks overlap, and while they  *)
(* do not.                                                                  *)
Inv == TypeOK /\ NothingSkipped /\ SentOnce /\ RecentFilesAreRecent

(* The prose of the transcript is sent in the end, if prompts keep coming   *)
(* and find an engine: races delay it only.                                 *)
CaughtUp == replaced \/ \A i \in ProseLines : i <= length => sent[i] > 0
EveryTextSent == []<>(at[Turn] = "prompt") => []<>CaughtUp

(* "Inject the brief - only when it changed, so the transcript does not     *)
(* accumulate duplicate copies": while hooks follow one another, what a     *)
(* prompt injects is not what was injected last, by a prompt or at a start. *)
BriefOnlyWhenChanged ==
  [][BriefAtPrompt /\ session' # session /\ ~disturbed => shown' # shown]_vars
===============================================================================
