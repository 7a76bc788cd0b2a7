------------------------------ MODULE HookDaemon ------------------------------
(***************************************************************************)
(* The engine daemon of a project, kept by hook processes                   *)
(* (armin-core/hook/src/daemon.rs).  Every hook runs `ensure`: under a file *)
(* lock it looks for the engine recorded in engine.json, and if none of its *)
(* own version answers, tells the recorded process to stop and starts a new *)
(* engine on the same database.                                             *)
(*                                                                          *)
(* Hooks of several sessions, also of different plugin versions, run at the *)
(* same time.  A hook may be killed at any point (Claude Code's hook        *)
(* timeout); an engine lives on without the hook that started it.  The      *)
(* engine (armin-core/engine/src/main.rs) is here only as far as a hook can *)
(* tell: it opens the database, whose lock is exclusive, binds its port,    *)
(* prints the handshake, and on SIGTERM drains before it lets go.           *)
(***************************************************************************)
EXTENDS Naturals, FiniteSets

CONSTANTS
  Hooks,        \* hook processes; each stands for one invocation after another
  VersionOf,    \* VersionOf[h]: HOOK_VERSION of h's plugin
  PinnedHooks,  \* hooks that run with ARMIN_PORT set
  Ports,        \* the ports of the machine
  ARMIN_PORT,   \* the one that is pinned
  Pids,         \* process ids (a bound on how many processes exist at a time)
  MaxFaults,    \* kills, timeouts and failing writes (a bound)
  Nobody        \* no hook, no process, no port, no engine.json

(* engine.json.  The token is left out: only the engine it was made for     *)
(* takes it.                                                                *)
EngineState == [pid : Pids, port : Ports, version : {VersionOf[h] : h \in Hooks}]

ASSUME DaemonAssumption ==
  /\ PinnedHooks \subseteq Hooks
  /\ ARMIN_PORT \in Ports
  /\ Nobody \notin Hooks \cup Pids \cup Ports \cup EngineState
  /\ MaxFaults \in Nat

VARIABLES
  at,         \* at[h]: where h is in ensure
  holder,     \* who has the lock on .engine.lock
  child,      \* child[h]: the engine h waits for
  told,       \* told[h]: the port in its handshake
  rec,        \* engine.json
  failed,     \* the pinned-failed marker exists
  proc,       \* proc[p]: the process with id p
  port,       \* port[p]: the port the engine was given, or has taken
  printed,    \* printed[p]: the port in the handshake in the pipe to its hook
  port_taken, \* another program listens on the pinned port
  faults,     \* how many faults there were
  abandoned   \* history: a hook died, or could not record its engine

hookVars   == <<at, holder, child, told>>
fileVars   == <<rec, failed>>
engineVars == <<proc, port, printed>>
worldVars  == <<port_taken, faults, abandoned>>
vars == <<hookVars, fileVars, engineVars, worldVars>>

Places == {"idle", "lock", "check", "kill", "pinned", "auto",
           "wait_pinned", "wait_auto", "record", "served"}

TypeOK ==
  /\ at \in [Hooks -> Places]
  /\ holder \in Hooks \cup {Nobody}
  /\ child \in [Hooks -> Pids \cup {Nobody}]
  /\ told \in [Hooks -> Ports \cup {Nobody}]
  /\ rec \in EngineState \cup {Nobody}
  /\ failed \in BOOLEAN
  /\ proc \in [Pids -> {"none", "starting", "open", "up", "draining", "stranger"}]
  /\ port \in [Pids -> Ports \cup {Nobody}]
  /\ printed \in [Pids -> Ports \cup {Nobody}]
  /\ port_taken \in BOOLEAN
  /\ faults \in 0..MaxFaults
  /\ abandoned \in BOOLEAN

Init ==
  /\ at = [h \in Hooks |-> "idle"]
  /\ holder = Nobody
  /\ child = [h \in Hooks |-> Nobody]
  /\ told = [h \in Hooks |-> Nobody]
  /\ rec = Nobody
  /\ failed = FALSE
  /\ proc = [p \in Pids |-> "none"]
  /\ port = [p \in Pids |-> Nobody]
  /\ printed = [p \in Pids |-> Nobody]
  /\ port_taken \in BOOLEAN
  /\ faults = 0
  /\ abandoned = FALSE

Go(h, place) == at' = [at EXCEPT ![h] = place]
Become(p, state) == proc' = [proc EXCEPT ![p] = state] /\ UNCHANGED port
Exits(p) == proc' = [proc EXCEPT ![p] = "none"] /\ port' = [port EXCEPT ![p] = Nobody]
Fault == faults < MaxFaults /\ faults' = faults + 1
Recorded(p) == rec # Nobody /\ rec.pid = p
Awaited(p) == \E h \in Hooks : child[h] = p

-------------------------------------------------------------------------------
(* ensure.                                                                  *)

Enter(h) ==
  /\ at[h] = "idle"
  /\ Go(h, "lock")
  /\ UNCHANGED <<holder, child, told, fileVars, engineVars, worldVars>>

(* Mutant: the lock does not exclude.                                       *)
AcquireShared(h) ==
  /\ at[h] = "lock"
  /\ holder' = h
  /\ Go(h, "check")
  /\ UNCHANGED <<child, told, fileVars, engineVars, worldVars>>

Acquire(h) ==
  /\ at[h] = "lock"
  /\ holder = Nobody
  /\ holder' = h
  /\ Go(h, "check")
  /\ UNCHANGED <<child, told, fileVars, engineVars, worldVars>>

Return(h, place) == Go(h, place) /\ holder' = Nobody

(* The recorded engine is of this version and answers on its port: no other *)
(* listens there then, nor knows the token.                                 *)
Found(h) ==
  /\ at[h] = "check"
  /\ rec # Nobody
  /\ rec.version = VersionOf[h]
  /\ proc[rec.pid] = "up"
  /\ Return(h, "served")
  /\ UNCHANGED <<child, told, fileVars, engineVars, worldVars>>

(* It is of another version, or does not answer (a draining engine accepts  *)
(* no connection), or its answer takes longer than the probe waits.         *)
NotFound(h) ==
  /\ at[h] = "check"
  /\ rec # Nobody
  /\ \/ /\ rec.version # VersionOf[h] \/ proc[rec.pid] # "up"
        /\ UNCHANGED faults
     \/ Fault
  /\ Go(h, "kill")
  /\ UNCHANGED <<holder, child, told, fileVars, engineVars, port_taken, abandoned>>

Wanted(h) == IF h \in PinnedHooks /\ ~failed THEN "pinned" ELSE "auto"

NoRecord(h) ==
  /\ at[h] = "check"
  /\ rec = Nobody
  /\ Go(h, Wanted(h))
  /\ UNCHANGED <<holder, child, told, fileVars, engineVars, worldVars>>

(* Mutant: the old engine is left alone.                                    *)
KillNobody(h) ==
  /\ at[h] = "kill"
  /\ Go(h, Wanted(h))
  /\ UNCHANGED <<holder, child, told, fileVars, engineVars, worldVars>>

(* kill_pid: SIGTERM to whatever process has the recorded id.               *)
Kill(h) ==
  /\ at[h] = "kill"
  /\ Go(h, Wanted(h))
  /\ CASE proc[rec.pid] = "up"       -> Become(rec.pid, "draining")
       [] proc[rec.pid] = "stranger" -> Exits(rec.pid)
       [] OTHER                      -> UNCHANGED <<proc, port>>
  /\ UNCHANGED <<holder, child, told, fileVars, printed, worldVars>>

(* spawn_engine.  A process id is not given to a new engine while           *)
(* engine.json still names it; which free one it gets makes no difference.  *)
Spawn(h) ==
  /\ at[h] \in {"pinned", "auto"}
  /\ LET free == {p \in Pids : proc[p] = "none" /\ ~Recorded(p)}
         p == CHOOSE q \in free : TRUE
     IN  /\ free # {}
         /\ proc' = [proc EXCEPT ![p] = "starting"]
         /\ port' = [port EXCEPT ![p] = IF at[h] = "pinned" THEN ARMIN_PORT ELSE Nobody]
         /\ child' = [child EXCEPT ![h] = p]
  /\ Go(h, IF at[h] = "pinned" THEN "wait_pinned" ELSE "wait_auto")
  /\ UNCHANGED <<holder, told, fileVars, printed, worldVars>>

(* No binary, or it cannot be run: the next way is tried, if there is one.  *)
SpawnFails(h) ==
  /\ at[h] \in {"pinned", "auto"}
  /\ Fault
  /\ IF at[h] = "pinned" THEN Go(h, "auto") /\ UNCHANGED holder
                         ELSE Return(h, "idle")
  /\ UNCHANGED <<child, told, fileVars, engineVars, port_taken, abandoned>>

Waits(h) == at[h] \in {"wait_pinned", "wait_auto"}

Handshake(h) ==
  /\ Waits(h)
  /\ printed[child[h]] # Nobody
  /\ told' = [told EXCEPT ![h] = printed[child[h]]]
  /\ printed' = [printed EXCEPT ![child[h]] = Nobody]
  /\ Go(h, "record")
  /\ UNCHANGED <<holder, child, fileVars, proc, port, worldVars>>

(* Mutant: the pinned port is tried over and over.                          *)
RetryPinned(h) ==
  /\ child' = [child EXCEPT ![h] = Nobody]
  /\ IF at[h] = "wait_pinned"
     THEN Go(h, "pinned") /\ UNCHANGED <<holder, failed>>
     ELSE Return(h, "idle") /\ UNCHANGED failed
  /\ UNCHANGED <<told, rec, port_taken, abandoned>>

(* No handshake: after a pinned attempt the failure is remembered and the   *)
(* engine is started again on a port of its choice; else there is none.     *)
StartFailed(h) ==
  /\ child' = [child EXCEPT ![h] = Nobody]
  /\ IF at[h] = "wait_pinned"
     THEN Go(h, "auto") /\ failed' = TRUE /\ UNCHANGED holder
     ELSE Return(h, "idle") /\ UNCHANGED failed
  /\ UNCHANGED <<told, rec, port_taken, abandoned>>

(* The engine exited before it printed a port.                              *)
NoHandshake(h) ==
  /\ Waits(h)
  /\ proc[child[h]] = "none"
  /\ printed[child[h]] = Nobody
  /\ StartFailed(h)
  /\ UNCHANGED <<engineVars, faults>>

(* HANDSHAKE_TIMEOUT_MS passed: the engine is killed outright.              *)
HandshakeTimeout(h) ==
  /\ Waits(h)
  /\ Fault
  /\ printed' = [printed EXCEPT ![child[h]] = Nobody]
  /\ Exits(child[h])
  /\ StartFailed(h)

(* engine.json is written; a failing write is ignored.                      *)
Record(h) ==
  /\ at[h] = "record"
  /\ \/ /\ rec' = [pid |-> child[h], port |-> told[h], version |-> VersionOf[h]]
        /\ UNCHANGED <<faults, abandoned>>
     \/ Fault /\ abandoned' = TRUE /\ rec' \in {rec, Nobody}
  /\ child' = [child EXCEPT ![h] = Nobody]
  /\ told' = [told EXCEPT ![h] = Nobody]
  /\ Return(h, "served")
  /\ UNCHANGED <<failed, engineVars, port_taken>>

(* The hook goes on to use its endpoint, and ends.                          *)
Leave(h) ==
  /\ at[h] = "served"
  /\ Go(h, "idle")
  /\ UNCHANGED <<holder, child, told, fileVars, engineVars, worldVars>>

(* A hook is killed: its lock is gone with it, its engine is not.  In the   *)
(* middle of a write engine.json is left empty.                             *)
HookDies(h) ==
  /\ at[h] # "idle"
  /\ Fault
  /\ Go(h, "idle")
  /\ holder' = IF holder = h THEN Nobody ELSE holder
  /\ child' = [child EXCEPT ![h] = Nobody]
  /\ told' = [told EXCEPT ![h] = Nobody]
  /\ abandoned' = TRUE
  /\ printed' = [p \in Pids |-> IF p = child[h] THEN Nobody ELSE printed[p]]
  /\ rec' \in IF at[h] = "record" THEN {rec, Nobody} ELSE {rec}
  /\ UNCHANGED <<failed, proc, port, port_taken>>

-------------------------------------------------------------------------------
(* The engines, as seen from outside.                                       *)

HoldsDb(p) == proc[p] \in {"open", "up", "draining"}

(* The database opens for one process at a time; else the engine exits.     *)
OpenDb(p) ==
  /\ proc[p] = "starting"
  /\ IF \E q \in Pids : HoldsDb(q) THEN Exits(p) ELSE Become(p, "open")
  /\ UNCHANGED <<hookVars, fileVars, printed, worldVars>>

(* The port it was given, if that is free, or any free port.                *)
PortsFor(p) ==
  {a \in Ports : /\ port[p] \in {Nobody, a}
                 /\ ~(a = ARMIN_PORT /\ port_taken)
                 /\ \A q \in Pids : proc[q] = "up" => port[q] # a}

(* The port is bound and the handshake printed; an engine that cannot bind, *)
(* or whose hook is gone (printing to a closed pipe panics), exits.         *)
Bind(p) ==
  /\ proc[p] = "open"
  /\ \/ /\ Awaited(p)
        /\ \E a \in PortsFor(p) : /\ port' = [port EXCEPT ![p] = a]
                                  /\ printed' = [printed EXCEPT ![p] = a]
        /\ proc' = [proc EXCEPT ![p] = "up"]
     \/ /\ ~Awaited(p) \/ PortsFor(p) = {}
        /\ Exits(p)
        /\ UNCHANGED printed
  /\ UNCHANGED <<hookVars, fileVars, worldVars>>

(* Mutant: the clock of --idle-exit only starts with the first request.     *)
IdleExitOnceUsed(p) ==
  /\ proc[p] = "up"
  /\ Recorded(p)
  /\ Become(p, "draining")
  /\ UNCHANGED <<hookVars, fileVars, printed, worldVars>>

(* --idle-exit: no request for a while, which is longer than the handshake  *)
(* of the hook that started it takes.  A request that the engine refuses,   *)
(* for its token is not the engine's, sets the clock back like any other:   *)
(* how long an engine has been asked nothing is in Fairness.                *)
IdleExit(p) ==
  /\ proc[p] = "up"
  /\ ~Awaited(p)
  /\ Become(p, "draining")
  /\ UNCHANGED <<hookVars, fileVars, printed, worldVars>>

(* The worker is drained (or given up on), the graph flushed.               *)
DrainEnds(p) ==
  /\ proc[p] = "draining"
  /\ Exits(p)
  /\ UNCHANGED <<hookVars, fileVars, printed, worldVars>>

EngineDies(p) ==
  /\ proc[p] \in {"starting", "open", "up", "draining"}
  /\ Fault
  /\ Exits(p)
  /\ UNCHANGED <<hookVars, fileVars, printed, port_taken, abandoned>>

-------------------------------------------------------------------------------
(* The machine: process ids are used again, at the latest after a reboot;   *)
(* other programs come and go, on the pinned port too.                      *)

PidReused(p) ==
  /\ Recorded(p)
  /\ proc[p] = "none"
  /\ Become(p, "stranger")
  /\ UNCHANGED <<hookVars, fileVars, printed, worldVars>>

StrangerExits(p) ==
  /\ proc[p] = "stranger"
  /\ Exits(p)
  /\ UNCHANGED <<hookVars, fileVars, printed, worldVars>>

PortChanges ==
  /\ Fault
  /\ port_taken' = ~port_taken
  /\ UNCHANGED <<hookVars, fileVars, engineVars, abandoned>>

Reboot ==
  /\ Fault
  /\ proc' = [p \in Pids |-> "none"]
  /\ at' = [h \in Hooks |-> "idle"]
  /\ holder' = Nobody
  /\ child' = [h \in Hooks |-> Nobody]
  /\ told' = [h \in Hooks |-> Nobody]
  /\ port' = [p \in Pids |-> Nobody]
  /\ printed' = [p \in Pids |-> Nobody]
  /\ UNCHANGED <<fileVars, port_taken, abandoned>>

HookStep(h) == \/ Found(h) \/ NotFound(h) \/ NoRecord(h) \/ Kill(h)
               \/ Spawn(h) \/ SpawnFails(h)
               \/ Handshake(h) \/ NoHandshake(h) \/ HandshakeTimeout(h)
               \/ Record(h) \/ Leave(h)

EngineStep(p) == OpenDb(p) \/ Bind(p) \/ DrainEnds(p)

Next ==
  \/ \E h \in Hooks : Enter(h) \/ Acquire(h) \/ HookStep(h) \/ HookDies(h)
  \/ \E p \in Pids : \/ EngineStep(p) \/ IdleExit(p) \/ EngineDies(p)
                     \/ PidReused(p) \/ StrangerExits(p)
  \/ PortChanges \/ Reboot

(* An engine that is lost track of: no hook waits for it, engine.json does  *)
(* not name it, and its token died with the hook that made it.              *)
Stray(p) == proc[p] \in {"starting", "open", "up"} /\ ~Recorded(p) /\ ~Awaited(p)

(* It has the port that engine.json names, be it the pinned one or one that *)
(* the system gave a second time: the probe of a hook of the recorded       *)
(* version reaches it, and it refuses the token.                            *)
Squats(p) == Stray(p) /\ proc[p] = "up" /\ rec # Nobody /\ port[p] = rec.port
Probes(h) == at[h] = "check" /\ rec # Nobody /\ rec.version = VersionOf[h]
Probed(p) == Squats(p) /\ \E h \in Hooks : Probes(h)

(* No hook is about to send it a request: not a probe, nor one to the       *)
(* endpoint that ensure gave it, whoever listens there by now.              *)
Quiet(p) == ~Probed(p) /\ \A h \in Hooks : at[h] # "served"

(* Fairness: a hook's step and an engine's start and drain end (all have    *)
(* timeouts, and the kernel runs every process); a waiting hook gets the    *)
(* lock if it is free time and again; a stray that gets no request any more *)
(* is idle in the end, one that gets them for ever need not be; other       *)
(* processes exit.  Nothing makes a hook start.                             *)
Fairness ==
  /\ \A h \in Hooks : WF_vars(HookStep(h)) /\ SF_vars(Acquire(h))
  /\ \A p \in Pids : /\ WF_vars(EngineStep(p))
                     /\ WF_vars(Stray(p) /\ Quiet(p) /\ IdleExit(p))
                     /\ WF_vars(StrangerExits(p))

Spec == Init /\ [][Next]_vars /\ Fairness

-------------------------------------------------------------------------------
(* Properties.                                                              *)

(* docs/claude-code.md: "One daemon per project".  While no hook dies half  *)
(* way there is at most one engine that starts or serves, and hooks know    *)
(* it: engine.json names it, or the hook that holds the lock waits for it.  *)
OneDaemon ==
  ~abandoned => Cardinality({p \in Pids : proc[p] \in {"starting", "open", "up"}}) <= 1

EnginesKnown == ~abandoned => \A p \in Pids : ~Stray(p)

(* Both at every moment, through retries, time-outs and lost races.         *)
Inv == TypeOK /\ OneDaemon /\ EnginesKnown

(* ensure always returns: no wait, lock or retry in it is for ever.         *)
EnsureReturns == \A h \in Hooks : []<>(at[h] \in {"idle", "served"})

(* An engine that was lost track of leaves the database, unless hooks come  *)
(* for ever whose probes reach it.                                          *)
StrayLeaves == \A p \in Pids : []<>~Stray(p) \/ []<>Probed(p)

HooksCome == []<>(\E h \in Hooks : at[h] = "lock")
HooksServed == []<>(\E h \in Hooks : at[h] = "served")

(* When hooks keep coming, whatever went wrong before (and finitely often), *)
(* an engine serves them again: a draining predecessor, a stray, a marker,  *)
(* a taken port or a stale engine.json delay that, but do not prevent it.   *)
(* Only a stray does, and for ever, that has the port engine.json names.    *)
HooksGetEngine == HooksCome => HooksServed \/ <>[](\E p \in Pids : Squats(p))
===============================================================================
