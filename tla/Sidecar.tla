-------------------------------- MODULE Sidecar --------------------------------
(***************************************************************************)
(* The OpenCode plugin's engine: Sidecar in .opencode/plugins/armin.ts,     *)
(* with the engines it spawns (external: armin-engine, whose store one      *)
(* process at a time can open).                                             *)
(*                                                                          *)
(* JavaScript runs one function at a time and changes over at an await: a   *)
(* step here goes from one await to the next.  Tool handlers call ensure    *)
(* before every request, several at a time, and nothing orders them.        *)
(***************************************************************************)
EXTENDS Naturals, FiniteSets

CONSTANTS
  Clients,      \* handlers that may call at the same time
  First,        \* the one that starts the plugin
  MaxRestarts,  \* MAX_RESTARTS
  MaxPolls,     \* health checks while starting (50 in the code)
  Pinned        \* a port is configured

ASSUME SidecarAssumption == First \in Clients /\ {MaxRestarts, MaxPolls} \subseteq Nat \ {0}

Engines == 1..MaxRestarts
PinnedPort == MaxRestarts + 1   \* an engine with a port of its own has its number
Ports == 0..PinnedPort          \* 0: null

VARIABLES
  pc,         \* where a call is
  asked,      \* the port it asks for health, read when the request was sent
  mine,       \* the engine it spawned
  polls,
  starts, disposed, proc, port, pinnedPortFailed,   \* the fields of Sidecar
  killing,    \* dispose is between its two signals
  loaded,     \* the first start succeeded, or failed: "no", "active", "inert"
  engine,     \* engine[e]: "none", "starting", "up", "busy", "draining", "dead"
  listens,    \* listens[e]: the port an engine announced
  pinned,     \* the engines that were given the pinned port
  overlapped  \* two calls, or a call and dispose, were under way together

callVars == <<pc, asked, mine, polls>>
fieldVars == <<starts, disposed, proc, port, pinnedPortFailed, killing, loaded>>
engineVars == <<engine, listens, pinned>>
vars == <<callVars, fieldVars, engineVars, overlapped>>

Alive(e) == engine[e] \in {"starting", "up", "busy", "draining"}
Open(e) == engine[e] \in {"up", "busy", "draining"}     \* it has the store
ProcAlive == proc # 0 /\ Alive(proc)
Healthy(p) == \E e \in Engines : engine[e] = "up" /\ listens[e] = p

TypeOK ==
  /\ pc \in [Clients -> {"idle", "ensure", "nap", "again", "start", "port", "poll", "wait"}]
  /\ asked \in [Clients -> Ports]
  /\ mine \in [Clients -> Engines \cup {0}]
  /\ polls \in [Clients -> 0..MaxPolls]
  /\ starts \in 0..MaxRestarts
  /\ {disposed, pinnedPortFailed, killing, overlapped} \subseteq BOOLEAN
  /\ proc \in Engines \cup {0}
  /\ port \in Ports
  /\ loaded \in {"no", "active", "inert"}
  /\ engine \in [Engines -> {"none", "starting", "up", "busy", "draining", "dead"}]
  /\ listens \in [Engines -> Ports]
  /\ pinned \subseteq Engines

Init ==
  /\ pc = [c \in Clients |-> IF c = First THEN "start" ELSE "idle"]
  /\ asked = [c \in Clients |-> 0]
  /\ mine = [c \in Clients |-> 0]
  /\ polls = [c \in Clients |-> 0]
  /\ starts = 0 /\ disposed = FALSE /\ proc = 0 /\ port = 0
  /\ pinnedPortFailed = FALSE /\ killing = FALSE /\ loaded = "no"
  /\ engine = [e \in Engines |-> "none"]
  /\ listens = [e \in Engines |-> 0]
  /\ pinned = {}
  /\ overlapped = FALSE

To(c, place) == pc' = [pc EXCEPT ![c] = place]
Ask(c, p) == asked' = [asked EXCEPT ![c] = p]

(* The call returns; the first one decides what becomes of the plugin.      *)
Return(c, ok) ==
  /\ To(c, "idle")
  /\ loaded' = IF loaded = "no" THEN (IF ok THEN "active" ELSE "inert") ELSE loaded
  /\ UNCHANGED asked

(* start() up to its health check: nothing is started once disposed.        *)
EnterStart(c, p) ==
  \/ disposed /\ Return(c, FALSE)
  \/ ~disposed /\ To(c, "start") /\ Ask(c, p) /\ UNCHANGED loaded

(* SIGTERM: an engine that serves drains, one that starts dies.             *)
Terminated(e) == CASE engine[e] \in {"up", "busy"} -> "draining"
                   [] engine[e] = "starting" -> "dead"
                   [] OTHER -> engine[e]
Terminate(e) == engine' = [engine EXCEPT ![e] = Terminated(e)]

-------------------------------------------------------------------------------
(* ensure()                                                                 *)

Call(c) ==
  /\ loaded = "active"
  /\ pc[c] = "idle"
  /\ To(c, "ensure")
  /\ Ask(c, port)
  /\ overlapped' = (overlapped \/ \E d \in Clients : pc[d] # "idle")
  /\ UNCHANGED <<mine, polls, fieldVars, engineVars>>

(* Whatever waits for a health check returns true when there is health.     *)
Found(c) ==
  /\ pc[c] \in {"ensure", "again", "start", "poll"}
  /\ Healthy(asked[c])
  /\ Return(c, TRUE)
  /\ UNCHANGED <<mine, polls, starts, disposed, proc, port, pinnedPortFailed, killing,
                 engineVars, overlapped>>

(* The process lives: perhaps it is busy.                                   *)
Nap(c) ==
  /\ pc[c] = "ensure"
  /\ ~Healthy(asked[c])
  /\ ProcAlive
  /\ To(c, "nap")
  /\ UNCHANGED <<asked, mine, polls, fieldVars, engineVars, overlapped>>

NapOver(c) ==
  /\ pc[c] = "nap"
  /\ To(c, "again")
  /\ Ask(c, port)
  /\ UNCHANGED <<mine, polls, fieldVars, engineVars, overlapped>>

(* Mutant: the process is left running and replaced.                        *)
ReplaceUnkilled(c) ==
  /\ \/ pc[c] = "ensure" /\ ~ProcAlive
     \/ pc[c] = "again"
  /\ ~Healthy(asked[c])
  /\ port' = 0
  /\ EnterStart(c, 0)
  /\ UNCHANGED <<mine, polls, starts, disposed, proc, pinnedPortFailed, killing,
                 engineVars, overlapped>>

(* Not healthy again, or no process: it is killed and start follows.        *)
Replace(c) ==
  /\ ~Healthy(asked[c])
  /\ \/ pc[c] = "ensure" /\ ~ProcAlive /\ UNCHANGED engine
     \/ pc[c] = "again" /\ proc # 0 /\ Terminate(proc)
  /\ port' = 0
  /\ EnterStart(c, 0)
  /\ UNCHANGED <<mine, polls, starts, disposed, proc, pinnedPortFailed, killing,
                 listens, pinned, overlapped>>

-------------------------------------------------------------------------------
(* start()                                                                  *)

LimitReached(c) ==
  /\ pc[c] = "start"
  /\ ~Healthy(asked[c])
  /\ starts >= MaxRestarts
  /\ Return(c, FALSE)
  /\ UNCHANGED <<mine, polls, starts, disposed, proc, port, pinnedPortFailed, killing,
                 engineVars, overlapped>>

(* The health check failed: an engine is spawned, also when dispose came in *)
(* between.  Bun.spawn may throw: then there is no process.                 *)
Spawn(c, fails) ==
  LET e == starts + 1
  IN  /\ pc[c] = "start"
      /\ ~Healthy(asked[c])
      /\ starts < MaxRestarts
      /\ starts' = e
      /\ \/ /\ fails
            /\ engine' = [engine EXCEPT ![e] = "dead"]
            /\ Return(c, FALSE)
            /\ UNCHANGED <<proc, mine, pinned>>
         \/ /\ ~fails
            /\ engine' = [engine EXCEPT ![e] = "starting"]
            /\ proc' = e
            /\ pinned' = IF Pinned /\ ~pinnedPortFailed THEN pinned \cup {e} ELSE pinned
            /\ mine' = [mine EXCEPT ![c] = e]
            /\ To(c, "port")
            /\ UNCHANGED <<asked, loaded>>
      /\ UNCHANGED <<polls, disposed, port, pinnedPortFailed, killing, listens, overlapped>>

(* readPort has the port.                                                   *)
PortRead(c) ==
  /\ pc[c] = "port"
  /\ listens[mine[c]] # 0
  /\ port' = listens[mine[c]]
  /\ Ask(c, listens[mine[c]])
  /\ polls' = [polls EXCEPT ![c] = 0]
  /\ To(c, "poll")
  /\ UNCHANGED <<mine, starts, disposed, proc, pinnedPortFailed, killing, loaded,
                 engineVars, overlapped>>

(* Mutant: an engine that is slow to announce its port is left alone.       *)
NoPortLeft(c) ==
  /\ pc[c] = "port"
  /\ listens[mine[c]] = 0
  /\ \/ /\ mine[c] \in pinned
        /\ pinnedPortFailed' = TRUE
        /\ EnterStart(c, port)
     \/ mine[c] \notin pinned /\ Return(c, FALSE) /\ UNCHANGED pinnedPortFailed
  /\ UNCHANGED <<mine, polls, starts, disposed, proc, port, killing, engineVars, overlapped>>

(* The engine ended without a port, or five seconds are over: it is killed. *)
(* With the pinned port there is another try without.                       *)
NoPort(c) ==
  /\ pc[c] = "port"
  /\ listens[mine[c]] = 0
  /\ Terminate(mine[c])
  /\ \/ /\ mine[c] \in pinned
        /\ pinnedPortFailed' = TRUE
        /\ EnterStart(c, port)
     \/ mine[c] \notin pinned /\ Return(c, FALSE) /\ UNCHANGED pinnedPortFailed
  /\ UNCHANGED <<mine, polls, starts, disposed, proc, port, killing,
                 listens, pinned, overlapped>>

(* Mutant: a poll that does not count.                                      *)
PollForEver(c) ==
  /\ pc[c] = "poll"
  /\ ~Healthy(asked[c])
  /\ To(c, "wait")
  /\ UNCHANGED <<asked, mine, polls, fieldVars, engineVars, overlapped>>

(* Not healthy yet: the end when disposed or after the last check.          *)
PollAgain(c) ==
  /\ pc[c] = "poll"
  /\ ~Healthy(asked[c])
  /\ \/ ~disposed /\ polls[c] + 1 < MaxPolls /\ To(c, "wait") /\ UNCHANGED <<asked, loaded>>
     \/ (disposed \/ polls[c] + 1 >= MaxPolls) /\ Return(c, FALSE)
  /\ polls' = [polls EXCEPT ![c] = IF pc'[c] = "wait" THEN @ + 1 ELSE 0]
  /\ UNCHANGED <<mine, starts, disposed, proc, port, pinnedPortFailed, killing,
                 engineVars, overlapped>>

WaitOver(c) ==
  /\ pc[c] = "wait"
  /\ To(c, "poll")
  /\ Ask(c, port)
  /\ UNCHANGED <<mine, polls, fieldVars, engineVars, overlapped>>

-------------------------------------------------------------------------------
(* dispose()                                                                *)

Dispose ==
  /\ loaded # "no"
  /\ ~disposed
  /\ disposed' = TRUE
  /\ overlapped' = (overlapped \/ \E d \in Clients : pc[d] # "idle")
  /\ \/ ProcAlive /\ Terminate(proc) /\ killing' = TRUE
     \/ ~ProcAlive /\ UNCHANGED <<engine, killing>>
  /\ UNCHANGED <<callVars, starts, proc, port, pinnedPortFailed, loaded,
                 listens, pinned>>

(* Half a second later what is in proc then is killed for good.             *)
DisposeKill ==
  /\ killing
  /\ killing' = FALSE
  /\ engine' = [engine EXCEPT ![proc] = IF Alive(proc) THEN "dead" ELSE @]
  /\ UNCHANGED <<callVars, starts, disposed, proc, port, pinnedPortFailed, loaded,
                 listens, pinned, overlapped>>

-------------------------------------------------------------------------------
(* The engines (external).                                                  *)

EnginesOnly == UNCHANGED <<callVars, fieldVars, pinned, overlapped>>

(* The store is free, and so is the port: the engine announces it.          *)
Announce(e) ==
  /\ engine[e] = "starting"
  /\ \A d \in Engines : ~Open(d)
  /\ engine' = [engine EXCEPT ![e] = "up"]
  /\ \E p \in IF e \in pinned THEN {PinnedPort} ELSE {e} : listens' = [listens EXCEPT ![e] = p]
  /\ EnginesOnly

(* The store is open in another process, the port is taken, or a crash.     *)
Die(e) ==
  /\ Alive(e)
  /\ engine' = [engine EXCEPT ![e] = "dead"]
  /\ UNCHANGED listens
  /\ EnginesOnly

(* An engine is too busy to answer within half a second, for a while.       *)
Hang(e) ==
  /\ engine[e] \in {"up", "busy"}
  /\ engine' = [engine EXCEPT ![e] = IF @ = "up" THEN "busy" ELSE "up"]
  /\ UNCHANGED listens
  /\ EnginesOnly

(* A drain has its time limit.                                              *)
DrainEnds(e) == engine[e] = "draining" /\ Die(e)

CallStep(c) == \/ Found(c) \/ Nap(c) \/ NapOver(c) \/ Replace(c)
               \/ LimitReached(c) \/ (\E fails \in BOOLEAN : Spawn(c, fails))
               \/ PortRead(c) \/ NoPort(c) \/ PollAgain(c) \/ WaitOver(c)

(* The host has gone on without the plugin.                                 *)
Over == disposed /\ UNCHANGED vars

Next == \/ \E c \in Clients : Call(c) \/ CallStep(c)
        \/ Dispose \/ DisposeKill
        \/ \E e \in Engines : Announce(e) \/ Die(e) \/ Hang(e)
        \/ Over

(* Fairness: timers and fetch timeouts fire, and a drain ends (20 s).       *)
(* Engines need not start, crash or recover, and nobody has to call.        *)
Fairness == /\ \A c \in Clients : WF_vars(CallStep(c))
            /\ WF_vars(DisposeKill)
            /\ \A e \in Engines : WF_vars(DrainEnds(e))
Spec == Init /\ [][Next]_vars /\ Fairness

-------------------------------------------------------------------------------
(* Properties.                                                              *)

(* As long as calls come one after the other, every engine that was not     *)
(* told to stop is the one that dispose would stop.                         *)
EngineIsKnown ==
  ~overlapped => \A e \in Engines : engine[e] \in {"starting", "up", "busy"} => e = proc
Inv == TypeOK /\ EngineIsKnown

(* Every call returns, whatever other calls kill meanwhile.                 *)
EnsureReturns == \A c \in Clients : pc[c] # "idle" ~> pc[c] = "idle"

(* Dispose leaves no engine behind, unless it met a call under way or calls *)
(* have met before.                                                         *)
DisposeEnds ==
  disposed /\ ~overlapped ~> \A e \in Engines : ~Alive(e)
===============================================================================
