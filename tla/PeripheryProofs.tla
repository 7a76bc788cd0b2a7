--------------------------- MODULE PeripheryProofs ---------------------------
(***************************************************************************)
(* Proofs about what stands beside the engine's write paths: Sidecar, for   *)
(* any handlers and any limits on restarts and health checks; and, as       *)
(* instances, L: LegacyServer, for any producers, lines, settings, writes,  *)
(* clients and questions; and C: Communities, for any graphs and any limit  *)
(* on rounds.                                                               *)
(*                                                                          *)
(* Sidecar.  That dispose can stop every engine rests on order: a call      *)
(* spawns one only when it has stopped, or found dead, the one that proc    *)
(* names.  This is lost when calls meet, so that the invariant is about the *)
(* time before.                                                             *)
(*                                                                          *)
(* LegacyServer.  The tasks share the graph without a lock, but it only     *)
(* grows, and an event is with one producer: a node of an event can only    *)
(* come from the pipeline that has the event in hand.  So what a pipeline   *)
(* saw in the graph or put there stays, and an edge that was refused for    *)
(* its source will never have it.                                           *)
(*                                                                          *)
(* Communities.  A node that moves takes its degree and its weights from    *)
(* one sum to another; with those, the difference in modularity is twice    *)
(* the gain.  The sums are over running sums, so that a lemma on two of     *)
(* them adds them up step by step.                                          *)
(***************************************************************************)
EXTENDS Sidecar, Sequences, FiniteSetTheorems, WellFoundedInduction, TLAPS

Running(e) == engine[e] \in {"starting", "up", "busy"}

(* A call that waits for a port has spawned an engine.                      *)
SpawnedOK == \A c \in Clients : pc[c] = "port" => mine[c] # 0

(* Until calls meet there is one at a time; the engine it spawned is in     *)
(* proc; and when it may spawn one, none is running.                        *)
OneCall == \A c, d \in Clients : pc[c] # "idle" /\ pc[d] # "idle" => c = d
WaitsForProc == \A c \in Clients : pc[c] = "port" => mine[c] = proc
StartsAlone == \A c \in Clients : pc[c] = "start" => \A e \in Engines : ~Running(e)

Sequential == OneCall /\ WaitsForProc /\ StartsAlone

IInv == TypeOK /\ SpawnedOK /\ (~overlapped => Sequential) /\ EngineIsKnown

-------------------------------------------------------------------------------
(* Types.                                                                   *)

CallTypes ==
  /\ pc \in [Clients -> {"idle", "ensure", "nap", "again", "start", "port", "poll", "wait"}]
  /\ asked \in [Clients -> Ports]
  /\ mine \in [Clients -> Engines \cup {0}]
  /\ polls \in [Clients -> 0..MaxPolls]

FieldTypes ==
  /\ starts \in 0..MaxRestarts
  /\ disposed \in BOOLEAN /\ pinnedPortFailed \in BOOLEAN /\ killing \in BOOLEAN
  /\ proc \in Engines \cup {0}
  /\ port \in Ports
  /\ loaded \in {"no", "active", "inert"}

EngineTypes ==
  /\ engine \in [Engines -> {"none", "starting", "up", "busy", "draining", "dead"}]
  /\ listens \in [Engines -> Ports]
  /\ pinned \subseteq Engines

LEMMA TypeStep ==
  ASSUME TypeOK, SpawnedOK, [Next]_vars
  PROVE  TypeOK'
<1> USE DEF callVars, fieldVars, engineVars
<1>1. ASSUME NEW c \in Clients, Call(c)
      PROVE  TypeOK'
  BY <1>1 DEF Call, To, Ask, TypeOK
<1>2. ASSUME NEW c \in Clients, Found(c)
      PROVE  TypeOK'
  BY <1>2 DEF Found, Return, To, TypeOK
<1>3. ASSUME NEW c \in Clients, Nap(c)
      PROVE  TypeOK'
  BY <1>3 DEF Nap, To, TypeOK
<1>4. ASSUME NEW c \in Clients, NapOver(c)
      PROVE  TypeOK'
  BY <1>4 DEF NapOver, To, Ask, TypeOK
<1>5. ASSUME NEW c \in Clients, Replace(c)
      PROVE  TypeOK'
  <2>1. CallTypes'
    <3>1. \/ pc' = [pc EXCEPT ![c] = "idle"] /\ asked' = asked
          \/ pc' = [pc EXCEPT ![c] = "start"] /\ asked' = [asked EXCEPT ![c] = 0]
      BY <1>5 DEF Replace, EnterStart, Return, To, Ask
    <3>2. UNCHANGED <<mine, polls>>
      BY <1>5 DEF Replace
    <3>3. 0 \in Ports
      BY SidecarAssumption DEF Ports, PinnedPort
    <3> QED
      BY <3>1, <3>2, <3>3 DEF TypeOK, CallTypes
  <2>2. FieldTypes'
    BY <1>5, SidecarAssumption DEF Replace, EnterStart, Return, TypeOK,
       FieldTypes, Ports, PinnedPort
  <2>3. EngineTypes'
    BY <1>5 DEF Replace, Terminate, Terminated, TypeOK, EngineTypes
  <2>4. overlapped' \in BOOLEAN
    BY <1>5 DEF Replace, TypeOK
  <2> QED
    BY <2>1, <2>2, <2>3, <2>4 DEF TypeOK, CallTypes, FieldTypes, EngineTypes
<1>6. ASSUME NEW c \in Clients, LimitReached(c)
      PROVE  TypeOK'
  BY <1>6 DEF LimitReached, Return, To, TypeOK
<1>7. ASSUME NEW c \in Clients, NEW fails \in BOOLEAN, Spawn(c, fails)
      PROVE  TypeOK'
  <2>1. CallTypes'
    <3>1. \/ pc' = [pc EXCEPT ![c] = "idle"] /\ mine' = mine
          \/ pc' = [pc EXCEPT ![c] = "port"] /\ mine' = [mine EXCEPT ![c] = starts + 1]
      BY <1>7 DEF Spawn, Return, To
    <3>2. UNCHANGED <<asked, polls>>
      BY <1>7 DEF Spawn, Return
    <3>3. starts + 1 \in Engines
      BY <1>7, SidecarAssumption DEF Spawn, TypeOK, Engines
    <3> QED
      BY <3>1, <3>2, <3>3 DEF TypeOK, CallTypes
  <2>2. FieldTypes'
    <3>1. starts + 1 \in 0..MaxRestarts /\ starts + 1 \in Engines
      BY <1>7, SidecarAssumption DEF Spawn, TypeOK, Engines
    <3>2. /\ starts' = starts + 1 /\ proc' \in {proc, starts + 1} /\ loaded' \in {loaded, "active", "inert"}
          /\ UNCHANGED <<disposed, port, pinnedPortFailed, killing>>
      BY <1>7 DEF Spawn, Return
    <3> QED
      BY <3>1, <3>2 DEF TypeOK, FieldTypes
  <2>3. EngineTypes'
    <3>1. starts + 1 \in Engines
      BY <1>7, SidecarAssumption DEF Spawn, TypeOK, Engines
    <3>2. /\ \/ engine' = [engine EXCEPT ![starts + 1] = "dead"]
             \/ engine' = [engine EXCEPT ![starts + 1] = "starting"]
          /\ pinned' \subseteq pinned \cup {starts + 1} /\ UNCHANGED listens
      BY <1>7 DEF Spawn
    <3> QED
      BY <3>1, <3>2 DEF TypeOK, EngineTypes
  <2>4. overlapped' \in BOOLEAN
    BY <1>7 DEF Spawn, TypeOK
  <2> QED
    BY <2>1, <2>2, <2>3, <2>4 DEF TypeOK, CallTypes, FieldTypes, EngineTypes
<1>8. ASSUME NEW c \in Clients, PortRead(c)
      PROVE  TypeOK'
  <2>1. CallTypes'
    BY <1>8, SidecarAssumption DEF PortRead, To, Ask, TypeOK, CallTypes,
       SpawnedOK
  <2>2. FieldTypes'
    BY <1>8 DEF PortRead, TypeOK, FieldTypes, SpawnedOK
  <2>3. EngineTypes'
    BY <1>8 DEF PortRead, TypeOK, EngineTypes
  <2>4. overlapped' \in BOOLEAN
    BY <1>8 DEF PortRead, TypeOK
  <2> QED
    BY <2>1, <2>2, <2>3, <2>4 DEF TypeOK, CallTypes, FieldTypes, EngineTypes
<1>9. ASSUME NEW c \in Clients, NoPort(c)
      PROVE  TypeOK'
  <2>1. CallTypes'
    <3>1. \/ pc' = [pc EXCEPT ![c] = "idle"] /\ asked' = asked
          \/ pc' = [pc EXCEPT ![c] = "start"] /\ asked' = [asked EXCEPT ![c] = port]
      BY <1>9 DEF NoPort, EnterStart, Return, To, Ask
    <3>2. UNCHANGED <<mine, polls>>
      BY <1>9 DEF NoPort
    <3> QED
      BY <3>1, <3>2 DEF TypeOK, CallTypes
  <2>2. FieldTypes'
    BY <1>9 DEF NoPort, EnterStart, Return, TypeOK, FieldTypes
  <2>3. EngineTypes'
    BY <1>9 DEF NoPort, Terminate, Terminated, TypeOK, EngineTypes
  <2>4. overlapped' \in BOOLEAN
    BY <1>9 DEF NoPort, TypeOK
  <2> QED
    BY <2>1, <2>2, <2>3, <2>4 DEF TypeOK, CallTypes, FieldTypes, EngineTypes
<1>10. ASSUME NEW c \in Clients, PollAgain(c)
      PROVE  TypeOK'
  <2>1. CallTypes'
    <3>1. \/ pc' = [pc EXCEPT ![c] = "idle"] /\ polls' = [polls EXCEPT ![c] = 0]
          \/ pc' = [pc EXCEPT ![c] = "wait"] /\ polls[c] + 1 < MaxPolls
             /\ polls' = [polls EXCEPT ![c] = polls[c] + 1]
      BY <1>10 DEF PollAgain, Return, To, TypeOK
    <3>2. UNCHANGED <<asked, mine>>
      BY <1>10 DEF PollAgain, Return
    <3>3. polls[c] \in 0..MaxPolls /\ 0 \in 0..MaxPolls
      BY SidecarAssumption DEF TypeOK
    <3>4. polls' \in [Clients -> 0..MaxPolls]
      BY <3>1, <3>3, SidecarAssumption DEF TypeOK
    <3> QED
      BY <3>1, <3>2, <3>4 DEF TypeOK, CallTypes
  <2>2. FieldTypes'
    BY <1>10 DEF PollAgain, Return, TypeOK, FieldTypes
  <2>3. EngineTypes'
    BY <1>10 DEF PollAgain, TypeOK, EngineTypes
  <2>4. overlapped' \in BOOLEAN
    BY <1>10 DEF PollAgain, TypeOK
  <2> QED
    BY <2>1, <2>2, <2>3, <2>4 DEF TypeOK, CallTypes, FieldTypes, EngineTypes
<1>11. ASSUME NEW c \in Clients, WaitOver(c)
      PROVE  TypeOK'
  BY <1>11 DEF WaitOver, To, Ask, TypeOK
<1>12. CASE Dispose
  BY <1>12 DEF Dispose, Terminate, Terminated, TypeOK
<1>13. CASE DisposeKill
  BY <1>13 DEF DisposeKill, TypeOK
<1>14. ASSUME NEW e \in Engines, Announce(e)
      PROVE  TypeOK'
  BY <1>14, SidecarAssumption DEF Announce, EnginesOnly, TypeOK, Engines, Ports,
     PinnedPort
<1>15. ASSUME NEW e \in Engines, Die(e)
      PROVE  TypeOK'
  BY <1>15 DEF Die, EnginesOnly, TypeOK
<1>16. ASSUME NEW e \in Engines, Hang(e)
      PROVE  TypeOK'
  BY <1>16 DEF Hang, EnginesOnly, TypeOK
<1>17. CASE Over
  BY <1>17 DEF Over, vars, TypeOK
<1>18. CASE UNCHANGED vars
  BY <1>18 DEF vars, TypeOK
<1> QED
  BY <1>1, <1>2, <1>3, <1>4, <1>5, <1>6, <1>7, <1>8, <1>9, <1>10, <1>11, <1>12,
     <1>13, <1>14, <1>15, <1>16, <1>17, <1>18 DEF Next, CallStep

LEMMA SpawnedStep ==
  ASSUME TypeOK, SpawnedOK, [Next]_vars
  PROVE  SpawnedOK'
<1> USE DEF callVars, fieldVars, engineVars
<1>1. ASSUME NEW c \in Clients, Call(c)
      PROVE  SpawnedOK'
  BY <1>1 DEF Call, To, SpawnedOK
<1>2. ASSUME NEW c \in Clients, Found(c)
      PROVE  SpawnedOK'
  BY <1>2 DEF Found, Return, To, SpawnedOK
<1>3. ASSUME NEW c \in Clients, Nap(c)
      PROVE  SpawnedOK'
  BY <1>3 DEF Nap, To, SpawnedOK
<1>4. ASSUME NEW c \in Clients, NapOver(c)
      PROVE  SpawnedOK'
  BY <1>4 DEF NapOver, To, SpawnedOK
<1>5. ASSUME NEW c \in Clients, Replace(c)
      PROVE  SpawnedOK'
  BY <1>5 DEF Replace, EnterStart, Return, To, SpawnedOK, TypeOK
<1>6. ASSUME NEW c \in Clients, LimitReached(c)
      PROVE  SpawnedOK'
  BY <1>6 DEF LimitReached, Return, To, SpawnedOK
<1>7. ASSUME NEW c \in Clients, NEW fails \in BOOLEAN, Spawn(c, fails)
      PROVE  SpawnedOK'
  BY <1>7 DEF Spawn, Return, To, SpawnedOK, TypeOK
<1>8. ASSUME NEW c \in Clients, PortRead(c)
      PROVE  SpawnedOK'
  BY <1>8 DEF PortRead, To, SpawnedOK
<1>9. ASSUME NEW c \in Clients, NoPort(c)
      PROVE  SpawnedOK'
  BY <1>9 DEF NoPort, EnterStart, Return, To, SpawnedOK, TypeOK
<1>10. ASSUME NEW c \in Clients, PollAgain(c)
      PROVE  SpawnedOK'
  BY <1>10 DEF PollAgain, Return, To, SpawnedOK, TypeOK
<1>11. ASSUME NEW c \in Clients, WaitOver(c)
      PROVE  SpawnedOK'
  BY <1>11 DEF WaitOver, To, SpawnedOK
<1>12. CASE Dispose
  BY <1>12 DEF Dispose, SpawnedOK
<1>13. CASE DisposeKill
  BY <1>13 DEF DisposeKill, SpawnedOK
<1>14. ASSUME NEW e \in Engines, Announce(e)
      PROVE  SpawnedOK'
  BY <1>14 DEF Announce, EnginesOnly, SpawnedOK
<1>15. ASSUME NEW e \in Engines, Die(e)
      PROVE  SpawnedOK'
  BY <1>15 DEF Die, EnginesOnly, SpawnedOK
<1>16. ASSUME NEW e \in Engines, Hang(e)
      PROVE  SpawnedOK'
  BY <1>16 DEF Hang, EnginesOnly, SpawnedOK
<1>17. CASE Over
  BY <1>17 DEF Over, vars, SpawnedOK
<1>18. CASE UNCHANGED vars
  BY <1>18 DEF vars, SpawnedOK
<1> QED
  BY <1>1, <1>2, <1>3, <1>4, <1>5, <1>6, <1>7, <1>8, <1>9, <1>10, <1>11, <1>12,
     <1>13, <1>14, <1>15, <1>16, <1>17, <1>18 DEF Next, CallStep

-------------------------------------------------------------------------------
(* One call after the other.                                                *)

LEMMA SequentialStep ==
  ASSUME TypeOK, SpawnedOK, ~overlapped => Sequential, EngineIsKnown, [Next]_vars
  PROVE  (~overlapped => Sequential)'
<1> USE DEF callVars, fieldVars, engineVars
<1>1. ASSUME NEW c \in Clients, Call(c)
      PROVE  (~overlapped => Sequential)'
  BY <1>1 DEF Call, To, Sequential, OneCall, WaitsForProc, StartsAlone, TypeOK
<1>2. ASSUME NEW c \in Clients, Found(c)
      PROVE  (~overlapped => Sequential)'
  BY <1>2 DEF Found, Return, To, Sequential, OneCall, WaitsForProc, StartsAlone,
     TypeOK
<1>3. ASSUME NEW c \in Clients, Nap(c)
      PROVE  (~overlapped => Sequential)'
  BY <1>3 DEF Nap, To, Sequential, OneCall, WaitsForProc, StartsAlone
<1>4. ASSUME NEW c \in Clients, NapOver(c)
      PROVE  (~overlapped => Sequential)'
  BY <1>4 DEF NapOver, To, Sequential, OneCall, WaitsForProc, StartsAlone
<1>5. ASSUME NEW c \in Clients, Replace(c)
      PROVE  (~overlapped => Sequential)'
  <2> SUFFICES ASSUME ~overlapped PROVE Sequential'
    BY <1>5 DEF Replace
  <2>1. \/ pc' = [pc EXCEPT ![c] = "idle"]
        \/ pc' = [pc EXCEPT ![c] = "start"]
    BY <1>5 DEF Replace, EnterStart, Return, To
  <2>2. \A e \in Engines : ~Running(e)'
    <3>1. \A e \in Engines : Running(e) => e = proc
      BY DEF Running, EngineIsKnown
    <3>2. CASE ~ProcAlive /\ engine' = engine
      <4>1. 0 \notin Engines
        BY DEF Engines
      <4>2. ASSUME NEW e \in Engines PROVE ~Running(e)
        BY <3>1, <3>2, <4>1 DEF ProcAlive, Alive, Running
      <4> QED
        BY <3>2, <4>2 DEF Running
    <3>3. CASE proc # 0 /\ Terminate(proc)
      BY <3>1, <3>3 DEF Terminate, Terminated, Running, TypeOK
    <3> QED
      BY <1>5, <3>2, <3>3 DEF Replace
  <2>3. pc[c] # "idle" /\ UNCHANGED <<mine, proc>>
    BY <1>5 DEF Replace
  <2> QED
    BY <2>1, <2>2, <2>3 DEF Sequential, OneCall, WaitsForProc, StartsAlone,
       TypeOK
<1>6. ASSUME NEW c \in Clients, LimitReached(c)
      PROVE  (~overlapped => Sequential)'
  BY <1>6 DEF LimitReached, Return, To, Sequential, OneCall, WaitsForProc,
     StartsAlone, TypeOK
<1>7. ASSUME NEW c \in Clients, NEW fails \in BOOLEAN, Spawn(c, fails)
      PROVE  (~overlapped => Sequential)'
  <2> SUFFICES ASSUME ~overlapped PROVE Sequential'
    BY <1>7 DEF Spawn
  <2>1. pc[c] = "start" /\ \A d \in Clients : d # c => pc[d] = "idle"
    BY <1>7 DEF Spawn, Sequential, OneCall
  <2>2. \/ pc' = [pc EXCEPT ![c] = "idle"]
        \/ /\ pc' = [pc EXCEPT ![c] = "port"]
           /\ mine' = [mine EXCEPT ![c] = starts + 1] /\ proc' = starts + 1
    BY <1>7 DEF Spawn, Return, To
  <2> QED
    BY <2>1, <2>2 DEF Sequential, OneCall, WaitsForProc, StartsAlone, TypeOK
<1>8. ASSUME NEW c \in Clients, PortRead(c)
      PROVE  (~overlapped => Sequential)'
  BY <1>8 DEF PortRead, To, Sequential, OneCall, WaitsForProc, StartsAlone
<1>9. ASSUME NEW c \in Clients, NoPort(c)
      PROVE  (~overlapped => Sequential)'
  <2> SUFFICES ASSUME ~overlapped PROVE Sequential'
    BY <1>9 DEF NoPort
  <2>1. \/ pc' = [pc EXCEPT ![c] = "idle"]
        \/ pc' = [pc EXCEPT ![c] = "start"]
    BY <1>9 DEF NoPort, EnterStart, Return, To
  <2>2. mine[c] = proc
    BY <1>9 DEF NoPort, Sequential, WaitsForProc
  <2>3. \A e \in Engines : ~Running(e)'
    BY <1>9, <2>2 DEF NoPort, Terminate, Terminated, Running, EngineIsKnown,
       TypeOK
  <2>4. pc[c] # "idle" /\ UNCHANGED <<mine, proc>>
    BY <1>9 DEF NoPort
  <2> QED
    BY <2>1, <2>3, <2>4 DEF Sequential, OneCall, WaitsForProc, StartsAlone,
       TypeOK
<1>10. ASSUME NEW c \in Clients, PollAgain(c)
      PROVE  (~overlapped => Sequential)'
  <2> SUFFICES ASSUME ~overlapped PROVE Sequential'
    BY <1>10 DEF PollAgain
  <2>1. \/ pc' = [pc EXCEPT ![c] = "idle"]
        \/ pc' = [pc EXCEPT ![c] = "wait"]
    BY <1>10 DEF PollAgain, Return, To
  <2>2. pc[c] # "idle" /\ UNCHANGED <<mine, proc, engine>>
    BY <1>10 DEF PollAgain
  <2> QED
    BY <2>1, <2>2 DEF Sequential, OneCall, WaitsForProc, StartsAlone, TypeOK
<1>11. ASSUME NEW c \in Clients, WaitOver(c)
      PROVE  (~overlapped => Sequential)'
  BY <1>11 DEF WaitOver, To, Sequential, OneCall, WaitsForProc, StartsAlone
<1>12. CASE Dispose
  BY <1>12 DEF Dispose, Sequential, OneCall, WaitsForProc, StartsAlone
<1>13. CASE DisposeKill
  BY <1>13 DEF DisposeKill, Sequential, OneCall, WaitsForProc, StartsAlone,
     Running
<1>14. ASSUME NEW e \in Engines, Announce(e)
      PROVE  (~overlapped => Sequential)'
  BY <1>14 DEF Announce, EnginesOnly, Sequential, OneCall, WaitsForProc,
     StartsAlone, Running
<1>15. ASSUME NEW e \in Engines, Die(e)
      PROVE  (~overlapped => Sequential)'
  BY <1>15 DEF Die, EnginesOnly, Sequential, OneCall, WaitsForProc, StartsAlone,
     Running
<1>16. ASSUME NEW e \in Engines, Hang(e)
      PROVE  (~overlapped => Sequential)'
  BY <1>16 DEF Hang, EnginesOnly, Sequential, OneCall, WaitsForProc,
     StartsAlone, Running
<1>17. CASE Over
  BY <1>17 DEF Over, vars, Sequential, OneCall, WaitsForProc, StartsAlone,
     Running
<1>18. CASE UNCHANGED vars
  BY <1>18 DEF vars, Sequential, OneCall, WaitsForProc, StartsAlone, Running
<1> QED
  BY <1>1, <1>2, <1>3, <1>4, <1>5, <1>6, <1>7, <1>8, <1>9, <1>10, <1>11, <1>12,
     <1>13, <1>14, <1>15, <1>16, <1>17, <1>18 DEF Next, CallStep

LEMMA KnownStep ==
  ASSUME TypeOK, SpawnedOK, ~overlapped => Sequential, EngineIsKnown, [Next]_vars
  PROVE  EngineIsKnown'
<1> USE DEF callVars, fieldVars, engineVars
<1>1. ASSUME NEW c \in Clients, Call(c)
      PROVE  EngineIsKnown'
  BY <1>1 DEF Call, EngineIsKnown
<1>2. ASSUME NEW c \in Clients, Found(c)
      PROVE  EngineIsKnown'
  BY <1>2 DEF Found, EngineIsKnown
<1>3. ASSUME NEW c \in Clients, Nap(c)
      PROVE  EngineIsKnown'
  BY <1>3 DEF Nap, EngineIsKnown
<1>4. ASSUME NEW c \in Clients, NapOver(c)
      PROVE  EngineIsKnown'
  BY <1>4 DEF NapOver, EngineIsKnown
<1>5. ASSUME NEW c \in Clients, Replace(c)
      PROVE  EngineIsKnown'
  BY <1>5 DEF Replace, Terminate, EngineIsKnown, TypeOK
<1>6. ASSUME NEW c \in Clients, LimitReached(c)
      PROVE  EngineIsKnown'
  BY <1>6 DEF LimitReached, EngineIsKnown
<1>7. ASSUME NEW c \in Clients, NEW fails \in BOOLEAN, Spawn(c, fails)
      PROVE  EngineIsKnown'
  BY <1>7 DEF Spawn, Sequential, StartsAlone, EngineIsKnown, Running, TypeOK
<1>8. ASSUME NEW c \in Clients, PortRead(c)
      PROVE  EngineIsKnown'
  BY <1>8 DEF PortRead, EngineIsKnown
<1>9. ASSUME NEW c \in Clients, NoPort(c)
      PROVE  EngineIsKnown'
  BY <1>9 DEF NoPort, Terminate, Sequential, WaitsForProc, EngineIsKnown
<1>10. ASSUME NEW c \in Clients, PollAgain(c)
      PROVE  EngineIsKnown'
  BY <1>10 DEF PollAgain, EngineIsKnown
<1>11. ASSUME NEW c \in Clients, WaitOver(c)
      PROVE  EngineIsKnown'
  BY <1>11 DEF WaitOver, EngineIsKnown
<1>12. CASE Dispose
  BY <1>12 DEF Dispose, Terminate, EngineIsKnown, TypeOK
<1>13. CASE DisposeKill
  BY <1>13 DEF DisposeKill, EngineIsKnown
<1>14. ASSUME NEW e \in Engines, Announce(e)
      PROVE  EngineIsKnown'
  BY <1>14 DEF Announce, EnginesOnly, EngineIsKnown
<1>15. ASSUME NEW e \in Engines, Die(e)
      PROVE  EngineIsKnown'
  BY <1>15 DEF Die, EnginesOnly, EngineIsKnown
<1>16. ASSUME NEW e \in Engines, Hang(e)
      PROVE  EngineIsKnown'
  BY <1>16 DEF Hang, EnginesOnly, EngineIsKnown
<1>17. CASE Over
  BY <1>17 DEF Over, vars, EngineIsKnown
<1>18. CASE UNCHANGED vars
  BY <1>18 DEF vars, EngineIsKnown
<1> QED
  BY <1>1, <1>2, <1>3, <1>4, <1>5, <1>6, <1>7, <1>8, <1>9, <1>10, <1>11, <1>12,
     <1>13, <1>14, <1>15, <1>16, <1>17, <1>18 DEF Next, CallStep

-------------------------------------------------------------------------------
(* The invariant.                                                           *)

LEMMA InitIInv == Init => IInv
<1> SUFFICES ASSUME Init PROVE IInv
  OBVIOUS
<1>1. TypeOK
  <2>1. 0 \in Ports /\ 0 \in 0..MaxPolls /\ 0 \in 0..MaxRestarts
    BY SidecarAssumption DEF Ports, PinnedPort
  <2>2. CallTypes
    BY <2>1 DEF Init, CallTypes
  <2>3. FieldTypes /\ overlapped \in BOOLEAN
    BY <2>1 DEF Init, FieldTypes
  <2>4. EngineTypes
    BY <2>1 DEF Init, EngineTypes
  <2> QED
    BY <2>2, <2>3, <2>4 DEF TypeOK, CallTypes, FieldTypes, EngineTypes
<1>2. SpawnedOK /\ Sequential
  BY DEF Init, SpawnedOK, Sequential, OneCall, WaitsForProc, StartsAlone,
     Running
<1>3. EngineIsKnown
  BY DEF Init, EngineIsKnown
<1> QED
  BY <1>1, <1>2, <1>3 DEF IInv

LEMMA NextIInv == IInv /\ [Next]_vars => IInv'
<1> SUFFICES ASSUME IInv, [Next]_vars PROVE IInv'
  OBVIOUS
<1> QED
  BY TypeStep, SpawnedStep, SequentialStep, KnownStep DEF IInv

(* IInv is an invariant of the plugin's sidecar (ensure, start and dispose  *)
(* in armin.ts) with whatever its engines do.                               *)
THEOREM Invariance == Spec => []IInv
  BY InitIInv, NextIInv, PTL DEF Spec

(* Until calls meet, every engine that was not told to stop is the one that *)
(* dispose would stop (the field proc in armin.ts).                         *)
THEOREM EnginesAreKnown == Spec => []Inv
<1>1. IInv => Inv
  BY DEF IInv, Inv
<1> QED
  BY <1>1, Invariance, PTL

-------------------------------------------------------------------------------
(* The older server: LegacyServer, as an instance.                          *)

CONSTANTS Events, Dropped, Malformed, Runner, Posts, Loads, Window, Capacity, TopN
VARIABLES load, lines, stage, ctx, event_log, compressed_summary, batch_counter,
          nodes, edges, invalid, agent, writes, sent, client,
          index, rebuild_on_query, asker, asks, batches, raced
L == INSTANCE LegacyServer

(* Given once.                                                              *)
GivenOK == L!ServerAssumption /\ load \in Loads
LinesOK == lines \in [L!Producers -> Seq(Events \cup {Malformed})]

Contexts == [event : Events \cup {Malformed}, history : L!Batch, snapshot : SUBSET L!Nodes,
             due : BOOLEAN, old : Seq(L!Batch), nodes : SUBSET L!Nodes, edges : SUBSET L!Edges,
             reports : BOOLEAN]

(* A compression is of a history that is long enough; the node that a       *)
(* pipeline adds is of its own event.                                       *)
Compressible(place, c) ==
  place = "compressing" \/ (place = "summary" /\ c.due) => Len(c.history) >= L!interval
OfItsEvent(c) == c.nodes \subseteq {c.event} \cap Events
PipelineOK ==
  /\ stage \in [L!Producers -> L!Places]
  /\ ctx \in [L!Producers -> Contexts]
  /\ event_log \in L!Batch /\ batch_counter \in Nat
  /\ \A p \in L!Producers :
       /\ stage[p] \notin {"idle", "gone"} => ctx[p].event \in Events
       /\ Compressible(stage[p], ctx[p])
       /\ OfItsEvent(ctx[p])

(* Until two compressions meet, one at a time adds to the whole summary.    *)
SummaryOK ==
  /\ compressed_summary \in Seq(L!Batch) /\ batches \in Seq(L!Batch) /\ raced \in BOOLEAN
  /\ ~raced =>
       /\ compressed_summary = batches
       /\ \A p \in L!Producers : stage[p] = "compressing" =>
            /\ ctx[p].old = compressed_summary
            /\ \A q \in L!Producers : stage[q] = "compressing" => q = p

GraphOK ==
  /\ nodes \subseteq L!Nodes /\ IsFiniteSet(nodes)
  /\ invalid \subseteq nodes
  /\ edges \subseteq nodes \X nodes

(* What a pipeline holds of the graph: an edge joins nodes that are there,  *)
(* the pipeline's own, and dropped ones; with none of these it is added.    *)
Ends(e) == {e[1], e[2]}
KnownOf(p) ==
  /\ ctx[p].snapshot \subseteq nodes
  /\ \A e \in ctx[p].edges : Ends(e) \subseteq nodes \cup ctx[p].nodes \cup Dropped
  /\ stage[p] \in {"edges", "announce"} => ctx[p].nodes \subseteq nodes
  /\ stage[p] = "announce" =>
       \A e \in ctx[p].edges : e \in edges \/ Ends(e) \cap Dropped # {}
KnownOK == \A p \in L!Producers : KnownOf(p)

(* What a write has in hand is right for the graph.                         *)
AgentRight(a) ==
  /\ a \in [at : {"idle", "edges", "claim", "say"}, node : Nat, todo : SUBSET L!Nodes,
            nodes : SUBSET L!Nodes, edges : SUBSET L!Edges, http : BOOLEAN]
  /\ a.edges \subseteq edges
  /\ a.at # "claim" => a.nodes \subseteq nodes
  /\ a.at = "claim" => a.node \in L!Writes /\ a.nodes = {a.node}
AgentOK == AgentRight(agent) /\ writes \in 0..load.writes

(* An edge that was told of and is not there has an end that validation     *)
(* dropped, which will never be in the graph.                               *)
Told(m) ==
  /\ m.nodes \subseteq nodes
  /\ \A e \in m.edges : e \in edges \/ Ends(e) \cap Dropped # {}
Messages == [nodes : SUBSET L!Nodes, edges : SUBSET L!Edges, reports : BOOLEAN]
SentOK == sent \in Seq(Messages) /\ \A i \in DOMAIN sent : Told(sent[i])

ClientsOK ==
  /\ client \in [L!Clients -> [at : {"out", "in", "gone"}, next : Nat, last : Nat]]
  /\ \A c \in L!Clients : client[c].next <= Len(sent) /\ client[c].last <= client[c].next

(* A question about a graph with nodes keeps what it can fall back on.      *)
Askers == [at : {"idle", "llm", "rebuild", "embed", "found"}, snapshot : SUBSET nodes,
           bm25 : SUBSET nodes, seeds : SUBSET nodes, had : BOOLEAN]
AskerRight(a) ==
  /\ a \in Askers
  /\ a.had => nodes # {}
  /\ a.at \in {"rebuild", "embed"} /\ L!retriever = "hybrid" /\ a.had => a.bm25 # {}
  /\ a.at = "found" /\ a.had => a.seeds # {}
AskerOK ==
  /\ AskerRight(asker) /\ index \subseteq nodes
  /\ rebuild_on_query \in BOOLEAN /\ asks \in 0..load.asks

ServerInv ==
  GivenOK /\ LinesOK /\ PipelineOK /\ SummaryOK /\ GraphOK /\ KnownOK /\ AgentOK /\ SentOK
    /\ ClientsOK /\ AskerOK

LEMMA GivenIs ==
  ASSUME GivenOK
  PROVE  /\ Events \cap Nat = {} /\ Malformed \notin Events
         /\ Window \in Nat \ {0} /\ Capacity \in Nat \ {0} /\ TopN \in Nat \ {0}
         /\ load.writes \in Nat /\ load.asks \in Nat /\ L!interval \in Nat
         /\ load.clients \subseteq L!Clients
         /\ L!retriever \in {"bm25", "embedding", "hybrid"}
         /\ L!Writes \subseteq Nat /\ 1..load.writes \subseteq L!Writes
         /\ L!Nodes = Events \cup L!Writes /\ Dropped \cap L!Nodes = {}
<1>1. /\ Events \cap Nat = {} /\ Malformed \notin Events
      /\ Dropped \cap (Events \cup Nat) = {}
      /\ Window \in Nat \ {0} /\ Capacity \in Nat \ {0} /\ TopN \in Nat \ {0}
  BY DEF GivenOK, L!ServerAssumption
<1>2. load.writes \in Nat /\ load.asks \in Nat /\ load.interval \in Nat
      /\ load.retriever \in {"bm25", "embedding", "hybrid"}
  BY DEF GivenOK, L!ServerAssumption
<1>3. load.clients \subseteq L!Clients
  BY DEF GivenOK, L!Clients
<1>4. L!Writes \subseteq Nat /\ 1..load.writes \subseteq L!Writes
  BY DEF GivenOK, L!Writes
<1> QED
  BY <1>1, <1>2, <1>3, <1>4 DEF L!interval, L!retriever, L!Nodes

(* Batches: sequences of events that fit the window.                        *)
LEMMA BatchIs ==
  ASSUME GivenOK, NEW s
  PROVE  s \in L!Batch <=> s \in Seq(Events) /\ Len(s) <= Window
<1> USE GivenIs
<1>1. ASSUME s \in L!Batch
      PROVE  s \in Seq(Events) /\ Len(s) <= Window
  <2>1. PICK m \in 0..Window : s \in [1..m -> Events]
    BY <1>1 DEF L!Batch, L!BoundedSeq, L!SeqOf
  <2> QED
    BY <2>1
<1>2. ASSUME s \in Seq(Events), Len(s) <= Window
      PROVE  s \in L!Batch
  <2>1. Len(s) \in 0..Window /\ s \in [1..Len(s) -> Events]
    BY <1>2
  <2> QED
    BY <2>1 DEF L!Batch, L!BoundedSeq, L!SeqOf
<1> QED
  BY <1>1, <1>2

LEMMA TailIs ==
  ASSUME NEW S, NEW s \in Seq(S), s # <<>>
  PROVE  /\ Head(s) = s[1] /\ 1 \in DOMAIN s /\ Tail(s) \in Seq(S) /\ Len(s) >= 1
         /\ DOMAIN Tail(s) = 1..(Len(s) - 1)
         /\ \A i \in DOMAIN Tail(s) : i + 1 \in DOMAIN s /\ Tail(s)[i] = s[i + 1]
OBVIOUS

(* The log keeps the newest; the oldest of a history are a batch.           *)
LEMMA LogIs ==
  ASSUME GivenOK, NEW s \in L!Batch, NEW e \in Events
  PROVE  Append(IF Len(s) >= Window THEN Tail(s) ELSE s, e) \in L!Batch
<1> USE GivenIs, BatchIs
<1>1. s \in Seq(Events) /\ Len(s) <= Window
  OBVIOUS
<1>2. CASE Len(s) >= Window
  <2>1. s # <<>>
    BY <1>1, <1>2
  <2>2. Tail(s) \in Seq(Events) /\ Len(Tail(s)) = Len(s) - 1
    BY <1>1, <2>1
  <2>3. Append(Tail(s), e) \in Seq(Events) /\ Len(Append(Tail(s), e)) = Len(s)
    BY <1>1, <2>2
  <2> QED
    BY <1>1, <1>2, <2>3
<1>3. CASE ~(Len(s) >= Window)
  <2>1. Append(s, e) \in Seq(Events) /\ Len(Append(s, e)) = Len(s) + 1
    BY <1>1
  <2>2. Len(s) + 1 <= Window
    BY <1>1, <1>3
  <2> QED
    BY <1>3, <2>1, <2>2
<1> QED
  BY <1>2, <1>3

LEMMA OldestIs ==
  ASSUME GivenOK, NEW s \in L!Batch, L!interval <= Len(s)
  PROVE  SubSeq(s, 1, L!interval) \in L!Batch
<1>1. s \in Seq(Events) /\ Len(s) <= Window /\ L!interval \in Nat /\ Window \in Nat
  BY GivenIs, BatchIs
<1> DEFINE oldest == SubSeq(s, 1, L!interval)
<1>2. oldest \in Seq(Events) /\ Len(oldest) = L!interval
  BY <1>1
<1>3. oldest \in Seq(Events) /\ Len(oldest) <= Window
  BY <1>1, <1>2
<1> HIDE DEF oldest
<1>4. oldest \in L!Batch
  BY <1>3, BatchIs
<1> QED
  BY <1>4 DEF oldest

-------------------------------------------------------------------------------
(* The lines a producer has yet to read.                                    *)

LEMMA LinesStep ==
  ASSUME LinesOK, NEW p \in L!Producers, L!Produce(p) \/ L!Drop(p)
  PROVE  LinesOK'
<1> DEFINE Line == Seq(Events \cup {Malformed})
<1>0. lines \in [L!Producers -> Line]
  BY DEF LinesOK
<1>1. CASE lines[p] # <<>> /\ lines' = [lines EXCEPT ![p] = Tail(@)]
  <2>1. lines[p] \in Line /\ lines[p] # <<>>
    BY <1>0, <1>1
  <2>2. Tail(lines[p]) \in Line
    BY <2>1, TailIs
  <2> QED
    BY <1>0, <1>1, <2>2 DEF LinesOK
<1>2. CASE lines' = [lines EXCEPT ![p] = <<>>]
  <2>1. <<>> \in Line
    OBVIOUS
  <2> QED
    BY <1>0, <1>2, <2>1 DEF LinesOK
<1>3. CASE UNCHANGED lines
  BY <1>3 DEF LinesOK
<1> QED
  BY <1>1, <1>2, <1>3 DEF L!Produce, L!SkipLine, L!Take, L!ReadHistory, L!ReadSnapshot,
     L!Count, L!ReadSummary, L!Compress, L!CompressFails, L!Extract, L!Ground, L!GroundFails,
     L!AddNodes, L!AddEdges, L!Announce, L!Drop, L!Produced

-------------------------------------------------------------------------------
(* The pipelines.                                                           *)

LEMMA NoCtxIs ==
  ASSUME GivenOK
  PROVE  L!NoCtx \in Contexts /\ OfItsEvent(L!NoCtx) /\ L!NoCtx.event = Malformed
<1>1. <<>> \in L!Batch
  <2>1. <<>> \in Seq(Events) /\ Len(<<>>) <= Window
    BY GivenIs
  <2> QED
    BY <2>1, BatchIs
<1> QED
  BY <1>1 DEF L!NoCtx, Contexts, OfItsEvent

(* An extraction changes nothing, or adds the node of its event and edges   *)
(* between nodes of its snapshot, that one and dropped ones.                *)
LEMMA ExtractIs ==
  ASSUME GivenOK, PipelineOK, NEW p \in L!Producers, L!Extract(p), ~UNCHANGED ctx
  PROVE  \E es \in SUBSET L!Edges :
           /\ \A e \in es : Ends(e) \subseteq ctx[p].snapshot \cup {ctx[p].event} \cup Dropped
           /\ ctx' = [ctx EXCEPT ![p].nodes = {ctx[p].event}, ![p].edges = es]
<1> DEFINE ends == ctx[p].snapshot \cup {ctx[p].event} \cup Dropped
           Choices == {{}} \cup {{e} : e \in L!Joins(ends)}
           Adds(es) == ctx' = [ctx EXCEPT ![p].nodes = {ctx[p].event}, ![p].edges = es]
<1>0. \E es \in Choices : Adds(es)
  BY DEF L!Extract
<1> HIDE DEF Adds
<1>1. PICK es \in Choices : Adds(es)
  BY <1>0
<1>2. ctx[p] \in Contexts /\ ctx[p].event \in Events
  BY DEF PipelineOK, L!Extract
<1>3. ends \subseteq L!Nodes \cup Dropped
  BY <1>2, GivenIs DEF Contexts
<1>4. es \subseteq ends \X ends
  BY <1>1 DEF L!Joins
<1> HIDE DEF ends
<1>5. es \in SUBSET L!Edges
  BY <1>3, <1>4 DEF L!Edges
<1>6. \A e \in es : Ends(e) \subseteq ends
  BY <1>4 DEF Ends
<1> QED
  BY <1>1, <1>5, <1>6 DEF ends, Adds

LEMMA PipelineStep ==
  ASSUME GivenOK, LinesOK, PipelineOK, SummaryOK, GraphOK,
         NEW p \in L!Producers, L!Produce(p) \/ L!Drop(p)
  PROVE  PipelineOK'
<1> USE GivenIs
<1>0. /\ stage \in [L!Producers -> L!Places]
      /\ ctx \in [L!Producers -> Contexts] /\ ctx[p] \in Contexts
      /\ event_log \in L!Batch /\ batch_counter \in Nat
      /\ stage[p] \notin {"idle", "gone"} => ctx[p].event \in Events
      /\ Compressible(stage[p], ctx[p])
      /\ OfItsEvent(ctx[p])
  BY DEF PipelineOK
<1>1. ASSUME NEW s \in L!Places, NEW c \in Contexts,
             L!To(p, s), ctx' = [ctx EXCEPT ![p] = c], UNCHANGED load,
             event_log' \in L!Batch, batch_counter' \in Nat,
             s \notin {"idle", "gone"} => c.event \in Events,
             Compressible(s, c), OfItsEvent(c)
      PROVE  PipelineOK'
  <2>1. /\ stage' \in [L!Producers -> L!Places] /\ ctx' \in [L!Producers -> Contexts]
        /\ stage'[p] = s /\ ctx'[p] = c
        /\ \A q \in L!Producers : q # p => stage'[q] = stage[q] /\ ctx'[q] = ctx[q]
    BY <1>0, <1>1 DEF L!To
  <2>2. ASSUME NEW q \in L!Producers
        PROVE  /\ stage'[q] \notin {"idle", "gone"} => ctx'[q].event \in Events
               /\ Compressible(stage[q], ctx[q])'
               /\ OfItsEvent(ctx[q])'
    <3>1. CASE q = p
      BY <1>1, <2>1, <3>1 DEF Compressible, OfItsEvent, L!interval
    <3>2. CASE q # p
      BY <1>1, <2>1, <3>2 DEF PipelineOK, Compressible, OfItsEvent, L!interval
    <3> QED
      BY <3>1, <3>2
  <2> QED
    BY <1>1, <2>1, <2>2 DEF PipelineOK
<1>2. ASSUME L!SkipLine(p)
      PROVE  PipelineOK'
  BY <1>2 DEF L!SkipLine, L!Others, PipelineOK, Compressible, OfItsEvent, L!interval
<1>3. ASSUME L!Take(p)
      PROVE  PipelineOK'
  <2> DEFINE e == Head(lines[p])
             c == [L!NoCtx EXCEPT !.event = e]
  <2>1. e \in Events
    BY <1>3, TailIs DEF L!Take, LinesOK
  <2>2. c \in Contexts /\ c.event = e /\ OfItsEvent(c) /\ Compressible("history", c)
    BY <2>1, NoCtxIs DEF Contexts, OfItsEvent, Compressible, L!NoCtx
  <2>3. event_log' \in L!Batch
    BY <1>0, <1>3, <2>1, LogIs DEF L!Take
  <2>4. /\ L!To(p, "history") /\ ctx' = [ctx EXCEPT ![p] = c]
        /\ UNCHANGED <<load, batch_counter>>
    BY <1>3, <1>0 DEF L!Take, L!Others, L!producing
  <2> HIDE DEF c
  <2> QED
    BY <1>0, <1>1, <2>1, <2>2, <2>3, <2>4 DEF L!Places
<1>4. ASSUME L!ReadHistory(p)
      PROVE  PipelineOK'
  <2> DEFINE c == [ctx[p] EXCEPT !.history = event_log]
  <2>1. c \in Contexts /\ c.event = ctx[p].event /\ OfItsEvent(c) /\ Compressible("snapshot", c)
    BY <1>0 DEF Contexts, OfItsEvent, Compressible
  <2>2. ctx' = [ctx EXCEPT ![p] = c]
    BY <1>4 DEF L!ReadHistory
  <2>3. /\ L!To(p, "snapshot") /\ stage[p] = "history"
        /\ UNCHANGED <<load, event_log, batch_counter>>
    BY <1>4 DEF L!ReadHistory, L!Others
  <2> HIDE DEF c
  <2> QED
    BY <1>0, <1>1, <2>1, <2>2, <2>3 DEF L!Places
<1>5. ASSUME L!ReadSnapshot(p)
      PROVE  PipelineOK'
  <2> DEFINE c == [ctx[p] EXCEPT !.snapshot = nodes]
             s == IF L!interval = 0 THEN "extract" ELSE "compress"
  <2>1. c \in Contexts /\ c.event = ctx[p].event /\ OfItsEvent(c) /\ Compressible(s, c)
    BY <1>0 DEF Contexts, OfItsEvent, Compressible, GraphOK
  <2>2. ctx' = [ctx EXCEPT ![p] = c]
    BY <1>5 DEF L!ReadSnapshot
  <2>3. /\ L!To(p, s) /\ stage[p] = "snapshot" /\ s \in L!Places
        /\ UNCHANGED <<load, event_log, batch_counter>>
    BY <1>5 DEF L!ReadSnapshot, L!Others, L!Places
  <2> HIDE DEF c, s
  <2> QED
    BY <1>0, <1>1, <2>1, <2>2, <2>3
<1>6. ASSUME L!Count(p)
      PROVE  PipelineOK'
  <2> DEFINE d == (batch_counter + 1) % L!interval = 0 /\ Len(ctx[p].history) >= L!interval
             c == [ctx[p] EXCEPT !.due = d]
  <2>1. c \in Contexts /\ c.event = ctx[p].event /\ OfItsEvent(c)
    BY <1>0 DEF Contexts, OfItsEvent
  <2>2. Compressible("summary", c)
    BY <1>0 DEF Contexts, Compressible
  <2>3. ctx' = [ctx EXCEPT ![p] = c]
    BY <1>6 DEF L!Count
  <2>4. /\ L!To(p, "summary") /\ stage[p] = "compress"
        /\ batch_counter' \in Nat /\ UNCHANGED <<load, event_log>>
    BY <1>0, <1>6 DEF L!Count, L!Others
  <2> HIDE DEF c
  <2> QED
    BY <1>0, <1>1, <2>1, <2>2, <2>3, <2>4 DEF L!Places
<1>7. ASSUME L!ReadSummary(p)
      PROVE  PipelineOK'
  <2> DEFINE c == [ctx[p] EXCEPT !.old = compressed_summary]
             s == IF ctx[p].due THEN "compressing" ELSE "extract"
  <2>1. c \in Contexts /\ c.event = ctx[p].event /\ OfItsEvent(c)
    BY <1>0 DEF Contexts, OfItsEvent, SummaryOK
  <2>2. stage[p] = "summary" /\ Compressible(s, c)
    BY <1>0, <1>7 DEF Contexts, Compressible, L!ReadSummary
  <2>3. ctx' = [ctx EXCEPT ![p] = c]
    BY <1>7 DEF L!ReadSummary
  <2>4. /\ L!To(p, s) /\ s \in L!Places
        /\ UNCHANGED <<load, event_log, batch_counter>>
    BY <1>7 DEF L!ReadSummary, L!Others, L!Places
  <2> HIDE DEF c, s
  <2> QED
    BY <1>0, <1>1, <2>1, <2>2, <2>3, <2>4
<1>8. ASSUME L!Extract(p)
      PROVE  PipelineOK'
  <2>1. stage[p] = "extract" /\ ctx[p].event \in Events
    BY <1>0, <1>8 DEF L!Extract
  <2>2. L!To(p, "ground") /\ UNCHANGED <<load, event_log, batch_counter>>
    BY <1>8 DEF L!Extract, L!Others
  <2>3. ASSUME NEW c \in Contexts, c.event = ctx[p].event, OfItsEvent(c),
               ctx' = [ctx EXCEPT ![p] = c]
        PROVE  PipelineOK'
    <3>1. Compressible("ground", c)
      BY DEF Compressible
    <3> QED
      BY <1>0, <1>1, <2>1, <2>2, <2>3, <3>1 DEF L!Places
  <2>4. CASE UNCHANGED ctx
    <3>1. ctx' = [ctx EXCEPT ![p] = ctx[p]]
      BY <1>0, <2>4
    <3> QED
      BY <1>0, <2>3, <3>1
  <2>5. CASE ~UNCHANGED ctx
    <3>1. PICK es \in SUBSET L!Edges :
            ctx' = [ctx EXCEPT ![p].nodes = {ctx[p].event}, ![p].edges = es]
      BY <1>8, <2>5, ExtractIs
    <3> DEFINE c == [ctx[p] EXCEPT !.nodes = {ctx[p].event}, !.edges = es]
    <3>2. {ctx[p].event} \in SUBSET L!Nodes
      BY <2>1
    <3>3. c \in Contexts /\ c.event = ctx[p].event /\ c.nodes = {ctx[p].event}
      BY <1>0, <3>2 DEF Contexts
    <3>4. OfItsEvent(c)
      BY <2>1, <3>3 DEF OfItsEvent
    <3>5. ctx' = [ctx EXCEPT ![p] = c]
      BY <3>1
    <3> HIDE DEF c
    <3> QED
      BY <2>3, <3>3, <3>4, <3>5
  <2> QED
    BY <2>4, <2>5
<1>9. ASSUME L!Ground(p)
      PROVE  PipelineOK'
  <2> DEFINE c == [ctx[p] EXCEPT !.reports = TRUE]
  <2>1. c \in Contexts /\ c.event = ctx[p].event /\ OfItsEvent(c) /\ Compressible("nodes", c)
    BY <1>0 DEF Contexts, OfItsEvent, Compressible
  <2>2. ctx' = [ctx EXCEPT ![p] = c]
    BY <1>9 DEF L!Ground
  <2>3. /\ L!To(p, "nodes") /\ stage[p] = "ground"
        /\ UNCHANGED <<load, event_log, batch_counter>>
    BY <1>9 DEF L!Ground, L!Others
  <2> HIDE DEF c
  <2> QED
    BY <1>0, <1>1, <2>1, <2>2, <2>3 DEF L!Places
<1>10. ASSUME NEW s \in {"extract", "nodes", "edges", "announce"}, L!To(p, s),
              stage[p] \notin {"idle", "gone"},
              UNCHANGED <<ctx, load, event_log, batch_counter>>
       PROVE  PipelineOK'
  <2>1. ctx' = [ctx EXCEPT ![p] = ctx[p]] /\ Compressible(s, ctx[p]) /\ s \in L!Places
    BY <1>0, <1>10 DEF Compressible, L!Places
  <2> QED
    BY <1>0, <1>1, <1>10, <2>1
<1>11. ASSUME L!Compress(p) \/ L!CompressFails(p) \/ L!GroundFails(p)
       PROVE  PipelineOK'
  <2>1. /\ stage[p] \notin {"idle", "gone"}
        /\ L!To(p, "extract") \/ L!To(p, "nodes")
        /\ UNCHANGED <<ctx, load, event_log, batch_counter>>
    BY <1>11 DEF L!Compress, L!CompressFails, L!GroundFails, L!Others
  <2> QED
    BY <1>10, <2>1
<1>12. ASSUME L!AddNodes(p) \/ L!AddEdges(p)
       PROVE  PipelineOK'
  <2>1. /\ stage[p] \notin {"idle", "gone"}
        /\ L!To(p, "edges") \/ L!To(p, "announce")
        /\ UNCHANGED <<ctx, load, event_log, batch_counter>>
    BY <1>12 DEF L!AddNodes, L!AddEdges, L!Produced
  <2> QED
    BY <1>10, <2>1
<1>13. ASSUME L!Announce(p) \/ L!Drop(p)
       PROVE  PipelineOK'
  <2>1. /\ L!To(p, "idle") \/ L!To(p, "gone")
        /\ ctx' = [ctx EXCEPT ![p] = L!NoCtx]
        /\ UNCHANGED <<load, event_log, batch_counter>>
    BY <1>13 DEF L!Announce, L!Drop, L!Produced, L!Others
  <2>2. Compressible("idle", L!NoCtx) /\ Compressible("gone", L!NoCtx)
        /\ {"idle", "gone"} \subseteq L!Places
    BY DEF Compressible, L!Places
  <2> QED
    BY <1>0, <1>1, <2>1, <2>2, NoCtxIs
<1> QED
  BY <1>2, <1>3, <1>4, <1>5, <1>6, <1>7, <1>8, <1>9, <1>11, <1>12, <1>13 DEF L!Produce

(* The running summary: only a compression writes it, and until two meet,   *)
(* of the summary that it read.                                             *)
LEMMA SummaryStep ==
  ASSUME GivenOK, PipelineOK, SummaryOK, NEW p \in L!Producers, L!Produce(p) \/ L!Drop(p)
  PROVE  SummaryOK'
<1> DEFINE Summaries == Seq(L!Batch)
<1>0. /\ stage \in [L!Producers -> L!Places]
      /\ ctx \in [L!Producers -> Contexts] /\ ctx[p] \in Contexts
      /\ Compressible(stage[p], ctx[p])
      /\ compressed_summary \in Summaries /\ batches \in Summaries /\ raced \in BOOLEAN
  BY DEF PipelineOK, SummaryOK
<1>1. ASSUME UNCHANGED <<compressed_summary, batches, raced>>,
             NEW s, s # "compressing", L!To(p, s),
             \A q \in L!Producers : q # p => ctx'[q] = ctx[q]
      PROVE  SummaryOK'
  <2>1. stage'[p] = s /\ \A q \in L!Producers : q # p => stage'[q] = stage[q]
    BY <1>0, <1>1 DEF L!To
  <2> QED
    BY <1>0, <1>1, <2>1 DEF SummaryOK
<1>2. ASSUME L!SkipLine(p)
      PROVE  SummaryOK'
  BY <1>0, <1>2 DEF L!SkipLine, SummaryOK
<1>3. ASSUME L!ReadSummary(p)
      PROVE  SummaryOK'
  <2>1. /\ UNCHANGED <<compressed_summary, batches>>
        /\ ctx' = [ctx EXCEPT ![p].old = compressed_summary]
        /\ L!To(p, IF ctx[p].due THEN "compressing" ELSE "extract")
        /\ raced' = (raced \/ (ctx[p].due /\ \E q \in L!Producers : stage[q] = "compressing"))
    BY <1>3 DEF L!ReadSummary
  <2>2. /\ ctx'[p].old = compressed_summary
        /\ \A q \in L!Producers : q # p => ctx'[q] = ctx[q]
    BY <1>0, <2>1 DEF Contexts
  <2>3. CASE ~ctx[p].due
    <3>1. UNCHANGED raced /\ L!To(p, "extract")
      BY <1>0, <2>1, <2>3
    <3> QED
      BY <1>1, <2>1, <2>2, <3>1
  <2>4. CASE ctx[p].due
    <3>1. /\ stage'[p] = "compressing" /\ \A q \in L!Producers : q # p => stage'[q] = stage[q]
      BY <1>0, <2>1, <2>4 DEF L!To
    <3>2. raced' \in BOOLEAN
      BY <2>1
    <3>3. ASSUME ~raced'
          PROVE  ~raced /\ \A q \in L!Producers : stage[q] # "compressing"
      BY <2>1, <2>4, <3>3
    <3>4. ASSUME ~raced', NEW q \in L!Producers, stage'[q] = "compressing"
          PROVE  q = p
      BY <3>1, <3>3, <3>4
    <3>5. ~raced' => compressed_summary' = batches'
      BY <2>1, <3>3 DEF SummaryOK
    <3>6. ASSUME ~raced'
          PROVE  \A q \in L!Producers : stage'[q] = "compressing" =>
                    /\ ctx'[q].old = compressed_summary'
                    /\ \A r \in L!Producers : stage'[r] = "compressing" => r = q
      BY <2>1, <2>2, <3>4, <3>6
    <3> QED
      BY <1>0, <2>1, <3>2, <3>5, <3>6 DEF SummaryOK
  <2> QED
    BY <2>3, <2>4
<1>4. ASSUME L!Compress(p)
      PROVE  SummaryOK'
  <2>1. /\ stage[p] = "compressing"
        /\ compressed_summary' = Append(ctx[p].old, L!Oldest(p))
        /\ batches' = Append(batches, L!Oldest(p))
        /\ L!To(p, "extract") /\ UNCHANGED <<ctx, raced>>
    BY <1>4 DEF L!Compress
  <2>2. L!Oldest(p) \in L!Batch /\ ctx[p].old \in Summaries
    <3>1. ctx[p].history \in L!Batch /\ ctx[p].old \in Summaries
      BY <1>0 DEF Contexts
    <3>2. L!interval <= Len(ctx[p].history)
      <4>1. Len(ctx[p].history) >= L!interval
        BY <1>0, <2>1 DEF Compressible
      <4>2. Len(ctx[p].history) \in Nat /\ L!interval \in Nat
        BY <3>1, BatchIs, GivenIs
      <4> QED
        BY <4>1, <4>2
    <3> QED
      BY <3>1, <3>2, OldestIs DEF L!Oldest
  <2>3. compressed_summary' \in Summaries /\ batches' \in Summaries
    BY <1>0, <2>1, <2>2
  <2>4. stage'[p] = "extract" /\ \A q \in L!Producers : q # p => stage'[q] = stage[q]
    BY <1>0, <2>1 DEF L!To
  <2>5. ASSUME ~raced'
        PROVE  /\ compressed_summary' = batches'
               /\ \A q \in L!Producers : stage'[q] # "compressing"
    <3>1. /\ ctx[p].old = batches
          /\ \A q \in L!Producers : stage[q] = "compressing" => q = p
      BY <2>1, <2>5 DEF SummaryOK
    <3> QED
      BY <2>1, <2>4, <3>1
  <2> QED
    BY <1>0, <2>1, <2>3, <2>5 DEF SummaryOK
<1>5. ASSUME L!Take(p) \/ L!ReadHistory(p) \/ L!Count(p) \/ L!Ground(p) \/ L!Announce(p)
             \/ L!Drop(p) \/ L!ReadSnapshot(p) \/ L!CompressFails(p) \/ L!GroundFails(p)
             \/ L!AddNodes(p) \/ L!AddEdges(p) \/ L!Extract(p)
      PROVE  SummaryOK'
  <2>1. UNCHANGED <<compressed_summary, batches, raced>>
    BY <1>5 DEF L!Take, L!ReadHistory, L!Count, L!Ground, L!Announce, L!Drop, L!ReadSnapshot,
                L!CompressFails, L!GroundFails, L!AddNodes, L!AddEdges, L!Extract, L!Produced
  <2>2. \E s : s # "compressing" /\ L!To(p, s)
    BY <1>5 DEF L!Take, L!ReadHistory, L!Count, L!Ground, L!Announce, L!Drop, L!ReadSnapshot,
                L!CompressFails, L!GroundFails, L!AddNodes, L!AddEdges, L!Extract
  <2>3. \A q \in L!Producers : q # p => ctx'[q] = ctx[q]
    BY <1>0, <1>5 DEF L!Take, L!ReadHistory, L!Count, L!Ground, L!Announce, L!Drop,
                L!ReadSnapshot, L!CompressFails, L!GroundFails, L!AddNodes, L!AddEdges, L!Extract
  <2> QED
    BY <1>1, <2>1, <2>2, <2>3
<1> QED
  BY <1>2, <1>3, <1>4, <1>5 DEF L!Produce

-------------------------------------------------------------------------------
(* The graph grows, and what was told stays right.                          *)

Grows == nodes \subseteq nodes' /\ edges \subseteq edges'

LEMMA ToldKept ==
  ASSUME Grows, NEW m, Told(m)
  PROVE  Told(m)'
BY DEF Told, Grows, Ends

LEMMA SentKept ==
  ASSUME SentOK, Grows, UNCHANGED sent
  PROVE  SentOK'
BY ToldKept DEF SentOK

LEMMA SentMore ==
  ASSUME SentOK, Grows, NEW m \in Messages, sent' = Append(sent, m), Told(m)'
  PROVE  SentOK' /\ Len(sent') = Len(sent) + 1
<1>1. /\ sent' \in Seq(Messages) /\ Len(sent') = Len(sent) + 1
      /\ DOMAIN sent = 1..Len(sent) /\ DOMAIN sent' = 1..Len(sent') /\ Len(sent) \in Nat
      /\ sent'[Len(sent) + 1] = m
      /\ \A i \in 1..Len(sent) : sent'[i] = sent[i]
  BY DEF SentOK
<1>2. ASSUME NEW i \in DOMAIN sent'
      PROVE  Told(sent[i])'
  <2>1. CASE i \in 1..Len(sent)
    <3>1. Told(sent[i])
      BY <1>1, <2>1 DEF SentOK
    <3>2. sent'[i] = sent[i]
      BY <1>1, <2>1
    <3> QED
      BY <3>1, <3>2, ToldKept
  <2>2. CASE i = Len(sent) + 1
    BY <1>1, <2>2
  <2> QED
    BY <1>1, <2>1, <2>2
<1> QED
  BY <1>1, <1>2 DEF SentOK

LEMMA AgentKept ==
  ASSUME AgentOK, Grows, UNCHANGED <<agent, writes, load>>
  PROVE  AgentOK'
BY DEF AgentOK, AgentRight, Grows

LEMMA ClientsKept ==
  ASSUME ClientsOK, UNCHANGED client, Len(sent) \in Nat, Len(sent') \in Nat,
         Len(sent) <= Len(sent')
  PROVE  ClientsOK'
<1>1. \A c \in L!Clients : client[c].next \in Nat /\ client[c].next <= Len(sent)
  BY DEF ClientsOK
<1>2. \A n \in Nat : n <= Len(sent) => n <= Len(sent')
  OBVIOUS
<1>3. \A c \in L!Clients : client[c].next <= Len(sent')
  BY <1>1, <1>2
<1> QED
  BY <1>3 DEF ClientsOK

LEMMA AskerKept ==
  ASSUME AskerOK, Grows, UNCHANGED <<index, rebuild_on_query, asker, asks, load>>
  PROVE  AskerOK'
BY DEF AskerOK, AskerRight, Askers, Grows, L!retriever

LEMMA KnownKept ==
  ASSUME Grows, NEW q \in L!Producers, KnownOf(q), stage'[q] = stage[q], ctx'[q] = ctx[q]
  PROVE  KnownOf(q)'
BY DEF KnownOf, Grows, Ends

-------------------------------------------------------------------------------
(* The rest of what the producers do.                                       *)

(* A step of one pipeline that leaves the graph as it is.                   *)
LEMMA KnownLocal ==
  ASSUME PipelineOK, KnownOK, UNCHANGED <<nodes, edges>>, NEW p \in L!Producers,
         NEW s, s \notin {"edges", "announce"}, L!To(p, s),
         \A q \in L!Producers : q # p => ctx'[q] = ctx[q],
         ctx'[p].snapshot \subseteq nodes,
         \A e \in ctx'[p].edges : Ends(e) \subseteq nodes \cup ctx'[p].nodes \cup Dropped
  PROVE  KnownOK'
<1>1. stage'[p] = s /\ \A q \in L!Producers : q # p => stage'[q] = stage[q]
  BY DEF L!To, PipelineOK
<1>2. KnownOf(p)'
  BY <1>1 DEF KnownOf, Ends
<1>3. ASSUME NEW q \in L!Producers, q # p
      PROVE  KnownOf(q)'
  BY <1>1, <1>3 DEF KnownOf, KnownOK, Ends
<1> QED
  BY <1>2, <1>3 DEF KnownOK

LEMMA CarriedStep ==
  ASSUME GivenOK, PipelineOK, GraphOK, KnownOK, NEW p \in L!Producers,
         L!Produce(p) \/ L!Drop(p), ~L!AddNodes(p), ~L!AddEdges(p)
  PROVE  KnownOK' /\ UNCHANGED <<nodes, edges, invalid>>
<1>0. /\ stage \in [L!Producers -> L!Places]
      /\ ctx \in [L!Producers -> Contexts] /\ ctx[p] \in Contexts
      /\ ctx[p].snapshot \subseteq nodes
      /\ \A e \in ctx[p].edges : Ends(e) \subseteq nodes \cup ctx[p].nodes \cup Dropped
  BY DEF PipelineOK, KnownOK, KnownOf
<1>1. UNCHANGED <<nodes, edges, invalid>>
  BY DEF L!Produce, L!SkipLine, L!Take, L!ReadHistory, L!ReadSnapshot, L!Count, L!ReadSummary,
         L!Compress, L!CompressFails, L!Extract, L!Ground, L!GroundFails, L!Announce, L!Drop,
         L!Others, L!graph
<1>2. CASE L!SkipLine(p)
  BY <1>1, <1>2 DEF L!SkipLine, KnownOK, KnownOf, Ends
<1>3. CASE L!Take(p) \/ L!Announce(p) \/ L!Drop(p)
  <2>1. \E c : /\ ctx' = [ctx EXCEPT ![p] = c] /\ c.snapshot = {} /\ c.edges = {}
    BY <1>3 DEF L!Take, L!Announce, L!Drop, L!NoCtx
  <2>2. /\ ctx'[p].snapshot = {} /\ ctx'[p].edges = {}
        /\ \A q \in L!Producers : q # p => ctx'[q] = ctx[q]
    BY <1>0, <2>1
  <2>3. \E s : s \notin {"edges", "announce"} /\ L!To(p, s)
    BY <1>3 DEF L!Take, L!Announce, L!Drop
  <2> QED
    BY <1>1, <2>2, <2>3, KnownLocal
<1>4. CASE L!ReadSnapshot(p)
  <2>1. /\ ctx'[p].snapshot = nodes /\ ctx'[p].edges = ctx[p].edges
        /\ ctx'[p].nodes = ctx[p].nodes
        /\ \A q \in L!Producers : q # p => ctx'[q] = ctx[q]
    BY <1>0, <1>4 DEF L!ReadSnapshot, Contexts
  <2>2. \E s : s \notin {"edges", "announce"} /\ L!To(p, s)
    BY <1>4 DEF L!ReadSnapshot
  <2> QED
    BY <1>0, <1>1, <2>1, <2>2, KnownLocal
<1>5. CASE L!Extract(p)
  <2>1. L!To(p, "ground")
    BY <1>5 DEF L!Extract
  <2>2. CASE UNCHANGED ctx
    BY <1>0, <1>1, <2>1, <2>2, KnownLocal
  <2>3. CASE ~UNCHANGED ctx
    <3>1. PICK es \in SUBSET L!Edges :
            /\ \A e \in es : Ends(e) \subseteq ctx[p].snapshot \cup {ctx[p].event} \cup Dropped
            /\ ctx' = [ctx EXCEPT ![p].nodes = {ctx[p].event}, ![p].edges = es]
      BY <1>5, <2>3, ExtractIs
    <3>2. /\ ctx'[p].snapshot = ctx[p].snapshot /\ ctx'[p].edges = es
          /\ ctx'[p].nodes = {ctx[p].event}
          /\ \A q \in L!Producers : q # p => ctx'[q] = ctx[q]
      BY <1>0, <3>1 DEF Contexts
    <3>3. \A e \in es : Ends(e) \subseteq nodes \cup {ctx[p].event} \cup Dropped
      BY <1>0, <3>1
    <3> QED
      BY <1>0, <1>1, <2>1, <3>2, <3>3, KnownLocal
  <2> QED
    BY <2>2, <2>3
<1>6. CASE L!ReadHistory(p)
  <2>1. /\ ctx'[p].snapshot = ctx[p].snapshot /\ ctx'[p].edges = ctx[p].edges
        /\ ctx'[p].nodes = ctx[p].nodes
        /\ \A q \in L!Producers : q # p => ctx'[q] = ctx[q]
    BY <1>0, <1>6 DEF L!ReadHistory, Contexts
  <2>2. \E s : s \notin {"edges", "announce"} /\ L!To(p, s)
    BY <1>6 DEF L!ReadHistory
  <2> QED
    BY <1>0, <1>1, <2>1, <2>2, KnownLocal
<1>7. CASE L!Count(p)
  <2>1. /\ ctx'[p].snapshot = ctx[p].snapshot /\ ctx'[p].edges = ctx[p].edges
        /\ ctx'[p].nodes = ctx[p].nodes
        /\ \A q \in L!Producers : q # p => ctx'[q] = ctx[q]
    BY <1>0, <1>7 DEF L!Count, Contexts
  <2>2. \E s : s \notin {"edges", "announce"} /\ L!To(p, s)
    BY <1>7 DEF L!Count
  <2> QED
    BY <1>0, <1>1, <2>1, <2>2, KnownLocal
<1>8. CASE L!ReadSummary(p)
  <2>1. /\ ctx'[p].snapshot = ctx[p].snapshot /\ ctx'[p].edges = ctx[p].edges
        /\ ctx'[p].nodes = ctx[p].nodes
        /\ \A q \in L!Producers : q # p => ctx'[q] = ctx[q]
    BY <1>0, <1>8 DEF L!ReadSummary, Contexts
  <2>2. \E s : s \notin {"edges", "announce"} /\ L!To(p, s)
    BY <1>8 DEF L!ReadSummary
  <2> QED
    BY <1>0, <1>1, <2>1, <2>2, KnownLocal
<1>9. CASE L!Ground(p)
  <2>1. /\ ctx'[p].snapshot = ctx[p].snapshot /\ ctx'[p].edges = ctx[p].edges
        /\ ctx'[p].nodes = ctx[p].nodes
        /\ \A q \in L!Producers : q # p => ctx'[q] = ctx[q]
    BY <1>0, <1>9 DEF L!Ground, Contexts
  <2>2. \E s : s \notin {"edges", "announce"} /\ L!To(p, s)
    BY <1>9 DEF L!Ground
  <2> QED
    BY <1>0, <1>1, <2>1, <2>2, KnownLocal
<1>10. CASE L!Compress(p) \/ L!CompressFails(p) \/ L!GroundFails(p)
  <2>1. /\ ctx'[p].snapshot = ctx[p].snapshot /\ ctx'[p].edges = ctx[p].edges
        /\ ctx'[p].nodes = ctx[p].nodes
        /\ \A q \in L!Producers : q # p => ctx'[q] = ctx[q]
    BY <1>0, <1>10 DEF L!Compress, L!CompressFails, L!GroundFails, Contexts
  <2>2. \E s : s \notin {"edges", "announce"} /\ L!To(p, s)
    BY <1>10 DEF L!Compress, L!CompressFails, L!GroundFails
  <2> QED
    BY <1>0, <1>1, <2>1, <2>2, KnownLocal
<1> QED
  BY <1>1, <1>2, <1>3, <1>4, <1>5, <1>6, <1>7, <1>8, <1>9, <1>10 DEF L!Produce

LEMMA AddNodesStep ==
  ASSUME ServerInv, NEW p \in L!Producers, L!AddNodes(p)
  PROVE  Grows /\ GraphOK' /\ KnownOK' /\ UNCHANGED sent
<1> USE DEF ServerInv
<1>1. /\ nodes' = nodes \cup ctx[p].nodes /\ UNCHANGED <<edges, invalid, sent, ctx>>
      /\ L!To(p, "edges")
  BY DEF L!AddNodes
<1>2. ctx[p].nodes \subseteq {ctx[p].event} \cap Events
  BY DEF PipelineOK, OfItsEvent
<1>3. Grows
  BY <1>1 DEF Grows
<1>4. GraphOK'
  <2>1. IsFiniteSet(ctx[p].nodes)
    <3>1. IsFiniteSet({ctx[p].event})
      BY FS_Singleton
    <3> QED
      BY <3>1, <1>2, FS_Subset
  <2>2. IsFiniteSet(nodes')
    BY <1>1, <2>1, FS_Union DEF GraphOK
  <2>3. nodes' \subseteq L!Nodes
    BY <1>1, <1>2, GivenIs DEF GraphOK
  <2> QED
    BY <1>1, <2>2, <2>3 DEF GraphOK
<1>5. stage'[p] = "edges" /\ \A q \in L!Producers : q # p => stage'[q] = stage[q]
  BY <1>1 DEF L!To, PipelineOK
<1>6. KnownOf(p)'
  BY <1>1, <1>5 DEF KnownOK, KnownOf, Ends
<1>7. ASSUME NEW q \in L!Producers, q # p
      PROVE  KnownOf(q)'
  <2>1. KnownOf(q)
    BY DEF KnownOK
  <2> QED
    BY <1>1, <1>3, <1>5, <1>7, <2>1, KnownKept
<1> QED
  BY <1>1, <1>3, <1>4, <1>6, <1>7 DEF KnownOK

LEMMA AddEdgesStep ==
  ASSUME ServerInv, NEW p \in L!Producers, L!AddEdges(p)
  PROVE  Grows /\ GraphOK' /\ KnownOK' /\ UNCHANGED sent
<1> USE DEF ServerInv
<1>1. /\ edges' = edges \cup (ctx[p].edges \cap (nodes \X nodes))
      /\ UNCHANGED <<nodes, invalid, sent, ctx>> /\ L!To(p, "announce")
      /\ stage[p] = "edges"
  BY DEF L!AddEdges
<1>2. Grows /\ GraphOK'
  BY <1>1 DEF Grows, GraphOK
<1>3. stage'[p] = "announce" /\ \A q \in L!Producers : q # p => stage'[q] = stage[q]
  BY <1>1 DEF L!To, PipelineOK
<1>4. KnownOf(p)'
  <2>1. KnownOf(p) /\ ctx[p] \in Contexts
    BY DEF KnownOK, PipelineOK
  <2>2. ASSUME NEW e \in ctx[p].edges, Ends(e) \cap Dropped = {}
        PROVE  e \in edges'
    <3>1. e \in L!Edges /\ Ends(e) \subseteq nodes
      BY <1>1, <2>1, <2>2 DEF Contexts, KnownOf
    <3>2. e = <<e[1], e[2]>>
      BY <3>1 DEF L!Edges
    <3>3. e \in nodes \X nodes
      BY <3>1, <3>2 DEF Ends
    <3> QED
      BY <1>1, <3>3
  <2> QED
    BY <1>1, <1>3, <2>1, <2>2 DEF KnownOf, Ends
<1>5. ASSUME NEW q \in L!Producers, q # p
      PROVE  KnownOf(q)'
  <2>1. KnownOf(q)
    BY DEF KnownOK
  <2> QED
    BY <1>1, <1>2, <1>3, <1>5, <2>1, KnownKept
<1> QED
  BY <1>1, <1>2, <1>4, <1>5 DEF KnownOK

LEMMA AnnounceStep ==
  ASSUME ServerInv, NEW p \in L!Producers, L!Announce(p)
  PROVE  Grows /\ SentOK' /\ Len(sent') = Len(sent) + 1
<1> USE DEF ServerInv
<1>1. /\ stage[p] = "announce"
      /\ UNCHANGED <<nodes, edges>>
  BY DEF L!Announce, L!graph
<1>2. PICK c \in Contexts : c = ctx[p]
  BY DEF PipelineOK
<1>3. PICK m : m = L!Message(c.nodes, c.edges, p = Runner /\ c.reports)
  OBVIOUS
<1>4. sent' = Append(sent, m)
  BY <1>2, <1>3 DEF L!Announce
<1>5. KnownOf(p)
  BY DEF KnownOK
<1>6. m \in Messages /\ m.nodes = c.nodes /\ m.edges = c.edges
  BY <1>2, <1>3 DEF Messages, Contexts, L!Message
<1>7. Grows
  BY <1>1 DEF Grows
<1>8. Told(m)'
  <2>1. Told(m)
    BY <1>1, <1>2, <1>5, <1>6 DEF Told, KnownOf
  <2> QED
    BY <1>7, <2>1, ToldKept
<1> QED
  BY <1>4, <1>6, <1>7, <1>8, SentMore

LEMMA ProduceStep ==
  ASSUME ServerInv, NEW p \in L!Producers, L!Produce(p) \/ L!Drop(p)
  PROVE  ServerInv'
<1> USE DEF ServerInv
<1>1. LinesOK' /\ PipelineOK' /\ SummaryOK'
  BY LinesStep, PipelineStep, SummaryStep
<1>2. UNCHANGED <<load, agent, writes, client, index, rebuild_on_query, asker, asks>>
  BY DEF L!Produce, L!SkipLine, L!Take, L!ReadHistory, L!ReadSnapshot, L!Count, L!ReadSummary,
         L!Compress, L!CompressFails, L!Extract, L!Ground, L!GroundFails, L!AddNodes,
         L!AddEdges, L!Announce, L!Drop, L!Others, L!Produced, L!writing, L!asking
<1>3. GivenOK'
  BY <1>2 DEF GivenOK, L!ServerAssumption
<1>4. Grows /\ GraphOK' /\ KnownOK'
  <2>1. CASE L!AddNodes(p) \/ L!AddEdges(p)
    BY <2>1, AddNodesStep, AddEdgesStep
  <2>2. CASE ~L!AddNodes(p) /\ ~L!AddEdges(p)
    <3>1. KnownOK' /\ UNCHANGED <<nodes, edges, invalid>>
      BY <2>2, CarriedStep
    <3> QED
      BY <3>1 DEF Grows, GraphOK
  <2> QED
    BY <2>1, <2>2
<1>5. SentOK' /\ (UNCHANGED sent \/ Len(sent') = Len(sent) + 1)
  <2>1. CASE L!Announce(p)
    BY <1>1, <2>1, AnnounceStep
  <2>2. CASE ~L!Announce(p)
    <3>1. UNCHANGED sent
      BY <2>2 DEF L!Produce, L!SkipLine, L!Take, L!ReadHistory, L!ReadSnapshot, L!Count,
         L!ReadSummary, L!Compress, L!CompressFails, L!Extract, L!Ground, L!GroundFails,
         L!AddNodes, L!AddEdges, L!Drop, L!Others
    <3> QED
      BY <1>1, <1>4, <3>1, SentKept
  <2> QED
    BY <2>1, <2>2
<1>6. Len(sent) \in Nat /\ Len(sent') \in Nat /\ Len(sent) <= Len(sent')
  <2>1. Len(sent) \in Nat /\ Len(sent') \in Nat
    BY <1>5 DEF SentOK
  <2> QED
    BY <1>5, <2>1
<1> QED
  BY <1>1, <1>2, <1>3, <1>4, <1>5, <1>6, AgentKept, ClientsKept, AskerKept

-------------------------------------------------------------------------------
(* The agents, the clients and the questions.                               *)

LEMMA ProducersKept ==
  ASSUME ServerInv, UNCHANGED <<load, L!producing>>, Grows
  PROVE  GivenOK' /\ LinesOK' /\ PipelineOK' /\ SummaryOK' /\ KnownOK'
<1> USE DEF ServerInv
<1>1. UNCHANGED <<load, lines, stage, ctx, event_log, compressed_summary, batch_counter,
                  batches, raced>>
  BY DEF L!producing
<1>2. GivenOK'
  BY <1>1 DEF GivenOK, L!ServerAssumption
<1>3. LinesOK'
  BY <1>1 DEF LinesOK
<1>4. PipelineOK'
  BY <1>1 DEF PipelineOK, Compressible, OfItsEvent, L!interval
<1>5. SummaryOK'
  BY <1>1 DEF SummaryOK
<1>6. ASSUME NEW q \in L!Producers
      PROVE  KnownOf(q)'
  <2>1. KnownOf(q)
    BY DEF KnownOK
  <2> QED
    BY <1>1, <2>1, KnownKept
<1> QED
  BY <1>2, <1>3, <1>4, <1>5, <1>6 DEF KnownOK

LEMMA FreshIs ==
  ASSUME GivenOK, AgentOK, L!MayWrite
  PROVE  /\ L!Fresh \in L!Writes /\ L!Fresh \in Nat /\ L!Fresh \in L!Nodes
         /\ L!Fresh \in 0..load.writes
<1>1. writes \in 0..load.writes /\ writes < load.writes /\ load.writes \in Nat
  BY GivenIs DEF AgentOK, L!MayWrite
<1>2. L!Fresh \in 1..load.writes
  BY <1>1 DEF L!Fresh
<1> QED
  BY <1>1, <1>2, GivenIs

LEMMA NoAgentIs == AgentRight(L!NoAgent)
BY DEF AgentRight, L!NoAgent, L!Agent

LEMMA WriteStep ==
  ASSUME ServerInv, L!Write
  PROVE  /\ Grows /\ GraphOK' /\ AgentOK'
         /\ UNCHANGED <<load, L!producing, L!asking, client>>
         /\ \/ UNCHANGED sent
            \/ \E m \in Messages : sent' = Append(sent, m) /\ Told(m)'
<1> USE DEF ServerInv
<1> DEFINE Goal ==
      /\ nodes \subseteq nodes' /\ edges \subseteq edges'
      /\ GraphOK' /\ AgentOK'
      /\ UNCHANGED <<load, L!producing, L!asking, client>>
      /\ \/ UNCHANGED sent
         \/ \E m \in Messages : sent' = Append(sent, m) /\ Told(m)'
<1>0. /\ AgentRight(agent) /\ writes \in 0..load.writes
      /\ nodes \subseteq L!Nodes /\ IsFiniteSet(nodes)
      /\ invalid \subseteq nodes /\ edges \subseteq nodes \X nodes
  BY DEF AgentOK, GraphOK
<1>1. ASSUME AgentRight(agent)', writes' \in 0..load.writes, UNCHANGED load
      PROVE  AgentOK'
  BY <1>1 DEF AgentOK
<1>2. ASSUME NEW n \in L!Nodes
      PROVE  IsFiniteSet(nodes \cup {n})
  BY <1>0, FS_AddElement
<1>3. ASSUME NEW targets \in {{}} \cup {{n} : n \in L!Nodes}, NEW http \in BOOLEAN,
             L!Decide(targets, http)
      PROVE  Goal
  <2>1. /\ L!MayWrite /\ writes' = L!Fresh /\ nodes' = nodes \cup {L!Fresh}
        /\ agent' = L!Agent(IF targets = {} THEN L!Ending(http) ELSE "edges",
                            L!Fresh, targets, {L!Fresh}, {}, http)
        /\ UNCHANGED <<edges, invalid, sent>>
        /\ UNCHANGED <<load, L!producing, L!asking, client>>
    BY <1>3 DEF L!Decide, L!Counted, L!WriteOnly
  <2>2. L!Fresh \in L!Writes /\ L!Fresh \in Nat /\ L!Fresh \in L!Nodes
        /\ L!Fresh \in 0..load.writes
    BY <2>1, FreshIs
  <2>3. AgentRight(agent)'
    BY <2>1, <2>2 DEF AgentRight, L!Agent, L!Ending
  <2>4. AgentOK'
    BY <1>1, <2>1, <2>2, <2>3
  <2>5. GraphOK'
    BY <1>0, <1>2, <2>1, <2>2 DEF GraphOK
  <2> QED
    BY <2>1, <2>2, <2>4, <2>5
<1>4. ASSUME NEW q \in L!Nodes, NEW n \in L!Nodes, NEW http \in BOOLEAN, L!Resolve(q, n, http)
      PROVE  Goal
  <2>1. /\ L!MayWrite /\ writes' = L!Fresh /\ {q, n} \subseteq nodes
        /\ edges' = edges \cup {<<n, q>>}
        /\ agent' = IF http THEN L!Agent("say", L!Fresh, {}, {}, {<<n, q>>}, TRUE)
                    ELSE L!NoAgent
        /\ UNCHANGED <<nodes, invalid, sent>>
        /\ UNCHANGED <<load, L!producing, L!asking, client>>
    BY <1>4 DEF L!Resolve, L!Counted, L!WriteOnly
  <2>2. L!Fresh \in Nat /\ L!Fresh \in 0..load.writes
    BY <2>1, FreshIs
  <2>3. AgentRight(agent)'
    BY <2>1, <2>2 DEF AgentRight, L!Agent, L!NoAgent, L!Edges
  <2>4. AgentOK'
    BY <1>1, <2>1, <2>2, <2>3
  <2>5. GraphOK'
    BY <1>0, <2>1 DEF GraphOK
  <2> QED
    BY <2>1, <2>4, <2>5
<1>5. ASSUME NEW n \in L!Nodes, NEW http \in BOOLEAN, L!Invalidate(n, http)
      PROVE  Goal
  <2>1. /\ L!MayWrite /\ writes' = L!Fresh /\ n \in nodes
        /\ invalid' = invalid \cup {n}
        /\ agent' = L!Agent("claim", L!Fresh, {n}, {L!Fresh}, {}, http)
        /\ UNCHANGED <<nodes, edges, sent>>
        /\ UNCHANGED <<load, L!producing, L!asking, client>>
    BY <1>5 DEF L!Invalidate, L!Counted, L!WriteOnly
  <2>2. L!Fresh \in L!Writes /\ L!Fresh \in Nat /\ L!Fresh \in L!Nodes
        /\ L!Fresh \in 0..load.writes
    BY <2>1, FreshIs
  <2>3. AgentRight(agent)'
    BY <2>1, <2>2 DEF AgentRight, L!Agent
  <2>4. AgentOK'
    BY <1>1, <2>1, <2>2, <2>3
  <2>5. GraphOK'
    BY <1>0, <2>1 DEF GraphOK
  <2> QED
    BY <2>1, <2>4, <2>5
<1>6. ASSUME L!ResolveNext
      PROVE  Goal
  <2>1. PICK t \in agent.todo :
          LET new == {<<agent.node, t>>} \cap (nodes \X nodes)
              rest == agent.todo \ {t}
          IN  /\ edges' = edges \cup new
              /\ agent' = [agent EXCEPT !.todo = rest, !.edges = @ \cup new,
                             !.at = IF rest = {} THEN L!Ending(agent.http) ELSE "edges"]
    BY <1>6 DEF L!ResolveNext
  <2> DEFINE new == {<<agent.node, t>>} \cap (nodes \X nodes)
             rest == agent.todo \ {t}
             at == IF rest = {} THEN L!Ending(agent.http) ELSE "edges"
  <2>2. /\ edges' = edges \cup new
        /\ agent' = [agent EXCEPT !.todo = rest, !.edges = @ \cup new, !.at = at]
    BY <2>1
  <2>3. /\ agent.at = "edges" /\ UNCHANGED <<nodes, invalid, writes, sent>>
        /\ UNCHANGED <<load, L!producing, L!asking, client>>
    BY <1>6 DEF L!ResolveNext, L!WriteOnly
  <2>4. /\ new \subseteq nodes \X nodes /\ rest \subseteq agent.todo
        /\ at \in {"idle", "edges", "say"}
    BY DEF L!Ending
  <2> HIDE DEF new, rest, at
  <2>5. new \subseteq L!Edges
    BY <1>0, <2>4 DEF L!Edges
  <2>6. AgentRight(agent)'
    BY <1>0, <2>2, <2>3, <2>4, <2>5 DEF AgentRight
  <2>7. AgentOK'
    BY <1>0, <1>1, <2>3, <2>6
  <2>8. GraphOK'
    BY <1>0, <2>2, <2>3, <2>4 DEF GraphOK
  <2> QED
    BY <2>2, <2>3, <2>7, <2>8
<1>7. ASSUME L!Claim
      PROVE  Goal
  <2>1. /\ agent.at = "claim" /\ nodes' = nodes \cup {agent.node}
        /\ agent' = [agent EXCEPT !.at = "edges"]
        /\ UNCHANGED <<edges, invalid, writes, sent>>
        /\ UNCHANGED <<load, L!producing, L!asking, client>>
    BY <1>7 DEF L!Claim, L!WriteOnly
  <2>2. agent.node \in L!Writes /\ agent.nodes = {agent.node} /\ agent.node \in L!Nodes
    BY <1>0, <2>1, GivenIs DEF AgentRight
  <2>3. AgentRight(agent)'
    BY <1>0, <2>1, <2>2 DEF AgentRight
  <2>4. AgentOK'
    BY <1>0, <1>1, <2>1, <2>3
  <2>5. GraphOK'
    BY <1>0, <1>2, <2>1, <2>2 DEF GraphOK
  <2> QED
    BY <2>1, <2>2, <2>4, <2>5
<1>8. ASSUME L!Say
      PROVE  Goal
  <2>1. PICK m : m = L!Message(agent.nodes, agent.edges, FALSE)
    OBVIOUS
  <2>2. /\ agent.at = "say" /\ sent' = Append(sent, m) /\ agent' = L!NoAgent
        /\ UNCHANGED <<nodes, edges, invalid, writes>>
        /\ UNCHANGED <<load, L!producing, L!asking, client>>
    BY <1>8, <2>1 DEF L!Say, L!WriteOnly, L!graph
  <2>3. m \in Messages /\ m.nodes \subseteq nodes /\ m.edges \subseteq edges
    BY <1>0, <2>1, <2>2 DEF Messages, L!Message, AgentRight
  <2>4. Told(m)'
    BY <2>2, <2>3 DEF Told
  <2>5. AgentOK'
    <3>1. AgentRight(agent)'
      BY <2>2, NoAgentIs DEF AgentRight, L!NoAgent, L!Agent
    <3> QED
      BY <1>0, <1>1, <2>2, <3>1
  <2>6. GraphOK'
    BY <1>0, <2>2 DEF GraphOK
  <2> QED
    BY <2>2, <2>3, <2>4, <2>5, <2>6
<1> HIDE DEF Goal
<1>9. Goal
  BY <1>3, <1>4, <1>5, <1>6, <1>7, <1>8 DEF L!Write
<1> QED
  BY <1>9 DEF Goal, Grows

LEMMA ClientStep ==
  ASSUME GivenOK, ClientsOK, SentOK, NEW c \in L!Clients,
         L!Subscribe(c) \/ L!Watch(c) \/ L!Leave(c)
  PROVE  ClientsOK'
<1> DEFINE Kinds == [at : {"out", "in", "gone"}, next : Nat, last : Nat]
           Fit(k) == k.next <= Len(sent) /\ k.last <= k.next
<1>1. /\ client \in [L!Clients -> Kinds] /\ client[c] \in Kinds /\ Fit(client[c])
      /\ Len(sent) \in Nat /\ Capacity \in Nat
  BY GivenIs DEF ClientsOK, SentOK
<1>2. UNCHANGED sent
  BY DEF L!Subscribe, L!Watch, L!Receive, L!Lag, L!Leave, L!ClientOnly
<1>3. ASSUME NEW k \in Kinds, Fit(k), client' = [client EXCEPT ![c] = k]
      PROVE  ClientsOK'
  <2>1. client' \in [L!Clients -> Kinds]
    BY <1>1, <1>3
  <2>2. ASSUME NEW d \in L!Clients
        PROVE  Fit(client'[d])
    <3>1. CASE d = c
      BY <1>1, <1>3, <3>1
    <3>2. CASE d # c
      <4>1. client'[d] = client[d]
        BY <1>1, <1>3, <3>2
      <4> QED
        BY <4>1 DEF ClientsOK
    <3> QED
      BY <3>1, <3>2
  <2> QED
    BY <1>2, <2>1, <2>2 DEF ClientsOK
<1> HIDE DEF Fit
<1>4. CASE L!Subscribe(c)
  <2> DEFINE k == [at |-> "in", next |-> Len(sent), last |-> Len(sent)]
  <2>1. k \in Kinds /\ Fit(k)
    BY <1>1 DEF Fit
  <2>2. client' = [client EXCEPT ![c] = k]
    BY <1>4 DEF L!Subscribe
  <2> HIDE DEF k
  <2> QED
    BY <1>3, <2>1, <2>2
<1>5. CASE L!Receive(c)
  <2> DEFINE n == client[c].next
             s == n + 1
             k == [client[c] EXCEPT !.next = s, !.last = s]
  <2>1. n \in Nat /\ Len(sent) - n >= 1
    BY <1>1, <1>5 DEF L!Receive, L!Behind
  <2>2. s \in Nat /\ s <= Len(sent) /\ s <= s
    BY <1>1, <2>1
  <2>3. client' = [client EXCEPT ![c] = k]
    BY <1>1, <1>5 DEF L!Receive
  <2> HIDE DEF s
  <2>4. k \in Kinds /\ k.next = s /\ k.last = s
    BY <1>1, <2>2
  <2> HIDE DEF k
  <2>5. Fit(k)
    BY <2>2, <2>4 DEF Fit
  <2> QED
    BY <1>3, <2>3, <2>4, <2>5
<1>6. CASE L!Lag(c)
  <2> DEFINE n == client[c].next
             s == Len(sent) - Capacity
             k == [client[c] EXCEPT !.next = s]
  <2>1. n \in Nat /\ Len(sent) - n > Capacity /\ client[c].last \in Nat /\ client[c].last <= n
    BY <1>1, <1>6 DEF L!Lag, L!Behind, Fit
  <2>2. s \in Nat /\ s <= Len(sent) /\ client[c].last <= s
    BY <1>1, <2>1
  <2>3. client' = [client EXCEPT ![c] = k]
    BY <1>6 DEF L!Lag
  <2> HIDE DEF s
  <2>4. k \in Kinds /\ k.next = s /\ k.last = client[c].last
    BY <1>1, <2>2
  <2> HIDE DEF k
  <2>5. Fit(k)
    BY <2>2, <2>4 DEF Fit
  <2> QED
    BY <1>3, <2>3, <2>4, <2>5
<1>7. CASE L!Leave(c)
  <2> DEFINE k == [client[c] EXCEPT !.at = "gone"]
  <2>1. k \in Kinds /\ Fit(k)
    BY <1>1 DEF Fit
  <2>2. client' = [client EXCEPT ![c] = k]
    BY <1>7 DEF L!Leave
  <2> HIDE DEF k
  <2> QED
    BY <1>3, <2>1, <2>2
<1> QED
  BY <1>4, <1>5, <1>6, <1>7 DEF L!Watch

(* A ranking of some nodes has some of them; of none it has none.           *)
LEMMA RankedIs ==
  ASSUME NEW S, IsFiniteSet(S), NEW k \in Nat, NEW T \in L!Ranked(S, k)
  PROVE  T \subseteq S /\ (k # 0 /\ S # {} => T # {})
<1>0. ASSUME NEW U
      PROVE  L!Cardinality(U) = Cardinality(U)
  BY Zenon DEF L!Cardinality, Cardinality
<1>1. /\ T \subseteq S
      /\ Cardinality(T) = IF Cardinality(S) < k THEN Cardinality(S) ELSE k
  BY <1>0 DEF L!Ranked, L!kSubset
<1>2. Cardinality(S) \in Nat /\ (Cardinality(S) = 0 <=> S = {}) /\ Cardinality({}) = 0
  BY FS_CardinalityType, FS_EmptySet
<1> QED
  BY <1>1, <1>2

LEMMA SeedsStep ==
  ASSUME NEW S \in SUBSET nodes, L!Seeds(S), AskerRight(asker), UNCHANGED <<nodes, load>>,
         asker.had => S # {}
  PROVE  AskerRight(asker)'
BY DEF L!Seeds, AskerRight, Askers, L!NoAsker

LEMMA MergeStep ==
  ASSUME GivenOK, GraphOK, AskerRight(asker), UNCHANGED <<nodes, load>>,
         NEW S \in SUBSET nodes, L!Merge(S), asker.had => S # {},
         asker.at \in {"rebuild", "embed"}
  PROVE  AskerRight(asker)'
<1>1. CASE L!retriever # "hybrid"
  BY <1>1, SeedsStep DEF L!Merge
<1>2. CASE L!retriever = "hybrid"
  <2>0. asker.bm25 \subseteq nodes /\ (asker.had => asker.bm25 # {})
    BY <1>2 DEF AskerRight, Askers
  <2>1. CASE L!Cardinality(asker.bm25) >= TopN
    <3>1. PICK T \in L!kSubset(TopN, asker.bm25) : L!Seeds(T)
      BY <1>2, <2>1 DEF L!Merge
    <3>2. T \subseteq asker.bm25 /\ L!Cardinality(T) = TopN
      BY <3>1 DEF L!kSubset
    <3>3. L!Cardinality(T) = Cardinality(T)
      BY Zenon DEF L!Cardinality, Cardinality
    <3>4. T # {}
      BY <3>2, <3>3, GivenIs, FS_EmptySet
    <3> QED
      BY <2>0, <3>1, <3>2, <3>4, SeedsStep
  <2>2. CASE ~(L!Cardinality(asker.bm25) >= TopN)
    <3>1. PICK T \in {asker.bm25 \cup X : X \in L!Ranked(S \ asker.bm25,
                                                TopN - L!Cardinality(asker.bm25))} :
            L!Seeds(T)
      BY <1>2, <2>2 DEF L!Merge
    <3>2. PICK X \in L!Ranked(S \ asker.bm25, TopN - L!Cardinality(asker.bm25)) :
            T = asker.bm25 \cup X
      BY <3>1
    <3>3. X \subseteq S
      BY <3>2 DEF L!Ranked, L!kSubset
    <3> QED
      BY <2>0, <3>1, <3>2, <3>3, SeedsStep
  <2> QED
    BY <2>1, <2>2
<1> QED
  BY <1>1, <1>2

LEMMA Bm25Is ==
  ASSUME GraphOK, NEW k \in Nat \ {0}, NEW S \in L!Bm25(k)
  PROVE  S \subseteq nodes /\ (nodes # {} => S # {})
BY RankedIs DEF L!Bm25, GraphOK

LEMMA EnterStep ==
  ASSUME GivenOK, GraphOK, index \subseteq nodes, UNCHANGED <<nodes, load>>,
         NEW had \in BOOLEAN, had => nodes # {}, L!Enter(had)
  PROVE  AskerRight(asker)' /\ index' \subseteq nodes
<1>1. TopN \in Nat \ {0} /\ 2 * TopN \in Nat \ {0}
  BY GivenIs
<1>2. CASE /\ L!retriever = "bm25"
           /\ \E S \in L!Bm25(TopN) :
                asker' = [L!NoAsker EXCEPT !.at = "found", !.seeds = S, !.had = had]
           /\ UNCHANGED index
  <2>1. PICK S \in L!Bm25(TopN) :
          asker' = [L!NoAsker EXCEPT !.at = "found", !.seeds = S, !.had = had]
    BY <1>2
  <2>2. S \subseteq nodes /\ (nodes # {} => S # {})
    BY <1>1, Bm25Is
  <2> QED
    BY <1>2, <2>1, <2>2 DEF AskerRight, Askers, L!NoAsker
<1>3. CASE L!retriever # "bm25"
  <2> DEFINE Side == IF L!retriever = "hybrid" THEN L!Bm25(2 * TopN) ELSE {{}}
             at == IF rebuild_on_query /\ nodes # {} THEN "rebuild" ELSE "embed"
  <2>1. /\ \E S \in Side :
             asker' = [L!NoAsker EXCEPT !.at = at, !.snapshot = nodes, !.bm25 = S, !.had = had]
        /\ index' = IF rebuild_on_query /\ nodes = {} THEN {} ELSE index
    BY <1>3 DEF L!Enter
  <2>2. PICK S \in Side :
          asker' = [L!NoAsker EXCEPT !.at = at, !.snapshot = nodes, !.bm25 = S, !.had = had]
    BY <2>1
  <2>3. S \subseteq nodes /\ (L!retriever = "hybrid" /\ nodes # {} => S # {})
    BY <1>1, Bm25Is
  <2>4. at \in {"rebuild", "embed"}
    OBVIOUS
  <2> HIDE DEF at
  <2>5. AskerRight(asker)'
    BY <2>2, <2>3, <2>4 DEF AskerRight, Askers, L!NoAsker, L!retriever
  <2> QED
    BY <2>1, <2>5
<1> QED
  BY <1>2, <1>3 DEF L!Enter

LEMMA QuestionStep ==
  ASSUME ServerInv, L!Question
  PROVE  /\ UNCHANGED <<load, L!producing, nodes, edges, invalid, agent, writes, sent, client>>
         /\ AskerOK'
<1> USE DEF ServerInv
<1>0. UNCHANGED <<load, L!producing, nodes, edges, invalid, agent, writes, sent, client>>
  BY DEF L!Question, L!Ask, L!LlmNames, L!Rebuilt, L!Embedded, L!EmbedFails, L!Answered,
         L!AskOnly, L!graph, L!writing
<1>1. /\ AskerRight(asker) /\ index \subseteq nodes /\ IsFiniteSet(index)
      /\ rebuild_on_query \in BOOLEAN /\ asks \in 0..load.asks
  BY FS_Subset DEF AskerOK, GraphOK
<1>2. ASSUME AskerRight(asker)', index' \subseteq nodes, rebuild_on_query' \in BOOLEAN,
             asks' \in 0..load.asks
      PROVE  AskerOK'
  BY <1>0, <1>2 DEF AskerOK
<1>3. AskerRight(L!NoAsker)
  BY DEF AskerRight, Askers, L!NoAsker
<1>4. ASSUME NEW llm \in BOOLEAN, L!Ask(llm)
      PROVE  AskerOK'
  <2>1. asks' \in 0..load.asks /\ UNCHANGED rebuild_on_query
    BY <1>1, <1>4, GivenIs DEF L!Ask
  <2>2. CASE llm
    <3>1. asker' = [L!NoAsker EXCEPT !.at = "llm", !.snapshot = nodes, !.had = nodes # {}]
          /\ UNCHANGED index
      BY <1>4, <2>2 DEF L!Ask
    <3>2. AskerRight(asker)'
      BY <1>0, <3>1 DEF AskerRight, Askers, L!NoAsker
    <3> QED
      BY <1>1, <1>2, <2>1, <3>1, <3>2
  <2>3. CASE ~llm
    <3>1. L!Enter(nodes # {})
      BY <1>4, <2>3 DEF L!Ask
    <3>2. PICK had \in BOOLEAN : had = (nodes # {})
      OBVIOUS
    <3>3. L!Enter(had)
      BY <3>1, <3>2
    <3>4. AskerRight(asker)' /\ index' \subseteq nodes
      BY <1>0, <1>1, <3>2, <3>3, EnterStep
    <3> QED
      BY <1>1, <1>2, <2>1, <3>4
  <2> QED
    BY <2>2, <2>3
<1>5. ASSUME L!LlmNames
      PROVE  AskerOK'
  <2>1. UNCHANGED <<rebuild_on_query, asks>>
    BY <1>5 DEF L!LlmNames
  <2>2. CASE (\E S \in (SUBSET asker.snapshot) \ {{}} : L!Seeds(S)) /\ UNCHANGED index
    <3>1. PICK S \in (SUBSET asker.snapshot) \ {{}} : L!Seeds(S)
      BY <2>2
    <3>2. S \in SUBSET nodes /\ S # {}
      BY <1>1, <3>1 DEF AskerRight, Askers
    <3>3. AskerRight(asker)'
      BY <1>0, <1>1, <3>1, <3>2, SeedsStep
    <3> QED
      BY <1>0, <1>1, <1>2, <2>1, <2>2, <3>3
  <2>3. CASE L!Enter(asker.had)
    <3>1. asker.had \in BOOLEAN /\ (asker.had => nodes # {})
      BY <1>1 DEF AskerRight, Askers
    <3>2. AskerRight(asker)' /\ index' \subseteq nodes
      BY <1>0, <1>1, <2>3, <3>1, EnterStep
    <3> QED
      BY <1>0, <1>1, <1>2, <2>1, <3>2
  <2> QED
    BY <1>5, <2>2, <2>3 DEF L!LlmNames
<1>6. ASSUME L!Rebuilt
      PROVE  AskerOK'
  <2>1. /\ asker.at = "rebuild" /\ index' \in {{}, asker.snapshot} /\ rebuild_on_query' = FALSE
        /\ asker' = [asker EXCEPT !.at = "embed"] /\ UNCHANGED asks
    BY <1>6 DEF L!Rebuilt
  <2>2. AskerRight(asker)' /\ index' \subseteq nodes
    BY <1>0, <1>1, <2>1 DEF AskerRight, Askers, L!retriever
  <2> QED
    BY <1>0, <1>1, <1>2, <2>1, <2>2
<1>7. ASSUME UNCHANGED <<index, rebuild_on_query, asks>>, NEW S \in SUBSET nodes, L!Merge(S),
             nodes # {} => S # {}, asker.at \in {"rebuild", "embed"}
      PROVE  AskerOK'
  <2>1. asker.had => S # {}
    BY <1>1, <1>7 DEF AskerRight
  <2>2. AskerRight(asker)'
    BY <1>0, <1>1, <1>7, <2>1, MergeStep
  <2> QED
    BY <1>0, <1>1, <1>2, <1>7, <2>2
<1>8. L!Width \in Nat \ {0}
  BY GivenIs DEF L!Width
<1>9. ASSUME L!Embedded
      PROVE  AskerOK'
  <2>1. PICK S \in IF index = {} THEN L!Bm25(L!Width) ELSE L!Ranked(index, L!Width) :
          L!Merge(S)
    BY <1>9 DEF L!Embedded
  <2>2. S \subseteq nodes /\ (nodes # {} => S # {})
    <3>1. CASE index = {}
      BY <1>8, <2>1, <3>1, Bm25Is
    <3>2. CASE index # {}
      BY <1>1, <1>8, <2>1, <3>2, RankedIs
    <3> QED
      BY <3>1, <3>2
  <2> QED
    BY <1>7, <1>9, <2>1, <2>2 DEF L!Embedded
<1>10. ASSUME L!EmbedFails
       PROVE  AskerOK'
  <2>1. PICK S \in L!Bm25(L!Width) : L!Merge(S)
    BY <1>10 DEF L!EmbedFails
  <2>2. S \subseteq nodes /\ (nodes # {} => S # {})
    BY <1>8, <2>1, Bm25Is
  <2> QED
    BY <1>7, <1>10, <2>1, <2>2 DEF L!EmbedFails
<1>11. ASSUME L!Answered
       PROVE  AskerOK'
  <2>1. asker' = L!NoAsker /\ UNCHANGED <<index, rebuild_on_query, asks>>
    BY <1>11 DEF L!Answered
  <2>2. AskerRight(asker)'
    BY <2>1 DEF AskerRight, Askers, L!NoAsker
  <2> QED
    BY <1>0, <1>1, <1>2, <2>1, <2>2
<1> QED
  BY <1>0, <1>4, <1>5, <1>6, <1>9, <1>10, <1>11 DEF L!Question

-------------------------------------------------------------------------------

LEMMA ServerInit ==
  ASSUME L!ServerAssumption, L!Init
  PROVE  ServerInv
<1>1. GivenOK
  BY DEF GivenOK, L!Init
<1> USE DEF L!Init
<1>2. load.lines \in [L!Producers -> Seq(Events \cup {Malformed})]
  BY <1>1 DEF GivenOK, L!ServerAssumption
<1>3. \A p \in L!Producers : ctx[p] = L!NoCtx /\ ctx[p].event = Malformed /\ stage[p] = "idle"
  BY <1>1, NoCtxIs
<1>4. LinesOK
  BY <1>2 DEF LinesOK
<1>5. PipelineOK
  <2>1. <<>> \in L!Batch
    <3>1. <<>> \in Seq(Events) /\ Len(<<>>) <= Window
      BY <1>1, GivenIs
    <3> QED
      BY <1>1, <3>1, BatchIs
  <2> QED
    BY <1>1, <1>3, <2>1, NoCtxIs DEF PipelineOK, Compressible, L!Places
<1>6. SummaryOK
  <2>1. compressed_summary = <<>> /\ batches = <<>> /\ raced = FALSE
        /\ <<>> \in Seq(L!Batch)
    OBVIOUS
  <2>2. \A p \in L!Producers : stage[p] # "compressing"
    BY <1>3
  <2> QED
    BY <2>1, <2>2 DEF SummaryOK
<1>7. GraphOK
  BY FS_EmptySet DEF GraphOK
<1>8. KnownOK
  BY <1>3 DEF KnownOK, KnownOf, L!NoCtx
<1>9. AgentOK
  BY <1>1, GivenIs DEF AgentOK, AgentRight, L!NoAgent, L!Agent
<1>10. SentOK
  BY DEF SentOK
<1>11. ClientsOK
  BY DEF ClientsOK
<1>12. AskerOK
  BY <1>1, GivenIs DEF AskerOK, AskerRight, Askers, L!NoAsker
<1> QED
  BY <1>1, <1>4, <1>5, <1>6, <1>7, <1>8, <1>9, <1>10, <1>11, <1>12 DEF ServerInv

LEMMA ServerStep ==
  ASSUME ServerInv, [L!Next]_(L!vars)
  PROVE  ServerInv'
<1>0. Len(sent) \in Nat
  BY DEF ServerInv, SentOK
<1>1. ASSUME NEW p \in L!Producers, L!Produce(p) \/ L!Drop(p)
      PROVE  ServerInv'
  BY <1>1, ProduceStep
<1>2. ASSUME L!Write
      PROVE  ServerInv'
  <2>1. /\ Grows /\ GraphOK' /\ AgentOK'
        /\ UNCHANGED <<load, L!producing, L!asking, client>>
        /\ \/ UNCHANGED sent
           \/ \E m \in Messages : sent' = Append(sent, m) /\ Told(m)'
    BY <1>2, WriteStep
  <2>2. GivenOK' /\ LinesOK' /\ PipelineOK' /\ SummaryOK' /\ KnownOK'
    BY <2>1, ProducersKept
  <2>3. SentOK' /\ (UNCHANGED sent \/ Len(sent') = Len(sent) + 1)
    <3>1. CASE UNCHANGED sent
      BY <2>1, <3>1, SentKept DEF ServerInv
    <3>2. CASE \E m \in Messages : sent' = Append(sent, m) /\ Told(m)'
      BY <2>1, <3>2, SentMore DEF ServerInv
    <3> QED
      BY <2>1, <3>1, <3>2
  <2>4. Len(sent') \in Nat /\ Len(sent) <= Len(sent')
    <3>1. Len(sent') \in Nat
      BY <2>3 DEF SentOK
    <3> QED
      BY <1>0, <2>3, <3>1
  <2>5. ClientsOK'
    BY <1>0, <2>1, <2>4, ClientsKept DEF ServerInv
  <2>6. AskerOK'
    BY <2>1, AskerKept DEF ServerInv, L!asking
  <2> QED
    BY <2>1, <2>2, <2>3, <2>5, <2>6 DEF ServerInv
<1>3. ASSUME UNCHANGED <<load, L!producing, nodes, edges, invalid, agent, writes, sent>>,
             AskerOK', ClientsOK'
      PROVE  ServerInv'
  <2>0. Grows
    BY <1>3 DEF Grows
  <2>1. GivenOK' /\ LinesOK' /\ PipelineOK' /\ SummaryOK' /\ KnownOK'
    BY <1>3, <2>0, ProducersKept
  <2>2. GraphOK'
    BY <1>3 DEF ServerInv, GraphOK
  <2>3. SentOK' /\ AgentOK'
    BY <1>3, <2>0, SentKept, AgentKept DEF ServerInv
  <2> QED
    BY <1>3, <2>1, <2>2, <2>3 DEF ServerInv
<1>4. ASSUME NEW c \in L!Clients, L!Subscribe(c) \/ L!Watch(c) \/ L!Leave(c)
      PROVE  ServerInv'
  <2>1. /\ UNCHANGED <<load, L!producing, nodes, edges, invalid, agent, writes, sent>>
        /\ UNCHANGED <<index, rebuild_on_query, asker, asks>>
    BY <1>4 DEF L!Subscribe, L!Watch, L!Receive, L!Lag, L!Leave, L!ClientOnly, L!graph,
                L!writing, L!asking
  <2>2. ClientsOK'
    BY <1>4, ClientStep DEF ServerInv
  <2>3. AskerOK'
    BY <2>1 DEF ServerInv, AskerOK, AskerRight, Askers, L!retriever
  <2> QED
    BY <1>3, <2>1, <2>2, <2>3
<1>5. ASSUME L!Question
      PROVE  ServerInv'
  <2>1. /\ UNCHANGED <<load, L!producing, nodes, edges, invalid, agent, writes, sent, client>>
        /\ AskerOK'
    BY <1>5, QuestionStep
  <2>2. ClientsOK'
    BY <2>1 DEF ServerInv, ClientsOK
  <2> QED
    BY <1>3, <2>1, <2>2
<1>6. ASSUME UNCHANGED L!vars
      PROVE  ServerInv'
  <2>1. /\ UNCHANGED <<load, L!producing, nodes, edges, invalid, agent, writes, sent, client>>
        /\ UNCHANGED <<index, rebuild_on_query, asker, asks>>
    BY <1>6 DEF L!vars, L!graph, L!writing, L!asking
  <2>2. ClientsOK' /\ AskerOK'
    BY <2>1 DEF ServerInv, ClientsOK, AskerOK, AskerRight, Askers, L!retriever
  <2> QED
    BY <1>3, <2>1, <2>2
<1> QED
  BY <1>1, <1>2, <1>4, <1>5, <1>6 DEF L!Next

LEMMA ServerTypes ==
  ASSUME ServerInv
  PROVE  L!TypeOK
<1> USE DEF ServerInv
<1>1. ASSUME NEW p \in L!Producers
      PROVE  /\ ctx[p].event \in Events \cup {Malformed}
             /\ ctx[p].history \in L!Batch
             /\ ctx[p].snapshot \cup ctx[p].nodes \subseteq L!Nodes
             /\ ctx[p].edges \subseteq L!Edges
  <2>1. ctx[p] \in Contexts
    BY DEF PipelineOK
  <2> QED
    BY <2>1 DEF Contexts
<1>2. L!ToSet(compressed_summary) \subseteq L!Batch
  BY DEF SummaryOK, L!ToSet
<1>3. \A c \in L!Clients :
        client[c].next \in 0..Len(sent) /\ client[c].last \in 0..client[c].next
  <2> SUFFICES ASSUME NEW c \in L!Clients
               PROVE  client[c].next \in 0..Len(sent) /\ client[c].last \in 0..client[c].next
    OBVIOUS
  <2>1. /\ client[c].next \in Nat /\ client[c].last \in Nat
        /\ client[c].next <= Len(sent) /\ client[c].last <= client[c].next
    BY DEF ClientsOK
  <2>2. Len(sent) \in Nat
    BY DEF SentOK
  <2> QED
    BY <2>1, <2>2
<1>4. index \cup asker.seeds \subseteq nodes
  BY DEF AskerOK, AskerRight, Askers
<1> QED
  BY <1>1, <1>2, <1>3, <1>4 DEF L!TypeOK, PipelineOK, GraphOK, AgentOK, AskerOK

(* Whatever fails, and in whatever order producers, agents, clients and     *)
(* questions meet: what a WebSocket client is told of is in the graph, but  *)
(* for edges one of whose ends is not; until two compressions meet the      *)
(* running summary has every batch; and a question about a graph with nodes *)
(* starts from one.                                                         *)
THEOREM AnnouncedIsThere == L!ServerAssumption /\ L!Spec => []L!Inv
<1>1. L!ServerAssumption /\ L!Init => ServerInv
  BY ServerInit
<1>2. ServerInv /\ [L!Next]_(L!vars) => ServerInv'
  BY ServerStep
<1>3. ServerInv => L!Inv
  <2> SUFFICES ASSUME ServerInv
               PROVE  L!Inv
    OBVIOUS
  <2>1. L!AnnouncedIsStored
    <3>1. Dropped \cap nodes = {}
      BY GivenIs DEF ServerInv, GraphOK
    <3> QED
      BY <3>1 DEF ServerInv, SentOK, Told, Ends, L!AnnouncedIsStored
  <2>2. L!SummaryKeeps /\ L!SeedsFound
    BY DEF ServerInv, SummaryOK, AskerOK, AskerRight, L!SummaryKeeps, L!SeedsFound
  <2> QED
    BY <2>1, <2>2, ServerTypes DEF L!Inv
<1> QED
  BY <1>1, <1>2, <1>3, PTL DEF L!Spec

-------------------------------------------------------------------------------
(* Louvain: Communities, as an instance.                                    *)

CONSTANTS Graphs, MaxIterations
VARIABLES graph, adj, degree, community, sum_tot, sum_in, step, at, improved, iteration, report

C == INSTANCE Communities

(* Recurrences.                                                             *)

LEMMA LeastNumber ==
  ASSUME NEW T \in SUBSET Nat, T # {}
  PROVE  \E m \in T : \A k \in T : m <= k
<1> DEFINE R == {ss \in Nat \X Nat : ss[1] < ss[2]}
<1>1. IsWellFoundedOn(R, Nat)
  BY NatLessThanWellFounded, Zenon DEF OpToRel
<1>2. \E m \in T : \A k \in T : ~(<<k, m>> \in R)
  <2> HIDE DEF R
  <2> QED
    BY <1>1, WFMin, Zenon
<1>3. PICK m \in T : \A k \in T : ~(<<k, m>> \in R)
  BY <1>2
<1>4. ASSUME NEW k \in T PROVE m <= k
  <2>1. ~(<<k, m>> \in R)
    BY <1>3
  <2> QED
    BY <2>1
<1> QED
  BY <1>4

(* What starts at 0 and goes from each number to the next holds up to N.    *)
LEMMA UpTo ==
  ASSUME NEW N \in Nat, NEW X, 0 \in X, \A m \in 1..N : m - 1 \in X => m \in X
  PROVE  \A m \in 0..N : m \in X
<1> DEFINE T == {m \in 0..N : m \notin X}
<1>1. SUFFICES ASSUME T # {} PROVE FALSE
  OBVIOUS
<1>2. PICK m \in T : \A k \in T : m <= k
  <2>1. T \in SUBSET Nat
    OBVIOUS
  <2> HIDE DEF T
  <2> QED
    BY <1>1, <2>1, LeastNumber
<1>3. m \in 0..N /\ m \notin X
  OBVIOUS
<1>4. m \in 1..N /\ m - 1 \in 0..N /\ ~(m <= m - 1)
  BY <1>3
<1>5. m - 1 \notin T
  BY <1>2, <1>4, Zenon
<1> QED
  BY <1>3, <1>4, <1>5, Zenon

(* f goes from init on by next, which is told the number of the step.       *)
Recurs(f, init, next, N) == f[0] = init /\ \A m \in 1..N : f[m] = next[<<m, f[m - 1]>>]

LEMMA RecurrenceExists ==
  ASSUME NEW N \in Nat, NEW S, NEW init \in S, NEW next \in [(1..N) \X S -> S]
  PROVE  \E f \in [0..N -> S] : Recurs(f, init, next, N)
<1> DEFINE X == {k \in 0..N : \E f \in [0..k -> S] : Recurs(f, init, next, k)}
<1>1. 0 \in X
  <2>1. [m \in 0..0 |-> init] \in [0..0 -> S] /\ [m \in 0..0 |-> init][0] = init /\ 1..0 = {}
    OBVIOUS
  <2>2. Recurs([m \in 0..0 |-> init], init, next, 0)
    BY <2>1, Zenon DEF Recurs
  <2> QED
    BY <2>1, <2>2
<1>2. ASSUME NEW m \in 1..N, m - 1 \in X
      PROVE  m \in X
  <2>1. PICK f \in [0..m - 1 -> S] : Recurs(f, init, next, m - 1)
    BY <1>2
  <2> DEFINE v == next[<<m, f[m - 1]>>]
             g == [k \in 0..m |-> IF k < m THEN f[k] ELSE v]
  <2>2. m - 1 \in 0..m - 1 /\ 0 \in 0..m - 1 /\ m \in 0..m /\ m \in Nat /\ ~(m < m) /\ 0 < m
    OBVIOUS
  <2>3. f[m - 1] \in S /\ v \in S
    BY <2>2
  <2> HIDE DEF v
  <2>4. g \in [0..m -> S]
    BY <2>1, <2>3
  <2>5. g[m] = v /\ g[m - 1] = f[m - 1] /\ g[0] = f[0]
    BY <2>2
  <2>6. ASSUME NEW k \in 1..m
        PROVE  g[k] = next[<<k, g[k - 1]>>]
    <3>1. CASE k = m
      BY <2>5, <3>1, Zenon DEF v
    <3>2. CASE k # m
      <4>1. k \in 1..m - 1 /\ k \in 0..m /\ k - 1 \in 0..m /\ k < m /\ k - 1 < m
        BY <3>2, <2>2
      <4>2. g[k] = f[k] /\ g[k - 1] = f[k - 1]
        BY <4>1
      <4> HIDE DEF g
      <4> QED
        BY <2>1, <4>1, <4>2, Zenon DEF Recurs
    <3> QED
      BY <3>1, <3>2
  <2> HIDE DEF g
  <2>7. Recurs(g, init, next, m)
    BY <2>1, <2>5, <2>6, Zenon DEF Recurs
  <2>8. m \in 0..N
    OBVIOUS
  <2> QED
    BY <2>4, <2>7, <2>8, Zenon
<1>3. N \in X
  <2> HIDE DEF X
  <2>1. \A m \in 0..N : m \in X
    BY <1>1, <1>2, UpTo
  <2>2. N \in 0..N
    OBVIOUS
  <2> QED
    BY <2>1, <2>2
<1> QED
  BY <1>3

-------------------------------------------------------------------------------
(* Sums.                                                                    *)

(* U is the running sum of f over the members of S.                         *)
Part(S, f, i) == IF i \in S THEN f[i] ELSE 0
Sums(U, S, n, f) ==
  U \in [0..n -> Int] /\ U[0] = 0 /\ \A i \in 1..n : U[i] = U[i - 1] + Part(S, f, i)
Summable(S, n, f) == \A i \in 1..n : Part(S, f, i) \in Int

LEMMA SumsExist ==
  ASSUME NEW n \in Nat, NEW S, NEW f, Summable(S, n, f)
  PROVE  \E U : Sums(U, S, n, f)
<1> DEFINE next == [p \in (1..n) \X Int |-> p[2] + Part(S, f, p[1])]
<1>1. next \in [(1..n) \X Int -> Int]
  <2>1. ASSUME NEW p \in (1..n) \X Int
        PROVE  p[2] + Part(S, f, p[1]) \in Int
    <3>1. p[1] \in 1..n /\ p[2] \in Int
      OBVIOUS
    <3>2. Part(S, f, p[1]) \in Int
      BY <3>1, Zenon DEF Summable
    <3> QED
      BY <3>1, <3>2
  <2> QED
    BY <2>1, Zenon
<1>2. PICK U \in [0..n -> Int] : Recurs(U, 0, next, n)
  <2>1. 0 \in Int
    OBVIOUS
  <2> HIDE DEF next
  <2> QED
    BY <1>1, <2>1, RecurrenceExists
<1>3. ASSUME NEW i \in 1..n
      PROVE  U[i] = U[i - 1] + Part(S, f, i)
  <2>1. i - 1 \in 0..n
    OBVIOUS
  <2>2. <<i, U[i - 1]>> \in (1..n) \X Int
    BY <2>1
  <2>3. next[<<i, U[i - 1]>>] = U[i - 1] + Part(S, f, i)
    BY <2>2
  <2> HIDE DEF next
  <2> QED
    BY <1>2, <2>3, Zenon DEF Recurs
<1> QED
  BY <1>2, <1>3, Zenon DEF Sums, Recurs

(* The total is the last of the running sum.                                *)
LEMMA TotalIs ==
  ASSUME NEW n \in Nat, NEW S, NEW f, NEW U, Sums(U, S, n, f)
  PROVE  C!Total(S, n, f) = U[n]
<1> DEFINE Next1(g) == [i \in 0..n |-> IF i = 0 THEN 0
                                       ELSE g[i - 1] + (IF i \in S THEN f[i] ELSE 0)]
           run == CHOOSE g : g = Next1(g)
<1>1. U = Next1(U)
  <2>1. ASSUME NEW i \in 0..n
        PROVE  U[i] = Next1(U)[i]
    <3>1. CASE i = 0
      BY <3>1, Zenon DEF Sums
    <3>2. CASE i # 0
      <4>1. i \in 1..n
        BY <3>2
      <4> QED
        BY <3>2, <4>1, Zenon DEF Sums, Part
    <3> QED
      BY <3>1, <3>2
  <2>2. DOMAIN U = 0..n /\ U = [i \in 0..n |-> U[i]]
    BY Zenon DEF Sums
  <2>3. DOMAIN Next1(U) = 0..n /\ Next1(U) = [i \in 0..n |-> Next1(U)[i]]
    BY Zenon
  <2> HIDE DEF Next1
  <2> QED
    BY <2>1, <2>2, <2>3, Zenon
<1>2. run = Next1(run)
  <2> HIDE DEF Next1
  <2> QED
    BY <1>1, Zenon
<1>3. C!Total(S, n, f) = run[n]
  BY Zenon DEF C!Total
<1> HIDE DEF run
<1> DEFINE X == {i \in 0..n : run[i] = U[i]}
<1>4. 0 \in X
  <2>1. 0 \in 0..n
    OBVIOUS
  <2>2. Next1(run)[0] = 0
    BY <2>1, Zenon
  <2>3. run[0] = 0
    BY <1>2, <2>2, Zenon
  <2> QED
    BY <2>1, <2>3 DEF Sums
<1>5. ASSUME NEW i \in 1..n, i - 1 \in X
      PROVE  i \in X
  <2>1. i \in 0..n /\ i # 0
    OBVIOUS
  <2>2. Next1(run)[i] = run[i - 1] + Part(S, f, i)
    BY <2>1, Zenon DEF Part
  <2>3. run[i] = run[i - 1] + Part(S, f, i)
    BY <1>2, <2>2, Zenon
  <2>4. run[i] = U[i]
    BY <1>5, <2>3, Zenon DEF Sums
  <2> QED
    BY <2>1, <2>4
<1> QED
  <2>1. n \in 0..n
    OBVIOUS
  <2>2. \A i \in 0..n : i \in X
    <3> HIDE DEF X
    <3> QED
      BY <1>4, <1>5, UpTo
  <2>3. run[n] = U[n]
    BY <2>1, <2>2
  <2> QED
    BY <1>3, <2>3, Zenon

LEMMA TotalInt ==
  ASSUME NEW n \in Nat, NEW S, NEW f, Summable(S, n, f)
  PROVE  C!Total(S, n, f) \in Int
<1>1. PICK U : Sums(U, S, n, f)
  BY SumsExist
<1>2. U[n] \in Int
  BY <1>1 DEF Sums
<1> QED
  BY <1>1, <1>2, TotalIs, Zenon

LEMMA TotalNat ==
  ASSUME NEW n \in Nat, NEW S, NEW f, \A i \in 1..n : Part(S, f, i) \in Nat
  PROVE  C!Total(S, n, f) \in Nat
<1>1. Summable(S, n, f)
  BY DEF Summable
<1>2. PICK U : Sums(U, S, n, f)
  BY <1>1, SumsExist
<1> DEFINE X == {i \in 0..n : U[i] \in Nat}
<1>3. 0 \in X
  BY <1>2 DEF Sums
<1>4. ASSUME NEW i \in 1..n, i - 1 \in X
      PROVE  i \in X
  <2>1. Part(S, f, i) \in Nat /\ U[i] = U[i - 1] + Part(S, f, i)
    BY <1>2 DEF Sums
  <2> QED
    BY <1>4, <2>1
<1>5. n \in X
  <2>1. n \in 0..n
    OBVIOUS
  <2> HIDE DEF X
  <2> QED
    BY <1>3, <1>4, <2>1, UpTo
<1> QED
  BY <1>2, <1>5, TotalIs

(* Sums whose parts add up add up.                                          *)
AddUp(n, R, h, S, f, T, g) ==
  \A i \in 1..n : Part(R, h, i) = Part(S, f, i) + Part(T, g, i)

LEMMA TotalAdds ==
  ASSUME NEW n \in Nat, NEW R, NEW S, NEW T, NEW f, NEW g, NEW h,
         Summable(S, n, f), Summable(T, n, g),
         AddUp(n, R, h, S, f, T, g)
  PROVE  C!Total(R, n, h) = C!Total(S, n, f) + C!Total(T, n, g)
<1>1. PICK U : Sums(U, S, n, f)
  BY SumsExist
<1>2. PICK V : Sums(V, T, n, g)
  BY SumsExist
<1> DEFINE W == [i \in 0..n |-> U[i] + V[i]]
<1>3. Sums(W, R, n, h)
  <2>1. W \in [0..n -> Int] /\ W[0] = 0
    BY <1>1, <1>2 DEF Sums
  <2>2. ASSUME NEW i \in 1..n
        PROVE  W[i] = W[i - 1] + Part(R, h, i)
    <3>1. i \in 0..n /\ i - 1 \in 0..n
      OBVIOUS
    <3>2. /\ U[i - 1] \in Int /\ V[i - 1] \in Int
          /\ U[i] = U[i - 1] + Part(S, f, i) /\ V[i] = V[i - 1] + Part(T, g, i)
      BY <1>1, <1>2, <3>1, Zenon DEF Sums
    <3>3. Part(S, f, i) \in Int /\ Part(T, g, i) \in Int
      BY DEF Summable
    <3>4. W[i] = U[i] + V[i] /\ W[i - 1] = U[i - 1] + V[i - 1]
      BY <3>1, Zenon
    <3>5. Part(R, h, i) = Part(S, f, i) + Part(T, g, i)
      BY Zenon DEF AddUp
    <3> QED
      BY <3>2, <3>3, <3>4, <3>5
  <2> HIDE DEF W
  <2> QED
    BY <2>1, <2>2, Zenon DEF Sums
<1>4. C!Total(R, n, h) = W[n] /\ C!Total(S, n, f) = U[n] /\ C!Total(T, n, g) = V[n]
  <2> HIDE DEF W
  <2> QED
    BY <1>1, <1>2, <1>3, TotalIs, Zenon
<1> QED
  BY <1>4

LEMMA TotalEmpty ==
  ASSUME NEW n \in Nat, NEW S, NEW f, \A i \in 1..n : Part(S, f, i) = 0
  PROVE  C!Total(S, n, f) = 0
<1> DEFINE U == [i \in 0..n |-> 0]
<1>1. Sums(U, S, n, f)
  BY DEF Sums
<1>2. U[n] = 0
  OBVIOUS
<1> HIDE DEF U
<1> QED
  BY <1>1, <1>2, TotalIs, Zenon

LEMMA TotalSame ==
  ASSUME NEW n \in Nat, NEW R, NEW S, NEW f, NEW h, Summable(S, n, f),
         \A i \in 1..n : Part(R, h, i) = Part(S, f, i)
  PROVE  C!Total(R, n, h) = C!Total(S, n, f)
<1>1. PICK U : Sums(U, S, n, f)
  BY SumsExist
<1>2. Sums(U, R, n, h)
  BY <1>1, Zenon DEF Sums
<1>3. C!Total(R, n, h) = U[n]
  BY <1>2, TotalIs
<1>4. C!Total(S, n, f) = U[n]
  BY <1>1, TotalIs
<1> QED
  BY <1>3, <1>4, Zenon

LEMMA TotalOne ==
  ASSUME NEW n \in Nat, NEW a \in 1..n, NEW f, f[a] \in Int
  PROVE  C!Total({a}, n, f) = f[a]
<1> DEFINE U == [i \in 0..n |-> IF i < a THEN 0 ELSE f[a]]
<1>1. U \in [0..n -> Int] /\ U[0] = 0 /\ U[n] = f[a]
  OBVIOUS
<1>2. ASSUME NEW i \in 1..n
      PROVE  U[i] = U[i - 1] + Part({a}, f, i)
  <2>1. CASE i = a
    BY <2>1 DEF Part
  <2>2. CASE i # a
    <3>1. i < a <=> i - 1 < a
      BY <2>2
    <3> QED
      BY <2>2, <3>1 DEF Part
  <2> QED
    BY <2>1, <2>2
<1> HIDE DEF U
<1>3. Sums(U, {a}, n, f)
  BY <1>1, <1>2, Zenon DEF Sums
<1> QED
  BY <1>1, <1>3, TotalIs, Zenon

LEMMA TotalJoins ==
  ASSUME NEW n \in Nat, NEW Q, NEW a \in 1..n, a \notin Q, NEW f \in [1..n -> Int]
  PROVE  C!Total(Q \cup {a}, n, f) = C!Total(Q, n, f) + f[a]
<1>1. Summable(Q, n, f) /\ Summable({a}, n, f)
  BY DEF Summable, Part
<1>2. AddUp(n, Q \cup {a}, f, Q, f, {a}, f)
  BY DEF Part, AddUp
<1>3. C!Total(Q \cup {a}, n, f) = C!Total(Q, n, f) + C!Total({a}, n, f)
  <2> DEFINE R == Q \cup {a}
             T == {a}
  <2>1. Summable(T, n, f) /\ AddUp(n, R, f, Q, f, T, f)
    BY <1>1, <1>2
  <2> HIDE DEF R, T
  <2>2. C!Total(R, n, f) = C!Total(Q, n, f) + C!Total(T, n, f)
    BY <1>1, <2>1, TotalAdds
  <2> QED
    BY <2>2 DEF R, T
<1>4. C!Total({a}, n, f) = f[a]
  BY TotalOne
<1> QED
  BY <1>3, <1>4, Zenon

-------------------------------------------------------------------------------
(* Weights.                                                                 *)

Weights(n, A) ==
  /\ n \in Nat \ {0}
  /\ A \in [1..n -> [1..n -> Nat]]
  /\ \A i, j \in 1..n : A[i][j] = A[j][i]
  /\ \A i \in 1..n : A[i][i] = 0

LEMMA AdjacencyIs ==
  ASSUME C!CommunitiesAssumption, NEW g \in Graphs
  PROVE  Weights(g.n, C!Adjacency(g))
<1> DEFINE n == g.n
           w == [k \in DOMAIN g.edges |-> C!community_weight(g.edges[k].type)]
           len == Len(g.edges)
           B(i, j) == {k \in DOMAIN g.edges : {g.edges[k].src, g.edges[k].tgt} = {i, j} /\ i # j}
           A == C!Adjacency(g)
<1>1. n \in Nat \ {0} /\ g.edges \in Seq([src : 1..n, tgt : 1..n, type : C!EdgeTypes])
  BY DEF C!CommunitiesAssumption
<1>2. len \in Nat /\ DOMAIN g.edges = 1..len
  BY <1>1
<1>3. \A k \in 1..len : w[k] \in Nat
  <2>1. ASSUME NEW k \in 1..len
        PROVE  w[k] \in Nat
    <3>1. g.edges[k].type \in C!EdgeTypes
      <4>1. g.edges[k] \in [src : 1..n, tgt : 1..n, type : C!EdgeTypes]
        <5> DEFINE R == [src : 1..n, tgt : 1..n, type : C!EdgeTypes]
        <5> HIDE DEF R
        <5>1. g.edges \in Seq(R)
          BY <1>1 DEF R
        <5>2. g.edges[k] \in R
          BY <1>2, <5>1
        <5> QED
          BY <5>2 DEF R
      <4> QED
        BY <4>1, Zenon
    <3>2. C!community_weight(g.edges[k].type) \in Nat
      BY <3>1 DEF C!community_weight, C!EdgeTypes
    <3> QED
      BY <1>2, <3>2
  <2> QED
    BY <2>1, Zenon
<1> HIDE DEF w
<1>4. A = [i \in 1..n |-> [j \in 1..n |-> C!Total(B(i, j), len, w)]]
  BY Zenon DEF C!Adjacency, w
<1> HIDE DEF A
<1>5. \A i, j : C!Total(B(i, j), len, w) \in Nat
  <2>1. ASSUME NEW i, NEW j
        PROVE  C!Total(B(i, j), len, w) \in Nat
    <3>1. \A k \in 1..len : Part(B(i, j), w, k) \in Nat
      BY <1>3, <1>2 DEF Part
    <3> HIDE DEF B
    <3> QED
      BY <1>2, <3>1, TotalNat
  <2> QED
    BY <2>1
<1>6. A \in [1..n -> [1..n -> Nat]]
  <2> HIDE DEF B, len
  <2> QED
    BY <1>4, <1>5
<1>7. ASSUME NEW i \in 1..n, NEW j \in 1..n
      PROVE  A[i][j] = C!Total(B(i, j), len, w)
  BY <1>4, Zenon
<1>8. ASSUME NEW i \in 1..n, NEW j \in 1..n
      PROVE  A[i][j] = A[j][i]
  <2>1. {i, j} = {j, i}
    BY Zenon
  <2>2. B(i, j) = B(j, i)
    BY <2>1, Zenon
  <2> HIDE DEF B
  <2> QED
    BY <1>7, <2>2, Zenon
<1>9. ASSUME NEW i \in 1..n
      PROVE  A[i][i] = 0
  <2>1. \A k \in 1..len : Part(B(i, i), w, k) = 0
    BY Zenon DEF Part
  <2>2. C!Total(B(i, i), len, w) = 0
    <3> HIDE DEF B
    <3> QED
      BY <1>2, <2>1, TotalEmpty
  <2> HIDE DEF B
  <2> QED
    BY <1>7, <2>2, Zenon
<1> QED
  BY <1>1, <1>6, <1>8, <1>9, Zenon DEF Weights, A

(* The weight inside Q, each pair once.                                     *)
Below(n, A, Q) == [i \in 1..n |-> C!Total({j \in 1..(i - 1) : j \in Q}, n, A[i])]
Inner(n, A, Q) == C!Total(Q, n, Below(n, A, Q))

LEMMA BelowIs ==
  ASSUME NEW n, NEW A, Weights(n, A), NEW Q
  PROVE  /\ Below(n, A, Q) \in [1..n -> Nat]
         /\ Inner(n, A, Q) \in Nat
<1>1. n \in Nat
  BY DEF Weights
<1>2. ASSUME NEW i \in 1..n
      PROVE  C!Total({j \in 1..(i - 1) : j \in Q}, n, A[i]) \in Nat
  <2>1. \A j \in 1..n : A[i][j] \in Nat
    BY DEF Weights
  <2>2. \A j \in 1..n : Part({k \in 1..(i - 1) : k \in Q}, A[i], j) \in Nat
    BY <2>1 DEF Part
  <2> QED
    BY <1>1, <2>2, TotalNat
<1>3. Below(n, A, Q) \in [1..n -> Nat]
  BY <1>2 DEF Below
<1>4. \A i \in 1..n : Part(Q, Below(n, A, Q), i) \in Nat
  BY <1>3 DEF Part
<1> QED
  BY <1>1, <1>3, <1>4, TotalNat DEF Inner

(* What a node adds to the weight inside is its weight to the members.      *)
LEMMA InnerJoins ==
  ASSUME NEW n, NEW A, Weights(n, A), NEW Q \in SUBSET (1..n), NEW a \in 1..n, a \notin Q
  PROVE  Inner(n, A, Q \cup {a}) = Inner(n, A, Q) + C!Total(Q, n, A[a])
<1> DEFINE P == Q \cup {a}
           f == Below(n, A, Q)
           h == Below(n, A, P)
           Lower == {j \in 1..(a - 1) : j \in Q}
           Upper == {j \in Q : j > a}
<1>1. /\ n \in Nat /\ a \in 1..n /\ a \notin Q
      /\ A[a] \in [1..n -> Nat]
      /\ \A i \in 1..n : A[i] \in [1..n -> Nat] /\ A[i][a] = A[a][i]
  BY DEF Weights
<1>2. f \in [1..n -> Nat] /\ h \in [1..n -> Nat]
  BY BelowIs
<1>3. ASSUME NEW i \in 1..n
      PROVE  h[i] = f[i] + (IF i > a THEN A[a][i] ELSE 0)
  <2> DEFINE X == {j \in 1..(i - 1) : j \in Q}
             Y == {j \in 1..(i - 1) : j \in P}
  <2>1. h[i] = C!Total(Y, n, A[i]) /\ f[i] = C!Total(X, n, A[i])
    BY Zenon DEF Below
  <2>2. A[i] \in [1..n -> Int] /\ A[i][a] = A[a][i]
    BY <1>1
  <2>3. CASE i > a
    <3>1. Y = X \cup {a} /\ a \notin X
      BY <1>1, <2>3
    <3>2. C!Total(Y, n, A[i]) = C!Total(X, n, A[i]) + A[i][a]
      <4> HIDE DEF X, Y
      <4> QED
        BY <1>1, <2>2, <3>1, TotalJoins
    <3> QED
      BY <2>1, <2>2, <2>3, <3>2, Zenon
  <2>4. CASE ~(i > a)
    <3>1. Y = X
      BY <1>1, <2>4
    <3>2. h[i] = f[i] /\ f[i] \in Nat
      BY <1>2, <2>1, <3>1, Zenon
    <3> HIDE DEF h, f
    <3> QED
      BY <2>4, <3>2
  <2> QED
    BY <2>3, <2>4
<1> HIDE DEF f, h
<1>4. Summable(Q, n, f) /\ Summable(Q \cup Lower, n, f) /\ Summable({a}, n, f)
  BY <1>2 DEF Summable, Part
<1>5. /\ Summable(Lower, n, A[a]) /\ Summable(Upper, n, A[a])
  BY <1>1 DEF Summable, Part
<1>6. C!Total(P, n, h) = C!Total(P, n, f) + C!Total(Upper, n, A[a])
  <2>1. AddUp(n, P, h, P, f, Upper, A[a])
    <3>1. ASSUME NEW i \in 1..n
          PROVE  Part(P, h, i) = Part(P, f, i) + Part(Upper, A[a], i)
      <4>1. h[i] = f[i] + (IF i > a THEN A[a][i] ELSE 0) /\ f[i] \in Nat /\ A[a][i] \in Nat
        BY <1>1, <1>2, <1>3
      <4> QED
        BY <4>1, <1>1 DEF Part
    <3> QED
      BY <3>1, Zenon DEF AddUp
  <2>2. Summable(P, n, f)
    BY <1>2 DEF Summable, Part
  <2> HIDE DEF P, Upper
  <2> QED
    BY <1>1, <1>5, <2>1, <2>2, TotalAdds
<1>7. C!Total(P, n, f) = C!Total(Q, n, f) + f[a]
  <2>1. f \in [1..n -> Int] /\ n \in Nat /\ a \in 1..n /\ a \notin Q
    BY <1>1, <1>2
  <2> QED
    BY <2>1, TotalJoins
<1>8. f[a] = C!Total(Lower, n, A[a])
  BY <1>1, Zenon DEF f, Below
<1>9. C!Total(Q, n, A[a]) = C!Total(Lower, n, A[a]) + C!Total(Upper, n, A[a])
  <2>1. AddUp(n, Q, A[a], Lower, A[a], Upper, A[a])
    <3>1. ASSUME NEW i \in 1..n
          PROVE  Part(Q, A[a], i) = Part(Lower, A[a], i) + Part(Upper, A[a], i)
      <4>1. A[a][i] \in Nat
        BY <1>1
      <4> QED
        BY <4>1, <1>1 DEF Part
    <3> QED
      BY <3>1, Zenon DEF AddUp
  <2> HIDE DEF Lower, Upper
  <2> QED
    BY <1>1, <1>5, <2>1, TotalAdds
<1>10. Inner(n, A, P) = C!Total(P, n, h) /\ Inner(n, A, Q) = C!Total(Q, n, f)
  BY Zenon DEF Inner, f, h
<1>11. /\ C!Total(Q, n, f) \in Int /\ C!Total(Lower, n, A[a]) \in Int
       /\ C!Total(Upper, n, A[a]) \in Int
  <2> HIDE DEF Lower, Upper
  <2> QED
    BY <1>1, <1>4, <1>5, TotalInt
<1> HIDE DEF P, Lower, Upper
<1>12. Inner(n, A, P) = Inner(n, A, Q) + C!Total(Q, n, A[a])
  BY <1>6, <1>7, <1>8, <1>9, <1>10, <1>11
<1> QED
  BY <1>12 DEF P

-------------------------------------------------------------------------------
(* Communities as sets of nodes.                                            *)

(* The graph stands still.                                                  *)
GraphStands ==
  /\ graph \in Graphs
  /\ adj = C!Adjacency(graph)
  /\ degree = [i \in C!Nodes |-> C!Total(C!Nodes, graph.n, adj[i])]

N == graph.n

LEMMA GraphIs ==
  ASSUME C!CommunitiesAssumption, GraphStands
  PROVE  /\ Weights(N, adj) /\ N \in Nat \ {0} /\ C!Nodes = 1..N
         /\ degree \in [1..N -> Nat]
<1>1. Weights(N, adj)
  BY AdjacencyIs, Zenon DEF GraphStands, N
<1>2. N \in Nat \ {0} /\ C!Nodes = 1..N
  BY <1>1 DEF Weights, C!Nodes, N
<1>3. ASSUME NEW i \in 1..N
      PROVE  C!Total(1..N, N, adj[i]) \in Nat
  <2>1. \A j \in 1..N : adj[i][j] \in Nat
    BY <1>1 DEF Weights
  <2>2. \A j \in 1..N : Part(1..N, adj[i], j) \in Nat
    BY <2>1 DEF Part
  <2> QED
    BY <1>2, <2>2, TotalNat
<1>4. degree = [i \in 1..N |-> C!Total(1..N, N, adj[i])]
  BY <1>2, Zenon DEF GraphStands, N
<1> QED
  BY <1>1, <1>2, <1>3, <1>4

Partition(of) == of \in [1..N -> 1..N]
Members(of, c) == {i \in 1..N : of[i] = c}
WeightIn(of, a, c) == C!Total(Members(of, c), N, adj[a])

LEMMA SharesAre ==
  ASSUME C!CommunitiesAssumption, GraphStands, NEW of, NEW c
  PROVE  /\ C!Volume(of, c) = C!Total(Members(of, c), N, degree)
         /\ C!InnerWeight(of, c) = Inner(N, adj, Members(of, c))
         /\ C!Volume(of, c) \in Nat /\ C!InnerWeight(of, c) \in Nat
         /\ C!TwiceM \in Nat /\ C!Share(of, c) \in Int
<1>1. /\ Weights(N, adj) /\ N \in Nat \ {0} /\ C!Nodes = 1..N
      /\ degree \in [1..N -> Nat]
  BY GraphIs
<1>2. C!Volume(of, c) = C!Total(Members(of, c), N, degree)
  BY <1>1, Zenon DEF C!Volume, Members, N
<1>3. C!InnerWeight(of, c) = Inner(N, adj, Members(of, c))
  <2>1. ASSUME NEW i \in 1..N
        PROVE  {j \in 1..(i - 1) : of[j] = c} = {j \in 1..(i - 1) : j \in Members(of, c)}
    BY <1>1 DEF Members
  <2>2. [i \in 1..N |-> C!Total({j \in 1..(i - 1) : of[j] = c}, N, adj[i])]
        = Below(N, adj, Members(of, c))
    BY <2>1, Zenon DEF Below
  <2> QED
    BY <1>1, <2>2, Zenon DEF C!InnerWeight, Members, N, Inner
<1>4. C!Volume(of, c) \in Nat
  <2>1. \A i \in 1..N : Part(Members(of, c), degree, i) \in Nat
    BY <1>1 DEF Part
  <2> QED
    BY <1>1, <1>2, <2>1, TotalNat
<1>5. C!InnerWeight(of, c) \in Nat
  BY <1>1, <1>3, BelowIs
<1>6. C!TwiceM \in Nat
  <2>1. \A i \in 1..N : Part(1..N, degree, i) \in Nat
    BY <1>1 DEF Part
  <2>2. C!TwiceM = C!Total(1..N, N, degree)
    BY <1>1, Zenon DEF C!TwiceM, N
  <2> QED
    BY <1>1, <2>1, <2>2, TotalNat
<1>7. C!Share(of, c) \in Int
  BY <1>4, <1>5, <1>6 DEF C!Share
<1> QED
  BY <1>2, <1>3, <1>4, <1>5, <1>6, <1>7

(* Node a goes to c.                                                        *)
Goes(of, a, c, to) ==
  /\ Partition(of) /\ Partition(to)
  /\ a \in 1..N /\ c \in 1..N /\ c # of[a]
  /\ to[a] = c /\ \A i \in 1..N : i # a => to[i] = of[i]

LEMMA GoesIs ==
  ASSUME NEW of, Partition(of), NEW a \in 1..N, NEW c \in 1..N, c # of[a]
  PROVE  Goes(of, a, c, [of EXCEPT ![a] = c])
<1> DEFINE to == [of EXCEPT ![a] = c]
<1>1. Partition(to) /\ to[a] = c /\ \A i \in 1..N : i # a => to[i] = of[i]
  BY DEF Partition
<1> HIDE DEF to
<1>2. Goes(of, a, c, to)
  BY <1>1, Zenon DEF Goes
<1> QED
  BY <1>2 DEF to

(* It takes its degree and its weights along.                               *)
Carries(of, a, c, to) ==
  /\ C!Volume(to, of[a]) = C!Volume(of, of[a]) - degree[a]
  /\ C!Volume(to, c) = C!Volume(of, c) + degree[a]
  /\ C!InnerWeight(to, of[a]) = C!InnerWeight(of, of[a]) - WeightIn(of, a, of[a])
  /\ C!InnerWeight(to, c) = C!InnerWeight(of, c) + WeightIn(of, a, c)
  /\ \A d \in 1..N : d # c /\ d # of[a] =>
       /\ C!Volume(to, d) = C!Volume(of, d) /\ C!InnerWeight(to, d) = C!InnerWeight(of, d)
       /\ C!Share(to, d) = C!Share(of, d)
  /\ WeightIn(of, a, of[a]) \in Int /\ WeightIn(of, a, c) \in Int

LEMMA GoesOver ==
  ASSUME C!CommunitiesAssumption, GraphStands, NEW of, NEW a, NEW c, NEW to, Goes(of, a, c, to)
  PROVE  Carries(of, a, c, to)
<1> DEFINE own == of[a]
           Q == Members(to, own)
           R == Members(of, c)
<1>1. /\ Weights(N, adj) /\ N \in Nat /\ degree \in [1..N -> Int]
      /\ adj[a] \in [1..N -> Int] /\ adj[a][a] = 0
  <2>1. Weights(N, adj) /\ N \in Nat \ {0} /\ degree \in [1..N -> Nat]
    BY GraphIs
  <2>2. adj[a] \in [1..N -> Nat] /\ adj[a][a] = 0
    BY <2>1, Zenon DEF Weights, Goes
  <2> QED
    BY <2>1, <2>2
<1>2. own \in 1..N
  BY DEF Goes, Partition
<1>3. /\ a \in 1..N /\ c \in 1..N /\ c # of[a]
      /\ to[a] = c /\ \A i \in 1..N : i # a => to[i] = of[i]
  BY Zenon DEF Goes
<1>4. Members(of, own) = Q \cup {a} /\ a \notin Q /\ Q \in SUBSET (1..N)
  BY <1>3 DEF Members
<1>5. Members(to, c) = R \cup {a} /\ a \notin R /\ R \in SUBSET (1..N)
  BY <1>3 DEF Members
<1>6. \A d \in 1..N : d # c /\ d # own => Members(to, d) = Members(of, d)
  BY <1>3 DEF Members
<1> HIDE DEF Q, R, own
<1>7. a \notin Q /\ a \notin R /\ Q \in SUBSET (1..N) /\ R \in SUBSET (1..N)
  BY <1>4, <1>5
<1>8. /\ N \in Nat /\ a \in 1..N /\ degree \in [1..N -> Int] /\ degree[a] \in Int
  BY <1>1, <1>3
<1>9. C!Total(Q \cup {a}, N, degree) = C!Total(Q, N, degree) + degree[a]
  BY <1>7, <1>8, TotalJoins
<1>10. C!Total(R \cup {a}, N, degree) = C!Total(R, N, degree) + degree[a]
  BY <1>7, <1>8, TotalJoins
<1>11. C!Total(Q \cup {a}, N, adj[a]) = C!Total(Q, N, adj[a]) + adj[a][a]
  BY <1>1, <1>7, <1>8, TotalJoins
<1>12. Inner(N, adj, Q \cup {a}) = Inner(N, adj, Q) + C!Total(Q, N, adj[a])
  BY <1>1, <1>7, <1>8, InnerJoins
<1>13. Inner(N, adj, R \cup {a}) = Inner(N, adj, R) + C!Total(R, N, adj[a])
  BY <1>1, <1>7, <1>8, InnerJoins
<1>14. C!Total(Q, N, adj[a]) \in Int /\ C!Total(R, N, adj[a]) \in Int
  <2>1. \A S : Summable(S, N, adj[a])
    BY <1>1 DEF Summable, Part
  <2> QED
    BY <1>1, <2>1, TotalInt
<1>15. degree[a] \in Int
  BY <1>8
<1>16. /\ C!Volume(of, own) = C!Total(Q \cup {a}, N, degree)
       /\ C!Volume(to, own) = C!Total(Q, N, degree)
       /\ C!Volume(to, c) = C!Total(R \cup {a}, N, degree)
       /\ C!Volume(of, c) = C!Total(R, N, degree)
       /\ C!InnerWeight(of, own) = Inner(N, adj, Q \cup {a})
       /\ C!InnerWeight(to, own) = Inner(N, adj, Q)
       /\ C!InnerWeight(to, c) = Inner(N, adj, R \cup {a})
       /\ C!InnerWeight(of, c) = Inner(N, adj, R)
  BY <1>4, <1>5, SharesAre, Zenon DEF Q, R
<1>17. /\ WeightIn(of, a, own) = C!Total(Q \cup {a}, N, adj[a])
       /\ WeightIn(of, a, c) = C!Total(R, N, adj[a])
  BY <1>4, Zenon DEF WeightIn, R
<1>18. /\ C!Volume(to, own) \in Int /\ C!Volume(of, c) \in Int
       /\ C!InnerWeight(to, own) \in Int /\ C!InnerWeight(of, c) \in Int
  <2>1. \A of1, d : C!Volume(of1, d) \in Nat /\ C!InnerWeight(of1, d) \in Nat
    BY SharesAre, Zenon
  <2>2. Nat \subseteq Int
    OBVIOUS
  <2> QED
    BY <2>1, <2>2, Zenon
<1>19. /\ C!Volume(to, own) = C!Volume(of, own) - degree[a]
       /\ C!Volume(to, c) = C!Volume(of, c) + degree[a]
  BY <1>9, <1>10, <1>15, <1>16, <1>18
<1>20. /\ WeightIn(of, a, own) = C!Total(Q, N, adj[a])
       /\ WeightIn(of, a, own) \in Int /\ WeightIn(of, a, c) \in Int
  BY <1>1, <1>11, <1>14, <1>17
<1>21. /\ C!InnerWeight(to, own) = C!InnerWeight(of, own) - WeightIn(of, a, own)
       /\ C!InnerWeight(to, c) = C!InnerWeight(of, c) + WeightIn(of, a, c)
  BY <1>12, <1>13, <1>16, <1>17, <1>18, <1>20
<1>22. \A d \in 1..N : d # c /\ d # own =>
         C!Volume(to, d) = C!Volume(of, d) /\ C!InnerWeight(to, d) = C!InnerWeight(of, d)
  BY <1>6, SharesAre, Zenon
<1>23. \A d \in 1..N : d # c /\ d # own => C!Share(to, d) = C!Share(of, d)
  BY <1>22, Zenon DEF C!Share
<1> QED
  BY <1>19, <1>20, <1>21, <1>22, <1>23, Zenon DEF own, Carries

(* Names that are not in use have no share, and need not be left out.       *)
Shares(of) == [c \in 1..N |-> C!Share(of, c)]

LEMMA QualityAll ==
  ASSUME C!CommunitiesAssumption, GraphStands, NEW of, Partition(of)
  PROVE  C!Quality(of) = C!Total(1..N, N, Shares(of))
<1> DEFINE used == {of[i] : i \in 1..N}
<1>1. Weights(N, adj) /\ N \in Nat /\ C!Nodes = 1..N
  BY GraphIs
<1>2. C!Quality(of) = C!Total(used, N, Shares(of))
  BY <1>1, Zenon DEF C!Quality, Shares, N
<1>3. ASSUME NEW c \in 1..N, c \notin used
      PROVE  C!Share(of, c) = 0
  <2>1. Members(of, c) = {}
    BY <1>3 DEF Members
  <2>2. \A f : C!Total({}, N, f) = 0
    <3>1. \A f : \A i \in 1..N : Part({}, f, i) = 0
      BY DEF Part
    <3> QED
      BY <1>1, <3>1, TotalEmpty
  <2>3. C!Volume(of, c) = 0 /\ C!InnerWeight(of, c) = 0
    BY <2>1, <2>2, SharesAre, Zenon DEF Inner
  <2>4. C!TwiceM \in Nat
    BY SharesAre
  <2> QED
    BY <2>3, <2>4 DEF C!Share
<1>4. \A c \in 1..N : Part(1..N, Shares(of), c) = Part(used, Shares(of), c)
  <2>1. \A c \in 1..N : Shares(of)[c] = C!Share(of, c)
    BY Zenon DEF Shares
  <2> HIDE DEF used
  <2> QED
    BY <1>3, <2>1, Zenon DEF Part
<1>5. Summable(used, N, Shares(of))
  <2>1. \A c \in 1..N : Shares(of)[c] \in Int
    BY SharesAre, Zenon DEF Shares
  <2>2. 0 \in Int
    OBVIOUS
  <2> HIDE DEF used
  <2> QED
    BY <2>1, <2>2, Zenon DEF Summable, Part
<1> HIDE DEF used
<1>6. C!Total(1..N, N, Shares(of)) = C!Total(used, N, Shares(of))
  BY <1>1, <1>4, <1>5, TotalSame
<1> QED
  BY <1>2, <1>6, Zenon

(* The code's gain is half the difference in modularity.                    *)
LEMMA GainIs ==
  ASSUME NEW M \in Int, NEW i1 \in Int, NEW i2 \in Int, NEW v1 \in Int, NEW v2 \in Int,
         NEW w1 \in Int, NEW w2 \in Int, NEW k \in Int
  PROVE  (2 * (i1 - w1) * M - (v1 - k) * (v1 - k)) + (2 * (i2 + w2) * M - (v2 + k) * (v2 + k))
         = (2 * i1 * M - v1 * v1) + (2 * i2 * M - v2 * v2)
           + 2 * ((w2 - w1) * M + k * (v1 - v2 - k))
OBVIOUS

LEMMA QualityMoves ==
  ASSUME C!CommunitiesAssumption, GraphStands, NEW of, NEW a, NEW c, NEW to, Goes(of, a, c, to)
  PROVE  /\ C!Quality(of) \in Int
         /\ C!Quality(to) = C!Quality(of)
              + 2 * ((WeightIn(of, a, c) - WeightIn(of, a, of[a])) * C!TwiceM
                     + degree[a] * (C!Volume(of, of[a]) - C!Volume(of, c) - degree[a]))
<1>0. /\ C!Volume(to, of[a]) = C!Volume(of, of[a]) - degree[a]
      /\ C!Volume(to, c) = C!Volume(of, c) + degree[a]
      /\ C!InnerWeight(to, of[a]) = C!InnerWeight(of, of[a]) - WeightIn(of, a, of[a])
      /\ C!InnerWeight(to, c) = C!InnerWeight(of, c) + WeightIn(of, a, c)
      /\ \A d \in 1..N : d # c /\ d # of[a] => C!Share(to, d) = C!Share(of, d)
      /\ WeightIn(of, a, of[a]) \in Int /\ WeightIn(of, a, c) \in Int
  <2>1. Carries(of, a, c, to)
    BY GoesOver, Zenon
  <2> QED
    BY <2>1, Zenon DEF Carries
<1> DEFINE own == of[a]
           R == (1..N) \ {own, c}
           s == Shares(of)
           t == Shares(to)
           Q == R \cup {own}
<1>1. /\ N \in Nat /\ degree[a] \in Int /\ own \in 1..N
      /\ a \in 1..N /\ c \in 1..N /\ c # own
  <2>1. a \in 1..N /\ c \in 1..N /\ c # own /\ of \in [1..N -> 1..N]
    BY Zenon DEF Goes, Partition
  <2>2. N \in Nat \ {0} /\ degree \in [1..N -> Nat]
    BY GraphIs
  <2> QED
    BY <2>1, <2>2
<1>2. /\ own \notin R /\ c \notin Q /\ 1..N = Q \cup {c}
  BY <1>1
<1>3. ASSUME NEW u
      PROVE  /\ Shares(u) \in [1..N -> Int]
             /\ \A d \in 1..N : Shares(u)[d] = C!Share(u, d)
  BY SharesAre, Zenon DEF Shares
<1>4. ASSUME NEW f \in [1..N -> Int]
      PROVE  /\ C!Total(1..N, N, f) = C!Total(R, N, f) + f[own] + f[c]
             /\ C!Total(R, N, f) \in Int
  <2> HIDE DEF R, Q, own
  <2>1. c \notin Q /\ own \notin R
    BY <1>2, Zenon
  <2>2. C!Total(Q \cup {c}, N, f) = C!Total(Q, N, f) + f[c]
    BY <1>1, <2>1, TotalJoins
  <2>3. C!Total(R \cup {own}, N, f) = C!Total(R, N, f) + f[own]
    BY <1>1, <2>1, TotalJoins
  <2>4. C!Total(Q, N, f) = C!Total(R, N, f) + f[own]
    BY <2>3, Zenon DEF Q
  <2>5. C!Total(1..N, N, f) = C!Total(Q, N, f) + f[c]
    BY <1>2, <2>2, Zenon
  <2>6. C!Total(R, N, f) \in Int
    <3>1. Summable(R, N, f)
      BY DEF Summable, Part
    <3> QED
      BY <1>1, <3>1, TotalInt
  <2>7. f[own] \in Int /\ f[c] \in Int
    BY <1>1
  <2> QED
    BY <2>4, <2>5, <2>6, <2>7
<1>5. C!Total(R, N, t) = C!Total(R, N, s)
  <2>1. \A d \in 1..N : d # c /\ d # own => C!Share(to, d) = C!Share(of, d)
    BY <1>0, Zenon
  <2>2. \A d \in 1..N : d \in R => d # c /\ d # own
    OBVIOUS
  <2>3. Summable(R, N, s)
    <3>1. s \in [1..N -> Int]
      BY <1>3, Zenon
    <3> HIDE DEF s, R
    <3> QED
      BY <3>1 DEF Summable, Part
  <2> HIDE DEF R, s, t
  <2>4. \A d \in 1..N : Part(R, t, d) = Part(R, s, d)
    BY <1>3, <2>1, <2>2, Zenon DEF Part, s, t
  <2> QED
    BY <1>1, <2>3, <2>4, TotalSame
<1>6. C!Quality(of) = C!Total(1..N, N, s) /\ C!Quality(to) = C!Total(1..N, N, t)
  <2>1. Partition(of) /\ Partition(to)
    BY Zenon DEF Goes
  <2> QED
    BY <2>1, QualityAll, Zenon
<1>7. s \in [1..N -> Int] /\ t \in [1..N -> Int]
  BY <1>3, Zenon
<1>8. /\ s[own] = C!Share(of, own) /\ s[c] = C!Share(of, c)
      /\ t[own] = C!Share(to, own) /\ t[c] = C!Share(to, c)
  BY <1>1, <1>3, Zenon
<1> HIDE DEF s, t, R, Q
<1>9. /\ C!Total(1..N, N, s) = C!Total(R, N, s) + s[own] + s[c]
      /\ C!Total(1..N, N, t) = C!Total(R, N, s) + t[own] + t[c]
      /\ C!Total(R, N, s) \in Int
  BY <1>4, <1>5, <1>7, Zenon
<1> DEFINE i1 == C!InnerWeight(of, own)
           i2 == C!InnerWeight(of, c)
           v1 == C!Volume(of, own)
           v2 == C!Volume(of, c)
           w1 == WeightIn(of, a, own)
           w2 == WeightIn(of, a, c)
           k == degree[a]
           M == C!TwiceM
<1>10. /\ i1 \in Int /\ i2 \in Int /\ v1 \in Int /\ v2 \in Int
       /\ w1 \in Int /\ w2 \in Int /\ k \in Int /\ M \in Int
  <2>1. /\ \A d : C!Volume(of, d) \in Nat /\ C!InnerWeight(of, d) \in Nat
        /\ C!TwiceM \in Nat
    BY SharesAre, Zenon
  <2>2. Nat \subseteq Int
    OBVIOUS
  <2>3. w1 \in Int /\ w2 \in Int
    BY <1>0, Zenon
  <2> QED
    BY <1>1, <2>1, <2>2, <2>3, Zenon
<1>11. /\ C!Share(of, own) = 2 * i1 * M - v1 * v1
       /\ C!Share(of, c) = 2 * i2 * M - v2 * v2
  BY Zenon DEF C!Share
<1>12. /\ C!Share(to, own) = 2 * (i1 - w1) * M - (v1 - k) * (v1 - k)
       /\ C!Share(to, c) = 2 * (i2 + w2) * M - (v2 + k) * (v2 + k)
  <2>1. /\ C!Volume(to, own) = v1 - k /\ C!Volume(to, c) = v2 + k
        /\ C!InnerWeight(to, own) = i1 - w1 /\ C!InnerWeight(to, c) = i2 + w2
    BY <1>0, Zenon
  <2> HIDE DEF own, k, v1, v2, i1, i2, w1, w2, M
  <2>2. \A u, d : C!Share(u, d) = 2 * C!InnerWeight(u, d) * M - C!Volume(u, d) * C!Volume(u, d)
    BY Zenon DEF C!Share, M
  <2> QED
    BY <2>1, <2>2, Zenon
<1> HIDE DEF k, v1, v2, i1, i2, w1, w2, M
<1>13. (2 * (i1 - w1) * M - (v1 - k) * (v1 - k)) + (2 * (i2 + w2) * M - (v2 + k) * (v2 + k))
         = (2 * i1 * M - v1 * v1) + (2 * i2 * M - v2 * v2)
           + 2 * ((w2 - w1) * M + k * (v1 - v2 - k))
  BY <1>10, GainIs
<1>14. (w2 - w1) * M + k * (v1 - v2 - k) \in Int
  BY <1>10
<1>15. /\ s[own] \in Int /\ s[c] \in Int /\ t[own] \in Int /\ t[c] \in Int
  BY <1>1, <1>7
<1>16. t[own] + t[c] = s[own] + s[c] + 2 * ((w2 - w1) * M + k * (v1 - v2 - k))
  BY <1>8, <1>11, <1>12, <1>13, Zenon
<1>17. C!Total(R, N, s) + t[own] + t[c]
       = (C!Total(R, N, s) + s[own] + s[c]) + 2 * ((w2 - w1) * M + k * (v1 - v2 - k))
  <2> DEFINE g == (w2 - w1) * M + k * (v1 - v2 - k)
             r == C!Total(R, N, s)
             x1 == s[own]
             x2 == s[c]
             y1 == t[own]
             y2 == t[c]
  <2>1. /\ g \in Int /\ r \in Int /\ y1 + y2 = x1 + x2 + 2 * g
        /\ x1 \in Int /\ x2 \in Int /\ y1 \in Int /\ y2 \in Int
    BY <1>9, <1>14, <1>15, <1>16, Zenon
  <2> HIDE DEF g, r, x1, x2, y1, y2
  <2>2. r + y1 + y2 = (r + x1 + x2) + 2 * g
    BY <2>1
  <2> QED
    BY <2>2, Zenon DEF g, r, x1, x2, y1, y2
<1>18. C!Quality(to) = C!Quality(of) + 2 * ((w2 - w1) * M + k * (v1 - v2 - k))
  BY <1>6, <1>9, <1>17, Zenon
<1>19. C!Quality(of) \in Int
  BY <1>6, <1>9, <1>15
<1> QED
  BY <1>18, <1>19, Zenon DEF k, v1, v2, w1, w2, M, own

-------------------------------------------------------------------------------
(* A move.                                                                  *)

(* Where a node goes to, it has a neighbour, and it gains.                  *)
LEMMA BestIs ==
  ASSUME C!CommunitiesAssumption, GraphStands, C!TypeOK, C!SumsAgree,
         NEW a \in 1..N, NEW c \in C!Best(a)
  PROVE  /\ c \in 1..N /\ c # community[a]
         /\ \E k \in 1..N : adj[a][k] > 0 /\ community[k] = c
         /\ C!Quality([community EXCEPT ![a] = c]) > C!Quality(community)
<1>1. N \in Nat /\ C!Nodes = 1..N /\ Partition(community) /\ degree[a] \in Int
  <2>1. N \in Nat \ {0} /\ C!Nodes = 1..N /\ degree \in [1..N -> Nat]
    BY GraphIs
  <2>2. Partition(community)
    BY <2>1, Zenon DEF C!TypeOK, Partition
  <2> QED
    BY <2>1, <2>2
<1>2. c \in C!Adjacent(a) /\ c # community[a] /\ C!Gain(a, c) > 0
  BY DEF C!Best
<1>3. PICK k \in 1..N : adj[a][k] > 0 /\ community[k] = c
  BY <1>1, <1>2, Zenon DEF C!Adjacent
<1>4. c \in 1..N /\ community[a] \in 1..N
  BY <1>1, <1>3 DEF Partition
<1> DEFINE own == community[a]
           to == [community EXCEPT ![a] = c]
           g == (WeightIn(community, a, c) - WeightIn(community, a, own)) * C!TwiceM
                     + degree[a] * (C!Volume(community, own) - C!Volume(community, c) - degree[a])
<1>5. Goes(community, a, c, to)
  BY <1>1, <1>2, <1>4, GoesIs
<1>6. C!Gain(a, c) = g
  <2>1. sum_tot[own] = C!Volume(community, own) /\ sum_tot[c] = C!Volume(community, c)
    BY <1>1, <1>4, Zenon DEF C!SumsAgree
  <2>2. /\ C!WeightTo(a, c) = WeightIn(community, a, c)
        /\ C!WeightTo(a, own) = WeightIn(community, a, own)
    BY <1>1, Zenon DEF C!WeightTo, WeightIn, Members, N
  <2>3. C!Gain(a, c) = (C!WeightTo(a, c) - C!WeightTo(a, own)) * C!TwiceM
                         + degree[a] * (sum_tot[own] - sum_tot[c] - degree[a])
    BY Zenon DEF C!Gain
  <2> QED
    BY <2>1, <2>2, <2>3
<1>7. C!Quality(community) \in Int /\ C!Quality(to) = C!Quality(community) + 2 * g
  <2> HIDE DEF to
  <2> QED
    BY <1>5, QualityMoves, Zenon
<1>8. g \in Int
  <2>1. WeightIn(community, a, own) \in Int /\ WeightIn(community, a, c) \in Int
    BY <1>5, GoesOver, Zenon DEF Carries
  <2>2. C!TwiceM \in Nat /\ C!Volume(community, own) \in Nat /\ C!Volume(community, c) \in Nat
    BY SharesAre, Zenon
  <2> QED
    BY <1>1, <2>1, <2>2
<1> HIDE DEF g, to
<1>9. C!Quality(to) > C!Quality(community)
  BY <1>2, <1>6, <1>7, <1>8
<1> QED
  BY <1>2, <1>3, <1>4, <1>9 DEF to

-------------------------------------------------------------------------------
(* Connected parts.                                                         *)

Near(X) == {j \in 1..N : \E k \in X : adj[j][k] > 0}
Reaches(F, i) ==
  F \in [0..N -> SUBSET (1..N)] /\ F[0] = {i} /\ \A d \in 1..N : F[d] = F[d - 1] \cup Near(F[d - 1])

LEMMA ConnectedRuns ==
  ASSUME N \in Nat, C!Nodes = 1..N, NEW i \in 1..N
  PROVE  \E F : Reaches(F, i) /\ C!Connected(i) = F[N]
<1> DEFINE Next1(g) == [d \in 0..N |-> IF d = 0 THEN {i} ELSE g[d - 1] \cup Near(g[d - 1])]
           run == CHOOSE g : g = Next1(g)
           States == SUBSET (1..N)
           next == [p \in (1..N) \X States |-> p[2] \cup Near(p[2])]
<1>1. next \in [(1..N) \X States -> States]
  <2>1. \A X : Near(X) \in States
    BY DEF Near
  <2>2. \A p \in (1..N) \X States : p[2] \cup Near(p[2]) \in States
    BY <2>1
  <2> QED
    BY <2>2, Zenon
<1>2. {i} \in States
  OBVIOUS
<1>3. PICK F \in [0..N -> States] : Recurs(F, {i}, next, N)
  <2> HIDE DEF next, States
  <2> QED
    BY <1>1, <1>2, RecurrenceExists
<1>4. ASSUME NEW d \in 1..N
      PROVE  F[d] = F[d - 1] \cup Near(F[d - 1])
  <2>1. d - 1 \in 0..N
    OBVIOUS
  <2>2. <<d, F[d - 1]>> \in (1..N) \X States
    BY <2>1
  <2>3. <<d, F[d - 1]>>[2] = F[d - 1]
    OBVIOUS
  <2>4. next[<<d, F[d - 1]>>] = F[d - 1] \cup Near(F[d - 1])
    BY <2>2, <2>3, Zenon
  <2> HIDE DEF next
  <2> QED
    BY <1>3, <2>4, Zenon DEF Recurs
<1>5. Reaches(F, i)
  BY <1>3, <1>4, Zenon DEF Reaches, Recurs
<1>6. F = Next1(F)
  <2>1. ASSUME NEW d \in 0..N
        PROVE  F[d] = Next1(F)[d]
    <3>1. CASE d = 0
      BY <1>5, <3>1, Zenon DEF Reaches
    <3>2. CASE d # 0
      <4>1. d \in 1..N
        BY <3>2
      <4> QED
        BY <1>4, <3>2, <4>1, Zenon
    <3> QED
      BY <3>1, <3>2
  <2>2. DOMAIN F = 0..N /\ F = [d \in 0..N |-> F[d]]
    BY Zenon
  <2>3. DOMAIN Next1(F) = 0..N /\ Next1(F) = [d \in 0..N |-> Next1(F)[d]]
    BY Zenon
  <2> HIDE DEF Next1
  <2> QED
    BY <2>1, <2>2, <2>3, Zenon
<1>7. run = Next1(run)
  <2> HIDE DEF Next1
  <2> QED
    BY <1>6, Zenon
<1>8. C!Connected(i) = run[N]
  BY Zenon DEF C!Connected, C!Nodes, Near, N
<1> HIDE DEF run
<1> DEFINE X == {d \in 0..N : run[d] = F[d]}
<1>9. 0 \in X
  <2>1. 0 \in 0..N
    OBVIOUS
  <2>2. Next1(run)[0] = {i}
    BY <2>1, Zenon
  <2> QED
    BY <1>5, <1>7, <2>1, <2>2, Zenon DEF Reaches
<1>10. ASSUME NEW d \in 1..N, d - 1 \in X
       PROVE  d \in X
  <2>1. d \in 0..N /\ d # 0
    OBVIOUS
  <2>2. Next1(run)[d] = run[d - 1] \cup Near(run[d - 1])
    BY <2>1, Zenon
  <2>3. run[d - 1] = F[d - 1]
    BY <1>10
  <2>4. run[d] = F[d]
    BY <1>4, <1>7, <2>2, <2>3, Zenon
  <2> QED
    BY <2>1, <2>4, Zenon
<1>11. run[N] = F[N]
  <2>1. N \in 0..N
    OBVIOUS
  <2>2. \A d \in 0..N : d \in X
    <3> HIDE DEF X
    <3> QED
      BY <1>9, <1>10, UpTo
  <2> QED
    BY <2>1, <2>2, Zenon
<1> QED
  BY <1>5, <1>8, <1>11, Zenon

(* N rounds reach all that can be reached, and no more.                     *)
Closed(X) == \A k \in X : \A j \in 1..N : adj[j][k] > 0 => j \in X

LEMMA ConnectedIs ==
  ASSUME N \in Nat, C!Nodes = 1..N, NEW i \in 1..N
  PROVE  /\ i \in C!Connected(i) /\ C!Connected(i) \in SUBSET (1..N)
         /\ Closed(C!Connected(i))
         /\ \A X : i \in X /\ Closed(X) => C!Connected(i) \subseteq X
<1>1. PICK F : Reaches(F, i) /\ C!Connected(i) = F[N]
  BY ConnectedRuns
<1>2. /\ F \in [0..N -> SUBSET (1..N)] /\ F[0] = {i}
      /\ \A d \in 1..N : F[d] = F[d - 1] \cup Near(F[d - 1])
  BY <1>1, Zenon DEF Reaches
<1>3. N \in 0..N /\ 0 \in 0..N
  OBVIOUS
<1>4. i \in F[N]
  <2> DEFINE X == {d \in 0..N : i \in F[d]}
  <2>1. 0 \in X
    BY <1>2, <1>3
  <2>2. ASSUME NEW d \in 1..N, d - 1 \in X
        PROVE  d \in X
    BY <1>2, <2>2
  <2> HIDE DEF X
  <2>3. N \in X
    BY <1>3, <2>1, <2>2, UpTo
  <2> QED
    BY <2>3 DEF X
<1>5. ASSUME NEW Z, i \in Z, Closed(Z)
      PROVE  F[N] \subseteq Z
  <2> DEFINE X == {d \in 0..N : F[d] \subseteq Z}
  <2>1. 0 \in X
    BY <1>2, <1>3, <1>5
  <2>2. ASSUME NEW d \in 1..N, d - 1 \in X
        PROVE  d \in X
    <3>1. d \in 0..N /\ F[d - 1] \subseteq Z /\ F[d] = F[d - 1] \cup Near(F[d - 1])
      BY <1>2, <2>2
    <3>2. Near(F[d - 1]) \subseteq Z
      BY <1>5, <3>1 DEF Near, Closed
    <3> QED
      BY <3>1, <3>2
  <2> HIDE DEF X
  <2>3. N \in X
    BY <1>3, <2>1, <2>2, UpTo
  <2> QED
    BY <2>3 DEF X
<1>6. Closed(F[N])
  <2> DEFINE X == {d \in 0..N : Closed(F[d]) \/ Cardinality(F[d]) > d}
  <2>1. ASSUME NEW d \in 0..N
        PROVE  IsFiniteSet(F[d]) /\ F[d] \in SUBSET (1..N) /\ Cardinality(F[d]) \in Nat
    <3>1. F[d] \in SUBSET (1..N)
      BY <1>2
    <3>2. IsFiniteSet(1..N)
      BY FS_Interval
    <3> QED
      BY <3>1, <3>2, FS_Subset, FS_CardinalityType
  <2>2. 0 \in X
    <3>1. Cardinality({i}) = 1
      BY FS_Singleton
    <3>2. Cardinality(F[0]) = 1
      BY <1>2, <3>1, Zenon
    <3> QED
      BY <1>3, <3>2
  <2>3. ASSUME NEW d \in 1..N, d - 1 \in X
        PROVE  d \in X
    <3> DEFINE Y == F[d - 1]
    <3>1. /\ d \in 0..N /\ d - 1 \in 0..N /\ d \in Nat /\ d - 1 \in Nat
          /\ F[d] = Y \cup Near(Y)
      BY <1>2
    <3>2. CASE Closed(Y)
      <4>1. Near(Y) \subseteq Y
        BY <3>2 DEF Near, Closed
      <4>2. F[d] = Y
        BY <3>1, <4>1
      <4> QED
        BY <3>1, <3>2, <4>2, Zenon
    <3>3. CASE ~Closed(Y)
      <4>1. Cardinality(Y) > d - 1
        BY <2>3, <3>3
      <4>2. PICK j \in Near(Y) : j \notin Y
        BY <3>3 DEF Near, Closed
      <4>3. /\ IsFiniteSet(Y) /\ Cardinality(Y) \in Nat
            /\ IsFiniteSet(F[d]) /\ Cardinality(F[d]) \in Nat
        BY <2>1, <3>1, Zenon
      <4> HIDE DEF Y
      <4>4. Cardinality(Y \cup {j}) = Cardinality(Y) + 1
        BY <4>2, <4>3, FS_AddElement
      <4>5. Y \cup {j} \subseteq F[d]
        BY <3>1, <4>2
      <4>6. Cardinality(Y \cup {j}) <= Cardinality(F[d])
        BY <4>3, <4>5, FS_Subset
      <4>7. Cardinality(F[d]) > d
        BY <3>1, <4>1, <4>3, <4>4, <4>6
      <4> QED
        BY <3>1, <4>7
    <3> QED
      BY <3>2, <3>3
  <2>4. N \in X
    <3> HIDE DEF X
    <3> QED
      BY <1>3, <2>2, <2>3, UpTo
  <2>5. Cardinality(F[N]) <= N
    <3>1. IsFiniteSet(1..N) /\ Cardinality(1..N) = N
      BY FS_Interval
    <3>2. F[N] \subseteq 1..N
      BY <1>3, <2>1
    <3> QED
      BY <3>1, <3>2, FS_Subset
  <2>6. Cardinality(F[N]) \in Nat
    BY <1>3, <2>1
  <2> QED
    BY <2>4, <2>5, <2>6
<1>7. F[N] \in SUBSET (1..N)
  BY <1>2, <1>3
<1> QED
  BY <1>1, <1>4, <1>5, <1>6, <1>7, Zenon

(* Communities stay within parts: the node that moves has a neighbour where *)
(* it goes.                                                                 *)
LEMMA WithinStep ==
  ASSUME C!CommunitiesAssumption, GraphStands, C!WithinParts,
         NEW a, NEW c, NEW to, Goes(community, a, c, to),
         \E k \in 1..N : adj[a][k] > 0 /\ community[k] = c
  PROVE  \A i, j \in 1..N : to[i] = to[j] => j \in C!Connected(i)
<1>1. Weights(N, adj) /\ N \in Nat /\ C!Nodes = 1..N
  BY GraphIs
<1>2. /\ a \in 1..N /\ to[a] = c /\ c # community[a]
      /\ \A i \in 1..N : i # a => to[i] = community[i]
  BY Zenon DEF Goes
<1>3. \A i, j \in 1..N : community[i] = community[j] => j \in C!Connected(i)
  BY <1>1, Zenon DEF C!WithinParts
<1>4. PICK k \in 1..N : adj[a][k] > 0 /\ community[k] = c
  OBVIOUS
<1>5. adj[k][a] > 0
  BY <1>1, <1>2, <1>4, Zenon DEF Weights
<1>6. ASSUME NEW i \in 1..N
      PROVE  /\ i \in C!Connected(i) /\ Closed(C!Connected(i))
             /\ \A X : i \in X /\ Closed(X) => C!Connected(i) \subseteq X
  BY <1>1, ConnectedIs, Zenon
<1>7. ASSUME NEW i \in 1..N, NEW j \in 1..N, to[i] = to[j]
      PROVE  j \in C!Connected(i)
  <2>1. CASE i = j
    BY <1>6, <2>1, Zenon
  <2>2. CASE i # a /\ j # a
    BY <1>2, <1>3, <1>7, <2>2, Zenon
  <2>3. CASE j = a /\ i # a
    <3>1. k \in C!Connected(i)
      BY <1>2, <1>3, <1>4, <1>7, <2>3, Zenon
    <3> QED
      BY <1>4, <1>6, <2>3, <3>1, Zenon DEF Closed
  <2>4. CASE i = a /\ j # a
    <3>1. j \in C!Connected(k)
      BY <1>2, <1>3, <1>4, <1>7, <2>4, Zenon
    <3>2. k \in C!Connected(a)
      BY <1>2, <1>4, <1>5, <1>6, Zenon DEF Closed
    <3>3. C!Connected(k) \subseteq C!Connected(a)
      BY <1>2, <1>6, <3>2, Zenon
    <3> QED
      BY <2>4, <3>1, <3>3
  <2> QED
    BY <2>1, <2>2, <2>3, <2>4, Zenon
<1> QED
  BY <1>7, Zenon

-------------------------------------------------------------------------------
(* The report.                                                              *)

(* The first nodes of the communities.                                      *)
Leaders(of) == {i \in 1..N : \A j \in 1..N : of[j] = of[i] => i <= j}
Lead(of) == [i \in 1..N |-> C!Share(of, of[i])]

LEMMA LeadersLead ==
  ASSUME C!CommunitiesAssumption, GraphStands, NEW of, Partition(of)
  PROVE  C!Quality(of) = C!Total(Leaders(of), N, Lead(of))
<1> DEFINE Used(m) == {of[i] : i \in 1..m}
           Led(m) == {i \in Leaders(of) : i <= m}
           X == {m \in 0..N : C!Total(Used(m), N, Shares(of)) = C!Total(Led(m), N, Lead(of))}
<1>1. N \in Nat /\ C!Nodes = 1..N
  BY GraphIs
<1>2. /\ Shares(of) \in [1..N -> Int] /\ Lead(of) \in [1..N -> Int]
      /\ \A i \in 1..N : of[i] \in 1..N /\ Lead(of)[i] = Shares(of)[of[i]]
  <2>1. \A d : C!Share(of, d) \in Int
    BY SharesAre, Zenon
  <2>2. \A i \in 1..N : of[i] \in 1..N
    BY DEF Partition
  <2> QED
    BY <2>1, <2>2, Zenon DEF Shares, Lead
<1>3. 0 \in X
  <2>1. Used(0) = {} /\ Led(0) = {}
    BY DEF Leaders
  <2>2. \A f : C!Total({}, N, f) = 0
    <3>1. \A f : \A i \in 1..N : Part({}, f, i) = 0
      BY DEF Part
    <3> QED
      BY <1>1, <3>1, TotalEmpty
  <2>3. 0 \in 0..N
    BY <1>1
  <2> HIDE DEF Used, Led
  <2> QED
    BY <2>1, <2>2, <2>3, Zenon
<1>4. ASSUME NEW m \in 1..N, m - 1 \in X
      PROVE  m \in X
  <2>1. /\ m \in 0..N /\ m \in Nat
        /\ C!Total(Used(m - 1), N, Shares(of)) = C!Total(Led(m - 1), N, Lead(of))
    BY <1>4
  <2>2. CASE m \in Leaders(of)
    <3>1. Used(m) = Used(m - 1) \cup {of[m]}
      BY <1>1
    <3>2. of[m] \notin Used(m - 1)
      BY <1>1, <2>2 DEF Leaders
    <3>3. Led(m) = Led(m - 1) \cup {m} /\ m \notin Led(m - 1)
      BY <1>1, <2>2 DEF Leaders
    <3> HIDE DEF Used, Led
    <3>4. C!Total(Used(m - 1) \cup {of[m]}, N, Shares(of))
          = C!Total(Used(m - 1), N, Shares(of)) + Shares(of)[of[m]]
      <4>1. /\ N \in Nat /\ of[m] \in 1..N /\ of[m] \notin Used(m - 1)
            /\ Shares(of) \in [1..N -> Int]
        BY <1>1, <1>2, <3>2
      <4> QED
        BY <4>1, TotalJoins
    <3>5. m \notin Led(m - 1)
      BY <3>3, Zenon
    <3>6. C!Total(Led(m - 1) \cup {m}, N, Lead(of))
          = C!Total(Led(m - 1), N, Lead(of)) + Lead(of)[m]
      <4>1. N \in Nat /\ m \in 1..N /\ m \notin Led(m - 1) /\ Lead(of) \in [1..N -> Int]
        BY <1>1, <1>2, <3>5
      <4> QED
        BY <4>1, TotalJoins
    <3> QED
      BY <1>2, <2>1, <3>1, <3>3, <3>4, <3>6, Zenon
  <2>3. CASE m \notin Leaders(of)
    <3>1. PICK j \in 1..N : of[j] = of[m] /\ ~(m <= j)
      BY <2>3 DEF Leaders
    <3>2. j \in 1..m - 1
      BY <1>1, <3>1
    <3>3. Used(m) = Used(m - 1)
      BY <1>1, <3>1, <3>2
    <3>4. Led(m) = Led(m - 1)
      BY <1>1, <2>3 DEF Leaders
    <3> HIDE DEF Used, Led
    <3> QED
      BY <2>1, <3>3, <3>4, Zenon
  <2> QED
    BY <2>2, <2>3
<1>5. N \in X
  <2>1. N \in 0..N
    BY <1>1
  <2> HIDE DEF X
  <2> QED
    BY <1>1, <1>3, <1>4, <2>1, UpTo
<1>6. Led(N) = Leaders(of)
  BY <1>1 DEF Leaders
<1>7. C!Quality(of) = C!Total(Used(N), N, Shares(of))
  BY <1>1, Zenon DEF C!Quality, Shares, N
<1> HIDE DEF Used, Led
<1> QED
  BY <1>5, <1>6, <1>7, Zenon

(* The modularity is that of the communities, whatever they are called.     *)
LEMMA NamesDoNotMatter ==
  ASSUME C!CommunitiesAssumption, GraphStands,
         NEW of, Partition(of), NEW to, Partition(to),
         \A i, j \in 1..N : to[i] = to[j] <=> of[i] = of[j]
  PROVE  C!Quality(to) = C!Quality(of)
<1>1. Leaders(to) = Leaders(of)
  BY DEF Leaders
<1>2. ASSUME NEW i \in 1..N
      PROVE  C!Share(to, to[i]) = C!Share(of, of[i])
  <2>1. Members(to, to[i]) = Members(of, of[i])
    BY DEF Members
  <2>2. /\ C!Volume(to, to[i]) = C!Volume(of, of[i])
        /\ C!InnerWeight(to, to[i]) = C!InnerWeight(of, of[i])
    <3>1. /\ C!Volume(to, to[i]) = C!Total(Members(to, to[i]), N, degree)
          /\ C!InnerWeight(to, to[i]) = Inner(N, adj, Members(to, to[i]))
      BY SharesAre, Zenon
    <3>2. /\ C!Volume(of, of[i]) = C!Total(Members(of, of[i]), N, degree)
          /\ C!InnerWeight(of, of[i]) = Inner(N, adj, Members(of, of[i]))
      BY SharesAre, Zenon
    <3> QED
      BY <2>1, <3>1, <3>2, Zenon
  <2> QED
    BY <2>2, Zenon DEF C!Share
<1>3. Lead(to) = Lead(of)
  BY <1>2, Zenon DEF Lead
<1> QED
  BY <1>1, <1>3, LeadersLead, Zenon

(* Renumbering: the rank of the first node among the first nodes.           *)
LEMMA FirstIs ==
  ASSUME N \in Nat, Partition(community), NEW i \in 1..N,
         NEW f, f = C!Min({j \in 1..N : community[j] = community[i]})
  PROVE  /\ f \in Leaders(community) /\ community[f] = community[i] /\ f <= i
         /\ f \in 1..N
<1> DEFINE S == {j \in 1..N : community[j] = community[i]}
<1>1. S \in SUBSET Nat /\ S # {}
  OBVIOUS
<1>2. PICK m \in S : \A k \in S : m <= k
  <2> HIDE DEF S
  <2> QED
    BY <1>1, LeastNumber
<1>3. f \in S /\ \A k \in S : f <= k
  <2> HIDE DEF S
  <2>1. f = C!Min(S)
    BY DEF S
  <2> QED
    BY <1>2, <2>1, Zenon DEF C!Min
<1> QED
  BY <1>3 DEF Leaders

Rank(f) == Cardinality({g \in Leaders(community) : g <= f})

LEMMA RankIs ==
  ASSUME N \in Nat, NEW f \in 1..N
  PROVE  /\ IsFiniteSet({g \in Leaders(community) : g <= f})
         /\ Rank(f) \in Nat /\ Rank(f) <= N
         /\ f \in Leaders(community) => Rank(f) # 0
<1> DEFINE R == {g \in Leaders(community) : g <= f}
<1>1. IsFiniteSet(1..N) /\ Cardinality(1..N) = N
  BY FS_Interval
<1>2. R \subseteq 1..N
  BY DEF Leaders
<1>3. f \in Leaders(community) => R # {}
  OBVIOUS
<1> HIDE DEF R
<1>4. IsFiniteSet(R) /\ Cardinality(R) <= Cardinality(1..N)
  BY <1>1, <1>2, FS_Subset
<1>5. Cardinality(R) \in Nat /\ (Cardinality(R) = 0 <=> R = {})
  BY <1>4, FS_CardinalityType, FS_EmptySet
<1> QED
  BY <1>1, <1>3, <1>4, <1>5 DEF R, Rank

LEMMA RankGrows ==
  ASSUME N \in Nat, NEW f \in Leaders(community), NEW g \in Leaders(community), f < g
  PROVE  Rank(f) < Rank(g)
<1> DEFINE R == {h \in Leaders(community) : h <= f}
           S == {h \in Leaders(community) : h <= g}
<1>1. f \in 1..N /\ g \in 1..N /\ Leaders(community) \in SUBSET (1..N)
  BY DEF Leaders
<1>2. R \cup {g} \subseteq S /\ g \notin R
  BY <1>1
<1>3. /\ IsFiniteSet(R) /\ Rank(f) = Cardinality(R) /\ Rank(f) \in Nat
      /\ IsFiniteSet(S) /\ Rank(g) = Cardinality(S) /\ Rank(g) \in Nat
  BY <1>1, RankIs, Zenon DEF Rank
<1> HIDE DEF R, S
<1>4. Cardinality(R \cup {g}) = Cardinality(R) + 1
  BY <1>2, <1>3, FS_AddElement
<1>5. Cardinality(R \cup {g}) <= Cardinality(S)
  BY <1>2, <1>3, FS_Subset
<1> QED
  BY <1>3, <1>4, <1>5

LEMMA RenumberedIs ==
  ASSUME N \in Nat, C!Nodes = 1..N, Partition(community)
  PROVE  /\ C!Renumbered \in [1..N -> 1..N]
         /\ \A i, j \in 1..N : C!Renumbered[i] = C!Renumbered[j] <=> community[i] = community[j]
         /\ \A i \in 1..N : C!Renumbered[i] > 1 =>
              \E j \in 1..(i - 1) : C!Renumbered[j] = C!Renumbered[i] - 1
<1> DEFINE Leader(i) == C!Min({j \in 1..N : community[j] = community[i]})
           firsts == {Leader(i) : i \in 1..N}
           new == C!Renumbered
<1>1. ASSUME NEW i \in 1..N
      PROVE  /\ Leader(i) \in Leaders(community) /\ community[Leader(i)] = community[i]
             /\ Leader(i) <= i /\ Leader(i) \in 1..N
  <2>1. \A f : f = Leader(i) => /\ f \in Leaders(community) /\ community[f] = community[i]
                                /\ f <= i /\ f \in 1..N
    <3> HIDE DEF Leader
    <3> QED
      BY FirstIs, Zenon DEF Leader
  <2> HIDE DEF Leader
  <2> QED
    BY <2>1
<1>2. \A i, j \in 1..N : community[i] = community[j] => Leader(i) = Leader(j)
  BY Zenon
<1>3. ASSUME NEW f \in Leaders(community)
      PROVE  f \in 1..N /\ Leader(f) = f
  <2>1. f \in 1..N /\ \A j \in 1..N : community[j] = community[f] => f <= j
    BY DEF Leaders
  <2>2. /\ Leader(f) \in 1..N /\ community[Leader(f)] = community[f]
        /\ Leader(f) <= f
    BY <1>1, <2>1, Zenon
  <2> HIDE DEF Leader
  <2> QED
    BY <2>1, <2>2
<1>4. firsts = Leaders(community)
  <2>1. firsts \subseteq Leaders(community)
    BY <1>1, Zenon
  <2>2. Leaders(community) \subseteq firsts
    BY <1>3, Zenon
  <2> HIDE DEF firsts
  <2> QED
    BY <2>1, <2>2
<1>5. new = [i \in 1..N |-> Rank(Leader(i))]
  <2>1. new = [i \in 1..N |-> Cardinality({f \in firsts : f <= Leader(i)})]
    <3>1. new = [i \in 1..N |-> C!Cardinality({f \in firsts : f <= Leader(i)})]
      BY Zenon DEF C!Renumbered, C!Nodes, N
    <3>2. \A S : C!Cardinality(S) = Cardinality(S)
      BY Zenon DEF C!Cardinality, Cardinality
    <3> HIDE DEF firsts, Leader, new
    <3> QED
      BY <3>1, <3>2, Zenon
  <2> HIDE DEF firsts, Leader
  <2> QED
    BY <1>4, <2>1, Zenon DEF Rank
<1> HIDE DEF Leader, firsts, new
<1>6. \A i \in 1..N : new[i] = Rank(Leader(i))
  BY <1>5, Zenon
<1>7. new \in [1..N -> 1..N]
  <2>1. ASSUME NEW i \in 1..N
        PROVE  Rank(Leader(i)) \in 1..N
    <3>1. Leader(i) \in 1..N /\ Leader(i) \in Leaders(community)
      BY <1>1
    <3>2. Rank(Leader(i)) \in Nat /\ Rank(Leader(i)) <= N /\ Rank(Leader(i)) # 0
      BY <3>1, RankIs, Zenon
    <3> QED
      BY <3>2
  <2> QED
    BY <1>5, <2>1, Zenon
<1>8. ASSUME NEW i \in 1..N, NEW j \in 1..N
      PROVE  new[i] = new[j] <=> community[i] = community[j]
  <2>1. CASE community[i] = community[j]
    BY <1>2, <1>6, <2>1, Zenon
  <2>2. CASE community[i] # community[j]
    <3>1. Leader(i) # Leader(j) /\ Leader(i) \in 1..N /\ Leader(j) \in 1..N
      BY <1>1, <2>2, Zenon
    <3>2. Leader(i) \in Leaders(community) /\ Leader(j) \in Leaders(community)
      BY <1>1, Zenon
    <3>3. Leader(i) < Leader(j) \/ Leader(j) < Leader(i)
      BY <3>1
    <3>4. Rank(Leader(i)) < Rank(Leader(j)) \/ Rank(Leader(j)) < Rank(Leader(i))
      BY <3>2, <3>3, RankGrows
    <3>5. Rank(Leader(i)) \in Nat /\ Rank(Leader(j)) \in Nat
      BY <3>1, RankIs, Zenon
    <3>6. Rank(Leader(i)) # Rank(Leader(j))
      BY <3>4, <3>5
    <3> QED
      BY <1>6, <2>2, <3>6, Zenon
  <2> QED
    BY <2>1, <2>2
<1>9. ASSUME NEW i \in 1..N, new[i] > 1
      PROVE  \E j \in 1..(i - 1) : new[j] = new[i] - 1
  <2> DEFINE f == Leader(i)
             R == {g \in Leaders(community) : g <= f}
             B == R \ {f}
  <2>1. f \in 1..N /\ f \in Leaders(community) /\ f <= i
    BY <1>1, Zenon
  <2>2. IsFiniteSet(R) /\ Rank(f) = Cardinality(R) /\ Rank(f) \in Nat
    BY <2>1, RankIs, Zenon DEF Rank
  <2>3. f \in R /\ R \in SUBSET (1..N) /\ f \in Nat
    BY <2>1 DEF Leaders
  <2>4. Rank(f) > 1
    BY <1>6, <1>9, Zenon
  <2>5. IsFiniteSet(B) /\ Cardinality(B) = Rank(f) - 1
    <3> HIDE DEF R, f
    <3> QED
      BY <2>2, <2>3, FS_RemoveElement
  <2>6. B # {}
    <3>1. Cardinality({}) = 0
      BY FS_EmptySet
    <3>2. Cardinality(B) # 0
      BY <2>2, <2>4, <2>5
    <3> QED
      BY <3>1, <3>2, Zenon
  <2> DEFINE D == {f - h : h \in B}
  <2>7. D \in SUBSET Nat /\ D # {}
    BY <2>1, <2>3, <2>6
  <2>8. PICK d \in D : \A k \in D : d <= k
    <3> HIDE DEF D
    <3> QED
      BY <2>7, LeastNumber
  <2>9. PICK g \in B : d = f - g
    OBVIOUS
  <2>10. \A h \in B : h <= g
    <3>1. ASSUME NEW h \in B
          PROVE  h <= g
      <4>1. f - g <= f - h
        BY <2>8, <2>9
      <4>2. f \in Int /\ g \in Int /\ h \in Int
        BY <2>3
      <4> HIDE DEF B, f
      <4> QED
        BY <4>1, <4>2
    <3> QED
      BY <3>1
  <2>11. g \in Leaders(community) /\ g < f /\ g \in 1..N
    BY <2>1, <2>3
  <2>12. {h \in Leaders(community) : h <= g} = B
    <3>1. ASSUME NEW h \in Leaders(community)
          PROVE  h <= g <=> h <= f /\ h # f
      <4>1. h \in 1..N
        BY DEF Leaders
      <4>2. h <= f /\ h # f => h \in B
        OBVIOUS
      <4>3. h <= f /\ h # f => h <= g
        BY <2>10, <4>2, Zenon
      <4> HIDE DEF f, B
      <4> QED
        BY <2>1, <2>11, <4>1, <4>3
    <3>2. \A h : h \in B <=> h \in Leaders(community) /\ h <= f /\ h # f
      OBVIOUS
    <3> HIDE DEF B, f
    <3> QED
      BY <3>1, <3>2
  <2>13. Rank(g) = Rank(f) - 1
    BY <2>5, <2>12, Zenon DEF Rank
  <2>14. new[g] = new[i] - 1
    BY <1>3, <1>6, <2>11, <2>13, Zenon
  <2>15. g \in 1..(i - 1)
    <3> HIDE DEF f
    <3> QED
      BY <2>1, <2>11
  <2> QED
    BY <2>14, <2>15, Zenon
<1> QED
  BY <1>7, <1>8, <1>9, Zenon DEF new

LEMMA ReportIs ==
  ASSUME C!CommunitiesAssumption, GraphStands, Partition(community), C!Report
  PROVE  /\ \A i, j \in C!Nodes : report'.of[i] = report'.of[j] <=> community[i] = community[j]
         /\ \A i \in C!Nodes : report'.of[i] > 1 =>
              \E j \in 1..(i - 1) : report'.of[j] = report'.of[i] - 1
         /\ report'.modularity = C!Quality(community)
         /\ {s.edge : s \in report'.surprising} =
              {k \in DOMAIN graph.edges :
                 community[graph.edges[k].src] # community[graph.edges[k].tgt]}
<1> DEFINE new == C!Renumbered
           K == DOMAIN graph.edges
<1>1. N \in Nat /\ C!Nodes = 1..N
  BY GraphIs
<1>2. /\ report'.of = new /\ report'.modularity = C!Quality(new)
      /\ report'.surprising = C!Surprising(new)
  BY DEF C!Report
<1>3. /\ new \in [1..N -> 1..N]
      /\ \A i, j \in 1..N : new[i] = new[j] <=> community[i] = community[j]
      /\ \A i \in 1..N : new[i] > 1 => \E j \in 1..(i - 1) : new[j] = new[i] - 1
  BY <1>1, RenumberedIs, Zenon
<1> HIDE DEF new
<1>4. C!Quality(new) = C!Quality(community)
  <2>1. Partition(new)
    BY <1>3, Zenon DEF Partition
  <2> QED
    BY <1>3, <2>1, NamesDoNotMatter
<1>5. ASSUME NEW k \in K
      PROVE  graph.edges[k].src \in 1..N /\ graph.edges[k].tgt \in 1..N
  <2> DEFINE E == [src : 1..N, tgt : 1..N, type : C!EdgeTypes]
  <2>1. graph.edges \in Seq(E)
    BY Zenon DEF C!CommunitiesAssumption, GraphStands, N
  <2> HIDE DEF E
  <2>2. graph.edges[k] \in E
    BY <2>1
  <2> QED
    BY <2>2 DEF E
<1>6. {s.edge : s \in C!Surprising(new)} = C!Crossing(new)
  <2>1. \A k : C!Bridge(new, k).edge = k
    BY DEF C!Bridge
  <2>2. C!Surprising(new) = {C!Bridge(new, k) : k \in C!Crossing(new)}
    BY Zenon DEF C!Surprising
  <2> QED
    BY <2>1, <2>2
<1>7. C!Crossing(new) = {k \in K : community[graph.edges[k].src] # community[graph.edges[k].tgt]}
  <2>1. \A k \in K : new[graph.edges[k].src] = new[graph.edges[k].tgt]
                       <=> community[graph.edges[k].src] = community[graph.edges[k].tgt]
    BY <1>3, <1>5, Zenon
  <2>2. C!Crossing(new) = {k \in K : new[graph.edges[k].src] # new[graph.edges[k].tgt]}
    BY Zenon DEF C!Crossing
  <2> HIDE DEF K
  <2> QED
    BY <2>1, <2>2
<1> QED
  BY <1>1, <1>2, <1>3, <1>4, <1>6, <1>7, Zenon

-------------------------------------------------------------------------------
(* Every step keeps the invariant.                                          *)

Detecting == C!TypeOK /\ GraphStands /\ C!SumsAgree /\ C!WithinParts /\ C!ReportFits

LEMMA DetectionInit ==
  ASSUME C!CommunitiesAssumption, C!Init
  PROVE  Detecting
<1>1. GraphStands
  BY Zenon DEF C!Init, GraphStands
<1>2. Weights(N, adj) /\ N \in Nat \ {0} /\ C!Nodes = 1..N /\ degree \in [1..N -> Nat]
  BY <1>1, GraphIs
<1>3. /\ community = [i \in 1..N |-> i] /\ sum_tot = degree /\ sum_in = [i \in 1..N |-> 0]
      /\ step = "move" /\ at = 1 /\ improved = FALSE /\ iteration = 1
  BY <1>2, Zenon DEF C!Init
<1>4. C!TypeOK
  <2>1. graph \in Graphs
    BY <1>1, Zenon DEF GraphStands
  <2>2. community \in [1..N -> 1..N] /\ sum_in \in [1..N -> Nat] /\ at \in 1..N
    BY <1>2, <1>3
  <2>3. iteration \in 1..MaxIterations
    BY <1>3 DEF C!CommunitiesAssumption
  <2>4. step \in {"move", "report", "done"} /\ improved \in BOOLEAN
    BY <1>3
  <2> QED
    BY <1>2, <1>3, <2>1, <2>2, <2>3, <2>4, Zenon DEF C!TypeOK
<1>5. C!SumsAgree
  <2>1. ASSUME NEW c \in 1..N
        PROVE  sum_tot[c] = C!Volume(community, c) /\ sum_in[c] = C!InnerWeight(community, c)
    <3>1. Members(community, c) = {c}
      BY <1>3 DEF Members
    <3>2. /\ C!Volume(community, c) = C!Total({c}, N, degree)
          /\ C!InnerWeight(community, c) = Inner(N, adj, {c})
      BY <1>1, <3>1, SharesAre, Zenon
    <3>3. N \in Nat /\ degree[c] \in Int /\ sum_in[c] = 0
      BY <1>2, <1>3
    <3>4. C!Total({c}, N, degree) = degree[c]
      BY <3>3, TotalOne
    <3>5. Below(N, adj, {c})[c] = 0
      <4>1. {j \in 1..(c - 1) : j \in {c}} = {}
        OBVIOUS
      <4>2. Below(N, adj, {c})[c] = C!Total({}, N, adj[c])
        BY <4>1, Zenon DEF Below
      <4>3. \A i \in 1..N : Part({}, adj[c], i) = 0
        BY DEF Part
      <4> QED
        BY <3>3, <4>2, <4>3, TotalEmpty
    <3>6. Inner(N, adj, {c}) = 0
      <4> DEFINE f == Below(N, adj, {c})
      <4>1. f[c] \in Int
        BY <3>5
      <4>2. Inner(N, adj, {c}) = C!Total({c}, N, f)
        BY Zenon DEF Inner
      <4> HIDE DEF f
      <4>3. C!Total({c}, N, f) = f[c]
        BY <3>3, <4>1, TotalOne
      <4> QED
        BY <3>5, <4>2, <4>3, Zenon DEF f
    <3> QED
      BY <1>3, <3>2, <3>3, <3>4, <3>6, Zenon
  <2> QED
    BY <1>2, <2>1, Zenon DEF C!SumsAgree
<1>6. C!WithinParts
  <2>1. ASSUME NEW i \in 1..N, NEW j \in 1..N, community[i] = community[j]
        PROVE  j \in C!Connected(i)
    <3>1. i = j
      BY <1>3, <2>1
    <3>2. N \in Nat
      BY <1>2
    <3> QED
      BY <1>2, <3>1, <3>2, ConnectedIs, Zenon
  <2> QED
    BY <1>2, <2>1, Zenon DEF C!WithinParts
<1>7. C!ReportFits
  BY <1>3 DEF C!ReportFits
<1> QED
  BY <1>1, <1>4, <1>5, <1>6, <1>7 DEF Detecting

LEMMA GraphFrame ==
  ASSUME UNCHANGED <<graph, adj, degree>>, GraphStands
  PROVE  /\ GraphStands' /\ C!Nodes' = C!Nodes
         /\ \A c : C!Volume(community, c)' = C!Volume(community', c)
         /\ \A c : C!InnerWeight(community, c)' = C!InnerWeight(community', c)
         /\ \A c : C!Share(community, c)' = C!Share(community', c)
         /\ C!Quality(community)' = C!Quality(community')
         /\ \A i : C!Connected(i)' = C!Connected(i)
<1>1. graph' = graph /\ adj' = adj /\ degree' = degree
  OBVIOUS
<1>2. C!Nodes' = C!Nodes
  BY <1>1, Zenon DEF C!Nodes
<1>3. GraphStands'
  BY <1>1, <1>2, Zenon DEF GraphStands
<1>4. \A c : C!Volume(community, c)' = C!Volume(community', c)
  BY <1>1, <1>2, Zenon DEF C!Volume
<1>5. \A c : C!InnerWeight(community, c)' = C!InnerWeight(community', c)
  BY <1>1, <1>2, Zenon DEF C!InnerWeight
<1>6. C!TwiceM' = C!TwiceM
  BY <1>1, <1>2, Zenon DEF C!TwiceM
<1>7. \A c : C!Share(community, c)' = C!Share(community', c)
  BY <1>4, <1>5, <1>6, Zenon DEF C!Share
<1>8. C!Quality(community)' = C!Quality(community')
  BY <1>1, <1>2, <1>7, Zenon DEF C!Quality
<1>9. \A i : C!Connected(i)' = C!Connected(i)
  BY <1>1, <1>2, Zenon DEF C!Connected
<1> QED
  BY <1>2, <1>3, <1>4, <1>5, <1>7, <1>8, <1>9, Zenon

(* The turn goes on to a node, or the rounds are over.                      *)
LEMMA ProceedIs ==
  ASSUME C!CommunitiesAssumption, GraphStands, C!TypeOK, NEW moved \in BOOLEAN,
         step = "move", C!Proceed(moved)
  PROVE  /\ step' \in {"move", "report"} /\ at' \in C!Nodes /\ improved' \in BOOLEAN
         /\ iteration' \in 1..MaxIterations
<1>1. N \in Nat \ {0} /\ C!Nodes = 1..N /\ graph.n = N
  BY GraphIs DEF N
<1>2. at \in 1..N /\ improved \in BOOLEAN /\ iteration \in 1..MaxIterations
  BY <1>1, Zenon DEF C!TypeOK
<1>3. MaxIterations \in Nat
  BY DEF C!CommunitiesAssumption
<1>4. CASE at < N
  BY <1>1, <1>2, <1>4 DEF C!Proceed
<1>5. CASE ~(at < N) /\ moved /\ iteration < MaxIterations
  <2>1. at' = 1 /\ improved' = FALSE /\ iteration' = iteration + 1 /\ step' = step
    BY <1>1, <1>5 DEF C!Proceed
  <2>2. 1 \in 1..N
    BY <1>1
  <2>3. iteration + 1 \in 1..MaxIterations
    BY <1>2, <1>3, <1>5
  <2> QED
    BY <1>1, <1>5, <2>1, <2>2, <2>3
<1>6. CASE ~(at < N) /\ ~(moved /\ iteration < MaxIterations)
  <2>1. step' = "report" /\ UNCHANGED <<at, improved, iteration>>
    BY <1>1, <1>6 DEF C!Proceed
  <2> QED
    BY <1>1, <1>2, <2>1
<1> QED
  BY <1>4, <1>5, <1>6

LEMMA MoveStep ==
  ASSUME C!CommunitiesAssumption, Detecting, NEW c \in C!Nodes, C!Move(c)
  PROVE  Detecting' /\ C!Quality(community') > C!Quality(community)
<1>1. /\ C!TypeOK /\ GraphStands /\ C!SumsAgree /\ C!WithinParts
  BY DEF Detecting
<1>2. N \in Nat \ {0} /\ C!Nodes = 1..N /\ degree \in [1..N -> Nat]
  BY <1>1, GraphIs
<1>3. /\ graph \in Graphs /\ at \in 1..N /\ Partition(community)
      /\ sum_tot \in [1..N -> Nat] /\ sum_in \in [1..N -> Nat]
  BY <1>1, <1>2, Zenon DEF C!TypeOK, Partition
<1> DEFINE own == community[at]
<1>4. /\ step = "move" /\ c \in C!Best(at) /\ C!Proceed(TRUE)
      /\ community' = [community EXCEPT ![at] = c]
      /\ sum_tot' = [sum_tot EXCEPT ![own] = @ - degree[at], ![c] = @ + degree[at]]
      /\ sum_in' = [sum_in EXCEPT ![own] = @ - C!WeightTo(at, own), ![c] = @ + C!WeightTo(at, c)]
      /\ UNCHANGED <<graph, adj, degree>>
  BY Zenon DEF C!Move, C!graphVars
<1>5. /\ c \in 1..N /\ c # own /\ own \in 1..N
      /\ \E k \in 1..N : adj[at][k] > 0 /\ community[k] = c
      /\ C!Quality([community EXCEPT ![at] = c]) > C!Quality(community)
  <2>1. own \in 1..N
    BY <1>3 DEF Partition
  <2> QED
    BY <1>1, <1>3, <1>4, <2>1, BestIs, Zenon
<1> HIDE DEF own
<1>6. Goes(community, at, c, community')
  <2>1. Goes(community, at, c, [community EXCEPT ![at] = c])
    BY <1>3, <1>5, GoesIs, Zenon DEF own
  <2> QED
    BY <1>4, <2>1, Zenon
<1>7. /\ GraphStands' /\ C!Nodes' = C!Nodes
      /\ \A d : C!Volume(community, d)' = C!Volume(community', d)
      /\ \A d : C!InnerWeight(community, d)' = C!InnerWeight(community', d)
      /\ \A i : C!Connected(i)' = C!Connected(i)
  BY <1>1, <1>4, GraphFrame, Zenon
<1>8. ASSUME NEW d \in 1..N
      PROVE  /\ sum_tot'[d] = C!Volume(community', d)
             /\ sum_in'[d] = C!InnerWeight(community', d)
  <2>1. sum_tot[d] = C!Volume(community, d) /\ sum_in[d] = C!InnerWeight(community, d)
    BY <1>1, <1>2, Zenon DEF C!SumsAgree
  <2>2. /\ C!WeightTo(at, own) = WeightIn(community, at, own)
        /\ C!WeightTo(at, c) = WeightIn(community, at, c)
    BY <1>2, Zenon DEF C!WeightTo, WeightIn, Members, N
  <2>3. /\ C!Volume(community', own) = C!Volume(community, own) - degree[at]
        /\ C!Volume(community', c) = C!Volume(community, c) + degree[at]
        /\ C!InnerWeight(community', own)
             = C!InnerWeight(community, own) - WeightIn(community, at, own)
        /\ C!InnerWeight(community', c)
             = C!InnerWeight(community, c) + WeightIn(community, at, c)
        /\ \A e \in 1..N : e # c /\ e # own =>
             C!Volume(community', e) = C!Volume(community, e)
             /\ C!InnerWeight(community', e) = C!InnerWeight(community, e)
    <3>1. Carries(community, at, c, community')
      BY <1>1, <1>6, GoesOver, Zenon
    <3> QED
      BY <3>1, Zenon DEF own, Carries
  <2>4. CASE d = own
    <3>1. /\ sum_tot'[own] = sum_tot[own] - degree[at]
          /\ sum_in'[own] = sum_in[own] - C!WeightTo(at, own)
      BY <1>3, <1>4, <1>5
    <3> QED
      BY <2>1, <2>2, <2>3, <2>4, <3>1, Zenon
  <2>5. CASE d = c
    <3>1. /\ sum_tot'[c] = sum_tot[c] + degree[at]
          /\ sum_in'[c] = sum_in[c] + C!WeightTo(at, c)
      BY <1>3, <1>4, <1>5
    <3> QED
      BY <2>1, <2>2, <2>3, <2>5, <3>1, Zenon
  <2>6. CASE d # own /\ d # c
    <3>1. sum_tot'[d] = sum_tot[d] /\ sum_in'[d] = sum_in[d]
      BY <1>3, <1>4, <2>6
    <3> QED
      BY <2>1, <2>3, <2>6, <3>1, Zenon
  <2> QED
    BY <2>4, <2>5, <2>6
<1>9. C!SumsAgree'
  BY <1>2, <1>7, <1>8, Zenon DEF C!SumsAgree
<1>10. C!WithinParts'
  <2>1. \A i, j \in 1..N : community'[i] = community'[j] => j \in C!Connected(i)
    BY <1>1, <1>5, <1>6, WithinStep, Zenon
  <2> QED
    BY <1>2, <1>7, <2>1, Zenon DEF C!WithinParts
<1>11. /\ step' \in {"move", "report"} /\ at' \in C!Nodes /\ improved' \in BOOLEAN
       /\ iteration' \in 1..MaxIterations
  BY <1>1, <1>4, ProceedIs, Zenon
<1>12. sum_tot' \in [1..N -> Nat] /\ sum_in' \in [1..N -> Nat]
  <2>1. DOMAIN sum_tot' = 1..N /\ DOMAIN sum_in' = 1..N
        /\ sum_tot' = [d \in 1..N |-> sum_tot'[d]] /\ sum_in' = [d \in 1..N |-> sum_in'[d]]
    BY <1>3, <1>4
  <2>2. \A d \in 1..N : sum_tot'[d] \in Nat /\ sum_in'[d] \in Nat
    BY <1>1, <1>8, SharesAre, Zenon
  <2> QED
    BY <2>1, <2>2, Zenon
<1>13. C!TypeOK'
  <2>1. community' \in [1..N -> 1..N]
    BY <1>6, Zenon DEF Goes, Partition
  <2>2. graph' \in Graphs
    BY <1>3, <1>4
  <2>3. step' \in {"move", "report", "done"}
    BY <1>11
  <2> QED
    BY <1>2, <1>7, <1>11, <1>12, <2>1, <2>2, <2>3, Zenon DEF C!TypeOK
<1>14. C!ReportFits'
  <2>1. step' # "done"
    BY <1>11
  <2> QED
    BY <2>1, Zenon DEF C!ReportFits
<1> QED
  BY <1>4, <1>5, <1>7, <1>9, <1>10, <1>13, <1>14, Zenon DEF Detecting

(* Steps that leave the communities alone.                                  *)
LEMMA SameCommunities ==
  ASSUME Detecting, UNCHANGED <<graph, adj, degree, community, sum_tot, sum_in>>,
         step' \in {"move", "report", "done"}, at' \in C!Nodes, improved' \in BOOLEAN,
         iteration' \in 1..MaxIterations
  PROVE  C!TypeOK' /\ GraphStands' /\ C!SumsAgree' /\ C!WithinParts'
<1>1. /\ C!TypeOK /\ GraphStands /\ C!SumsAgree /\ C!WithinParts
  BY DEF Detecting
<1>2. /\ GraphStands' /\ C!Nodes' = C!Nodes
      /\ \A d : C!Volume(community, d)' = C!Volume(community, d)
      /\ \A d : C!InnerWeight(community, d)' = C!InnerWeight(community, d)
      /\ \A i : C!Connected(i)' = C!Connected(i)
  BY <1>1, GraphFrame
<1>3. graph' = graph /\ community' = community /\ sum_tot' = sum_tot /\ sum_in' = sum_in
  OBVIOUS
<1>4. C!TypeOK'
  BY <1>1, <1>2, <1>3, Zenon DEF C!TypeOK
<1>5. C!SumsAgree'
  BY <1>1, <1>2, <1>3, Zenon DEF C!SumsAgree
<1>6. C!WithinParts'
  BY <1>1, <1>2, <1>3, Zenon DEF C!WithinParts
<1> QED
  BY <1>2, <1>4, <1>5, <1>6

LEMMA StayStep ==
  ASSUME C!CommunitiesAssumption, Detecting, C!Stay
  PROVE  Detecting'
<1>1. /\ C!TypeOK /\ GraphStands /\ improved \in BOOLEAN /\ step = "move" /\ C!Proceed(improved)
      /\ UNCHANGED <<graph, adj, degree, community, sum_tot, sum_in>>
  BY DEF Detecting, C!TypeOK, C!Stay, C!graphVars
<1>2. /\ step' \in {"move", "report"} /\ at' \in C!Nodes /\ improved' \in BOOLEAN
      /\ iteration' \in 1..MaxIterations
  BY <1>1, ProceedIs, Zenon
<1>3. C!TypeOK' /\ GraphStands' /\ C!SumsAgree' /\ C!WithinParts'
  BY <1>1, <1>2, SameCommunities
<1>4. C!ReportFits'
  <2>1. step' # "done"
    BY <1>2
  <2> QED
    BY <2>1, Zenon DEF C!ReportFits
<1> QED
  BY <1>3, <1>4 DEF Detecting

LEMMA ReportStep ==
  ASSUME C!CommunitiesAssumption, Detecting, C!Report
  PROVE  Detecting'
<1>1. /\ C!TypeOK /\ GraphStands
      /\ UNCHANGED <<graph, adj, degree, community, sum_tot, sum_in, at, improved, iteration>>
      /\ step' = "done"
  BY DEF Detecting, C!Report, C!graphVars
<1>2. /\ at' \in C!Nodes /\ improved' \in BOOLEAN /\ iteration' \in 1..MaxIterations
      /\ Partition(community)
  <2>1. C!Nodes = 1..N
    BY <1>1, GraphIs
  <2> QED
    BY <1>1, <2>1, Zenon DEF C!TypeOK, Partition
<1>3. C!TypeOK' /\ GraphStands' /\ C!SumsAgree' /\ C!WithinParts'
  BY <1>1, <1>2, SameCommunities
<1>4. C!ReportFits'
  <2>1. C!Nodes' = C!Nodes /\ C!Quality(community)' = C!Quality(community')
    BY <1>1, GraphFrame
  <2>2. graph' = graph /\ community' = community
    BY <1>1
  <2>3. /\ \A i, j \in C!Nodes : report'.of[i] = report'.of[j] <=> community[i] = community[j]
        /\ \A i \in C!Nodes : report'.of[i] > 1 =>
             \E j \in 1..(i - 1) : report'.of[j] = report'.of[i] - 1
        /\ report'.modularity = C!Quality(community)
        /\ {s.edge : s \in report'.surprising} =
             {k \in DOMAIN graph.edges :
                community[graph.edges[k].src] # community[graph.edges[k].tgt]}
    BY <1>1, <1>2, ReportIs, Zenon
  <2> QED
    BY <2>1, <2>2, <2>3, Zenon DEF C!ReportFits
<1> QED
  BY <1>3, <1>4 DEF Detecting

LEMMA DoneStep ==
  ASSUME C!CommunitiesAssumption, Detecting, UNCHANGED C!vars
  PROVE  Detecting'
<1>1. /\ C!TypeOK /\ GraphStands /\ C!ReportFits
      /\ UNCHANGED <<graph, adj, degree, community, sum_tot, sum_in, at, improved, iteration,
                     step, report>>
  BY DEF Detecting, C!vars, C!graphVars
<1>2. /\ at' \in C!Nodes /\ improved' \in BOOLEAN /\ iteration' \in 1..MaxIterations
      /\ step' \in {"move", "report", "done"}
  BY <1>1 DEF C!TypeOK
<1>3. C!TypeOK' /\ GraphStands' /\ C!SumsAgree' /\ C!WithinParts'
  BY <1>1, <1>2, SameCommunities
<1>4. C!ReportFits'
  <2>1. C!Nodes' = C!Nodes /\ C!Quality(community)' = C!Quality(community)
    BY <1>1, GraphFrame
  <2>2. graph' = graph /\ community' = community /\ report' = report /\ step' = step
    BY <1>1
  <2>3. CASE step # "done"
    BY <2>2, <2>3, Zenon DEF C!ReportFits
  <2>4. CASE step = "done"
    <3>1. /\ \A i, j \in C!Nodes : report.of[i] = report.of[j] <=> community[i] = community[j]
          /\ \A i \in C!Nodes : report.of[i] > 1 =>
               \E j \in 1..(i - 1) : report.of[j] = report.of[i] - 1
          /\ report.modularity = C!Quality(community)
          /\ {s.edge : s \in report.surprising} =
               {k \in DOMAIN graph.edges :
                  community[graph.edges[k].src] # community[graph.edges[k].tgt]}
      BY <1>1, <2>4, Zenon DEF C!ReportFits
    <3> QED
      BY <2>1, <2>2, <3>1, Zenon DEF C!ReportFits
  <2> QED
    BY <2>3, <2>4
<1> QED
  BY <1>3, <1>4 DEF Detecting

LEMMA DetectionStep ==
  ASSUME C!CommunitiesAssumption, Detecting, [C!Next]_C!vars
  PROVE  /\ Detecting'
         /\ community' # community => C!Quality(community') > C!Quality(community)
<1>1. CASE \E c \in C!Nodes : C!Move(c)
  BY <1>1, MoveStep, Zenon
<1>2. CASE C!Stay
  <2>1. community' = community
    BY <1>2 DEF C!Stay
  <2> QED
    BY <1>2, <2>1, StayStep
<1>3. CASE C!Report
  <2>1. community' = community
    BY <1>3 DEF C!Report
  <2> QED
    BY <1>3, <2>1, ReportStep
<1>4. CASE UNCHANGED C!vars
  <2>1. community' = community
    BY <1>4 DEF C!vars
  <2> QED
    BY <1>4, <2>1, DoneStep
<1> QED
  BY <1>1, <1>2, <1>3, <1>4, Zenon DEF C!Next, C!Finished

DetectionInv == C!CommunitiesAssumption /\ Detecting

LEMMA DetectionAlways == C!CommunitiesAssumption /\ C!Spec => []DetectionInv
<1>1. C!CommunitiesAssumption /\ C!Init => DetectionInv
  BY DetectionInit, Zenon DEF DetectionInv
<1>2. DetectionInv /\ [C!Next]_C!vars => DetectionInv'
  <2> SUFFICES ASSUME DetectionInv, [C!Next]_C!vars
               PROVE  DetectionInv'
    OBVIOUS
  <2>1. Detecting'
    BY DetectionStep, Zenon DEF DetectionInv
  <2>2. C!CommunitiesAssumption'
    BY Zenon DEF DetectionInv, C!CommunitiesAssumption
  <2> QED
    BY <2>1, <2>2 DEF DetectionInv
<1> QED
  BY <1>1, <1>2, PTL DEF C!Spec

(* Communities!Inv: the sums that are kept up from move to move are those of *)
(* the communities, none of which reaches across parts of the graph that no *)
(* edge connects; and the report has every node in one community, numbered  *)
(* without gaps, with the modularity and the crossing edges of what was     *)
(* found.                                                                   *)
THEOREM SumsStayRight == C!CommunitiesAssumption /\ C!Spec => []C!Inv
<1>1. DetectionInv => C!Inv
  BY DEF DetectionInv, Detecting, C!Inv
<1> QED
  BY <1>1, DetectionAlways, PTL

(* Communities!ModularityGrows: whichever of equal gains is taken, a move   *)
(* makes the modularity strictly greater, so that no partition comes back.  *)
THEOREM MovesAlwaysGain == C!CommunitiesAssumption /\ C!Spec => C!ModularityGrows
<1>1. DetectionInv /\ [C!Next]_C!vars =>
        [community' # community => C!Quality(community') > C!Quality(community)]_C!vars
  BY DetectionStep, Zenon DEF DetectionInv
<1> QED
  BY <1>1, DetectionAlways, PTL DEF C!Spec, C!ModularityGrows
===============================================================================
