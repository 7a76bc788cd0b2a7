--------------------------- MODULE HookDaemonProofs ---------------------------
(***************************************************************************)
(* Proofs about HookDaemon, for any hooks and versions, any set of process  *)
(* ids and any number of faults.                                            *)
(*                                                                          *)
(* That there is one daemon is not preserved by itself: a hook may only     *)
(* start an engine because, by then, whatever engine.json names no longer   *)
(* serves and nobody else waits for one.  The invariant says what the lock  *)
(* gives its holder at each place of ensure.                                *)
(***************************************************************************)
EXTENDS HookDaemon, FiniteSetTheorems, TLAPS

Starting == {"pinned", "auto"}
Waiting == {"wait_pinned", "wait_auto"}
Inside == {"check", "kill", "record"} \cup Starting \cup Waiting

Live(p) == proc[p] \in {"starting", "open", "up"}

(* The hooks inside ensure: one, the holder of the lock, and it alone waits *)
(* for an engine.                                                           *)
LockOK ==
  \A h \in Hooks :
    /\ at[h] \in Inside <=> holder = h
    /\ at[h] \in Waiting \cup {"record"} <=> child[h] # Nobody
    /\ at[h] = "kill" => rec # Nobody
    /\ at[h] = "record" => told[h] # Nobody

(* A handshake comes from an engine that is past its start, to a hook that  *)
(* waits for it.                                                            *)
HandshakeOK ==
  /\ \A p \in Pids : printed[p] # Nobody =>
       /\ proc[p] \notin {"starting", "open"}
       /\ \E h \in Hooks : at[h] \in Waiting /\ child[h] = p
  /\ \A h \in Hooks : at[h] = "record" => proc[child[h]] \notin {"starting", "open"}

(* What engine.json names is past its start, and serves no more once the    *)
(* holder has found that it starts an engine itself.                        *)
RecordOK ==
  rec # Nobody =>
    /\ proc[rec.pid] \notin {"starting", "open"}
    /\ \A h \in Hooks : at[h] \in Starting \cup Waiting \cup {"record"} => proc[rec.pid] # "up"

IInv == TypeOK /\ LockOK /\ HandshakeOK /\ RecordOK /\ EnginesKnown
-------------------------------------------------------------------------------
(* Types, and what the lock gives.                                          *)

LEMMA RecordedPid == TypeOK /\ rec # Nobody => rec.pid \in Pids
  BY DEF TypeOK, EngineState

LEMMA FreshPid ==
  ASSUME NEW h \in Hooks, Spawn(h)
  PROVE  \E p \in Pids : /\ proc[p] = "none" /\ ~Recorded(p)
                         /\ proc' = [proc EXCEPT ![p] = "starting"]
                         /\ port' = [port EXCEPT ![p] = IF at[h] = "pinned" THEN ARMIN_PORT
                                                                           ELSE Nobody]
                         /\ child' = [child EXCEPT ![h] = p]
<1> DEFINE free == {p \in Pids : proc[p] = "none" /\ ~Recorded(p)}
           p == CHOOSE q \in free : TRUE
<1>1. p \in free
  BY DEF Spawn
<1> QED
  BY <1>1 DEF Spawn

LEMMA TypeStep ==
  ASSUME TypeOK, LockOK, [Next]_vars
  PROVE  TypeOK'
<1> USE DEF hookVars, fileVars, engineVars, worldVars
<1>1. ASSUME NEW h \in Hooks, Enter(h)
      PROVE  TypeOK'
  BY <1>1 DEF Enter, Go, TypeOK, Places
<1>2. ASSUME NEW h \in Hooks, Acquire(h)
      PROVE  TypeOK'
  BY <1>2 DEF Acquire, Go, TypeOK, Places
<1>3. ASSUME NEW h \in Hooks, Found(h)
      PROVE  TypeOK'
  BY <1>3 DEF Found, Go, Return, TypeOK, Places
<1>4. ASSUME NEW h \in Hooks, NotFound(h)
      PROVE  TypeOK'
  BY <1>4, DaemonAssumption DEF NotFound, Go, Fault, TypeOK, Places
<1>5. ASSUME NEW h \in Hooks, NoRecord(h)
      PROVE  TypeOK'
  BY <1>5 DEF NoRecord, Go, Wanted, TypeOK, Places
<1>6. ASSUME NEW h \in Hooks, Kill(h)
      PROVE  TypeOK'
  <2>1. proc' \in [Pids -> {"none", "starting", "open", "up", "draining", "stranger"}]
        /\ port' \in [Pids -> Ports \cup {Nobody}]
    BY <1>6 DEF Kill, Become, Exits, TypeOK
  <2> QED
    BY <1>6, <2>1 DEF Kill, Go, Wanted, TypeOK, Places
<1>7. ASSUME NEW h \in Hooks, Spawn(h)
      PROVE  TypeOK'
  <2>1. PICK p \in Pids : /\ proc' = [proc EXCEPT ![p] = "starting"]
                          /\ port' = [port EXCEPT ![p] = IF at[h] = "pinned" THEN ARMIN_PORT
                                                                            ELSE Nobody]
                          /\ child' = [child EXCEPT ![h] = p]
    BY <1>7, FreshPid
  <2> QED
    BY <1>7, <2>1, DaemonAssumption DEF Spawn, Go, TypeOK, Places
<1>8. ASSUME NEW h \in Hooks, SpawnFails(h)
      PROVE  TypeOK'
  BY <1>8, DaemonAssumption DEF SpawnFails, Go, Return, Fault, TypeOK, Places
<1>9. ASSUME NEW h \in Hooks, Handshake(h)
      PROVE  TypeOK'
  <2>1. child[h] \in Pids
    BY <1>9 DEF Handshake, Waits, LockOK, Waiting, TypeOK
  <2> QED
    BY <1>9, <2>1 DEF Handshake, Go, TypeOK, Places
<1>10. ASSUME NEW h \in Hooks, NoHandshake(h)
      PROVE  TypeOK'
  BY <1>10 DEF NoHandshake, Go, StartFailed, Return, TypeOK, Places
<1>11. ASSUME NEW h \in Hooks, HandshakeTimeout(h)
      PROVE  TypeOK'
  <2>1. at' = [at EXCEPT ![h] = "auto"] \/ at' = [at EXCEPT ![h] = "idle"]
    BY <1>11 DEF HandshakeTimeout, StartFailed, Go, Return
  <2>2. /\ holder' \in Hooks \cup {Nobody} /\ failed' \in BOOLEAN
        /\ child' = [child EXCEPT ![h] = Nobody]
    BY <1>11 DEF HandshakeTimeout, StartFailed, Return, TypeOK
  <2>3. faults' \in 0..MaxFaults
    BY <1>11, DaemonAssumption DEF HandshakeTimeout, Fault, TypeOK
  <2>4. /\ proc' = [proc EXCEPT ![child[h]] = "none"]
        /\ port' = [port EXCEPT ![child[h]] = Nobody]
        /\ printed' = [printed EXCEPT ![child[h]] = Nobody]
        /\ UNCHANGED <<told, rec, port_taken, abandoned>>
    BY <1>11 DEF HandshakeTimeout, StartFailed, Exits
  <2> QED
    BY <2>1, <2>2, <2>3, <2>4 DEF TypeOK, Places
<1>12. ASSUME NEW h \in Hooks, Record(h)
      PROVE  TypeOK'
  <2>1. rec' \in EngineState \cup {Nobody}
    <3>1. child[h] \in Pids /\ told[h] \in Ports
      BY <1>12 DEF Record, LockOK, TypeOK
    <3> QED
      BY <1>12, <3>1 DEF Record, EngineState, TypeOK
  <2>2. faults' \in 0..MaxFaults
    BY <1>12, DaemonAssumption DEF Record, Fault, TypeOK
  <2>3. abandoned' \in BOOLEAN
    BY <1>12 DEF Record, TypeOK
  <2> QED
    BY <1>12, <2>1, <2>2, <2>3 DEF Record, Go, Return, TypeOK, Places
<1>13. ASSUME NEW h \in Hooks, Leave(h)
      PROVE  TypeOK'
  BY <1>13 DEF Leave, Go, TypeOK, Places
<1>14. ASSUME NEW h \in Hooks, HookDies(h)
      PROVE  TypeOK'
  BY <1>14, DaemonAssumption DEF HookDies, Go, Fault, TypeOK, Places
<1>15. ASSUME NEW p \in Pids, OpenDb(p)
      PROVE  TypeOK'
  BY <1>15 DEF OpenDb, Exits, Become, TypeOK
<1>16. ASSUME NEW p \in Pids, Bind(p)
      PROVE  TypeOK'
  BY <1>16 DEF Bind, Exits, PortsFor, TypeOK
<1>17. ASSUME NEW p \in Pids, DrainEnds(p)
      PROVE  TypeOK'
  BY <1>17 DEF DrainEnds, Exits, TypeOK
<1>18. ASSUME NEW p \in Pids, IdleExit(p)
      PROVE  TypeOK'
  BY <1>18 DEF IdleExit, Become, TypeOK
<1>19. ASSUME NEW p \in Pids, EngineDies(p)
      PROVE  TypeOK'
  BY <1>19, DaemonAssumption DEF EngineDies, Fault, Exits, TypeOK
<1>20. ASSUME NEW p \in Pids, PidReused(p)
      PROVE  TypeOK'
  BY <1>20 DEF PidReused, Become, TypeOK
<1>21. ASSUME NEW p \in Pids, StrangerExits(p)
      PROVE  TypeOK'
  BY <1>21 DEF StrangerExits, Exits, TypeOK
<1>22. CASE PortChanges
  BY <1>22, DaemonAssumption DEF PortChanges, Fault, TypeOK
<1>23. CASE Reboot
  BY <1>23, DaemonAssumption DEF Reboot, Fault, TypeOK, Places
<1>24. CASE UNCHANGED vars
  BY <1>24 DEF vars, TypeOK
<1> QED
  BY <1>1, <1>2, <1>3, <1>4, <1>5, <1>6, <1>7, <1>8, <1>9, <1>10, <1>11, <1>12,
     <1>13, <1>14, <1>15, <1>16, <1>17, <1>18, <1>19, <1>20, <1>21, <1>22,
     <1>23, <1>24 DEF Next, HookStep, EngineStep
LEMMA LockStep ==
  ASSUME TypeOK, LockOK, [Next]_vars
  PROVE  LockOK'
<1> USE DEF hookVars, fileVars, engineVars, worldVars
<1>1. ASSUME NEW h \in Hooks, Enter(h)
      PROVE  LockOK'
  BY <1>1 DEF Enter, Go, LockOK, Inside, Starting, Waiting
<1>2. ASSUME NEW h \in Hooks, Acquire(h)
      PROVE  LockOK'
  BY <1>2, DaemonAssumption DEF Acquire, Go, LockOK, Inside, Waiting, TypeOK
<1>3. ASSUME NEW h \in Hooks, Found(h)
      PROVE  LockOK'
  BY <1>3, DaemonAssumption DEF Found, Go, Return, LockOK, Inside, Starting,
     Waiting, TypeOK
<1>4. ASSUME NEW h \in Hooks, NotFound(h)
      PROVE  LockOK'
  BY <1>4 DEF NotFound, Go, LockOK, Inside, Waiting
<1>5. ASSUME NEW h \in Hooks, NoRecord(h)
      PROVE  LockOK'
  BY <1>5 DEF NoRecord, Go, Wanted, LockOK, Inside, Starting, Waiting
<1>6. ASSUME NEW h \in Hooks, Kill(h)
      PROVE  LockOK'
  BY <1>6 DEF Kill, Go, Wanted, LockOK, Inside, Starting, Waiting
<1>7. ASSUME NEW h \in Hooks, Spawn(h)
      PROVE  LockOK'
  <2>1. PICK p \in Pids : child' = [child EXCEPT ![h] = p]
    BY <1>7, FreshPid
  <2> QED
    BY <1>7, <2>1, DaemonAssumption DEF Spawn, Go, LockOK, Inside, Starting,
       Waiting, TypeOK
<1>8. ASSUME NEW h \in Hooks, SpawnFails(h)
      PROVE  LockOK'
  BY <1>8, DaemonAssumption DEF SpawnFails, Go, Return, LockOK, Inside,
     Starting, Waiting, TypeOK
<1>9. ASSUME NEW h \in Hooks, Handshake(h)
      PROVE  LockOK'
  BY <1>9 DEF Handshake, Go, Waits, LockOK, Inside, Waiting, TypeOK
<1>10. ASSUME NEW h \in Hooks, NoHandshake(h)
      PROVE  LockOK'
  BY <1>10, DaemonAssumption DEF NoHandshake, Go, StartFailed, Waits, Return,
     LockOK, Inside, Starting, Waiting, TypeOK
<1>11. ASSUME NEW h \in Hooks, HandshakeTimeout(h)
      PROVE  LockOK'
  BY <1>11, DaemonAssumption DEF HandshakeTimeout, Go, StartFailed, Waits,
     Return, LockOK, Inside, Starting, Waiting, TypeOK
<1>12. ASSUME NEW h \in Hooks, Record(h)
      PROVE  LockOK'
  BY <1>12, DaemonAssumption DEF Record, Go, Return, LockOK, Inside, Starting,
     Waiting, TypeOK
<1>13. ASSUME NEW h \in Hooks, Leave(h)
      PROVE  LockOK'
  BY <1>13 DEF Leave, Go, LockOK, Inside, Starting, Waiting
<1>14. ASSUME NEW h \in Hooks, HookDies(h)
      PROVE  LockOK'
  BY <1>14, DaemonAssumption DEF HookDies, Go, LockOK, Inside, Starting,
     Waiting, TypeOK
<1>15. ASSUME NEW p \in Pids, OpenDb(p)
      PROVE  LockOK'
  BY <1>15 DEF OpenDb, LockOK
<1>16. ASSUME NEW p \in Pids, Bind(p)
      PROVE  LockOK'
  BY <1>16 DEF Bind, LockOK
<1>17. ASSUME NEW p \in Pids, DrainEnds(p)
      PROVE  LockOK'
  BY <1>17 DEF DrainEnds, LockOK
<1>18. ASSUME NEW p \in Pids, IdleExit(p)
      PROVE  LockOK'
  BY <1>18 DEF IdleExit, LockOK
<1>19. ASSUME NEW p \in Pids, EngineDies(p)
      PROVE  LockOK'
  BY <1>19 DEF EngineDies, LockOK
<1>20. ASSUME NEW p \in Pids, PidReused(p)
      PROVE  LockOK'
  BY <1>20 DEF PidReused, LockOK
<1>21. ASSUME NEW p \in Pids, StrangerExits(p)
      PROVE  LockOK'
  BY <1>21 DEF StrangerExits, LockOK
<1>22. CASE PortChanges
  BY <1>22 DEF PortChanges, LockOK
<1>23. CASE Reboot
  BY <1>23, DaemonAssumption DEF Reboot, LockOK, Inside, Starting, Waiting
<1>24. CASE UNCHANGED vars
  BY <1>24 DEF vars, LockOK
<1> QED
  BY <1>1, <1>2, <1>3, <1>4, <1>5, <1>6, <1>7, <1>8, <1>9, <1>10, <1>11, <1>12,
     <1>13, <1>14, <1>15, <1>16, <1>17, <1>18, <1>19, <1>20, <1>21, <1>22,
     <1>23, <1>24 DEF Next, HookStep, EngineStep
LEMMA HandshakeStep ==
  ASSUME TypeOK, LockOK, HandshakeOK, [Next]_vars
  PROVE  HandshakeOK'
<1> USE DEF hookVars, fileVars, engineVars, worldVars
<1>1. ASSUME NEW h \in Hooks, Enter(h)
      PROVE  HandshakeOK'
  BY <1>1 DEF Enter, Go, HandshakeOK, Waiting
<1>2. ASSUME NEW h \in Hooks, Acquire(h)
      PROVE  HandshakeOK'
  BY <1>2, DaemonAssumption DEF Acquire, Go, HandshakeOK, LockOK, Inside
<1>3. ASSUME NEW h \in Hooks, Found(h)
      PROVE  HandshakeOK'
  BY <1>3 DEF Found, Go, Return, HandshakeOK, Waiting
<1>4. ASSUME NEW h \in Hooks, NotFound(h)
      PROVE  HandshakeOK'
  BY <1>4 DEF NotFound, Go, HandshakeOK, Waiting
<1>5. ASSUME NEW h \in Hooks, NoRecord(h)
      PROVE  HandshakeOK'
  BY <1>5 DEF NoRecord, Go, Wanted, HandshakeOK, Waiting
<1>6. ASSUME NEW h \in Hooks, Kill(h)
      PROVE  HandshakeOK'
  BY <1>6 DEF Kill, Go, Wanted, HandshakeOK, LockOK, Inside, Waiting
<1>7. ASSUME NEW h \in Hooks, Spawn(h)
      PROVE  HandshakeOK'
  <2>1. PICK p \in Pids : /\ proc[p] = "none"
                          /\ proc' = [proc EXCEPT ![p] = "starting"]
                          /\ child' = [child EXCEPT ![h] = p]
    BY <1>7, FreshPid
  <2>2. \A q \in Pids : printed[q] = Nobody
    BY <1>7 DEF Spawn, HandshakeOK, LockOK, Inside, Starting, Waiting
  <2> QED
    BY <1>7, <2>1, <2>2 DEF Spawn, Go, HandshakeOK, LockOK, Inside, Starting
<1>8. ASSUME NEW h \in Hooks, SpawnFails(h)
      PROVE  HandshakeOK'
  BY <1>8 DEF SpawnFails, Go, Return, HandshakeOK, Waiting, TypeOK
<1>9. ASSUME NEW h \in Hooks, Handshake(h)
      PROVE  HandshakeOK'
  <2>1. child[h] \in Pids
    BY <1>9, DaemonAssumption DEF Handshake, Waits, LockOK, Waiting, TypeOK
  <2> QED
    BY <1>9, <2>1 DEF Handshake, Go, HandshakeOK, TypeOK
<1>10. ASSUME NEW h \in Hooks, NoHandshake(h)
      PROVE  HandshakeOK'
  BY <1>10 DEF NoHandshake, Go, StartFailed, Return, HandshakeOK, TypeOK
<1>11. ASSUME NEW h \in Hooks, HandshakeTimeout(h)
      PROVE  HandshakeOK'
  BY <1>11 DEF HandshakeTimeout, Go, StartFailed, Return, Exits, HandshakeOK,
     TypeOK
<1>12. ASSUME NEW h \in Hooks, Record(h)
      PROVE  HandshakeOK'
  BY <1>12 DEF Record, Go, Return, HandshakeOK, Waiting, TypeOK
<1>13. ASSUME NEW h \in Hooks, Leave(h)
      PROVE  HandshakeOK'
  BY <1>13 DEF Leave, Go, HandshakeOK, Waiting
<1>14. ASSUME NEW h \in Hooks, HookDies(h)
      PROVE  HandshakeOK'
  BY <1>14 DEF HookDies, Go, HandshakeOK, TypeOK
<1>15. ASSUME NEW p \in Pids, OpenDb(p)
      PROVE  HandshakeOK'
  BY <1>15 DEF OpenDb, Exits, Become, HandshakeOK, LockOK, TypeOK
<1>16. ASSUME NEW p \in Pids, Bind(p)
      PROVE  HandshakeOK'
  BY <1>16, DaemonAssumption DEF Bind, Exits, Awaited, HandshakeOK, LockOK,
     TypeOK
<1>17. ASSUME NEW p \in Pids, DrainEnds(p)
      PROVE  HandshakeOK'
  BY <1>17 DEF DrainEnds, Exits, HandshakeOK
<1>18. ASSUME NEW p \in Pids, IdleExit(p)
      PROVE  HandshakeOK'
  BY <1>18 DEF IdleExit, Become, HandshakeOK
<1>19. ASSUME NEW p \in Pids, EngineDies(p)
      PROVE  HandshakeOK'
  BY <1>19 DEF EngineDies, Exits, HandshakeOK
<1>20. ASSUME NEW p \in Pids, PidReused(p)
      PROVE  HandshakeOK'
  BY <1>20 DEF PidReused, Become, HandshakeOK
<1>21. ASSUME NEW p \in Pids, StrangerExits(p)
      PROVE  HandshakeOK'
  BY <1>21 DEF StrangerExits, Exits, HandshakeOK
<1>22. CASE PortChanges
  BY <1>22 DEF PortChanges, HandshakeOK
<1>23. CASE Reboot
  BY <1>23 DEF Reboot, HandshakeOK
<1>24. CASE UNCHANGED vars
  BY <1>24 DEF vars, HandshakeOK
<1> QED
  BY <1>1, <1>2, <1>3, <1>4, <1>5, <1>6, <1>7, <1>8, <1>9, <1>10, <1>11, <1>12,
     <1>13, <1>14, <1>15, <1>16, <1>17, <1>18, <1>19, <1>20, <1>21, <1>22,
     <1>23, <1>24 DEF Next, HookStep, EngineStep
LEMMA RecordStep ==
  ASSUME TypeOK, LockOK, HandshakeOK, RecordOK, [Next]_vars
  PROVE  RecordOK'
<1> USE DEF hookVars, fileVars, engineVars, worldVars
<1>1. ASSUME NEW h \in Hooks, Enter(h)
      PROVE  RecordOK'
  BY <1>1 DEF Enter, Go, RecordOK, Starting, Waiting
<1>2. ASSUME NEW h \in Hooks, Acquire(h)
      PROVE  RecordOK'
  BY <1>2 DEF Acquire, Go, RecordOK, Starting, Waiting
<1>3. ASSUME NEW h \in Hooks, Found(h)
      PROVE  RecordOK'
  BY <1>3 DEF Found, Go, Return, RecordOK, Starting, Waiting
<1>4. ASSUME NEW h \in Hooks, NotFound(h)
      PROVE  RecordOK'
  BY <1>4 DEF NotFound, Go, RecordOK, Starting, Waiting
<1>5. ASSUME NEW h \in Hooks, NoRecord(h)
      PROVE  RecordOK'
  BY <1>5 DEF NoRecord, RecordOK
<1>6. ASSUME NEW h \in Hooks, Kill(h)
      PROVE  RecordOK'
  BY <1>6, RecordedPid DEF Kill, Become, Exits, RecordOK, TypeOK
<1>7. ASSUME NEW h \in Hooks, Spawn(h)
      PROVE  RecordOK'
  <2>1. PICK p \in Pids : /\ proc[p] = "none" /\ ~Recorded(p)
                          /\ proc' = [proc EXCEPT ![p] = "starting"]
    BY <1>7, FreshPid
  <2> QED
    BY <1>7, <2>1 DEF Spawn, Recorded, RecordOK, Starting
<1>8. ASSUME NEW h \in Hooks, SpawnFails(h)
      PROVE  RecordOK'
  BY <1>8 DEF SpawnFails, RecordOK, Starting
<1>9. ASSUME NEW h \in Hooks, Handshake(h)
      PROVE  RecordOK'
  BY <1>9 DEF Handshake, Go, Waits, RecordOK, Waiting
<1>10. ASSUME NEW h \in Hooks, NoHandshake(h)
      PROVE  RecordOK'
  BY <1>10 DEF NoHandshake, StartFailed, Waits, RecordOK, Waiting
<1>11. ASSUME NEW h \in Hooks, HandshakeTimeout(h)
      PROVE  RecordOK'
  BY <1>11 DEF HandshakeTimeout, StartFailed, Waits, Exits, RecordOK, Waiting
<1>12. ASSUME NEW h \in Hooks, Record(h)
      PROVE  RecordOK'
  BY <1>12 DEF Record, Go, Return, RecordOK, HandshakeOK, LockOK, Inside,
     Starting, Waiting, TypeOK
<1>13. ASSUME NEW h \in Hooks, Leave(h)
      PROVE  RecordOK'
  BY <1>13 DEF Leave, Go, RecordOK, Starting, Waiting
<1>14. ASSUME NEW h \in Hooks, HookDies(h)
      PROVE  RecordOK'
  BY <1>14 DEF HookDies, Go, RecordOK, Starting, Waiting
<1>15. ASSUME NEW p \in Pids, OpenDb(p)
      PROVE  RecordOK'
  BY <1>15, RecordedPid DEF OpenDb, Exits, Become, RecordOK, TypeOK
<1>16. ASSUME NEW p \in Pids, Bind(p)
      PROVE  RecordOK'
  BY <1>16, RecordedPid DEF Bind, Exits, RecordOK, TypeOK
<1>17. ASSUME NEW p \in Pids, DrainEnds(p)
      PROVE  RecordOK'
  BY <1>17 DEF DrainEnds, Exits, RecordOK
<1>18. ASSUME NEW p \in Pids, IdleExit(p)
      PROVE  RecordOK'
  BY <1>18 DEF IdleExit, Become, RecordOK
<1>19. ASSUME NEW p \in Pids, EngineDies(p)
      PROVE  RecordOK'
  BY <1>19 DEF EngineDies, Exits, RecordOK
<1>20. ASSUME NEW p \in Pids, PidReused(p)
      PROVE  RecordOK'
  BY <1>20 DEF PidReused, Become, RecordOK
<1>21. ASSUME NEW p \in Pids, StrangerExits(p)
      PROVE  RecordOK'
  BY <1>21 DEF StrangerExits, Exits, RecordOK
<1>22. CASE PortChanges
  BY <1>22 DEF PortChanges, RecordOK
<1>23. CASE Reboot
  BY <1>23, RecordedPid DEF Reboot, RecordOK
<1>24. CASE UNCHANGED vars
  BY <1>24 DEF vars, RecordOK
<1> QED
  BY <1>1, <1>2, <1>3, <1>4, <1>5, <1>6, <1>7, <1>8, <1>9, <1>10, <1>11, <1>12,
     <1>13, <1>14, <1>15, <1>16, <1>17, <1>18, <1>19, <1>20, <1>21, <1>22,
     <1>23, <1>24 DEF Next, HookStep, EngineStep
LEMMA KnownStep ==
  ASSUME TypeOK, LockOK, HandshakeOK, RecordOK, EnginesKnown, [Next]_vars
  PROVE  EnginesKnown'
<1> USE DEF hookVars, fileVars, engineVars, worldVars
<1>1. ASSUME NEW h \in Hooks, Enter(h)
      PROVE  EnginesKnown'
  BY <1>1 DEF Enter, EnginesKnown, Stray, Recorded, Awaited
<1>2. ASSUME NEW h \in Hooks, Acquire(h)
      PROVE  EnginesKnown'
  BY <1>2 DEF Acquire, EnginesKnown, Stray, Recorded, Awaited
<1>3. ASSUME NEW h \in Hooks, Found(h)
      PROVE  EnginesKnown'
  BY <1>3 DEF Found, EnginesKnown, Stray, Recorded, Awaited
<1>4. ASSUME NEW h \in Hooks, NotFound(h)
      PROVE  EnginesKnown'
  BY <1>4 DEF NotFound, EnginesKnown, Stray, Recorded, Awaited
<1>5. ASSUME NEW h \in Hooks, NoRecord(h)
      PROVE  EnginesKnown'
  BY <1>5 DEF NoRecord, EnginesKnown, Stray, Recorded, Awaited
<1>6. ASSUME NEW h \in Hooks, Kill(h)
      PROVE  EnginesKnown'
  BY <1>6 DEF Kill, Become, Exits, EnginesKnown, Stray, Recorded, Awaited,
     TypeOK
<1>7. ASSUME NEW h \in Hooks, Spawn(h)
      PROVE  EnginesKnown'
  <2>1. PICK p \in Pids : /\ proc' = [proc EXCEPT ![p] = "starting"]
                          /\ child' = [child EXCEPT ![h] = p]
    BY <1>7, FreshPid
  <2> QED
    BY <1>7, <2>1, DaemonAssumption DEF Spawn, EnginesKnown, Stray, Recorded,
       Awaited, LockOK, Waiting, TypeOK
<1>8. ASSUME NEW h \in Hooks, SpawnFails(h)
      PROVE  EnginesKnown'
  BY <1>8 DEF SpawnFails, EnginesKnown, Stray, Recorded, Awaited
<1>9. ASSUME NEW h \in Hooks, Handshake(h)
      PROVE  EnginesKnown'
  BY <1>9 DEF Handshake, EnginesKnown, Stray, Recorded, Awaited
<1>10. ASSUME NEW h \in Hooks, NoHandshake(h)
      PROVE  EnginesKnown'
  BY <1>10 DEF NoHandshake, StartFailed, EnginesKnown, Stray, Recorded, Awaited
<1>11. ASSUME NEW h \in Hooks, HandshakeTimeout(h)
      PROVE  EnginesKnown'
  BY <1>11 DEF HandshakeTimeout, StartFailed, Exits, EnginesKnown, Stray,
     Recorded, Awaited, TypeOK
<1>12. ASSUME NEW h \in Hooks, Record(h)
      PROVE  EnginesKnown'
  <2>1. ASSUME ~abandoned'
        PROVE  rec' # Nobody /\ rec'.pid = child[h] /\ child' = [child EXCEPT ![h] = Nobody]
    <3>1. child[h] \in Pids /\ told[h] \in Ports
      BY <1>12 DEF Record, LockOK, TypeOK
    <3>2. rec' = [pid |-> child[h], port |-> told[h], version |-> VersionOf[h]]
      BY <1>12, <2>1 DEF Record
    <3>3. rec' \in EngineState
      BY <3>1, <3>2 DEF EngineState
    <3> QED
      BY <1>12, <3>2, <3>3, DaemonAssumption DEF Record
  <2>2. UNCHANGED proc /\ (~abandoned' => ~abandoned) /\ at[h] = "record"
    BY <1>12 DEF Record
  <2>3. rec # Nobody => proc[rec.pid] \notin {"starting", "open", "up"}
    BY <2>2 DEF RecordOK
  <2> QED
    BY <2>1, <2>2, <2>3 DEF EnginesKnown, Stray, Recorded, Awaited, TypeOK
<1>13. ASSUME NEW h \in Hooks, Leave(h)
      PROVE  EnginesKnown'
  BY <1>13 DEF Leave, EnginesKnown, Stray, Recorded, Awaited
<1>14. ASSUME NEW h \in Hooks, HookDies(h)
      PROVE  EnginesKnown'
  BY <1>14 DEF HookDies, EnginesKnown
<1>15. ASSUME NEW p \in Pids, OpenDb(p)
      PROVE  EnginesKnown'
  BY <1>15 DEF OpenDb, Exits, Become, EnginesKnown, Stray, Recorded, Awaited,
     TypeOK
<1>16. ASSUME NEW p \in Pids, Bind(p)
      PROVE  EnginesKnown'
  BY <1>16 DEF Bind, Exits, Awaited, EnginesKnown, Stray, Recorded, TypeOK
<1>17. ASSUME NEW p \in Pids, DrainEnds(p)
      PROVE  EnginesKnown'
  BY <1>17 DEF DrainEnds, Exits, EnginesKnown, Stray, Recorded, Awaited
<1>18. ASSUME NEW p \in Pids, IdleExit(p)
      PROVE  EnginesKnown'
  BY <1>18 DEF IdleExit, Become, Awaited, EnginesKnown, Stray, Recorded
<1>19. ASSUME NEW p \in Pids, EngineDies(p)
      PROVE  EnginesKnown'
  BY <1>19 DEF EngineDies, Exits, EnginesKnown, Stray, Recorded, Awaited
<1>20. ASSUME NEW p \in Pids, PidReused(p)
      PROVE  EnginesKnown'
  BY <1>20 DEF PidReused, Recorded, Become, EnginesKnown, Stray, Awaited
<1>21. ASSUME NEW p \in Pids, StrangerExits(p)
      PROVE  EnginesKnown'
  BY <1>21 DEF StrangerExits, Exits, EnginesKnown, Stray, Recorded, Awaited
<1>22. CASE PortChanges
  BY <1>22 DEF PortChanges, EnginesKnown, Stray, Recorded, Awaited
<1>23. CASE Reboot
  BY <1>23 DEF Reboot, EnginesKnown, Stray
<1>24. CASE UNCHANGED vars
  BY <1>24 DEF vars, EnginesKnown, Stray, Recorded, Awaited
<1> QED
  BY <1>1, <1>2, <1>3, <1>4, <1>5, <1>6, <1>7, <1>8, <1>9, <1>10, <1>11, <1>12,
     <1>13, <1>14, <1>15, <1>16, <1>17, <1>18, <1>19, <1>20, <1>21, <1>22,
     <1>23, <1>24 DEF Next, HookStep, EngineStep

-------------------------------------------------------------------------------
(* The invariant, and what follows from it.                                 *)

LEMMA InitIInv == Init => IInv
<1> SUFFICES ASSUME Init PROVE IInv
  OBVIOUS
<1>1. TypeOK
  <2>1. faults \in 0..MaxFaults
    BY DaemonAssumption DEF Init
  <2>2. /\ failed \in BOOLEAN /\ port_taken \in BOOLEAN /\ abandoned \in BOOLEAN
        /\ port \in [Pids -> Ports \cup {Nobody}] /\ printed \in [Pids -> Ports \cup {Nobody}]
        /\ told \in [Hooks -> Ports \cup {Nobody}]
    BY DEF Init
  <2>3. /\ at \in [Hooks -> Places] /\ holder \in Hooks \cup {Nobody}
        /\ child \in [Hooks -> Pids \cup {Nobody}]
        /\ proc \in [Pids -> {"none", "starting", "open", "up", "draining", "stranger"}]
        /\ rec \in EngineState \cup {Nobody}
    BY DEF Init, Places
  <2> QED
    BY <2>1, <2>2, <2>3 DEF TypeOK
<1>2. LockOK
  BY DaemonAssumption DEF Init, LockOK, Inside, Starting, Waiting
<1>3. HandshakeOK /\ RecordOK
  BY DEF Init, HandshakeOK, RecordOK
<1>4. EnginesKnown
  BY DEF Init, EnginesKnown, Stray
<1> QED
  BY <1>1, <1>2, <1>3, <1>4 DEF IInv

LEMMA NextIInv == IInv /\ [Next]_vars => IInv'
<1> SUFFICES ASSUME IInv, [Next]_vars PROVE IInv'
  OBVIOUS
<1> QED
  BY TypeStep, LockStep, HandshakeStep, RecordStep, KnownStep DEF IInv

(* IInv is an invariant: the lock has one holder, which alone starts,       *)
(* awaits and records an engine (ensure in daemon.rs), and while no hook    *)
(* died or failed to write engine.json no engine is lost track of.          *)
THEOREM Invariance == Spec => []IInv
  BY InitIInv, NextIInv, PTL DEF Spec

(* Two engines that both start or serve are the same engine: engine.json    *)
(* names one, the holder of the lock waits for one, and it would not if the *)
(* recorded one served.                                                     *)
LEMMA LiveIsUnique ==
  ASSUME IInv, ~abandoned, NEW p \in Pids, NEW q \in Pids, Live(p), Live(q)
  PROVE  p = q
<1>1. (Recorded(p) \/ Awaited(p)) /\ (Recorded(q) \/ Awaited(q))
  BY DEF IInv, EnginesKnown, Stray, Live
<1>2. \A r, s \in Pids : Live(r) /\ Live(s) /\ Recorded(r) /\ Awaited(s) => r = s
  BY DaemonAssumption DEF IInv, RecordOK, LockOK, Live, Recorded, Awaited
<1>3. Recorded(p) /\ Recorded(q) => p = q
  BY DEF Recorded
<1>4. Awaited(p) /\ Awaited(q) => p = q
  BY DaemonAssumption DEF IInv, LockOK, Inside, Awaited
<1> QED
  BY <1>1, <1>2, <1>3, <1>4

LEMMA IInvGivesInv == IInv => Inv
<1> SUFFICES ASSUME IInv, ~abandoned PROVE OneDaemon
  BY DEF IInv, Inv, OneDaemon
<1> DEFINE live == {p \in Pids : proc[p] \in {"starting", "open", "up"}}
<1>1. CASE live = {}
  BY <1>1, FS_EmptySet DEF OneDaemon
<1>2. CASE live # {}
  <2>1. PICK p \in live : TRUE
    BY <1>2
  <2>2. live = {p}
    BY <2>1, LiveIsUnique DEF Live
  <2>3. Cardinality(live) = 1
    BY <2>2, FS_Singleton
  <2> QED
    BY <2>3 DEF OneDaemon
<1> QED
  BY <1>1, <1>2

(* "One daemon per project" (docs/claude-code.md): until a hook dies half   *)
(* way or cannot write engine.json, at most one engine starts or serves and *)
(* hooks know it, whatever hooks, versions, exits and lost races there are. *)
THEOREM OneKnownDaemon == Spec => []Inv
  BY Invariance, IInvGivesInv, PTL
===============================================================================
