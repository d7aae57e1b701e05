------------------------ MODULE AgentLifecycleProofs ------------------------
(***************************************************************************)
(* Proofs about AgentLifecycle, for every restart limit and bound.         *)
(***************************************************************************)
EXTENDS AgentLifecycle, TLAPS

-----------------------------------------------------------------------------
(* Type correctness *)

\* Main handles the monitor with actions of its own.
SvcInv ==
    /\ main \in {"start", "starting"} => svc # "monitor"
    /\ main = "stopping" => svc # "monitor"
    /\ main \in {"checkpoint", "stop_observer", "join_observer"} => svc = "monitor"

\* A counted restart of the polling thread is done or about to be done.
CountInv ==
    /\ polling_restarts <= monitor_restarts
    /\ pc["health"] = "restart_polling" => polling_restarts < monitor_restarts

TypeInv == TypeOK /\ SvcInv /\ CountInv

Places == {"none", "loop", "lock", "scan", "dead", "new", "check",
           "polling", "restart_polling", "observer", "restart_observer",
           "schedule", "heartbeat", "restart_heartbeat"}

\* Steps of main leave the counters alone, and give no thread a place that a
\* restart of the polling thread follows.
LEMMA MainType == TypeInv /\ (Main \/ Signal) => TypeInv'
  <1> SUFFICES ASSUME TypeOK, SvcInv, CountInv, Main \/ Signal
               PROVE  TypeOK' /\ SvcInv' /\ CountInv'
    BY DEF TypeInv
  <1>1. ASSUME UNCHANGED countVars, pc'["health"] = pc["health"] \/ pc'["health"] = "loop"
        PROVE  CountInv'
    BY <1>1 DEF countVars, CountInv
  <1>2. GoOn => /\ main' \in {"stop", "exited"} /\ svc' \in Services
    BY DEF GoOn, NextToStop, TypeOK, Services
  <1>3. CASE StartupFails \/ StartMonitor \/ EnterFirstScan \/ EndFirstScan \/ ObserverUnavailable
    BY <1>1, <1>3
    DEF StartupFails, StartMonitor, EnterFirstScan, EndFirstScan, ObserverUnavailable, TypeOK, SvcInv,
        Services, Starting, lockVars, workVars, countVars, boundVars
  <1>4. CASE StartObserver \/ StartPolling
    <2>1. TypeOK' /\ SvcInv'
      BY <1>4 DEF StartObserver, StartPolling, TypeOK, SvcInv, Services, Starting, Workers, Scanners,
                  lockVars, countVars, boundVars
    <2>2. pc'["health"] = pc["health"] /\ UNCHANGED countVars
      BY <1>4 DEF StartObserver, StartPolling, TypeOK, Workers, Services, Scanners
    <2> QED BY <1>1, <2>1, <2>2
  <1>5. CASE AcquireToStart \/ AcquireToStop
    BY <1>1, <1>5
    DEF AcquireToStart, AcquireToStop, TypeOK, SvcInv, Services, Starting, Stopping, workVars, countVars, boundVars
  <1>6. CASE StartWorker
    <2>1. svc \in {"heartbeat", "cleanup", "health"}
      BY <1>6 DEF StartWorker, TypeOK, SvcInv, Services
    <2>2. /\ main' \in {"loop", "start"} /\ svc' \in {"heartbeat", "cleanup", "health"}
      BY <1>6, <2>1 DEF StartWorker, NextToStart
    <2>3. TypeOK'
      BY <1>6, <2>1, <2>2 DEF StartWorker, TypeOK, Services, Starting, Workers, Scanners, countVars, boundVars
    <2>4. CountInv'
      BY <1>1, <1>6, <2>1 DEF StartWorker, TypeOK, Workers, Scanners, Services
    <2> QED BY <2>2, <2>3, <2>4 DEF SvcInv
  <1>7. CASE StopWorker \/ JoinWorker \/ StopMonitor
    <2>1. /\ main' \in {"stop", "exited", "join", "checkpoint"} /\ svc' \in Services
      BY <1>2, <1>7 DEF StopWorker, JoinWorker, StopMonitor, TypeOK
    <2>2. UNCHANGED <<lock, pc, observer_stopped, countVars, interrupted, settings, boundVars>>
      BY <1>7 DEF StopWorker, JoinWorker, StopMonitor, lockVars, workVars
    <2>3. running' \subseteq running /\ held' \subseteq held /\ refs' \subseteq refs /\ outlived' \in BOOLEAN
      BY <1>7 DEF StopWorker, JoinWorker, StopMonitor, lockVars, workVars, TypeOK
    <2>4. TypeOK'
      BY <2>1, <2>2, <2>3 DEF TypeOK, Stopping, countVars, boundVars
    <2>5. SvcInv'
      <3>1. main' = "checkpoint" => svc' = "monitor"
        BY <1>7 DEF StopWorker, JoinWorker, StopMonitor, GoOn
      <3> QED BY <2>1, <3>1 DEF SvcInv
    <2> QED BY <1>1, <2>2, <2>4, <2>5
  <1>8. CASE Checkpoint \/ StopObserver \/ JoinObserver
    BY <1>1, <1>8
    DEF Checkpoint, StopObserver, JoinObserver, TypeOK, SvcInv, Stopping, lockVars, workVars, countVars, boundVars
  <1>9. CASE Signal
    <2>1. Activity \in {"scanning", "starting", "idle", "stopping"}
      BY DEF Activity
    <2>2. signals' \in 0..MaxSignals
      BY <1>9, BoundsAssumption DEF Signal, TypeOK
    <2> QED BY <1>1, <1>9, <2>1, <2>2
            DEF Signal, TypeOK, SvcInv, Services, Stopping, lockVars, workVars, countVars
  <1> QED BY <1>3, <1>4, <1>5, <1>6, <1>7, <1>8, <1>9 DEF Main

\* Steps of the other threads leave main alone.
LEMMA OtherType == TypeInv /\ [Next]_vars /\ ~Main /\ ~Signal => TypeInv'
  <1> SUFFICES ASSUME TypeOK, SvcInv, CountInv, [Next]_vars, ~Main, ~Signal
               PROVE  TypeOK' /\ SvcInv' /\ CountInv'
    BY DEF TypeInv
  <1> USE DEF Workers, Scanners, Services, Watched
  <1>1. ASSUME UNCHANGED <<mainVars, running, held, countVars, interrupted, outlived, settings>>,
               lock' \in {Nobody, "main"} \cup Scanners,
               NEW w \in Workers, NEW p \in Places \ {"restart_polling"},
               pc' = [pc EXCEPT ![w] = p], refs' \subseteq Workers, observer_stopped' \in BOOLEAN,
               deaths' \in 0..MaxDeaths, signals' = signals
        PROVE  TypeOK' /\ SvcInv' /\ CountInv'
    <2>1. pc' \in [Workers -> Places]
      BY <1>1 DEF TypeOK, Places
    <2>2. TypeOK'
      BY <1>1, <2>1 DEF TypeOK, mainVars, countVars, Places
    <2>3. SvcInv'
      BY <1>1 DEF SvcInv, mainVars
    <2>4. CountInv'
      BY <1>1 DEF CountInv, countVars, TypeOK, Places
    <2> QED BY <2>2, <2>3, <2>4
  <1>2. ASSUME NEW from, NEW to \in Places \ {"restart_polling"}, HealthStep(from, to)
        PROVE  TypeOK' /\ SvcInv' /\ CountInv'
    BY <1>1, <1>2 DEF HealthStep, TypeOK, lockVars, boundVars
  <1>3. CASE PollingWakes \/ FileModified \/ ObserverEnds
    <2>1. PICK w \in Scanners, p \in {"lock", "dead"} : pc' = [pc EXCEPT ![w] = p]
      BY <1>3 DEF PollingWakes, FileModified, ObserverEnds
    <2>2. UNCHANGED <<mainVars, running, lockVars, refs, observer_stopped, countVars, interrupted, outlived, settings, boundVars>>
      BY <1>3 DEF PollingWakes, FileModified, ObserverEnds
    <2>3. /\ lock' \in {Nobody, "main"} \cup Scanners /\ refs' \subseteq Workers
          /\ observer_stopped' \in BOOLEAN /\ deaths' \in 0..MaxDeaths /\ signals' = signals
          /\ held' = held
      BY <2>2 DEF TypeOK, lockVars, boundVars
    <2> QED BY <1>1, <2>1, <2>2, <2>3 DEF Places
  <1>4. ASSUME NEW t \in Scanners, Scan(t)
        PROVE  TypeOK' /\ SvcInv' /\ CountInv'
    <2>1. PICK p \in {"scan", "loop"} : pc' = [pc EXCEPT ![t] = p]
      BY <1>4 DEF Scan, EnterScan, EndScan
    <2>2. /\ UNCHANGED <<mainVars, running, held, refs, observer_stopped, countVars, interrupted, outlived, settings, boundVars>>
          /\ lock' \in {lock, t, Nobody}
      BY <1>4 DEF Scan, EnterScan, EndScan
    <2>3. /\ lock' \in {Nobody, "main"} \cup Scanners /\ refs' \subseteq Workers
          /\ observer_stopped' \in BOOLEAN /\ deaths' \in 0..MaxDeaths /\ signals' = signals
      BY <2>2 DEF TypeOK, boundVars
    <2> QED BY <1>1, <2>1, <2>2, <2>3 DEF Places
  <1>5. ASSUME NEW w \in {"heartbeat", "cleanup"}, WorkerEnds(w)
        PROVE  TypeOK' /\ SvcInv' /\ CountInv'
    BY <1>1, <1>5 DEF WorkerEnds, Places, TypeOK, lockVars, boundVars
  <1>6. ASSUME NEW w \in Watched, WorkerDies(w)
        PROVE  TypeOK' /\ SvcInv' /\ CountInv'
    <2>1. deaths' \in 0..MaxDeaths
      BY <1>6, BoundsAssumption DEF WorkerDies, TypeOK
    <2> QED BY <1>1, <1>6, <2>1 DEF WorkerDies, Places, TypeOK, lockVars
  <1>7. CASE HealthWakes \/ CheckMonitor \/ PollingFine \/ ObserverFine \/ ScheduleFails \/ HeartbeatFine
    BY <1>2, <1>7 DEF HealthWakes, CheckMonitor, PollingFine, ObserverFine, ScheduleFails, HeartbeatFine, Places
  <1>8. CASE PollingCrashed \/ ObserverCrashed
    <2>1. monitor_restarts' \in 0..MaxRestarts /\ monitor_restarts' = monitor_restarts + 1
      BY <1>8, BoundsAssumption DEF PollingCrashed, ObserverCrashed, CountMonitorRestart, TypeOK
    <2>2. TypeOK' /\ SvcInv'
      <3>1. pc' \in [Workers -> Places]
        BY <1>8 DEF PollingCrashed, ObserverCrashed, CountMonitorRestart, TypeOK, Places
      <3>2. UNCHANGED <<mainVars, running, lockVars, refs, observer_stopped, heartbeat_restarts,
                        polling_restarts, interrupted, outlived, settings, boundVars>>
        BY <1>8 DEF PollingCrashed, ObserverCrashed, CountMonitorRestart
      <3> QED BY <2>1, <3>1, <3>2 DEF TypeOK, Places, SvcInv, mainVars, lockVars, boundVars
    <2>3. polling_restarts' = polling_restarts /\ polling_restarts \in Nat /\ monitor_restarts \in Nat
      BY <1>8 DEF PollingCrashed, ObserverCrashed, CountMonitorRestart, TypeOK
    <2>4. CountInv'
      BY <2>1, <2>3 DEF CountInv
    <2> QED BY <2>2, <2>4
  <1>9. CASE RestartPolling
    <2>1. polling_restarts' = polling_restarts + 1 /\ polling_restarts < monitor_restarts
      BY <1>9 DEF RestartPolling, CountInv
    <2>2. polling_restarts' \in 0..MaxRestarts
      <3>1. polling_restarts \in Nat /\ monitor_restarts \in Nat /\ monitor_restarts <= MaxRestarts
        BY BoundsAssumption DEF TypeOK
      <3> QED BY <2>1, <3>1, BoundsAssumption
    <2>3. TypeOK' /\ SvcInv'
      BY <1>9, <2>2 DEF RestartPolling, TypeOK, SvcInv, mainVars, lockVars, boundVars
    <2>4. pc'["health"] = "observer" /\ monitor_restarts' = monitor_restarts
      BY <1>9 DEF RestartPolling, TypeOK
    <2>5. CountInv'
      BY <2>1, <2>4 DEF CountInv, TypeOK
    <2> QED BY <2>3, <2>5
  <1>10. CASE NewObserver \/ ScheduleObserver \/ RestartHeartbeat
    <2>1. TypeOK' /\ SvcInv'
      <3>1. pc' \in [Workers -> Places] /\ refs' \subseteq Workers /\ observer_stopped' \in BOOLEAN
        <4>1. CASE NewObserver
          BY <4>1 DEF NewObserver, TypeOK, Places
        <4>2. CASE ScheduleObserver
          BY <4>2 DEF ScheduleObserver, TypeOK, Places
        <4>3. CASE RestartHeartbeat
          BY <4>3 DEF RestartHeartbeat, TypeOK, Places
        <4> QED BY <1>10, <4>1, <4>2, <4>3
      <3>2. UNCHANGED <<mainVars, running, lockVars, countVars, interrupted, outlived, settings, boundVars>>
        BY <1>10 DEF NewObserver, ScheduleObserver, RestartHeartbeat
      <3> QED BY <3>1, <3>2 DEF TypeOK, Places, SvcInv, mainVars, lockVars, countVars, boundVars
    <2>2. pc'["health"] # "restart_polling" /\ UNCHANGED countVars
      BY <1>10 DEF NewObserver, ScheduleObserver, RestartHeartbeat, TypeOK
    <2>3. CountInv'
      BY <2>2 DEF CountInv, countVars
    <2> QED BY <2>1, <2>3
  <1>11. CASE HeartbeatCrashed
    <2>1. heartbeat_restarts' \in 0..MaxRestarts
      BY <1>11, BoundsAssumption DEF HeartbeatCrashed, TypeOK
    <2>2. TypeOK' /\ SvcInv'
      BY <1>11, <2>1 DEF HeartbeatCrashed, TypeOK, SvcInv, mainVars, lockVars, boundVars
    <2>3. pc'["health"] # "restart_polling"
      BY <1>11 DEF HeartbeatCrashed, TypeOK
    <2>4. CountInv'
      BY <1>11, <2>3 DEF HeartbeatCrashed, CountInv
    <2> QED BY <2>2, <2>4
  <1>12. CASE UNCHANGED vars
    BY <1>12 DEF vars, TypeOK, SvcInv, CountInv, mainVars, lockVars, workVars, countVars, boundVars
  <1>13. CASE SettingsChange
    BY <1>13 DEF SettingsChange, TypeOK, SvcInv, CountInv, mainVars, lockVars, workVars, countVars, boundVars
  <1> QED
    BY <1>3, <1>4, <1>5, <1>6, <1>7, <1>8, <1>9, <1>10, <1>11, <1>12, <1>13 DEF Next, Health

\* No thread runs at first, and nothing has been counted.
LEMMA InitType == Init => TypeInv
  <1> SUFFICES ASSUME Init
               PROVE  TypeInv
    OBVIOUS
  <1>1. 0 \in 0..MaxRestarts /\ 0 \in 0..MaxDeaths /\ 0 \in 0..MaxSignals
    BY BoundsAssumption
  <1>2. pc \in [Workers -> Places] /\ pc["health"] = "none"
    BY DEF Init, Places, Workers, Services, Scanners
  <1>3. TypeOK
    BY <1>1, <1>2 DEF Init, TypeOK, Places, Starting, Services
  <1>4. SvcInv /\ CountInv
    BY <1>2 DEF Init, SvcInv, CountInv
  <1> QED BY <1>3, <1>4 DEF TypeInv

\* The types, and the service that main is at, in every state.
LEMMA TypeInvariant == Spec => []TypeInv
  <1>1. TypeInv /\ [Next]_vars => TypeInv'
    BY MainType, OtherType
  <1> QED BY <1>1, InitType, PTL DEF Spec

\* Every variable keeps its type; no counter passes its limit.
THEOREM TypeCorrect == Spec => []TypeOK
  <1>1. TypeInv => TypeOK
    BY DEF TypeInv
  <1> QED BY <1>1, TypeInvariant, PTL

-----------------------------------------------------------------------------
(* The clean checkpoint *)

\* Only the holder of the lock scans.
LockInv ==
    /\ \A t \in Scanners : pc[t] = "scan" => lock = t
    /\ main = "scan" => lock = "main"

\* is_running of the monitor is unset from the handler's checkpoint on.
StopInv == main \in {"init", "checkpoint"} \/ PastCheckpoint => "monitor" \notin running

\* When it is unset, and the handler does not still wait for the scan, no
\* thread scans.
QuietInv ==
    HandlerWhole /\ "monitor" \notin running /\ main # "checkpoint" =>
        \A t \in Scanners : pc[t] # "scan"

CleanInv == LockInv /\ StopInv /\ QuietInv

\* Threads other than main keep main, and start no scan once is_running is
\* unset.
LEMMA OthersClean ==
    ASSUME TypeOK, CleanInv, UNCHANGED <<mainVars, running, interrupted>>,
           LockInv',
           \A t \in Scanners : pc'[t] = "scan" => pc[t] = "scan" \/ "monitor" \in running
    PROVE  CleanInv'
  BY DEF CleanInv, StopInv, QuietInv, HandlerWhole, PastCheckpoint, mainVars

\* Main lets no other thread into a scan, and leaves the lock or takes or
\* returns it.
LEMMA MainClean ==
    ASSUME TypeOK, CleanInv,
           \A t \in Scanners : pc'[t] = "scan" => pc[t] = "scan",
           lock' = lock, main' # "scan",
           HandlerWhole' => HandlerWhole,
           StopInv', HandlerWhole' /\ "monitor" \notin running' /\ main' # "checkpoint" =>
                         "monitor" \notin running /\ main # "checkpoint"
    PROVE  CleanInv'
  BY DEF CleanInv, LockInv, QuietInv

\* Every step keeps the lock with whoever scans, and scans out of the checkpoint.
LEMMA CleanStep == TypeInv /\ CleanInv /\ [Next]_vars => CleanInv'
  <1> SUFFICES ASSUME TypeOK, SvcInv, CleanInv, [Next]_vars
               PROVE  CleanInv'
    BY DEF TypeInv
  <1> USE DEF Workers, Scanners, Services, Watched
  <1>1. CASE StartupFails \/ StartMonitor \/ StartObserver \/ ObserverUnavailable \/ StartPolling
             \/ AcquireToStart \/ StartWorker
    <2>1. \A t \in Scanners : pc'[t] = "scan" => pc[t] = "scan"
      BY <1>1
      DEF StartupFails, StartMonitor, StartObserver, ObserverUnavailable, StartPolling,
          AcquireToStart, StartWorker, workVars, TypeOK, SvcInv
    <2>2. lock' = lock /\ interrupted' = interrupted
      BY <1>1
      DEF StartupFails, StartMonitor, StartObserver, ObserverUnavailable, StartPolling,
          AcquireToStart, StartWorker, lockVars
    <2>3. main' \in {"exited", "enter", "poll", "start", "starting", "loop"} /\ main # "checkpoint"
      BY <1>1
      DEF StartupFails, StartMonitor, StartObserver, ObserverUnavailable, StartPolling,
          AcquireToStart, StartWorker
    <2>4. "monitor" \notin running' => "monitor" \notin running
      BY <1>1
      DEF StartupFails, StartMonitor, StartObserver, ObserverUnavailable, StartPolling,
          AcquireToStart, StartWorker
    <2>5. main' = "exited" => main = "init" /\ running' = running
      BY <1>1
      DEF StartupFails, StartMonitor, StartObserver, ObserverUnavailable, StartPolling,
          AcquireToStart, StartWorker
    <2>6. StopInv'
      BY <2>3, <2>5 DEF CleanInv, StopInv, PastCheckpoint, Stopping
    <2> QED BY <2>1, <2>2, <2>3, <2>4, <2>6, MainClean DEF HandlerWhole
  <1>2. CASE EnterFirstScan \/ EndFirstScan
    <2>1. /\ UNCHANGED <<pc, running, interrupted>> /\ main \in {"enter", "scan"}
          /\ main' \in {"scan", "observe"}
      BY <1>2 DEF EnterFirstScan, EndFirstScan, workVars
    <2>2. \A t \in Scanners : pc[t] # "scan"
      <3>1. lock \in {Nobody, "main"}
        BY <1>2 DEF EnterFirstScan, EndFirstScan, CleanInv, LockInv
      <3> QED BY <3>1 DEF CleanInv, LockInv, Nobody
    <2>3. main' = "scan" => lock' = "main"
      BY <1>2 DEF EnterFirstScan, EndFirstScan
    <2> QED BY <2>1, <2>2, <2>3 DEF CleanInv, LockInv, StopInv, QuietInv, PastCheckpoint, Stopping
  <1>3. CASE Signal
    <2>1. UNCHANGED <<running, pc, lock>> /\ main' = "stop" /\ svc' = "health"
      BY <1>3 DEF Signal, lockVars, workVars
    <2>2. StopInv'
      BY <2>1 DEF StopInv, PastCheckpoint, Stopping
    <2>3. HandlerWhole' => HandlerWhole /\ main # "checkpoint"
      BY <1>3 DEF Signal, HandlerWhole, Activity, Starting, Stopping
    <2> QED BY <2>1, <2>2, <2>3, MainClean
  <1>4. CASE AcquireToStop \/ StopWorker \/ JoinWorker
    <2>1. UNCHANGED <<pc, lock, interrupted>> /\ main \in {"stop", "stopping", "join"}
      BY <1>4 DEF AcquireToStop, StopWorker, JoinWorker, lockVars, workVars
    <2>2. "monitor" \in running' <=> "monitor" \in running
      BY <1>4 DEF AcquireToStop, StopWorker, JoinWorker, SvcInv
    <2>3. main' \in {"stopping", "join", "stop", "exited"}
      BY <1>4 DEF AcquireToStop, StopWorker, JoinWorker, GoOn
    <2>4. PastCheckpoint' => PastCheckpoint
      <3>1. CASE AcquireToStop
        BY <3>1 DEF AcquireToStop, PastCheckpoint, Stopping
      <3>2. CASE StopWorker
        <4>1. svc # "monitor"
          BY <3>2 DEF StopWorker, SvcInv
        <4> QED BY <3>2, <4>1 DEF StopWorker, GoOn, NextToStop, PastCheckpoint, Stopping, TypeOK
      <3>3. CASE JoinWorker
        BY <3>3 DEF JoinWorker, GoOn, NextToStop, PastCheckpoint, Stopping, TypeOK
      <3> QED BY <1>4, <3>1, <3>2, <3>3
    <2>5. StopInv'
      BY <2>2, <2>3, <2>4 DEF CleanInv, StopInv
    <2> QED BY <2>1, <2>2, <2>3, <2>5, MainClean DEF HandlerWhole
  <1>5. CASE StopMonitor
    <2>1. UNCHANGED <<pc, lock, interrupted>> /\ main = "stop" /\ running' = running \ {"monitor"}
      BY <1>5 DEF StopMonitor, lockVars, workVars
    <2>2. main' # "scan" /\ (main' # "checkpoint" => "monitor" \notin running)
      BY <1>5 DEF StopMonitor, GoOn
    <2>3. StopInv'
      BY <2>1 DEF StopInv
    <2> QED BY <2>1, <2>2, <2>3, MainClean DEF HandlerWhole
  <1>6. CASE Checkpoint
    <2>1. UNCHANGED <<pc, lock, interrupted, running>> /\ main = "checkpoint" /\ lock = Nobody
          /\ main' = "stop_observer"
      BY <1>6 DEF Checkpoint, lockVars, workVars
    <2>2. \A t \in Scanners : pc[t] # "scan"
      BY <2>1 DEF CleanInv, LockInv, Nobody
    <2> QED BY <2>1, <2>2 DEF CleanInv, LockInv, StopInv, QuietInv
  <1>7. CASE StopObserver \/ JoinObserver
    <2>1. /\ UNCHANGED <<pc, lock, interrupted, running, svc>>
          /\ main \in {"stop_observer", "join_observer"} /\ main' \in {"join_observer", "join"}
      BY <1>7 DEF StopObserver, JoinObserver, lockVars, workVars
    <2>2. StopInv'
      BY <2>1 DEF CleanInv, StopInv, PastCheckpoint
    <2> QED BY <2>1, <2>2, MainClean DEF HandlerWhole
  <1>8. ASSUME UNCHANGED <<mainVars, running, interrupted, lock>>,
               \A t \in Scanners : pc'[t] # "scan" \/ pc'[t] = pc[t]
        PROVE  CleanInv'
    <2>1. LockInv'
      BY <1>8 DEF CleanInv, LockInv, mainVars
    <2> QED BY <1>8, <2>1, OthersClean
  <1>9. CASE PollingWakes \/ FileModified \/ ObserverEnds
    <2>1. UNCHANGED <<mainVars, running, interrupted, lock>>
      BY <1>9 DEF PollingWakes, FileModified, ObserverEnds, lockVars
    <2>2. PICK w \in Scanners, p \in {"lock", "dead"} : pc' = [pc EXCEPT ![w] = p]
      BY <1>9 DEF PollingWakes, FileModified, ObserverEnds
    <2>3. \A t \in Scanners : pc'[t] # "scan" \/ pc'[t] = pc[t]
      BY <2>2 DEF TypeOK
    <2> QED BY <1>8, <2>1, <2>3
  <1>10. ASSUME NEW t \in Scanners, EnterScan(t)
         PROVE  CleanInv'
    <2>1. UNCHANGED <<mainVars, running, interrupted>> /\ lock = Nobody
      BY <1>10 DEF EnterScan
    <2>2. main # "scan" /\ \A u \in Scanners : pc[u] # "scan"
      BY <2>1 DEF CleanInv, LockInv, Nobody
    <2>3. CASE "monitor" \in running /\ settings = "on"
      <3>1. pc' = [pc EXCEPT ![t] = "scan"] /\ lock' = t
        BY <1>10, <2>3 DEF EnterScan
      <3>2. \A u \in Scanners : pc'[u] = "scan" => u = t
        BY <2>2, <3>1 DEF TypeOK
      <3>3. LockInv'
        BY <2>1, <2>2, <3>1, <3>2 DEF LockInv, mainVars
      <3> QED BY <2>1, <2>3, <3>3, OthersClean
    <2>4. CASE ~("monitor" \in running /\ settings = "on")
      <3>1. pc' = [pc EXCEPT ![t] = "loop"] /\ lock' = lock
        BY <1>10, <2>4 DEF EnterScan
      <3>2. \A u \in Scanners : pc'[u] # "scan" \/ pc'[u] = pc[u]
        BY <3>1 DEF TypeOK
      <3> QED BY <1>8, <2>1, <3>1, <3>2
    <2> QED BY <2>3, <2>4
  <1>11. ASSUME NEW t \in Scanners, EndScan(t)
         PROVE  CleanInv'
    <2>1. UNCHANGED <<mainVars, running, interrupted>> /\ pc' = [pc EXCEPT ![t] = "loop"]
      BY <1>11 DEF EndScan
    <2>2. lock = t /\ pc[t] = "scan"
      BY <1>11 DEF EndScan, CleanInv, LockInv
    <2>3. main # "scan" /\ \A u \in Scanners : pc[u] = "scan" => u = t
      BY <2>2 DEF CleanInv, LockInv
    <2>4. \A u \in Scanners : pc'[u] # "scan"
      BY <2>1, <2>3 DEF TypeOK
    <2>5. LockInv'
      BY <2>1, <2>3, <2>4 DEF LockInv, mainVars
    <2> QED BY <2>1, <2>4, <2>5, OthersClean
  <1>12. ASSUME NEW w \in Workers, WorkerEnds(w) \/ WorkerDies(w)
         PROVE  CleanInv'
    <2>1. UNCHANGED <<mainVars, running, interrupted, lock>> /\ pc' = [pc EXCEPT ![w] = "dead"]
      BY <1>12 DEF WorkerEnds, WorkerDies, lockVars
    <2>2. \A t \in Scanners : pc'[t] # "scan" \/ pc'[t] = pc[t]
      BY <2>1 DEF TypeOK
    <2> QED BY <1>8, <2>1, <2>2
  <1>13. CASE Health
    <2>1. UNCHANGED <<mainVars, running, interrupted, lock>>
      BY <1>13
      DEF Health, HealthWakes, CheckMonitor, PollingCrashed, PollingFine, RestartPolling, ObserverCrashed,
          ObserverFine, NewObserver, ScheduleObserver, ScheduleFails, HeartbeatCrashed, HeartbeatFine,
          RestartHeartbeat, HealthStep, CountMonitorRestart, lockVars
    <2>2. CASE HealthWakes \/ CheckMonitor \/ PollingFine \/ ObserverFine \/ ScheduleFails
               \/ HeartbeatFine \/ PollingCrashed \/ ObserverCrashed \/ HeartbeatCrashed
      BY <1>8, <2>1, <2>2
      DEF HealthWakes, CheckMonitor, PollingFine, ObserverFine, ScheduleFails, HeartbeatFine, HealthStep,
          PollingCrashed, ObserverCrashed, CountMonitorRestart, HeartbeatCrashed, TypeOK
    <2>3. CASE RestartPolling \/ NewObserver \/ ScheduleObserver \/ RestartHeartbeat
      BY <1>8, <2>1, <2>3
      DEF RestartPolling, NewObserver, ScheduleObserver, RestartHeartbeat, TypeOK
    <2> QED BY <1>13, <2>2, <2>3 DEF Health
  <1>14. CASE UNCHANGED vars \/ SettingsChange
    BY <1>8, <1>14 DEF vars, SettingsChange, lockVars, workVars
  <1> QED
    BY <1>1, <1>2, <1>3, <1>4, <1>5, <1>6, <1>7, <1>9, <1>10, <1>11, <1>12, <1>13, <1>14
    DEF Next, Main, Scan

\* After the checkpoint of a graceful shutdown no scan runs, whatever the
\* threads were doing when the signal came.
THEOREM CheckpointIsClean == Spec => []CleanCheckpoint
  <1>1. Init => CleanInv
    <2> SUFFICES ASSUME Init
                 PROVE  CleanInv
      OBVIOUS
    <2>1. \A t \in Scanners : pc[t] = "none"
      BY DEF Init, Workers, Scanners
    <2> QED BY <2>1 DEF Init, CleanInv, LockInv, StopInv, QuietInv
  <1>2. CleanInv => CleanCheckpoint
    BY DEF CleanInv, StopInv, QuietInv, CleanCheckpoint, PastCheckpoint, Stopping
  <1> QED BY <1>1, <1>2, CleanStep, TypeInvariant, PTL DEF Spec

-----------------------------------------------------------------------------
(* No restart during shutdown *)

\* From the handler's second service on, the health monitor is not running.
HealthStopped ==
    main \in Stopping /\ (svc # "health" \/ main = "join") => "health" \notin running

\* While it runs, and until it is joined, its thread is known.
HealthKnown ==
    "health" \in running \/ (main = "join" /\ svc = "health") => "health" \in refs

\* Not running, and joined in time, its thread has ended or never was.
HealthEnded ==
    /\ HandlerWhole /\ ~outlived
    /\ "health" \notin running /\ ~(main = "join" /\ svc = "health")
    => pc["health"] \in {"none", "dead"}

ShutdownInv == HealthStopped /\ HealthKnown /\ HealthEnded

\* Every step leaves a health monitor that was seen to end as it is.
LEMMA ShutdownStep == TypeInv /\ ShutdownInv /\ [Next]_vars => ShutdownInv'
  <1> SUFFICES ASSUME TypeOK, SvcInv, HealthStopped, HealthKnown, HealthEnded, [Next]_vars
               PROVE  HealthStopped' /\ HealthKnown' /\ HealthEnded'
    BY DEF TypeInv, ShutdownInv
  <1> USE DEF Workers, Scanners, Services, Watched
  <1>1. CASE StartupFails \/ StartMonitor \/ EnterFirstScan \/ EndFirstScan \/ ObserverUnavailable
             \/ StartObserver \/ StartPolling \/ AcquireToStart
    <2>1. /\ main' \notin Stopping /\ main' # "join" /\ main # "join"
          /\ interrupted' = interrupted /\ outlived' = outlived
          /\ "health" \in running' <=> "health" \in running
          /\ "health" \in refs' <=> "health" \in refs
      BY <1>1
      DEF StartupFails, StartMonitor, EnterFirstScan, EndFirstScan, ObserverUnavailable,
          StartObserver, StartPolling, AcquireToStart, workVars, Stopping
    <2>2. pc'["health"] = pc["health"]
      BY <1>1
      DEF StartupFails, StartMonitor, EnterFirstScan, EndFirstScan, ObserverUnavailable,
          StartObserver, StartPolling, AcquireToStart, workVars, TypeOK
    <2> QED BY <2>1, <2>2 DEF HealthStopped, HealthKnown, HealthEnded, HandlerWhole
  <1>2. CASE StartWorker
    <2>1. main' \notin Stopping /\ main' # "join" /\ main = "starting" /\ svc # "monitor"
      BY <1>2 DEF StartWorker, SvcInv, Stopping
    <2>2. /\ interrupted' = interrupted /\ outlived' = outlived
          /\ running' = running \cup {svc} /\ refs' = refs \cup {svc}
          /\ pc' = [pc EXCEPT ![svc] = "loop"]
      BY <1>2 DEF StartWorker
    <2>3. svc # "health" => pc'["health"] = pc["health"]
      BY <2>2 DEF TypeOK
    <2> QED BY <2>1, <2>2, <2>3 DEF HealthStopped, HealthKnown, HealthEnded, HandlerWhole
  <1>3. CASE Signal
    <2>1. /\ main' = "stop" /\ svc' = "health" /\ UNCHANGED <<running, pc, refs, outlived>>
      BY <1>3 DEF Signal, workVars
    <2>2. HandlerWhole' => HandlerWhole /\ main # "join"
      BY <1>3 DEF Signal, HandlerWhole, Activity, Starting, Stopping
    <2> QED BY <2>1, <2>2 DEF HealthStopped, HealthKnown, HealthEnded
  <1>4. CASE AcquireToStop
    <2>1. /\ main = "stop" /\ main' = "stopping" /\ svc' = svc
          /\ UNCHANGED <<running, pc, refs, outlived, interrupted>>
      BY <1>4 DEF AcquireToStop, workVars
    <2> QED BY <2>1 DEF HealthStopped, HealthKnown, HealthEnded, HandlerWhole, Stopping
  <1>5. CASE StopWorker
    <2>1. /\ main = "stopping" /\ running' = running \ {svc}
          /\ UNCHANGED <<pc, refs, outlived, interrupted>>
      BY <1>5 DEF StopWorker, workVars
    <2>2. CASE svc \in running
      <3>1. main' = "join" /\ svc' = svc
        BY <1>5, <2>2 DEF StopWorker
      <3> QED BY <2>1, <2>2, <3>1 DEF HealthStopped, HealthKnown, HealthEnded, HandlerWhole, Stopping
    <2>3. CASE svc \notin running
      <3>1. main' \in {"stop", "exited"}
        BY <1>5, <2>3 DEF StopWorker, GoOn
      <3> QED BY <2>1, <2>3, <3>1 DEF HealthStopped, HealthKnown, HealthEnded, HandlerWhole, Stopping
    <2> QED BY <2>2, <2>3
  <1>6. CASE JoinWorker
    <2>1. /\ main = "join" /\ main' \in {"stop", "exited"}
          /\ UNCHANGED <<running, pc, interrupted>>
      BY <1>6 DEF JoinWorker, GoOn
    <2>2. "health" \notin running
      BY <2>1 DEF HealthStopped, Stopping
    <2>3. CASE svc = "health"
      <3>1. "health" \in refs
        BY <2>1, <2>3 DEF HealthKnown
      <3>2. outlived' = (outlived \/ pc["health"] # "dead")
        BY <1>6, <2>3, <3>1 DEF JoinWorker
      <3> QED BY <2>1, <2>2, <3>2 DEF HealthStopped, HealthKnown, HealthEnded
    <2>4. CASE svc # "health"
      <3>1. ~outlived' => ~outlived
        BY <1>6 DEF JoinWorker
      <3> QED BY <2>1, <2>2, <2>4, <3>1 DEF HealthStopped, HealthKnown, HealthEnded, HandlerWhole
    <2> QED BY <2>3, <2>4
  <1>7. CASE StopMonitor
    <2>1. /\ main = "stop" /\ main' \in {"stop", "exited", "checkpoint"} /\ svc = "monitor"
          /\ "health" \in running' <=> "health" \in running
          /\ UNCHANGED <<pc, refs, outlived, interrupted>>
      BY <1>7 DEF StopMonitor, GoOn, workVars
    <2> QED BY <2>1 DEF HealthStopped, HealthKnown, HealthEnded, HandlerWhole, Stopping
  <1>8. CASE Checkpoint \/ StopObserver \/ JoinObserver
    <2>1. /\ main \in {"checkpoint", "stop_observer", "join_observer"}
          /\ main' \in {"stop_observer", "join_observer", "join"}
          /\ UNCHANGED <<svc, running, pc, outlived, interrupted>>
          /\ "health" \in refs' <=> "health" \in refs
      BY <1>8 DEF Checkpoint, StopObserver, JoinObserver, workVars
    <2>2. svc # "health"
      BY <2>1 DEF SvcInv
    <2> QED BY <2>1, <2>2 DEF HealthStopped, HealthKnown, HealthEnded, HandlerWhole, Stopping
  <1>9. ASSUME UNCHANGED <<mainVars, running, interrupted, outlived>>, refs \subseteq refs',
               pc'["health"] \in {pc["health"], "dead"} \/ pc["health"] \notin {"none", "dead"}
        PROVE  HealthStopped' /\ HealthKnown' /\ HealthEnded'
    BY <1>9 DEF HealthStopped, HealthKnown, HealthEnded, HandlerWhole, mainVars
  <1>10. CASE \/ PollingWakes \/ FileModified \/ ObserverEnds
              \/ \E t \in Scanners : Scan(t)
              \/ \E w \in {"heartbeat", "cleanup"} : WorkerEnds(w)
              \/ \E w \in Watched : WorkerDies(w)
    <2>1. UNCHANGED <<mainVars, running, interrupted, outlived, refs>>
      BY <1>10
      DEF PollingWakes, FileModified, ObserverEnds, Scan, EnterScan, EndScan, WorkerEnds, WorkerDies
    <2>2. PICK w \in Watched \cup {"cleanup"}, q \in Places : pc' = [pc EXCEPT ![w] = q]
      BY <1>10
      DEF PollingWakes, FileModified, ObserverEnds, Scan, EnterScan, EndScan, WorkerEnds, WorkerDies, Places
    <2>3. pc'["health"] = pc["health"]
      BY <2>2 DEF TypeOK
    <2> QED BY <1>9, <2>1, <2>3
  <1>11. CASE Health
    <2>1. UNCHANGED <<mainVars, running, interrupted, outlived>> /\ refs \subseteq refs'
      BY <1>11
      DEF Health, HealthWakes, CheckMonitor, PollingCrashed, PollingFine, RestartPolling, ObserverCrashed,
          ObserverFine, NewObserver, ScheduleObserver, ScheduleFails, HeartbeatCrashed, HeartbeatFine,
          RestartHeartbeat, HealthStep, CountMonitorRestart
    <2>2. pc["health"] \notin {"none", "dead"}
      BY <1>11
      DEF Health, HealthWakes, CheckMonitor, PollingCrashed, PollingFine, RestartPolling, ObserverCrashed,
          ObserverFine, NewObserver, ScheduleObserver, ScheduleFails, HeartbeatCrashed, HeartbeatFine,
          RestartHeartbeat, HealthStep, CountMonitorRestart
    <2> QED BY <1>9, <2>1, <2>2
  <1>12. CASE UNCHANGED vars \/ SettingsChange
    BY <1>9, <1>12 DEF vars, SettingsChange, workVars
  <1> QED
    BY <1>1, <1>2, <1>3, <1>4, <1>5, <1>6, <1>7, <1>8, <1>10, <1>11, <1>12 DEF Next, Main

\* Once the health monitor has been seen to end, the handler meets no worker
\* that comes back to life.
THEOREM NoRestartWhileStopping == Spec => NoRestartDuringShutdown
  <1>1. Init => ShutdownInv
    BY DEF Init, ShutdownInv, HealthStopped, HealthKnown, HealthEnded, Stopping, Workers, Services, Scanners
  <1>2. ASSUME TypeOK, ShutdownInv, [Next]_vars,
               main \in Stopping, svc # "health", HandlerWhole, ~outlived,
               NEW w \in Watched, pc[w] \in {"dead", "new"}
        PROVE  pc'[w] \in {"dead", "new"}
    <2> USE DEF Workers, Scanners, Services, Watched
    <2>1. pc["health"] \in {"none", "dead"}
      BY <1>2 DEF ShutdownInv, HealthStopped, HealthEnded
    <2>2. ~Health
      BY <2>1
      DEF Health, HealthWakes, CheckMonitor, PollingCrashed, PollingFine, RestartPolling, ObserverCrashed,
          ObserverFine, NewObserver, ScheduleObserver, ScheduleFails, HeartbeatCrashed, HeartbeatFine,
          RestartHeartbeat, HealthStep, CountMonitorRestart
    <2>3. Main \/ Signal \/ SettingsChange \/ UNCHANGED vars => pc' = pc
      BY <1>2
      DEF Main, StartupFails, StartMonitor, EnterFirstScan, EndFirstScan, StartObserver, ObserverUnavailable,
          StartPolling, AcquireToStart, StartWorker, AcquireToStop, StopWorker, JoinWorker, StopMonitor,
          Checkpoint, StopObserver, JoinObserver, Signal, SettingsChange, Stopping, workVars, vars
    <2>4. CASE \/ PollingWakes \/ FileModified \/ ObserverEnds
               \/ \E t \in Scanners : Scan(t)
               \/ \E v \in {"heartbeat", "cleanup"} : WorkerEnds(v)
               \/ \E v \in Watched : WorkerDies(v)
      <3>1. PICK v \in Workers, q \in Places :
                pc' = [pc EXCEPT ![v] = q] /\ pc[v] \notin {"dead", "new"}
        BY <2>4
        DEF PollingWakes, FileModified, ObserverEnds, Scan, EnterScan, EndScan, WorkerEnds, WorkerDies, Places
      <3> QED BY <1>2, <3>1 DEF TypeOK
    <2> QED BY <1>2, <2>2, <2>3, <2>4 DEF Next
  <1>3. TypeInv /\ ShutdownInv /\ [Next]_vars =>
            [/\ main \in Stopping /\ svc # "health"
             /\ HandlerWhole /\ ~outlived
             => \A w \in Watched : pc[w] \in {"dead", "new"} => pc'[w] \in {"dead", "new"}]_vars
    BY <1>2 DEF TypeInv
  <1> QED BY <1>1, <1>3, ShutdownStep, TypeInvariant, PTL DEF Spec, NoRestartDuringShutdown
=============================================================================
