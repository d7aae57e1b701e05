--------------------------- MODULE AgentLifecycle ---------------------------
(***************************************************************************)
(* The threads of the agent and how they start, watch each other and stop: *)
(* main and its signal handler, FileMonitorService with its polling thread *)
(* and its watchdog observer, HeartbeatService, CleanupService and         *)
(* HealthMonitorService (src/agent/main.py, src/agent/services/).          *)
(*                                                                         *)
(* What a scan does is module Ingestion; here it is the time during which  *)
(* trigger_scan holds FileMonitorService.lock.  Sleeps take any time.      *)
(*                                                                         *)
(* Signals: Python runs the handler on the main thread, on top of whatever *)
(* main was doing, with the locks that main holds still held.  It never    *)
(* returns there: it ends in sys.exit.  Main may be about to wait for a    *)
(* lock or already waiting: whether a wait can be interrupted differs      *)
(* between platforms, and both outcomes are behaviours of the model.       *)
(***************************************************************************)
EXTENDS Naturals, FiniteSets

CONSTANTS
    MaxRestarts,          \* of HealthMonitorService, per counter
    MaxDeaths,            \* bound: worker threads that die of an exception
    MaxSignals            \* bound: SIGINT and SIGTERM delivered

ASSUME BoundsAssumption ==
    MaxRestarts \in Nat /\ MaxDeaths \in Nat /\ MaxSignals \in Nat

Services == {"monitor", "heartbeat", "cleanup", "health"}
Scanners == {"polling", "observer"}
Workers == Scanners \cup (Services \ {"monitor"})
Watched == {"polling", "observer", "heartbeat"}

VARIABLES
    \* The main thread: what it is doing, and to which service.
    main, svc,
    \* Services whose is_running is set; services other than the monitor whose
    \* own lock main holds; holder of FileMonitorService.lock.
    running, held, lock,
    \* The other threads: where each is, and the fields polling_thread,
    \* observer and thread that refer to one (are not None).
    pc, refs,
    \* observer.stop() was called on the present observer.
    observer_stopped,
    \* What settings_manager.get_settings does at present: it raises, or answers
    \* with EnableLogParser on or off.
    settings,
    \* HealthMonitorService.monitor_restarts and heartbeat_restarts.
    monitor_restarts, heartbeat_restarts,
    \* Bookkeeping, read by properties only: what signals found main doing,
    \* the health monitor's thread outlived its join, restarts of the polling
    \* thread.
    interrupted, outlived, polling_restarts,
    \* Bookkeeping for the bounds.
    deaths, signals

mainVars  == <<main, svc>>
lockVars  == <<held, lock>>
workVars  == <<pc, refs, observer_stopped>>
countVars == <<monitor_restarts, heartbeat_restarts, polling_restarts>>
boundVars == <<deaths, signals>>
vars == <<mainVars, running, lockVars, workVars, countVars, interrupted, outlived,
          settings, boundVars>>

Nobody == "nobody"

Up == main # "exited"

-----------------------------------------------------------------------------
(* main: startup *)

\* A startup check fails (exit codes 1 to 5).
StartupFails ==
    /\ main = "init"
    /\ main' = "exited"
    /\ UNCHANGED <<svc, running, lockVars, workVars, countVars, interrupted, outlived, settings, boundVars>>

\* All checks pass, the services are constructed, monitor.start() begins.
StartMonitor ==
    /\ main = "init"
    /\ main' = "enter"
    /\ running' = running \cup {"monitor"}
    /\ UNCHANGED <<svc, lockVars, workVars, countVars, interrupted, outlived, settings, boundVars>>

\* The initial scan runs on the main thread.
EnterFirstScan ==
    /\ main = "enter" /\ lock = Nobody
    /\ main' = "scan" /\ lock' = "main"
    /\ UNCHANGED <<svc, running, held, workVars, countVars, interrupted, outlived, settings, boundVars>>

EndFirstScan ==
    /\ main = "scan"
    /\ main' = "observe" /\ lock' = Nobody
    /\ UNCHANGED <<svc, running, held, workVars, countVars, interrupted, outlived, settings, boundVars>>

StartObserver ==
    /\ main = "observe"
    /\ main' = "poll"
    /\ pc' = [pc EXCEPT !["observer"] = "loop"]
    /\ refs' = refs \cup {"observer"}
    /\ UNCHANGED <<svc, running, lockVars, observer_stopped, countVars, interrupted, outlived, settings, boundVars>>

\* The observer cannot be started: polling only.
ObserverUnavailable ==
    /\ main = "observe"
    /\ main' = "poll"
    /\ UNCHANGED <<svc, running, lockVars, workVars, countVars, interrupted, outlived, settings, boundVars>>

StartPolling ==
    /\ main = "poll"
    /\ main' = "start" /\ svc' = "heartbeat"
    /\ pc' = [pc EXCEPT !["polling"] = "loop"]
    /\ refs' = refs \cup {"polling"}
    /\ UNCHANGED <<running, lockVars, observer_stopped, countVars, interrupted, outlived, settings, boundVars>>

\* start() of the other services: with self.lock ...
AcquireToStart ==
    /\ main = "start" /\ svc \notin held
    /\ main' = "starting" /\ held' = held \cup {svc}
    /\ UNCHANGED <<svc, running, lock, workVars, countVars, interrupted, outlived, settings, boundVars>>

\* The order in which main starts the services after the monitor.
NextToStart == [heartbeat |-> "cleanup", cleanup |-> "health"]

StartWorker ==
    /\ main = "starting"
    /\ running' = running \cup {svc}
    /\ pc' = [pc EXCEPT ![svc] = "loop"]
    /\ refs' = refs \cup {svc}
    /\ held' = held \ {svc}
    /\ IF svc = "health" THEN main' = "loop" /\ svc' = svc
                         ELSE main' = "start" /\ svc' = NextToStart[svc]
    /\ UNCHANGED <<lock, observer_stopped, countVars, interrupted, outlived, settings, boundVars>>

-----------------------------------------------------------------------------
(* main: handle_shutdown *)

Starting == {"init", "enter", "scan", "observe", "poll", "start", "starting"}
Stopping == {"stop", "stopping", "join", "checkpoint", "stop_observer", "join_observer"}

\* Bookkeeping: what a signal finds main doing.
Activity == CASE main = "scan"              -> "scanning"
              [] main \in Starting \ {"scan"} -> "starting"
              [] main \in Stopping          -> "stopping"
              [] OTHER                      -> "idle"

Signal ==
    /\ Up /\ signals < MaxSignals
    /\ main' = "stop" /\ svc' = "health"
    /\ interrupted' = interrupted \cup {Activity}
    /\ signals' = signals + 1
    /\ UNCHANGED <<running, lockVars, workVars, countVars, outlived, settings, deaths>>

\* The order in which the handler stops the services.
NextToStop(s) == CASE s = "health"    -> "monitor"
                   [] s = "monitor"   -> "heartbeat"
                   [] s = "heartbeat" -> "cleanup"
                   [] s = "cleanup"   -> "exit"

GoOn ==
    IF NextToStop(svc) = "exit"
    THEN main' = "exited" /\ svc' = svc
    ELSE main' = "stop" /\ svc' = NextToStop(svc)

\* stop() of the services other than the monitor: with self.lock ...
AcquireToStop ==
    /\ main = "stop" /\ svc # "monitor" /\ svc \notin held
    /\ main' = "stopping" /\ held' = held \cup {svc}
    /\ UNCHANGED <<svc, running, lock, workVars, countVars, interrupted, outlived, settings, boundVars>>

\* Mutation: the thread is not joined.
StopUnjoined ==
    /\ main = "stopping"
    /\ held' = held \ {svc}
    /\ running' = running \ {svc}
    /\ GoOn
    /\ UNCHANGED <<lock, workVars, countVars, interrupted, outlived, settings, boundVars>>

StopWorker ==
    /\ main = "stopping"
    /\ held' = held \ {svc}
    /\ running' = running \ {svc}
    /\ IF svc \in running THEN main' = "join" /\ svc' = svc ELSE GoOn
    /\ UNCHANGED <<lock, workVars, countVars, interrupted, outlived, settings, boundVars>>

\* thread.join(timeout=3.0); thread = None.  For the monitor, its polling thread.
JoinWorker ==
    LET w == IF svc = "monitor" THEN "polling" ELSE svc IN
    /\ main = "join"
    /\ refs' = refs \ {w}
    /\ outlived' = (outlived \/ (w = "health" /\ w \in refs /\ pc[w] # "dead"))
    /\ GoOn
    /\ UNCHANGED <<running, lockVars, pc, observer_stopped, countVars, interrupted, settings, boundVars>>

\* FileMonitorService.stop: is_running = False ...
StopMonitor ==
    /\ main = "stop" /\ svc = "monitor"
    /\ running' = running \ {"monitor"}
    /\ IF "monitor" \in running THEN main' = "checkpoint" /\ svc' = svc ELSE GoOn
    /\ UNCHANGED <<lockVars, workVars, countVars, interrupted, outlived, settings, boundVars>>

\* Mutation: the threads are joined with the lock held.
CheckpointKeepsLock ==
    /\ main = "checkpoint" /\ lock = Nobody
    /\ main' = "stop_observer" /\ lock' = "main"
    /\ UNCHANGED <<svc, running, held, workVars, countVars, interrupted, outlived, settings, boundVars>>

\* ... with self.lock: wait for the active scan ...
Checkpoint ==
    /\ main = "checkpoint" /\ lock = Nobody
    /\ main' = "stop_observer"
    /\ UNCHANGED <<svc, running, lockVars, workVars, countVars, interrupted, outlived, settings, boundVars>>

\* ... observer.stop() ...
StopObserver ==
    /\ main = "stop_observer"
    /\ main' = IF "observer" \in refs THEN "join_observer" ELSE "join"
    /\ observer_stopped' = ("observer" \in refs \/ observer_stopped)
    /\ UNCHANGED <<svc, running, lockVars, pc, refs, countVars, interrupted, outlived, settings, boundVars>>

\* ... observer.join(), without a timeout, of the observer there is now.
JoinObserver ==
    /\ main = "join_observer" /\ pc["observer"] \in {"dead", "new"}
    /\ main' = "join"
    /\ refs' = refs \ {"observer"}
    /\ UNCHANGED <<svc, running, lockVars, pc, observer_stopped, countVars, interrupted, outlived, settings, boundVars>>

-----------------------------------------------------------------------------
(* FileMonitorService: the polling thread and the observer's callback *)

\* The operator edits the settings, or they cannot be read for a while.
SettingsChange ==
    /\ Up
    /\ settings' \in {"on", "off", "failing"} \ {settings}
    /\ UNCHANGED <<mainVars, running, lockVars, workVars, countVars, interrupted, outlived, boundVars>>

\* _polling_loop: read the interval, sleep, then scan if is_running, else leave
\* the loop.  A round in which the settings cannot be read ends without a scan:
\* the handler sleeps, and the thread is back where it was.
PollingWakes ==
    /\ Up /\ pc["polling"] = "loop"
    /\ settings # "failing" \/ "monitor" \notin running
    /\ pc' = [pc EXCEPT !["polling"] = IF "monitor" \in running THEN "lock" ELSE "dead"]
    /\ UNCHANGED <<mainVars, running, lockVars, refs, observer_stopped, countVars, interrupted, outlived, settings, boundVars>>

\* on_modified: a callback of the observer, which knows only its own stop().
FileModified ==
    /\ Up /\ pc["observer"] = "loop" /\ ~observer_stopped
    /\ pc' = [pc EXCEPT !["observer"] = "lock"]
    /\ UNCHANGED <<mainVars, running, lockVars, refs, observer_stopped, countVars, interrupted, outlived, settings, boundVars>>

ObserverEnds ==
    /\ Up /\ pc["observer"] = "loop" /\ observer_stopped
    /\ pc' = [pc EXCEPT !["observer"] = "dead"]
    /\ UNCHANGED <<mainVars, running, lockVars, refs, observer_stopped, countVars, interrupted, outlived, settings, boundVars>>

\* Mutation: is_running is not asked again under the lock.
EnterScanUnchecked(t) ==
    /\ Up /\ pc[t] = "lock" /\ lock = Nobody
    /\ IF settings = "on"
       THEN pc' = [pc EXCEPT ![t] = "scan"] /\ lock' = t
       ELSE pc' = [pc EXCEPT ![t] = "loop"] /\ lock' = lock
    /\ UNCHANGED <<mainVars, running, held, refs, observer_stopped, countVars, interrupted, outlived, settings, boundVars>>

\* trigger_scan: with self.lock, return unless is_running, or if the settings
\* cannot be read or disable the parser; else scan.
EnterScan(t) ==
    /\ Up /\ pc[t] = "lock" /\ lock = Nobody
    /\ IF "monitor" \in running /\ settings = "on"
       THEN pc' = [pc EXCEPT ![t] = "scan"] /\ lock' = t
       ELSE pc' = [pc EXCEPT ![t] = "loop"] /\ lock' = lock
    /\ UNCHANGED <<mainVars, running, held, refs, observer_stopped, countVars, interrupted, outlived, settings, boundVars>>

\* Mutation: a return path that keeps the lock.
EndScanLocked(t) ==
    /\ Up /\ pc[t] = "scan"
    /\ pc' = [pc EXCEPT ![t] = "loop"]
    /\ UNCHANGED <<mainVars, running, lockVars, refs, observer_stopped, countVars, interrupted, outlived, settings, boundVars>>

\* The scan returns, or raises: trigger_scan catches it.
EndScan(t) ==
    /\ Up /\ pc[t] = "scan"
    /\ pc' = [pc EXCEPT ![t] = "loop"] /\ lock' = Nobody
    /\ UNCHANGED <<mainVars, running, held, refs, observer_stopped, countVars, interrupted, outlived, settings, boundVars>>

\* HeartbeatService._run and CleanupService._run leave their loops.
WorkerEnds(w) ==
    /\ Up /\ pc[w] = "loop" /\ w \notin running
    /\ pc' = [pc EXCEPT ![w] = "dead"]
    /\ UNCHANGED <<mainVars, running, lockVars, refs, observer_stopped, countVars, interrupted, outlived, settings, boundVars>>

\* A watched thread dies of an exception outside its handlers.
WorkerDies(w) ==
    /\ Up /\ pc[w] = "loop" /\ deaths < MaxDeaths
    /\ pc' = [pc EXCEPT ![w] = "dead"]
    /\ deaths' = deaths + 1
    /\ UNCHANGED <<mainVars, running, lockVars, refs, observer_stopped, countVars, interrupted, outlived, settings, signals>>

-----------------------------------------------------------------------------
(* HealthMonitorService._run and _check_services *)

HealthStep(from, to) ==
    /\ Up /\ pc["health"] = from
    /\ pc' = [pc EXCEPT !["health"] = to]
    /\ UNCHANGED <<mainVars, running, lockVars, refs, observer_stopped, countVars, interrupted, outlived, settings, boundVars>>

HealthWakes ==
    HealthStep("loop", IF "health" \in running THEN "check" ELSE "dead")

CheckMonitor ==
    HealthStep("check", IF "monitor" \in running THEN "polling" ELSE "heartbeat")

\* Mutation: only a missing thread is restarted.
Missing(w) == w \in Workers \ refs

\* The field is set, and is_alive() of the thread is false.
Crashed(w) == w \in refs /\ pc[w] \in {"dead", "new"}

\* The check finds w crashed and counts a restart; restarting comes next.
CountMonitorRestart(w, next) ==
    /\ Up /\ pc["health"] = w /\ Crashed(w) /\ monitor_restarts < MaxRestarts
    /\ monitor_restarts' = monitor_restarts + 1
    /\ pc' = [pc EXCEPT !["health"] = next]
    /\ UNCHANGED <<mainVars, running, lockVars, refs, observer_stopped, heartbeat_restarts, polling_restarts, interrupted, outlived, settings, boundVars>>

\* Mutation: the restart beyond the limit.
OneTooMany ==
    /\ Up /\ pc["health"] = "polling" /\ Crashed("polling") /\ monitor_restarts <= MaxRestarts
    /\ monitor_restarts' = monitor_restarts + 1
    /\ pc' = [pc EXCEPT !["health"] = "restart_polling"]
    /\ UNCHANGED <<mainVars, running, lockVars, refs, observer_stopped, heartbeat_restarts, polling_restarts, interrupted, outlived, settings, boundVars>>

PollingCrashed == CountMonitorRestart("polling", "restart_polling")

PollingFine ==
    /\ ~Crashed("polling") \/ monitor_restarts = MaxRestarts
    /\ HealthStep("polling", "observer")

RestartPolling ==
    /\ Up /\ pc["health"] = "restart_polling"
    /\ pc' = [pc EXCEPT !["polling"] = "loop", !["health"] = "observer"]
    /\ refs' = refs \cup {"polling"}
    /\ polling_restarts' = polling_restarts + 1
    /\ UNCHANGED <<mainVars, running, lockVars, observer_stopped, monitor_restarts, heartbeat_restarts, interrupted, outlived, settings, boundVars>>

ObserverCrashed == CountMonitorRestart("observer", "restart_observer")

ObserverFine ==
    /\ ~Crashed("observer") \/ monitor_restarts = MaxRestarts
    /\ HealthStep("observer", "heartbeat")

\* mon.observer = Observer() ...
NewObserver ==
    /\ Up /\ pc["health"] = "restart_observer"
    /\ pc' = [pc EXCEPT !["observer"] = "new", !["health"] = "schedule"]
    /\ refs' = refs \cup {"observer"}
    /\ observer_stopped' = FALSE
    /\ UNCHANGED <<mainVars, running, lockVars, countVars, interrupted, outlived, settings, boundVars>>

\* ... mon.observer.schedule, mon.observer.start ...
ScheduleObserver ==
    /\ Up /\ pc["health"] = "schedule" /\ "observer" \in refs
    /\ pc' = [pc EXCEPT !["observer"] = "loop", !["health"] = "heartbeat"]
    /\ UNCHANGED <<mainVars, running, lockVars, refs, observer_stopped, countVars, interrupted, outlived, settings, boundVars>>

\* ... which raise when the directory is gone, or the observer: the handler in
\* _run ends this pass.
ScheduleFails == HealthStep("schedule", "loop")

HeartbeatCrashed ==
    /\ Up /\ pc["health"] = "heartbeat" /\ "heartbeat" \in running
    /\ Crashed("heartbeat") /\ heartbeat_restarts < MaxRestarts
    /\ heartbeat_restarts' = heartbeat_restarts + 1
    /\ pc' = [pc EXCEPT !["health"] = "restart_heartbeat"]
    /\ UNCHANGED <<mainVars, running, lockVars, refs, observer_stopped, monitor_restarts, polling_restarts, interrupted, outlived, settings, boundVars>>

HeartbeatFine ==
    /\ \/ "heartbeat" \notin running \/ ~Crashed("heartbeat")
       \/ heartbeat_restarts = MaxRestarts
    /\ HealthStep("heartbeat", "loop")

RestartHeartbeat ==
    /\ Up /\ pc["health"] = "restart_heartbeat"
    /\ pc' = [pc EXCEPT !["heartbeat"] = "loop", !["health"] = "loop"]
    /\ refs' = refs \cup {"heartbeat"}
    /\ UNCHANGED <<mainVars, running, lockVars, observer_stopped, countVars, interrupted, outlived, settings, boundVars>>

-----------------------------------------------------------------------------
Init ==
    /\ main = "init" /\ svc = "monitor"
    /\ running = {} /\ held = {} /\ lock = Nobody
    /\ pc = [w \in Workers |-> "none"] /\ refs = {} /\ observer_stopped = FALSE
    /\ monitor_restarts = 0 /\ heartbeat_restarts = 0
    /\ interrupted = {} /\ outlived = FALSE /\ polling_restarts = 0
    /\ settings \in {"on", "off", "failing"}
    /\ deaths = 0 /\ signals = 0

Main ==
    \/ StartupFails \/ StartMonitor \/ EnterFirstScan \/ EndFirstScan
    \/ StartObserver \/ ObserverUnavailable \/ StartPolling
    \/ AcquireToStart \/ StartWorker
    \/ AcquireToStop \/ StopWorker \/ JoinWorker
    \/ StopMonitor \/ Checkpoint \/ StopObserver \/ JoinObserver

Scan(t) == EnterScan(t) \/ EndScan(t)

Health ==
    \/ HealthWakes \/ CheckMonitor
    \/ PollingCrashed \/ PollingFine \/ RestartPolling
    \/ ObserverCrashed \/ ObserverFine \/ NewObserver \/ ScheduleObserver \/ ScheduleFails
    \/ HeartbeatCrashed \/ HeartbeatFine \/ RestartHeartbeat

Next ==
    \/ Main \/ Signal \/ Health
    \/ SettingsChange \/ PollingWakes \/ FileModified \/ ObserverEnds
    \/ \E t \in Scanners : Scan(t)
    \/ \E w \in {"heartbeat", "cleanup"} : WorkerEnds(w)
    \/ \E w \in Watched : WorkerDies(w)

Spec == Init /\ [][Next]_vars

\* Threads run, and a scan ends (Ingestion, ScanEnds).  Neither the lock, nor
\* the file system, nor whoever keeps the settings owes anybody anything.
Fairness ==
    /\ WF_vars(Main) /\ WF_vars(Health)
    /\ WF_vars(PollingWakes) /\ WF_vars(ObserverEnds)
    /\ \A t \in Scanners : WF_vars(Scan(t))
    /\ \A w \in {"heartbeat", "cleanup"} : WF_vars(WorkerEnds(w))

FairSpec == Spec /\ Fairness

-----------------------------------------------------------------------------
(* Properties *)

\* Every variable has its type.
TypeOK ==
    /\ main \in Starting \cup Stopping \cup {"loop", "exited"}
    /\ svc \in Services
    /\ running \subseteq Services /\ held \subseteq Services \ {"monitor"}
    /\ lock \in {Nobody, "main"} \cup Scanners
    /\ pc \in [Workers -> {"none", "loop", "lock", "scan", "dead", "new", "check",
                           "polling", "restart_polling", "observer", "restart_observer",
                           "schedule", "heartbeat", "restart_heartbeat"}]
    /\ refs \subseteq Workers /\ observer_stopped \in BOOLEAN
    /\ monitor_restarts \in 0..MaxRestarts /\ heartbeat_restarts \in 0..MaxRestarts
    /\ polling_restarts \in 0..MaxRestarts
    /\ interrupted \subseteq {"scanning", "starting", "idle", "stopping"}
    /\ outlived \in BOOLEAN
    /\ settings \in {"on", "off", "failing"}
    /\ deaths \in 0..MaxDeaths /\ signals \in 0..MaxSignals

\* The handler is past the lock in FileMonitorService.stop.
PastCheckpoint ==
    \/ main \in {"stop_observer", "join_observer", "exited"}
    \/ main = "join" /\ svc = "monitor"
    \/ main \in {"stop", "stopping", "join"} /\ svc \in {"heartbeat", "cleanup"}

\* No second signal cut a handler short.
HandlerWhole == "stopping" \notin interrupted

\* "No active scans in progress. Clean checkpoint verified." (stop): from then
\* on no thread is in a scan, whatever the polling thread, the observer and a
\* health monitor that restarts them do, and wherever the signal found main.
CleanCheckpoint == PastCheckpoint /\ HandlerWhole => \A t \in Scanners : pc[t] # "scan"

\* Once health_monitor.stop() has seen its thread end, no crashed worker comes
\* back to life (main.py:38).
NoRestartDuringShutdown ==
    [][/\ main \in Stopping /\ svc # "health"
       /\ HandlerWhole /\ ~outlived
       => \A w \in Watched : pc[w] \in {"dead", "new"} => pc'[w] \in {"dead", "new"}]_vars

\* A signal that finds main in its idle loop ends the agent, if the health
\* monitor's thread ends within its join: no lock, no unbounded join, no
\* callback of the observer keeps the handler from finishing.
ShutdownCompletes ==
    (main \in Stopping /\ interrupted = {"idle"}) ~>
        (main = "exited" \/ interrupted # {"idle"} \/ outlived)

Exhausted(w) == IF w = "heartbeat" THEN heartbeat_restarts = MaxRestarts
                                   ELSE monitor_restarts = MaxRestarts

\* No worker stays dead while its counter allows a restart, although a
\* failing restart of the observer ends the health monitor's pass early.
CrashedWorkerRestarted ==
    \A w \in Watched : ~<>[](main = "loop" /\ pc[w] = "dead" /\ ~Exhausted(w))

\* While main idles, the polling thread lives and the settings can be read and
\* enable the parser, scans go on for ever, whatever the thread found before and
\* whoever else takes the lock: what Ingestion's BacklogDrains supposes.
ScanningGoesOn ==
    <>[](main = "loop" /\ pc["polling"] # "dead" /\ settings = "on")
        => []<>(\E t \in Scanners : pc[t] = "scan")

-----------------------------------------------------------------------------
(* What documentation says and the code does not do. *)

\* FileMonitorService.stop "waits for active scans to finish"
\* (file_monitor_service.py:67), and the handler installed for SIGINT and
\* SIGTERM ends the agent.  It does not when the signal comes in the initial
\* scan: the handler runs on top of that scan, on the main thread, and waits for
\* the lock that the scan holds until the handler returns.
ShutdownAlwaysCompletes ==
    (main \in Stopping /\ interrupted = {"scanning"}) ~>
        (main = "exited" \/ interrupted # {"scanning"})

\* README.md:70: "If a worker thread (such as the File Monitor) crashes, the
\* agent will attempt to restart it up to 5 times."  The polling thread and the
\* observer share one counter, so one of them can be given up unrestarted.
RestartedUpToLimit ==
    main = "loop" /\ pc["health"] = "loop" /\ Crashed("polling") /\ monitor_restarts = MaxRestarts
        => polling_restarts = MaxRestarts
=============================================================================
