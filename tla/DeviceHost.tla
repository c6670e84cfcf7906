----------------------------- MODULE DeviceHost -----------------------------
(***************************************************************************)
(* Lifecycle of the device facade (device/src/runtime/device_host.c and    *)
(* device_runner.c).  Two threads share the host: the thread that calls    *)
(* the device_host_* facade (the Qt main thread in app/qt_main.cpp) and    *)
(* the device thread that device_host_start creates (runner_entry).        *)
(*                                                                         *)
(* The granularity is that of the locks: one action is one critical        *)
(* section of state_mutex, stop_mutex or snapshot_mutex, or one store of   *)
(* an unprotected field, so that everything the two threads may interleave *)
(* is a step of its own.  The application core the runner drives is        *)
(* reduced to whether it is in DEV_STATE_SESSION.                          *)
(***************************************************************************)
EXTENDS Naturals

CONSTANTS
    Duration,   \* duration_ms: 0 runs until stopped, otherwise the time limit
    BootTime,   \* monotonic clock when the process starts: time since boot
    MaxTime     \* bound: the clock stops here

ASSUME TimeAssumption ==
    /\ Duration \in Nat
    /\ BootTime \in Nat
    /\ MaxTime \in Nat
    /\ BootTime <= MaxTime

VARIABLES
    hostState,  \* host->state
    startMono,  \* host->start_mono_ms, 0 from calloc until start stores it
    stopFlag,   \* runner->stop_requested
    session,    \* the core is in DEV_STATE_SESSION (device thread only)
    snap,       \* host->snapshot: the two fields the facade reads
    mpc, mst,   \* facade thread: program counter and its local copy of state
    rpc, rst,   \* device thread: program counter and its local copy of state
    scenario,   \* a scenario action request_stop: none, loaded, started, done
    joined,     \* device_host_join has returned DEVICE_OK since start
    now         \* the monotonic clock

vars == <<hostState, startMono, stopFlag, session, snap, mpc, mst, rpc, rst,
          scenario, joined, now>>

HostStates == {"CREATED", "RUNNING", "STOP_REQUESTED", "STOPPED"}

MainSteps == {"idle", "start_mono", "start_running", "start_snap_read",
              "start_snap_write", "stop_flag", "stop_write", "join",
              "join_forever", "destroyed"}

RunnerSteps == {"none", "check", "duration", "scenario", "scenario_flag",
                "scenario_write", "step", "refresh_read", "refresh_write",
                "exit", "leaving", "done"}

\* The device thread no longer dereferences the host.
RunnerGone == rpc \in {"none", "leaving", "done"}

-----------------------------------------------------------------------------
Init ==
    /\ hostState = "CREATED"
    /\ startMono = 0
    /\ stopFlag = FALSE
    /\ session = FALSE
    /\ snap = [host |-> "CREATED", session |-> FALSE]
    /\ mpc = "idle" /\ mst = "CREATED"
    /\ rpc = "none" /\ rst = "CREATED"
    /\ scenario \in {"none", "loaded"}
    /\ joined = FALSE
    /\ now = BootTime

(***************************************************************************)
(* The facade thread.                                                      *)
(***************************************************************************)
MainAt(from, to) == mpc = from /\ mpc' = to

RunnerUnchanged == UNCHANGED <<session, rpc, rst, scenario, now>>

\* device_host_start: only CREATED may start, and the thread is created
\* before start_mono_ms and the state are stored.
StartThread ==
    /\ MainAt("idle", "start_mono")
    /\ hostState = "CREATED"
    /\ rpc' = "check"
    /\ joined' = FALSE
    /\ UNCHANGED <<hostState, startMono, stopFlag, session, snap, mst, rst,
                   scenario, now>>

StartMono ==
    /\ MainAt("start_mono", "start_running")
    /\ startMono' = now
    /\ UNCHANGED <<hostState, stopFlag, snap, mst, joined>>
    /\ RunnerUnchanged

StartRunning ==
    /\ MainAt("start_running", "start_snap_read")
    /\ hostState' = "RUNNING"
    /\ UNCHANGED <<startMono, stopFlag, snap, mst, joined>>
    /\ RunnerUnchanged

\* host_snapshot_update, called by start: state and snapshot have a lock each.
StartSnapRead ==
    /\ MainAt("start_snap_read", "start_snap_write")
    /\ mst' = hostState
    /\ UNCHANGED <<hostState, startMono, stopFlag, snap, joined>>
    /\ RunnerUnchanged

StartSnapWrite ==
    /\ MainAt("start_snap_write", "idle")
    /\ snap' = [host |-> mst, session |-> session]
    /\ UNCHANGED <<hostState, startMono, stopFlag, mst, joined>>
    /\ RunnerUnchanged

\* device_host_request_stop: the state is read under the lock, the lock is
\* released, and only then are the flag and the state written.
StopRead ==
    /\ mpc = "idle"
    /\ mst' = hostState
    /\ mpc' = IF hostState = "RUNNING" THEN "stop_flag" ELSE "idle"
    /\ UNCHANGED <<hostState, startMono, stopFlag, snap, joined>>
    /\ RunnerUnchanged

StopFlag ==
    /\ MainAt("stop_flag", "stop_write")
    /\ stopFlag' = TRUE
    /\ UNCHANGED <<hostState, startMono, snap, mst, joined>>
    /\ RunnerUnchanged

StopWrite ==
    /\ MainAt("stop_write", "idle")
    /\ hostState' = "STOP_REQUESTED"
    /\ UNCHANGED <<startMono, stopFlag, snap, mst, joined>>
    /\ RunnerUnchanged

\* device_host_join: CREATED and STOPPED return at once, without the thread.
JoinRead ==
    /\ mpc = "idle"
    /\ IF hostState \in {"CREATED", "STOPPED"}
       THEN mpc' = "idle" /\ joined' = TRUE
       ELSE mpc' \in {"join", "join_forever"} /\ UNCHANGED joined
    /\ UNCHANGED <<hostState, startMono, stopFlag, snap, mst>>
    /\ RunnerUnchanged

JoinReturns ==
    /\ mpc \in {"join", "join_forever"} /\ mpc' = "idle"
    /\ rpc = "done"
    /\ joined' = TRUE
    /\ UNCHANGED <<hostState, startMono, stopFlag, snap, mst>>
    /\ RunnerUnchanged

\* Mutant.
JoinTimeout_ReportsOk ==
    /\ MainAt("join", "idle")
    /\ rpc # "done"
    /\ joined' = TRUE
    /\ UNCHANGED <<hostState, startMono, stopFlag, snap, mst>>
    /\ RunnerUnchanged

JoinTimeout ==
    /\ MainAt("join", "idle")
    /\ rpc # "done"
    /\ UNCHANGED <<hostState, startMono, stopFlag, snap, mst, joined>>
    /\ RunnerUnchanged

\* Mutant.
Destroy_WhileStopping ==
    /\ MainAt("idle", "destroyed")
    /\ hostState # "RUNNING"
    /\ UNCHANGED <<hostState, startMono, stopFlag, snap, mst, joined>>
    /\ RunnerUnchanged

\* device_host_destroy: BUSY changes nothing, otherwise the host is freed.
Destroy ==
    /\ MainAt("idle", "destroyed")
    /\ hostState \notin {"RUNNING", "STOP_REQUESTED"}
    /\ UNCHANGED <<hostState, startMono, stopFlag, snap, mst, joined>>
    /\ RunnerUnchanged

Start == StartThread \/ StartMono \/ StartRunning \/ StartSnapRead \/ StartSnapWrite
RequestStop == StopRead \/ StopFlag \/ StopWrite
Join == JoinRead \/ JoinReturns \/ JoinTimeout
Main == Start \/ RequestStop \/ Join \/ Destroy

(***************************************************************************)
(* The device thread: runner_entry.                                        *)
(***************************************************************************)
RunnerAt(from, to) == rpc = from /\ rpc' = to

MainUnchanged == UNCHANGED <<startMono, mpc, mst, joined, now>>

\* Mutant.
RunnerCheckStop_Forgotten ==
    /\ RunnerAt("check", "duration")
    /\ UNCHANGED <<hostState, stopFlag, session, snap, rst, scenario>>
    /\ MainUnchanged

RunnerCheckStop ==
    /\ rpc = "check"
    /\ rpc' = IF stopFlag THEN "exit" ELSE "duration"
    /\ UNCHANGED <<hostState, stopFlag, session, snap, rst, scenario>>
    /\ MainUnchanged

\* The clock never runs behind startMono, so the unsigned difference is exact.
DurationReached == Duration > 0 /\ now - startMono >= Duration

RunnerDuration ==
    /\ rpc = "duration"
    /\ stopFlag' = (stopFlag \/ DurationReached)
    /\ rpc' = IF DurationReached THEN "exit" ELSE "scenario"
    /\ UNCHANGED <<hostState, session, snap, rst, scenario>>
    /\ MainUnchanged

\* scenario_engine_tick: an action is armed by the first tick that sees its
\* event and executed by a later one; the step may also find nothing due.
ScenarioIdle ==
    /\ RunnerAt("scenario", "step")
    /\ scenario' = IF scenario = "loaded" THEN "started" ELSE scenario
    /\ UNCHANGED <<hostState, stopFlag, session, snap, rst>>
    /\ MainUnchanged

\* ACT_REQUEST_STOP calls device_host_request_stop on the device thread.
ScenarioStopRead ==
    /\ rpc = "scenario"
    /\ scenario = "started"
    /\ rst' = hostState
    /\ IF hostState = "RUNNING"
       THEN rpc' = "scenario_flag" /\ UNCHANGED scenario
       ELSE rpc' = "step" /\ scenario' = "done"
    /\ UNCHANGED <<hostState, stopFlag, session, snap>>
    /\ MainUnchanged

ScenarioStopFlag ==
    /\ RunnerAt("scenario_flag", "scenario_write")
    /\ stopFlag' = TRUE
    /\ UNCHANGED <<hostState, session, snap, rst, scenario>>
    /\ MainUnchanged

ScenarioStopWrite ==
    /\ RunnerAt("scenario_write", "step")
    /\ hostState' = "STOP_REQUESTED"
    /\ scenario' = "done"
    /\ UNCHANGED <<stopFlag, session, snap, rst>>
    /\ MainUnchanged

\* device_app_run_step: the core may enter or leave its session.
RunnerStep ==
    /\ RunnerAt("step", "refresh_read")
    /\ session' \in BOOLEAN
    /\ UNCHANGED <<hostState, stopFlag, snap, rst, scenario>>
    /\ MainUnchanged

RunnerRefreshRead ==
    /\ RunnerAt("refresh_read", "refresh_write")
    /\ rst' = hostState
    /\ UNCHANGED <<hostState, stopFlag, session, snap, scenario>>
    /\ MainUnchanged

RunnerRefreshWrite ==
    /\ RunnerAt("refresh_write", "check")
    /\ snap' = [host |-> rst, session |-> session]
    /\ UNCHANGED <<hostState, stopFlag, session, rst, scenario>>
    /\ MainUnchanged

\* Leaving the loop: the state is stored whatever it is by now.
RunnerStopped ==
    /\ RunnerAt("exit", "leaving")
    /\ hostState' = "STOPPED"
    /\ UNCHANGED <<stopFlag, session, snap, rst, scenario>>
    /\ MainUnchanged

\* The platform's thread entry marks the thread done, which wakes the joiner.
ThreadDone ==
    /\ RunnerAt("leaving", "done")
    /\ UNCHANGED <<hostState, stopFlag, session, snap, rst, scenario>>
    /\ MainUnchanged

Scenario == ScenarioIdle \/ ScenarioStopRead \/ ScenarioStopFlag \/ ScenarioStopWrite
Refresh == RunnerRefreshRead \/ RunnerRefreshWrite
Runner == \/ RunnerCheckStop \/ RunnerDuration \/ Scenario \/ RunnerStep
          \/ Refresh \/ RunnerStopped \/ ThreadDone

Tick ==
    /\ now < MaxTime
    /\ now' = now + 1
    /\ UNCHANGED <<hostState, startMono, stopFlag, session, snap, mpc, mst,
                   rpc, rst, scenario, joined>>

Next == Main \/ Runner \/ Tick

Spec == Init /\ [][Next]_vars

(***************************************************************************)
(* Fairness.  The operating system runs the device thread, and a call of   *)
(* the facade that has begun goes on; that the program calls request_stop, *)
(* join or destroy at all is not assumed.                                  *)
(***************************************************************************)
MainBusy == mpc # "idle" /\ (Start \/ RequestStop \/ Join)

FairSpec == Spec /\ WF_vars(Runner) /\ WF_vars(MainBusy)

-----------------------------------------------------------------------------
\* Types of the variables.
TypeOK ==
    /\ hostState \in HostStates
    /\ startMono \in Nat
    /\ stopFlag \in BOOLEAN
    /\ session \in BOOLEAN
    /\ snap \in [host : HostStates, session : BOOLEAN]
    /\ mpc \in MainSteps /\ mst \in HostStates
    /\ rpc \in RunnerSteps /\ rst \in HostStates
    /\ scenario \in {"none", "loaded", "started", "done"}
    /\ joined \in BOOLEAN
    /\ now \in Nat

(***************************************************************************)
(* Once device_host_destroy has freed the host the device thread never     *)
(* touches it again, whatever calls led there (device_host.c:574-642).     *)
(***************************************************************************)
DestroyIsQuiet == mpc = "destroyed" => RunnerGone

(***************************************************************************)
(* After a successful join nothing refreshes the snapshot any more         *)
(* (the contract of join: no snapshot write after it succeeded).           *)
(***************************************************************************)
NoWriteAfterJoin == [][joined /\ joined' => snap' = snap]_vars

(***************************************************************************)
(* STOPPED is never shown while the device thread still works on the host: *)
(* destroy and send_app_data decide on that state alone.                   *)
(***************************************************************************)
StoppedMeansGone == hostState = "STOPPED" => RunnerGone

(***************************************************************************)
(* A stop request that found the host RUNNING ends the thread.             *)
(***************************************************************************)
StopEndsThread == stopFlag ~> rpc = "done"

=============================================================================
