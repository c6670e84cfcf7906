---------------------------- MODULE HostAppProofs ----------------------------
(***************************************************************************)
(* Theorems about HostApp, for any devices, networks and scenarios of any  *)
(* length: nobody is in the host when it is deleted, and provisioning      *)
(* leaves the radio and the list of provisioned devices as they should be. *)
(***************************************************************************)
EXTENDS HostApp, TLAPS

Places ==
    {"exec", "wait", "stop", "teardown", "joinable", "join", "stopped",
     "join_scn", "deleted", "run", "idle", "try", "prov", "back", "end"}
Joins == {"joinable", "join"}
Stopped == {"stopped", "join_scn", "deleted"}

(***************************************************************************)
(* Why deleting is safe.  The window waits for the job, which only it      *)
(* starts.  Whoever sets stop_ goes on to join the loop, and may be the    *)
(* scenario: then the window, which finds stop_ set, does not join the     *)
(* loop itself, but waits for the scenario, which has.                     *)
(***************************************************************************)
ThreadTypes ==
    /\ pc \in [Threads -> Places]
    /\ stop \in BOOLEAN /\ joinable \in BOOLEAN /\ provisioning \in BOOLEAN

JobIsFlagged ==
    /\ provisioning <=> pc["job"] # "end"
    /\ pc["qt"] \notin {"exec", "wait"} => pc["job"] = "end"

StopIsSet ==
    /\ \A t \in Stoppers : pc[t] \in Joins => stop
    /\ pc["qt"] \in Stopped => stop

StopperJoins ==
    /\ ~joinable => pc["loop"] = "end"
    /\ stop /\ (\A t \in Stoppers : pc[t] \notin Joins) => pc["loop"] = "end"

DeletedLast == pc["qt"] = "deleted" => pc["scn"] = "end" /\ pc["run"] = "end"

ThreadInv ==
    ThreadTypes /\ JobIsFlagged /\ StopIsSet /\ StopperJoins /\ DeletedLast

\* The invariant says what the run checks.
LEMMA ThreadsAreSafe == ThreadInv => DeleteIsSafe
BY DEF ThreadInv, JobIsFlagged, StopIsSet, StopperJoins, DeletedLast,
       DeleteIsSafe, Threads, Workers, Stoppers, Stopped, Joins

\* main.cpp starts the threads.
LEMMA ThreadsStart == Init => ThreadInv
<1> SUFFICES ASSUME Init
             PROVE  ThreadInv
  OBVIOUS
<1>1. /\ pc["qt"] = "exec" /\ pc["run"] = "run" /\ pc["job"] = "end"
      /\ pc["loop"] \in {"idle", "end"} /\ pc["scn"] \in {"idle", "end"}
      /\ ~auto => pc["loop"] = "end"
  BY DEF Init, Threads, Workers
<1>2. pc \in [Threads -> Places]
  <2> DEFINE Place(t) ==
               CASE t = "qt" -> "exec" [] t = "run" -> "run"
                 [] t = "loop" -> IF auto THEN "idle" ELSE "end"
                 [] t = "job" -> "end"
                 [] t = "scn" -> IF real THEN "end" ELSE "idle"
  <2>1. pc = [t \in Threads |-> Place(t)]
    BY DEF Init
  <2>2. \A t \in Threads : Place(t) \in Places
    BY DEF Threads, Workers, Places
  <2> HIDE DEF Place
  <2> QED
    BY <2>1, <2>2
<1>3. joinable = auto /\ auto \in BOOLEAN /\ stop = FALSE /\ provisioning = FALSE
  BY DEF Init
<1> QED
  BY <1>1, <1>2, <1>3
     DEF ThreadInv, ThreadTypes, JobIsFlagged, StopIsSet, StopperJoins,
         DeletedLast, Stoppers, Stopped, Joins

\* A thread that provisions stays in ProvisionAllDevices or returns from it.
LEMMA WorkersMove ==
    ASSUME NEW t \in Workers, Worker(t)
    PROVE  /\ UNCHANGED ends
           /\ \/ UNCHANGED pc
              \/ /\ pc[t] \in {"try", "prov"}
                 /\ \E l \in {"prov", "back"} : pc' = [pc EXCEPT ![t] = l]
<1>1. CASE TryProvision(t)
  BY <1>1 DEF TryProvision, At, Goto
<1>2. CASE AllDone(t)
  BY <1>2 DEF AllDone, At, Goto
<1>3. CASE NextDevice(t) \/ Join(t) \/ Dial(t) \/ CloseAp(t) \/ Leave(t)
  BY <1>3
     DEF NextDevice, Join, SimJoins, WinJoins, Dial, Dialled, CloseAp, Leave,
         Step, threadVars, ends
<1>4. CASE \/ Request(t, "auth", "auth", "auth_wait") \/ AuthReply(t)
           \/ Request(t, "config", "config", "config_wait") \/ ConfigReply(t)
  BY <1>4 DEF Request, AuthReply, ConfigReply, Step, threadVars, ends
<1> QED
  BY <1>1, <1>2, <1>3, <1>4 DEF Worker, Provision

\* Every step of every thread keeps the invariant.
LEMMA ThreadsStep == ThreadInv /\ [Next]_vars => ThreadInv'
<1> SUFFICES ASSUME ThreadInv, [Next]_vars
             PROVE  ThreadInv'
  OBVIOUS
<1> USE DEF ThreadInv, ThreadTypes, JobIsFlagged, StopIsSet, StopperJoins,
            DeletedLast, Stoppers, Stopped, Joins, Places, ends
<1>0. Threads = {"loop", "job", "scn", "qt", "run"}
  BY DEF Threads, Workers
<1>1. ASSUME NEW t \in Workers, Worker(t)
      PROVE  ThreadInv'
  BY <1>0, <1>1, WorkersMove DEF Workers
<1>2. CASE Press
  <2>1. pc["qt"] = "exec" /\ UNCHANGED <<stop, joinable>>
    BY <1>2 DEF Press, At
  <2>2. CASE provisioning /\ UNCHANGED <<pc, provisioning>>
    BY <2>1, <2>2
  <2>3. CASE provisioning' = TRUE /\ pc' = [pc EXCEPT !["job"] = "try"]
    BY <1>0, <2>1, <2>3
  <2> QED
    BY <1>2, <2>2, <2>3 DEF Press, Goto
<1>3. CASE CloseWindow \/ WaitForJob
  BY <1>0, <1>3 DEF CloseWindow, WaitForJob, At, Goto
<1>4. ASSUME NEW t \in Stoppers, RequestStop(t)
      PROVE  ThreadInv'
  <2>1. CASE StopAsked(t)
    BY <1>0, <2>1 DEF StopAsked, At, Goto
  <2>2. CASE TearDown(t)
    BY <1>0, <2>2 DEF TearDown, At, Goto
  <2>3. CASE IfJoinable(t)
    BY <1>0, <2>3 DEF IfJoinable, At, Goto
  <2>4. CASE JoinLoop(t)
    BY <1>0, <2>4 DEF JoinLoop, At, Goto
  <2> QED
    BY <1>4, <2>1, <2>2, <2>3, <2>4 DEF RequestStop
<1>5. CASE ExecReturns \/ DeleteHost
  BY <1>0, <1>5 DEF ExecReturns, DeleteHost, At, Goto
<1>6. CASE RunEnds \/ LoopTurns \/ LoopBack \/ JobEnds
  <2>1. CASE RunEnds
    BY <1>0, <2>1 DEF RunEnds, At, Goto
  <2>2. CASE LoopTurns
    BY <1>0, <2>2 DEF LoopTurns, At, Goto
  <2>3. CASE LoopBack
    BY <1>0, <2>3 DEF LoopBack, At, Goto
  <2>4. CASE JobEnds
    BY <1>0, <2>4 DEF JobEnds, At, Goto
  <2> QED
    BY <1>6, <2>1, <2>2, <2>3, <2>4
<1>7. CASE ScenarioActs \/ ScenarioEnds \/ ScenarioBack
  BY <1>0, <1>7 DEF ScenarioActs, ScenarioEnds, ScenarioBack, At, Goto
<1>8. CASE Answer \/ HotspotTurns \/ LateAssociation \/ UNCHANGED vars
  BY <1>8 DEF Answer, HotspotTurns, LateAssociation, vars, threadVars
<1> QED
  BY <1>1, <1>2, <1>3, <1>4, <1>5, <1>6, <1>7, <1>8
     DEF Next, Qt, Scenario, Stoppers

\* Whoever sets stop_ joins the loop, and the host is deleted after that,
\* whatever the order of the window, the scenario and the job (main.cpp,
\* HostApp::RequestStop).
THEOREM HostThreadInvariant == Spec => []ThreadInv
<1> QED
  BY ThreadsStart, ThreadsStep, PTL DEF Spec

\* main.cpp deletes the host after three joins; the job and the loop have
\* ended by then, too, whichever thread has asked for the stop.
THEOREM HostDeleteIsSafe == Spec => []DeleteIsSafe
<1> QED
  BY HostThreadInvariant, ThreadsAreSafe, PTL

-----------------------------------------------------------------------------
(***************************************************************************)
(* Why a run ends clean.  The PC is on a hotspot only between joining it   *)
(* and leaving it, or because Windows did not do as it was told, and       *)
(* whoever holds the lock leaves the hotspot before he returns.            *)
(* A "config_ok" on its way, or noted in ok, comes from the device at      *)
(* work, and that device has a network from then on.                       *)
(***************************************************************************)
AirTypes ==
    /\ lock \in Workers \cup {None}
    /\ todo \subseteq Devices /\ done \subseteq Devices /\ ap \subseteq Devices
    /\ dev \in Devices \cup {None}
    /\ target \in Networks \cup {None} /\ asked \in Networks \cup {None}
    /\ radio \in Devices \cup Networks \cup {None}
    /\ late \subseteq Devices \cup Networks
    /\ why \in {"asked", "late", "stuck"}
    /\ net \in [Devices -> Networks \cup {None}]
    /\ ok \in BOOLEAN /\ real \in BOOLEAN

RadioIsLeft ==
    /\ lock = None => step = "next"
    /\ radio \in Devices /\ step \in {"next", "join"} => why # "asked"
    /\ ~real => late = {} /\ why = "asked"

AnswerIsOfDev ==
    /\ step \in {"next", "join", "dial"} => msg = "none"
    /\ step # "next" => dev \in Devices /\ asked \in Networks
    /\ msg = "config_ok" => dev \in Devices /\ net[dev] # None
    /\ ok /\ step # "next" => dev \in Devices /\ net[dev] # None

DoneHasNetwork == \A d \in done : net[d] # None

AirInv == AirTypes /\ RadioIsLeft /\ AnswerIsOfDev /\ DoneHasNetwork

\* The invariant says what the run checks.
LEMMA AirIsClean == AirInv => RunsEndClean
BY DEF AirInv, AirTypes, RadioIsLeft, DoneHasNetwork, RunsEndClean

\* At the start the radio is free.
LEMMA AirStarts == Init => AirInv
BY HostAppAssumption
   DEF Init, AirInv, AirTypes, RadioIsLeft, AnswerIsOfDev, DoneHasNetwork

\* ProvisionDevice, on all its ways.
LEMMA ProvisionKeeps ==
    ASSUME AirInv, NEW t \in Workers, Worker(t)
    PROVE  AirInv'
<1> USE HostAppAssumption
    DEF AirInv, AirTypes, RadioIsLeft, AnswerIsOfDev, DoneHasNetwork, Working,
        Step, airVars, Associated, threadVars
<1>1. CASE TryProvision(t)
  BY <1>1 DEF TryProvision, ScanAps
<1>2. CASE NextDevice(t)
  BY <1>2 DEF NextDevice
<1>3. CASE AllDone(t)
  BY <1>3 DEF AllDone
<1>4. CASE Join(t)
  <2>1. /\ step = "join" /\ lock = t /\ UNCHANGED <<ok, done, msg, ap, net>>
        /\ IF real THEN WinJoins ELSE SimJoins /\ UNCHANGED late
    BY <1>4 DEF Join
  <2>2. CASE /\ dev \in ap /\ Associated(dev, "asked") /\ late' \subseteq late
             /\ Step("dial")
    BY <2>1, <2>2
  <2>3. CASE /\ real /\ Step("next") /\ late' \subseteq late \cup {dev}
             /\ Associated(None, "asked") \/ UNCHANGED <<radio, why>>
    BY <2>1, <2>3
  <2>4. CASE /\ real /\ Step("next") /\ dev \in ap /\ late' \subseteq late
             /\ WinLeaves(dev)
    BY <2>1, <2>4 DEF WinLeaves
  <2>5. CASE ~real /\ Associated(None, "asked") /\ Step("next") /\ UNCHANGED late
    BY <2>1, <2>5
  <2> QED
    BY <2>1, <2>2, <2>3, <2>4, <2>5 DEF SimJoins, WinJoins
<1>5. CASE Dial(t)
  BY <1>5 DEF Dial, Dialled, WinLeaves, SimLeaves
<1>6. CASE \/ Request(t, "auth", "auth", "auth_wait")
           \/ Request(t, "config", "config", "config_wait")
  <2>1. CASE Request(t, "auth", "auth", "auth_wait")
    BY <2>1 DEF Request
  <2>2. CASE Request(t, "config", "config", "config_wait")
    BY <2>2 DEF Request
  <2> QED
    BY <1>6, <2>1, <2>2
<1>7. CASE AuthReply(t) \/ ConfigReply(t)
  <2>1. CASE AuthReply(t)
    <3>1. step' \in {"config", "back"} /\ step = "auth_wait" /\ lock = t
      BY <2>1 DEF AuthReply
    <3> QED
      BY <2>1, <3>1 DEF AuthReply
  <2>2. CASE ConfigReply(t)
    <3>1. CASE msg = "config_ok" /\ ok' = TRUE /\ Step("close")
      BY <2>2, <3>1 DEF ConfigReply
    <3>2. CASE UNCHANGED ok /\ Step("back")
      BY <2>2, <3>2 DEF ConfigReply
    <3> QED
      BY <2>2, <3>1, <3>2 DEF ConfigReply
  <2> QED
    BY <1>7, <2>1, <2>2
<1>8. CASE CloseAp(t)
  BY <1>8 DEF CloseAp
<1>9. CASE Leave(t)
  <2>1. /\ step = "back" /\ lock = t /\ Step("next") /\ msg' = "none"
        /\ done' = (IF ok THEN done \cup {dev} ELSE done)
        /\ UNCHANGED <<ok, ap, net>>
    BY <1>9 DEF Leave
  <2>2. /\ late' \subseteq late \cup {asked} /\ (~real => UNCHANGED late)
        /\ radio' \in {asked, None, radio}
        /\ radio' \in Devices => why' = "stuck" /\ real
        /\ why' \in {"asked", "stuck"} /\ (~real => why' = "asked")
    BY <1>9 DEF Leave, WinGoesBack, WinLeaves, SimLeaves
  <2> QED
    BY <2>1, <2>2
<1> QED
  BY <1>1, <1>2, <1>3, <1>4, <1>5, <1>6, <1>7, <1>8, <1>9
     DEF Worker, Provision

\* So do the device, the radio and everything else.
LEMMA AirStep == AirInv /\ [Next]_vars => AirInv'
<1> SUFFICES ASSUME AirInv, [Next]_vars
             PROVE  AirInv'
  OBVIOUS
<1> USE HostAppAssumption
    DEF AirInv, AirTypes, RadioIsLeft, AnswerIsOfDev, DoneHasNetwork
<1>1. CASE Answer
  BY <1>1 DEF Answer, runVars
<1>2. CASE HotspotTurns
  BY <1>2 DEF HotspotTurns, Associated, runVars
<1>3. CASE LateAssociation
  BY <1>3 DEF LateAssociation, Associated, runVars
<1>4. CASE Press
  BY <1>4 DEF Press, airVars
<1>5. CASE ScenarioActs
  BY <1>5 DEF ScenarioActs, airVars
<1>6. CASE UNCHANGED <<real, runVars, airVars>>
  BY <1>6 DEF runVars, airVars
<1>7. CASE \/ CloseWindow \/ Qt \/ RunEnds \/ LoopTurns \/ LoopBack \/ JobEnds
           \/ Scenario \/ UNCHANGED vars
  BY <1>6, <1>7
     DEF CloseWindow, Qt, WaitForJob, RequestStop, StopAsked, TearDown,
         IfJoinable, JoinLoop, ExecReturns, DeleteHost, RunEnds, LoopTurns,
         LoopBack, JobEnds, Scenario, ScenarioEnds, ScenarioBack, vars
<1> QED
  BY <1>1, <1>2, <1>3, <1>4, <1>5, <1>7, ProvisionKeeps DEF Next

\* The PC is on a hotspot only while someone provisions, or because Windows put
\* or left it there against its orders (wlan_connect, wlan_disconnect); and an
\* answer "config_ok" is that of the device at work, which has a network
\* (HostApp::ProvisionDevice).
THEOREM HostAirInvariant == Spec => []AirInv
<1> QED
  BY AirStarts, AirStep, PTL DEF Spec

\* ProvisionAllDevices and ProvisionDevice, on every way out and whichever call
\* fails: the hotspot is left, unless an association of Windows came late or a
\* WlanDisconnect did nothing, and provisioned_ssids_ names devices that took a
\* network.
THEOREM HostRunsEndClean == Spec => []RunsEndClean
<1> QED
  BY HostAirInvariant, AirIsClean, PTL

\* Type correctness of provisioning (host_app.cpp, host_provision_client.cpp).
THEOREM HostAppTypeOK == Spec => []TypeOK
<1>1. AirInv => TypeOK
  BY DEF AirInv, AirTypes, TypeOK
<1> QED BY <1>1, HostAirInvariant, PTL
=============================================================================
