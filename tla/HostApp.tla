------------------------------- MODULE HostApp ------------------------------
(***************************************************************************)
(* The host's threads and the provisioning of devices (main.cpp,           *)
(* host_app.cpp, host_provision_client.cpp, scenario_runner.cpp).          *)
(*                                                                         *)
(* Five threads use one HostApp: the window's (qt), the host loop (run),   *)
(* the loop that provisions for ever (loop, with --auto-provision), a      *)
(* detached thread per press of the button (job) and the scenario (scn, in *)
(* the simulation).  Whoever holds provision_mutex_ takes the PC's radio   *)
(* from hotspot to hotspot.  Devices answer, refuse, fall silent or leave  *)
(* at any moment; Windows may not disconnect, and may complete attempts    *)
(* that were given up.  The PC has one association at a time.              *)
(***************************************************************************)
EXTENDS Naturals

CONSTANTS
    Devices,   \* SSIDs of devices' hotspots
    Networks,  \* networks a user may choose
    None,      \* no device, no network, no thread
    MaxActions \* bound: actions of a scenario

Workers == {"loop", "job", "scn"}
Stoppers == {"qt", "scn"}

ASSUME HostAppAssumption ==
    /\ None \notin Devices \cup Networks \cup Workers
    /\ Devices \cap Networks = {}
    /\ MaxActions \in Nat

Threads == Workers \cup {"qt", "run"}

VARIABLES
    real, auto,    \* the Windows backend, --auto-provision: fixed
    pc,            \* where each thread is
    stop,          \* HostApp::stop_
    runnerStop,    \* PcScenarioRunner::stop_
    provisioning,  \* main's flag: a job is at work
    joinable,      \* provision_thread_
    actions,       \* actions the scenario has done
    crashed,       \* the process was ended by an exception
    lock,          \* who holds provision_mutex_
    step,          \* where the holder is in ProvisionAllDevices
    todo, dev, ok, \* the SSIDs still to come, the one at work, its result
    target,        \* target_ssid_
    asked,         \* the target of the device at work
    done,          \* provisioned_ssids_
    radio,         \* what the PC is associated with
    late,          \* the associations that were started and given up
    msg,           \* the frame on its way between the PC and dev
    ap,            \* the devices whose hotspot is up
    net,           \* the network each device has accepted last
    why            \* history: how radio came about: it was asked for, it came
                   \* late, or a disconnect was not carried out

threadVars == <<pc, stop, runnerStop, provisioning, joinable, actions, crashed>>
runVars == <<lock, step, todo, dev, ok, target, asked, done>>
airVars == <<radio, late, msg, ap, net, why>>
vars == <<real, auto, threadVars, runVars, airVars>>
ends == <<stop, runnerStop, provisioning, joinable, actions, crashed>>

Init ==
    /\ real \in BOOLEAN /\ auto \in BOOLEAN
    /\ pc = [t \in Threads |->
               CASE t = "qt" -> "exec" [] t = "run" -> "run"
                 [] t = "loop" -> IF auto THEN "idle" ELSE "end"
                 [] t = "job" -> "end"
                 [] t = "scn" -> IF real THEN "end" ELSE "idle"]
    /\ stop = FALSE /\ runnerStop = FALSE /\ provisioning = FALSE
    /\ joinable = auto /\ actions = 0 /\ crashed = FALSE
    /\ lock = None /\ step = "next" /\ todo = {} /\ dev = None /\ ok = FALSE
    /\ target \in Networks \cup {None} /\ asked = None /\ done = {}
    /\ radio \in Networks \cup {None} /\ late = {} /\ msg = "none"
    /\ ap \in SUBSET Devices /\ net = [d \in Devices |-> None]
    /\ why = "asked"

At(t, l) == ~crashed /\ pc[t] = l
Goto(t, l) == pc' = [pc EXCEPT ![t] = l]

-----------------------------------------------------------------------------
(* ProvisionAllDevices *)

\* A scan may miss a hotspot, or show one that is gone.
ScanAps == SUBSET Devices

\* Somebody else is provisioning, or the scan fails: nothing is done.
TryProvision(t) ==
    /\ At(t, "try")
    /\ \/ Goto(t, "back") /\ UNCHANGED <<lock, step, todo>>
       \/ /\ lock = None
          /\ \E found \in ScanAps : todo' = found
          /\ lock' = t /\ step' = "next" /\ Goto(t, "prov")
    /\ UNCHANGED <<real, auto, ends, dev, ok, target, asked, done, airVars>>

\* The next SSID: one that was provisioned before is skipped, whatever has
\* become of the device; without a target, or if the simulated hotspot is not
\* in the catalog, ProvisionDevice fails at once.
NextDevice(t) ==
    /\ At(t, "prov") /\ step = "next" /\ lock = t
    /\ \E d \in todo :
        /\ todo' = todo \ {d}
        /\ \/ UNCHANGED <<step, dev, asked, ok>>
           \/ /\ d \notin done /\ target # None
              /\ dev' = d /\ asked' = target /\ ok' = FALSE /\ step' = "join"
    /\ UNCHANGED <<real, auto, threadVars, lock, target, done, airVars>>

AllDone(t) ==
    /\ At(t, "prov") /\ step = "next" /\ lock = t /\ todo = {}
    /\ lock' = None /\ dev' = None /\ asked' = None /\ Goto(t, "back")
    /\ UNCHANGED <<real, auto, ends, step, todo, ok, target, done, airVars>>

-----------------------------------------------------------------------------
(* ProvisionDevice *)

Working(t, s) == At(t, "prov") /\ step = s /\ lock = t

\* The run goes on with another step and touches nothing else of it.
Step(s) ==
    /\ step' = s
    /\ UNCHANGED <<real, auto, threadVars, lock, todo, dev, target, asked>>

\* What the PC is associated with from now on, and why.
Associated(network, how) == radio' = network /\ why' = how

\* net_wifi_sta_connect of the simulation: a hotspot that is there, or none.
SimJoins ==
    \/ dev \in ap /\ Associated(dev, "asked") /\ Step("dial")
    \/ Associated(None, "asked") /\ Step("next")

\* The end of the association with a network: nobody looks at what
\* WlanDisconnect answers.
WinLeaves(network) ==
    \/ Associated(None, "asked")
    \/ Associated(network, IF network \in Devices THEN "stuck" ELSE "asked")

\* net_wifi_sta_disconnect of the simulation
SimLeaves == Associated(None, "asked")

\* wlan_connect: when no association comes in time the attempt is left as it
\* is, on one interface after the other; an address that does not come ends in
\* a disconnect.
WinJoins ==
    \/ /\ dev \in ap /\ Associated(dev, "asked") /\ late' \in SUBSET late
       /\ Step("dial")
    \/ /\ Associated(None, "asked") \/ UNCHANGED <<radio, why>>
       /\ late' \in SUBSET (late \cup {dev})
       /\ Step("next")
    \/ /\ dev \in ap /\ WinLeaves(dev) /\ late' \in SUBSET late
       /\ Step("next")

Join(t) ==
    /\ Working(t, "join")
    /\ IF real THEN WinJoins ELSE SimJoins /\ UNCHANGED late
    /\ UNCHANGED <<ok, done, msg, ap, net>>

\* The gateway and five attempts at a TCP connection succeed.
Dialled ==
    /\ dev \in ap /\ radio = dev /\ msg' = "open" /\ Step("auth")
    /\ UNCHANGED <<radio, why>>

\* Mutant: a device whose server does not answer is left without a word.
Dial_StaysThere(t) ==
    /\ Working(t, "dial")
    /\ \/ Dialled
       \/ Step("next") /\ UNCHANGED <<msg, radio, why>>
    /\ UNCHANGED <<ok, done, late, ap, net>>

\* The gateway, and the connection; no way back to the target network if they
\* fail.
Dial(t) ==
    /\ Working(t, "dial")
    /\ \/ Dialled
       \/ /\ IF real THEN WinLeaves(radio) ELSE SimLeaves
          /\ msg' = "none" /\ Step("next")
    /\ UNCHANGED <<ok, done, late, ap, net>>

\* auth and wifi_config are sent, or the connection fails.
Request(t, s, frame, wait) ==
    /\ Working(t, s)
    /\ \/ msg # "none" /\ msg' = frame /\ Step(wait)
       \/ UNCHANGED msg /\ Step("back")
    /\ UNCHANGED <<ok, done, radio, late, ap, net, why>>

\* read_frame: a reply, or the time-out.  Only the status is looked at.
AuthReply(t) ==
    /\ Working(t, "auth_wait")
    /\ \/ msg = "auth_ok" /\ Step("config")
       \/ Step("back")
    /\ UNCHANGED <<ok, done, airVars>>

ConfigReply(t) ==
    /\ Working(t, "config_wait")
    /\ \/ msg = "config_ok" /\ ok' = TRUE /\ Step("close")
       \/ UNCHANGED ok /\ Step("back")
    /\ UNCHANGED <<done, airVars>>

\* close_ap is sent once; a failure changes nothing.
CloseAp(t) ==
    /\ Working(t, "close") /\ Step("back")
    /\ msg' \in {msg, "close"}
    /\ UNCHANGED <<ok, done, radio, late, ap, net, why>>

\* wlan_disconnect, then wlan_connect to the target network: the PC is there,
\* or where the disconnect left it, or nowhere.
WinGoesBack ==
    \/ Associated(asked, "asked") /\ late' \in SUBSET late
    \/ WinLeaves(radio) /\ late' \in SUBSET (late \cup {asked})

\* The connection is closed, the hotspot left; with a real radio the PC goes
\* back to the target network, if it can.
Leave(t) ==
    /\ Working(t, "back") /\ Step("next")
    /\ msg' = "none"
    /\ IF real THEN WinGoesBack ELSE SimLeaves /\ UNCHANGED late
    /\ done' = IF ok THEN done \cup {dev} ELSE done
    /\ UNCHANGED <<ok, ap, net>>

Provision(t) ==
    \/ NextDevice(t) \/ AllDone(t) \/ Join(t) \/ Dial(t)
    \/ Request(t, "auth", "auth", "auth_wait") \/ AuthReply(t)
    \/ Request(t, "config", "config", "config_wait") \/ ConfigReply(t)
    \/ CloseAp(t) \/ Leave(t)

-----------------------------------------------------------------------------
(* The devices and the air *)

\* The device's answer to a frame (see DeviceProvision).
Answer ==
    /\ ~crashed /\ dev \in ap /\ radio = dev
    /\ \/ msg = "auth" /\ msg' \in {"auth_ok", "auth_no"} /\ UNCHANGED net
       \/ /\ msg = "config"
          /\ \/ msg' = "config_no" /\ UNCHANGED net
             \/ msg' = "config_ok" /\ net' = [net EXCEPT ![dev] = asked]
    /\ UNCHANGED <<real, auto, threadVars, runVars, radio, late, ap, why>>

\* A hotspot comes up, or goes down: the hand-off, a time-out or a crash.
HotspotTurns ==
    /\ ~crashed
    /\ \E d \in Devices :
        \/ d \notin ap /\ ap' = ap \cup {d} /\ UNCHANGED <<msg, radio, why>>
        \/ /\ d \in ap /\ ap' = ap \ {d}
           /\ msg' = IF d = dev THEN "none" ELSE msg
           /\ IF radio = d THEN Associated(None, "asked") ELSE UNCHANGED <<radio, why>>
    /\ UNCHANGED <<real, auto, threadVars, runVars, late, net>>

\* An association that was given up comes after all.
LateAssociation ==
    /\ ~crashed
    /\ \E s \in late \cap (ap \cup Networks) :
        /\ Associated(s, IF s \in Devices THEN "late" ELSE "asked")
        /\ late' = late \ {s}
    /\ UNCHANGED <<real, auto, threadVars, runVars, msg, ap, net>>

-----------------------------------------------------------------------------
(* The threads *)

\* RequestStop sets stop_ last; another thread may be on its way too.
StopAsked(t) ==
    /\ At(t, "stop") /\ Goto(t, IF stop THEN "stopped" ELSE "teardown")
    /\ UNCHANGED <<real, auto, ends, runVars, airVars>>

\* Mutant: the threads are joined before stop_ is set.
TearDown_JoinsFirst(t) ==
    /\ At(t, "teardown") /\ Goto(t, "joinable")
    /\ UNCHANGED <<real, auto, ends, runVars, airVars>>

\* Bye, the server's and the announcer's stop, mDNS; then stop_.
TearDown(t) ==
    /\ At(t, "teardown") /\ Goto(t, "joinable")
    /\ stop' = TRUE
    /\ UNCHANGED <<real, auto, runnerStop, provisioning, joinable, actions,
                   crashed, runVars, airVars>>

IfJoinable(t) ==
    /\ At(t, "joinable") /\ Goto(t, IF joinable THEN "join" ELSE "stopped")
    /\ UNCHANGED <<real, auto, ends, runVars, airVars>>

\* A thread that was joined meanwhile is not joinable any more: the exception
\* is caught by nobody.
JoinLoop(t) ==
    /\ At(t, "join") /\ pc["loop"] = "end"
    /\ Goto(t, "stopped")
    /\ joinable' = FALSE /\ crashed' = ~joinable
    /\ UNCHANGED <<real, auto, stop, runnerStop, provisioning, actions, runVars,
                   airVars>>

RequestStop(t) == StopAsked(t) \/ TearDown(t) \/ IfJoinable(t) \/ JoinLoop(t)

\* The button, after its question, and the timer of --auto-provision.
Press ==
    /\ At("qt", "exec")
    /\ \/ \E n \in Networks : target' = n
       \/ auto /\ UNCHANGED target
    /\ IF provisioning THEN UNCHANGED <<pc, provisioning>>
       ELSE provisioning' = TRUE /\ Goto("job", "try")
    /\ UNCHANGED <<real, auto, stop, runnerStop, joinable, actions, crashed, lock,
                   step, todo, dev, ok, asked, done, airVars>>

\* The window is closed, by the user or when the duration is over.
CloseWindow ==
    /\ At("qt", "exec") /\ Goto("qt", "wait")
    /\ UNCHANGED <<real, auto, ends, runVars, airVars>>

\* Mutant: the window does not wait for a job.
WaitForJob_Not ==
    /\ At("qt", "wait") /\ Goto("qt", "stop")
    /\ UNCHANGED <<real, auto, ends, runVars, airVars>>

WaitForJob ==
    /\ At("qt", "wait") /\ ~provisioning /\ Goto("qt", "stop")
    /\ UNCHANGED <<real, auto, ends, runVars, airVars>>

\* exec returns, the second RequestStop finds stop_ set, and main ends the
\* scenario.
ExecReturns ==
    /\ At("qt", "stopped") /\ Goto("qt", "join_scn")
    /\ runnerStop' = TRUE
    /\ UNCHANGED <<real, auto, stop, provisioning, joinable, actions, crashed,
                   runVars, airVars>>

\* join of the scenario's and of the host's thread, and delete host
DeleteHost ==
    /\ At("qt", "join_scn") /\ pc["scn"] = "end" /\ pc["run"] = "end"
    /\ Goto("qt", "deleted")
    /\ UNCHANGED <<real, auto, ends, runVars, airVars>>

RunEnds ==
    /\ At("run", "run") /\ stop /\ Goto("run", "end")
    /\ UNCHANGED <<real, auto, ends, runVars, airVars>>

\* The loop of --auto-provision: three seconds between two runs.
LoopTurns ==
    /\ At("loop", "idle") /\ Goto("loop", IF stop THEN "end" ELSE "try")
    /\ UNCHANGED <<real, auto, ends, runVars, airVars>>

LoopBack ==
    /\ At("loop", "back") /\ Goto("loop", "idle")
    /\ UNCHANGED <<real, auto, ends, runVars, airVars>>

\* The detached thread's last act.
JobEnds ==
    /\ At("job", "back") /\ Goto("job", "end") /\ provisioning' = FALSE
    /\ UNCHANGED <<real, auto, stop, runnerStop, joinable, actions, crashed, runVars,
                   airVars>>

\* The scenario's next action, if its event came: auto_provision sets the
\* target first; request_stop does not end the scenario.
ScenarioActs ==
    /\ At("scn", "idle") /\ ~runnerStop /\ actions < MaxActions
    /\ actions' = actions + 1
    /\ \/ Goto("scn", "try") /\ target' \in Networks
       \/ Goto("scn", "stop") /\ UNCHANGED target
    /\ UNCHANGED <<real, auto, stop, runnerStop, provisioning, joinable, crashed,
                   lock, step, todo, dev, ok, asked, done, airVars>>

ScenarioEnds ==
    /\ At("scn", "idle") /\ (runnerStop \/ actions = MaxActions)
    /\ Goto("scn", "end")
    /\ UNCHANGED <<real, auto, ends, runVars, airVars>>

ScenarioBack ==
    /\ (At("scn", "back") \/ At("scn", "stopped"))
    /\ Goto("scn", "idle")
    /\ UNCHANGED <<real, auto, ends, runVars, airVars>>

Worker(t) == TryProvision(t) \/ Provision(t)
Qt == WaitForJob \/ RequestStop("qt") \/ ExecReturns \/ DeleteHost
Scenario == ScenarioEnds \/ ScenarioBack \/ RequestStop("scn")

Next ==
    \/ \E t \in Workers : Worker(t)
    \/ Press \/ CloseWindow \/ Qt
    \/ RunEnds \/ LoopTurns \/ LoopBack \/ JobEnds
    \/ ScenarioActs \/ Scenario
    \/ Answer \/ HotspotTurns \/ LateAssociation

\* Threads run; nothing is assumed of devices, of the air or of the user.
Fairness ==
    /\ \A t \in Workers : WF_vars(Worker(t))
    /\ WF_vars(Qt) /\ WF_vars(Scenario)
    /\ WF_vars(RunEnds) /\ WF_vars(LoopTurns \/ LoopBack) /\ WF_vars(JobEnds)

Spec == Init /\ [][Next]_vars /\ Fairness

-----------------------------------------------------------------------------
(* Properties *)

TypeOK ==
    /\ lock \in Workers \cup {None}
    /\ todo \subseteq Devices /\ done \subseteq Devices /\ ap \subseteq Devices
    /\ dev \in Devices \cup {None}
    /\ {target, asked} \subseteq Networks \cup {None}
    /\ radio \in Devices \cup Networks \cup {None}
    /\ late \subseteq Devices \cup Networks
    /\ why \in {"asked", "late", "stuck"}
    /\ net \in [Devices -> Networks \cup {None}]

\* When main deletes the host (main.cpp, after the joins) no thread is in it:
\* not the job, which nobody joins, not the loop, not the scenario.
DeleteIsSafe ==
    pc["qt"] = "deleted" => \A t \in Threads \ {"qt"} : pc[t] = "end"

\* However ProvisionDevice ends, the PC has left the hotspot when the run is
\* over: in the simulation always, on Windows unless the system completed an
\* association that was given up, or did not carry out the disconnect, which
\* win_backend.cpp does not find out.  And a device counts as provisioned only
\* if it accepted a network.
RunsEndClean ==
    /\ lock = None /\ radio \in Devices => real /\ why \in {"late", "stuck"}
    /\ \A d \in done : net[d] # None

\* Once the window is closed the program ends: every wait of the window, of a
\* join and of the scenario comes to an end, whatever devices do.
StopEnds == pc["qt"] = "wait" ~> (pc["qt"] = "deleted" \/ crashed)
=============================================================================
