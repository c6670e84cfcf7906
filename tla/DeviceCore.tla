----------------------------- MODULE DeviceCore -----------------------------
(***************************************************************************)
(* The device's state machine (device_app.c): start-up, joining a stored   *)
(* network with fallback, provisioning, discovery, session and recovery,   *)
(* and what becomes of the WiFi credentials on the way.                    *)
(*                                                                         *)
(* A credential written by wifi_config is unconfirmed until a host         *)
(* acknowledges a session over it; if that does not happen within the      *)
(* confirm window it is rolled back, and it does not survive a restart.    *)
(* How discovery finds a host, and when a reconnect is tried, is left to   *)
(* chance here.                                                            *)
(***************************************************************************)
EXTENDS DeviceProvision

Tick(s) == state = s /\ pc = "tick"

KeepAp == UNCHANGED apVars

Init ==
    /\ state = "OFF" /\ pc = "tick"
    /\ creds = <<>> /\ active = 1 /\ nvs = <<>> /\ unsaved = FALSE
    /\ sta = NoSsid /\ retry = 0 /\ confirmDl = "off" /\ backoff = FALSE
    /\ sock = FALSE /\ ackOk = FALSE /\ confirmDone = FALSE /\ acked = {}
    /\ apListen = FALSE /\ apConn = FALSE /\ authOk = FALSE /\ wifiOk = FALSE
    /\ handoff = "off" /\ pinLive = FALSE /\ pinFails = 0 /\ rx = <<>>
    /\ connAuthed = FALSE

-----------------------------------------------------------------------------
\* device_app_create: everything but NVS starts from zero.
PowerOn ==
    /\ state = "OFF"
    /\ state' = "BOOT"
    /\ \/ NvsRead /\ pc' = "load"
       \/ NvsUnreadable /\ UNCHANGED pc
    /\ UNCHANGED <<active, sta, retry, confirmDl, backoff, apVars,
                   sessVars>>

\* The power fails, or the program is killed, anywhere.
Crash ==
    /\ state # "OFF"
    /\ state' = "OFF" /\ pc' = "tick"
    /\ creds' = <<>> /\ active' = 1
    /\ sta' = NoSsid /\ retry' = 0 /\ confirmDl' = "off" /\ backoff' = FALSE
    /\ sock' = FALSE /\ ackOk' = FALSE /\ confirmDone' = FALSE
    /\ apListen' = FALSE /\ apConn' = FALSE /\ authOk' = FALSE
    /\ wifiOk' = FALSE /\ handoff' = "off" /\ pinLive' = FALSE
    /\ pinFails' = 0 /\ rx' = <<>> /\ connAuthed' = FALSE
    /\ UNCHANGED <<nvsVars, acked>>

\* sm_boot, once the back-off and the start-up delay have passed.
Boot ==
    /\ Tick("BOOT")
    /\ ~backoff
    /\ IF creds # <<>>
       THEN state' = "STA_JOIN" /\ active' = 1
       ELSE state' = "AP_PROVISION" /\ UNCHANGED active
    /\ UNCHANGED <<pc, sta, retry, confirmDl, backoff, creds, nvsVars>>
    /\ KeepAp /\ KeepSession

-----------------------------------------------------------------------------
\* sm_sta_join, once the back-off of the last attempt has passed.
JoinConnected ==
    /\ Tick("STA_JOIN")
    /\ sta' = SsidOf[creds[active].net]
    /\ retry' = 0
    /\ state' = "DISCOVERY"
    /\ UNCHANGED <<pc, confirmDl, backoff>>
    /\ KeepAp /\ KeepCreds /\ KeepSession

\* Mutant: one past the end of the list counts as an entry.
NextCredential_PastEnd ==
    /\ retry' = 0
    /\ IF active <= Len(creds)
       THEN active' = active + 1 /\ UNCHANGED <<creds, nvsVars, state>>
       ELSE CredsClearAll /\ state' = "AP_PROVISION"

\* Mutant: after the last entry the first one is tried again.
NextCredential_StartsOver ==
    /\ retry' = 0
    /\ UNCHANGED <<creds, nvsVars, state>>
    /\ active' = IF active < Len(creds) THEN active + 1 ELSE 1

\* The entry is given up: the next one is tried, and after the last all of
\* them are erased and the hotspot opens.
NextCredential ==
    /\ retry' = 0
    /\ IF active < Len(creds)
       THEN active' = active + 1 /\ UNCHANGED <<creds, nvsVars, state>>
       ELSE CredsClearAll /\ state' = "AP_PROVISION"

\* The password is wrong, or the station came up on another network or
\* without an address.
JoinRefused ==
    /\ Tick("STA_JOIN")
    /\ sta' = NoSsid
    /\ NextCredential
    /\ UNCHANGED <<pc, confirmDl, backoff>>
    /\ KeepAp /\ KeepSession

JoinRetry ==
    /\ Tick("STA_JOIN")
    /\ sta' = NoSsid
    /\ retry + 1 < RetryMax
    /\ retry' = retry + 1
    /\ UNCHANGED <<state, pc, confirmDl, backoff>>
    /\ KeepAp /\ KeepCreds /\ KeepSession

JoinExhausted ==
    /\ Tick("STA_JOIN")
    /\ sta' = NoSsid
    /\ retry + 1 >= RetryMax
    /\ NextCredential
    /\ UNCHANGED <<pc, confirmDl, backoff>>
    /\ KeepAp /\ KeepSession

-----------------------------------------------------------------------------
\* What every online state looks at first: is the station still connected,
\* and where.
WifiLost ==
    /\ state \in Online /\ pc = "tick"
    /\ sta = NoSsid
    /\ sock' = FALSE
    /\ retry' = 0
    /\ state' = "STA_JOIN"
    /\ UNCHANGED <<pc, sta, confirmDl, backoff, ackOk, confirmDone, acked, creds,
                   active, nvsVars>>
    /\ KeepAp

WifiWrong ==
    /\ state \in Online /\ pc = "tick"
    /\ sta # NoSsid /\ ~WifiValid
    /\ Reprovision
    /\ UNCHANGED <<apListen, apConn, handoff>>

\* Mutant: only discovery looks at the window.
WindowPassed_InDiscovery ==
    state = "DISCOVERY" /\ ~creds[active].ok /\ confirmDl = "due"

\* ... and then: has the confirm window passed?
WindowPassed == ~creds[active].ok /\ confirmDl = "due"

OnlineStep(s) == Tick(s) /\ WifiValid /\ ~WindowPassed

\* rollback_unconfirmed_credential
RollBack ==
    /\ state \in Online /\ pc = "tick"
    /\ WifiValid
    /\ WindowPassed
    /\ sock' = FALSE
    /\ sta' = NoSsid
    /\ confirmDl' = "off"
    /\ creds' = RemoveAtPos(creds, active)
    /\ active' = 1
    /\ Persist(creds')
    /\ IF creds' # <<>>
       THEN state' = "STA_JOIN" /\ retry' = 0
       ELSE state' = "AP_PROVISION" /\ UNCHANGED retry
    /\ UNCHANGED <<pc, backoff, ackOk, confirmDone, acked>>
    /\ KeepAp

\* sm_discovery: one of the three stages names a host.
HostFound ==
    /\ OnlineStep("DISCOVERY")
    /\ state' = "CONNECT"
    /\ UNCHANGED <<pc, sta, retry, confirmDl, backoff>>
    /\ KeepAp /\ KeepCreds /\ KeepSession

\* Mutant: a new session begins with the acknowledgement of the last one.
SessionEntered_KeepsAck ==
    /\ state' = "SESSION"
    /\ sock' = TRUE
    /\ confirmDone' = FALSE
    /\ UNCHANGED ackOk

\* device_set_state(SESSION) forgets the acknowledgement of the last session.
SessionEntered ==
    /\ state' = "SESSION"
    /\ sock' = TRUE
    /\ ackOk' = FALSE
    /\ confirmDone' = FALSE

\* session_connect from CONNECT or from HEAL.
Connected ==
    /\ OnlineStep("CONNECT") \/ OnlineStep("HEAL")
    /\ SessionEntered
    /\ UNCHANGED <<pc, sta, retry, confirmDl, backoff, acked>>
    /\ KeepAp /\ KeepCreds

ConnectFails ==
    /\ OnlineStep("CONNECT")
    /\ state' = "HEAL"
    /\ UNCHANGED <<pc, sta, retry, confirmDl, backoff>>
    /\ KeepAp /\ KeepCreds /\ KeepSession

\* sm_heal after reconnect_to_discovery_ms.
BackToDiscovery ==
    /\ OnlineStep("HEAL")
    /\ state' = "DISCOVERY"
    /\ UNCHANGED <<pc, sta, retry, confirmDl, backoff>>
    /\ KeepAp /\ KeepCreds /\ KeepSession

\* session_poll finds the socket gone, or the host silent for too long.
SessionLost ==
    /\ OnlineStep("SESSION")
    /\ sock' = FALSE
    /\ state' = "HEAL"
    /\ UNCHANGED <<pc, sta, retry, confirmDl, backoff, ackOk, confirmDone, acked>>
    /\ KeepAp /\ KeepCreds

\* Mutant: the mark stays in memory although NVS refused it.
ConfirmOnAck_KeepsMark ==
    IF ackOk' /\ ~creds[active].ok /\ ~confirmDone
    THEN /\ creds' = Confirm(creds, active)
         /\ confirmDone' = TRUE
         /\ confirmDl' = "off"
         /\ Saved(creds') \/ UNCHANGED nvsVars
    ELSE UNCHANGED <<creds, nvsVars, confirmDone, confirmDl>>

\* The first acknowledgement of a session confirms the credential it runs
\* on; if NVS refuses, the mark is taken back and tried again next round.
ConfirmOnAck ==
    IF ackOk' /\ ~creds[active].ok /\ ~confirmDone
    THEN \/ /\ creds' = Confirm(creds, active)
            /\ Saved(creds')
            /\ confirmDone' = TRUE
            /\ confirmDl' = "off"
         \/ UNCHANGED <<creds, nvsVars, confirmDone, confirmDl>>
    ELSE UNCHANGED <<creds, nvsVars, confirmDone, confirmDl>>

\* sm_session with an open socket: what the receive delivers may hold
\* host_ack ok, and may end the connection (closed, busy, refused); the
\* round goes on to its end either way.  A weak signal ends it too.
SessionRound ==
    /\ OnlineStep("SESSION")
    /\ sock
    /\ \E ack \in BOOLEAN :
        /\ ackOk' = (ackOk \/ ack)
        /\ acked' = IF ack THEN acked \cup {creds[active].net} ELSE acked
    /\ ConfirmOnAck
    /\ \/ sock' \in BOOLEAN /\ UNCHANGED state
       \/ sock' = FALSE /\ state' = "HEAL"
    /\ UNCHANGED <<pc, sta, retry, backoff, active>>
    /\ KeepAp

-----------------------------------------------------------------------------
\* Time passes and the radio changes.
WindowElapses ==
    /\ confirmDl = "armed"
    /\ confirmDl' = "due"
    /\ UNCHANGED <<state, pc, sta, retry, backoff, apVars, credVars, sessVars>>

HandoffElapses ==
    /\ handoff = "armed"
    /\ handoff' = "due"
    /\ UNCHANGED <<state, pc, sta, retry, confirmDl, backoff, apListen, apConn,
                   authOk, wifiOk, pinLive, pinFails, rx, connAuthed, credVars,
                   sessVars>>

BackoffElapses ==
    /\ backoff
    /\ backoff' = FALSE
    /\ UNCHANGED <<state, pc, sta, retry, confirmDl, apVars, credVars, sessVars>>

\* The access point goes away, or the operating system joins another one.
WifiChanges ==
    /\ state # "OFF"
    /\ sta' \in (Ssids \cup {NoSsid}) \ {sta}
    /\ UNCHANGED <<state, pc, retry, confirmDl, backoff, apVars, credVars,
                   sessVars>>

-----------------------------------------------------------------------------
Joining == JoinConnected \/ JoinRefused \/ JoinRetry \/ JoinExhausted

OnlineNext ==
    \/ WifiLost \/ WifiWrong \/ RollBack \/ HostFound \/ Connected
    \/ ConnectFails \/ BackToDiscovery \/ SessionLost \/ SessionRound

Loading == RollBackOne \/ ReloadDone

Device == Boot \/ Loading \/ Joining \/ Provisioning \/ OnlineNext

Clock == WindowElapses \/ HandoffElapses \/ BackoffElapses

Next == PowerOn \/ Crash \/ Device \/ Clock \/ WifiChanges

Spec == Init /\ [][Next]_vars

\* The device thread runs and time passes: all that is needed is that a
\* device that joins or is online goes on with it, and that the window ends.
\* Power, radio and provisioning client may do as they like.
FairSpec ==
    /\ Spec
    /\ WF_vars(Joining)
    /\ WF_vars(OnlineNext)
    /\ WF_vars(WindowElapses)

-----------------------------------------------------------------------------
\* Joining always uses an entry of the list: sm_sta_join indexes the list
\* without looking at its length, and so do the online states.
JoinUsesACredential ==
    state \in {"STA_JOIN"} \cup Online => active \in 1..Len(creds)

\* No state is left with a socket open: the session socket lives in SESSION
\* only, the hotspot and its client in AP_PROVISION only.
SocketsFollowState ==
    /\ sock => state = "SESSION"
    /\ apListen \/ apConn => state = "AP_PROVISION"

\* A credential is marked confirmed, in memory or in NVS, only if a host
\* acknowledged a session over it.
ConfirmedWasAcked ==
    ConfirmedNets(creds) \cup ConfirmedNets(nvs) \subseteq acked

\* One network takes one place: a credential provisioned again does not push
\* the other one out of the list.
OneEntryPerNetwork == NoDuplicates(creds) /\ NoDuplicates(nvs)

\* Between the steps memory and NVS hold the same list, unless NVS failed
\* where the code does not look at the result.
MemoryMatchesFlash ==
    state # "OFF" /\ pc # "load" /\ ~unsaved => nvs = creds

\* wifi_config takes effect only for the client that sent the right PIN,
\* never for one that replaced it.
OnlyTheAuthenticatedConfigures == authOk /\ apConn => connAuthed

\* The hotspot opens only when no credential is left to try.
HotspotMeansNoCredential ==
    [][state # "AP_PROVISION" /\ state' = "AP_PROVISION" => creds' = <<>>]_vars

\* The station state is always left: every attempt advances the retry count
\* or the entry, and both are bounded.
JoinTerminates == state = "STA_JOIN" ~> state # "STA_JOIN"

\* An unconfirmed credential with a running window is not used for ever: it
\* is confirmed, or the device stops using it.
WindowIsEnforced ==
    state \in Online /\ WifiValid /\ ~creds[active].ok /\ confirmDl # "off"
        ~> state \notin Online \/ creds[active].ok

\* What a comment and the process description say and the code does not do:
\* after the last permitted wrong PIN the hotspot is closed in that round.
PinLocksHotspot == InAp("tick") /\ pinFails >= PinMax => ~apListen
=============================================================================
