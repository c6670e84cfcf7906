--------------------------- MODULE DeviceProvision ---------------------------
(***************************************************************************)
(* The provisioning server (device_provision.c) and the state that runs it *)
(* (sm_ap_provision): the hotspot, one client at a time, PIN and           *)
(* wifi_config, close_ap and the hand-over to discovery.                   *)
(*                                                                         *)
(* The client is open: it may connect, vanish, replace another client and  *)
(* send any frames in any order, up to MaxBurst of them in one receive.    *)
(***************************************************************************)
EXTENDS DeviceState

InAp(step) == state = "AP_PROVISION" /\ pc = step

KeepCreds == UNCHANGED credVars
KeepSession == UNCHANGED sessVars

\* Mutant: the client's socket is forgotten.
ServerStop_KeepsClient ==
    /\ apListen' = FALSE
    /\ handoff' = "off"
    /\ UNCHANGED apConn

\* prov_server_stop
ServerStop ==
    /\ apListen' = FALSE
    /\ apConn' = FALSE
    /\ handoff' = "off"

-----------------------------------------------------------------------------
\* sm_ap_provision while the back-off of a locked hotspot runs.
ApWaitsBackoff ==
    /\ InAp("tick")
    /\ backoff
    /\ ~apListen /\ ~apConn
    /\ state' = "BOOT"
    /\ UNCHANGED <<pc, sta, retry, confirmDl, backoff, apVars>>
    /\ KeepCreds /\ KeepSession

ApStart ==
    /\ InAp("tick")
    /\ ~backoff /\ ~apListen
    /\ apListen' = TRUE
    /\ apConn' = FALSE
    /\ pinLive' = TRUE
    /\ pinFails' = 0
    /\ authOk' = FALSE
    /\ wifiOk' = FALSE
    /\ handoff' = "off"
    /\ pc' = "accept"
    /\ UNCHANGED <<state, sta, retry, confirmDl, backoff, rx, connAuthed>>
    /\ KeepCreds /\ KeepSession

ApStartFails ==
    /\ InAp("tick")
    /\ ~backoff /\ ~apListen
    /\ backoff' = TRUE
    /\ state' = "BOOT"
    /\ UNCHANGED <<pc, sta, retry, confirmDl, apVars>>
    /\ KeepCreds /\ KeepSession

ApPoll ==
    /\ InAp("tick")
    /\ ~backoff /\ apListen
    /\ pc' = "accept"
    /\ UNCHANGED <<state, sta, retry, confirmDl, backoff, apVars>>
    /\ KeepCreds /\ KeepSession

\* Mutant: the new client inherits the authentication of the old one.
AcceptResets_KeepsAuth ==
    /\ apConn' = TRUE
    /\ connAuthed' = FALSE
    /\ UNCHANGED authOk

\* A new client replaces the old one and has to authenticate.
AcceptResets ==
    /\ apConn' = TRUE
    /\ authOk' = FALSE
    /\ connAuthed' = FALSE

ApAccept ==
    /\ InAp("accept")
    /\ AcceptResets
    /\ pc' = "recv"
    /\ UNCHANGED <<state, sta, retry, confirmDl, backoff, apListen, wifiOk,
                   handoff, pinLive, pinFails, rx>>
    /\ KeepCreds /\ KeepSession

ApNoClient ==
    /\ InAp("accept")
    /\ pc' = IF apConn THEN "recv" ELSE "check"
    /\ UNCHANGED <<state, sta, retry, confirmDl, backoff, apVars>>
    /\ KeepCreds /\ KeepSession

\* device_app_handle_rx: what one receive delivers.
Bursts == UNION {[1..n -> Frames] : n \in 0..MaxBurst}

ApReceive ==
    /\ InAp("recv")
    /\ rx' \in Bursts
    /\ pc' = "rx"
    /\ UNCHANGED <<state, sta, retry, confirmDl, backoff, apListen, apConn,
                   authOk, wifiOk, handoff, pinLive, pinFails, connAuthed>>
    /\ KeepCreds /\ KeepSession

\* prov_server_on_conn_closed: the peer closed, or a malformed frame was one
\* too many and the rest of the buffer goes unread.  The PIN lock is looked
\* at here and only here.
ApConnClosed ==
    /\ \/ InAp("recv")
       \/ InAp("rx") /\ rx # <<>>
    /\ rx' = <<>>
    /\ IF pinFails >= PinMax /\ apListen
       THEN ServerStop /\ backoff' = TRUE
       ELSE apConn' = FALSE /\ UNCHANGED <<apListen, handoff, backoff>>
    /\ pc' = "rx"
    /\ UNCHANGED <<state, sta, retry, confirmDl, authOk, wifiOk, pinLive,
                   pinFails, connAuthed>>
    /\ KeepCreds /\ KeepSession

-----------------------------------------------------------------------------
\* prov_server_on_msg takes the next frame; the rest of the buffer is
\* handled whatever this one did to the connection.
Takes(cmd) ==
    /\ InAp("rx")
    /\ rx # <<>>
    /\ Head(rx).cmd = cmd
    /\ rx' = Tail(rx)

\* A frame without effect: auth once more, or wifi_config too early.
FrameIgnored ==
    /\ InAp("rx")
    /\ rx # <<>>
    /\ \/ Head(rx).cmd \in {"auth_ok", "auth_bad", "auth_short"} /\ authOk
       \/ Head(rx).cmd = "wifi_config" /\ ~authOk
    /\ rx' = Tail(rx)
    /\ UNCHANGED <<state, pc, sta, retry, confirmDl, backoff, apListen, apConn,
                   authOk, wifiOk, handoff, pinLive, pinFails, connAuthed>>
    /\ KeepCreds /\ KeepSession

\* The right PIN, once: it is void afterwards.
AuthSucceeds ==
    /\ Takes("auth_ok")
    /\ ~authOk /\ pinLive
    /\ authOk' = TRUE
    /\ connAuthed' = TRUE
    /\ pinLive' = FALSE
    /\ UNCHANGED <<state, pc, sta, retry, confirmDl, backoff, apListen, apConn,
                   wifiOk, handoff, pinFails>>
    /\ KeepCreds /\ KeepSession

\* The count only ever meets the limit: it may stop there.
CountFail == pinFails' = IF pinFails < PinMax THEN pinFails + 1 ELSE pinFails

\* A wrong PIN, or the right one when it is void: counted, and the client
\* is dropped.  A PIN of the wrong length is not counted.
AuthFails ==
    /\ \/ Takes("auth_ok") /\ ~pinLive /\ CountFail
       \/ Takes("auth_bad") /\ CountFail
       \/ Takes("auth_short") /\ UNCHANGED pinFails
    /\ ~authOk
    /\ apConn' = FALSE
    /\ UNCHANGED <<state, pc, sta, retry, confirmDl, backoff, apListen, authOk,
                   wifiOk, handoff, pinLive, connAuthed>>
    /\ KeepCreds /\ KeepSession

\* wifi_config whose network cannot be joined, or not with the right SSID
\* and an address: a fail reply and nothing else.
ConfigFails ==
    /\ Takes("wifi_config")
    /\ authOk
    /\ sta' \in {sta, NoSsid}
    /\ UNCHANGED <<state, pc, retry, confirmDl, backoff, apListen, apConn,
                   authOk, wifiOk, handoff, pinLive, pinFails, connAuthed>>
    /\ KeepCreds /\ KeepSession

\* The network was joined and the list with the target in front is in NVS.
\* The confirm window and the hand-over grace start.
ConfigSaved ==
    /\ Takes("wifi_config")
    /\ authOk
    /\ LET n == Head(rx).net IN
        /\ sta' = SsidOf[n]
        /\ creds' = PutFirst(creds, n)
    /\ Saved(creds')
    /\ active' = 1
    /\ confirmDl' = "armed"
    /\ wifiOk' = TRUE
    /\ handoff' = "armed"
    /\ UNCHANGED <<state, pc, retry, backoff, apListen, apConn, authOk,
                   pinLive, pinFails, connAuthed>>
    /\ KeepSession

\* The network was joined but NVS refused: the list is read back,
\* and the station is dropped.
ConfigNotSaved ==
    /\ Takes("wifi_config")
    /\ authOk
    /\ active' = 1
    /\ \/ NvsRead /\ pc' = "load" /\ sta' = SsidOf[Head(rx).net]
       \/ NvsUnreadable /\ sta' = NoSsid /\ UNCHANGED pc
    /\ UNCHANGED <<state, retry, confirmDl, backoff, apListen, apConn, authOk,
                   wifiOk, handoff, pinLive, pinFails, connAuthed>>
    /\ KeepSession

CloseAp ==
    /\ Takes("close_ap")
    /\ ServerStop
    /\ UNCHANGED <<state, pc, sta, retry, confirmDl, backoff, authOk, wifiOk,
                   pinLive, pinFails, connAuthed>>
    /\ KeepCreds /\ KeepSession

\* prov_server_poll after the receive: the client was too slow to
\* authenticate, or to send wifi_config.
ApTimeouts ==
    /\ InAp("rx")
    /\ rx = <<>>
    /\ pc' = "check"
    /\ \/ UNCHANGED apConn
       \/ (~authOk \/ ~wifiOk) /\ apConn' = FALSE
    /\ UNCHANGED <<state, sta, retry, confirmDl, backoff, apListen, authOk,
                   wifiOk, handoff, pinLive, pinFails, rx, connAuthed>>
    /\ KeepCreds /\ KeepSession

-----------------------------------------------------------------------------
\* sm_ap_provision after prov_server_poll.
HandoffFires == wifiOk /\ handoff = "due"

ListenLeft == apListen /\ ~HandoffFires

StopIfHandoff ==
    IF HandoffFires THEN ServerStop ELSE UNCHANGED <<apListen, apConn, handoff>>

\* The hotspot is closed before wifi_config: provisioning has failed.
ApClosedEarly ==
    /\ InAp("check")
    /\ ~ListenLeft /\ authOk /\ ~wifiOk
    /\ backoff' = TRUE
    /\ state' = "BOOT"
    /\ pc' = "tick"
    /\ UNCHANGED <<sta, retry, confirmDl, apVars>>
    /\ KeepCreds /\ KeepSession

\* The hotspot is closed and the target network is still there.
ApCompleted ==
    /\ InAp("check")
    /\ ~ListenLeft /\ authOk /\ wifiOk
    /\ WifiValid
    /\ StopIfHandoff
    /\ state' = "DISCOVERY"
    /\ pc' = "tick"
    /\ UNCHANGED <<sta, retry, confirmDl, backoff, authOk, wifiOk, pinLive,
                   pinFails, rx, connAuthed>>
    /\ KeepCreds /\ KeepSession

\* The hotspot is closed and the target network is gone or another one.
ApCompletedWrongWifi ==
    /\ InAp("check")
    /\ ~ListenLeft /\ authOk /\ wifiOk
    /\ ~WifiValid
    /\ StopIfHandoff
    /\ Reprovision

\* The hotspot has been on for provision_ap_idle_timeout_ms.
ApIdleTimeout ==
    /\ InAp("check")
    /\ ApIdle
    /\ ListenLeft
    /\ ServerStop
    /\ backoff' = TRUE
    /\ state' = "BOOT"
    /\ pc' = "tick"
    /\ UNCHANGED <<sta, retry, confirmDl, authOk, wifiOk, pinLive, pinFails, rx,
                   connAuthed>>
    /\ KeepCreds /\ KeepSession

\* Nothing to do: the hotspot stays, or the hand-over stopped it while no
\* client was authenticated.
ApNextRound ==
    /\ InAp("check")
    /\ ListenLeft \/ ~authOk
    /\ StopIfHandoff
    /\ pc' = "tick"
    /\ UNCHANGED <<state, sta, retry, confirmDl, backoff, authOk, wifiOk,
                   pinLive, pinFails, rx, connAuthed>>
    /\ KeepCreds /\ KeepSession

ApTick == ApWaitsBackoff \/ ApStart \/ ApStartFails \/ ApPoll

ApRx == \/ FrameIgnored \/ AuthSucceeds \/ AuthFails \/ ConfigFails
        \/ ConfigSaved \/ ConfigNotSaved \/ CloseAp

ApCheck == \/ ApClosedEarly \/ ApCompleted \/ ApCompletedWrongWifi
           \/ ApIdleTimeout \/ ApNextRound

Provisioning ==
    \/ ApTick \/ ApAccept \/ ApNoClient \/ ApReceive \/ ApConnClosed
    \/ ApRx \/ ApTimeouts \/ ApCheck
=============================================================================
