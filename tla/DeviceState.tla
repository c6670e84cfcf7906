----------------------------- MODULE DeviceState -----------------------------
(***************************************************************************)
(* The part of device_app_t that the device's state machine and its        *)
(* provisioning server share, and the steps of device_app.c both take: the *)
(* credential list in memory and in NVS, the station, the session socket.  *)
(*                                                                         *)
(* One device thread runs everything; pc says how far it has got in a      *)
(* round of device_app_run_step, so that a power failure, the clock and    *)
(* the radio may strike between the steps of a round.  Time is abstracted  *)
(* to what has elapsed: a deadline is off, armed or due.                   *)
(***************************************************************************)
EXTENDS CredList

CONSTANTS
    SsidOf,    \* the SSID of a network: two networks may share one
    NoSsid,    \* the station is not connected, or has no address
    RetryMax,  \* wifi_retry_max
    PinMax,    \* provision_pin_fail_max
    MaxBurst,  \* bound: frames one receive may deliver
    ApIdle     \* provision_ap_idle_timeout_ms > 0

Ssids == {SsidOf[n] : n \in Nets}

ASSUME DeviceAssumption ==
    /\ NoSsid \notin Ssids
    /\ RetryMax \in Nat \ {0}
    /\ PinMax \in Nat \ {0}
    /\ MaxBurst \in Nat
    /\ ApIdle \in BOOLEAN

VARIABLES
    state,        \* app->state, or OFF while the device has no power
    pc,           \* where the device thread is in its round
    creds,        \* app->creds, cred_pass, cred_confirmed, cred_count
    active,       \* app->cred_active, counted from 1
    nvs,          \* the "wifi_creds" blob; the empty list stands for no blob
    sta,          \* SSID the station is connected to with an address
    retry,        \* app->wifi_retry_count
    confirmDl,    \* app->provision_confirm_deadline_ms
    sock,         \* app->sess_sock is open
    ackOk,        \* app->session_ack_ok
    confirmDone,  \* app->cred_confirm_done
    backoff,      \* app->boot_backoff_until > now
    apListen,     \* app->ap_listen is open and the hotspot is on
    apConn,       \* app->ap_conn is open
    authOk,       \* app->provision_auth_ok
    wifiOk,       \* app->provision_wifi_ok
    handoff,      \* app->provision_handoff_deadline_ms
    pinLive,      \* app->ap_pin still holds the PIN
    pinFails,     \* app->ap_pin_fail_count
    rx,           \* frames received and not yet handled
    acked,        \* history: networks over which host_ack ok has arrived
    unsaved,      \* history: NVS failed and the code did not look
    connAuthed    \* history: the client that is connected sent the right PIN

apVars == <<apListen, apConn, authOk, wifiOk, handoff, pinLive, pinFails, rx,
            connAuthed>>
nvsVars == <<nvs, unsaved>>
credVars == <<creds, active, nvsVars>>
sessVars == <<sock, ackOk, confirmDone, acked>>
vars == <<state, pc, sta, retry, confirmDl, backoff, apVars, credVars, sessVars>>

States == {"OFF", "BOOT", "STA_JOIN", "AP_PROVISION", "DISCOVERY", "CONNECT",
           "SESSION", "HEAL"}

\* The states in which the station is joined and the confirm window runs.
Online == {"DISCOVERY", "CONNECT", "SESSION", "HEAL"}

\* The steps of a round: its start, device_creds_reload, and in the
\* provisioning state accept, receive, the frames, and the final checks.
Steps == {"tick", "load", "accept", "recv", "rx", "check"}

Deadlines == {"off", "armed", "due"}

Frames == [cmd : {"auth_ok", "auth_bad", "auth_short", "close_ap"}]
          \cup [cmd : {"wifi_config"}, net : Nets]

TypeOK ==
    /\ state \in States
    /\ pc \in Steps
    /\ creds \in CredLists
    /\ active \in 1..CredMax
    /\ nvs \in CredLists
    /\ sta \in Ssids \cup {NoSsid}
    /\ retry \in 0..(RetryMax - 1)
    /\ confirmDl \in Deadlines
    /\ handoff \in Deadlines
    /\ sock \in BOOLEAN /\ ackOk \in BOOLEAN /\ confirmDone \in BOOLEAN
    /\ backoff \in BOOLEAN /\ unsaved \in BOOLEAN
    /\ connAuthed \in BOOLEAN
    /\ apListen \in BOOLEAN /\ apConn \in BOOLEAN /\ pinLive \in BOOLEAN
    /\ authOk \in BOOLEAN /\ wifiOk \in BOOLEAN
    /\ pinFails \in 0..PinMax
    /\ rx \in Seq(Frames)
    /\ acked \subseteq Nets

-----------------------------------------------------------------------------
\* The list is read from NVS, or cannot be: the device goes on without one.
NvsRead ==
    /\ creds' = nvs
    /\ unsaved' = FALSE
    /\ UNCHANGED nvs

NvsUnreadable ==
    /\ creds' = <<>>
    /\ unsaved' = TRUE
    /\ UNCHANGED nvs

\* The list is written to NVS ...
Saved(list) ==
    /\ nvs' = list
    /\ unsaved' = FALSE

\* ... or the write, or the erasure of the blob, fails and the caller does
\* not look.
Persist(list) ==
    \/ Saved(list)
    \/ unsaved' = TRUE /\ UNCHANGED nvs

\* creds_remove leaves cred_active inside the list.
ActiveAfterRemove(list) == IF active > Len(list) THEN 1 ELSE active

\* creds_clear_all
CredsClearAll ==
    /\ creds' = <<>>
    /\ active' = 1
    /\ Persist(<<>>)

\* wifi_connection_is_valid: an address, and the SSID of the active entry.
WifiValid ==
    /\ active \in 1..Len(creds)
    /\ sta = SsidOf[creds[active].net]

\* ensure_expected_wifi_or_recover, second half: session and discovery end,
\* every credential goes, and the device asks to be provisioned again.  What
\* becomes of the hotspot is the caller's business.
Reprovision ==
    /\ state' = "AP_PROVISION"
    /\ sock' = FALSE
    /\ sta' = NoSsid
    /\ CredsClearAll
    /\ confirmDl' = "off"
    /\ authOk' = FALSE
    /\ wifiOk' = FALSE
    /\ pc' = "tick"
    /\ UNCHANGED <<retry, backoff, ackOk, confirmDone, acked, pinLive,
                   pinFails, rx, connAuthed>>

-----------------------------------------------------------------------------
\* device_creds_reload after the list has been read from NVS: the first
\* unconfirmed entry goes, until none is left ...
RollBackOne ==
    /\ pc = "load"
    /\ \E i \in 1..Len(creds) :
        /\ ~creds[i].ok
        /\ \A j \in 1..(i - 1) : creds[j].ok
        /\ creds' = RemoveAtPos(creds, i)
        /\ active' = ActiveAfterRemove(creds')
    /\ UNCHANGED <<state, pc, sta, retry, confirmDl, backoff, apVars, nvsVars,
                   sessVars>>

\* ... and what is left is saved if anything went.  At power-on the round
\* starts; after a failed wifi_config the station is dropped and the next
\* frame is handled.
ReloadDone ==
    /\ pc = "load"
    /\ AllConfirmed(creds)
    /\ IF creds = nvs THEN UNCHANGED nvsVars ELSE Persist(creds)
    /\ IF state = "AP_PROVISION"
       THEN pc' = "rx" /\ sta' = NoSsid
       ELSE pc' = "tick" /\ UNCHANGED sta
    /\ UNCHANGED <<state, retry, confirmDl, backoff, apVars, creds, active,
                   sessVars>>
=============================================================================
