------------------------------- MODULE Recovery -------------------------------
(***************************************************************************)
(* How a device finds a host and comes back to it: discovery in three      *)
(* stages (device_discovery.c), the session's start and end                *)
(* (device_session.c), back-off and the candidate list (device_heal.c), as *)
(* sm_discovery, sm_connect, sm_session and sm_heal drive them, against    *)
(* hosts that announce themselves (host_announcer.cpp), answer, are busy,  *)
(* stop, crash and come back (host_app.cpp).                               *)
(*                                                                         *)
(* WiFi is up and its credential confirmed: DeviceCore has that part, and  *)
(* CoreAllows ties the two.  Time is counted in ticks of no stated length, *)
(* each timer as its age, up to MaxAge.                                    *)
(***************************************************************************)
EXTENDS Integers, Sequences

CONSTANTS
    Hosts,       \* the addresses at which a host may run
    Running,     \* those that run when the device is switched on
    NoHost,      \* port = 0: no address
    CandMax,     \* PROTO_CANDIDATE_MAX
    Width,       \* bits of the long that heal_next_backoff_ms shifts
    Base,        \* reconnect_backoff_base_ms
    Cap,         \* reconnect_backoff_cap_ms
    Jitter,      \* reconnect_backoff_jitter_ms
    BusyDelay,   \* busy_backoff_ms
    ToDiscovery, \* reconnect_to_discovery_ms
    Timeout,     \* discovery_candidate_timeout_ms
    Watchdog,    \* watchdog_state_timeout_ms
    MaxAge,      \* bound: an age above every limit stands for all later ones
    Buffer,      \* bound: datagrams the multicast socket holds
    MaxSeq,      \* bound: the last announcement number stands for all later ones
    MaxFaults    \* bound: changes of the hosts and of the network

ASSUME RecoveryAssumption ==
    /\ NoHost \notin Hosts /\ Running \subseteq Hosts
    /\ CandMax \in Nat \ {0}
    /\ Width \in Nat \ {0}
    /\ {Base, Cap, Jitter, BusyDelay, ToDiscovery, Timeout, Watchdog} \subseteq Nat
    /\ MaxAge \in Nat /\ Cap + Jitter <= MaxAge /\ Watchdog < MaxAge
    /\ \A limit \in {BusyDelay, ToDiscovery, Timeout} : limit <= MaxAge
    /\ Buffer \in Nat /\ MaxSeq \in Nat \ {0} /\ MaxFaults \in Nat

VARIABLES
    st,       \* app->state
    age,      \* time since app->state_enter_ms
    healAge,  \* time since app->heal_enter_ms
    polled,   \* a round has run since the last tick
    round,    \* app->discovery_round
    lastSeq,  \* app->last_announce_seq
    joined,   \* app->mcast_sock is open
    chan,     \* datagrams waiting in it
    sessHost, \* app->sess_host
    cands,    \* app->candidate_list, candidate_count
    flash,    \* the "host_candidates" blob
    attempt,  \* app->reconnect_attempt
    busyPending, \* app->busy_pending
    sock,     \* the host app->sess_sock is connected to
    link,     \* that connection: open, closed by the host, or the host gone
    reply,    \* what the host has answered and the device has not read
    ackOk,    \* app->session_ack_ok
    up,       \* each host: down, up, or leaving (host_bye sent, not yet stopped)
    seq,      \* HostAnnouncer::seq_
    busy,     \* hosts that have no place left
    netOk,    \* calls of the network layer succeed
    faults,   \* changes so far
    refused   \* history: the last answer of a host was busy

timers == <<age, healAge>>
disc == <<round, lastSeq, joined, chan>>
memory == <<cands, flash>>
backoff == <<attempt, busyPending>>
session == <<sock, link, reply, ackOk, refused>>
hosts == <<up, seq, busy, netOk, faults>>
device == <<st, timers, disc, sessHost, memory, backoff, session>>
vars == <<device, hosts, polled>>

States == {"STA_JOIN", "DISCOVERY", "CONNECT", "SESSION", "HEAL"}
Datagrams == [cmd : {"announce", "bye"}, seq : 1..MaxSeq, host : Hosts]
Candidates == UNION {[1..n -> Hosts] : n \in 0..CandMax}

TypeOK ==
    /\ st \in States
    /\ age \in 0..MaxAge /\ healAge \in 0..MaxAge /\ polled \in BOOLEAN
    /\ round \in 0..2 /\ lastSeq \in 0..MaxSeq /\ joined \in BOOLEAN
    /\ chan \in Seq(Datagrams) /\ Len(chan) <= Buffer
    /\ sessHost \in Hosts \cup {NoHost} /\ sock \in Hosts \cup {NoHost}
    /\ cands \in Candidates /\ flash \in Candidates
    /\ attempt \in 0..(Width - 1) /\ busyPending \in BOOLEAN
    /\ link \in {"none", "open", "closed", "silent"}
    /\ reply \in {"none", "ok", "busy"}
    /\ ackOk \in BOOLEAN /\ refused \in BOOLEAN
    /\ up \in [Hosts -> {"down", "up", "leaving"}]
    /\ seq \in [Hosts -> 1..MaxSeq]
    /\ busy \subseteq Hosts
    /\ netOk \in BOOLEAN /\ faults \in 0..MaxFaults

Init ==
    /\ st = "STA_JOIN" /\ age = 0 /\ healAge = 0 /\ polled = FALSE
    /\ round = 0 /\ lastSeq = 0 /\ joined = FALSE /\ chan = <<>>
    /\ sessHost = NoHost /\ cands = <<>> /\ flash = <<>>
    /\ attempt = 0 /\ busyPending = FALSE
    /\ sock = NoHost /\ link = "none" /\ reply = "none"
    /\ ackOk = FALSE /\ refused = FALSE
    /\ up = [h \in Hosts |-> IF h \in Running THEN "up" ELSE "down"]
    /\ seq = [h \in Hosts |-> 1]
    /\ busy = {} /\ netOk = TRUE /\ faults = 0

-----------------------------------------------------------------------------
Enter(s) == st' = s /\ age' = 0

\* A TCP connection to the host can be made.
Answers(h) == netOk /\ up[h] # "down"

(* Discovery *)

\* Mutant: the number of the last announcement outlives the search.
DiscoveryStart_KeepsSeq ==
    /\ round' = 0 /\ UNCHANGED <<lastSeq, chan>>
    /\ joined' = (joined \/ netOk)

\* discovery_start: stage one, no announcement seen; the group is joined
\* unless it still is, and joining may fail.  sess_host stays.
DiscoveryStart ==
    /\ round' = 0 /\ lastSeq' = 0
    /\ joined' = (joined \/ netOk)
    /\ UNCHANGED chan

\* sm_sta_join, or the hand-over after provisioning.
StaJoined ==
    /\ st = "STA_JOIN"
    /\ Enter("DISCOVERY") /\ DiscoveryStart
    /\ UNCHANGED <<healAge, sessHost, memory, backoff, session, hosts>>

\* Something was found: the search ends with an address.
Found(h) ==
    /\ sessHost' = h
    /\ Enter("CONNECT")
    /\ UNCHANGED <<healAge, memory, backoff, session, hosts>>

\* Nothing was: stage r is next, unless the watchdog starts over.
NotFound(r) ==
    /\ IF age > Watchdog
       THEN DiscoveryStart /\ age' = 0
       ELSE round' = r /\ UNCHANGED <<lastSeq, joined, chan, age>>
    /\ UNCHANGED <<st, healAge, sessHost, memory, backoff, session, hosts>>

Searching(r) == st = "DISCOVERY" /\ round = r

\* Stage one: mDNS, which may not know a host that is up.
MdnsFinds(h) ==
    /\ Searching(0) /\ up[h] # "down"
    /\ Found(h) /\ UNCHANGED disc

MdnsFails == Searching(0) /\ NotFound(1)

\* Stage two, and nothing to read: after a while stage three.
PollNothing ==
    /\ Searching(1)
    /\ ~joined \/ chan = <<>>
    /\ NotFound(IF ~joined \/ age >= Timeout THEN 2 ELSE 1)

Fresh(d) == d.cmd = "announce" /\ d.seq > lastSeq

Known(d) == IF Fresh(d) THEN d.host ELSE sessHost

\* discovery_handle_udp: an announcement names the host, a host_bye the
\* third stage.
HandleUdp(d) ==
    /\ lastSeq' = IF Fresh(d) THEN d.seq ELSE lastSeq
    /\ round' = IF d.cmd = "bye" THEN 2 ELSE 1

\* Whatever came, the search is over if there is an address, be it the one
\* of an earlier search.
PollDatagram ==
    /\ Searching(1) /\ joined /\ chan # <<>>
    /\ chan' = Tail(chan)
    /\ HandleUdp(Head(chan))
    /\ UNCHANGED joined
    /\ IF Known(Head(chan)) # NoHost THEN Found(Known(Head(chan)))
       ELSE UNCHANGED <<st, timers, sessHost, memory, backoff, session, hosts>>

\* Stage three: the candidates in order, the first that takes a connection.
CandidateFound ==
    /\ Searching(2)
    /\ \E i \in 1..Len(cands) :
        /\ Answers(cands[i])
        /\ \A j \in 1..(i - 1) : ~Answers(cands[j])
        /\ Found(cands[i])
    /\ UNCHANGED disc

NoCandidate ==
    /\ Searching(2)
    /\ \A i \in 1..Len(cands) : ~Answers(cands[i])
    /\ NotFound(1)

Discovery ==
    \/ StaJoined \/ MdnsFails \/ PollNothing \/ PollDatagram
    \/ CandidateFound \/ NoCandidate
    \/ \E h \in Hosts : MdnsFinds(h)

-----------------------------------------------------------------------------
(* The session *)

\* Mutant: the acknowledgement of the last session is still there.
ConnectOk_KeepsAck ==
    /\ Answers(sessHost)
    /\ sock' = sessHost /\ link' = "open" /\ reply' = "none"
    /\ Enter("SESSION")
    /\ UNCHANGED <<ackOk, refused>>

\* session_connect: the connection stands and device_hello is on its way.
\* Entering SESSION forgets the last acknowledgement.
ConnectOk ==
    /\ Answers(sessHost)
    /\ sock' = sessHost /\ link' = "open" /\ reply' = "none"
    /\ ackOk' = FALSE /\ Enter("SESSION")
    /\ UNCHANGED refused

\* heal_on_disconnect: the host goes to the head of the list, unless it is
\* there; the others move down and the last one may fall off.
Remembered(h) ==
    IF cands # <<>> /\ Head(cands) = h THEN cands
    ELSE SubSeq(<<h>> \o cands, 1,
                IF Len(cands) < CandMax THEN Len(cands) + 1 ELSE CandMax)

\* The list is written to NVS, which may fail unnoticed; the count of
\* attempts starts over.
HealOnDisconnect ==
    /\ cands' = Remembered(sessHost)
    /\ flash' \in {flash, cands'}
    /\ attempt' = 0 /\ UNCHANGED busyPending
    /\ Enter("HEAL") /\ healAge' = 0

\* sm_connect
ConnectStep ==
    /\ st = "CONNECT"
    /\ \/ /\ ConnectOk
          /\ UNCHANGED <<healAge, memory, backoff>>
       \/ /\ ~Answers(sessHost)
          /\ HealOnDisconnect /\ UNCHANGED session
    /\ UNCHANGED <<disc, sessHost, hosts>>

\* session_on_msg, host_ack: busy closes the connection, and the round
\* after this one finds it gone.
ReadAnswer ==
    /\ st = "SESSION" /\ sock # NoHost /\ reply # "none"
    /\ reply' = "none"
    /\ IF reply = "ok"
       THEN ackOk' = TRUE /\ refused' = FALSE
            /\ UNCHANGED <<sock, link, busyPending>>
       ELSE sock' = NoHost /\ link' = "none" /\ busyPending' = TRUE
            /\ refused' = TRUE /\ UNCHANGED ackOk
    /\ UNCHANGED <<st, timers, disc, sessHost, memory, attempt, hosts>>

\* The host closed the connection: so does the device, and the round goes on.
ReadClosed ==
    /\ st = "SESSION" /\ sock # NoHost /\ link = "closed" /\ reply = "none"
    /\ sock' = NoHost /\ link' = "none"
    /\ UNCHANGED <<st, timers, disc, sessHost, memory, backoff, reply, ackOk,
                   refused, hosts>>

\* Mutant: a session with a weak signal ends, its socket stays open.
SessionEnds_KeepsSocket ==
    /\ st = "SESSION"
    /\ sock = NoHost \/ ~netOk
    /\ HealOnDisconnect
    /\ UNCHANGED <<disc, sessHost, session, hosts>>

\* session_poll: the socket is gone, or nothing has come for
\* heartbeat_dead_ms.
Lost == sock = NoHost \/ (link = "silent" /\ reply = "none")

\* heal_rssi_poll: the signal has been weak for too long.
Weak == ~netOk

\* sm_session: session_disconnect and on to HEAL.
SessionEnds ==
    /\ st = "SESSION"
    /\ Lost \/ Weak
    /\ sock' = NoHost /\ link' = "none" /\ reply' = "none"
    /\ HealOnDisconnect
    /\ UNCHANGED <<disc, sessHost, ackOk, refused, hosts>>

Session == ConnectStep \/ ReadAnswer \/ ReadClosed \/ SessionEnds

-----------------------------------------------------------------------------
(* Recovery *)

\* The value of (long)Base << n.  Bits that leave the word are lost and the
\* top one is the sign.
Shifted(n) ==
    LET x == (Base * 2^n) % 2^Width IN
    IF x >= 2^(Width - 1) THEN x - 2^Width ELSE x

\* heal_next_backoff_ms with jitter j, without the busy case.
BackoffDelay(n, j) ==
    LET d == (IF Shifted(n) > Cap THEN Cap ELSE Shifted(n)) + j IN
    IF d < 0 THEN Cap ELSE d

Delays == IF busyPending THEN {BusyDelay}
          ELSE {BackoffDelay(attempt, j) : j \in 0..Jitter}

\* The delay is drawn again in every round, and every round counts as an
\* attempt.  A shift by the width or more is undefined; the processors this
\* is built for take the count modulo the width, and so does attempt.
DelayDrawn ==
    /\ attempt' = IF busyPending THEN attempt ELSE (attempt + 1) % Width
    /\ busyPending' = FALSE

\* Mutant: a failed attempt starts the longer timer over as well.
SearchAgain_Never(newAge) ==
    IF healAge >= ToDiscovery /\ newAge > 0
    THEN Enter("DISCOVERY") /\ DiscoveryStart
    ELSE age' = newAge /\ UNCHANGED <<st, disc>>

\* After reconnect_to_discovery_ms the search starts over.
SearchAgain(newAge) ==
    IF healAge >= ToDiscovery
    THEN Enter("DISCOVERY") /\ DiscoveryStart
    ELSE age' = newAge /\ UNCHANGED <<st, disc>>

HealWaits ==
    /\ st = "HEAL"
    /\ \E d \in Delays : age < d
    /\ DelayDrawn
    /\ SearchAgain(age)
    /\ UNCHANGED <<healAge, sessHost, memory, session, hosts>>

HealConnects ==
    /\ st = "HEAL"
    /\ \E d \in Delays : age >= d
    /\ ConnectOk
    /\ attempt' = 0 /\ busyPending' = FALSE
    /\ UNCHANGED <<healAge, disc, sessHost, memory, hosts>>

\* The attempt fails and the delay starts over.
HealFails ==
    /\ st = "HEAL"
    /\ \E d \in Delays : age >= d
    /\ ~Answers(sessHost)
    /\ DelayDrawn
    /\ SearchAgain(0)
    /\ UNCHANGED <<healAge, sessHost, memory, session, hosts>>

Heal == HealWaits \/ HealConnects \/ HealFails

\* The device is switched off and on again: the candidates come from NVS.
Reboot ==
    /\ st # "STA_JOIN"
    /\ faults < MaxFaults /\ faults' = faults + 1
    /\ st' = "STA_JOIN" /\ age' = 0 /\ healAge' = 0
    /\ round' = 0 /\ lastSeq' = 0 /\ joined' = FALSE /\ chan' = <<>>
    /\ sessHost' = NoHost /\ cands' = flash
    /\ attempt' = 0 /\ busyPending' = FALSE
    /\ sock' = NoHost /\ link' = "none" /\ reply' = "none"
    /\ ackOk' = FALSE /\ refused' = FALSE
    /\ UNCHANGED <<flash, up, seq, busy, netOk>>

-----------------------------------------------------------------------------
(* The hosts and the network *)

NextSeq(h) == IF seq[h] < MaxSeq THEN seq[h] + 1 ELSE MaxSeq

\* The datagram reaches a device that listens and has room for it, or not.
Multicast(cmd, h) ==
    /\ seq' = [seq EXCEPT ![h] = NextSeq(h)]
    /\ \/ /\ joined /\ netOk /\ Len(chan) < Buffer
          /\ chan' = Append(chan, [cmd |-> cmd, seq |-> seq[h], host |-> h])
       \/ UNCHANGED chan
    /\ UNCHANGED <<round, lastSeq, joined>>

\* HostAnnouncer::Poll, on the host's loop: it runs on while another thread
\* is in RequestStop, so an announcement may follow host_bye.
Announce(h) ==
    /\ up[h] # "down"
    /\ Multicast("announce", h)
    /\ UNCHANGED <<st, timers, sessHost, memory, backoff, session, up, busy,
                   netOk, faults>>

\* HostAnnouncer::Start, in HostApp::Start: the numbers start over.
HostStarts(h) ==
    /\ up[h] = "down"
    /\ up' = [up EXCEPT ![h] = "up"] /\ seq' = [seq EXCEPT ![h] = 1]
    /\ UNCHANGED <<busy, netOk, session, disc>>

\* RequestStop: host_bye first ...
HostLeaves(h) ==
    /\ up[h] = "up"
    /\ up' = [up EXCEPT ![h] = "leaving"]
    /\ Multicast("bye", h)
    /\ UNCHANGED <<busy, netOk, session>>

\* ForceCrash closes the connections, a power failure does not.
HostDies(h) ==
    /\ up[h] = "up"
    /\ up' = [up EXCEPT ![h] = "down"]
    /\ link' \in IF sock = h THEN {"closed", "silent"} ELSE {link}
    /\ UNCHANGED <<seq, busy, netOk, sock, reply, ackOk, refused, disc>>

\* HostTcpServer: a place is taken or freed by other devices; a connection
\* is closed by the host.
BusyChanges(h) ==
    /\ busy' = IF h \in busy THEN busy \ {h} ELSE busy \cup {h}
    /\ UNCHANGED <<up, seq, netOk, session, disc>>

HostCloses(h) ==
    /\ sock = h /\ link = "open"
    /\ link' = "closed"
    /\ UNCHANGED <<up, seq, busy, netOk, sock, reply, ackOk, refused, disc>>

NetChanges ==
    /\ netOk' = ~netOk
    /\ UNCHANGED <<up, seq, busy, session, disc>>

Disturbance ==
    /\ faults < MaxFaults /\ faults' = faults + 1
    /\ \/ NetChanges
       \/ \E h \in Hosts : \/ HostStarts(h) \/ HostLeaves(h) \/ HostDies(h)
                           \/ BusyChanges(h) \/ HostCloses(h)
    /\ UNCHANGED <<st, timers, sessHost, memory, backoff>>

\* ... and then everything is closed.
HostStops(h) ==
    /\ up[h] = "leaving"
    /\ up' = [up EXCEPT ![h] = "down"]
    /\ link' = IF sock = h /\ link = "open" THEN "closed" ELSE link
    /\ UNCHANGED <<st, timers, disc, sessHost, memory, backoff, sock, reply,
                   ackOk, refused, seq, busy, netOk, faults>>

\* HostTcpServer::OnDeviceHello: acknowledged, or busy.
HostAnswers(h) ==
    /\ sock = h /\ link = "open" /\ netOk /\ up[h] # "down"
    /\ reply = "none" /\ ~ackOk
    /\ reply' = IF h \in busy THEN "busy" ELSE "ok"
    /\ UNCHANGED <<st, timers, disc, sessHost, memory, backoff, sock, link,
                   ackOk, refused, hosts>>

\* Time passes where a timer is looked at; a tick is longer than a round.
Tick ==
    /\ st \in {"DISCOVERY", "HEAL"}
    /\ polled /\ polled' = FALSE
    /\ age' = IF age < MaxAge THEN age + 1 ELSE age
    /\ healAge' = IF st = "HEAL" /\ healAge < MaxAge THEN healAge + 1 ELSE healAge
    /\ UNCHANGED <<st, disc, sessHost, memory, backoff, session, hosts>>

-----------------------------------------------------------------------------
Device == (Discovery \/ Session \/ Heal) /\ polled' = TRUE

HostNext ==
    /\ \E h \in Hosts : Announce(h) \/ HostStops(h) \/ HostAnswers(h)
    /\ UNCHANGED polled

Disturbed == (Disturbance \/ Reboot) /\ UNCHANGED polled

Next == Device \/ HostNext \/ Disturbed \/ Tick

Spec == Init /\ [][Next]_vars

\* The device thread and the hosts' loops run and time passes; a datagram
\* gets through to a device that waits for one.
Heard(h) == Announce(h) /\ chan' # chan /\ UNCHANGED polled

FairSpec ==
    /\ Spec
    /\ WF_vars(Device)
    /\ WF_vars(Tick)
    /\ WF_vars(\E h \in Hosts : Heard(h))
    /\ WF_vars(\E h \in Hosts : HostStops(h) /\ UNCHANGED polled)
    /\ WF_vars(\E h \in Hosts : HostAnswers(h) /\ UNCHANGED polled)

-----------------------------------------------------------------------------
\* Whoever connects, is connected or reconnects has an address to go to,
\* what is connected is connected to that address, and a device that lost
\* a host has it at the head of its list.
AimIsKnown ==
    /\ st \in {"CONNECT", "SESSION", "HEAL"} => sessHost # NoHost
    /\ sock # NoHost => st = "SESSION" /\ sock = sessHost
    /\ st = "HEAL" => cands # <<>> /\ Head(cands) = sessHost

\* An announcement that is read is followed, also that of a host which has
\* started over and counts from one again.
AnnouncementIsFollowed ==
    [][Searching(1) /\ chan # <<>> /\ chan' = Tail(chan) /\ st' # "STA_JOIN"
        /\ Head(chan).cmd = "announce"
        => sessHost' = Head(chan).host /\ st' = "CONNECT"]_vars

\* Once nothing changes any more and a host is up that takes the device, it
\* is found and kept: out of every stage, whatever the device remembers.
Settled ==
    /\ faults = MaxFaults /\ netOk /\ busy = {}
    /\ \E h \in Hosts : up[h] = "up"

Served == st = "SESSION" /\ sock # NoHost /\ link = "open" /\ ackOk

FoundForGood == <>Settled => <>[]Served

\* Every step is one the device's state machine allows on a network that is
\* up and confirmed: discovery and back-off only decide what DeviceCore
\* leaves to chance.  (Switching the device off and on is several steps of
\* it.)
Core == INSTANCE DeviceCore WITH
    Nets <- {"net"}, CredMax <- 2, SsidOf <- [n \in {"net"} |-> "ssid"],
    NoSsid <- "", RetryMax <- 1, PinMax <- 1, MaxBurst <- 0, ApIdle <- FALSE,
    state <- st, pc <- "tick", active <- 1,
    creds <- <<[net |-> "net", ok |-> TRUE]>>,
    nvs <- <<[net |-> "net", ok |-> TRUE]>>,
    sta <- "ssid", retry <- 0, confirmDl <- "off", confirmDone <- FALSE,
    sock <- sock # NoHost, acked <- {"net"}, unsaved <- FALSE,
    backoff <- FALSE, apListen <- FALSE, apConn <- FALSE, authOk <- FALSE,
    wifiOk <- FALSE, handoff <- "off", pinLive <- FALSE, pinFails <- 0,
    rx <- <<>>, connAuthed <- FALSE

CoreAllows ==
    [][\/ Reboot
       \/ Core!OnlineNext
       \/ Core!Joining /\ st' = "DISCOVERY"]_<<st, sock # NoHost, ackOk>>

\* What the documents say and the code does not do: a device that was told
\* busy leaves the host alone for busy_backoff_ms.
BusyWaits ==
    [][st = "HEAL" /\ refused /\ st' = "SESSION" => healAge >= BusyDelay]_vars
=============================================================================
