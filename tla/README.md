# IoTNetwork: TLA+ models and proofs

This directory holds the verification of the provisioning and session system in
`demo/device` (a C program, the *device*) and `demo/pc` (a C++ program, the
*host*). A device without WiFi credentials opens a hotspot. The host joins it,
sends a PIN and the credentials of the working network. The device joins that
network, finds the host, keeps a TCP session with it, and repairs what breaks.

Paths below are relative to `src/`; `device/` and `pc/` stand for `demo/device/`
and `demo/pc/`. "The process description" is `流程说明.md`, "the design
document" is `Document/Update/beta v1.0.5 - 代码完全拆分/设计文档.md`.

Contents: [1 the system](#1-the-system) · [2 the modules](#2-the-modules) ·
[3 the runs](#3-the-runs) · [4 fairness](#4-fairness) ·
[5 what is proved](#5-what-is-proved) ·
[6 where code and documents disagree](#6-where-code-and-documents-disagree) ·
[7 what is not modelled](#7-what-is-not-modelled) · [8 the plan](#8-the-plan) ·
[9 how to run it](#9-how-to-run-it)

---

## 1 The system

### 1.1 Who runs what

```
 device process                                   host process
 ┌───────────────────────────────┐               ┌──────────────────────────────┐
 │ Qt thread   device thread     │               │ host thread   Qt / scenario  │
 │  facade ──► runner loop       │   hotspot     │  Poll loop ◄── texts, stop   │
 │  start      commands ◄ ring   │◄─ TCP 5935 ──►│              provisioning    │
 │  stop/join  scenario          │               │              thread          │
 │  destroy    core: run_step    │◄─ UDP 5936 ──│  announcer                    │
 │  send_…     snapshot ─► facade│─ TCP session ►│  HostTcpServer + registry    │
 └───────────────┬───────────────┘               └──────────────────────────────┘
              NVS (flash)
```

The device has two threads: whoever calls the `device_host_*` facade (the Qt
main thread) and the device thread, which does everything else in a loop. They
share the host state, the stop flag, the snapshot, the command ring and the log
ring, each under a mutex of its own. The host has a thread that polls, a thread
that provisions, and the window's or the scenario's thread.

### 1.2 Inventory

"Model" says where a part is modelled; `—` means not at all (section 7 has the
reason).

| Part | State it keeps | Operations and interactions | What is hard | What makes it correct | Model |
|---|---|---|---|---|---|
| **Device facade and runner** `runtime/device_host.c`, `device_runner.c` | `state`, `start_mono_ms`, `stop_requested`, snapshot, a dozen parts made by create | create with its rollback, start, request_stop, join, destroy, snapshot; the runner's loop | state is read, the lock released, then acted upon; the thread lives before start has finished; join may time out; any step of create may fail | destroy never frees what the thread uses; nothing is written after a join; a stop is obeyed; no part outlives what it calls | `DeviceHost`, `HostParts` |
| **Device state machine** `core/device_app.c` | state, credential list in memory and NVS, retry count, confirm deadline, sockets, acknowledgement | `run_step`: BOOT, STA_JOIN, AP_PROVISION, DISCOVERY, CONNECT, SESSION, HEAL; reload, remove, confirm, roll back credentials | power failure and NVS failure between steps; a deadline shared by a list; indices into a list that shrinks | no confirmed entry without an acknowledgement; list consistent with NVS; index in bounds; joining ends; the window is enforced | `CredList`, `DeviceState`, `DeviceCore` |
| **Provisioning server** `core/device_provision.c` | listener, client, PIN, failures, `auth_ok`, `wifi_ok`, hand-over deadline | accept (replaces the old client), auth, wifi_config, close_ap, time-outs | several frames in one receive, a client replaced between frames, a lock that is looked at in one place | only the authenticated client configures; sockets follow the state; the lock locks | `DeviceProvision` |
| **Frames** `common/frame.c`, `handle_rx` | one receive buffer and one malformed count for all connections | receive, parse, hand over, count, close | pieces of any size, leftovers, a zero written behind each frame | every message once and in order, none across connections | `FrameStream` |
| **Command ring and app_data** `runtime/device_cmd_queue.c`, `device_host.c`, `device_runner.c` | ring of 32, one pending text | `send_app_data`, `inject_fault` from any thread and the scenario; taken once a round; sent, retried or dropped | three locks in a row, a snapshot a round old, a ring that drains into one slot | first in, first out; texts in order, none twice, none in the wrong session; faults all applied | `BoundedFifo`, `CmdQueue`, `AppDataPath` |
| **Discovery** `core/device_discovery.c` | `sess_host`, `discovery_round`, last sequence number, multicast socket | mDNS, announcements, stored candidates; `host_bye` | `sess_host` survives from the last session; old datagrams wait; numbers restart with the host | a host that announces is followed; a device is never caught in a stage | `Recovery` |
| **Reconnect and back-off** `core/device_heal.c` | candidate list (2), attempt count, `busy_pending`, RSSI watch | on disconnect, next back-off, RSSI poll | called every round rather than once per attempt; the shift leaves its word | a host that is there is found again and kept; busy is honoured | `Recovery` |
| **Session** `core/device_session.c` | session socket, `session_id`, ping sequence, last receive | connect and hello, poll, host_ack ok/busy/fail, ping, disconnect | a handler closes the socket the loop is reading from | dead peers are noticed; acknowledgements belong to their session | `Recovery`; entering and leaving in `DeviceCore`, sending in `AppDataPath` |
| **Event log** `core/device_eventlog.c` | ring of 50 lines, mirrored to NVS | record, debounced and forced store, restore, report | wrap-around, a file shared with the credentials | the newest lines survive, in order | `DeviceStore` |
| **NVS** `linux_nvs.c`, `sim_nvs.c` | one file per device | read, change a key, write a temporary file, rename | crash or power failure between any two steps; reads and writes that fail | the old or the new file, other keys untouched | `DeviceStore` |
| **Log ring** `runtime/device_log_queue.c` | ring that overwrites, sequence, dropped | push, pull, drain | two threads; overwritten while being read | every line handed out, waiting or counted | `LogQueue` |
| **Scenario engine** `runtime/scenario_engine.c` | actions, events seen, a client of the device's own server | round on the device thread: send, fault, stop, auto_provision over many rounds | frames cut or late, deadlines, a stop in the middle | at most one result per action, and a true one | `Scenario`; as a caller in `DeviceHost`, `AppDataPath` |
| **Linux hotspot** `backends/linux/linux_hotspot*.c` | what was started: interface, file, daemons, address, NAT rule | start as a transaction, rollback, stop, lock | a dozen commands, each may fail; daemons live on; processes crash | what was started is undone; nothing else is touched | `Hotspot` |
| **Sockets of all backends** `linux_socket.c`, `sim_socket.c`, `pc_socket_backend.cpp`, `win_backend.cpp` | handles | listen, accept, connect, datagrams, send, receive | five chains of system calls with different checks | no handle leaks, none blocks | `Sockets` |
| **Simulated radio** `backends/sim`, `pc/backends/sim` | a world per process, a directory of hotspot records, faults | start and stop a hotspot, scan, join, inject a fault | records outlive their writers; processes crash between file and rename | what is shown is there, what is there is shown | `Sim` |
| **Host server and registry** `pc/core/host_tcp_server.cpp`, `host_registry.cpp` | pending connections, entries by id, session ids, queued texts | Poll: accept with limit, hello (register, take over, resume), frames, heartbeat death, queued texts; start, stop | nine places close a socket; connections and remembered devices share a limit; a device back before it was missed | no socket leaks or is shared; sessions stay apart; silent ones are removed | `HostServer` |
| **Announcer** `pc/core/host_announcer.cpp` | sequence number | announce, farewell | the number restarts with the host; the farewell may be overtaken | devices follow it | `Recovery` |
| **HostApp and threads** `pc/core/host_app.cpp`, `app/main.cpp` | `stop_`, `provisioned_ssids_`, target, up to five threads | provisioning loop, jobs, run, request stop, delete | jobs that nobody joins, a lock held for minutes, stops from two threads | nobody is in the host when it is deleted; every stop ends | `HostApp` |
| **Provisioning client** `pc/core/host_provision_client.cpp` | PC's association, connection to the device | join hotspot, PIN, wifi_config, close_ap, go back | fails at any of seven points; Windows goes on with an attempt that was given up, or does not disconnect | the PC leaves the hotspot; "provisioned" means accepted | `HostApp` |
| **Host scenario** `pc/core/scenario_runner.cpp` | actions | auto_provision, request_stop, texts, faults | stop in the middle | it ends | as a thread in `HostApp` |
| **Windows** `device/ui`, `qt_main.cpp`, `pc/ui` | widgets | call the facade, pull snapshot and log | — | — | as callers |
| **Platform layer** `src/platform` | thread done flag, condition | create, join with time-out, mutexes, clock | the time-out of a join | wakes the joiner | thread and join: `DeviceHost` |
| **Configuration, paths, options, events, logging, mDNS, network table, Linux WiFi, ESP32 stubs, firmware** | none, or display | parse, format, system calls | — | — | — |

The hazards behind the fourth column are listed line by line in `PROJECT.json`
(`hazards`), each with the properties that would notice it going wrong, or with
the reason why none does.

---

## 2 The modules

| Module | Models | Uses |
|---|---|---|
| `DeviceHost` | facade × device thread × clock | |
| `HostParts` | making and unmaking of a device host | |
| `CredList` | the credential list and its in-place shifts | |
| `DeviceState` | variables and steps the state machine and the provisioning server share | `CredList` |
| `DeviceProvision` | the provisioning server and `sm_ap_provision` | `DeviceState` |
| `DeviceCore` | the whole state machine, power, radio, NVS, time | `DeviceProvision` |
| `FrameStream` | byte stream × receive buffer × parser, over several connections | |
| `BoundedFifo` | abstract: what a bounded queue promises | |
| `CmdQueue` | the ring: slots, head, count | |
| `AppDataPath` | callers × ring × device thread × connection | `CmdQueue`, instance of `BoundedFifo` |
| `Recovery` | device × hosts × multicast × time: discovery, session, back-off | instance of `DeviceCore` |
| `LogQueue` | the log ring | |
| `DeviceStore` | event log × NVS file × log ring × crashes | `LogQueue` |
| `Hotspot` | device processes × machine × daemons | |
| `Scenario` | scenario engine × provisioning server × clock | |
| `Sim` | simulated worlds of several processes × directory of records | |
| `Sockets` | the operations of five socket backends as chains of system calls | |
| `HostServer` | Poll by phases, registry, texts, start and stop | |
| `HostApp` | five threads of the host × provisioning × radio | |
| `MC…` | values of the constants for TLC | see section 3 |
| `…Proofs` | lemmas and theorems, eight modules | the modules section 5 names for each |

Modules that share no state but are small enough for one run are put side by
side in one MC module, with a variable `part` that says which of them a
behaviour explores.

### 2.1 DeviceHost, HostParts

One action is one critical section of `state_mutex`, `stop_mutex` or
`snapshot_mutex`, or one unprotected store. `device_host_start` is five actions,
because the thread it creates may run between any two of them;
`device_host_request_stop` is three (read the state, set the flag, store
STOP_REQUESTED), because the lock is not held over them. `mpc` and `rpc` are the
program counters, `mst` and `rst` the local copies of the state. The scenario
action `request_stop` runs the same three steps on the *device* thread. Of the
core only "is in SESSION" is left; `joined` and `startedAt` are history.

`HostParts` has create step by step in the order of the source (`Making`), the
order of the rollback (`Undoing`) and that of destroy (`Destroying`), which
differ. The log sink is global, so a line may be logged through it between any
two steps. A scenario's open connection is lost when its network goes first
(`leaked`).

### 2.2 CredList, DeviceState, DeviceProvision, DeviceCore

These four are one specification, split as the source is. `state` is
`app->state`, with OFF for a device without power. The device thread is alone,
so a round is cut only where something else may strike: a power failure, the
radio, a deadline. `pc` names the cut: `tick` (a round begins), `load` (inside
`device_creds_reload`), and in AP_PROVISION `accept`, `recv`, `rx` (one action
per frame) and `check`.

* A network is one (SSID, password) pair and `SsidOf` gives its SSID: the code
  compares SSIDs with what the station reports but pairs when it looks for an
  entry, and two pairs may share an SSID.
* Time is abstracted to what has elapsed: a deadline is `off`, `armed` or `due`,
  a back-off runs or not. Any interleaving of clock and rounds is covered.
* NVS either stores the whole blob or fails (`DeviceStore` shows why). Where the
  code looks at the result the two cases differ; where it does not (`Persist`)
  the history variable `unsaved` records the failure.
* The provisioning client is anybody: it connects, replaces another, vanishes,
  and sends up to `MaxBurst` frames in a receive.
* What `net_wifi_*` returns is open within what the radio (`sta`, changed by
  `WifiChanges` at any moment) allows.
* `acked` and `connAuthed` are history: which networks a host has acknowledged,
  and whether the client that is connected sent the right PIN.

### 2.3 FrameStream

A byte is its frame and its place in it. A frame is a short or a long message
(256 bytes and more, so that its first length byte is not zero), a text that is
no message, or a bad length. The peer's bytes arrive in pieces of any size up to
that of the receive buffer. `Receive` is the call of `recv` with the overflow of
`rx_buf`; `WaitsForMore`, `BadPrefix` and `Frame` are the three outcomes of the
parser in the loop of `handle_rx`. Where the device has lost its place in the
stream, two bytes may be any length (`Lengths`). The zero that ends a text is
written into the buffer behind it (`Spoils`, `Rest`). Connections of both kinds
follow each other and end in every way the source has: which of them resets the
buffer and which the count is as in the source.

### 2.4 BoundedFifo, CmdQueue, AppDataPath

A sender's call is three actions: read `host->state`, read the snapshot, push.
The device thread's round is `commands` (one action per command taken), `flush`
(send, keep or drop the pending text), `scenario`, `step` (the connection
changes), `refresh` (the snapshot is written). A command carries its number and
the session it was accepted in as history. `RingIsFifo` states that the ring,
read through the mapping `queue <- Queue`, is a `BoundedFifo`.

### 2.5 Recovery

One action is one round of the device thread in the state it is in, or a step of
a host: announce, answer, send its farewell, stop, crash, come back, become
busy. Time is ticks; `state_enter_ms` and `heal_enter_ms` become ages. A round
runs between two ticks (`polled`), as the device polls every 10 ms. The
multicast socket is a bounded queue that keeps what came while nobody read. The
back-off is computed as in `heal_next_backoff_ms`, in a word of `Width` bits
with its overflow, from the attempt count that every round raises. A shift that
C leaves undefined may have any result.

`Core` is `DeviceCore` with the WiFi part fixed to one network that is up and
confirmed; `CoreAllows` says that each step of `Recovery` is one that
`DeviceCore`, which leaves the outcome of discovery and the moment of the
back-off to chance, allows.

### 2.6 LogQueue, DeviceStore

A line of the event log is its number, and has a size (`Long`). The file holds
the log and the credentials; a write loads it, changes a key, writes a temporary
file (`tmp`) and renames it, each an action, so that a crash or a power failure
falls between any two. `file` is what processes see, `disk` what a power failure
leaves. The Linux backend syncs before it renames, the simulation does not;
`kind` chooses. Any read may fail, for want of memory or a descriptor or because
it is short: the Linux backend then refuses (`load_root`), the simulation takes
the file for an empty one (`SimLoaded`), writes the one key it was asked to
write, or answers OK to an erasure it did not do (`unread`). `blame` names what
happened to the store: the properties say
exactly which events excuse what, and on Linux a failing read excuses nothing.
A boot reads the stored log line by line into
the ring (`Replayed`), as `device_app_create` does. `LogQueue` is the ring of log lines, with
what was pushed and pulled as history.

### 2.7 Hotspot

One action is one external command. What exists on the machine is labelled with
the number of the start that made it; the code sees only its own flags (`own`).
Daemons go from born (no pidfile yet) to up, are told to end and end later, or
die; a process may be killed at any command; other programs make an interface of
the same name. `mishaps` is the history of what the code only logs, or cannot
see.

### 2.8 Sim, Sockets, Scenario

`Sim`: each process has its own world; hotspots of others are seen through
files, written as a temporary file and a rename. A record is old or new, its
owner lives or not; device and host read that differently (`Listed`,
`PcListed`). `Sockets`: an operation is a sequence of system calls, each with
its outcomes and what the source does on each: go on, close and answer, answer
without closing. The sequences are the data of the model, five backends wide;
`SockNext` interprets them. `Scenario`: one action of the engine at a time,
its client's frames in flight and in its buffer, the server's view of the client
(`served`) as far as the engine can observe it.

### 2.9 HostServer

`phase` is the place in Poll: `accept`, `pending` (each connection that has not
said hello, in any order), `online` (each registered device), `flush`, `send`.
`flush` swaps the window's queue into `batch` (`FlushSwap`), `send` sends it text
by text (`FlushSend`, `FlushDone`) while the window may queue more. `todo` is
what the phase still has to serve, fixed when it begins, as the loops in the
source run over a copy or rebuild the list as they go. What a `recv` yields is
open: nothing, malformed frames, a hello of any id with any session id ever given
out, a loss. A handle that was closed may be handed out again, as the operating
system does. The window queues texts between any two actions.

### 2.10 HostApp

`pc` has the place of each of the five threads; `lock` is `provision_mutex_`,
which ProvisionAllDevices takes by trying. (ScanWifiNetworks tries it as well,
for the window's list; it changes nothing and is contained in "somebody else is
provisioning", the first case of `TryProvision`.) `RequestStop` is four actions
that two threads may run at once. The device and the air answer as they like.
With a real radio associations that were given up may still come (`late`, a set,
since an attempt is made on one interface after the other and older ones may
wait), and a disconnect may leave the PC where it is, as nobody looks at what
`WlanDisconnect` answers (`WinLeaves`). `why` remembers how the PC came to be
where it is. The PC has one association at a time.

---

## 3 The runs

### 3.1 Runs that hold

| Run | Models | Bounds | Distinct states | Question |
|---|---|---|---|---|
| `host` | `DeviceHost`, `HostParts` | limit 2, clock 3..6 | 42 062 | Can the two threads hurt each other over start, stop, join and destroy; is a creation that fails undone? |
| `core` | `DeviceCore` | 2 networks with 2 SSIDs, list of 2, 2 retries, 1 PIN failure, bursts of 2 | 1 184 720 | Do list, NVS, sockets and authentication stay consistent whatever client, radio, NVS and power do; does joining end, is the confirm window enforced? |
| `app_data` | `AppDataPath` | ring of 2, window + scenario (1 action), 4 pushes, 2 sessions | 373 750 | Are order, sessions and faults kept; is the ring a queue; is what is accepted taken? |
| `recovery` | `Recovery` | 2 hosts, 1 of them up, word of 3 bits, 3 changes | 560 461 | Is a host that stays up found and kept, whatever the device remembers; does discovery fit the state machine? |
| `device_io` | `Hotspot`, `DeviceStore`, `FrameStream` | 2 processes, 2 plans, 2 starts, 1 mishap; log of 2, 4 lines; 3 frames, 2 connections, 2 malformed | 1 890 880 | Does the device leave machine and file as they should be, and hear its messages in order? |
| `backends` | `Sim`, `Sockets`, `Scenario` | 3 device processes over 2 indices, 1 fault; 3 handles; 2 actions, 2 frames | 1 122 665 | Is the directory true, are handles sound, are results true? |
| `host_server` | `HostServer` | 2 ids, 3 handles, limit 3, 2 malformed frames, 3 session ids, 2 texts | 225 581 | Are sockets owned, sessions apart, texts in order, late ones dealt with? |
| `hostapp` | `HostApp` | 1 device, 2 networks, 2 scenario actions | 580 132 | Is the host deleted only when nobody is in it, does provisioning end clean, does a stop end? |

What each property says is written above its definition. In short:

* **host** — `DestroyIsQuiet`: once freed, the host is never touched by its
  thread. `NoWriteAfterJoin`: the snapshot stays as it was from a successful
  join on. `StopEndsThread`: a registered stop ends the thread. `PartsAreSound`:
  wherever creation fails, no part outlives what it calls and nothing is left.
* **core** — `ConfirmedWasAcked`: no confirmed mark, in memory or NVS, that no
  host earned, over power failures, rollbacks and reconnects on another network.
  `MemoryMatchesFlash`: the two lists agree except after a failure the code
  ignores. `OneEntryPerNetwork`, `JoinUsesACredential`: in-place shifts keep the
  list a set and the index inside it. `OnlyTheAuthenticatedConfigures`: no client
  inherits another one's PIN. `SocketsFollowState`: no path leaves a socket
  behind. `JoinTerminates`: retry count and entry both advance.
  `WindowIsEnforced`: an unconfirmed credential is confirmed or dropped.
* **app_data** — `SentInOrder`, `NoCarryOver`: texts go out in the order they
  were accepted and never in another session. `FaultsAccounted`,
  `NewestTextSurvives`: what the ring drains into one slot loses only older
  texts, and no fault. `RingIsFifo`: the refinement. `CommandsAreTaken`: what is
  accepted is taken.
* **recovery** — `AimIsKnown`: whoever connects has an address, is connected to
  it, and has it at the head of its list when it has lost it.
  `AnnouncementIsFollowed`: also after a host started over. `CoreAllows`: the
  refinement. `FoundForGood`: once nothing changes and a host is up, the device
  gets to it and stays.
* **device_io** — `NothingLeftBehind`, `OthersKeepTheirs`: the hotspot's
  transaction. `StoreIsWhole`: whatever fails, the file can be read and has the
  credentials written last, on Linux; in the simulation a read that fails may
  lose them, and only that. `LogIsKept`: the log in it. `LinesAccounted`: the log
  ring. `FramesInOrder`: messages of this connection only, in order, each once,
  malformed ones each counted once, unless the buffer overflowed or a length
  byte was overwritten.
* **backends** — `CatalogIsTrue`: a hotspot that is shown exists, one that exists
  is shown to all. `HandlesAreSound`: no chain of calls loses a handle, closes
  another's, or hands out one that blocks unnoticed. `ResultsAreSound`: at most
  one result per action, and "ok" only for a network the server has taken.
* **host_server** — `SocketsOwned`, `CapacityKept`: who owns a socket and how
  many there are. `SessionsAreSeparate`: no two devices share a session id.
  `TextsOnceInOrder`. `SilentGoesOffline`: a device that is silent, and a
  connection that says no hello, whatever else it sends, are removed.
* **hostapp** — `DeleteIsSafe`. `RunsEndClean`: a run leaves the hotspot, in the
  simulation always, on Windows unless the system did not do as it was told.
  `StopEnds`.

Every property of these runs has a mutant in `PROJECT.json`: a change to one
mapped definition, of the kind a slip in the code would be, that TLC finds with
the same configuration. The mutated operators stand before the definitions they
change, with an underscore in the name.

### 3.2 Runs that are refuted

| Run | Refuted | In a sentence |
|---|---|---|
| `core_pin_lock` | `PinLocksHotspot` | the lock is checked only when the *peer* closes, but a wrong PIN closes first |
| `recovery_busy` | `BusyWaits` | the long back-off after busy is returned once and forgotten in the next round |
| `server_session` | `SessionGoesOn` | a device that is back before its old connection was missed presents its session id and gets another |
| `frames_legal` | `LegalIsHeard` | the zero behind a frame cuts the length of a long one that follows it in the buffer |

Section 6 quotes what each one contradicts.

### 3.3 Bounds, and why they are enough

* *Clock of `host`* (`BootTime`, `MaxTime`, `Duration`): only differences to
  `Duration` matter; boot time above the limit and a clock that can run past
  start + limit give all orders of "limit reached" and every other step.
* *Networks, list*: two entries are the code's own `PROTO_WIFI_CRED_MAX`; two
  networks make a full list, and provisioning one again reorders it. With two
  SSIDs each is the wrong network for the other. A third network, which would push
  the last entry out, and two networks of one SSID, where a changed password is a
  new entry, are covered by the proofs (`Nets` and `SsidOf` are any there).
* *Retries 2, PIN 1 or 2, bursts of 2*: two attempts tell "first", "again" and
  "exhausted" apart. A burst of two is the smallest in which a frame follows one
  that closed the connection. `core` allows one wrong PIN,
  `core_pin_lock` two, so that the last permitted one is not also the first.
* *Ring of 2, 4 pushes*: the ring fills and wraps, and two texts may wait while a
  third is pending. *Two sessions* make a carry-over possible; one scenario
  action makes the device thread a sender between other senders' steps.
* *Two ids, three handles, limit 3* (`host_server`): a device may connect while
  its old connection is still served, and the other one too; the limit is
  reached by entries and connections together; a closed handle comes back.
  Three session ids let a device resume, be taken over and start afresh.
  `server_session` has the same bounds.
* *`recovery`*: two hosts for two candidates, so a candidate may be the wrong
  one. In a word of three bits a base of 2 is gone after two doublings: the
  delay rises, reaches its cap, overflows and is gone. A queue of one datagram
  is always full when the next comes. `MaxSeq` 2 stands for all later
  numbers, `MaxAge` 3, the longest limit, for all later ages.
  Three disturbances are enough for a host to go, another to come and the first
  to return.
* *`device_io`, hotspot*: two processes and two address plans collide; two
  starts leave something of the first for the second; one failure of the
  rollback or death of a daemon, since two hide nothing further that one does
  not show. Processes are alike, so symmetry is sound; no liveness is checked
  there.
* *`device_io`, store*: a log of 2 with 4 lines wraps, before and after it was
  restored; long and short lines with caps of 2 and 3 are cut when they are
  written, read and reported.
* *`device_io`, frames*: a long text of 4, a buffer of 7 and a receive of 4 keep
  the order of 1026, 1027 and 512: a full receive behind a part of a frame
  overflows. Three frames put a long one between two others; two connections let
  something be left behind. `frames_legal` takes a long text of 2 and a buffer
  of 8, with which nothing overflows: the refutation owes nothing to overflow.
* *`backends`*: three processes over two indices, so that an index is used
  again after a crash; three handles, one more than any operation opens; two
  actions, the first of which is auto_provision, as the order between two
  actions is what matters; two frames in flight, so one may follow another in a
  receive.
* *`hostapp`*: one device, since only one is provisioned at a time; two networks
  let the target differ from where the PC was, and an attempt at the one wait
  while the PC is on its way to the other.

`CHECK_DEADLOCK FALSE` stands where the system may really stop: after destroy
(`host`), after the host is deleted (`hostapp`), or when the device, the peers
or the bounds are used up (`app_data`, `recovery`, `recovery_busy`, `device_io`,
`frames_legal`, `backends`). The other runs check for deadlock.

---

## 4 Fairness

Only what the code schedules is fair, and weak fairness is all that is assumed.

* `MCDeviceHost!MCFairSpec` (and `DeviceHost!FairSpec`): `WF(Runner)` – the
  operating system runs the device thread, which waits for nobody in its loop –
  and `WF(MainBusy)` – a facade call that has begun goes on. Whether the program
  ever stops, joins or destroys is its own business.
* `DeviceCore!FairSpec`: `WF(Joining)` and `WF(OnlineNext)` – `run_step` is
  called every 10 ms and each state handler returns – and `WF(WindowElapses)` –
  time goes on. Nothing is assumed of the radio, of NVS, of power, of the client
  or of the host. Liveness therefore holds even if WiFi fails for ever.
* `AppDataPath!FairSpec`: `WF(Runner)` and `WF(Sender(Scenario))`, since the
  scenario's calls run on the device thread. The window's thread is not fair.
* `HostServer!FairSpec`: `WF(Poll)` – `HostApp::Run` polls until it is stopped.
  Poll's own accept loop ends because handles are finite. Start, stop, the
  window and the devices are not fair. `SilentGoesOffline` starts from a
  connection whose time *has* passed, so the clock needs none.
* `Recovery!FairSpec`: the device thread and the clock, a host that is up
  answers hellos and ends a stop it has begun, and now and then an announcement
  reaches a device that listens (`Heard`; the host announces every few seconds).
  `FoundForGood` needs the last one: a network that drops every announcement
  while the stored addresses are wrong leaves nothing to find.
* `HostApp!Fairness`: each thread of the program (`Worker`, `Qt`, `Scenario`,
  the host's loop and its jobs) goes on when it can. Nothing is assumed of
  devices, of the air or of the user. The calls of provisioning have time-outs
  in the source, so they return.

---

## 5 What is proved

TLAPS checks the following for every value of the constants, from the
assumptions named in the modules, which TLC evaluates on the runs of the modules
that extend them: `TimeAssumption`, `CredMaxAssumption`, `DeviceAssumption`,
`CapacityAssumption`, `BoundsAssumption`, `NoCommandAssumption`,
`HostAssumption`, `NoneAssumption`, `QueueCapacityAssumption`,
`StoreAssumption`, `RecoveryAssumption`, `FrameAssumption`, `HotspotAssumption`,
`HostAppAssumption`, `SimAssumption`, `SocketsAssumption`, `ScenarioAssumption`.
They say that limits are natural numbers (positive where the code needs it), that
"none" is not a value, that handles, ids and indices are finite sets, and of
`Recovery` that its bound on ages (`MaxAge`) lies above every limit an age is
compared with.

Every invariant and every action property of the runs that hold, and both
refinements, are stated by a theorem.

### 5.1 The lifecycle (`DeviceHostProofs`)

`HostInv` adds three facts to the properties: a CREATED host has no thread
(`CreatedMeansNoThread`: so start cannot create a second one), a successful join
means the thread is gone (`JoinedMeansGone`), and a start in progress is not
joined (`StartingNotJoined`: otherwise start's own snapshot write would count as
one after join). `DestroyIsQuiet` follows because destroy's guard leaves CREATED
and STOPPED, and both mean the thread is gone. One step per action.
Theorems: `HostInvariant`, `HostTypeOK`, `HostDestroyIsQuiet`,
`HostStoppedMeansGone`, `HostNoWriteAfterJoin`.

`PartsInv` looks at the steps still to come: while creating, nothing that is
still to be made is needed by what is made before it (`CreateInv`); while undoing
or destroying, whatever is made, the log sink included, is still on the list and
stands there before what it uses (`ReleaseInv`). The lemmas `OrderOfMaking`,
`OrderOfUndoing` and `OrderOfDestroying` hold the three orders of the source
against the table of who needs whom (`Needs`).
Theorem: `HostPartsAreSound`.

### 5.2 The device (`DeviceCoreProofs`)

The first lemmas are about the list: `RemoveAtPos`, `PutFirst` and
`Confirm` stay within the type and the capacity, keep entries distinct, and
relate the confirmed networks before and after. `DeviceInv` is inductive. Beyond
the properties it needs `StepFollowsState` (which steps belong to which state),
`ClientNeedsHotspot` (a client implies the listener) and `AckIsForActive`: while
the acknowledgement flag is set in SESSION, the active network has been
acknowledged. That last one is the heart of `ConfirmedWasAcked`: no step that
stays in SESSION changes `active`, and entering SESSION clears the flag. Neither the
retry limit nor the size of a burst plays a role.
Theorems: `DeviceInvariant`, `DeviceTypeOK`, `DeviceIndexInBounds`,
`DeviceSockets`, `DeviceConfirmation`, `DeviceOneEntry`,
`DeviceMemoryMatchesFlash`, `DeviceAuthentication`, `DeviceHotspot`.

### 5.3 The command path (`AppDataProofs`)

`PathInv` describes the ring by what was accepted: the waiting commands are the
last `count` accepted ones, in order, and a command's number is its place
(`WindowInv`); what was sent has been taken, and the pending text is newer than
all of it (`PendingInv`); a connection belongs to a counted session (`CountInv`);
while the connection is up everything waiting or pending belongs to its session,
because the ring has been emptied and the pending text dropped in some round
without one (`SessionInv`: this is where the order commands–flush–scenario–step
of a round enters). Modular arithmetic on `(head + i) % Capacity` is
isolated in lemmas on the ring. `RingImplementsFifo` proves the refinement:
`QueueInit` maps to the empty queue, `Push` to `Put`, `Pop` to `Take`, all other
actions to stuttering.

`KeptInv` is `NewestTextSurvives` and `FaultsAccounted`, inductive together on top
of `PathInv`. A step that takes no command keeps both (`KeptSame`); a command that
is taken is the next accepted one, so a text becomes the newest and the pending
one, and a fault is appended where its number belongs.
Theorems: `PathInvariant`, `PathTypeOK`, `PathOrder`, `PathNoCarryOver`,
`RingImplementsFifo`, `PathNewestText`, `PathFaults`.

### 5.4 The host server (`HostServerProofs`)

Actions of Poll change sockets and entries in four ways only: not at all, some
are closed, one is accepted, a hello moves one. The invariant is therefore
written over a *shape* (pending connections, online devices, entries, open
handles, next session id), and one lemma per way shows that it keeps
`Shape`; each action then only has to be recognised. `ServerInv` is the shape
plus what `todo` holds in each phase (`TodoKnown`: otherwise an entry could be
served that is no longer online). `SidsGiven` – every session id in use was
given out – is the strengthening behind `SessionsAreSeparate`. Cardinalities come from the library's theorems on finite
sets.

`TextInv` is about the texts: what was sent, what is in `batch` and what is in
`queue` are, in this order, one line of rising numbers below the next one to be
given (`TextLine`), and `batch` is empty outside `send` (`BatchIsLocal`: else the
swap would lose texts). `PlaceTypes` completes the type.
Theorems: `ServerInvariant`, `ServerSockets`, `ServerOnline`, `ServerCapacity`,
`ServerSessions`, `ServerTextLine`, `ServerTexts`,
`ServerTypeOK`.

### 5.5 Logs, file and hotspot (`DeviceIOProofs`)

*The log ring.* `LinesAccounted` says that the slot `i` places behind the first
holds the `i`-th of the waiting lines, by number; with the type it is inductive
as it stands (`QueueInv`), and what it needs is modular arithmetic. `SlotIndex`
says that an index wraps at most once, `SlotShift` that moving the first slot by
one shifts the places by one, `SlotsDiffer` that two places less than a capacity
apart are two slots. Pushing into a full ring overwrites the oldest line and
counts it.
Theorems: `StoreQueueInvariant`, `StoreLinesAccounted`.

*The file.* `WholeInv` strengthens `StoreIsWhole` to what is not seen yet: the copy
that a power failure would bring back is sound too, and a temporary file that is
about to be renamed is complete (synced on Linux) and holds the same credentials
as the file unless it is written for new ones, or was made by the simulation
without the file that is there (`unread`), which never happens on Linux. What a
write and an erasure leave in the temporary file is stated once each
(`WriteMakes`, `EraseMakes`).
Theorems: `StoreInvariant`, `StoreStaysWhole`.

*The event log.* `LogInv` has the ring as a window on the lines recorded
(`RingInv`), and every copy of the log – ring, file, disk, temporary file – in
order and without repetition (`NeatInv`). `StoredInv` says what the file has when
the process ends by itself. What a boot puts into the ring and what a report keeps
are given in closed form; where the newest lines that fit begin is found as a
least number, by well-founded induction.
Theorems: `StoreLogInvariant`, `StoreLogIsKept`, `StoreTypeOK`.

*The hotspot.* The invariant has layers, each resting on fewer things having gone
wrong. Always: one process holds the lock and the flags are set and cleared in
one order (`LockInv`), and what a flag stands for bears the number of this start
(`HeldInv`). While no rollback came too late for a daemon without pidfile: such a
daemon still has its flag or goes with its interface, and pidfiles name no other's
daemon (`DaemonInv`). While there was no mishap at all: whatever is left on the
machine bears a flag of its process, or that process has crashed (`CleanInv`);
`NothingLeftBehind` follows, as a start that was undone has no flags.
Theorems: `HotspotInvariant`, `HotspotTypesHold`, `HotspotLeavesNothing`,
`HotspotSparesOthers`.

### 5.6 Simulation, sockets, scenario engine (`BackendsProofs`)

`OwnersInv` of `Sim`: processes that live have indices of their own, a record is
made by its owner under its index, and one that is not stuck and whose owner
lives is that of a started hotspot.
Theorems: `SimInvariant`, `SimCatalogIsTrue`.

`SockInv` of `Sockets` says of what is left of the operation at work (`AtWork`)
that each of its calls ends the operation rightly, whichever outcome it has – the
handle closed, or given to the caller – and that a handle that may block has its
mode set before it is given out. That the chains of the five backends are of this
kind is checked chain by chain in lemmas; the rest of such a chain is one again
(`RestFacts`), so the invariant is independent of what the chains are.
Theorems: `SocketsInvariant`, `SocketsAreSound`.

`ActionInv` of `Scenario` is the strengthening, action by action: only an armed
action is executed and it has no result yet; authentication is asked only of a
server to which the client is new, so that what the server has taken stays taken;
an "ok" to wifi_config, in flight or in the buffer, comes from a server that *has*
taken the network. The lemmas on `Has` say what a buffer may hold after a frame is
appended, moved or taken out.
Theorem: `ScenarioResultsAreSound`, for every number of actions and frames.

### 5.7 Recovery and frames (`DeviceNetProofs`)

`RecoveryInv` adds to `AimIsKnown` the types it rests on and `SearchIsFresh`: in
DISCOVERY no announcement number is remembered. It holds because a search starts
at zero and the first fresh announcement ends it; it is why an announcement that
is read is always followed (`RecoveryFollows`), also that of a host that counts
from one again. `RecoveryImplementsCore` takes the actions one by one to a step of
`DeviceCore` or a stutter. `RecoveryTypeOK` bounds what `AimIsKnown` does not
need: timers, attempts, the datagrams that wait, the length of the list.
Theorems: `RecoveryInvariant`, `RecoveryAim`, `RecoveryTypeOK`, `RecoveryFollows`,
`RecoveryImplementsCore`.

`FrameInv` of `FrameStream` is about the bytes ahead of the parser, those in the
buffer and those on the way together (`Stream`). Always: they are bytes of this
connection in the order they were sent, but for those that were overwritten
(`BytesInOrder`), and everything heard lies before them (`HeardInOrder`). While
nothing happened that makes the device lose its place: they are whole frames one
behind the other (`Whole`, with the offset at which each starts), and the frames
before them were heard if legal and counted if not (`PlaceKept`, `Handled`).
Theorems: `FrameInvariant`, `FramesAreInOrder`.

### 5.8 The host's threads and provisioning (`HostAppProofs`)

`ThreadInv`: the job thread runs exactly while `provisioning_` is set and is over
before the window goes on from its wait (`JobIsFlagged`); whoever joins has set
`stop_` (`StopIsSet`); once a stop is set and nobody is joining, the loop has ended
(`StopperJoins`); the host is deleted after the other threads (`DeletedLast`).
`AirInv`: between two devices and after the last one the PC is on no hotspot, or
on one that Windows put it on late or did not leave when it was told to, which
never happens in the simulation (`RadioIsLeft`);
an "ok" comes from the device of this run, which has taken a network
(`AnswerIsOfDev`); a device noted as provisioned has one (`DoneHasNetwork`).
Theorems: `HostThreadInvariant`, `HostDeleteIsSafe`, `HostAirInvariant`,
`HostRunsEndClean`, `HostAppTypeOK`.

### 5.9 What stays with TLC

The liveness properties, and only they: `StopEndsThread`, `JoinTerminates`,
`WindowIsEnforced`, `CommandsAreTaken`, `FoundForGood`, `SilentGoesOffline`,
`StopEnds`. The prover has no rule for fairness and no ENABLED.

No module uses a RECURSIVE operator; the list operations are written as
functions with a closed form.

---

## 6 Where code and documents disagree

### 6.1 Shown by a run

Each is listed in `PROJECT.json` under `findings` with the line of the code and
the sentence it contradicts.

* **`core_pin_lock`** `device/src/core/device_provision.c:379`. The fifth wrong
  PIN closes the client before the lock is looked at, so the hotspot stays open;
  `PROV_RET_AP_LOCKED` is never returned. `流程说明.md:118` has the hotspot closed
  for five minutes.
* **`recovery_busy`** `device/src/core/device_heal.c:56`. The 60 s after busy are
  returned in one round and forgotten in the next; the device is back within
  seconds. `流程说明.md:224` says 60 s.
* **`server_session`** `pc/core/host_tcp_server.cpp:289`. A device that reconnects
  while the host still takes its old connection for alive presents the session id
  it has, and is given another. `流程说明.md:213` and `:268` have the session
  resumed; `tests/test_host_session.cpp` expects a third thing, that the second
  connection is refused.
* **`frames_legal`** `device/src/core/device_app.c:291`. The zero that ends a
  text is written over the first length byte of the frame behind it. A legal
  frame of 256 bytes or more that was received together with the one before it
  is cut, and what follows is read as lengths.
  `Document/Update/beta v1.1/验收文档.md:245` asks that legal frames which stick
  together are handled.

### 6.2 Noticed while reading, not shown by a run

*Lifecycle and runtime*

* `device_host.c:543`: request_stop may store STOP_REQUESTED over the STOPPED of
  a thread that has just ended; join then returns `DEVICE_OK` and destroy answers
  BUSY for ever.
* `device_host.c:522`: `start_mono_ms` is stored after the thread exists; on a
  machine up longer than the limit, a quick thread compares with 0 and stops at
  once. `device_host.c:203`: seconds times 1000 wrap in 32 bits.
* `device_runner.c:81`: a ring of 32 drains into one slot, so accepted texts are
  overwritten.
* A creation that fails leaves the diagnostic log file open.

*State machine and provisioning*

* `device_app.c:498`: one deadline serves two unconfirmed entries; confirming or
  rolling back one leaves the other without a window (`流程说明.md:133`, 120 s
  per new configuration).
* `device_provision.c:94`: after the grace the hand-over stops the server, but
  does not complete if another client has connected since.
* `device_app.c:487`: a device that loses WiFi while online re-enters STA_JOIN
  with `cred_active` where it was. If that is the last entry, a series of
  failures erases the whole list without trying the first one again;
  `流程说明.md:85` opens the hotspot only when all credential sets are exhausted.
* `device_limits.c`: `rate_burst_flag` is never set, so the rate limit of table
  4.2 never limits.

*Discovery and back-off*

* `device_heal.c:16-30`: the current host is moved to the front without removing
  its old entry, so with two places one host may fill both.
* `device_heal.c:63`: the exponent grows with every round. The delay is at its
  cap within a few rounds; where `base << n` has left the width of `long` it may
  be 0 (from n = 61 with 64 bits, n = 29 with 32).
* `device_discovery.c:122`: any datagram – a `host_bye` too – makes discovery
  succeed if `sess_host` still holds the last host. `device_discovery.c:106-116`:
  a datagram of 1024 bytes puts the terminating NUL one past the buffer.
* A host that is busy but accepts connections keeps the device from trying the
  other candidate. `rssi_bad_since` survives into the next session.

*Frames*

* `prov_server_poll` clears `rx_len` for a new connection but not the malformed
  count, so it is closed for its predecessor's frames; rule 58
  (`流程说明.md:378`) counts "同一连接**连续 3 次**".
* Of the three kinds of malformed frame that rule names, one with bad JSON is
  counted but the limit is looked at only at the next bad length or overflow; an
  unknown command is never counted; and a good message does not reset the count,
  so the three need not follow each other.
* A receive of 512 bytes behind a part of a large frame overflows the 1027 bytes
  of `rx_buf`, and a legal stream is lost.
* Frames that follow one whose handler closed the connection are still handed to
  the handlers; the third malformed frame closes the provisioning socket twice
  (`device_app.c:274`); a partial send counts as sent.
* `pc/core/host_provision_client.cpp:126-155`: `read_frame` drops what came
  behind the frame it returns, does not look at its command, and waits for its
  time-out on a closed socket. `pc/core/host_tcp_server.cpp:385`: bytes in
  `conn_rx_` are erased only when a receive fails and may wait for a new socket at
  the same address.

*Store*

* The Linux backend writes an event log of more than 4096 bytes and never reads
  it back; the simulated NVS refuses values of more than about 3069 bytes;
  `diag_report` cuts the newest lines at 1024 bytes.
* A damaged NVS file blocks every get, set and erase on Linux for ever; the
  simulation overwrites it and loses every other key.
* A file that cannot be read for a moment is no damaged one to the Linux backend,
  which refuses, but is to the simulation: `sim_nvs.c:180` speaks of files that
  are missing or damaged, while `nvs_load` also answers NULL when `malloc`, `stat`
  or `fopen` fails or the read is short. The next line of the event log is then
  stored in a file of its own, and the credentials are gone, with `DEMO_OK`;
  `sim_nvs_erase` answers OK without erasing. `sim_nvs_set` does not look at
  whether the value could be added (`sim_nvs.c:264`); running out of memory there
  is not modelled.
* The debounce of the event log has no trailing flush. Temporary files of a
  process that crashed stay. The sequence in `device_events` restarts at 1 in a
  file that is appended to.

*Linux hotspot*

* A daemon that died leaves its pidfile and with it every later start is refused,
  although `linux_hotspot.h:69` promises an idempotent start; so does what a
  crashed process leaves behind.
* A daemon without a pidfile survives the rollback, and another's rollback may
  kill it later. TERM is not waited for. A NAT rule that was left over is used
  and never removed.

*Host*

* `host_tcp_server.cpp:119`: the limit on connections counts every device ever
  seen, which are never removed. `host_registry.cpp:63`: `last_ping_seq` survives
  a reconnect.
* `host_app.cpp`: `RequestStop` sets `stop_` last, so two that run at once both
  send the farewell and both join the thread, of which the second throws
  (`crashed` in the model); the test
  `HostLifecycle.RequestStopOrderAndIdempotent` treats it as idempotent. It also
  closes sockets under a running Poll.
* `provisioned_ssids_` is never cleared, so a device that was reset is not
  provisioned again; a provisioning that fails early never takes the PC back to
  the target network; a `WlanConnect` that timed out is left pending and may put
  the PC on the hotspot later; `win_backend.cpp:265` and `:279` ignore whether
  `WlanDisconnect` did anything, and forget the interface, so the PC may stay on
  the hotspot and no later call will leave it; `SetTargetNetwork` and `ProvisionAllDevices` are
  two steps, and a refused one is dropped silently.
* The PC's scenario goes on after request_stop and gives no result for the
  actions it skips.

*Simulation, sockets, scenario engine*

* The PC's catalog compares a steady clock with a wall clock. `remove` and
  `rename` are not checked and fail on Windows while a reader has the file open,
  so a stopped hotspot stays visible; `remove` takes whichever record has the
  index. An association outlives its hotspot; a catalog hotspot is joined with any
  password; a device that dials the hotspot's address reaches the smallest index,
  not the hotspot it joined. Faults injected in one process do not reach another.
* On Linux descriptor 0 becomes the NULL handle, `udp_send` returns 0 where the
  others return the length, a connect with a time-out of 0 waits for ever, and an
  empty datagram is not an error; elsewhere accept errors look like "nothing to
  accept", `getsockopt` and switching to non-blocking are not checked, and only
  the Linux device sends with `MSG_NOSIGNAL`.
* `scenario_engine.c:306-307`: an idle action renews its deadline every round, so
  `connect_failed` is never reached, and an action not executed before the stop
  has no result; `scenario_engine.h:14` promises exactly one for each.
* A connect holds the device thread for up to a second; a frame received together
  with the one before it waits until more bytes come; actions beyond 64 are
  ignored; a client's socket that is open at the stop is lost, as the network is
  destroyed before the engine.

---

## 7 What is not modelled

* **Content of messages, formatting, events, display** – no state depends on it.
* **Configuration, paths, options, parameters** – pure parsing at start-up, and
  `common`'s table of network functions, which only forwards.
* **Leftover bytes on the PC side** (`conn_rx_`) – frames arrive whole in
  `HostServer` and `HostApp`; `FrameStream` is the device's parser.
* **`HostApp::RequestStop` inside a running Poll** – a data race on containers;
  its outcomes are not a small set. `HostApp` shows that the two can meet, and
  `HostServer` stops between polls.
* **Qt's event loop** – taken to deliver no timer event after it has quit.
* **Ping statistics** – display only.
* **Linux WiFi, its command runner, ESP32 stubs, firmware, mDNS** – single system
  calls or external commands whose results `DeviceCore` and `Recovery` leave open;
  the ESP32 backend is stubs that answer "unsupported".
* **`win_hotspot.cpp`** – a tool for trials, not linked into the host.
* **Vendored cJSON and GoogleTest, tests, documents.**

The components in `PROJECT.json` marked `partly` have what is missing in their
`note`.

---

## 8 The plan

Done, in this order: `DeviceHost`; `CredList` … `DeviceCore` with its proofs;
the ring and the command path with the refinement; `HostServer` with its proofs;
`Recovery` with its refinement of `DeviceCore`; `Hotspot`; `DeviceStore` and
`LogQueue`; `HostApp`; `Sim`, `Sockets`, `Scenario`; `HostParts`;
`FrameStream`; then the proofs, component by component, until every safety
property, action property and refinement of the runs had its theorem.

Left to model: a device's session against `HostServer` over a connection that
loses what is in flight, with both sides' views of the session as the abstract
specification. Its theorems would be the refinement of that specification and the
agreement of the two views while nothing is in flight.

---

## 9 How to run it

```
tlc -workers 2 -config MCDeviceCore.cfg MCDeviceCore
tlapm DeviceCoreProofs.tla
```

`PROJECT.json` lists every run with its configuration, and `map` every
definition with the lines it stands for.
