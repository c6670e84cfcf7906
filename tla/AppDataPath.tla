----------------------------- MODULE AppDataPath ----------------------------
(***************************************************************************)
(* The way of a command from a caller of the facade to the wire:           *)
(* device_host_send_app_data and device_host_inject_fault                  *)
(* (device/src/runtime/device_host.c) put it into the command ring, the    *)
(* device thread takes it out once a round and sends it or applies it      *)
(* (runner_process_commands, device_runner.c).                             *)
(*                                                                         *)
(* The callers look at host->state and at the snapshot under one lock      *)
(* each and push under a third, so the device thread may take any number   *)
(* of steps in between.  The scenario engine calls the same functions on   *)
(* the device thread, after it has taken the commands of the round.        *)
(*                                                                         *)
(* A command is its kind and the number of its push; the text, whose       *)
(* length the facade checks first, plays no role.  The core is reduced to  *)
(* the session's connection.                                               *)
(***************************************************************************)
EXTENDS CmdQueue, FiniteSets

CONSTANTS
    Callers,      \* threads that call the facade
    Scenario,     \* the scenario engine, on the device thread
    MaxActions,   \* commands in the scenario file
    MaxCommands,  \* bound: pushes
    MaxSessions   \* bound: sessions of the device

ASSUME BoundsAssumption ==
    /\ MaxActions \in Nat
    /\ MaxCommands \in Nat
    /\ MaxSessions \in Nat
    /\ Scenario \notin Callers

Senders == Callers \cup {Scenario}
Kinds == {"app_data", "inject_fault"}

\* no and session are history: the number of the push, and the session it
\* belongs to - the current one, or the next when there is none.
Command == [kind : Kinds, no : 1 .. MaxCommands, session : 1 .. MaxSessions + 1]

\* No push has given a zeroed slot a number.
ASSUME NoCommandAssumption == NoCommand \notin Command

VARIABLES
    hostState,  \* host->state
    snap,       \* host->snapshot.device_state is DEV_STATE_SESSION
    conn,       \* up: in SESSION with a socket; closed: the peer has closed
                \* it, sess_sock is NULL but the state still SESSION
    sessions,   \* sessions so far (history)
    pc,         \* a sender's place in its call
    actions,    \* commands the scenario has yet to issue: each is issued once
    rpc,        \* the device thread's place in its round
    pending,    \* host->pending_app_data, NoCommand when not valid
    accepted,   \* the commands pushed, each answered with DEVICE_OK (history)
    sent,       \* app_data on the wire, with the session (history)
    dropped,    \* app_data given up because the session was gone (history)
    faults      \* faults applied (history)

senderVars == <<pc, actions>>
history == <<accepted, sent, dropped, faults>>
vars == <<slots, head, count, hostState, snap, conn, sessions, pc, actions, rpc,
          pending, accepted, sent, dropped, faults>>

HostStates == {"RUNNING", "STOP_REQUESTED", "STOPPED"}
RunnerSteps == {"check", "commands", "flush", "scenario", "step", "refresh",
                "done"}

-----------------------------------------------------------------------------
\* device_host_start has returned; nothing is accepted before it.
Init ==
    /\ QueueInit
    /\ hostState = "RUNNING"
    /\ snap = FALSE
    /\ conn = "none"
    /\ sessions = 0
    /\ pc = [s \in Senders |-> "idle"]
    /\ actions = MaxActions
    /\ rpc = "check"
    /\ pending = NoCommand
    /\ accepted = <<>>
    /\ sent = <<>>
    /\ dropped = {}
    /\ faults = <<>>

(***************************************************************************)
(* A sender.  Refusals (INVALID_STATE, BUSY) only end the call.            *)
(***************************************************************************)
RunnerUnchanged ==
    UNCHANGED <<hostState, snap, conn, sessions, rpc, pending, sent, dropped,
                faults>>

\* The session a command pushed now belongs to.
Stamp == IF conn = "none" THEN sessions + 1 ELSE sessions

\* The scenario engine runs inside a round of the device thread, and issues
\* each command of its file once.
MayStart(s) == s = Scenario => rpc = "scenario" /\ actions > 0

\* Bound: no call starts that could not be completed.
WithinBound ==
    Len(accepted) + Cardinality({s \in Senders : pc[s] # "idle"}) < MaxCommands

\* host->state is read under state_mutex; only app_data also needs a session.
SendReadState(s) ==
    /\ WithinBound
    /\ MayStart(s)
    /\ pc[s] = "idle"
    /\ hostState = "RUNNING"
    /\ \E next \in {"session", "push_fault"} : pc' = [pc EXCEPT ![s] = next]
    /\ actions' = IF s = Scenario THEN actions - 1 ELSE actions
    /\ UNCHANGED <<queueVars, accepted>>
    /\ RunnerUnchanged

\* The snapshot is read under snapshot_mutex: it shows the end of a past round.
SendReadSnapshot(s) ==
    /\ pc[s] = "session"
    /\ pc' = [pc EXCEPT ![s] = IF snap THEN "push_text" ELSE "idle"]
    /\ UNCHANGED <<queueVars, actions, accepted>>
    /\ RunnerUnchanged

Pushing(k) == IF k = "app_data" THEN "push_text" ELSE "push_fault"

SendPush(s) ==
    /\ Len(accepted) < MaxCommands
    /\ \E k \in Kinds :
         LET c == [kind |-> k, no |-> Len(accepted) + 1, session |-> Stamp]
         IN  /\ pc[s] = Pushing(k)
             /\ Push(c)
             /\ accepted' = Append(accepted, c)
    /\ pc' = [pc EXCEPT ![s] = "idle"]
    /\ UNCHANGED actions
    /\ RunnerUnchanged

SendBusy(s) ==
    /\ pc[s] \in {"push_text", "push_fault"}
    /\ QueueFull
    /\ pc' = [pc EXCEPT ![s] = "idle"]
    /\ UNCHANGED <<queueVars, actions, accepted>>
    /\ RunnerUnchanged

Sender(s) ==
    SendReadState(s) \/ SendReadSnapshot(s) \/ SendPush(s) \/ SendBusy(s)

\* device_host_request_stop; its own races are the subject of DeviceHost.
RequestStop ==
    /\ hostState = "RUNNING"
    /\ hostState' = "STOP_REQUESTED"
    /\ UNCHANGED <<queueVars, senderVars, snap, conn, sessions, rpc, pending,
                   history>>

(***************************************************************************)
(* The device thread.                                                      *)
(***************************************************************************)
RunnerCheck ==
    /\ rpc = "check"
    /\ IF hostState = "STOP_REQUESTED"
       THEN rpc' = "done" /\ hostState' = "STOPPED"
       ELSE rpc' = "commands" /\ UNCHANGED hostState
    /\ UNCHANGED <<queueVars, senderVars, snap, conn, sessions, pending, history>>

\* runner_process_commands: one turn of the loop that empties the ring.
TakeAppData_KeepsFirst ==
    /\ Waiting(0).kind = "app_data"
    /\ pending' = IF pending = NoCommand THEN Waiting(0) ELSE pending
    /\ UNCHANGED <<sent, faults>>
TakeAppData ==
    /\ Waiting(0).kind = "app_data"
    /\ pending' = Waiting(0)
    /\ UNCHANGED <<sent, faults>>

TakeFault_InSession ==
    /\ Waiting(0).kind = "inject_fault"
    /\ faults' = IF conn = "up" THEN Append(faults, Waiting(0)) ELSE faults
    /\ UNCHANGED <<pending, sent>>
TakeFault ==
    /\ Waiting(0).kind = "inject_fault"
    /\ faults' = Append(faults, Waiting(0))
    /\ UNCHANGED <<pending, sent>>

RunnerTake ==
    /\ rpc = "commands"
    /\ Pop
    /\ TakeAppData \/ TakeFault
    /\ UNCHANGED <<senderVars, hostState, snap, conn, sessions, rpc, accepted,
                   dropped>>

RunnerEmpty_Early ==
    /\ rpc = "commands"
    /\ count < 2
    /\ rpc' = "flush"
    /\ UNCHANGED <<queueVars, senderVars, hostState, snap, conn, sessions,
                   pending, history>>
RunnerEmpty ==
    /\ rpc = "commands"
    /\ count = 0
    /\ rpc' = "flush"
    /\ UNCHANGED <<queueVars, senderVars, hostState, snap, conn, sessions,
                   pending, history>>

\* The pending text is given up when the connection is gone.
FlushDrop_Keeps ==
    /\ pending # NoCommand
    /\ conn # "up"
    /\ UNCHANGED <<pending, sent, dropped>>
FlushDrop ==
    /\ pending # NoCommand
    /\ conn # "up"
    /\ pending' = NoCommand
    /\ dropped' = dropped \cup {pending.no}
    /\ UNCHANGED sent

\* device_app_tx_text has succeeded.
FlushSend_Keeps ==
    /\ pending # NoCommand
    /\ conn = "up"
    /\ sent' = Append(sent, [no |-> pending.no, session |-> sessions])
    /\ UNCHANGED <<pending, dropped>>
FlushSend ==
    /\ pending # NoCommand
    /\ conn = "up"
    /\ sent' = Append(sent, [no |-> pending.no, session |-> sessions])
    /\ pending' = NoCommand
    /\ UNCHANGED dropped

\* device_app_tx_text has failed: the text stays for the next round.
FlushFails ==
    /\ pending # NoCommand
    /\ conn = "up"
    /\ UNCHANGED <<pending, sent, dropped>>

RunnerFlush ==
    /\ rpc = "flush"
    /\ rpc' = "scenario"
    /\ \/ pending = NoCommand /\ UNCHANGED <<pending, sent, dropped>>
       \/ FlushDrop \/ FlushSend \/ FlushFails
    /\ UNCHANGED <<queueVars, senderVars, hostState, snap, conn, sessions,
                   accepted, faults>>

\* The scenario engine has made its calls of the round.
RunnerScenario ==
    /\ rpc = "scenario"
    /\ pc[Scenario] = "idle"
    /\ rpc' = "step"
    /\ UNCHANGED <<queueVars, senderVars, hostState, snap, conn, sessions,
                   pending, history>>

\* device_app_run_step: one state of the core.
SessionStarts ==
    /\ conn = "none"
    /\ sessions < MaxSessions
    /\ sessions' = sessions + 1
    /\ conn' = "up"
PeerCloses == conn = "up" /\ conn' = "closed" /\ UNCHANGED sessions
SessionLost == conn # "none" /\ conn' = "none" /\ UNCHANGED sessions
StaysAsIs == conn # "closed" /\ UNCHANGED <<conn, sessions>>

RunnerStep ==
    /\ rpc = "step"
    /\ rpc' = "refresh"
    /\ SessionStarts \/ PeerCloses \/ SessionLost \/ StaysAsIs
    /\ UNCHANGED <<queueVars, senderVars, hostState, snap, pending, history>>

RunnerRefresh ==
    /\ rpc = "refresh"
    /\ rpc' = "check"
    /\ snap' = (conn # "none")
    /\ UNCHANGED <<queueVars, senderVars, hostState, conn, sessions, pending,
                   history>>

Runner == RunnerCheck \/ RunnerTake \/ RunnerEmpty \/ RunnerFlush
          \/ RunnerScenario \/ RunnerStep \/ RunnerRefresh

Next == RequestStop \/ Runner \/ \E s \in Senders : Sender(s)

Spec == Init /\ [][Next]_vars

\* The device thread runs, and a scenario call it has begun goes on.
FairSpec == Spec /\ WF_vars(Runner) /\ WF_vars(Sender(Scenario))

-----------------------------------------------------------------------------
TypeOK ==
    /\ slots \in [Index -> Command \cup {NoCommand}]
    /\ head \in Index
    /\ count \in 0 .. Capacity
    /\ hostState \in HostStates
    /\ snap \in BOOLEAN
    /\ conn \in {"none", "up", "closed"}
    /\ sessions \in 0 .. MaxSessions
    /\ pc \in [Senders -> {"idle", "session", "push_text", "push_fault"}]
    /\ actions \in 0 .. MaxActions
    /\ rpc \in RunnerSteps
    /\ pending \in Command \cup {NoCommand}
    /\ accepted \in Seq(Command)
    /\ Len(accepted) <= MaxCommands
    /\ sent \in Seq([no : 1 .. MaxCommands, session : 1 .. MaxSessions])
    /\ dropped \subseteq 1 .. MaxCommands
    /\ faults \in Seq(Command)

\* The commands taken from the ring, and those of them the wire cannot show.
Taken == Len(accepted) - count
IsFault(c) == c.kind = "inject_fault"
IsText(c) == c.kind = "app_data"
SentNos == {sent[i].no : i \in DOMAIN sent}
PendingNos == IF pending = NoCommand THEN {} ELSE {pending.no}

\* The ring (head, count, modulo) is a bounded first-in-first-out queue, with
\* any number of threads pushing while the device thread pops.
Fifo == INSTANCE BoundedFifo WITH queue <- Queue
RingIsFifo == Fifo!Spec

\* Texts go out in the order in which they were accepted, none of them twice,
\* although one that could not be sent is tried again round after round while
\* newer ones arrive.
SentInOrder ==
    \A i, j \in DOMAIN sent : i < j => sent[i].no < sent[j].no

\* A text accepted during one session is never sent in a later one, although
\* the callers look at a snapshot that may be a round old and the ring and the
\* pending text outlive the connection.
NoCarryOver ==
    \A i \in DOMAIN sent : accepted[sent[i].no].session = sent[i].session

\* Every accepted fault is applied, in order and once, and nothing else is:
\* those applied are exactly those among the commands taken.
FaultsAccounted ==
    /\ \A i, j \in DOMAIN faults : i < j => faults[i].no < faults[j].no
    /\ {faults[i] : i \in DOMAIN faults}
           = {c \in {accepted[n] : n \in 1 .. Taken} : IsFault(c)}

\* Of the texts taken, the newest is never lost: it is pending, sent, or was
\* given up because there was no connection.
NewestTextSurvives ==
    \A n \in 1 .. Taken :
        /\ IsText(accepted[n])
        /\ \A m \in n + 1 .. Taken : ~IsText(accepted[m])
        => n \in SentNos \cup PendingNos \cup dropped

\* A command that was accepted is taken, unless the device is stopped first,
\* however many more commands keep coming.
CommandsAreTaken ==
    \A n \in 1 .. MaxCommands :
        (Len(accepted) >= n) ~> (Taken >= n \/ hostState # "RUNNING")
=============================================================================
