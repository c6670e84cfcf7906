----------------------------- MODULE HostServer -----------------------------
(***************************************************************************)
(* The host's TCP server and its registry of devices                       *)
(* (pc/core/host_tcp_server.cpp, host_registry.cpp).                       *)
(*                                                                         *)
(* One thread calls Poll every 10 ms.  A Poll accepts, then serves every   *)
(* connection that has yet to say device_hello, then every registered one, *)
(* then looks for silent devices and sends what the window has queued.     *)
(* The devices are whoever connects: what a recv returns is left open, and *)
(* with it which device, which session id and how many malformed frames    *)
(* arrive.  A socket handle may be given out again once it is closed.      *)
(*                                                                         *)
(* Time is sampled once per Poll.  Of it the model keeps, for a            *)
(* connection, whether hello_timeout_ms, and for a registered device,      *)
(* whether heartbeat_dead_ms had passed at that moment.                    *)
(***************************************************************************)
EXTENDS Naturals, Sequences, FiniteSets

CONSTANTS
    Ids,           \* device ids
    Handles,       \* socket handles
    None,
    MaxConn,       \* host_max_conn
    MaxMalformed,  \* malformed_max_per_conn
    MaxSids,       \* bound: session ids given out
    MaxTexts       \* bound: texts queued by the window

ASSUME HostAssumption ==
    /\ MaxConn \in Nat
    /\ MaxMalformed \in Nat \ {0}
    /\ MaxSids \in Nat
    /\ MaxTexts \in Nat
    /\ IsFiniteSet(Handles)
    /\ IsFiniteSet(Ids)

VARIABLES
    listening,  \* listen_ is not null
    phase,      \* where Poll is; idle: not running
    todo,       \* handles, or ids, this phase of Poll has yet to serve
    pending,    \* pending_, by handle
    entry,      \* the registry's entries_, by id
    open,       \* the connections the process holds open
    nextSid,    \* the next fresh session id
    queue,      \* pending_tx_: [to, no] of each text
    batch,      \* FlushPendingTx's copy of it, as far as it is still to be sent
    nextText,   \* number of the next text (history)
    sent        \* numbers of the texts sent (history)

sockets == <<pending, entry, open, nextSid>>
texts == <<queue, batch, nextText, sent>>
vars == <<listening, phase, todo, sockets, texts>>

Phases == {"idle", "accept", "pending", "online", "flush", "send"}
PendingConn == [late : BOOLEAN, malformed : 0 .. MaxMalformed - 1]
DeviceEntry == [online : BOOLEAN, conn : Handles \cup {None},
                sid : 1 .. MaxSids, late : BOOLEAN]
Text == [to : Ids, no : 1 .. MaxTexts]

ASSUME NoneAssumption == None \notin Handles \cup PendingConn \cup DeviceEntry

Pending == {h \in Handles : pending[h] # None}
Registered == {d \in Ids : entry[d] # None}
Online == {d \in Registered : entry[d].online}

Init ==
    /\ listening = FALSE
    /\ phase = "idle"
    /\ todo = {}
    /\ pending = [h \in Handles |-> None]
    /\ entry = [d \in Ids |-> None]
    /\ open = {}
    /\ nextSid = 1
    /\ queue = <<>>
    /\ batch = <<>>
    /\ nextText = 1
    /\ sent = <<>>

(***************************************************************************)
(* Start and Stop, while no Poll runs.                                     *)
(***************************************************************************)
Start ==
    /\ phase = "idle"
    /\ ~listening
    /\ listening' = TRUE
    /\ UNCHANGED <<phase, todo, sockets, texts>>

Offline(e) == [e EXCEPT !.online = FALSE, !.conn = None, !.late = FALSE]

\* BroadcastCloseAll: registered and pending connections, not the registry.
Stop ==
    /\ phase = "idle"
    /\ listening
    /\ listening' = FALSE
    /\ pending' = [h \in Handles |-> None]
    /\ entry' = [d \in Ids |-> IF d \in Online THEN Offline(entry[d])
                                               ELSE entry[d]]
    /\ open' = open \ (Pending \cup {entry[d].conn : d \in Online})
    /\ UNCHANGED <<phase, todo, nextSid, texts>>

(***************************************************************************)
(* Poll: the clock, and the accept loop.                                   *)
(***************************************************************************)
PollStartAt(lateConns, silent) ==
    /\ phase = "idle"
    /\ listening
    /\ phase' = "accept"
    /\ pending' = [h \in Handles |-> IF h \in lateConns
                                     THEN [pending[h] EXCEPT !.late = TRUE]
                                     ELSE pending[h]]
    /\ entry' = [d \in Ids |-> IF d \in silent
                               THEN [entry[d] EXCEPT !.late = TRUE]
                               ELSE entry[d]]
    /\ UNCHANGED <<listening, todo, open, nextSid, texts>>

PollStart ==
    \E lateConns \in SUBSET Pending, silent \in SUBSET Online :
        PollStartAt(lateConns, silent)

Full_IgnoresPending == Cardinality(Registered) >= MaxConn
\* reg_.Size() + pending_.size() >= limit.  Size counts the offline entries,
\* which nothing removes.  SetBusyOverride is not called by the program.
Full == Cardinality(Registered) + Cardinality(Pending) >= MaxConn

\* When full the connection is answered busy and closed in the same step,
\* which leaves no trace.
Accept ==
    /\ phase = "accept"
    /\ ~Full
    /\ \E h \in Handles \ open :
           /\ pending' = [pending EXCEPT ![h] = [late |-> FALSE, malformed |-> 0]]
           /\ open' = open \cup {h}
    /\ UNCHANGED <<listening, phase, todo, entry, nextSid, texts>>

AcceptDone ==
    /\ phase = "accept"
    /\ phase' = "pending"
    /\ todo' = Pending
    /\ UNCHANGED <<listening, sockets, texts>>

(***************************************************************************)
(* HandlePending, with what Poll does after it returns.                    *)
(***************************************************************************)
ServesPending(h) ==
    /\ phase = "pending"
    /\ h \in todo
    /\ todo' = todo \ {h}
    /\ UNCHANGED <<listening, phase, texts>>

ClosePending(h) ==
    /\ pending' = [pending EXCEPT ![h] = None]
    /\ open' = open \ {h}
    /\ UNCHANGED <<entry, nextSid>>

Expired(late, malformed) == late \/ malformed >= MaxMalformed

\* Nothing, part of a frame, or frames of unknown commands with bad malformed
\* ones among them: the connection stays unless its time or its credit is used up.
PendingWaits(h) ==
    /\ ServesPending(h)
    /\ \E bad \in 0 .. MaxMalformed :
         LET malformed == pending[h].malformed + bad IN
         IF Expired(pending[h].late, malformed)
         THEN ClosePending(h)
         ELSE /\ pending' = [pending EXCEPT ![h].malformed = malformed]
              /\ UNCHANGED <<entry, open, nextSid>>

\* The peer has closed, or speaks an old protocol version.
PendingGone(h) == ServesPending(h) /\ ClosePending(h)

OldConn_LeftOpen(d) == {}
\* The connection a device_hello under a known id closes.
OldConn(d) ==
    IF d \in Registered /\ entry[d].conn # None THEN {entry[d].conn} ELSE {}

Resumes_WithAnySession(d, sid) ==
    d \in Registered /\ ~entry[d].online /\ sid # 0
\* The session goes on only for a device seen as offline that names it.
Resumes(d, sid) ==
    d \in Registered /\ ~entry[d].online /\ sid = entry[d].sid

\* device_hello of d with session id sid (0: none or unknown).  Malformed
\* frames before it do not matter any more, nor does the time.
PendingHello(h, d, sid) ==
    /\ ServesPending(h)
    /\ Resumes(d, sid) \/ nextSid <= MaxSids
    /\ pending' = [pending EXCEPT ![h] = None]
    /\ open' = open \ OldConn(d)
    /\ entry' = [entry EXCEPT ![d] =
           [online |-> TRUE, conn |-> h, late |-> FALSE,
            sid |-> IF Resumes(d, sid) THEN sid ELSE nextSid]]
    /\ nextSid' = IF Resumes(d, sid) THEN nextSid ELSE nextSid + 1

PendingDone ==
    /\ phase = "pending"
    /\ todo = {}
    /\ phase' = "online"
    /\ todo' = Online
    /\ UNCHANGED <<listening, sockets, texts>>

(***************************************************************************)
(* HandleOnline, and MarkOffline for an entry without a connection.        *)
(***************************************************************************)
ServesOnline(d) ==
    /\ phase = "online"
    /\ d \in todo
    /\ todo' = todo \ {d}
    /\ UNCHANGED <<listening, phase, pending, nextSid, texts>>

\* No data, or malformed frames only.
OnlineSilent(d) ==
    /\ ServesOnline(d)
    /\ entry[d].conn # None
    /\ UNCHANGED <<entry, open>>

\* Any frame that parses, a ping or not: OnRx.
OnlineFrames(d) ==
    /\ ServesOnline(d)
    /\ entry[d].conn # None
    /\ entry' = [entry EXCEPT ![d].late = FALSE]
    /\ open' = open

LostEntry(e) == Offline(e)

OnlineLost(d) ==
    /\ ServesOnline(d)
    /\ entry' = [entry EXCEPT ![d] = LostEntry(@)]
    /\ open' = open \ {entry[d].conn}

(***************************************************************************)
(* Devices that have been silent too long, and the window's texts.         *)
(***************************************************************************)
FindDead_NoneWhilePending ==
    IF Pending = {} THEN {d \in Online : entry[d].late} ELSE {}
FindDead == {d \in Online : entry[d].late}

CloseDead ==
    /\ phase = "online"
    /\ todo = {}
    /\ phase' = "flush"
    /\ entry' = [d \in Ids |-> IF d \in FindDead THEN Offline(entry[d])
                                                 ELSE entry[d]]
    /\ open' = open \ {entry[d].conn : d \in FindDead}
    /\ UNCHANGED <<listening, todo, pending, nextSid, texts>>

\* QueueAppData, on the window's thread, at any time.
QueueAppData(d) ==
    /\ nextText <= MaxTexts
    /\ queue' = Append(queue, [to |-> d, no |-> nextText])
    /\ nextText' = nextText + 1
    /\ UNCHANGED <<listening, phase, todo, sockets, batch, sent>>

QueueAfterSwap_Copied == queue
\* The queue is swapped out whole, under the lock the window pushes under.
QueueAfterSwap == <<>>

FlushSwap ==
    /\ phase = "flush"
    /\ phase' = "send"
    /\ batch' = queue
    /\ queue' = QueueAfterSwap
    /\ UNCHANGED <<listening, todo, sockets, nextText, sent>>

\* One turn of the loop, with no lock held.  A text whose device is not online,
\* or whose send fails, is dropped.
FlushSend ==
    /\ phase = "send"
    /\ batch # <<>>
    /\ batch' = Tail(batch)
    /\ \/ Head(batch).to \in Online /\ sent' = Append(sent, Head(batch).no)
       \/ UNCHANGED sent
    /\ UNCHANGED <<listening, phase, todo, sockets, queue, nextText>>

FlushDone ==
    /\ phase = "send"
    /\ batch = <<>>
    /\ phase' = "idle"
    /\ UNCHANGED <<listening, todo, sockets, texts>>

FlushPendingTx == FlushSwap \/ FlushSend \/ FlushDone

-----------------------------------------------------------------------------
ServePending(h) ==
    \/ PendingWaits(h)
    \/ PendingGone(h)
    \/ \E d \in Ids, sid \in 0 .. nextSid - 1 : PendingHello(h, d, sid)

ServeOnline(d) == OnlineSilent(d) \/ OnlineFrames(d) \/ OnlineLost(d)

Poll ==
    \/ PollStart
    \/ Accept
    \/ AcceptDone
    \/ \E h \in Handles : ServePending(h)
    \/ PendingDone
    \/ \E d \in Ids : ServeOnline(d)
    \/ CloseDead
    \/ FlushPendingTx

Next == Poll \/ Start \/ Stop \/ \E d \in Ids : QueueAppData(d)

Spec == Init /\ [][Next]_vars

\* The host thread runs.
FairSpec == Spec /\ WF_vars(Poll)

-----------------------------------------------------------------------------
TypeOK ==
    /\ listening \in BOOLEAN
    /\ phase \in Phases
    /\ todo \subseteq Handles \cup Ids
    /\ pending \in [Handles -> PendingConn \cup {None}]
    /\ entry \in [Ids -> DeviceEntry \cup {None}]
    /\ open \subseteq Handles
    /\ nextSid \in 1 .. MaxSids + 1
    /\ queue \in Seq(Text)
    /\ batch \in Seq(Text)
    /\ nextText \in 1 .. MaxTexts + 1
    /\ sent \in Seq(1 .. MaxTexts)

\* The process holds open exactly the connections it still knows, each under
\* one name: none leaks when a device connects twice, is refused, falls
\* silent or when the server stops, and none is closed while in use.
\* host_tcp_server.cpp closes a socket in nine places.
SocketsOwned ==
    LET conns == {entry[d].conn : d \in Online} IN
    /\ open = Pending \cup conns
    /\ Pending \cap conns = {}
    /\ \A c, d \in Online : entry[c].conn = entry[d].conn => c = d

\* An entry is online exactly while it has a connection, at every point of
\* Poll: what the window shows and what FlushPendingTx sends to agree, and
\* Poll's branch for an online entry without a connection is never needed.
OnlineMeansConnected ==
    \A d \in Registered : entry[d].online <=> entry[d].conn # None

\* Connections and remembered devices together never exceed the limit: the
\* accept loop counts both, and a hello moves one to the other.
CapacityKept == Cardinality(Registered) + Cardinality(Pending) <= MaxConn

\* A session belongs to one device, whatever session id a hello names.
SessionsAreSeparate ==
    \A c, d \in Registered : entry[c].sid = entry[d].sid => c = d

\* A device that names the session it was given last goes on with it: hello's
\* session_id tells a reconnection from a new registration, and a connection
\* that is still there is cleaned up together with that.
SessionGoesOn ==
    [][\A h \in Handles, d \in Registered :
          PendingHello(h, d, entry[d].sid) => entry'[d].sid = entry[d].sid]_vars

\* A queued text is sent at most once and in the order of queueing, whatever
\* happens to the device meanwhile and while more are queued (QueueAppData,
\* FlushPendingTx).
TextsOnceInOrder ==
    \A i, j \in 1 .. Len(sent) : i < j => sent[i] < sent[j]

\* A device found silent for too long is heard again or goes offline, and a
\* connection without a hello in its time says hello or is closed, whatever else
\* it sends and however busy the server is with others.
SilentGoesOffline ==
    /\ \A d \in Ids : (d \in Online /\ entry[d].late)
                          ~> ~(d \in Online /\ entry[d].late)
    /\ \A h \in Handles : (h \in Pending /\ pending[h].late)
                              ~> ~(h \in Pending /\ pending[h].late)
=============================================================================
