------------------------------ MODULE Scenario ------------------------------
(***************************************************************************)
(* The device's scenario engine (scenario_engine.c).  The device thread    *)
(* goes through the actions once a round; auto_provision is a client of    *)
(* the device's own provisioning server and takes many rounds.  A round    *)
(* reads the clock once, at its beginning.                                 *)
(***************************************************************************)
EXTENDS Naturals, Sequences

CONSTANTS
    NumActions, \* actions of the file
    Gates,      \* after_event; NoGate for "null"
    NoGate,
    MaxFrames   \* bound: frames one client has in flight and in rx_buf

ASSUME ScenarioAssumption == NumActions \in Nat /\ MaxFrames \in Nat /\ NoGate \notin Gates

ActionIds == 1..NumActions
ActionKinds == {"pc", "auto_provision", "send_app_data", "inject_fault", "request_stop"}

VARIABLES
    kind, gate, \* the file
    seen,       \* gate events so far
    at,         \* the action the round is at, 0 between rounds
    armed,      \* started: trigger_at_ms is set
    due,        \* trigger_at_ms has come
    phase,      \* auto_provision: idle, auth (sent), wifi (sent)
    late,       \* phase_deadline_ms has come
    client,     \* cli_sock is open
    served,     \* what the server knows of the client: none, new, authed, taken
    asked,      \* the request it has not answered: none, auth, config
    shut,       \* it closed the connection
    inFlight,   \* frames it sent
    rxBuf,      \* frames received and not handled
    results,    \* scenario_result events of each action
    stop,       \* a stop is requested
    ended       \* the engine is destroyed

file == <<kind, gate>>
timing == <<armed, due>>
server == <<served, asked, shut, inFlight>>
attempt == <<phase, late, client, rxBuf>>
scnVars == <<file, seen, at, timing, attempt, server, results, stop, ended>>

\* scenario_engine_create refuses a file with any other content.
ScnInit ==
    /\ kind \in [ActionIds -> ActionKinds] /\ gate \in [ActionIds -> Gates \cup {NoGate}]
    /\ seen = {} /\ at = 0 /\ stop = FALSE /\ ended = FALSE
    /\ armed = [a \in ActionIds |-> FALSE] /\ due = [a \in ActionIds |-> FALSE]
    /\ phase = [a \in ActionIds |-> "idle"] /\ late = [a \in ActionIds |-> FALSE]
    /\ client = [a \in ActionIds |-> FALSE] /\ rxBuf = [a \in ActionIds |-> <<>>]
    /\ served = [a \in ActionIds |-> "none"] /\ asked = [a \in ActionIds |-> "none"]
    /\ shut = [a \in ActionIds |-> FALSE] /\ inFlight = [a \in ActionIds |-> <<>>]
    /\ results = [a \in ActionIds |-> <<>>]

-----------------------------------------------------------------------------
(* A round *)

Answered(a) == results[a] # <<>>
Open(a) == gate[a] \in seen \cup {NoGate}
Leaves == at' = IF at = NumActions THEN 0 ELSE at + 1

RoundStarts ==
    /\ at = 0 /\ ~stop /\ ~ended /\ Leaves
    /\ UNCHANGED <<file, seen, timing, attempt, server, results, stop, ended>>

\* An action of the PC, one that has its result, one whose event is to come or
\* whose delay has not passed.
Skip(a) ==
    /\ at = a /\ Leaves
    /\ kind[a] = "pc" \/ Answered(a) \/ ~Open(a) \/ (armed[a] /\ ~due[a])
    /\ UNCHANGED <<file, seen, timing, attempt, server, results, stop, ended>>

Arm(a) ==
    /\ at = a /\ kind[a] # "pc" /\ ~Answered(a) /\ Open(a) /\ ~armed[a] /\ Leaves
    /\ armed' = [armed EXCEPT ![a] = TRUE]
    /\ UNCHANGED <<file, seen, due, attempt, server, results, stop, ended>>

Executes(a, k) == at = a /\ kind[a] = k /\ ~Answered(a) /\ armed[a] /\ due[a] /\ Leaves
Emit(a, s) == results' = [results EXCEPT ![a] = Append(@, s)]

\* The facade answers; a text that is too long is not offered to it.
SendAppData(a) ==
    /\ Executes(a, "send_app_data")
    /\ \E s \in {"rejected", "ok", "failed"} : Emit(a, s)
    /\ UNCHANGED <<file, seen, timing, attempt, server, stop, ended>>

InjectFault(a) ==
    /\ Executes(a, "inject_fault")
    /\ \E s \in {"ok", "failed"} : Emit(a, s)
    /\ UNCHANGED <<file, seen, timing, attempt, server, stop, ended>>

\* The rest of the round still takes place.
ScnRequestStop(a) ==
    /\ Executes(a, "request_stop") /\ Emit(a, "ok") /\ stop' = TRUE
    /\ UNCHANGED <<file, seen, timing, attempt, server, ended>>

-----------------------------------------------------------------------------
(* auto_provision *)

Fails(a) ==
    /\ client' = [client EXCEPT ![a] = FALSE]
    /\ Emit(a, "failed")
    /\ UNCHANGED <<phase, late, served, asked>>

\* A request goes out and its phase begins, with a new deadline.
Requests(a, p, q) ==
    /\ phase' = [phase EXCEPT ![a] = p] /\ late' = [late EXCEPT ![a] = FALSE]
    /\ asked' = [asked EXCEPT ![a] = q]
    /\ UNCHANGED results

\* execute_action renews the deadline before it is looked at, so a client that
\* cannot connect tries for ever.
ConnectFails(a) ==
    /\ Executes(a, "auto_provision") /\ phase[a] = "idle"
    /\ late' = [late EXCEPT ![a] = FALSE]
    /\ UNCHANGED <<file, seen, timing, phase, client, rxBuf, server, results, stop, ended>>

\* Connected, and auth sent in the same round, or the connection given up.
Connects(a) ==
    /\ Executes(a, "auto_provision") /\ phase[a] = "idle"
    /\ \/ /\ Requests(a, "auth", "auth")
          /\ client' = [client EXCEPT ![a] = TRUE]
          /\ served' = [served EXCEPT ![a] = "new"]
       \/ Fails(a)
    /\ UNCHANGED <<file, seen, timing, rxBuf, shut, inFlight, stop, ended>>

Polls(a) == Executes(a, "auto_provision") /\ phase[a] # "idle"

\* A full frame is handled only when new bytes arrive: n of the frames in
\* flight do, or a part of the first.
Receives(a, n) ==
    /\ n \in 0..Len(inFlight[a]) /\ inFlight[a] # <<>>
    /\ inFlight' = [inFlight EXCEPT ![a] = SubSeq(@, n + 1, Len(@))]
    /\ UNCHANGED shut
Buffered(a, n) == rxBuf[a] \o SubSeq(inFlight[a], 1, n)

\* No bytes, an incomplete frame, or one with another command
KeepsWaiting(a) ==
    /\ Polls(a)
    /\ \/ /\ inFlight[a] = <<>> /\ ~shut[a]
          /\ UNCHANGED <<rxBuf, inFlight, shut>>
       \/ \E n \in 0..MaxFrames :
            /\ Receives(a, n)
            /\ LET b == Buffered(a, n) IN
               /\ b # <<>> => Head(b) = "other"
               /\ rxBuf' = [rxBuf EXCEPT ![a] = IF b = <<>> THEN b ELSE Tail(b)]
    /\ IF late[a] THEN Fails(a)
       ELSE UNCHANGED <<phase, late, client, served, asked, results>>
    /\ UNCHANGED <<file, seen, timing, stop, ended>>

\* The peer has closed or the socket fails (frames left in rx_buf are not read),
\* the buffer is full, or the frame is not JSON.
ProtocolError(a) ==
    /\ Polls(a) /\ Fails(a)
    /\ UNCHANGED <<file, seen, timing, rxBuf, shut, inFlight, stop, ended>>

\* auth_result ok: the network is sent.
SendsConfig(a) ==
    \/ Requests(a, "wifi", "config") /\ UNCHANGED <<client, served>>
    \/ Fails(a)

\* Mutant: a refusal falls through to the protocol error.
Handles_Twice(a, f) ==
    CASE f = "auth_ok" -> SendsConfig(a)
      [] f = "wifi_ok" -> /\ client' = [client EXCEPT ![a] = FALSE] /\ Emit(a, "ok")
                          /\ UNCHANGED <<phase, late, served, asked>>
      [] OTHER -> /\ client' = [client EXCEPT ![a] = FALSE]
                  /\ results' = [results EXCEPT ![a] = @ \o <<"failed", "failed">>]
                  /\ UNCHANGED <<phase, late, served, asked>>

Handles(a, f) ==
    CASE f = "auth_ok" -> SendsConfig(a)
      [] f = "wifi_ok" -> /\ client' = [client EXCEPT ![a] = FALSE] /\ Emit(a, "ok")
                          /\ UNCHANGED <<phase, late, served, asked>>
      [] f \in {"auth_fail", "wifi_fail"} -> Fails(a)

Replied(a) ==
    /\ Polls(a)
    /\ \E n \in 0..MaxFrames :
         /\ Receives(a, n)
         /\ LET b == Buffered(a, n) IN
            /\ b # <<>> /\ Head(b) # "other"
            /\ rxBuf' = [rxBuf EXCEPT ![a] = Tail(b)]
            /\ Handles(a, Head(b))
    /\ UNCHANGED <<file, seen, timing, stop, ended>>

-----------------------------------------------------------------------------
(* The surroundings *)

\* publish_event, from the step of the core before the round
EventHappens ==
    /\ at = 0 /\ \E e \in Gates \ seen : seen' = seen \cup {e}
    /\ UNCHANGED <<file, at, timing, attempt, server, results, stop, ended>>

TimePasses ==
    /\ at = 0
    /\ \E a \in ActionIds :
         \/ armed[a] /\ ~due[a] /\ due' = [due EXCEPT ![a] = TRUE] /\ UNCHANGED late
         \/ phase[a] # "idle" /\ ~late[a] /\ late' = [late EXCEPT ![a] = TRUE] /\ UNCHANGED due
    /\ UNCHANGED <<file, seen, at, armed, phase, client, rxBuf, server, results, stop, ended>>

\* The server answers a request, sends something else, or closes.
ServerSends(a, f) ==
    /\ at = 0 /\ served[a] # "none" /\ ~shut[a] /\ client[a]
    /\ Len(rxBuf[a]) + Len(inFlight[a]) < MaxFrames
    /\ inFlight' = [inFlight EXCEPT ![a] = Append(@, f)]
    /\ CASE f \in {"auth_ok", "auth_fail"} ->
              /\ asked[a] = "auth" /\ asked' = [asked EXCEPT ![a] = "none"]
              /\ served' = [served EXCEPT ![a] = IF f = "auth_ok" THEN "authed" ELSE @]
         [] f \in {"wifi_ok", "wifi_fail"} ->
              /\ asked[a] = "config" /\ served[a] = "authed"
              /\ asked' = [asked EXCEPT ![a] = "none"]
              /\ served' = [served EXCEPT ![a] = IF f = "wifi_ok" THEN "taken" ELSE @]
         [] OTHER -> UNCHANGED <<asked, served>>
    /\ UNCHANGED <<file, seen, at, timing, attempt, shut, results, stop, ended>>

ServerCloses(a) ==
    /\ at = 0 /\ client[a] /\ ~shut[a] /\ shut' = [shut EXCEPT ![a] = TRUE]
    /\ UNCHANGED <<file, seen, at, timing, attempt, served, asked, inFlight, results, stop,
                   ended>>

StopFromOutside ==
    /\ ~stop /\ stop' = TRUE
    /\ UNCHANGED <<file, seen, at, timing, attempt, server, results, ended>>

\* scenario_engine_destroy, when the device thread has ended.  The host has by
\* then destroyed the network context, so that net_sock_close does nothing and
\* an open connection stays open.
EngineDestroy ==
    /\ stop /\ at = 0 /\ ~ended /\ ended' = TRUE
    /\ UNCHANGED <<file, seen, at, timing, attempt, server, results, stop>>

Frames == {"auth_ok", "auth_fail", "wifi_ok", "wifi_fail", "other"}

ScnNext ==
    \/ RoundStarts \/ EventHappens \/ TimePasses \/ StopFromOutside \/ EngineDestroy
    \/ \E a \in ActionIds :
        \/ Skip(a) \/ Arm(a) \/ SendAppData(a) \/ InjectFault(a) \/ ScnRequestStop(a)
        \/ ConnectFails(a) \/ Connects(a) \/ KeepsWaiting(a) \/ ProtocolError(a) \/ Replied(a)
        \/ ServerCloses(a) \/ \E f \in Frames : ServerSends(a, f)

ScnSpec == ScnInit /\ [][ScnNext]_scnVars

-----------------------------------------------------------------------------
(* Properties *)

\* However frames are cut, joined, delayed or lost to a close, a stop or a
\* deadline: an action has at most one result (scenario_engine.c:7-8) and none
\* before its event; a client's socket is closed with its result; and "ok" is
\* said only of a network the server has taken.
ResultsAreSound ==
    \A a \in ActionIds :
      /\ Len(results[a]) <= 1
      /\ Answered(a) => kind[a] # "pc" /\ Open(a)
      /\ client[a] => ~Answered(a)
      /\ kind[a] = "auto_provision" /\ results[a] = <<"ok">> => served[a] = "taken"
=============================================================================
