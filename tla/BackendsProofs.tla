--------------------------- MODULE BackendsProofs ---------------------------
(***************************************************************************)
(* Proofs about the scenario engine, for every number of actions, every    *)
(* set of events and every number of frames on the way; about the          *)
(* simulated radio, for every set of processes and indices; and about the  *)
(* sockets of all backends, for every set of handles.                      *)
(***************************************************************************)
EXTENDS Scenario, Sim, Sockets, TLAPS

(* The scenario engine *)

\* A frame is among the others.
Has(s, f) == \E i \in 1..Len(s) : s[i] = f

\* auto_provision, and what the server knows and answers.
Phases == {"idle", "auth", "wifi"}
Views == {"none", "new", "authed", "taken"}
Requested == {"none", "auth", "config"}
Verdicts == {"ok", "failed", "rejected"}

\* The variables of the engine.
ScnType ==
    /\ armed \in [ActionIds -> BOOLEAN] /\ client \in [ActionIds -> BOOLEAN]
    /\ phase \in [ActionIds -> Phases] /\ late \in [ActionIds -> BOOLEAN]
    /\ served \in [ActionIds -> Views] /\ asked \in [ActionIds -> Requested]
    /\ rxBuf \in [ActionIds -> Seq(Frames)] /\ inFlight \in [ActionIds -> Seq(Frames)]
    /\ results \in [ActionIds -> Seq(Verdicts)]

\* The strengthening: only an armed action is executed; a request for
\* authentication is open only while the server knows nothing else of the
\* client, so that what it has taken stays taken; and a wifi_result ok that is
\* on the way, or in rx_buf, comes from a server that has taken the network.
ActionInv(a) ==
    /\ Len(results[a]) <= 1
    /\ armed[a] => kind[a] # "pc" /\ Open(a)
    /\ Answered(a) => armed[a] /\ ~client[a]
    /\ client[a] => kind[a] = "auto_provision"
    /\ asked[a] = "auth" => served[a] = "new"
    /\ served[a] # "none" => phase[a] # "idle"
    /\ Has(rxBuf[a], "wifi_ok") \/ Has(inFlight[a], "wifi_ok") => served[a] = "taken"
    /\ kind[a] = "auto_provision" /\ results[a] = <<"ok">> => served[a] = "taken"
\* The invariant of the engine.
ScnInv == ScnType /\ \A a \in ActionIds : ActionInv(a)

\* The invariant says what the run checks.
LEMMA InvIsSound == ScnInv => ResultsAreSound
BY DEF ScnInv, ActionInv, ResultsAreSound

-----------------------------------------------------------------------------
(* Sequences *)

\* Nothing is on the way.
LEMMA HasNone == ASSUME NEW f PROVE ~Has(<<>>, f)
BY DEF Has

\* What was sent is the new frame or was there before.
LEMMA HasAppended ==
    ASSUME NEW S, NEW s \in Seq(S), NEW x \in S, NEW f, Has(Append(s, x), f)
    PROVE  x = f \/ Has(s, f)
<1>1. PICK i \in 1..Len(Append(s, x)) : Append(s, x)[i] = f
  BY DEF Has
<1>2. CASE i = Len(s) + 1
  BY <1>1, <1>2
<1>3. CASE i # Len(s) + 1
  <2>1. i \in 1..Len(s) /\ s[i] = f
    BY <1>1, <1>3
  <2> QED BY <2>1 DEF Has
<1> QED BY <1>2, <1>3

\* What the buffer holds after a receive, and what is still in flight, was in
\* one of the two before.
LEMMA HasReceived ==
    ASSUME NEW S, NEW r \in Seq(S), NEW s \in Seq(S), NEW n \in 0..Len(s), NEW f
    PROVE  LET b == r \o SubSeq(s, 1, n) IN
           /\ b \in Seq(S)
           /\ SubSeq(s, n + 1, Len(s)) \in Seq(S)
           /\ Has(SubSeq(s, n + 1, Len(s)), f) => Has(s, f)
           /\ Has(b, f) => Has(r, f) \/ Has(s, f)
<1> DEFINE b == r \o SubSeq(s, 1, n)
<1>1. SubSeq(s, 1, n) \in Seq(S) /\ Len(SubSeq(s, 1, n)) = n
      /\ \A i \in 1..n : SubSeq(s, 1, n)[i] = s[i]
  OBVIOUS
<1>2. SubSeq(s, n + 1, Len(s)) \in Seq(S)
  OBVIOUS
<1>3. ASSUME Has(SubSeq(s, n + 1, Len(s)), f)
      PROVE  Has(s, f)
  <2>1. PICK i \in 1..Len(SubSeq(s, n + 1, Len(s))) : SubSeq(s, n + 1, Len(s))[i] = f
    BY <1>3 DEF Has
  <2>2. n + i \in 1..Len(s) /\ s[n + i] = f
    BY <2>1
  <2> QED BY <2>2 DEF Has
<1>4. b \in Seq(S) /\ Len(b) = Len(r) + n
  BY <1>1
<1>5. ASSUME Has(b, f)
      PROVE  Has(r, f) \/ Has(s, f)
  <2>1. PICK i \in 1..Len(b) : b[i] = f
    BY <1>5 DEF Has
  <2>2. CASE i <= Len(r)
    <3>1. i \in 1..Len(r) /\ r[i] = f
      BY <1>1, <2>1, <2>2
    <3> QED BY <3>1 DEF Has
  <2>3. CASE i > Len(r)
    <3>1. i - Len(r) \in 1..n /\ i - Len(r) \in 1..Len(s)
      BY <1>4, <2>1, <2>3
    <3>2. b[i] = SubSeq(s, 1, n)[i - Len(r)]
      BY <1>1, <1>4, <2>1, <2>3
    <3>3. s[i - Len(r)] = f
      BY <1>1, <2>1, <3>1, <3>2
    <3> QED BY <3>1, <3>3 DEF Has
  <2> QED BY <2>1, <2>2, <2>3, <1>4
<1> QED BY <1>2, <1>3, <1>4, <1>5

\* The first frame is taken.
LEMMA HasTail ==
    ASSUME NEW S, NEW s \in Seq(S), s # <<>>, NEW f
    PROVE  /\ Head(s) \in S /\ Tail(s) \in Seq(S)
           /\ Has(s, Head(s))
           /\ Has(Tail(s), f) => Has(s, f)
<1>1. Head(s) = s[1] /\ 1 \in 1..Len(s) /\ Head(s) \in S /\ Tail(s) \in Seq(S)
      /\ Len(Tail(s)) = Len(s) - 1
  OBVIOUS
<1>2. ASSUME Has(Tail(s), f)
      PROVE  Has(s, f)
  <2>1. PICK i \in 1..Len(Tail(s)) : Tail(s)[i] = f
    BY <1>2 DEF Has
  <2>2. i + 1 \in 1..Len(s) /\ s[i + 1] = f
    BY <1>1, <2>1
  <2> QED BY <2>2 DEF Has
<1> QED BY <1>1, <1>2 DEF Has
-----------------------------------------------------------------------------
(* Steps *)

\* A step leaves an action as it was, but for events that happen.
Same(b) ==
    /\ kind' = kind /\ gate' = gate /\ seen \subseteq seen'
    /\ armed'[b] = armed[b] /\ client'[b] = client[b] /\ phase'[b] = phase[b]
    /\ served'[b] = served[b] /\ asked'[b] = asked[b]
    /\ rxBuf'[b] = rxBuf[b] /\ inFlight'[b] = inFlight[b] /\ results'[b] = results[b]

\* A step of one action leaves the others alone.
LEMMA SameKeeps == ASSUME NEW b, ActionInv(b), Same(b) PROVE ActionInv(b)'
BY DEF ActionInv, Same, Answered, Open, Has

\* A step of no action.
LEMMA AllSame ==
    ASSUME ScnInv, ScnType', \A b \in ActionIds : Same(b)
    PROVE  ScnInv'
BY SameKeeps DEF ScnInv, ActionIds

\* A step of one action: what is left to show is about that one.
LEMMA OneMoves ==
    ASSUME ScnInv, ScnType', NEW a \in ActionIds, ActionInv(a)',
           \A b \in ActionIds \ {a} : Same(b)
    PROVE  ScnInv'
<1>1. ASSUME NEW b \in ActionIds
      PROVE  ActionInv(b)'
  <2>1. CASE b = a
    BY <2>1
  <2>2. CASE b # a
    BY <2>2, SameKeeps DEF ScnInv
  <2> QED BY <2>1, <2>2
<1> QED BY <1>1 DEF ScnInv, ActionIds

\* An action that is executed has no result yet, so one more is its first.
LEMMA FirstResult ==
    ASSUME ScnInv, NEW a \in ActionIds, ~Answered(a), NEW s \in Verdicts, Emit(a, s)
    PROVE  /\ results' \in [ActionIds -> Seq(Verdicts)]
           /\ results'[a][1] = s /\ Len(results'[a]) = 1
           /\ \A b \in ActionIds \ {a} : results'[b] = results[b]
<1>1. results \in [ActionIds -> Seq(Verdicts)] /\ results[a] = <<>>
  BY DEF ScnInv, ScnType, Answered
<1>2. results' = [results EXCEPT ![a] = Append(results[a], s)]
  BY DEF Emit
<1>3. /\ Append(results[a], s) \in Seq(Verdicts)
      /\ Len(Append(results[a], s)) = 1 /\ Append(results[a], s)[1] = s
  <2>1. results[a] \in Seq(Verdicts) /\ Len(results[a]) = 0
    BY <1>1
  <2> QED BY <2>1
<1> QED BY <1>1, <1>2, <1>3

\* send_app_data, inject_fault and request_stop.
LEMMA PlainKeeps ==
    ASSUME ScnInv, NEW a \in ActionIds,
           NEW k \in {"send_app_data", "inject_fault", "request_stop"},
           Executes(a, k), NEW s \in Verdicts, Emit(a, s),
           UNCHANGED <<file, seen, timing, attempt, server>>
    PROVE  ScnInv'
<1> USE DEF file, timing, attempt, server
<1>1. ~Answered(a) /\ armed[a] /\ kind[a] = k
  BY DEF Executes
<1>2. /\ results' \in [ActionIds -> Seq(Verdicts)] /\ Len(results'[a]) = 1
      /\ \A b \in ActionIds \ {a} : results'[b] = results[b]
  BY <1>1, FirstResult
<1>3. ScnType'
  BY <1>2 DEF ScnInv, ScnType
<1>4. ActionInv(a)
  BY DEF ScnInv
<1>5. \A b \in ActionIds \ {a} : Same(b)
  BY <1>2 DEF Same
<1>6. ActionInv(a)'
  <2>1. Answered(a)' => armed'[a] /\ ~client'[a]
    BY <1>1, <1>4 DEF ActionInv
  <2> QED BY <1>1, <1>2, <1>4, <2>1 DEF ActionInv, Open, Has
<1> QED BY <1>3, <1>5, <1>6, OneMoves

\* A client that fails or gives up.
LEMMA FailsFacts ==
    ASSUME ScnInv, NEW a \in ActionIds, ~Answered(a), Fails(a)
    PROVE  /\ results' \in [ActionIds -> Seq(Verdicts)] /\ client' \in [ActionIds -> BOOLEAN]
           /\ results'[a][1] = "failed" /\ Len(results'[a]) = 1 /\ ~client'[a]
           /\ \A b \in ActionIds \ {a} : results'[b] = results[b] /\ client'[b] = client[b]
           /\ UNCHANGED <<phase, late, served, asked>>
<1>1. client \in [ActionIds -> BOOLEAN]
  BY DEF ScnInv, ScnType
<1>2. Emit(a, "failed") /\ client' = [client EXCEPT ![a] = FALSE]
      /\ UNCHANGED <<phase, late, served, asked>>
  BY DEF Fails
<1>3. client' \in [ActionIds -> BOOLEAN] /\ ~client'[a]
      /\ \A b \in ActionIds \ {a} : client'[b] = client[b]
  BY <1>1, <1>2
<1>4. /\ results' \in [ActionIds -> Seq(Verdicts)]
      /\ results'[a][1] = "failed" /\ Len(results'[a]) = 1
      /\ \A b \in ActionIds \ {a} : results'[b] = results[b]
  <2>1. "failed" \in Verdicts
    BY DEF Verdicts
  <2> QED BY <1>2, <2>1, FirstResult
<1> QED BY <1>2, <1>3, <1>4

\* A request that goes out.
LEMMA RequestsFacts ==
    ASSUME ScnInv, NEW a \in ActionIds, NEW p \in Phases, NEW q \in Requested, Requests(a, p, q)
    PROVE  /\ phase' \in [ActionIds -> Phases] /\ late' \in [ActionIds -> BOOLEAN]
           /\ asked' \in [ActionIds -> Requested]
           /\ phase'[a] = p /\ asked'[a] = q /\ results' = results
           /\ \A b \in ActionIds \ {a} : phase'[b] = phase[b] /\ asked'[b] = asked[b]
BY DEF ScnInv, ScnType, Requests

\* The frames after a receive: nothing new appears among them.
LEMMA ReceivedFacts ==
    ASSUME ScnInv, NEW a \in ActionIds, NEW n \in 0..MaxFrames, Receives(a, n)
    PROVE  LET b == Buffered(a, n) IN
           /\ b \in Seq(Frames)
           /\ inFlight' \in [ActionIds -> Seq(Frames)]
           /\ \A c \in ActionIds \ {a} : inFlight'[c] = inFlight[c]
           /\ Has(inFlight'[a], "wifi_ok") => served[a] = "taken"
           /\ Has(b, "wifi_ok") => served[a] = "taken"
           /\ b # <<>> => /\ Tail(b) \in Seq(Frames) /\ Head(b) \in Frames
                          /\ Has(Tail(b), "wifi_ok") => served[a] = "taken"
                          /\ Head(b) = "wifi_ok" => served[a] = "taken"
<1> DEFINE r == rxBuf[a]
           s == inFlight[a]
           b == Buffered(a, n)
           t == SubSeq(s, n + 1, Len(s))
<1>1. /\ r \in Seq(Frames) /\ s \in Seq(Frames) /\ n \in 0..Len(s)
      /\ inFlight \in [ActionIds -> Seq(Frames)]
      /\ inFlight' = [inFlight EXCEPT ![a] = t]
  BY DEF Receives, ScnInv, ScnType
<1>2. Has(r, "wifi_ok") \/ Has(s, "wifi_ok") => served[a] = "taken"
  BY DEF ScnInv, ActionInv
<1>3. b = r \o SubSeq(s, 1, n)
  BY DEF Buffered
<1> HIDE DEF r, s, b
<1>4. /\ b \in Seq(Frames) /\ t \in Seq(Frames)
      /\ Has(t, "wifi_ok") => Has(s, "wifi_ok")
      /\ Has(b, "wifi_ok") => Has(r, "wifi_ok") \/ Has(s, "wifi_ok")
  BY <1>1, <1>3, HasReceived
<1> HIDE DEF t
<1>5. b # <<>> => /\ Tail(b) \in Seq(Frames) /\ Head(b) \in Frames /\ Has(b, Head(b))
                  /\ Has(Tail(b), "wifi_ok") => Has(b, "wifi_ok")
  BY <1>4, HasTail
<1>6. inFlight' \in [ActionIds -> Seq(Frames)] /\ inFlight'[a] = t
      /\ \A c \in ActionIds \ {a} : inFlight'[c] = inFlight[c]
  BY <1>1, <1>4
<1>7. b # <<>> /\ Head(b) = "wifi_ok" => Has(b, "wifi_ok")
  BY <1>5
<1> QED BY <1>2, <1>4, <1>5, <1>6, <1>7 DEF b

\* auto_provision connects.
LEMMA ConnectsKeeps ==
    ASSUME ScnInv, NEW a \in ActionIds, Connects(a)
    PROVE  ScnInv'
<1> USE DEF file, timing
<1>1. ~Answered(a) /\ armed[a] /\ kind[a] = "auto_provision" /\ phase[a] = "idle"
      /\ UNCHANGED <<file, seen, timing, rxBuf, shut, inFlight, stop, ended>>
  BY DEF Connects, Executes
<1>2. ActionInv(a) /\ ScnType
  BY DEF ScnInv
<1>3. served[a] = "none"
  BY <1>1, <1>2 DEF ActionInv
<1>4. CASE Fails(a)
  <2>1. /\ results' \in [ActionIds -> Seq(Verdicts)] /\ client' \in [ActionIds -> BOOLEAN]
        /\ results'[a][1] = "failed" /\ Len(results'[a]) = 1 /\ ~client'[a]
        /\ \A b \in ActionIds \ {a} : results'[b] = results[b] /\ client'[b] = client[b]
        /\ UNCHANGED <<phase, late, served, asked>>
    BY <1>1, <1>4, FailsFacts
  <2>2. ScnType'
    BY <1>1, <1>2, <2>1 DEF ScnType
  <2>3. \A b \in ActionIds \ {a} : Same(b)
    BY <1>1, <2>1 DEF Same
  <2>4. results'[a] # <<"ok">>
    BY <2>1
  <2>5. ActionInv(a)'
    BY <1>1, <1>2, <2>1, <2>4 DEF ActionInv, Open, Has
  <2> QED BY <2>2, <2>3, <2>5, OneMoves
<1>5. CASE /\ Requests(a, "auth", "auth")
           /\ client' = [client EXCEPT ![a] = TRUE]
           /\ served' = [served EXCEPT ![a] = "new"]
  <2>1. /\ phase' \in [ActionIds -> Phases] /\ late' \in [ActionIds -> BOOLEAN]
        /\ asked' \in [ActionIds -> Requested]
        /\ phase'[a] = "auth" /\ asked'[a] = "auth" /\ results' = results
        /\ \A b \in ActionIds \ {a} : phase'[b] = phase[b] /\ asked'[b] = asked[b]
    <3>1. "auth" \in Phases /\ "auth" \in Requested
      BY DEF Phases, Requested
    <3> QED BY <1>5, <3>1, RequestsFacts
  <2>2. /\ client' \in [ActionIds -> BOOLEAN] /\ served' \in [ActionIds -> Views]
        /\ served'[a] = "new"
        /\ \A b \in ActionIds \ {a} : client'[b] = client[b] /\ served'[b] = served[b]
    BY <1>2, <1>5 DEF ScnType, Views
  <2>3. ScnType'
    BY <1>1, <1>2, <2>1, <2>2 DEF ScnType
  <2>4. \A b \in ActionIds \ {a} : Same(b)
    BY <1>1, <2>1, <2>2 DEF Same
  <2>5. ActionInv(a)'
    BY <1>1, <1>2, <1>3, <2>1, <2>2 DEF ActionInv, Open, Has, Answered
  <2> QED BY <2>3, <2>4, <2>5, OneMoves
<1> QED BY <1>4, <1>5 DEF Connects

\* The rest of a round of a client that has connected: what it holds after a
\* receive is as good as before, whether it then gives up or not.
LEMMA KeepsWaitingKeeps ==
    ASSUME ScnInv, NEW a \in ActionIds, KeepsWaiting(a)
    PROVE  ScnInv'
<1> USE DEF file, timing
<1>1. ~Answered(a) /\ armed[a] /\ kind[a] = "auto_provision" /\ phase[a] # "idle"
      /\ UNCHANGED <<file, seen, timing, stop, ended>>
  BY DEF KeepsWaiting, Polls, Executes
<1>2. ActionInv(a) /\ ScnType
  BY DEF ScnInv
<1>3. /\ rxBuf' \in [ActionIds -> Seq(Frames)] /\ inFlight' \in [ActionIds -> Seq(Frames)]
      /\ Has(rxBuf'[a], "wifi_ok") \/ Has(inFlight'[a], "wifi_ok") => served[a] = "taken"
      /\ \A c \in ActionIds \ {a} : rxBuf'[c] = rxBuf[c] /\ inFlight'[c] = inFlight[c]
  <2>1. CASE UNCHANGED <<rxBuf, inFlight, shut>>
    BY <1>2, <2>1 DEF ScnType, ActionInv
  <2>2. CASE \E n \in 0..MaxFrames :
               /\ Receives(a, n)
               /\ LET b == Buffered(a, n) IN
                  /\ b # <<>> => Head(b) = "other"
                  /\ rxBuf' = [rxBuf EXCEPT ![a] = IF b = <<>> THEN b ELSE Tail(b)]
    <3>1. PICK n \in 0..MaxFrames :
            /\ Receives(a, n)
            /\ LET b == Buffered(a, n) IN
               rxBuf' = [rxBuf EXCEPT ![a] = IF b = <<>> THEN b ELSE Tail(b)]
      BY <2>2
    <3> DEFINE x == IF Buffered(a, n) = <<>> THEN Buffered(a, n) ELSE Tail(Buffered(a, n))
    <3>2. /\ inFlight' \in [ActionIds -> Seq(Frames)]
          /\ \A c \in ActionIds \ {a} : inFlight'[c] = inFlight[c]
          /\ Has(inFlight'[a], "wifi_ok") => served[a] = "taken"
          /\ x \in Seq(Frames) /\ (Has(x, "wifi_ok") => served[a] = "taken")
      BY <3>1, ReceivedFacts
    <3>3. rxBuf' = [rxBuf EXCEPT ![a] = x]
      BY <3>1
    <3> HIDE DEF x
    <3> QED BY <1>2, <3>2, <3>3 DEF ScnType
  <2> QED BY <2>1, <2>2 DEF KeepsWaiting
<1>4. CASE Fails(a)
  <2>1. /\ results' \in [ActionIds -> Seq(Verdicts)] /\ client' \in [ActionIds -> BOOLEAN]
        /\ results'[a][1] = "failed" /\ Len(results'[a]) = 1 /\ ~client'[a]
        /\ \A b \in ActionIds \ {a} : results'[b] = results[b] /\ client'[b] = client[b]
        /\ UNCHANGED <<phase, late, served, asked>>
    BY <1>1, <1>4, FailsFacts
  <2>2. ScnType'
    BY <1>1, <1>2, <1>3, <2>1 DEF ScnType
  <2>3. \A b \in ActionIds \ {a} : Same(b)
    BY <1>1, <1>3, <2>1 DEF Same
  <2>4. results'[a] # <<"ok">>
    BY <2>1
  <2>5. ActionInv(a)'
    BY <1>1, <1>2, <1>3, <2>1, <2>4 DEF ActionInv, Open
  <2> QED BY <2>2, <2>3, <2>5, OneMoves
<1>5. CASE UNCHANGED <<phase, late, client, served, asked, results>>
  <2>1. ScnType'
    BY <1>1, <1>2, <1>3, <1>5 DEF ScnType
  <2>2. \A b \in ActionIds \ {a} : Same(b)
    BY <1>1, <1>3, <1>5 DEF Same
  <2>3. ActionInv(a)'
    BY <1>1, <1>2, <1>3, <1>5 DEF ActionInv, Open, Answered
  <2> QED BY <2>1, <2>2, <2>3, OneMoves
<1> QED BY <1>4, <1>5 DEF KeepsWaiting

\* A protocol error: the attempt fails.
LEMMA ProtocolErrorKeeps ==
    ASSUME ScnInv, NEW a \in ActionIds, ProtocolError(a)
    PROVE  ScnInv'
<1> USE DEF file, timing
<1>1. ~Answered(a) /\ armed[a] /\ kind[a] = "auto_provision" /\ phase[a] # "idle" /\ Fails(a)
      /\ UNCHANGED <<file, seen, timing, rxBuf, shut, inFlight, stop, ended>>
  BY DEF ProtocolError, Polls, Executes
<1>2. ActionInv(a) /\ ScnType
  BY DEF ScnInv
<1>3. /\ results' \in [ActionIds -> Seq(Verdicts)] /\ client' \in [ActionIds -> BOOLEAN]
      /\ results'[a][1] = "failed" /\ Len(results'[a]) = 1 /\ ~client'[a]
      /\ \A b \in ActionIds \ {a} : results'[b] = results[b] /\ client'[b] = client[b]
      /\ UNCHANGED <<phase, late, served, asked>>
  BY <1>1, FailsFacts
<1>4. ScnType'
  BY <1>1, <1>2, <1>3 DEF ScnType
<1>5. \A b \in ActionIds \ {a} : Same(b)
  BY <1>1, <1>3 DEF Same
<1>6. results'[a] # <<"ok">>
  BY <1>3
<1>7. ActionInv(a)'
  BY <1>1, <1>2, <1>3, <1>6 DEF ActionInv, Open, Has
<1> QED BY <1>4, <1>5, <1>7, OneMoves

\* The server's answer.
LEMMA RepliedKeeps ==
    ASSUME ScnInv, NEW a \in ActionIds, Replied(a)
    PROVE  ScnInv'
<1> USE DEF file, timing
<1>1. ~Answered(a) /\ armed[a] /\ kind[a] = "auto_provision" /\ phase[a] # "idle"
      /\ UNCHANGED <<file, seen, timing, stop, ended>>
  BY DEF Replied, Polls, Executes
<1>2. ActionInv(a) /\ ScnType
  BY DEF ScnInv
<1>3. PICK n \in 0..MaxFrames :
        /\ Receives(a, n) /\ Buffered(a, n) # <<>> /\ Head(Buffered(a, n)) # "other"
        /\ rxBuf' = [rxBuf EXCEPT ![a] = Tail(Buffered(a, n))]
        /\ Handles(a, Head(Buffered(a, n)))
  BY DEF Replied
<1> DEFINE f == Head(Buffered(a, n))
<1>4. /\ inFlight' \in [ActionIds -> Seq(Frames)]
      /\ \A c \in ActionIds \ {a} : inFlight'[c] = inFlight[c]
      /\ Has(inFlight'[a], "wifi_ok") => served[a] = "taken"
      /\ Tail(Buffered(a, n)) \in Seq(Frames)
      /\ Has(Tail(Buffered(a, n)), "wifi_ok") => served[a] = "taken"
      /\ f \in Frames /\ (f = "wifi_ok" => served[a] = "taken")
  BY <1>3, ReceivedFacts
<1>5. /\ rxBuf' \in [ActionIds -> Seq(Frames)]
      /\ Has(rxBuf'[a], "wifi_ok") \/ Has(inFlight'[a], "wifi_ok") => served[a] = "taken"
      /\ \A c \in ActionIds \ {a} : rxBuf'[c] = rxBuf[c]
  BY <1>2, <1>3, <1>4 DEF ScnType
<1>6. Handles(a, f) /\ f # "other"
  BY <1>3
<1> HIDE DEF f
<1>7. CASE Fails(a)
  <2>1. /\ results' \in [ActionIds -> Seq(Verdicts)] /\ client' \in [ActionIds -> BOOLEAN]
        /\ results'[a][1] = "failed" /\ Len(results'[a]) = 1 /\ ~client'[a]
        /\ \A b \in ActionIds \ {a} : results'[b] = results[b] /\ client'[b] = client[b]
        /\ UNCHANGED <<phase, late, served, asked>>
    BY <1>1, <1>7, FailsFacts
  <2>2. ScnType'
    BY <1>1, <1>2, <1>4, <1>5, <2>1 DEF ScnType
  <2>3. \A b \in ActionIds \ {a} : Same(b)
    BY <1>1, <1>4, <1>5, <2>1 DEF Same
  <2>4. results'[a] # <<"ok">>
    BY <2>1
  <2>5. ActionInv(a)'
    BY <1>1, <1>2, <1>5, <2>1, <2>4 DEF ActionInv, Open
  <2> QED BY <2>2, <2>3, <2>5, OneMoves
<1>8. CASE Requests(a, "wifi", "config") /\ UNCHANGED <<client, served>>
  <2>1. /\ phase' \in [ActionIds -> Phases] /\ late' \in [ActionIds -> BOOLEAN]
        /\ asked' \in [ActionIds -> Requested]
        /\ phase'[a] = "wifi" /\ asked'[a] = "config" /\ results' = results
        /\ \A b \in ActionIds \ {a} : phase'[b] = phase[b] /\ asked'[b] = asked[b]
    <3>1. "wifi" \in Phases /\ "config" \in Requested
      BY DEF Phases, Requested
    <3> QED BY <1>8, <3>1, RequestsFacts
  <2>2. ScnType'
    BY <1>1, <1>2, <1>4, <1>5, <1>8, <2>1 DEF ScnType
  <2>3. \A b \in ActionIds \ {a} : Same(b)
    BY <1>1, <1>4, <1>5, <1>8, <2>1 DEF Same
  <2>4. ActionInv(a)'
    BY <1>1, <1>2, <1>5, <1>8, <2>1 DEF ActionInv, Open, Answered
  <2> QED BY <2>2, <2>3, <2>4, OneMoves
<1>9. CASE f = "wifi_ok"
  <2>1. /\ client' = [client EXCEPT ![a] = FALSE] /\ Emit(a, "ok")
        /\ UNCHANGED <<phase, late, served, asked>>
    BY <1>6, <1>9 DEF Handles
  <2>2. /\ results' \in [ActionIds -> Seq(Verdicts)] /\ Len(results'[a]) = 1
        /\ \A b \in ActionIds \ {a} : results'[b] = results[b]
    <3>1. "ok" \in Verdicts
      BY DEF Verdicts
    <3> QED BY <1>1, <2>1, <3>1, FirstResult
  <2>3. client' \in [ActionIds -> BOOLEAN] /\ ~client'[a]
        /\ \A b \in ActionIds \ {a} : client'[b] = client[b]
    BY <1>2, <2>1 DEF ScnType
  <2>4. ScnType'
    BY <1>1, <1>2, <1>4, <1>5, <2>1, <2>2, <2>3 DEF ScnType
  <2>5. \A b \in ActionIds \ {a} : Same(b)
    BY <1>1, <1>4, <1>5, <2>1, <2>2, <2>3 DEF Same
  <2>6. ActionInv(a)'
    BY <1>1, <1>2, <1>4, <1>5, <1>9, <2>1, <2>2, <2>3 DEF ActionInv, Open
  <2> QED BY <2>4, <2>5, <2>6, OneMoves
<1> QED BY <1>4, <1>6, <1>7, <1>8, <1>9 DEF Handles, SendsConfig, Frames

\* A frame of the server: a wifi_result ok is sent as the network is taken.
LEMMA ServerSendsKeeps ==
    ASSUME ScnInv, NEW a \in ActionIds, NEW f \in Frames, ServerSends(a, f)
    PROVE  ScnInv'
<1> USE DEF file, timing, attempt
<1>1. /\ served[a] # "none" /\ inFlight' = [inFlight EXCEPT ![a] = Append(inFlight[a], f)]
      /\ UNCHANGED <<file, seen, at, timing, attempt, shut, results, stop, ended>>
  BY DEF ServerSends
<1>2. ActionInv(a) /\ ScnType
  BY DEF ScnInv
<1>3. /\ inFlight' \in [ActionIds -> Seq(Frames)]
      /\ inFlight'[a] = Append(inFlight[a], f)
      /\ \A b \in ActionIds \ {a} : inFlight'[b] = inFlight[b]
  BY <1>1, <1>2 DEF ScnType
<1>4. /\ served' \in [ActionIds -> Views] /\ asked' \in [ActionIds -> Requested]
      /\ \A b \in ActionIds \ {a} : served'[b] = served[b] /\ asked'[b] = asked[b]
      /\ asked'[a] = "auth" => served'[a] = served[a] /\ asked[a] = "auth"
      /\ served[a] = "taken" => served'[a] = "taken"
      /\ f = "wifi_ok" => served'[a] = "taken"
  <2>1. CASE f \in {"auth_ok", "auth_fail"}
    <3>1. /\ asked[a] = "auth" /\ asked' = [asked EXCEPT ![a] = "none"]
          /\ served' = [served EXCEPT ![a] = IF f = "auth_ok" THEN "authed" ELSE served[a]]
      BY <2>1 DEF ServerSends
    <3>2. served[a] = "new"
      BY <1>2, <3>1 DEF ActionInv
    <3> QED BY <1>2, <2>1, <3>1, <3>2 DEF ScnType, Views, Requested
  <2>2. CASE f \in {"wifi_ok", "wifi_fail"}
    <3>1. /\ served[a] = "authed" /\ asked' = [asked EXCEPT ![a] = "none"]
          /\ served' = [served EXCEPT ![a] = IF f = "wifi_ok" THEN "taken" ELSE served[a]]
      BY <2>2 DEF ServerSends
    <3> QED BY <1>2, <2>2, <3>1 DEF ScnType, Views, Requested
  <2>3. CASE f = "other"
    <3>1. UNCHANGED <<asked, served>>
      BY <2>3 DEF ServerSends
    <3> QED BY <1>2, <2>3, <3>1 DEF ScnType
  <2> QED BY <2>1, <2>2, <2>3 DEF Frames
<1>5. Has(inFlight'[a], "wifi_ok") => f = "wifi_ok" \/ Has(inFlight[a], "wifi_ok")
  BY <1>2, <1>3, HasAppended DEF ScnType
<1>6. ScnType'
  BY <1>1, <1>2, <1>3, <1>4 DEF ScnType
<1>7. \A b \in ActionIds \ {a} : Same(b)
  BY <1>1, <1>3, <1>4 DEF Same
<1>8. Has(rxBuf'[a], "wifi_ok") \/ Has(inFlight'[a], "wifi_ok") => served'[a] = "taken"
  BY <1>1, <1>2, <1>4, <1>5 DEF ActionInv
<1>9. served'[a] # "none" => phase'[a] # "idle"
  BY <1>1, <1>2 DEF ActionInv
<1>10. ActionInv(a)'
  BY <1>1, <1>2, <1>4, <1>8, <1>9 DEF ActionInv, Open, Answered
<1> QED BY <1>6, <1>7, <1>10, OneMoves

\* Whatever the server, the clock, the events and the stop do, every action has
\* at most one result, none before its event, its client's socket is closed with
\* it, and it is "ok" only for a network the server has taken
\* (scenario_engine.c:210-347, 560-591).
THEOREM ScenarioResultsAreSound == ScnSpec => []ResultsAreSound
<1>1. ScnInit => ScnInv
  <2> SUFFICES ASSUME ScnInit PROVE ScnInv
    OBVIOUS
  <2>1. <<>> \in Seq(Frames) /\ <<>> \in Seq(Verdicts) /\ Len(<<>>) = 0
    OBVIOUS
  <2>2. ScnType
    BY <2>1 DEF ScnInit, ScnType, Phases, Views, Requested
  <2>3. ASSUME NEW a \in ActionIds
        PROVE  ActionInv(a)
    <3>1. /\ results[a] = <<>> /\ rxBuf[a] = <<>> /\ inFlight[a] = <<>>
          /\ armed[a] = FALSE /\ client[a] = FALSE
          /\ served[a] = "none" /\ asked[a] = "none"
      BY DEF ScnInit
    <3>2. <<>> # <<"ok">>
      OBVIOUS
    <3> QED BY <2>1, <3>1, <3>2, HasNone DEF ActionInv, Answered
  <2> QED BY <2>2, <2>3 DEF ScnInv
<1>2. ScnInv /\ [ScnNext]_scnVars => ScnInv'
  <2> SUFFICES ASSUME ScnInv, [ScnNext]_scnVars PROVE ScnInv'
    OBVIOUS
  <2> USE DEF file, timing, attempt, server
  <2>0. ScnType
    BY DEF ScnInv
  <2>1. CASE UNCHANGED scnVars \/ RoundStarts \/ StopFromOutside \/ EngineDestroy
             \/ \E a \in ActionIds : Skip(a)
    <3>1. /\ UNCHANGED <<file, seen, timing, attempt, server, results>>
      BY <2>1 DEF scnVars, RoundStarts, StopFromOutside, EngineDestroy, Skip
    <3>2. ScnType' /\ \A b \in ActionIds : Same(b)
      BY <2>0, <3>1 DEF ScnType, Same
    <3> QED BY <3>2, AllSame
  <2>2. CASE EventHappens
    <3>1. seen \subseteq seen' /\ UNCHANGED <<file, timing, attempt, server, results>>
      BY <2>2 DEF EventHappens
    <3>2. ScnType' /\ \A b \in ActionIds : Same(b)
      BY <2>0, <3>1 DEF ScnType, Same
    <3> QED BY <3>2, AllSame
  <2>3. CASE TimePasses
    <3>1. /\ late' \in [ActionIds -> BOOLEAN]
          /\ UNCHANGED <<file, seen, armed, phase, client, rxBuf, server, results>>
      BY <2>0, <2>3 DEF TimePasses, ScnType
    <3>2. ScnType' /\ \A b \in ActionIds : Same(b)
      BY <2>0, <3>1 DEF ScnType, Same
    <3> QED BY <3>2, AllSame
  <2>4. ASSUME NEW a \in ActionIds, Arm(a)
        PROVE  ScnInv'
    <3>1. /\ kind[a] # "pc" /\ Open(a) /\ armed' = [armed EXCEPT ![a] = TRUE]
          /\ UNCHANGED <<file, seen, due, attempt, server, results>>
      BY <2>4 DEF Arm
    <3>2. ScnType' /\ \A b \in ActionIds \ {a} : Same(b)
      BY <2>0, <3>1 DEF ScnType, Same
    <3>3. ActionInv(a) /\ armed'[a]
      BY <2>0, <3>1 DEF ScnInv, ScnType
    <3>4. ActionInv(a)'
      BY <3>1, <3>3 DEF ActionInv, Open, Has, Answered
    <3> QED BY <3>2, <3>4, OneMoves
  <2>5. ASSUME NEW a \in ActionIds, SendAppData(a) \/ InjectFault(a) \/ ScnRequestStop(a)
        PROVE  ScnInv'
    <3>1. PICK k \in {"send_app_data", "inject_fault", "request_stop"}, r \in Verdicts :
            /\ Executes(a, k) /\ Emit(a, r)
            /\ UNCHANGED <<file, seen, timing, attempt, server>>
      <4>1. CASE SendAppData(a)
        BY <4>1 DEF SendAppData, Verdicts
      <4>2. CASE InjectFault(a)
        BY <4>2 DEF InjectFault, Verdicts
      <4>3. CASE ScnRequestStop(a)
        BY <4>3 DEF ScnRequestStop, Verdicts
      <4> QED BY <2>5, <4>1, <4>2, <4>3
    <3> QED BY <3>1, PlainKeeps
  <2>6. ASSUME NEW a \in ActionIds, ConnectFails(a)
        PROVE  ScnInv'
    <3>1. /\ late' \in [ActionIds -> BOOLEAN]
          /\ UNCHANGED <<file, seen, timing, phase, client, rxBuf, server, results>>
      BY <2>0, <2>6 DEF ConnectFails, ScnType
    <3>2. ScnType' /\ \A b \in ActionIds : Same(b)
      BY <2>0, <3>1 DEF ScnType, Same
    <3> QED BY <3>2, AllSame
  <2>7. ASSUME NEW a \in ActionIds, ServerCloses(a)
        PROVE  ScnInv'
    <3>1. UNCHANGED <<file, seen, timing, attempt, served, asked, inFlight, results>>
      BY <2>7 DEF ServerCloses
    <3>2. ScnType' /\ \A b \in ActionIds : Same(b)
      BY <2>0, <3>1 DEF ScnType, Same
    <3> QED BY <3>2, AllSame
  <2> QED BY <2>1, <2>2, <2>3, <2>4, <2>5, <2>6, <2>7, ConnectsKeeps, KeepsWaitingKeeps,
             ProtocolErrorKeeps, RepliedKeeps, ServerSendsKeeps DEF ScnNext
<1> QED BY <1>1, <1>2, InvIsSound, PTL DEF ScnSpec

-----------------------------------------------------------------------------
(* The simulated radio *)

\* The variables of the simulated radio the invariant is about.
SimTypes ==
    /\ life \in [Procs -> {"none", "alive", "publish", "remove", "dead"}]
    /\ index \in [Devices -> Indices \cup {None}]
    /\ leaving \in [Devices -> BOOLEAN] /\ started \in [Devices -> BOOLEAN]
    /\ catalog \in [Indices -> {None} \cup [owner : Devices, old : BOOLEAN]]
    /\ stuck \subseteq Indices

\* The record of an index is a process's.
Made(i, p) == Published(i) /\ catalog[i].owner = p

\* The strengthening: processes that live have indices of their own, records
\* are made by their owner under its index, and a record that is not stuck
\* and has a living owner is that of a started hotspot.
OwnersInv ==
    /\ \A p \in Devices : Alive(p) => index[p] \in Indices
    /\ \A p, q \in Devices : Alive(p) /\ Alive(q) /\ index[p] = index[q] => p = q
    /\ \A i \in Indices, p \in Devices : Made(i, p) =>
        /\ life[p] # "none"
        /\ Alive(p) => index[p] = i /\ (started[p] \/ i \in stuck)
    /\ \A p \in Devices : started[p] =>
        Alive(p) /\ Made(index[p], p)

\* The invariant of the simulated radio.
SimInv == SimTypes /\ OwnersInv

\* A record is told from none.
LEMMA RecordIsNotNone == \A r \in [owner : Devices, old : BOOLEAN] : r # None
BY SimAssumption

\* A record of the catalog has an owner, and while the owner lives the record is
\* that of its index and of a started hotspot, unless it could not be removed
\* (sim_backend.c, sim_ap_catalog).
THEOREM SimInvariant == Spec => []SimInv
<1>1. Init => SimInv
  BY SimAssumption DEF Init, SimInv, SimTypes, OwnersInv, Made, Procs, Alive, Published
<1>2. SimInv /\ [Next]_vars => SimInv'
  <2> SUFFICES ASSUME SimInv, [Next]_vars PROVE SimInv'
    OBVIOUS
  <2> USE DEF SimInv, SimTypes, OwnersInv, Made, Procs, Alive, Published
  <2>1. ASSUME NEW p \in Devices, Create(p) PROVE SimInv'
    BY <2>1, SimAssumption DEF Create
  <2>2. ASSUME NEW p \in Devices, ApStart(p) PROVE SimInv'
    BY <2>2, SimAssumption DEF ApStart, Calls
  <2>3. ASSUME NEW p \in Devices, Publish(p) PROVE SimInv'
    <3>1. life[p] = "publish" /\ life' = [life EXCEPT ![p] = "alive"]
          /\ UNCHANGED <<index, leaving>> /\ index[p] \in Indices
      BY <2>3 DEF Publish
    <3>2. CASE /\ catalog' = [catalog EXCEPT ![index[p]] = [owner |-> p, old |-> FALSE]]
               /\ started' = [started EXCEPT ![p] = TRUE]
               /\ stuck' = stuck \ {index[p]}
      <4> DEFINE r == [owner |-> p, old |-> FALSE]
      <4>1. r \in [owner : Devices, old : BOOLEAN] /\ r.owner = p
        OBVIOUS
      <4>5. catalog' = [catalog EXCEPT ![index[p]] = r]
        BY <3>2
      <4> HIDE DEF r
      <4>2. /\ catalog'[index[p]] = r /\ r # None
            /\ \A i \in Indices : i # index[p] => catalog'[i] = catalog[i]
        BY <3>1, <4>1, <4>5, SimAssumption
      <4>3. SimTypes'
        BY <3>1, <3>2, <4>1, <4>5
      <4>4. OwnersInv'
        <5>1. \A i \in Indices : catalog'[i] # None =>
                 i = index[p] \/ (catalog[i] # None /\ i # index[p])
          BY <4>2
        <5>2. \A q \in Devices : /\ Alive(q)' <=> Alive(q)
                               /\ life'[q] # "none" <=> life[q] # "none"
          BY <3>1
        <5>3. \A i \in Indices : i # index[p] => (i \in stuck' <=> i \in stuck)
          BY <3>2
        <5>4. \A q \in Devices : q # p => started'[q] = started[q]
          BY <3>2
        <5>5. started'[p] /\ life'[p] = "alive"
          BY <3>1, <3>2
        <5> QED BY <3>1, <4>1, <4>2, <5>1, <5>2, <5>3, <5>4, <5>5
      <4> QED BY <4>3, <4>4
    <3>3. CASE UNCHANGED <<catalog, started, stuck>>
      BY <3>1, <3>3
    <3> QED BY <2>3, <3>2, <3>3 DEF Publish
  <2>4. ASSUME NEW p \in Devices, ApStop(p) PROVE SimInv'
    <3>1. life[p] = "alive" /\ life' = [life EXCEPT ![p] = "remove"]
          /\ UNCHANGED <<index, started, catalog, stuck>> /\ leaving' \in [Devices -> BOOLEAN]
      BY <2>4 DEF ApStop, Calls
    <3> QED BY <3>1
  <2>5. ASSUME NEW p \in Devices, Remove(p) PROVE SimInv'
    <3>1. /\ life[p] = "remove" /\ index[p] \in Indices
          /\ started' = [started EXCEPT ![p] = FALSE] /\ leaving' \in [Devices -> BOOLEAN]
      BY <2>5 DEF Remove
    <3>2. \/ life' = [life EXCEPT ![p] = "dead"] /\ index' = [index EXCEPT ![p] = None]
          \/ life' = [life EXCEPT ![p] = "alive"] /\ index' = index
      BY <2>5 DEF Remove, Ends
    <3>3. \/ catalog' = [catalog EXCEPT ![index[p]] = None] /\ stuck' = stuck \ {index[p]}
          \/ stuck' = stuck \cup {index[p]} /\ catalog' = catalog
      BY <2>5 DEF Remove
    <3>4. SimTypes'
      BY <3>1, <3>2, <3>3
    <3>5. OwnersInv'
      <4>1. \A i \in Indices : Published(i)' => Published(i) /\ catalog'[i] = catalog[i]
        BY <3>1, <3>3
      <4>2. \A q \in Devices : Alive(q)' => Alive(q) /\ index'[q] = index[q]
        BY <3>1, <3>2
      <4>3. \A i \in Indices : i # index[p] =>
              (Published(i)' <=> Published(i)) /\ (i \in stuck' <=> i \in stuck)
        BY <3>1, <3>3
      <4>4. \A q \in Devices : started'[q] => q # p /\ started[q]
        BY <3>1
      <4>5. \A q \in Devices : q # p => life'[q] = life[q] /\ index'[q] = index[q]
                                       /\ started'[q] = started[q]
        BY <3>1, <3>2
      <4>6. life'[p] # "none"
        BY <3>2
      <4>7. catalog'[index[p]] # None => index[p] \in stuck'
        BY <3>1, <3>3
      <4> QED BY <3>1, <4>1, <4>2, <4>3, <4>4, <4>5, <4>6, <4>7
    <3> QED BY <3>4, <3>5
  <2>6. ASSUME NEW p \in Devices, Destroy(p) PROVE SimInv'
    BY <2>6, SimAssumption DEF Destroy, Calls, Ends
  <2>7. ASSUME NEW p \in Devices, Crash(p) PROVE SimInv'
    BY <2>7, SimAssumption DEF Crash, Ends
  <2>8. CASE UNCHANGED <<life, index, leaving, started, catalog, stuck>>
    BY <2>8
  <2>9. CASE LinkNext
    BY <2>8, <2>9 DEF LinkNext, Connect, Disconnect, Inject, InjectMismatch, InjectSendFail,
                Send, apVars
  <2>10. ASSUME NEW i \in Indices, Ages(i) PROVE SimInv'
    <3>1. catalog[i] \in [owner : Devices, old : BOOLEAN]
      BY <2>10 DEF Ages
    <3>2. catalog' = [catalog EXCEPT ![i] = [catalog[i] EXCEPT !.old = TRUE]]
      BY <2>10 DEF Ages
    <3>3. [catalog[i] EXCEPT !.old = TRUE] \in [owner : Devices, old : BOOLEAN]
      BY <3>1
    <3>4. [catalog[i] EXCEPT !.old = TRUE].owner = catalog[i].owner
      BY <3>1
    <3>5. \A j \in Indices, q \in Devices : Made(j, q)' <=> Made(j, q)
      <4>1. catalog'[i] # None /\ catalog[i] # None /\ catalog'[i].owner = catalog[i].owner
        <5>1. catalog'[i] = [catalog[i] EXCEPT !.old = TRUE]
          BY <3>2
        <5>2. catalog[i] # None /\ [catalog[i] EXCEPT !.old = TRUE] # None
          BY <3>1, <3>3, RecordIsNotNone
        <5> HIDE DEF SimInv, SimTypes, OwnersInv
        <5> QED BY <3>4, <5>1, <5>2
      <4>2. \A j \in Indices : j # i => catalog'[j] = catalog[j]
        BY <3>2
      <4> QED BY <4>1, <4>2
    <3>6. SimTypes'
      BY <2>10, <3>2, <3>3 DEF Ages, apVars
    <3>7. OwnersInv'
      <4>1. UNCHANGED <<life, index, started, stuck>>
        BY <2>10 DEF Ages, apVars
      <4>2. \A q \in Devices : started[q] => index[q] \in Indices
        OBVIOUS
      <4>3. ASSUME NEW q \in Devices, started[q] PROVE Made(index[q], q)'
        <5>1. index[q] \in Indices /\ Made(index[q], q)
          BY <4>3
        <5>2. \A j \in Indices : Made(j, q) => Made(j, q)'
          BY <3>5
        <5> QED BY <4>1, <5>1, <5>2
      <4> QED BY <3>5, <4>1, <4>3
    <3> QED BY <3>6, <3>7
  <2>11. CASE UNCHANGED vars
    BY <2>8, <2>11 DEF vars, apVars
  <2> QED BY <2>1, <2>2, <2>3, <2>4, <2>5, <2>6, <2>7, <2>9, <2>10, <2>11
          DEF Next, DeviceNext
<1> QED BY <1>1, <1>2, PTL DEF Spec

\* What a scan lists is a hotspot that is up, or one whose owner died less than the
\* time-out ago, or a record that could not be removed (sim_backend.c, sim_backend.cpp).
THEOREM SimCatalogIsTrue == Spec => []CatalogIsTrue
<1>1. SimInv => CatalogIsTrue
  BY SimAssumption DEF SimInv, SimTypes, OwnersInv, Made, CatalogIsTrue,
        PcScan, PcListed, DeviceScan, Listed, Published, Alive, Procs
<1> QED BY <1>1, SimInvariant, PTL

-----------------------------------------------------------------------------
(* The sockets *)

\* The outcome of a system call ends the operation without a handle for the caller.
EndsAt(s, o) == s.on[o] \notin {"next", "given", "done"}

\* A call on a handle: where it ends the operation it closes the handle.
CallOk(s) ==
    /\ s.call # "open"
    /\ \A o \in DOMAIN s.on : s.on[o] # "given" /\ (EndsAt(s, o) => s.closes)
    /\ s.call = "nonblock" => DOMAIN s.on = {"ok", "failed"} /\ s.on["ok"] = "next"

\* A call that sets the mode of its handle; on Linux a failure ends the operation.
SetsMode(s, b) == s.call = "nonblock" /\ (b = "linux" => EndsAt(s, "failed"))

\* No outcome of the call gives the caller the handle at once, or none goes on.
NoGift(s) == \A o \in DOMAIN s.on : s.on[o] # "done"
NeverGoesOn(s) == \A o \in DOMAIN s.on : EndsAt(s, o)

\* The i-th call sets the mode of the handle before the caller gets it, or he
\* never gets it.
SetAt(c, b, i) ==
    /\ \A j \in 1..i : NoGift(c[j])
    /\ SetsMode(c[i], b) \/ NeverGoesOn(c[i])

\* What is left of an operation that has opened its handle.
CallsOk(c) == \A i \in 1..Len(c) : CallOk(c[i])
WillBeSet(c, b) == \E i \in 1..Len(c) : SetAt(c, b, i)

IsSeq(c) == \E S : c \in Seq(S)

\* An operation as a whole.
Opening(s) ==
    /\ s.call = "open" /\ "ok" \in DOMAIN s.on /\ s.on["ok"] = "next" /\ NoGift(s)
    /\ \A o \in DOMAIN s.on : o # "ok" => EndsAt(s, o)
ChainOk(c, b) ==
    /\ IsSeq(c) /\ Len(c) > 1 /\ Opening(c[1])
    /\ \A i \in 2..Len(c) : CallOk(c[i])
    /\ \E i \in 2..Len(c) : SetAt(c, b, i)

\* The calls the operations of all backends are made of.
LEMMA CallFacts ==
    ASSUME NEW r \in {"err", "again", "timeout"}, NEW q \in {"err", "again", "timeout", "next"},
           NEW c, c # "open"
    PROVE  /\ Opening(Opens(r)) /\ Opening(Accepts(r))
           /\ CallOk(Ignored(c)) /\ NoGift(Ignored(c)) /\ Ignored(c).call = c
           /\ CallOk(Checked(c, r)) /\ NoGift(Checked(c, r)) /\ Checked(c, r).call = c
           /\ EndsAt(Checked(c, r), "failed")
           /\ CallOk(Dials(r, "done")) /\ CallOk(Waits(r)) /\ CallOk(Asks(r, q))
BY DEF Opens, Accepts, Ignored, Checked, Dials, Waits, Asks, Opening, NoGift, CallOk, EndsAt

\* The calls of an operation are a sequence.
LEMMA TupleFacts ==
    ASSUME NEW u, NEW v, NEW w, NEW x, NEW y, NEW z
    PROVE  /\ IsSeq(<<u, v>>) /\ IsSeq(<<u, v, w>>)
           /\ IsSeq(<<u, v, w, x, y>>) /\ IsSeq(<<u, v, w, x, y, z>>)
<1> DEFINE S == {u, v, w, x, y, z}
<1>1. <<u, v>> \in Seq(S) /\ <<u, v, w>> \in Seq(S)
  OBVIOUS
<1>2. <<u, v, w, x, y>> \in Seq(S)
  OBVIOUS
<1>3. <<u, v, w, x, y, z>> \in Seq(S)
  OBVIOUS
<1> HIDE DEF S
<1> QED BY <1>1, <1>2, <1>3 DEF IsSeq

\* sendto, the last call of udp_send, closes the handle either way.
LEMMA SendFacts ==
    ASSUME NEW r \in {"sent", "err"}
    PROVE  CallOk(Sends(r)) /\ NoGift(Sends(r)) /\ NeverGoesOn(Sends(r))
BY DEF Sends, NoGift, CallOk, EndsAt, NeverGoesOn

\* When an operation is sound.
CallsFit(c, n, i) ==
    /\ IsSeq(c) /\ Len(c) = n /\ Opening(c[1])
    /\ \A j \in 2..n : CallOk(c[j])
    /\ \A j \in 2..i : NoGift(c[j])

\* An operation is sound if its calls are and the i-th sets the mode, or ends it.
LEMMA IsChain ==
    ASSUME NEW c, NEW b, NEW n \in Nat, n > 1, NEW i \in 2..n, CallsFit(c, n, i),
           SetsMode(c[i], b) \/ NeverGoesOn(c[i])
    PROVE  ChainOk(c, b)
<1> USE DEF CallsFit
<1>1. SetAt(c, b, i)
  <2>1. ASSUME NEW j \in 1..i PROVE NoGift(c[j])
    BY DEF Opening
  <2> QED BY <2>1 DEF SetAt
<1>2. \E k \in 2..Len(c) : SetAt(c, b, k)
  BY <1>1
<1>3. \A j \in 2..Len(c) : CallOk(c[j])
  OBVIOUS
<1> QED BY <1>2, <1>3 DEF ChainOk

\* listen: the mode of the handle is set first or last.
LEMMA ListenChains ==
    ASSUME NEW b
    PROVE  /\ ChainOk(LinuxListen, b)
           /\ b # "linux" => ChainOk(SimListen, b)
           /\ b # "linux" => ChainOk(PcListen, b)
           /\ b # "linux" => ChainOk(PcSimListen, b)
           /\ b # "linux" => ChainOk(WinListen, b)
<1>1. ChainOk(LinuxListen, b)
  <2> DEFINE c == LinuxListen
  <2>1. /\ IsSeq(c) /\ Len(c) = 5 /\ c[1] = Opens("err") /\ c[2] = Ignored("reuse")
        /\ c[3] = Checked("bind", "err") /\ c[4] = Checked("listen", "err")
        /\ c[5] = Checked("nonblock", "err")
    BY TupleFacts DEF LinuxListen
  <2> HIDE DEF c
  <2>2. CallsFit(c, 5, 5)
    BY <2>1, CallFacts DEF CallsFit
  <2>3. SetsMode(c[5], b)
    BY <2>1, CallFacts DEF SetsMode
  <2> QED BY <2>2, <2>3, IsChain DEF c
<1>2. b # "linux" => ChainOk(SimListen, b)
  <2> DEFINE c == SimListen
  <2>1. /\ IsSeq(c) /\ Len(c) = 5 /\ c[1] = Opens("err") /\ c[2] = Ignored("nonblock")
        /\ c[3] = Ignored("reuse") /\ c[4] = Checked("bind", "err")
        /\ c[5] = Checked("listen", "err")
    BY TupleFacts DEF SimListen
  <2> HIDE DEF c
  <2>2. CallsFit(c, 5, 2)
    BY <2>1, CallFacts DEF CallsFit
  <2>3. b # "linux" => SetsMode(c[2], b)
    BY <2>1, CallFacts DEF SetsMode
  <2> QED BY <2>2, <2>3, IsChain DEF c
<1>3. b # "linux" => ChainOk(WinListen, b)
  <2> DEFINE c == WinListen
  <2>1. /\ IsSeq(c) /\ Len(c) = 5 /\ c[1] = Opens("err") /\ c[2] = Ignored("exclusive")
        /\ c[3] = Checked("bind", "err") /\ c[4] = Checked("listen", "err")
        /\ c[5] = Ignored("nonblock")
    BY TupleFacts DEF WinListen
  <2> HIDE DEF c
  <2>2. CallsFit(c, 5, 5)
    BY <2>1, CallFacts DEF CallsFit
  <2>3. b # "linux" => SetsMode(c[5], b)
    BY <2>1, CallFacts DEF SetsMode
  <2> QED BY <2>2, <2>3, IsChain DEF c
<1>4. PcListen = SimListen /\ PcSimListen = SimListen
  BY DEF SimListen, PcListen, PcSimListen
<1> QED BY <1>1, <1>2, <1>3, <1>4

\* accept.
LEMMA AcceptChains ==
    ASSUME NEW b
    PROVE  /\ ChainOk(LinuxAccept, b)
           /\ b # "linux" => ChainOk(SimAccept, b)
           /\ b # "linux" => ChainOk(PcAccept, b)
           /\ b # "linux" => ChainOk(PcSimAccept, b)
<1>1. ChainOk(LinuxAccept, b)
  <2> DEFINE c == LinuxAccept
  <2>1. /\ IsSeq(c) /\ Len(c) = 2 /\ c[1] = Accepts("err")
        /\ c[2] = Checked("nonblock", "err")
    BY TupleFacts DEF LinuxAccept
  <2> HIDE DEF c
  <2>2. CallsFit(c, 2, 2)
    BY <2>1, CallFacts DEF CallsFit
  <2>3. SetsMode(c[2], b)
    BY <2>1, CallFacts DEF SetsMode
  <2> QED BY <2>2, <2>3, IsChain DEF c
<1>2. b # "linux" => ChainOk(SimAccept, b)
  <2> DEFINE c == SimAccept
  <2>1. /\ IsSeq(c) /\ Len(c) = 2 /\ c[1] = Accepts("again")
        /\ c[2] = Ignored("nonblock")
    BY TupleFacts DEF SimAccept
  <2> HIDE DEF c
  <2>2. CallsFit(c, 2, 2)
    BY <2>1, CallFacts DEF CallsFit
  <2>3. b # "linux" => SetsMode(c[2], b)
    BY <2>1, CallFacts DEF SetsMode
  <2> QED BY <2>2, <2>3, IsChain DEF c
<1>3. PcAccept = SimAccept /\ PcSimAccept = SimAccept
  BY DEF SimAccept, PcAccept, PcSimAccept
<1> QED BY <1>1, <1>2, <1>3

\* connect: the mode is set before the connection is asked for.
LEMMA ConnectChains ==
    ASSUME NEW b
    PROVE  /\ ChainOk(LinuxConnect, b)
           /\ b # "linux" => ChainOk(SimConnect, b)
           /\ b # "linux" => ChainOk(PcConnect, b)
           /\ b # "linux" => ChainOk(PcSimConnect, b)
           /\ b # "linux" => ChainOk(WinConnect, b)
<1>1. ChainOk(LinuxConnect, b)
  <2> DEFINE c == LinuxConnect
  <2>1. /\ IsSeq(c) /\ Len(c) = 5 /\ c[1] = Opens("err")
        /\ c[2] = Checked("nonblock", "err") /\ c[3] = Dials("err", "done")
        /\ c[4] = Waits("err") /\ c[5] = Asks("err", "err")
    BY TupleFacts DEF LinuxConnect
  <2> HIDE DEF c
  <2>2. CallsFit(c, 5, 2)
    BY <2>1, CallFacts DEF CallsFit
  <2>3. SetsMode(c[2], b)
    BY <2>1, CallFacts DEF SetsMode
  <2> QED BY <2>2, <2>3, IsChain DEF c
<1>2. b # "linux" => ChainOk(SimConnect, b)
  <2> DEFINE c == SimConnect
  <2>1. /\ IsSeq(c) /\ Len(c) = 6 /\ c[1] = Opens("err") /\ c[2] = Ignored("nonblock")
        /\ c[3] = Dials("timeout", "done") /\ c[4] = Waits("timeout")
        /\ c[5] = Asks("timeout", "next") /\ c[6] = Ignored("nonblock")
    BY TupleFacts DEF SimConnect
  <2> HIDE DEF c
  <2>2. CallsFit(c, 6, 2)
    BY <2>1, CallFacts DEF CallsFit
  <2>3. b # "linux" => SetsMode(c[2], b)
    BY <2>1, CallFacts DEF SetsMode
  <2> QED BY <2>2, <2>3, IsChain DEF c
<1>3. b # "linux" => ChainOk(WinConnect, b)
  <2> DEFINE c == WinConnect
  <2>1. /\ IsSeq(c) /\ Len(c) = 5 /\ c[1] = Opens("err") /\ c[2] = Ignored("nonblock")
        /\ c[3] = Dials("err", "done") /\ c[4] = Waits("timeout")
        /\ c[5] = Asks("err", "next")
    BY TupleFacts DEF WinConnect
  <2> HIDE DEF c
  <2>2. CallsFit(c, 5, 2)
    BY <2>1, CallFacts DEF CallsFit
  <2>3. b # "linux" => SetsMode(c[2], b)
    BY <2>1, CallFacts DEF SetsMode
  <2> QED BY <2>2, <2>3, IsChain DEF c
<1>4. PcConnect = SimConnect /\ PcSimConnect = SimConnect
  BY DEF SimConnect, PcConnect, PcSimConnect
<1> QED BY <1>1, <1>2, <1>3, <1>4

\* udp_join: the mode is set first or last.
LEMMA JoinChains ==
    ASSUME NEW b
    PROVE  /\ ChainOk(LinuxJoin, b)
           /\ b # "linux" => ChainOk(SimJoin, b)
           /\ b # "linux" => ChainOk(PcJoin, b)
           /\ b # "linux" => ChainOk(PcSimJoin, b)
<1>1. ChainOk(LinuxJoin, b)
  <2> DEFINE c == LinuxJoin
  <2>1. /\ IsSeq(c) /\ Len(c) = 5 /\ c[1] = Opens("err") /\ c[2] = Ignored("reuse")
        /\ c[3] = Checked("join", "err") /\ c[4] = Checked("bind", "err")
        /\ c[5] = Checked("nonblock", "err")
    BY TupleFacts DEF LinuxJoin
  <2> HIDE DEF c
  <2>2. CallsFit(c, 5, 5)
    BY <2>1, CallFacts DEF CallsFit
  <2>3. SetsMode(c[5], b)
    BY <2>1, CallFacts DEF SetsMode
  <2> QED BY <2>2, <2>3, IsChain DEF c
<1>2. b # "linux" => ChainOk(SimJoin, b)
  <2> DEFINE c == SimJoin
  <2>1. /\ IsSeq(c) /\ Len(c) = 5 /\ c[1] = Opens("err") /\ c[2] = Ignored("reuse")
        /\ c[3] = Checked("bind", "err") /\ c[4] = Checked("join", "err")
        /\ c[5] = Ignored("nonblock")
    BY TupleFacts DEF SimJoin
  <2> HIDE DEF c
  <2>2. CallsFit(c, 5, 5)
    BY <2>1, CallFacts DEF CallsFit
  <2>3. b # "linux" => SetsMode(c[5], b)
    BY <2>1, CallFacts DEF SetsMode
  <2> QED BY <2>2, <2>3, IsChain DEF c
<1>3. PcJoin = SimJoin /\ PcSimJoin = SimJoin
  BY DEF SimJoin, PcJoin, PcSimJoin
<1> QED BY <1>1, <1>2, <1>3

\* udp_send: no caller gets the handle.
LEMMA UdpSendChains ==
    ASSUME NEW b
    PROVE  /\ ChainOk(LinuxUdpSend, b)
           /\ b # "linux" => ChainOk(SimUdpSend, b)
           /\ b # "linux" => ChainOk(PcUdpSend, b)
           /\ b # "linux" => ChainOk(PcSimUdpSend, b)
<1>1. ChainOk(LinuxUdpSend, b)
  <2> DEFINE c == LinuxUdpSend
  <2>1. /\ IsSeq(c) /\ Len(c) = 3 /\ c[1] = Opens("err") /\ c[2] = Ignored("ttl")
        /\ c[3] = Sends("err")
    BY TupleFacts DEF LinuxUdpSend
  <2> HIDE DEF c
  <2>2. CallsFit(c, 3, 3)
    BY <2>1, CallFacts, SendFacts DEF CallsFit
  <2>3. NeverGoesOn(c[3])
    BY <2>1, SendFacts
  <2> QED BY <2>2, <2>3, IsChain DEF c
<1>2. b # "linux" => ChainOk(SimUdpSend, b)
  <2> DEFINE c == SimUdpSend
  <2>1. /\ IsSeq(c) /\ Len(c) = 3 /\ c[1] = Opens("err") /\ c[2] = Ignored("ttl")
        /\ c[3] = Sends("sent")
    BY TupleFacts DEF SimUdpSend
  <2> HIDE DEF c
  <2>2. CallsFit(c, 3, 3)
    BY <2>1, CallFacts, SendFacts DEF CallsFit
  <2>3. NeverGoesOn(c[3])
    BY <2>1, SendFacts
  <2> QED BY <2>2, <2>3, IsChain DEF c
<1>3. PcUdpSend = SimUdpSend /\ PcSimUdpSend = SimUdpSend
  BY DEF SimUdpSend, PcUdpSend, PcSimUdpSend
<1> QED BY <1>1, <1>2, <1>3

-----------------------------------------------------------------------------
\* Which calls the operations of a backend are made of.
LEMMA Operations ==
    ASSUME NEW b \in DOMAIN Chains, NEW c \in Chains[b]
    PROVE  ChainOk(c, b)
<1>1. DOMAIN Chains = {"linux", "sim", "pc", "pcsim", "win"}
  BY DEF Chains
<1>2. CASE b = "linux"
  BY <1>2, ListenChains, AcceptChains, ConnectChains, JoinChains, UdpSendChains DEF Chains
<1>3. CASE b = "sim"
  BY <1>3, ListenChains, AcceptChains, ConnectChains, JoinChains, UdpSendChains DEF Chains
<1>4. CASE b = "pc"
  BY <1>4, ListenChains, AcceptChains, ConnectChains, JoinChains, UdpSendChains DEF Chains
<1>5. CASE b = "pcsim"
  BY <1>5, ListenChains, AcceptChains, ConnectChains, JoinChains, UdpSendChains DEF Chains
<1>6. CASE b = "win"
  BY <1>6, ListenChains, AcceptChains, ConnectChains, JoinChains, UdpSendChains DEF Chains
<1> QED BY <1>1, <1>2, <1>3, <1>4, <1>5, <1>6

\* An operation that has opened its handle: if the handle may block, and that
\* is not a failure the backend ignores, its mode will be set.
AtWork ==
    /\ IsSeq(chain) /\ Len(chain) > 0 /\ CallsOk(chain) /\ cur # NoFd
    /\ cur \in waits /\ (backend = "linux" \/ cur \notin ignored) => WillBeSet(chain, backend)

SockInv ==
    /\ backend \in DOMAIN Chains /\ HandlesAreSound
    /\ NoFd \notin open /\ cur \notin held
    /\ \/ chain = <<>> /\ cur = NoFd
       \/ ChainOk(chain, backend) /\ cur = NoFd
       \/ AtWork

\* The first call of an operation is made, the others are still to come.
LEMMA RestFacts ==
    ASSUME NEW c, IsSeq(c), Len(c) > 0
    PROVE  /\ IsSeq(Tail(c)) /\ Len(c) \in Nat /\ Len(Tail(c)) = Len(c) - 1
           /\ Head(c) = c[1] /\ c # <<>>
           /\ \A i \in 1..Len(c) - 1 : Tail(c)[i] = c[i + 1]
<1>1. PICK S : c \in Seq(S)
  BY DEF IsSeq
<1>2. c # <<>>
  BY <1>1
<1>3. Tail(c) \in Seq(S) /\ Head(c) = c[1]
  BY <1>1, <1>2
<1>4. Len(Tail(c)) = Len(c) - 1 /\ Len(c) \in Nat
  BY <1>1, <1>2
<1>5. \A i \in 1..Len(c) - 1 : Tail(c)[i] = c[i + 1]
  BY <1>1, <1>2
<1> QED BY <1>2, <1>3, <1>4, <1>5 DEF IsSeq

\* A later call is still to come when the first one is made.
LEMMA RestWillBeSet ==
    ASSUME NEW c, IsSeq(c), Len(c) > 0, NEW b, NEW i \in 2..Len(c), SetAt(c, b, i)
    PROVE  WillBeSet(Tail(c), b)
<1>1. i - 1 \in 1..Len(Tail(c)) /\ Tail(c)[i - 1] = c[i]
  <2>1. i - 1 \in 1..Len(c) - 1 /\ (i - 1) + 1 = i
    BY RestFacts
  <2> QED BY <2>1, RestFacts
<1>2. ASSUME NEW j \in 1..i - 1 PROVE NoGift(Tail(c)[j])
  <2>1. j \in 1..Len(c) - 1 /\ j + 1 \in 1..i
    BY RestFacts
  <2>2. Tail(c)[j] = c[j + 1]
    BY <2>1, RestFacts
  <2> QED BY <2>1, <2>2 DEF SetAt
<1>3. SetAt(Tail(c), b, i - 1)
  BY <1>1, <1>2 DEF SetAt
<1> QED BY <1>1, <1>3 DEF WillBeSet

\* The calls behind the first one.
LEMMA RestCallsOk ==
    ASSUME NEW c, IsSeq(c), Len(c) > 0, \A i \in 2..Len(c) : CallOk(c[i])
    PROVE  CallsOk(Tail(c))
<1>1. ASSUME NEW i \in 1..Len(Tail(c)) PROVE CallOk(Tail(c)[i])
  <2>1. i \in 1..Len(c) - 1 /\ i + 1 \in 2..Len(c)
    BY RestFacts
  <2>2. Tail(c)[i] = c[i + 1]
    BY <2>1, RestFacts
  <2> QED BY <2>1, <2>2
<1> QED BY <1>1 DEF CallsOk

\* The first call opens a handle that is still to be set non-blocking.
LEMMA OpenKeeps == SockInv /\ OpenSucceeds => SockInv'
<1> SUFFICES ASSUME SockInv, OpenSucceeds PROVE SockInv'
  OBVIOUS
<1>1. PICK f \in Fds \ open :
        /\ cur' = f /\ open' = open \cup {f} /\ waits' = waits \cup {f}
        /\ ignored' = ignored \ {f}
        /\ chain # <<>> /\ Head(chain).call = "open" /\ chain' = Tail(chain)
        /\ UNCHANGED <<backend, held, rc>>
  BY DEF OpenSucceeds, Outcome, Idle
<1>2. ChainOk(chain, backend) /\ cur = NoFd
  <2>1. CASE AtWork
    <3>1. IsSeq(chain) /\ Len(chain) > 0 /\ 1 \in 1..Len(chain) /\ Head(chain) = chain[1]
      BY <2>1, RestFacts DEF AtWork
    <3> QED BY <1>1, <2>1, <3>1 DEF AtWork, CallsOk, CallOk
  <2> QED BY <1>1, <2>1 DEF SockInv
<1>3. IsSeq(chain) /\ Len(chain) > 1 /\ \A i \in 2..Len(chain) : CallOk(chain[i])
  BY <1>2 DEF ChainOk
<1>4. PICK i \in 2..Len(chain) : SetAt(chain, backend, i)
  BY <1>2 DEF ChainOk
<1>5. Len(chain) > 0 /\ IsSeq(Tail(chain)) /\ Len(Tail(chain)) > 0
  <2>1. Len(chain) \in Nat
    BY <1>3 DEF IsSeq
  <2> QED BY <1>3, <2>1, RestFacts
<1>6. WillBeSet(Tail(chain), backend) /\ CallsOk(Tail(chain))
  BY <1>3, <1>4, <1>5, RestWillBeSet, RestCallsOk
<1>7. AtWork'
  BY <1>1, <1>5, <1>6, SocketsAssumption DEF AtWork
<1>8. open = held /\ f \notin held /\ f # NoFd
  BY <1>1, <1>2, SocketsAssumption DEF SockInv, HandlesAreSound
<1> QED BY <1>1, <1>2, <1>7, <1>8 DEF SockInv, HandlesAreSound

\* The next call: the first opens a handle, any other is one on a handle.
LEMMA HeadFacts ==
    ASSUME SockInv, chain # <<>>
    PROVE  /\ IsSeq(chain) /\ Len(chain) \in Nat /\ Len(chain) > 0 /\ Head(chain) = chain[1]
           /\ AtWork \/ (Opening(Head(chain)) /\ Len(chain) > 1 /\ cur = NoFd)
           /\ AtWork => CallOk(Head(chain)) /\ cur # NoFd
<1>1. IsSeq(chain) /\ Len(chain) > 0
  <2>1. CASE ChainOk(chain, backend)
    <3>1. IsSeq(chain) /\ Len(chain) > 1
      BY <2>1 DEF ChainOk
    <3>2. Len(chain) \in Nat
      BY <3>1 DEF IsSeq
    <3> QED BY <3>1, <3>2
  <2> QED BY <2>1 DEF SockInv, AtWork
<1>2. Len(chain) \in Nat /\ Head(chain) = chain[1]
  BY <1>1, RestFacts
<1>3. AtWork \/ (Opening(Head(chain)) /\ Len(chain) > 1 /\ cur = NoFd)
  BY <1>2 DEF SockInv, ChainOk
<1>4. AtWork => CallOk(Head(chain)) /\ cur # NoFd
  <2>1. 1 \in 1..Len(chain)
    BY <1>1, <1>2
  <2> QED BY <1>2, <2>1 DEF AtWork, CallsOk
<1> QED BY <1>1, <1>2, <1>3, <1>4

\* A call goes on to the next: the mode is set, or is still to be.
LEMMA GoesOnKeeps == ASSUME SockInv, NEW o, GoesOn(o) PROVE SockInv'
<1> DEFINE s == Head(chain)
<1>1. /\ chain # <<>> /\ o \in DOMAIN s.on /\ s.on[o] = "next" /\ Len(chain) # 1
      /\ ~(s.call = "open" /\ o = "ok") /\ Mode(o) /\ chain' = Tail(chain)
      /\ UNCHANGED <<backend, cur, open, held, rc>>
  BY DEF GoesOn, Outcome, Idle, After, Continues
<1> HIDE DEF s
<1>2. AtWork /\ CallOk(s) /\ IsSeq(chain) /\ Len(chain) > 1 /\ s = chain[1]
      /\ Len(chain) \in Nat /\ Len(chain) > 0
  <2>1. ~Opening(s)
    BY <1>1 DEF Opening, EndsAt
  <2>2. AtWork /\ CallOk(s) /\ s = chain[1]
    BY <1>1, <2>1, HeadFacts DEF s
  <2>3. IsSeq(chain) /\ Len(chain) \in Nat /\ Len(chain) > 0
    BY <1>1, HeadFacts
  <2>4. Len(chain) > 1
    <3>1. Len(chain) # 1
      BY <1>1
    <3>2. \A n \in Nat : n > 0 /\ n # 1 => n > 1
      OBVIOUS
    <3> QED BY <2>3, <3>1, <3>2
  <2> QED BY <2>2, <2>3, <2>4
<1>3. IsSeq(Tail(chain)) /\ Len(Tail(chain)) > 0
  BY <1>2, RestFacts
<1>4. CallsOk(Tail(chain))
  <2>1. \A i \in 2..Len(chain) : CallOk(chain[i])
    BY <1>2 DEF AtWork, CallsOk
  <2> QED BY <1>2, <2>1, RestCallsOk
<1>5. waits' \subseteq waits /\ ignored \subseteq ignored'
  BY <1>1 DEF Mode
<1>6. ASSUME cur \in waits', backend = "linux" \/ cur \notin ignored'
      PROVE  WillBeSet(Tail(chain), backend)
  <2>1. PICK i \in 1..Len(chain) : SetAt(chain, backend, i)
    BY <1>2, <1>5, <1>6 DEF AtWork, WillBeSet
  <2>2. i # 1
    <3> SUFFICES ASSUME i = 1 PROVE FALSE
      OBVIOUS
    <3>1. SetsMode(s, backend) \/ NeverGoesOn(s)
      BY <1>2, <2>1 DEF SetAt
    <3>2. ~NeverGoesOn(s)
      BY <1>1 DEF NeverGoesOn, EndsAt
    <3>3. s.call = "nonblock" /\ o \in {"ok", "failed"}
      BY <1>1, <1>2, <3>1, <3>2 DEF SetsMode, CallOk
    <3>4. o = "failed" /\ cur \in ignored'
      BY <1>1, <1>6, <3>3 DEF Mode, s
    <3>5. backend = "linux" /\ EndsAt(s, "failed")
      BY <1>6, <3>1, <3>2, <3>4 DEF SetsMode
    <3> QED BY <1>1, <3>4, <3>5 DEF EndsAt
  <2> QED BY <1>2, <2>1, <2>2, RestWillBeSet
<1>7. AtWork'
  BY <1>1, <1>2, <1>3, <1>4, <1>6 DEF AtWork
<1> QED BY <1>1, <1>5, <1>7 DEF SockInv, HandlesAreSound

\* The caller gets the handle: its mode was set before.
LEMMA GivesKeeps == ASSUME SockInv, NEW o, Gives(o) PROVE SockInv'
<1> DEFINE s == Head(chain)
<1>1. /\ chain # <<>> /\ o \in DOMAIN s.on
      /\ s.on[o] = "done" \/ (s.on[o] = "next" /\ Len(chain) = 1)
      /\ Mode(o) /\ chain' = <<>> /\ cur' = NoFd /\ held' = held \cup {cur}
      /\ UNCHANGED <<backend, open>>
  <2>1. /\ Outcome(o) /\ After(o) \in {"given", "done"}
        /\ Mode(o) /\ chain' = <<>> /\ cur' = NoFd /\ held' = held \cup {cur}
        /\ UNCHANGED <<backend, open>>
    BY DEF Gives
  <2>2. chain # <<>> /\ o \in DOMAIN s.on
    BY <2>1 DEF Outcome, Idle
  <2>3. s.on[o] = "done" \/ (s.on[o] = "next" /\ Len(chain) = 1)
    <3>1. After(o) \in {"given", "done"}
      BY <2>1
    <3>2. CASE s.on[o] = "next"
      BY <3>1, <3>2 DEF After, Continues
    <3>3. CASE s.on[o] # "next"
      <4>1. After(o) = s.on[o]
        BY <3>3 DEF After
      <4>2. s.on[o] # "given"
        BY <2>2, HeadFacts DEF Opening, CallOk, EndsAt, s
      <4> QED BY <3>1, <4>1, <4>2
    <3> QED BY <3>2, <3>3
  <2> QED BY <2>1, <2>2, <2>3
<1> HIDE DEF s
<1>2. AtWork /\ CallOk(s) /\ IsSeq(chain) /\ s = chain[1] /\ cur # NoFd
      /\ Len(chain) \in Nat /\ Len(chain) > 0
  BY <1>1, HeadFacts DEF Opening, NoGift, s
<1>3. waits' \subseteq waits /\ ignored \subseteq ignored'
  BY <1>1 DEF Mode
<1>4. ASSUME cur \in waits', backend = "linux" \/ cur \notin ignored'
      PROVE  FALSE
  <2>1. PICK i \in 1..Len(chain) : SetAt(chain, backend, i)
    BY <1>2, <1>3, <1>4 DEF AtWork, WillBeSet
  <2>2. 1 \in 1..i /\ NoGift(s)
    BY <1>2, <2>1 DEF SetAt
  <2>3. s.on[o] = "next" /\ i = 1
    BY <1>1, <1>2, <2>1, <2>2 DEF NoGift
  <2>4. SetsMode(s, backend) \/ NeverGoesOn(s)
    BY <1>2, <2>1, <2>3 DEF SetAt
  <2>5. ~NeverGoesOn(s)
    BY <1>1, <2>3 DEF NeverGoesOn, EndsAt
  <2>6. s.call = "nonblock" /\ o \in {"ok", "failed"}
    BY <1>1, <1>2, <2>4, <2>5 DEF SetsMode, CallOk
  <2>7. o = "failed" /\ cur \in ignored'
    BY <1>1, <1>4, <2>6 DEF Mode, s
  <2>8. EndsAt(s, "failed")
    BY <1>4, <2>4, <2>5, <2>7 DEF SetsMode
  <2> QED BY <2>3, <2>7, <2>8 DEF EndsAt
<1>5. HandlesAreSound'
  BY <1>1, <1>2, <1>3, <1>4 DEF SockInv, HandlesAreSound
<1> QED BY <1>1, <1>2, <1>5 DEF SockInv, HandlesAreSound

\* An operation that fails closes the handle it has opened.
LEMMA RefusesKeeps == ASSUME SockInv, NEW o, Refuses(o) PROVE SockInv'
<1> DEFINE s == Head(chain)
<1>1. /\ chain # <<>> /\ o \in DOMAIN s.on /\ EndsAt(s, o)
      /\ chain' = <<>> /\ cur' = NoFd
      /\ open' = IF s.closes THEN open \ {cur} ELSE open
      /\ UNCHANGED <<backend, held, waits, ignored>>
  <2>1. /\ Outcome(o) /\ After(o) \notin {"next", "given", "done"}
        /\ chain' = <<>> /\ cur' = NoFd
        /\ open' = IF s.closes THEN open \ {cur} ELSE open
        /\ UNCHANGED <<backend, held, waits, ignored>>
    BY DEF Refuses
  <2> QED BY <2>1 DEF Outcome, Idle, After, Continues, EndsAt
<1> HIDE DEF s
<1>2. cur = NoFd \/ s.closes
  BY <1>1, HeadFacts DEF CallOk, s
<1>3. open' = held
  BY <1>1, <1>2 DEF SockInv, HandlesAreSound
<1> QED BY <1>1, <1>3 DEF SockInv, HandlesAreSound

\* In every backend an operation that has opened a handle closes it where it ends,
\* and sets it non-blocking before the caller gets it (linux_socket.c,
\* sim_socket.c, pc_socket_backend.cpp, sim_backend.cpp, win_backend.cpp).
THEOREM SocketsInvariant == SockSpec => []SockInv
<1>1. SockInit => SockInv
  BY DEF SockInit, SockInv, HandlesAreSound
<1>2. SockInv /\ [SockNext]_sockVars => SockInv'
  <2> SUFFICES ASSUME SockInv, [SockNext]_sockVars PROVE SockInv'
    OBVIOUS
  <2>1. CASE Call
    <3>1. ChainOk(chain', backend) /\ cur = NoFd
      BY <2>1, Operations, HeadFacts DEF Call, SockInv, Idle, AtWork, IsSeq
    <3> QED BY <2>1, <3>1 DEF Call, SockInv, HandlesAreSound
  <2>2. CASE Transfer
    BY <2>2 DEF Transfer, SockInv, HandlesAreSound, AtWork
  <2>3. CASE SockClose
    <3>1. chain = <<>> /\ cur = NoFd
      BY <2>3, Operations DEF SockClose, Idle, SockInv, ChainOk, AtWork
    <3> QED BY <2>3, <3>1 DEF SockClose, SockInv, HandlesAreSound
  <2>4. CASE UNCHANGED sockVars
    BY <2>4 DEF sockVars, SockInv, HandlesAreSound, AtWork
  <2> QED BY <2>1, <2>2, <2>3, <2>4, OpenKeeps, GoesOnKeeps, GivesKeeps, RefusesKeeps
          DEF SockNext
<1> QED BY <1>1, <1>2, PTL DEF SockSpec

\* Every open handle is one a caller holds or one at work, and the handles callers
\* hold do not block, but for a failure the host and the simulation ignore
\* (nal_socket of all backends).
THEOREM SocketsAreSound == SockSpec => []HandlesAreSound
<1>1. SockInv => HandlesAreSound
  BY DEF SockInv
<1> QED BY <1>1, SocketsInvariant, PTL
=============================================================================
