---------------------------- MODULE AppDataProofs ---------------------------
(***************************************************************************)
(* Proofs about the command ring and the path of a text to the wire, for   *)
(* every capacity, number of callers, commands and sessions.               *)
(***************************************************************************)
EXTENDS AppDataPath, SequenceTheorems, TLAPS

\* What device_cmd_queue.c assumes of its own fields.
RingOK ==
    /\ head \in Index
    /\ count \in 0 .. Capacity
    /\ DOMAIN slots = Index
    /\ slots = [i \in Index |-> slots[i]]

-----------------------------------------------------------------------------
(***************************************************************************)
(* The ring.                                                               *)
(***************************************************************************)

\* The index computed by push and pop: one wrap at most.
LEMMA RingIndex ==
    ASSUME NEW h \in Index, NEW i \in 0 .. Capacity
    PROVE  /\ (h + i) % Capacity \in Index
           /\ h + i < Capacity => (h + i) % Capacity = h + i
           /\ h + i >= Capacity => (h + i) % Capacity = h + i - Capacity
<1>1. Capacity \in Nat /\ Capacity > 0
  BY CapacityAssumption
<1>2. h \in Nat /\ h < Capacity /\ i \in Nat /\ i <= Capacity
  BY <1>1 DEF Index
<1>3. CASE h + i < Capacity
  <2>1. (h + i) % Capacity = h + i
    BY <1>1, <1>2, <1>3
  <2> QED BY <1>1, <1>2, <1>3, <2>1 DEF Index
<1>4. CASE h + i >= Capacity
  <2>1. (h + i) % Capacity = h + i - Capacity
    BY <1>1, <1>2, <1>4
  <2> QED BY <1>1, <1>2, <1>4, <2>1 DEF Index
<1> QED BY <1>1, <1>2, <1>3, <1>4

\* device_cmd_queue_push leaves the waiting commands alone and puts the new
\* one behind them.
LEMMA PushFacts ==
    ASSUME RingOK, NEW c, Push(c)
    PROVE  /\ RingOK'
           /\ count < Capacity /\ count' = count + 1
           /\ \A i \in 0 .. count - 1 : Waiting(i)' = Waiting(i)
           /\ \A i \in {count} : Waiting(i)' = c
<1>1. Capacity \in Nat /\ Capacity > 0 /\ count \in Nat /\ count < Capacity
  BY CapacityAssumption DEF RingOK, Push, QueueFull
<1>2. count' = count + 1 /\ head' = head /\ head \in Index
  BY DEF RingOK, Push
<1>3. (head + count) % Capacity \in Index
  BY <1>1, <1>2, RingIndex
<1>4. slots' = [slots EXCEPT ![(head + count) % Capacity] = c]
  BY DEF Push
<1>5. RingOK'
  BY <1>1, <1>2, <1>3, <1>4 DEF RingOK
<1>6. ASSUME NEW i \in {count}
      PROVE  Waiting(i)' = c
  BY <1>2, <1>3, <1>4 DEF Waiting, RingOK
<1>7. ASSUME NEW i \in 0 .. count - 1
      PROVE  Waiting(i)' = Waiting(i)
  <2>1. i \in 0 .. Capacity /\ count \in 0 .. Capacity /\ i < count
    BY <1>1
  <2>2. (head + i) % Capacity \in Index
    BY <1>2, <2>1, RingIndex
  <2>3. (head + i) % Capacity # (head + count) % Capacity
    BY <1>1, <1>2, <2>1, RingIndex DEF Index
  <2> QED BY <1>2, <1>4, <2>2, <2>3 DEF Waiting, RingOK
<1> QED BY <1>1, <1>2, <1>5, <1>6, <1>7

\* device_cmd_queue_pop takes the oldest command and keeps the order of the
\* others.
LEMMA PopFacts ==
    ASSUME RingOK, Pop
    PROVE  /\ RingOK'
           /\ count > 0 /\ count' = count - 1
           /\ \A i \in 0 .. count - 2 : Waiting(i)' = Waiting(i + 1)
<1>1. Capacity \in Nat /\ Capacity > 0 /\ count \in Nat /\ count > 0 /\ count <= Capacity
  BY CapacityAssumption DEF RingOK, Pop
<1>2. count' = count - 1 /\ head' = (head + 1) % Capacity /\ slots' = slots
      /\ head \in Index
  BY DEF RingOK, Pop
<1>3. head' \in Index
  BY <1>1, <1>2, RingIndex
<1>4. RingOK'
  BY <1>1, <1>2, <1>3 DEF RingOK
<1>5. ASSUME NEW i \in 0 .. count - 2
      PROVE  Waiting(i)' = Waiting(i + 1)
  <2>1. i \in 0 .. Capacity /\ i + 1 \in 0 .. Capacity /\ 1 \in 0 .. Capacity
    BY <1>1
  <2>2. (head' + i) % Capacity = (head + (i + 1)) % Capacity
    <3>1. CASE head + 1 < Capacity
      <4>1. head' = head + 1
        BY <1>2, <2>1, <3>1, RingIndex
      <4> QED BY <1>1, <1>2, <4>1 DEF Index
    <3>2. CASE head + 1 >= Capacity
      <4>1. head' = 0 /\ head = Capacity - 1
        BY <1>1, <1>2, <2>1, <3>2, RingIndex DEF Index
      <4>2. (0 + i) % Capacity = i
        BY <1>1, <2>1, RingIndex DEF Index
      <4>3. (head + (i + 1)) % Capacity = i
        BY <1>1, <1>2, <2>1, <4>1, RingIndex DEF Index
      <4> QED BY <4>1, <4>2, <4>3
    <3> QED BY <1>1, <1>2, <3>1, <3>2 DEF Index
  <2> QED BY <1>2, <2>2 DEF Waiting
<1> QED BY <1>1, <1>2, <1>4, <1>5

\* Queue, the sequence the ring stands for, is a sequence of Len count.
LEMMA QueueIsSeq ==
    ASSUME NEW S, count \in Nat, \A i \in 0 .. count - 1 : Waiting(i) \in S
    PROVE  /\ Queue \in Seq(S)
           /\ Len(Queue) = count
           /\ \A i \in 1 .. count : Queue[i] = Waiting(i - 1)
BY DEF Queue

\* A push appends to the sequence, a pop removes its head: the ring has no
\* more to it than the abstract queue.
LEMMA PushIsPut ==
    ASSUME RingOK, NEW S, NEW c \in S, Push(c),
           \A i \in 0 .. count - 1 : Waiting(i) \in S
    PROVE  Queue' = Append(Queue, c) /\ Len(Queue) < Capacity
<1>1. count \in Nat /\ count < Capacity /\ count' = count + 1
  BY CapacityAssumption, PushFacts DEF RingOK
<1>2. Queue \in Seq(S) /\ Len(Queue) = count
      /\ \A i \in 1 .. count : Queue[i] = Waiting(i - 1)
  BY <1>1, QueueIsSeq
<1>3. Queue' = [i \in 1 .. count + 1 |-> Waiting(i - 1)']
  BY <1>1 DEF Queue
<1>4. ASSUME NEW i \in 1 .. count + 1
      PROVE  Waiting(i - 1)' = Append(Queue, c)[i]
  <2>1. CASE i = count + 1
    <3>1. Waiting(i - 1)' = c
      BY <1>1, <2>1, PushFacts
    <3> QED BY <1>1, <1>2, <2>1, <3>1
  <2>2. CASE i # count + 1
    <3>1. Waiting(i - 1)' = Waiting(i - 1)
      BY <1>1, <2>2, PushFacts
    <3> QED BY <1>1, <1>2, <2>2, <3>1
  <2> QED BY <2>1, <2>2
<1>5. Append(Queue, c) \in Seq(S) /\ Len(Append(Queue, c)) = count + 1
  BY <1>2, AppendProperties
<1>6. Queue' \in Seq(S) /\ Len(Queue') = count + 1
  <2>1. \A i \in 1 .. count + 1 : Append(Queue, c)[i] \in S
    BY <1>1, <1>5
  <2>2. \A i \in 1 .. count + 1 : Waiting(i - 1)' \in S
    BY <1>4, <2>1
  <2> QED BY <1>1, <1>3, <2>2
<1>7. Queue' = Append(Queue, c)
  BY <1>3, <1>4, <1>5, <1>6, SeqEqual
<1> QED BY <1>1, <1>2, <1>7

\* cmd_pop, as an operation of the abstract queue.
LEMMA PopIsTake ==
    ASSUME RingOK, NEW S, Pop, \A i \in 0 .. count - 1 : Waiting(i) \in S
    PROVE  Queue' = Tail(Queue) /\ Queue # <<>>
<1>1. count \in Nat /\ count > 0 /\ count' = count - 1
  BY CapacityAssumption, PopFacts DEF RingOK
<1>2. Queue \in Seq(S) /\ Len(Queue) = count
      /\ \A i \in 1 .. count : Queue[i] = Waiting(i - 1)
  BY <1>1, QueueIsSeq
<1>3. Queue' = [i \in 1 .. count - 1 |-> Waiting(i - 1)']
  BY <1>1 DEF Queue
<1>4. ASSUME NEW i \in 1 .. count - 1
      PROVE  Waiting(i - 1)' = Tail(Queue)[i]
  <2>1. Waiting(i - 1)' = Waiting(i)
    BY <1>1, PopFacts
  <2> QED BY <1>1, <1>2, <2>1
<1>5. Queue # <<>> /\ Tail(Queue) \in Seq(S) /\ Len(Tail(Queue)) = count - 1
  BY <1>1, <1>2, HeadTailProperties
<1>6. Queue' \in Seq(S) /\ Len(Queue') = count - 1
  BY <1>1, <1>2, <1>3, <1>4, <1>5
<1>7. Queue' = Tail(Queue)
  BY <1>3, <1>4, <1>5, <1>6, SeqEqual
<1> QED BY <1>5, <1>7

-----------------------------------------------------------------------------
(***************************************************************************)
(* The inductive invariant of the path.                                    *)
(***************************************************************************)

\* What waits in the ring is the tail of what was accepted, in order; the
\* number of a command is its place there.
WindowInv ==
    /\ count <= Len(accepted)
    /\ \A i \in 0 .. count - 1 : Waiting(i) = accepted[Taken + 1 + i]
    /\ \A n \in 1 .. Len(accepted) : accepted[n].no = n

\* What was sent has been taken, and the pending text is newer than all of it.
PendingInv ==
    /\ \A i \in DOMAIN sent : sent[i].no \in 1 .. Taken
    /\ pending # NoCommand =>
         /\ pending.no \in 1 .. Taken
         /\ pending = accepted[pending.no]
         /\ \A i \in DOMAIN sent : sent[i].no < pending.no

\* A connection belongs to a session that was counted.
CountInv == conn # "none" => sessions > 0

\* While the connection is up, everything waiting belongs to its session: once
\* the ring has been emptied in a round only commands of the present or the
\* coming session can be added, and a pending text does not outlast the flush
\* of a round without a connection.
SessionInv ==
    /\ conn = "up" =>
         /\ \A n \in Taken + 1 .. Len(accepted) : accepted[n].session = sessions
         /\ pending # NoCommand => pending.session = sessions
    /\ rpc \in {"flush", "scenario", "step"} =>
         \A n \in Taken + 1 .. Len(accepted) : accepted[n].session = Stamp
    /\ rpc \in {"scenario", "step"} /\ pending # NoCommand => conn = "up"

PathInv ==
    TypeOK /\ WindowInv /\ PendingInv /\ CountInv /\ SessionInv /\ SentInOrder /\ NoCarryOver

\* The ring is well formed.
LEMMA RingTypes ==
    ASSUME TypeOK
    PROVE  RingOK
BY DEF TypeOK, RingOK

\* The commands waiting are commands that were accepted.
LEMMA WaitingTypes ==
    ASSUME TypeOK, WindowInv
    PROVE  /\ Capacity \in Nat /\ Capacity > 0
           /\ count \in Nat /\ Taken \in Nat /\ Taken + count = Len(accepted)
           /\ Len(accepted) \in Nat
           /\ \A n \in 1 .. Len(accepted) : accepted[n] \in Command
           /\ \A i \in 0 .. count - 1 : Waiting(i) \in Command
<1>1. Capacity \in Nat /\ Capacity > 0 /\ count \in Nat /\ Len(accepted) \in Nat
  BY CapacityAssumption DEF TypeOK
<1>2. Taken \in Nat /\ Taken + count = Len(accepted)
  BY <1>1 DEF Taken, WindowInv
<1>3. \A n \in 1 .. Len(accepted) : accepted[n] \in Command
  BY DEF TypeOK
<1> QED BY <1>1, <1>2, <1>3 DEF WindowInv

-----------------------------------------------------------------------------
\* A push keeps the window on what was accepted, and everything older.
LEMMA PushKeepsWindow ==
    ASSUME TypeOK, WindowInv, Stamp \in 1 .. MaxSessions + 1,
           NEW k \in Kinds, Len(accepted) < MaxCommands,
           Push([kind |-> k, no |-> Len(accepted) + 1, session |-> Stamp]),
           accepted' = Append(accepted,
               [kind |-> k, no |-> Len(accepted) + 1, session |-> Stamp])
    PROVE  /\ slots' \in [Index -> Command \cup {NoCommand}]
           /\ head' \in Index /\ count' \in 0 .. Capacity
           /\ accepted' \in Seq(Command)
           /\ Len(accepted') = Len(accepted) + 1
           /\ Taken' = Taken
           /\ \A n \in 1 .. Len(accepted) : accepted'[n] = accepted[n]
           /\ accepted'[Len(accepted')].session = Stamp
           /\ WindowInv'
<1> DEFINE c == [kind |-> k, no |-> Len(accepted) + 1, session |-> Stamp]
<1>1. Capacity \in Nat /\ Capacity > 0 /\ count \in Nat /\ Taken \in Nat
      /\ Taken + count = Len(accepted) /\ Len(accepted) \in Nat
  BY WaitingTypes
<1>2. c \in Command
  BY <1>1, BoundsAssumption DEF Command
<1>3. /\ count < Capacity /\ count' = count + 1 /\ head' = head
      /\ slots' = [slots EXCEPT ![(head + count) % Capacity] = c]
      /\ accepted' = Append(accepted, c)
  BY <1>1, RingTypes, PushFacts DEF Push
<1>4. slots' \in [Index -> Command \cup {NoCommand}] /\ head' \in Index
      /\ count' \in 0 .. Capacity
  <2> DEFINE j == (head + count) % Capacity
  <2>1. slots' = [slots EXCEPT ![j] = c]
    BY <1>3
  <2> HIDE DEF c, j
  <2>2. slots' \in [Index -> Command \cup {NoCommand}]
    BY <1>2, <2>1 DEF TypeOK
  <2> QED BY <1>1, <1>3, <2>2 DEF TypeOK
<1> HIDE DEF c
<1>5. accepted \in Seq(Command)
  BY DEF TypeOK
<1>6. /\ accepted' \in Seq(Command) /\ Len(accepted') = Len(accepted) + 1
      /\ \A n \in 1 .. Len(accepted) : accepted'[n] = accepted[n]
      /\ accepted'[Len(accepted) + 1] = c
  BY <1>2, <1>3, <1>5, AppendProperties
<1>7. Taken' = Taken
  BY <1>1, <1>3, <1>6 DEF Taken
<1>8. c.no = Len(accepted) + 1 /\ c.session = Stamp
  BY DEF c
<1>9. WindowInv'
  <2>1. ASSUME NEW i \in 0 .. count
        PROVE  Waiting(i)' = accepted'[Taken + 1 + i]
    <3>1. CASE i = count
      <4>1. Waiting(i)' = c
        BY <3>1, RingTypes, PushFacts DEF c
      <4>2. Taken + 1 + i = Len(accepted) + 1
        BY <1>1, <3>1
      <4> QED BY <1>6, <4>1, <4>2
    <3>2. CASE i # count
      <4>1. Waiting(i)' = Waiting(i)
        BY <1>1, <3>2, RingTypes, PushFacts
      <4>2. Waiting(i) = accepted[Taken + 1 + i]
        BY <1>1, <3>2 DEF WindowInv
      <4> QED BY <1>1, <1>6, <3>2, <4>1, <4>2
    <3> QED BY <3>1, <3>2
  <2>2. ASSUME NEW n \in 1 .. Len(accepted')
        PROVE  accepted'[n].no = n
    BY <1>1, <1>6, <1>8 DEF WindowInv
  <2>3. count' <= Len(accepted') /\ count' - 1 = count
    BY <1>1, <1>3, <1>6
  <2>4. \A i \in 0 .. count' - 1 : Waiting(i)' = accepted'[Taken' + 1 + i]
    BY <1>7, <2>1, <2>3
  <2> QED BY <2>2, <2>3, <2>4 DEF WindowInv
<1> QED BY <1>1, <1>4, <1>6, <1>7, <1>8, <1>9

\* A pop moves the window by one, and hands out the command it starts with.
LEMMA PopKeepsWindow ==
    ASSUME TypeOK, WindowInv, Pop, UNCHANGED accepted
    PROVE  /\ slots' \in [Index -> Command \cup {NoCommand}]
           /\ head' \in Index /\ count' \in 0 .. Capacity
           /\ Taken' = Taken + 1
           /\ Taken + 1 <= Len(accepted)
           /\ Waiting(0) = accepted[Taken + 1]
           /\ Waiting(0) \in Command
           /\ WindowInv'
<1>1. Capacity \in Nat /\ Capacity > 0 /\ count \in Nat /\ Taken \in Nat
      /\ Taken + count = Len(accepted) /\ Len(accepted) \in Nat
  BY WaitingTypes
<1>2. count > 0 /\ count' = count - 1 /\ slots' = slots /\ RingOK'
  BY RingTypes, PopFacts DEF Pop
<1>3. Waiting(0) = accepted[Taken + 1] /\ Waiting(0) \in Command
  BY <1>1, <1>2, WaitingTypes DEF WindowInv
<1>4. Taken' = Taken + 1
  BY <1>1, <1>2 DEF Taken
<1>5. WindowInv'
  <2>1. ASSUME NEW i \in 0 .. count - 2
        PROVE  Waiting(i)' = accepted[Taken + 1 + 1 + i]
    <3>1. Waiting(i)' = Waiting(i + 1)
      BY <1>1, <1>2, RingTypes, PopFacts
    <3>2. Waiting(i + 1) = accepted[Taken + 1 + (i + 1)]
      BY <1>1, <1>2 DEF WindowInv
    <3>3. Taken + 1 + (i + 1) = Taken + 1 + 1 + i
      BY <1>1
    <3> QED BY <3>1, <3>2, <3>3
  <2>2. accepted' = accepted
    OBVIOUS
  <2> QED BY <1>1, <1>2, <1>4, <2>1, <2>2 DEF WindowInv
<1> QED BY <1>1, <1>2, <1>3, <1>4, <1>5 DEF RingOK, TypeOK

\* Nothing in the ring or among the accepted commands changes.
LEMMA WindowUnchanged ==
    ASSUME WindowInv, UNCHANGED <<queueVars, accepted>>
    PROVE  WindowInv' /\ Taken' = Taken
BY DEF WindowInv, Waiting, Taken, queueVars

-----------------------------------------------------------------------------
\* A new runner.
LEMMA PathInit == Init => PathInv
<1> SUFFICES ASSUME Init PROVE PathInv
  OBVIOUS
<1> USE DEF Init, QueueInit
<1>1. TypeOK
  BY CapacityAssumption, BoundsAssumption
     DEF TypeOK, Index, Senders, HostStates, RunnerSteps
<1>2. WindowInv /\ PendingInv /\ CountInv /\ SessionInv
  BY DEF WindowInv, PendingInv, CountInv, SessionInv, Taken
<1>3. SentInOrder /\ NoCarryOver
  BY DEF SentInOrder, NoCarryOver
<1> QED BY <1>1, <1>2, <1>3 DEF PathInv

\* The steps that touch neither the ring nor the texts nor the connection:
\* they only move a sender, the device thread, the host's state or the snapshot.
LEMMA QuietKeeps ==
    ASSUME PathInv, TypeOK',
           UNCHANGED <<queueVars, accepted, pending, sent, conn, sessions>>,
           \/ rpc' \notin {"flush", "scenario", "step"}
           \/ rpc' = rpc
           \/ rpc = "scenario" /\ rpc' = "step"
    PROVE  PathInv'
<1>1. WindowInv' /\ Taken' = Taken
  BY WindowUnchanged DEF PathInv
<1>2. PendingInv' /\ CountInv' /\ SentInOrder' /\ NoCarryOver'
  BY <1>1 DEF PathInv, PendingInv, CountInv, SentInOrder, NoCarryOver
<1>3. SessionInv'
  BY <1>1 DEF PathInv, SessionInv, Stamp
<1> QED BY <1>1, <1>2, <1>3 DEF PathInv

\* device_host_send_app_data and device_host_inject_fault up to the push.
LEMMA SenderMovesKeep ==
    ASSUME PathInv, NEW s \in Senders,
           SendReadState(s) \/ SendReadSnapshot(s) \/ SendBusy(s) \/ RequestStop
    PROVE  PathInv'
<1>1. TypeOK'
  <2>1. CASE SendReadState(s)
    <3>1. actions' \in 0 .. MaxActions
      BY <2>1, BoundsAssumption DEF PathInv, TypeOK, SendReadState, MayStart
    <3>2. pc' \in [Senders -> {"idle", "session", "push_text", "push_fault"}]
      BY <2>1 DEF PathInv, TypeOK, SendReadState
    <3> QED BY <2>1, <3>1, <3>2
            DEF PathInv, TypeOK, SendReadState, RunnerUnchanged, queueVars
  <2>2. CASE SendReadSnapshot(s) \/ SendBusy(s)
    BY <2>2 DEF PathInv, TypeOK, SendReadSnapshot, SendBusy, RunnerUnchanged, queueVars
  <2>3. CASE RequestStop
    BY <2>3 DEF PathInv, TypeOK, RequestStop, queueVars, senderVars, history, HostStates
  <2> QED BY <2>1, <2>2, <2>3
<1>2. UNCHANGED <<queueVars, accepted, pending, sent, conn, sessions, rpc>>
  BY DEF SendReadState, SendReadSnapshot, SendBusy, RequestStop,
         RunnerUnchanged, queueVars, senderVars, history
<1> QED BY <1>1, <1>2, QuietKeeps

\* The parts of a round that only move the device thread.
LEMMA RunnerMovesKeep ==
    ASSUME PathInv, RunnerCheck \/ RunnerScenario \/ RunnerRefresh
    PROVE  PathInv'
<1>1. TypeOK'
  BY DEF PathInv, TypeOK, RunnerCheck, RunnerScenario, RunnerRefresh,
         queueVars, senderVars, history, HostStates, RunnerSteps
<1>2. /\ UNCHANGED <<queueVars, accepted, pending, sent, conn, sessions>>
      /\ \/ rpc' \notin {"flush", "scenario", "step"}
         \/ rpc = "scenario" /\ rpc' = "step"
  BY DEF RunnerCheck, RunnerScenario, RunnerRefresh, queueVars, senderVars, history
<1> QED BY <1>1, <1>2, QuietKeeps

\* A push adds a command of the session Stamp names; while the connection is
\* up that is the current one.
LEMMA PushKeeps ==
    ASSUME PathInv, NEW s \in Senders, SendPush(s)
    PROVE  PathInv'
<1>1. Stamp \in 1 .. MaxSessions + 1
  BY BoundsAssumption DEF PathInv, TypeOK, CountInv, Stamp
<1>2. PICK k \in Kinds :
        /\ Push([kind |-> k, no |-> Len(accepted) + 1, session |-> Stamp])
        /\ accepted' = Append(accepted,
               [kind |-> k, no |-> Len(accepted) + 1, session |-> Stamp])
  BY DEF SendPush
<1>3. Len(accepted) < MaxCommands /\ pc' = [pc EXCEPT ![s] = "idle"]
      /\ UNCHANGED <<actions, hostState, snap, conn, sessions, rpc, pending, sent,
                     dropped, faults>>
  BY DEF SendPush, RunnerUnchanged
<1>4. /\ slots' \in [Index -> Command \cup {NoCommand}]
      /\ head' \in Index /\ count' \in 0 .. Capacity
      /\ accepted' \in Seq(Command)
      /\ Len(accepted') = Len(accepted) + 1
      /\ Taken' = Taken
      /\ \A n \in 1 .. Len(accepted) : accepted'[n] = accepted[n]
      /\ accepted'[Len(accepted')].session = Stamp
      /\ WindowInv'
  BY <1>1, <1>2, <1>3, PushKeepsWindow DEF PathInv
<1>5. Taken \in Nat /\ Len(accepted) \in Nat /\ Taken <= Len(accepted)
  BY WaitingTypes DEF PathInv
<1>6. TypeOK'
  BY <1>3, <1>4, <1>5, BoundsAssumption DEF PathInv, TypeOK
<1>7. PendingInv'
  BY <1>3, <1>4, <1>5 DEF PathInv, PendingInv
<1>8. SentInOrder' /\ NoCarryOver' /\ CountInv'
  BY <1>3, <1>4, <1>5
     DEF PathInv, PendingInv, SentInOrder, NoCarryOver, CountInv
<1>9. SessionInv'
  <2>1. Stamp' = Stamp
    BY <1>3 DEF Stamp
  <2>2. \A n \in Taken' + 1 .. Len(accepted') :
           n \in Taken + 1 .. Len(accepted) \/ n = Len(accepted')
    BY <1>4, <1>5
  <2>3. \A n \in Taken + 1 .. Len(accepted) : accepted'[n] = accepted[n]
    BY <1>4, <1>5
  <2>4. conn = "up" => Stamp = sessions
    BY DEF Stamp
  <2> QED BY <1>3, <1>4, <2>1, <2>2, <2>3, <2>4 DEF PathInv, SessionInv
<1> QED BY <1>4, <1>6, <1>7, <1>8, <1>9 DEF PathInv

\* Taking a command: a text becomes the pending one, and is newer than all
\* that was sent because the ring hands commands out in order.
LEMMA TakeKeeps ==
    ASSUME PathInv, RunnerTake
    PROVE  PathInv'
<1>1. Pop /\ UNCHANGED accepted
  BY DEF RunnerTake
<1>2. /\ slots' \in [Index -> Command \cup {NoCommand}]
      /\ head' \in Index /\ count' \in 0 .. Capacity
      /\ Taken' = Taken + 1
      /\ Taken + 1 <= Len(accepted)
      /\ Waiting(0) = accepted[Taken + 1]
      /\ Waiting(0) \in Command
      /\ WindowInv'
  BY <1>1, PopKeepsWindow DEF PathInv
<1>3. Taken \in Nat /\ Len(accepted) \in Nat
  BY WaitingTypes DEF PathInv
<1>4. /\ rpc = "commands"
      /\ UNCHANGED <<pc, actions, hostState, snap, conn, sessions, rpc, accepted,
                     sent, dropped>>
      /\ \/ pending' = Waiting(0) /\ UNCHANGED faults
         \/ pending' = pending /\ faults' = Append(faults, Waiting(0))
  BY DEF RunnerTake, TakeAppData, TakeFault, senderVars
<1>5. TypeOK'
  <2> DEFINE w == Waiting(0)
  <2>1. w \in Command /\ faults \in Seq(Command)
    BY <1>2 DEF PathInv, TypeOK
  <2> HIDE DEF w
  <2>2. Append(faults, w) \in Seq(Command)
    BY <2>1, AppendProperties
  <2>3. faults' \in Seq(Command) /\ pending' \in Command \cup {NoCommand}
    BY <1>4, <2>1, <2>2 DEF w, PathInv, TypeOK
  <2> QED BY <1>2, <1>4, <2>3 DEF PathInv, TypeOK
<1>6. PendingInv'
  <2>1. Waiting(0).no = Taken + 1
    BY <1>2, <1>3 DEF PathInv, WindowInv
  <2>2. \A i \in DOMAIN sent : sent[i].no \in 1 .. Taken
    BY DEF PathInv, PendingInv
  <2> QED BY <1>2, <1>3, <1>4, <2>1, <2>2 DEF PathInv, PendingInv
<1>7. SentInOrder' /\ NoCarryOver' /\ CountInv'
  BY <1>4 DEF PathInv, SentInOrder, NoCarryOver, CountInv
<1>8. SessionInv'
  <2>1. conn = "up" => Waiting(0).session = sessions
    BY <1>2, <1>3 DEF PathInv, SessionInv
  <2>2. \A n \in Taken' + 1 .. Len(accepted) : n \in Taken + 1 .. Len(accepted)
    BY <1>2, <1>3
  <2> QED BY <1>4, <2>1, <2>2 DEF PathInv, SessionInv
<1> QED BY <1>2, <1>5, <1>6, <1>7, <1>8 DEF PathInv

\* Leaving the loop: nothing waits.
LEMMA EmptyKeeps ==
    ASSUME PathInv, RunnerEmpty
    PROVE  PathInv'
<1>1. /\ count = 0 /\ rpc' = "flush"
      /\ UNCHANGED <<queueVars, senderVars, hostState, snap, conn, sessions,
                     pending, history>>
  BY DEF RunnerEmpty
<1>2. UNCHANGED <<slots, head, count, pc, actions, accepted, sent, dropped, faults>>
  BY <1>1 DEF queueVars, senderVars, history
<1>3. TypeOK'
  BY <1>1, <1>2 DEF PathInv, TypeOK, RunnerSteps
<1>4. WindowInv' /\ Taken' = Taken
  BY <1>1, <1>2, WindowUnchanged DEF PathInv
<1>5. PendingInv' /\ CountInv' /\ SentInOrder' /\ NoCarryOver'
  BY <1>1, <1>2, <1>4 DEF PathInv, PendingInv, CountInv, SentInOrder, NoCarryOver
<1>6. Taken = Len(accepted) /\ Len(accepted) \in Nat
  BY <1>1, WaitingTypes DEF PathInv
<1>7. SessionInv'
  BY <1>1, <1>2, <1>4, <1>6 DEF PathInv, SessionInv
<1> QED BY <1>3, <1>4, <1>5, <1>7 DEF PathInv

\* The flush: what is sent is the pending text, newer than all sent before and
\* of the session whose connection is up; without a connection none is left.
LEMMA FlushKeeps ==
    ASSUME PathInv, RunnerFlush
    PROVE  PathInv'
<1>1. /\ rpc = "flush" /\ rpc' = "scenario"
      /\ UNCHANGED <<slots, head, count, pc, actions, hostState, snap, conn,
                     sessions, accepted, faults>>
  BY DEF RunnerFlush, queueVars, senderVars
<1>2. WindowInv' /\ Taken' = Taken
  BY <1>1, WindowUnchanged DEF PathInv, queueVars
<1>3. CASE conn = "up" /\ UNCHANGED <<pending, sent, dropped>>
  <2>1. TypeOK'
    BY <1>1, <1>3 DEF PathInv, TypeOK, RunnerSteps
  <2> QED BY <1>1, <1>2, <1>3, <2>1
          DEF PathInv, PendingInv, CountInv, SessionInv, SentInOrder, NoCarryOver, Stamp
<1>4. CASE pending' = NoCommand /\ sent' = sent /\ dropped' \subseteq 1 .. MaxCommands
  <2>1. TypeOK'
    BY <1>1, <1>4 DEF PathInv, TypeOK, RunnerSteps
  <2> QED BY <1>1, <1>2, <1>4, <2>1
          DEF PathInv, PendingInv, CountInv, SessionInv, SentInOrder, NoCarryOver, Stamp
<1>5. CASE FlushSend
  <2> DEFINE m == [no |-> pending.no, session |-> sessions]
  <2>1. /\ conn = "up" /\ pending # NoCommand /\ pending' = NoCommand
        /\ sent' = Append(sent, m) /\ dropped' = dropped
    BY <1>5 DEF FlushSend
  <2>2. /\ pending \in Command /\ pending.no \in 1 .. Taken
        /\ pending = accepted[pending.no] /\ pending.session = sessions
        /\ \A i \in DOMAIN sent : sent[i].no < pending.no
    BY <2>1 DEF PathInv, TypeOK, PendingInv, SessionInv
  <2>3. m \in [no : 1 .. MaxCommands, session : 1 .. MaxSessions]
    BY <2>1, <2>2, BoundsAssumption DEF PathInv, TypeOK, Command, CountInv
  <2>4. m.no = pending.no /\ m.session = sessions
    OBVIOUS
  <2> HIDE DEF m
  <2>5. sent \in Seq([no : 1 .. MaxCommands, session : 1 .. MaxSessions])
    BY DEF PathInv, TypeOK
  <2>6. /\ sent' \in Seq([no : 1 .. MaxCommands, session : 1 .. MaxSessions])
        /\ Len(sent') = Len(sent) + 1 /\ Len(sent) \in Nat
        /\ \A i \in 1 .. Len(sent) : sent'[i] = sent[i]
        /\ sent'[Len(sent) + 1] = m
    BY <2>1, <2>3, <2>5, AppendProperties
  <2>7. DOMAIN sent = 1 .. Len(sent) /\ DOMAIN sent' = 1 .. Len(sent) + 1
    BY <2>5, <2>6
  <2>8. TypeOK'
    BY <1>1, <2>1, <2>6 DEF PathInv, TypeOK, RunnerSteps
  <2>9. PendingInv' /\ CountInv'
    BY <1>1, <1>2, <2>1, <2>2, <2>4, <2>6, <2>7 DEF PathInv, PendingInv, CountInv
  <2>10. SessionInv'
    BY <1>1, <1>2, <2>1 DEF PathInv, SessionInv, Stamp
  <2>11. SentInOrder'
    <3>1. ASSUME NEW i \in DOMAIN sent', NEW j \in DOMAIN sent', i < j
          PROVE  sent'[i].no < sent'[j].no
      <4>1. CASE j = Len(sent) + 1
        <5>1. i \in DOMAIN sent /\ sent'[i] = sent[i]
          BY <2>6, <2>7, <3>1, <4>1
        <5> QED BY <2>2, <2>4, <2>6, <4>1, <5>1
      <4>2. CASE j # Len(sent) + 1
        <5>1. i \in DOMAIN sent /\ j \in DOMAIN sent
              /\ sent'[i] = sent[i] /\ sent'[j] = sent[j]
          BY <2>6, <2>7, <3>1, <4>2
        <5> QED BY <3>1, <5>1 DEF PathInv, SentInOrder
      <4> QED BY <4>1, <4>2
    <3> QED BY <3>1 DEF SentInOrder
  <2>12. NoCarryOver'
    <3>1. ASSUME NEW i \in DOMAIN sent'
          PROVE  accepted[sent'[i].no].session = sent'[i].session
      <4>1. CASE i = Len(sent) + 1
        BY <2>2, <2>4, <2>6, <4>1
      <4>2. CASE i # Len(sent) + 1
        <5>1. i \in DOMAIN sent /\ sent'[i] = sent[i]
          BY <2>6, <2>7, <4>2
        <5> QED BY <5>1 DEF PathInv, NoCarryOver
      <4> QED BY <4>1, <4>2
    <3> QED BY <1>1, <3>1 DEF NoCarryOver
  <2> QED BY <1>2, <2>8, <2>9, <2>10, <2>11, <2>12 DEF PathInv
<1>6. CASE pending = NoCommand /\ UNCHANGED <<pending, sent, dropped>>
  BY <1>4, <1>6 DEF PathInv, TypeOK
<1>7. CASE FlushDrop
  <2>1. pending.no \in 1 .. MaxCommands
    BY <1>7 DEF FlushDrop, PathInv, TypeOK, Command
  <2> QED BY <1>4, <1>7, <2>1 DEF FlushDrop, PathInv, TypeOK
<1>8. CASE FlushFails
  BY <1>3, <1>8 DEF FlushFails
<1> QED BY <1>5, <1>6, <1>7, <1>8 DEF RunnerFlush

\* A step of the core: a session starts only when no text is pending and all
\* that waits was pushed for it.
LEMMA StepKeeps ==
    ASSUME PathInv, RunnerStep
    PROVE  PathInv'
<1>1. /\ rpc = "step" /\ rpc' = "refresh"
      /\ SessionStarts \/ PeerCloses \/ SessionLost \/ StaysAsIs
      /\ UNCHANGED <<slots, head, count, pc, actions, hostState, snap, pending,
                     accepted, sent, dropped, faults>>
  BY DEF RunnerStep, queueVars, senderVars, history
<1>2. WindowInv' /\ Taken' = Taken
  BY <1>1, WindowUnchanged DEF PathInv, queueVars
<1>3. TypeOK'
  BY <1>1, BoundsAssumption
     DEF PathInv, TypeOK, RunnerSteps, SessionStarts, PeerCloses, SessionLost, StaysAsIs
<1>4. PendingInv' /\ SentInOrder' /\ NoCarryOver'
  BY <1>1, <1>2 DEF PathInv, PendingInv, SentInOrder, NoCarryOver
<1>5. CountInv'
  BY <1>1 DEF PathInv, TypeOK, CountInv, SessionStarts, PeerCloses, SessionLost, StaysAsIs
<1>6. SessionInv'
  BY <1>1, <1>2
     DEF PathInv, SessionInv, Stamp, SessionStarts, PeerCloses, SessionLost, StaysAsIs
<1> QED BY <1>2, <1>3, <1>4, <1>5, <1>6 DEF PathInv

\* Every step of a sender and of the runner.
LEMMA PathStep == PathInv /\ [Next]_vars => PathInv'
<1> SUFFICES ASSUME PathInv, [Next]_vars PROVE PathInv'
  OBVIOUS
<1>1. CASE RequestStop
  BY <1>1, SenderMovesKeep DEF Senders
<1>2. ASSUME NEW s \in Senders, Sender(s) PROVE PathInv'
  BY <1>2, SenderMovesKeep, PushKeeps DEF Sender
<1>3. CASE Runner
  BY <1>3, RunnerMovesKeep, TakeKeeps, EmptyKeeps, FlushKeeps, StepKeeps DEF Runner
<1>4. CASE UNCHANGED vars
  <2>1. TypeOK'
    BY <1>4 DEF PathInv, TypeOK, vars
  <2> QED BY <1>4, <2>1, QuietKeeps DEF vars, queueVars
<1> QED BY <1>1, <1>2, <1>3, <1>4 DEF Next

-----------------------------------------------------------------------------
\* The inductive invariant holds in every reachable state.
THEOREM PathInvariant == Spec => []PathInv
BY PathInit, PathStep, PTL DEF Spec

\* Type correctness of the path from the facade to the wire.
THEOREM PathTypeOK == Spec => []TypeOK
<1>1. PathInv => TypeOK
  BY DEF PathInv
<1> QED BY <1>1, PathInvariant, PTL

\* Texts leave in the order of acceptance and none twice
\* (runner_process_commands with its retry of a text that could not be sent).
THEOREM PathOrder == Spec => []SentInOrder
<1>1. PathInv => SentInOrder
  BY DEF PathInv
<1> QED BY <1>1, PathInvariant, PTL

\* No text crosses from one session into a later one, whatever the callers'
\* snapshot says.
THEOREM PathNoCarryOver == Spec => []NoCarryOver
<1>1. PathInv => NoCarryOver
  BY DEF PathInv
<1> QED BY <1>1, PathInvariant, PTL

\* device_cmd_queue.c implements a bounded first-in-first-out queue, in the
\* program around it and for every capacity.
THEOREM RingImplementsFifo == Spec => RingIsFifo
<1>1. Init => Fifo!Init
  BY DEF Init, QueueInit, Fifo!Init, Queue
<1>2. ASSUME PathInv, [Next]_vars
      PROVE  [Fifo!Next]_(Queue)
  <2>1. RingOK /\ \A i \in 0 .. count - 1 : Waiting(i) \in Command
    BY <1>2, RingTypes, WaitingTypes DEF PathInv
  <2>2. CASE \E s \in Senders : SendPush(s)
    <3>1. PICK c : Push(c) /\ accepted' = Append(accepted, c)
                   /\ c = [kind |-> c.kind, no |-> Len(accepted) + 1, session |-> Stamp]
                   /\ c.kind \in Kinds /\ Len(accepted) < MaxCommands
      BY <2>2 DEF SendPush
    <3>2. Stamp \in 1 .. MaxSessions + 1
      BY <1>2, BoundsAssumption DEF PathInv, TypeOK, CountInv, Stamp
    <3>3. Len(accepted) \in Nat
      BY <1>2, WaitingTypes DEF PathInv
    <3>4. c \in Command
      BY <3>1, <3>2, <3>3, BoundsAssumption DEF Command
    <3>5. Queue' = Append(Queue, c) /\ Len(Queue) < Capacity
      BY <2>1, <3>1, <3>4, PushIsPut
    <3> QED BY <3>4, <3>5 DEF Fifo!Next, Fifo!Put
  <2>3. CASE RunnerTake
    <3>1. Queue' = Tail(Queue) /\ Queue # <<>>
      BY <2>1, <2>3, PopIsTake DEF RunnerTake
    <3> QED BY <3>1 DEF Fifo!Next, Fifo!Take
  <2>4. CASE UNCHANGED queueVars
    BY <2>4 DEF Queue, Waiting, queueVars
  <2>5. \/ \E s \in Senders : SendPush(s)
        \/ RunnerTake
        \/ UNCHANGED queueVars
    BY <1>2 DEF Next, vars, Sender, SendReadState, SendReadSnapshot, SendBusy,
                RequestStop, Runner, RunnerCheck, RunnerEmpty, RunnerFlush,
                RunnerScenario, RunnerStep, RunnerRefresh, queueVars
  <2> QED BY <2>2, <2>3, <2>4, <2>5
<1> QED BY <1>1, <1>2, PathInvariant, PTL DEF Spec, RingIsFifo, Fifo!Spec

-----------------------------------------------------------------------------
(***************************************************************************)
(* What becomes of the commands taken: the newest text is still there, or  *)
(* was sent or given up, and every fault was applied.                      *)
(***************************************************************************)
KeptInv == NewestTextSurvives /\ FaultsAccounted

\* A step that takes nothing keeps what is said of the commands taken.
LEMMA KeptSame ==
    ASSUME PathInv, KeptInv, Taken' = Taken, faults' = faults,
           \A n \in 1 .. Taken : accepted'[n] = accepted[n],
           (SentNos \cup PendingNos \cup dropped)
               \subseteq (SentNos \cup PendingNos \cup dropped)'
    PROVE  KeptInv'
<1> DEFINE Gone == SentNos \cup PendingNos \cup dropped
<1>1. Taken \in Nat /\ Gone \subseteq Gone'
  BY WaitingTypes DEF PathInv
<1> HIDE DEF Gone
<1>2. NewestTextSurvives'
  <2>1. ASSUME NEW n \in 1 .. Taken, IsText(accepted[n]),
               \A m \in n + 1 .. Taken : ~IsText(accepted[m])
        PROVE  n \in Gone
    BY <2>1 DEF KeptInv, NewestTextSurvives, Gone
  <2>2. ASSUME NEW n \in 1 .. Taken, IsText(accepted'[n]),
               \A m \in n + 1 .. Taken : ~IsText(accepted'[m])
        PROVE  n \in Gone'
    <3>1. IsText(accepted[n])
      BY <2>2
    <3>2. \A m \in n + 1 .. Taken : m \in 1 .. Taken
      BY <1>1
    <3>3. \A m \in n + 1 .. Taken : ~IsText(accepted[m])
      BY <2>2, <3>2
    <3> QED BY <1>1, <2>1, <3>1, <3>3
  <2> QED BY <2>2 DEF NewestTextSurvives, Gone
<1>3. FaultsAccounted'
  <2>1. {accepted'[n] : n \in 1 .. Taken} = {accepted[n] : n \in 1 .. Taken}
    OBVIOUS
  <2> QED BY <2>1 DEF KeptInv, FaultsAccounted
<1> QED BY <1>2, <1>3 DEF KeptInv

\* A text taken becomes the pending one; a fault taken is applied and is newer
\* than those applied before.
LEMMA KeptTake ==
    ASSUME PathInv, KeptInv, RunnerTake
    PROVE  KeptInv'
<1> DEFINE w == Waiting(0)
<1>1. /\ Taken \in Nat /\ Taken' = Taken + 1 /\ Taken + 1 <= Len(accepted)
      /\ Len(accepted) \in Nat
      /\ w = accepted[Taken + 1] /\ w \in Command /\ w.no = Taken + 1
      /\ \A n \in 1 .. Taken : accepted[n].no = n /\ accepted[n] \in Command
      /\ UNCHANGED accepted
  <2>1. Pop /\ UNCHANGED <<accepted, sent, dropped>>
    BY DEF RunnerTake, TakeAppData, TakeFault
  <2>2. /\ Taken' = Taken + 1 /\ Taken + 1 <= Len(accepted)
        /\ w = accepted[Taken + 1] /\ w \in Command
    BY <2>1, PopKeepsWindow DEF PathInv
  <2>3. Taken \in Nat /\ Len(accepted) \in Nat
        /\ \A n \in 1 .. Len(accepted) : accepted[n] \in Command
    BY WaitingTypes DEF PathInv
  <2> QED BY <2>1, <2>2, <2>3 DEF PathInv, WindowInv
<1>2. \/ IsText(w) /\ pending' = w /\ faults' = faults
      \/ IsFault(w) /\ pending' = pending /\ faults' = Append(faults, w)
  BY DEF RunnerTake, TakeAppData, TakeFault, IsText, IsFault
<1>3. w # NoCommand /\ ~(IsText(w) /\ IsFault(w))
  BY <1>1, NoCommandAssumption DEF IsText, IsFault
<1> HIDE DEF w
<1>4. 1 .. Taken' = 1 .. Taken \cup {Taken + 1}
  BY <1>1
<1>5. NewestTextSurvives'
  <2>1. ASSUME NEW n \in 1 .. Taken', IsText(accepted[n]),
               \A m \in n + 1 .. Taken' : ~IsText(accepted[m])
        PROVE  n \in (SentNos \cup PendingNos \cup dropped)'
    <3>1. CASE n = Taken + 1
      <4>1. pending' = w /\ pending'.no = n
        BY <1>1, <1>2, <1>3, <2>1, <3>1
      <4> QED BY <1>3, <4>1 DEF PendingNos
    <3>2. CASE n # Taken + 1
      <4>1. n \in 1 .. Taken /\ n + 1 .. Taken \subseteq n + 1 .. Taken'
            /\ Taken + 1 \in n + 1 .. Taken'
        BY <1>1, <1>4, <3>2
      <4>2. pending' = pending
        BY <1>1, <1>2, <2>1, <4>1
      <4>3. n \in SentNos \cup PendingNos \cup dropped
        BY <2>1, <4>1 DEF KeptInv, NewestTextSurvives
      <4>4. UNCHANGED <<sent, dropped>>
        BY DEF RunnerTake, TakeAppData, TakeFault
      <4> QED BY <4>2, <4>3, <4>4 DEF SentNos, PendingNos
    <3> QED BY <3>1, <3>2
  <2> QED BY <1>1, <2>1 DEF NewestTextSurvives
<1>6. {accepted[n] : n \in 1 .. Taken'} = {accepted[n] : n \in 1 .. Taken} \cup {w}
  BY <1>1, <1>4
<1>7. CASE IsText(w)
  <2>1. faults' = faults
    BY <1>2, <1>3, <1>7
  <2>2. {c \in {accepted[n] : n \in 1 .. Taken'} : IsFault(c)}
            = {c \in {accepted[n] : n \in 1 .. Taken} : IsFault(c)}
    BY <1>3, <1>6, <1>7
  <2>3. FaultsAccounted'
    BY <1>1, <2>1, <2>2 DEF KeptInv, FaultsAccounted
  <2> QED BY <1>5, <2>3 DEF KeptInv
<1>8. CASE IsFault(w)
  <2>1. faults' = Append(faults, w) /\ faults \in Seq(Command)
    BY <1>2, <1>3, <1>8 DEF PathInv, TypeOK
  <2>2. /\ faults' \in Seq(Command) /\ Len(faults') = Len(faults) + 1 /\ Len(faults) \in Nat
        /\ \A i \in 1 .. Len(faults) : faults'[i] = faults[i]
        /\ faults'[Len(faults) + 1] = w
        /\ DOMAIN faults = 1 .. Len(faults) /\ DOMAIN faults' = 1 .. Len(faults')
    BY <1>1, <2>1, AppendProperties
  <2>3. \A i \in DOMAIN faults' :
            \/ i \in DOMAIN faults /\ faults'[i] = faults[i]
            \/ i = Len(faults) + 1 /\ faults'[i] = w
    BY <2>2
  <2>4. \A i \in DOMAIN faults : faults[i].no \in 1 .. Taken
    <3>1. ASSUME NEW i \in DOMAIN faults PROVE faults[i].no \in 1 .. Taken
      <4>1. faults[i] \in {accepted[n] : n \in 1 .. Taken}
        BY DEF KeptInv, FaultsAccounted
      <4> QED BY <1>1, <4>1
    <3> QED BY <3>1
  <2>5. \A i, j \in DOMAIN faults' : i < j => faults'[i].no < faults'[j].no
    <3>1. ASSUME NEW i \in DOMAIN faults', NEW j \in DOMAIN faults', i < j
          PROVE  faults'[i].no < faults'[j].no
      <4>1. CASE j \in DOMAIN faults
        <5>1. i \in DOMAIN faults
          BY <2>2, <3>1, <4>1
        <5>2. faults'[i] = faults[i] /\ faults'[j] = faults[j]
          BY <2>2, <4>1, <5>1
        <5> QED BY <3>1, <4>1, <5>1, <5>2 DEF KeptInv, FaultsAccounted
      <4>2. CASE j = Len(faults) + 1
        <5>1. i \in DOMAIN faults /\ faults'[i] = faults[i] /\ faults'[j] = w
          BY <2>2, <3>1, <4>2
        <5> QED BY <1>1, <2>4, <5>1
      <4> QED BY <2>3, <4>1, <4>2
    <3> QED BY <3>1
  <2>6. {faults'[i] : i \in DOMAIN faults'} = {faults[i] : i \in DOMAIN faults} \cup {w}
    <3>1. Len(faults) + 1 \in DOMAIN faults' /\ DOMAIN faults \subseteq DOMAIN faults'
      BY <2>2
    <3> QED BY <2>2, <2>3, <3>1
  <2>7. {c \in {accepted[n] : n \in 1 .. Taken'} : IsFault(c)}
            = {c \in {accepted[n] : n \in 1 .. Taken} : IsFault(c)} \cup {w}
    BY <1>6, <1>8
  <2>8. FaultsAccounted'
    <3>1. {faults[i] : i \in DOMAIN faults}
              = {c \in {accepted[n] : n \in 1 .. Taken} : IsFault(c)}
      BY DEF KeptInv, FaultsAccounted
    <3>2. accepted' = accepted
      BY <1>1
    <3> QED BY <2>5, <2>6, <2>7, <3>1, <3>2 DEF FaultsAccounted
  <2> QED BY <1>5, <2>8 DEF KeptInv
<1> QED BY <1>2, <1>7, <1>8

\* The pending text leaves its place only for the wire, or given up.
LEMMA KeptFlush ==
    ASSUME PathInv, KeptInv, RunnerFlush
    PROVE  KeptInv'
<1>1. UNCHANGED <<slots, head, count, accepted, faults>>
  BY DEF RunnerFlush, queueVars
<1>2. Taken' = Taken
  BY <1>1 DEF Taken
<1>3. CASE UNCHANGED <<pending, sent, dropped>>
  BY <1>1, <1>2, <1>3, KeptSame DEF SentNos, PendingNos
<1>4. CASE FlushDrop
  BY <1>1, <1>2, <1>4, KeptSame DEF FlushDrop, SentNos, PendingNos
<1>5. CASE FlushSend
  <2> DEFINE m == [no |-> pending.no, session |-> sessions]
  <2>1. /\ conn = "up" /\ pending # NoCommand /\ pending' = NoCommand
        /\ sent' = Append(sent, m) /\ dropped' = dropped /\ m.no = pending.no
    BY <1>5 DEF FlushSend
  <2>2. pending.no \in 1 .. MaxCommands /\ sessions \in 1 .. MaxSessions
    BY <2>1, BoundsAssumption DEF PathInv, TypeOK, CountInv, Command
  <2>3. m \in [no : 1 .. MaxCommands, session : 1 .. MaxSessions]
    BY <2>2
  <2> HIDE DEF m
  <2>4. sent \in Seq([no : 1 .. MaxCommands, session : 1 .. MaxSessions])
    BY DEF PathInv, TypeOK
  <2>5. /\ Len(sent') = Len(sent) + 1 /\ Len(sent) \in Nat
        /\ \A i \in 1 .. Len(sent) : sent'[i] = sent[i]
        /\ sent'[Len(sent) + 1] = m
        /\ DOMAIN sent = 1 .. Len(sent) /\ DOMAIN sent' = 1 .. Len(sent) + 1
    BY <2>1, <2>3, <2>4, AppendProperties
  <2>6. SentNos \subseteq SentNos' /\ pending.no \in SentNos'
    BY <2>1, <2>5 DEF SentNos
  <2> QED BY <1>1, <1>2, <2>1, <2>6, KeptSame DEF PendingNos
<1> QED BY <1>3, <1>4, <1>5 DEF RunnerFlush, FlushFails

\* Every step keeps what was taken.
LEMMA KeptStep == PathInv /\ KeptInv /\ [Next]_vars => KeptInv'
<1> SUFFICES ASSUME PathInv, KeptInv, [Next]_vars PROVE KeptInv'
  OBVIOUS
<1>1. ASSUME NEW s \in Senders, SendPush(s) PROVE KeptInv'
  <2>1. Stamp \in 1 .. MaxSessions + 1
    BY BoundsAssumption DEF PathInv, TypeOK, CountInv, Stamp
  <2>2. PICK k \in Kinds :
          /\ Push([kind |-> k, no |-> Len(accepted) + 1, session |-> Stamp])
          /\ accepted' = Append(accepted,
                 [kind |-> k, no |-> Len(accepted) + 1, session |-> Stamp])
    BY <1>1 DEF SendPush
  <2>3. Len(accepted) < MaxCommands
    BY <1>1 DEF SendPush
  <2>4. Taken \in Nat /\ Taken <= Len(accepted) /\ Len(accepted) \in Nat
    BY WaitingTypes DEF PathInv
  <2>5. Taken' = Taken /\ \A n \in 1 .. Len(accepted) : accepted'[n] = accepted[n]
    BY <2>1, <2>2, <2>3, PushKeepsWindow DEF PathInv
  <2>6. Taken' = Taken /\ \A n \in 1 .. Taken : accepted'[n] = accepted[n]
    BY <2>4, <2>5
  <2>7. UNCHANGED <<pending, sent, dropped, faults>>
    BY <1>1 DEF SendPush, RunnerUnchanged
  <2> QED BY <2>6, <2>7, KeptSame DEF SentNos, PendingNos
<1>2. CASE RunnerTake
  BY <1>2, KeptTake
<1>3. CASE RunnerFlush
  BY <1>3, KeptFlush
<1>4. CASE UNCHANGED <<queueVars, accepted, pending, sent, dropped, faults>>
  BY <1>4, KeptSame DEF queueVars, Taken, SentNos, PendingNos
<1>5. \/ \E s \in Senders : SendPush(s)
      \/ RunnerTake \/ RunnerFlush
      \/ UNCHANGED <<queueVars, accepted, pending, sent, dropped, faults>>
  BY DEF Next, vars, Sender, SendReadState, SendReadSnapshot, SendBusy,
         RequestStop, Runner, RunnerCheck, RunnerEmpty, RunnerScenario, RunnerStep,
         RunnerRefresh, RunnerUnchanged, queueVars, senderVars, history
<1> QED BY <1>1, <1>2, <1>3, <1>4, <1>5

\* The invariant of what was taken.
LEMMA KeptHolds == Spec => []KeptInv
<1>1. Init => KeptInv
  BY DEF Init, QueueInit, KeptInv, NewestTextSurvives, FaultsAccounted, Taken
<1> QED BY <1>1, KeptStep, PathInvariant, PTL DEF Spec

\* The newest text taken is never lost without the connection being gone,
\* though older ones may be overwritten (runner_process_commands).
THEOREM PathNewestText == Spec => []NewestTextSurvives
<1>1. KeptInv => NewestTextSurvives
  BY DEF KeptInv
<1> QED BY <1>1, KeptHolds, PTL

\* Every fault accepted is applied once, in order, and no other
\* (device_host_inject_fault, runner_process_commands).
THEOREM PathFaults == Spec => []FaultsAccounted
<1>1. KeptInv => FaultsAccounted
  BY DEF KeptInv
<1> QED BY <1>1, KeptHolds, PTL
=============================================================================
