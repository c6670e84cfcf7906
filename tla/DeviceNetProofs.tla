---------------------------- MODULE DeviceNetProofs ----------------------------
(***************************************************************************)
(* Theorems about Recovery, for any hosts, capacities and time-outs and    *)
(* for any number of disturbances: a device that connects knows to whom,   *)
(* it follows what it hears, and its discovery and back-off do nothing     *)
(* that the state machine of DeviceCore does not allow; and about          *)
(* FrameStream, for any buffers and numbers of frames and connections: the *)
(* messages of a connection are heard in order, and none is lost unseen.   *)
(***************************************************************************)
EXTENDS Recovery, FrameStream, FiniteSetTheorems, SequenceTheorems, TLAPS

(* Recovery *)

\* What the properties need of the types; the timers and counters are free.
RecoveryTypes ==
    /\ st \in States
    /\ sessHost \in Hosts \cup {NoHost}
    /\ cands \in Seq(Hosts) /\ flash \in Seq(Hosts)
    /\ chan \in Seq(Datagrams) /\ ackOk \in BOOLEAN
    /\ seq \in [Hosts -> 1..MaxSeq]

\* A search starts from number zero, and the first announcement ends it: no
\* number is remembered while datagrams are read.
SearchIsFresh == st = "DISCOVERY" => lastSeq = 0

\* The inductive invariant.
RecoveryInv == RecoveryTypes /\ SearchIsFresh /\ AimIsKnown

-----------------------------------------------------------------------------
\* The list after a disconnect: hosts, and the lost one at the head.
LEMMA RememberedFacts ==
    ASSUME cands \in Seq(Hosts), NEW h \in Hosts
    PROVE  /\ Remembered(h) \in Seq(Hosts)
           /\ Remembered(h) # <<>>
           /\ Head(Remembered(h)) = h
<1>1. CandMax \in Nat /\ CandMax >= 1
  BY RecoveryAssumption
<1>2. CASE cands # <<>> /\ Head(cands) = h
  BY <1>2 DEF Remembered
<1>3. CASE ~(cands # <<>> /\ Head(cands) = h)
  <2> DEFINE all == <<h>> \o cands
             n == IF Len(cands) < CandMax THEN Len(cands) + 1 ELSE CandMax
  <2>1. all \in Seq(Hosts) /\ Len(all) = Len(cands) + 1 /\ all[1] = h
    OBVIOUS
  <2>2. Len(cands) \in Nat
    OBVIOUS
  <2>3. n \in 1..Len(all)
    BY <1>1, <2>1, <2>2
  <2>4. /\ SubSeq(all, 1, n) \in Seq(Hosts)
        /\ Len(SubSeq(all, 1, n)) = n
        /\ SubSeq(all, 1, n)[1] = h
    BY <2>1, <2>3
  <2>5. Remembered(h) = SubSeq(all, 1, n)
    BY <1>3 DEF Remembered
  <2> QED
    BY <2>3, <2>4, <2>5
<1> QED
  BY <1>2, <1>3

\* A new session keeps the invariant.
LEMMA RecoveryStarts == Init => RecoveryInv
<1> SUFFICES ASSUME Init
             PROVE  RecoveryInv
  OBVIOUS
<1>1. <<>> \in Seq(Datagrams) /\ <<>> \in Seq(Hosts)
  OBVIOUS
<1>2. seq \in [Hosts -> 1..MaxSeq]
  BY RecoveryAssumption DEF Init
<1>3. RecoveryTypes
  BY <1>1, <1>2 DEF Init, RecoveryTypes, States
<1> QED
  BY <1>3 DEF Init, RecoveryInv, SearchIsFresh, AimIsKnown

\* What is sent to the group leaves numbers and datagrams of their types.
LEMMA MulticastTypes ==
    ASSUME RecoveryTypes, NEW cmd \in {"announce", "bye"}, NEW h \in Hosts,
           Multicast(cmd, h)
    PROVE  /\ chan' \in Seq(Datagrams) /\ seq' \in [Hosts -> 1..MaxSeq]
           /\ chan' = chan \/ Len(chan') = Len(chan) + 1
<1> DEFINE m == [cmd |-> cmd, seq |-> seq[h], host |-> h]
<1>1. MaxSeq \in Nat \ {0}
  BY RecoveryAssumption
<1>2. NextSeq(h) \in 1..MaxSeq /\ seq[h] \in 1..MaxSeq
  BY <1>1 DEF NextSeq, RecoveryTypes
<1>3. m \in Datagrams
  BY <1>2 DEF Datagrams
<1>4. chan' = chan \/ chan' = Append(chan, m)
  BY DEF Multicast
<1>5. chan \in Seq(Datagrams)
  BY DEF RecoveryTypes
<1> HIDE DEF m
<1>6. Append(chan, m) \in Seq(Datagrams) /\ Len(Append(chan, m)) = Len(chan) + 1
  BY <1>3, <1>5
<1>7. seq' \in [Hosts -> 1..MaxSeq]
  BY <1>2 DEF Multicast, RecoveryTypes
<1> QED
  BY <1>4, <1>5, <1>6, <1>7

\* The rounds of the device: discovery ...
LEMMA DiscoveryKeeps == RecoveryInv /\ Discovery => RecoveryInv'
<1> SUFFICES ASSUME RecoveryInv, Discovery
             PROVE  RecoveryInv'
  OBVIOUS
<1> USE RecoveryAssumption
    DEF RecoveryInv, RecoveryTypes, SearchIsFresh, AimIsKnown, Enter,
        memory, session, hosts, disc, timers
<1>1. CASE StaJoined
  BY <1>1 DEF StaJoined, DiscoveryStart, States
<1>2. ASSUME NEW r, st = "DISCOVERY", NotFound(r)
      PROVE  RecoveryInv'
  BY <1>2 DEF NotFound, DiscoveryStart
<1>3. ASSUME NEW h \in Hosts, st = "DISCOVERY", Found(h), chan' \in Seq(Datagrams)
      PROVE  RecoveryInv'
  BY <1>3 DEF Found, States
<1>4. CASE \E h \in Hosts : MdnsFinds(h)
  BY <1>3, <1>4 DEF MdnsFinds, Searching
<1>5. CASE MdnsFails \/ PollNothing \/ NoCandidate
  BY <1>2, <1>5 DEF MdnsFails, PollNothing, NoCandidate, Searching
<1>6. CASE CandidateFound
  BY <1>3, <1>6 DEF CandidateFound, Searching
<1>7. CASE PollDatagram
  <2> DEFINE d == Head(chan)
  <2>1. d \in Datagrams /\ chan' \in Seq(Datagrams)
    BY <1>7 DEF PollDatagram
  <2>2. Known(d) \in Hosts \cup {NoHost}
    BY <2>1 DEF Known, Datagrams
  <2>3. CASE Known(d) # NoHost
    BY <1>3, <1>7, <2>1, <2>2, <2>3 DEF PollDatagram, Searching
  <2>4. CASE Known(d) = NoHost
    BY <1>7, <2>1, <2>4 DEF PollDatagram, HandleUdp, Known, Datagrams
  <2> QED
    BY <2>3, <2>4
<1> QED
  BY <1>1, <1>4, <1>5, <1>6, <1>7 DEF Discovery

\* ... the session ...
LEMMA SessionKeeps == RecoveryInv /\ Session => RecoveryInv'
<1> SUFFICES ASSUME RecoveryInv, Session
             PROVE  RecoveryInv'
  OBVIOUS
<1> USE RecoveryAssumption
    DEF RecoveryInv, RecoveryTypes, SearchIsFresh, AimIsKnown, Enter,
        memory, session, hosts, disc, timers
<1>1. ASSUME sessHost \in Hosts, HealOnDisconnect
      PROVE  /\ cands' \in Seq(Hosts) /\ flash' \in Seq(Hosts)
             /\ cands' # <<>> /\ Head(cands') = sessHost
             /\ st' = "HEAL"
  BY <1>1, RememberedFacts DEF HealOnDisconnect
<1>2. CASE ConnectStep
  BY <1>1, <1>2 DEF ConnectStep, ConnectOk, States
<1>3. CASE ReadAnswer
  BY <1>3 DEF ReadAnswer
<1>4. CASE ReadClosed
  BY <1>4 DEF ReadClosed
<1>5. CASE SessionEnds
  BY <1>1, <1>5 DEF SessionEnds, States
<1> QED
  BY <1>2, <1>3, <1>4, <1>5 DEF Session

\* ... the back-off, and the restart.
LEMMA HealKeeps == RecoveryInv /\ (Heal \/ Reboot) => RecoveryInv'
<1> SUFFICES ASSUME RecoveryInv, Heal \/ Reboot
             PROVE  RecoveryInv'
  OBVIOUS
<1> USE RecoveryAssumption
    DEF RecoveryInv, RecoveryTypes, SearchIsFresh, AimIsKnown, Enter,
        memory, session, hosts, disc, States
<1>1. ASSUME NEW a, st = "HEAL", SearchAgain(a),
             UNCHANGED <<sessHost, memory, session, hosts>>
      PROVE  RecoveryInv'
  <2>1. CASE UNCHANGED <<st, disc>>
    BY <1>1, <2>1
  <2>2. CASE Enter("DISCOVERY") /\ DiscoveryStart
    BY <1>1, <2>2 DEF DiscoveryStart
  <2> QED
    BY <1>1, <2>1, <2>2 DEF SearchAgain
<1>2. CASE HealWaits \/ HealFails
  BY <1>1, <1>2 DEF HealWaits, HealFails
<1>3. CASE HealConnects
  BY <1>3 DEF HealConnects, ConnectOk
<1>4. CASE Reboot
  <2>1. <<>> \in Seq(Datagrams)
    OBVIOUS
  <2>2. RecoveryTypes'
    BY <1>4, <2>1 DEF Reboot
  <2> QED
    BY <1>4, <2>2 DEF Reboot
<1> QED
  BY <1>2, <1>3, <1>4 DEF Heal

\* Hosts, network and time touch neither the aim nor the list.
LEMMA OthersKeep == RecoveryInv /\ (HostNext \/ Disturbance \/ Tick) => RecoveryInv'
<1> SUFFICES ASSUME RecoveryInv, HostNext \/ Disturbance \/ Tick
             PROVE  RecoveryInv'
  OBVIOUS
<1> USE RecoveryAssumption
    DEF RecoveryInv, RecoveryTypes, SearchIsFresh, AimIsKnown,
        memory, session, hosts, disc, timers
<1>1. ASSUME NEW h \in Hosts, NEW cmd \in {"announce", "bye"}, Multicast(cmd, h),
             UNCHANGED <<st, sessHost, memory, session>>
      PROVE  RecoveryInv'
  <2>1. chan' \in Seq(Datagrams) /\ seq' \in [Hosts -> 1..MaxSeq]
    BY <1>1, MulticastTypes
  <2>2. UNCHANGED lastSeq
    BY <1>1 DEF Multicast
  <2> QED
    BY <1>1, <2>1, <2>2
<1>2. CASE HostNext
  <2>1. ASSUME NEW h \in Hosts, HostStops(h) \/ HostAnswers(h)
        PROVE  RecoveryInv'
    BY <2>1 DEF HostStops, HostAnswers
  <2> QED
    BY <1>1, <1>2, <2>1 DEF HostNext, Announce
<1>3. CASE Tick
  BY <1>3 DEF Tick
<1>4. CASE Disturbance
  <2>1. UNCHANGED <<st, sessHost, memory>>
    BY <1>4 DEF Disturbance
  <2>2. CASE NetChanges
    BY <2>1, <2>2 DEF NetChanges
  <2>3. ASSUME NEW h \in Hosts, HostDies(h) \/ BusyChanges(h) \/ HostCloses(h)
        PROVE  RecoveryInv'
    BY <2>1, <2>3 DEF HostDies, BusyChanges, HostCloses
  <2>4. ASSUME NEW h \in Hosts, HostStarts(h)
        PROVE  RecoveryInv'
    <3>1. seq' \in [Hosts -> 1..MaxSeq]
      BY <2>4 DEF HostStarts
    <3> QED
      BY <2>1, <2>4, <3>1 DEF HostStarts
  <2>5. ASSUME NEW h \in Hosts, HostLeaves(h)
        PROVE  RecoveryInv'
    BY <1>1, <2>1, <2>5 DEF HostLeaves
  <2> QED
    BY <1>4, <2>2, <2>3, <2>4, <2>5 DEF Disturbance
<1> QED
  BY <1>2, <1>3, <1>4

\* Every state of the round and every event of the network keeps the invariant.
LEMMA RecoveryStep == RecoveryInv /\ [Next]_vars => RecoveryInv'
<1> SUFFICES ASSUME RecoveryInv, [Next]_vars
             PROVE  RecoveryInv'
  OBVIOUS
<1>1. CASE UNCHANGED vars
  BY <1>1
     DEF vars, device, timers, disc, memory, backoff, session, hosts,
         RecoveryInv, RecoveryTypes, SearchIsFresh, AimIsKnown
<1> QED
  BY <1>1, DiscoveryKeeps, SessionKeeps, HealKeeps, OthersKeep
     DEF Next, Device, Disturbed

\* The strengthened invariant holds for every number of hosts, every capacity
\* of the list and of the socket, and every back-off.
THEOREM RecoveryInvariant == Spec => []RecoveryInv
<1> QED
  BY RecoveryStarts, RecoveryStep, PTL DEF Spec

\* sm_connect, sm_session and sm_heal always have an address; a connection
\* goes to it; and heal_on_disconnect leaves it at the head of the list.
THEOREM RecoveryAim == Spec => []AimIsKnown
<1>1. RecoveryInv => AimIsKnown
  BY DEF RecoveryInv
<1> QED
  BY <1>1, RecoveryInvariant, PTL

-----------------------------------------------------------------------------
(***************************************************************************)
(* Types: the timers, the stages, the socket's buffer and the list of      *)
(* candidates stay within their bounds (device_app.h: candidate_list has   *)
(* host_candidate_max places).                                             *)
(***************************************************************************)
ClockTypes == age \in 0..MaxAge /\ healAge \in 0..MaxAge /\ polled \in BOOLEAN
SearchTypes ==
    /\ round \in 0..2 /\ lastSeq \in 0..MaxSeq /\ joined \in BOOLEAN
    /\ Len(chan) <= Buffer
ListTypes ==
    /\ Len(cands) <= CandMax /\ Len(flash) <= CandMax
    /\ attempt \in 0..(Width - 1) /\ busyPending \in BOOLEAN
LinkTypes ==
    /\ sock \in Hosts \cup {NoHost} /\ link \in {"none", "open", "closed", "silent"}
    /\ reply \in {"none", "ok", "busy"} /\ ackOk \in BOOLEAN /\ refused \in BOOLEAN
HostTypes ==
    /\ up \in [Hosts -> {"down", "up", "leaving"}] /\ busy \subseteq Hosts
    /\ netOk \in BOOLEAN /\ faults \in 0..MaxFaults

\* What an action that ends a search, a round or a session leaves of the types.
LEMMA DiscoveryTypes ==
    ASSUME RecoveryInv, ClockTypes, SearchTypes, ListTypes, LinkTypes, HostTypes,
           Discovery, polled' = TRUE
    PROVE  ClockTypes' /\ SearchTypes' /\ ListTypes' /\ LinkTypes' /\ HostTypes'
<1> USE DEF timers, disc, memory, backoff, session, hosts, Enter
<1>1. MaxAge \in Nat /\ MaxSeq \in Nat /\ 0 \in 0..MaxAge /\ 0 \in 0..MaxSeq
  BY RecoveryAssumption
<1>2. /\ chan \in Seq(Datagrams) /\ Len(chan) \in Nat /\ Buffer \in Nat
      /\ chan # <<>> => Head(chan) \in Datagrams /\ Len(Tail(chan)) <= Len(chan)
  BY RecoveryAssumption DEF RecoveryInv, RecoveryTypes
<1>3. UNCHANGED <<healAge, memory, backoff, session, hosts>>
  BY DEF Discovery, StaJoined, MdnsFails, PollNothing, PollDatagram, CandidateFound,
         NoCandidate, MdnsFinds, Found, NotFound
<1>4. age' = age \/ age' = 0
  BY DEF Discovery, StaJoined, MdnsFails, PollNothing, PollDatagram, CandidateFound,
         NoCandidate, MdnsFinds, Found, NotFound
<1>5. SearchTypes'
  <2>1. CASE DiscoveryStart \/ UNCHANGED disc
    BY <1>1, <2>1 DEF DiscoveryStart, SearchTypes, HostTypes
  <2>2. ASSUME NEW r \in 0..2, NotFound(r) PROVE SearchTypes'
    BY <2>1, <2>2 DEF NotFound, SearchTypes
  <2>3. CASE PollDatagram
    <3>1. Head(chan) \in Datagrams /\ Len(chan') <= Buffer /\ joined' = joined
      BY <1>2, <2>3 DEF PollDatagram, SearchTypes
    <3>2. lastSeq' \in 0..MaxSeq /\ round' \in 0..2
      BY <1>1, <2>3, <3>1 DEF PollDatagram, HandleUdp, Datagrams, SearchTypes
    <3> QED BY <3>1, <3>2 DEF SearchTypes
  <2> QED BY <2>1, <2>2, <2>3 DEF Discovery, StaJoined, MdnsFails, PollNothing,
             CandidateFound, NoCandidate, MdnsFinds
<1>6. ClockTypes'
  BY <1>1, <1>3, <1>4 DEF ClockTypes
<1>7. ListTypes' /\ LinkTypes' /\ HostTypes'
  BY <1>3 DEF ListTypes, LinkTypes, HostTypes
<1> QED BY <1>5, <1>6, <1>7

\* The list has no more hosts than places.
LEMMA RememberedFits ==
    ASSUME cands \in Seq(Hosts), Len(cands) <= CandMax, NEW h \in Hosts
    PROVE  Len(Remembered(h)) <= CandMax
<1>1. CandMax \in Nat /\ Len(cands) \in Nat
  BY RecoveryAssumption
<1>2. CASE cands # <<>> /\ Head(cands) = h
  BY <1>2 DEF Remembered
<1>3. CASE ~(cands # <<>> /\ Head(cands) = h)
  <2>0. <<h>> \o cands \in Seq(Hosts) /\ Len(<<h>> \o cands) = Len(cands) + 1
    OBVIOUS
  <2>1. PICK all \in Seq(Hosts) : all = <<h>> \o cands /\ Len(all) = Len(cands) + 1
    BY <2>0, ZenonT(30)
  <2>2. PICK n \in Nat : n = IF Len(cands) < CandMax THEN Len(cands) + 1 ELSE CandMax
    BY <1>1
  <2>3. n <= CandMax /\ n <= Len(all)
    BY <1>1, <2>1, <2>2
  <2>4. Len(SubSeq(all, 1, n)) = n
    BY <2>1, <2>2, <2>3
  <2> QED BY <1>3, <2>1, <2>2, <2>3, <2>4 DEF Remembered
<1> QED BY <1>2, <1>3

LEMMA SessionTypes ==
    ASSUME RecoveryInv, ClockTypes, SearchTypes, ListTypes, LinkTypes, HostTypes,
           Session, polled' = TRUE
    PROVE  ClockTypes' /\ SearchTypes' /\ ListTypes' /\ LinkTypes' /\ HostTypes'
<1> USE DEF timers, disc, memory, backoff, session, hosts, Enter
<1>1. MaxAge \in Nat /\ 0 \in 0..MaxAge /\ Width \in Nat /\ 0 \in 0..(Width - 1)
  BY RecoveryAssumption
<1>2. sessHost \in Hosts \cup {NoHost} /\ (st \in {"CONNECT", "SESSION"} => sessHost \in Hosts)
  BY DEF RecoveryInv, RecoveryTypes, AimIsKnown
<1>3. ASSUME HealOnDisconnect, sessHost \in Hosts
      PROVE  ListTypes' /\ age' = 0 /\ healAge' = 0
  <2>1. Len(cands') <= CandMax
    BY <1>3, RememberedFits DEF HealOnDisconnect, RecoveryInv, RecoveryTypes, ListTypes
  <2> QED BY <1>1, <1>3, <2>1 DEF HealOnDisconnect, ListTypes
<1>4. SearchTypes' /\ HostTypes'
  BY DEF Session, ConnectStep, ReadAnswer, ReadClosed, SessionEnds, SearchTypes, HostTypes
<1>5. CASE ConnectStep
  <2>1. CASE ConnectOk /\ UNCHANGED <<healAge, memory, backoff>>
    <3>1. LinkTypes'
      BY <1>2, <2>1 DEF ConnectOk, LinkTypes
    <3>2. ClockTypes' /\ ListTypes'
      BY <1>1, <2>1 DEF ConnectOk, ClockTypes, ListTypes
    <3> QED BY <1>4, <3>1, <3>2
  <2>2. CASE HealOnDisconnect /\ UNCHANGED session
    <3>1. sessHost \in Hosts
      BY <1>2, <1>5 DEF ConnectStep
    <3> QED BY <1>1, <1>3, <1>4, <2>2, <3>1 DEF ClockTypes, LinkTypes
  <2> QED BY <1>5, <2>1, <2>2 DEF ConnectStep
<1>6. CASE ReadAnswer \/ ReadClosed
  <2>1. LinkTypes'
    BY <1>6 DEF ReadAnswer, ReadClosed, LinkTypes
  <2>2. ClockTypes'
    BY <1>6 DEF ReadAnswer, ReadClosed, ClockTypes
  <2>3. ListTypes'
    BY <1>6 DEF ReadAnswer, ReadClosed, ListTypes
  <2> QED BY <1>4, <2>1, <2>2, <2>3
<1>7. CASE SessionEnds
  <2>1. sessHost \in Hosts /\ HealOnDisconnect
    BY <1>2, <1>7 DEF SessionEnds
  <2>2. LinkTypes'
    BY <1>7 DEF SessionEnds, LinkTypes
  <2> QED BY <1>1, <1>3, <1>4, <2>1, <2>2 DEF ClockTypes
<1> QED BY <1>5, <1>6, <1>7 DEF Session

LEMMA HealTypes ==
    ASSUME RecoveryInv, ClockTypes, SearchTypes, ListTypes, LinkTypes, HostTypes,
           \/ Heal /\ polled' = TRUE
           \/ Reboot /\ UNCHANGED polled
    PROVE  ClockTypes' /\ SearchTypes' /\ ListTypes' /\ LinkTypes' /\ HostTypes'
<1> USE DEF timers, disc, memory, backoff, session, hosts, Enter
<1>1. /\ MaxAge \in Nat /\ 0 \in 0..MaxAge /\ 0 \in 0..MaxSeq
      /\ Width \in Nat \ {0} /\ 0 \in 0..(Width - 1) /\ MaxFaults \in Nat /\ Buffer \in Nat
  BY RecoveryAssumption
<1>2. (attempt + 1) % Width \in 0..(Width - 1)
  BY <1>1 DEF ListTypes
<1>3. ASSUME DelayDrawn, UNCHANGED memory PROVE ListTypes'
  BY <1>2, <1>3 DEF DelayDrawn, ListTypes
<1>4. ASSUME NEW a \in 0..MaxAge, SearchAgain(a) PROVE age' \in 0..MaxAge /\ SearchTypes'
  BY <1>1, <1>4 DEF SearchAgain, DiscoveryStart, SearchTypes, HostTypes
<1>5. CASE (HealWaits \/ HealFails) /\ polled' = TRUE
  <2>1. LinkTypes' /\ HostTypes'
    BY <1>5 DEF HealWaits, HealFails, LinkTypes, HostTypes
  <2>2. ListTypes'
    BY <1>3, <1>5 DEF HealWaits, HealFails
  <2>3. age' \in 0..MaxAge /\ SearchTypes' /\ healAge' = healAge
    BY <1>1, <1>4, <1>5 DEF HealWaits, HealFails, ClockTypes
  <2> QED BY <1>5, <2>1, <2>2, <2>3 DEF ClockTypes
<1>6. CASE HealConnects /\ polled' = TRUE
  <2>1. SearchTypes' /\ HostTypes'
    BY <1>6 DEF HealConnects, SearchTypes, HostTypes
  <2>2. ListTypes' /\ ClockTypes'
    BY <1>1, <1>6 DEF HealConnects, ConnectOk, ListTypes, ClockTypes
  <2>3. sessHost \in Hosts \cup {NoHost}
    BY DEF RecoveryInv, RecoveryTypes
  <2>4. LinkTypes'
    BY <1>6, <2>3 DEF HealConnects, ConnectOk, LinkTypes
  <2> QED BY <2>1, <2>2, <2>4
<1>7. CASE Reboot /\ UNCHANGED polled
  <2>1. Len(<<>>) = 0 /\ Len(<<>>) <= Buffer
    BY <1>1
  <2>2. SearchTypes'
    <3>0. round' = 0 /\ lastSeq' = 0 /\ joined' = FALSE
      BY <1>7, Zenon DEF Reboot
    <3>1. round' \in 0..2 /\ lastSeq' \in 0..MaxSeq /\ joined' \in BOOLEAN
      <4>1. 0 \in 0..2
        OBVIOUS
      <4> QED BY <1>1, <3>0, <4>1, Zenon
    <3>2. chan' = <<>>
      BY <1>7 DEF Reboot
    <3>3. Len(chan') <= Buffer
      BY <2>1, <3>2
    <3> QED BY <3>1, <3>3 DEF SearchTypes
  <2>3. ListTypes' /\ ClockTypes'
    BY <1>1, <1>7 DEF Reboot, ListTypes, ClockTypes
  <2>4. LinkTypes'
    BY <1>7 DEF Reboot, LinkTypes
  <2>5. faults' \in 0..MaxFaults
    BY <1>1, <1>7 DEF Reboot, HostTypes
  <2>6. UNCHANGED <<up, busy, netOk>>
    BY <1>7 DEF Reboot
  <2>7. HostTypes'
    BY <2>5, <2>6 DEF HostTypes
  <2> QED BY <2>2, <2>3, <2>4, <2>7
<1> QED BY <1>5, <1>6, <1>7 DEF Heal

LEMMA OtherTypes ==
    ASSUME RecoveryInv, ClockTypes, SearchTypes, ListTypes, LinkTypes, HostTypes,
           \/ (HostNext \/ Disturbance) /\ UNCHANGED polled
           \/ Tick
    PROVE  ClockTypes' /\ SearchTypes' /\ ListTypes' /\ LinkTypes' /\ HostTypes'
<1> USE DEF timers, disc, memory, backoff, session, hosts
<1>1. ListTypes'
  BY DEF HostNext, Announce, HostStops, HostAnswers, Disturbance, Tick, ListTypes
<1>2. ASSUME NEW cmd \in {"announce", "bye"}, NEW h \in Hosts, Multicast(cmd, h)
      PROVE  SearchTypes'
  <2>1. chan' = chan \/ (Len(chan) < Buffer /\ Len(chan') = Len(chan) + 1)
    <3>1. CASE UNCHANGED chan
      BY <3>1
    <3>2. CASE Len(chan) < Buffer
      BY <1>2, <3>2, MulticastTypes DEF RecoveryInv
    <3> QED BY <1>2, <3>1, <3>2 DEF Multicast
  <2>2. Len(chan) \in Nat /\ Buffer \in Nat
    BY RecoveryAssumption DEF RecoveryInv, RecoveryTypes
  <2>3. Len(chan') <= Buffer
    BY <2>1, <2>2 DEF SearchTypes
  <2> QED BY <1>2, <2>3 DEF Multicast, SearchTypes
<1>3. CASE Tick
  <2>1. MaxAge \in Nat
    BY RecoveryAssumption
  <2>2. ClockTypes'
    <3>1. age' = IF age < MaxAge THEN age + 1 ELSE age
      BY <1>3 DEF Tick
    <3>2. healAge' = IF st = "HEAL" /\ healAge < MaxAge THEN healAge + 1 ELSE healAge
      BY <1>3 DEF Tick
    <3>3. age \in 0..MaxAge /\ healAge \in 0..MaxAge
      BY DEF ClockTypes
    <3>4. age' \in 0..MaxAge
      BY <2>1, <3>1, <3>3
    <3>5. healAge' \in 0..MaxAge
      BY <2>1, <3>2, <3>3
    <3>6. polled' \in BOOLEAN
      BY <1>3 DEF Tick
    <3> QED BY <3>4, <3>5, <3>6, Zenon DEF ClockTypes
  <2>3. SearchTypes' /\ LinkTypes' /\ HostTypes'
    BY <1>3 DEF Tick, SearchTypes, LinkTypes, HostTypes
  <2> QED BY <1>1, <2>2, <2>3
<1>4. CASE HostNext /\ UNCHANGED polled
  <2>0. UNCHANGED <<age, healAge, polled>>
    BY <1>4 DEF HostNext, Announce, HostStops, HostAnswers
  <2>1. ClockTypes'
    <3>1. age' = age /\ healAge' = healAge /\ polled' = polled
      BY <2>0
    <3>2. age' \in 0..MaxAge /\ healAge' \in 0..MaxAge
      BY <3>1 DEF ClockTypes
    <3>3. polled' \in BOOLEAN
      BY <3>1, Zenon DEF ClockTypes
    <3> QED BY <3>2, <3>3, Zenon DEF ClockTypes
  <2>2. ASSUME NEW h \in Hosts, Announce(h)
        PROVE  SearchTypes' /\ LinkTypes' /\ HostTypes'
    BY <1>2, <2>2 DEF Announce, LinkTypes, HostTypes
  <2>3. ASSUME NEW h \in Hosts, HostStops(h) \/ HostAnswers(h)
        PROVE  SearchTypes' /\ LinkTypes' /\ HostTypes'
    <3>1. SearchTypes'
      BY <2>3 DEF HostStops, HostAnswers, SearchTypes
    <3>2. LinkTypes'
      BY <2>3 DEF HostStops, HostAnswers, LinkTypes
    <3>3. HostTypes'
      BY <2>3 DEF HostStops, HostAnswers, HostTypes
    <3> QED BY <3>1, <3>2, <3>3
  <2> QED BY <1>1, <1>4, <2>1, <2>2, <2>3 DEF HostNext
<1>5. CASE Disturbance /\ UNCHANGED polled
  <2>1. ClockTypes' /\ faults' \in 0..MaxFaults
    BY <1>5, RecoveryAssumption DEF Disturbance, ClockTypes, HostTypes
  <2>2. CASE NetChanges
    BY <1>1, <2>1, <2>2 DEF NetChanges, SearchTypes, LinkTypes, HostTypes
  <2>3. ASSUME NEW h \in Hosts, HostLeaves(h)
        PROVE  SearchTypes' /\ LinkTypes' /\ HostTypes'
    BY <1>2, <2>1, <2>3 DEF HostLeaves, LinkTypes, HostTypes
  <2>4. ASSUME NEW h \in Hosts, HostStarts(h) \/ HostDies(h) \/ BusyChanges(h) \/ HostCloses(h)
        PROVE  SearchTypes' /\ LinkTypes' /\ HostTypes'
    <3>1. SearchTypes'
      BY <2>4 DEF HostStarts, HostDies, BusyChanges, HostCloses, SearchTypes
    <3>2. LinkTypes'
      BY <2>4 DEF HostStarts, HostDies, BusyChanges, HostCloses, LinkTypes
    <3>3. HostTypes'
      BY <2>1, <2>4 DEF HostStarts, HostDies, BusyChanges, HostCloses, HostTypes
    <3> QED BY <3>1, <3>2, <3>3
  <2> QED BY <1>1, <1>5, <2>1, <2>2, <2>3, <2>4 DEF Disturbance
<1> QED BY <1>3, <1>4, <1>5

\* A list with no more hosts than places.
LEMMA ListFits ==
    ASSUME NEW s \in Seq(Hosts), Len(s) <= CandMax
    PROVE  s \in Candidates
<1>1. Len(s) \in 0..CandMax /\ s \in [1..Len(s) -> Hosts]
  BY RecoveryAssumption
<1> QED BY <1>1 DEF Candidates

\* Type correctness of discovery, session, back-off and hosts
\* (device_discovery.c, device_heal.c, device_session.c, host_announcer.cpp).
THEOREM RecoveryTypeOK == Spec => []TypeOK
<1> DEFINE InBounds == ClockTypes /\ SearchTypes /\ ListTypes /\ LinkTypes /\ HostTypes
<1>1. Init => InBounds
  <2> SUFFICES ASSUME Init PROVE InBounds
    OBVIOUS
  <2>1. /\ 0 \in 0..MaxAge /\ 0 \in 0..MaxSeq /\ 0 \in 0..(Width - 1) /\ 0 \in 0..MaxFaults
        /\ Len(<<>>) <= Buffer /\ Len(<<>>) <= CandMax
    BY RecoveryAssumption
  <2>2. ClockTypes
    BY <2>1 DEF Init, ClockTypes
  <2>3. chan = <<>> /\ Len(chan) <= Buffer
    <3>1. chan = <<>>
      BY DEF Init
    <3> QED BY <2>1, <3>1
  <2>4. SearchTypes
    <3>1. round = 0 /\ lastSeq = 0 /\ joined = FALSE
      BY Zenon DEF Init
    <3>2. 0 \in 0..2
      OBVIOUS
    <3> QED BY <2>1, <2>3, <3>1, <3>2, Zenon DEF SearchTypes
  <2>5. ListTypes /\ LinkTypes
    BY <2>1 DEF Init, ListTypes, LinkTypes
  <2>6. HostTypes
    BY <2>1 DEF Init, HostTypes
  <2> QED BY <2>2, <2>4, <2>5, <2>6
<1>2. RecoveryInv /\ InBounds /\ [Next]_vars => InBounds'
  <2> SUFFICES ASSUME RecoveryInv, InBounds, [Next]_vars PROVE InBounds'
    OBVIOUS
  <2>1. CASE UNCHANGED vars
    BY <2>1 DEF vars, device, timers, disc, memory, backoff, session, hosts, ClockTypes,
                SearchTypes, ListTypes, LinkTypes, HostTypes
  <2> QED BY <2>1, DiscoveryTypes, SessionTypes, HealTypes, OtherTypes
             DEF Next, Device, Disturbed, HostNext
<1>3. RecoveryInv /\ InBounds => TypeOK
  BY ListFits DEF RecoveryInv, RecoveryTypes, ClockTypes, SearchTypes, ListTypes, LinkTypes,
                  HostTypes, TypeOK
<1> QED BY <1>1, <1>2, <1>3, RecoveryInvariant, PTL DEF Spec

-----------------------------------------------------------------------------
\* discovery_handle_udp: the first announcement that is read is followed,
\* whatever numbers an earlier search has seen.
THEOREM RecoveryFollows == Spec => AnnouncementIsFollowed
<1> DEFINE Follows ==
        Searching(1) /\ chan # <<>> /\ chan' = Tail(chan) /\ st' # "STA_JOIN"
        /\ Head(chan).cmd = "announce"
        => sessHost' = Head(chan).host /\ st' = "CONNECT"
<1>1. RecoveryInv /\ [Next]_vars => [Follows]_vars
  <2> SUFFICES ASSUME RecoveryInv, [Next]_vars,
                      Searching(1), chan # <<>>, chan' = Tail(chan),
                      st' # "STA_JOIN", Head(chan).cmd = "announce"
               PROVE  sessHost' = Head(chan).host /\ st' = "CONNECT"
    OBVIOUS
  <2>1. chan \in Seq(Datagrams) /\ Len(chan) \in Nat /\ Len(chan) > 0
    BY DEF RecoveryInv, RecoveryTypes
  <2>2. Len(chan') = Len(chan) - 1
    BY <2>1
  <2>3. PollDatagram
    <3>1. Len(chan') # Len(chan) /\ Len(chan') # Len(chan) + 1
      <4> DEFINE n == Len(chan)
                 m == Len(chan')
      <4>1. n \in Nat /\ m = n - 1
        BY <2>1, <2>2
      <4> HIDE DEF n, m
      <4>2. m # n /\ m # n + 1
        BY <4>1
      <4> QED
        BY <4>2 DEF n, m
    <3>0. \A h \in Hosts : ~Multicast("announce", h) /\ ~Multicast("bye", h)
      BY <3>1, MulticastTypes DEF RecoveryInv
    <3>2. st = "DISCOVERY" /\ round = 1
      BY DEF Searching
    <3>3. ~Discovery \/ PollDatagram
      BY <3>1, <3>2
         DEF Discovery, StaJoined, MdnsFails, PollNothing, CandidateFound,
             NoCandidate, MdnsFinds, NotFound, DiscoveryStart, Searching, disc
    <3>4. ~Session /\ ~Heal /\ ~Reboot
      BY <3>2
         DEF Session, ConnectStep, ReadAnswer, ReadClosed, SessionEnds,
             Heal, HealWaits, HealConnects, HealFails, Reboot
    <3>5. ~HostNext /\ ~Tick
      BY <3>0, <3>1 DEF HostNext, Announce, HostStops, HostAnswers, Tick, disc
    <3>6. ~Disturbance
      BY <3>0, <3>1
         DEF Disturbance, NetChanges, HostStarts, HostLeaves, HostDies,
             BusyChanges, HostCloses, disc
    <3>7. ~UNCHANGED vars
      BY <3>1 DEF vars, device, disc
    <3> QED
      BY <3>3, <3>4, <3>5, <3>6, <3>7 DEF Next, Device, Disturbed
  <2>4. Head(chan) \in Datagrams
    BY <2>1
  <2>5. Fresh(Head(chan))
    BY <2>4, RecoveryAssumption
       DEF Fresh, Datagrams, RecoveryInv, SearchIsFresh, Searching
  <2>6. Known(Head(chan)) = Head(chan).host /\ Head(chan).host # NoHost
    BY <2>4, <2>5, RecoveryAssumption DEF Known, Datagrams
  <2> QED
    BY <2>3, <2>6 DEF PollDatagram, Found, Enter
<1> QED
  BY <1>1, RecoveryInvariant, PTL DEF Spec, AnnouncementIsFollowed

-----------------------------------------------------------------------------
(* Recovery against the state machine of DeviceCore *)

\* Under the mapping WiFi is up, the credential confirmed, no window runs.
LEMMA CoreIsOnline ==
    ASSUME NEW s \in {"DISCOVERY", "CONNECT", "SESSION", "HEAL"}, st = s
    PROVE  Core!OnlineStep(s)
BY DEF Core!OnlineStep, Core!Tick, Core!WifiValid, Core!WindowPassed

CoreStep ==
    \/ Reboot
    \/ Core!OnlineNext
    \/ Core!Joining /\ st' = "DISCOVERY"
CoreView == <<st, sock # NoHost, ackOk>>

\* The rounds in which nothing happens that DeviceCore could see.
LEMMA CoreFound ==
    ASSUME st = "DISCOVERY", st' = "CONNECT", UNCHANGED session
    PROVE  Core!OnlineNext
BY CoreIsOnline
   DEF Core!OnlineNext, Core!HostFound, Core!KeepAp, Core!KeepCreds,
       Core!KeepSession, Core!apVars, Core!nvsVars, Core!credVars, Core!sessVars,
       session

\* Discovery is DeviceCore's discovery.
LEMMA CoreDiscovers == RecoveryInv /\ Discovery => [CoreStep]_CoreView
<1> SUFFICES ASSUME RecoveryInv, Discovery
             PROVE  [CoreStep]_CoreView
  OBVIOUS
<1>1. CASE StaJoined
  BY <1>1
     DEF StaJoined, Enter, CoreStep, Core!Joining, Core!JoinConnected,
         Core!Tick, Core!KeepAp, Core!KeepCreds, Core!KeepSession,
         Core!apVars, Core!nvsVars, Core!credVars, Core!sessVars, session
<1>2. ASSUME NEW h, st = "DISCOVERY", Found(h)
      PROVE  Core!OnlineNext
  BY <1>2, CoreFound DEF Found, Enter
<1>3. CASE (\E h \in Hosts : MdnsFinds(h)) \/ CandidateFound
  BY <1>2, <1>3 DEF MdnsFinds, CandidateFound, Searching, CoreStep
<1>4. CASE MdnsFails \/ PollNothing \/ NoCandidate
  BY <1>4 DEF MdnsFails, PollNothing, NoCandidate, NotFound, session, CoreView
<1>5. CASE PollDatagram
  BY <1>2, <1>5 DEF PollDatagram, Searching, CoreStep, CoreView, session
<1> QED
  BY <1>1, <1>3, <1>4, <1>5 DEF Discovery

\* A connection, after a discovery or a back-off, is one that DeviceCore allows.
LEMMA CoreConnects ==
    ASSUME RecoveryInv, st \in {"CONNECT", "HEAL"}, ConnectOk
    PROVE  Core!OnlineNext
<1>1. sock' # NoHost /\ st' = "SESSION" /\ ackOk' = FALSE
  BY DEF ConnectOk, Enter, RecoveryInv, AimIsKnown
<1> QED
  BY <1>1, CoreIsOnline
     DEF Core!OnlineNext, Core!Connected, Core!SessionEntered,
         Core!KeepAp, Core!KeepCreds, Core!apVars, Core!nvsVars, Core!credVars

\* The session is DeviceCore's session, its end included.
LEMMA CoreHolds == RecoveryInv /\ Session => [CoreStep]_CoreView
<1> SUFFICES ASSUME RecoveryInv, Session
             PROVE  [CoreStep]_CoreView
  OBVIOUS
<1> USE DEF Core!KeepAp, Core!KeepCreds, Core!apVars, Core!nvsVars,
        Core!credVars, Core!KeepSession, Core!sessVars
<1>1. CASE ConnectStep
  <2>1. CASE ConnectOk
    BY <1>1, <2>1, CoreConnects DEF ConnectStep, CoreStep
  <2>2. CASE HealOnDisconnect /\ UNCHANGED session
    BY <1>1, <2>2, CoreIsOnline
       DEF ConnectStep, HealOnDisconnect, Enter, session, CoreStep,
           Core!OnlineNext, Core!ConnectFails
  <2> QED
    BY <1>1, <2>1, <2>2 DEF ConnectStep
<1>2. ASSUME st = "SESSION", UNCHANGED st, sock # NoHost,
             NEW ack \in BOOLEAN, ackOk' = (ackOk \/ ack)
      PROVE  Core!OnlineNext
  <2>1. Core!OnlineStep("SESSION")
    BY <1>2, CoreIsOnline
  <2>2. Core!ConfirmOnAck
    BY DEF Core!ConfirmOnAck
  <2>3. Core!SessionRound
    BY <1>2, <2>1, <2>2 DEF Core!SessionRound
  <2> QED
    BY <2>3 DEF Core!OnlineNext
<1>3. CASE ReadAnswer
  <2>1. ackOk' = (ackOk \/ TRUE) \/ ackOk' = (ackOk \/ FALSE)
    BY <1>3 DEF ReadAnswer, RecoveryInv, RecoveryTypes
  <2> QED
    BY <1>2, <1>3, <2>1 DEF ReadAnswer, CoreStep
<1>4. CASE ReadClosed
  <2>1. ackOk' = (ackOk \/ FALSE)
    BY <1>4 DEF ReadClosed, RecoveryInv, RecoveryTypes
  <2> QED
    BY <1>2, <1>4, <2>1 DEF ReadClosed, CoreStep
<1>5. CASE SessionEnds
  BY <1>5, CoreIsOnline
     DEF SessionEnds, HealOnDisconnect, Enter, CoreStep,
         Core!OnlineNext, Core!SessionLost
<1> QED
  BY <1>1, <1>3, <1>4, <1>5 DEF Session

\* The back-off is DeviceCore's back-off.
LEMMA CoreHeals == RecoveryInv /\ Heal => [CoreStep]_CoreView
<1> SUFFICES ASSUME RecoveryInv, Heal
             PROVE  [CoreStep]_CoreView
  OBVIOUS
<1>1. ASSUME NEW a, st = "HEAL", SearchAgain(a), UNCHANGED session
      PROVE  [CoreStep]_CoreView
  BY <1>1, CoreIsOnline
     DEF SearchAgain, Enter, session, CoreStep, CoreView,
         Core!OnlineNext, Core!BackToDiscovery, Core!KeepAp, Core!KeepCreds,
         Core!KeepSession, Core!apVars, Core!nvsVars, Core!credVars, Core!sessVars
<1> QED
  BY <1>1, CoreConnects DEF Heal, HealWaits, HealFails, HealConnects, CoreStep

\* What DeviceCore does not see.
LEMMA CoreSeesNothing ==
    HostNext \/ Disturbance \/ Tick \/ UNCHANGED vars => UNCHANGED CoreView
BY DEF HostNext, Announce, HostStops, HostAnswers, Disturbance, NetChanges,
       HostStarts, HostLeaves, HostDies, BusyChanges, HostCloses, Tick,
       session, hosts, vars, device, CoreView

\* What discovery, session and back-off do is what DeviceCore allows: there
\* the outcome of a search and the moment of an attempt are left to chance.
THEOREM RecoveryImplementsCore == Spec => CoreAllows
<1>1. RecoveryInv /\ [Next]_vars => [CoreStep]_CoreView
  BY CoreDiscovers, CoreHolds, CoreHeals, CoreSeesNothing
     DEF Next, Device, Disturbed, CoreStep
<1> QED
  BY <1>1, RecoveryInvariant, PTL DEF Spec, CoreAllows, CoreStep, CoreView

-----------------------------------------------------------------------------
(* The frames of a stream *)

AnyByte == [frame : Nat, place : Nat]

\* The bytes a connection has not consumed, and those of a frame.
Stream == rx \o wire
FrameSize(f) == TextSize(sent[f]) + 2

StreamTypes ==
    /\ sent \in Seq(Kinds) /\ firstFrame \in 1..Len(sent) + 1
    /\ rx \in Seq(AnyByte) /\ wire \in Seq(AnyByte)
    /\ heard \in Seq(Nat) /\ counted \in Nat

\* Whatever has happened to the stream, its bytes are of this connection and in
\* the order they were sent, but for those that were overwritten.
ByteOk(b) ==
    b.frame = 0 \/ (b.frame \in firstFrame..Len(sent) /\ b.place \in 1..FrameSize(b.frame))
Precedes(a, b) == a.frame < b.frame \/ (a.frame = b.frame /\ a.place < b.place)
BytesInOrder(s) ==
    /\ \A i \in 1..Len(s) : ByteOk(s[i])
    /\ \A i, j \in 1..Len(s) :
        i < j /\ s[i].frame # 0 /\ s[j].frame # 0 => Precedes(s[i], s[j])

\* What was heard is behind the stream.
HeardInOrder(s) ==
    /\ \A i \in 1..Len(heard) : heard[i] \in firstFrame..Len(sent) /\ sent[heard[i]] \in Legal
    /\ \A i, j \in 1..Len(heard) : i < j => heard[i] < heard[j]
    /\ \A i \in 1..Len(heard), j \in 1..Len(s) : s[j].frame # 0 => heard[i] < s[j].frame

\* The stream is the frames from g on, one behind the other: frame f starts
\* behind off[f] bytes.
Placed(s, g, off) ==
    /\ off \in [g..Len(sent) + 1 -> Nat]
    /\ off[g] = 0 /\ off[Len(sent) + 1] = Len(s)
    /\ \A f \in g..Len(sent) : off[f + 1] = off[f] + FrameSize(f)
    /\ \A f, h \in g..Len(sent) + 1 : f < h => off[f] + FrameSize(f) <= off[h]
    /\ \A f \in g..Len(sent) : \A p \in 1..FrameSize(f) : s[off[f] + p] = Byte(f, p)
Whole(s, g) ==
    /\ \A i \in 1..Len(s) : s[i].frame # 0
    /\ \E off : Placed(s, g, off)

\* The frames before g were heard, or counted.
Bad(g) == {f \in firstFrame..g - 1 : sent[f] \notin Legal}
Handled(g) ==
    /\ \A f \in firstFrame..g - 1 : sent[f] \in Legal => \E i \in 1..Len(heard) : heard[i] = f
    /\ \A i \in 1..Len(heard) : heard[i] < g
    /\ counted = Cardinality(Bad(g))

\* As long as the device has not lost its place in the stream.
PlaceKept ==
    conn # "none" /\ fate = {} =>
        \E g \in firstFrame..Len(sent) + 1 : Whole(Stream, g) /\ Handled(g)

FrameInv == StreamTypes /\ BytesInOrder(Stream) /\ HeardInOrder(Stream) /\ PlaceKept

-----------------------------------------------------------------------------
\* Only a text has bytes.
LEMMA TextSizes ==
    ASSUME NEW k \in Kinds
    PROVE  /\ TextSize(k) \in Nat
           /\ TextSize(k) = 0 <=> k \in {"empty", "large"}
           /\ k \in Legal => TextSize(k) > 0
BY FrameAssumption DEF TextSize, Kinds, Legal

\* A frame is at least as long as its length.
LEMMA FrameSizes ==
    ASSUME sent \in Seq(Kinds), NEW f \in 1..Len(sent)
    PROVE  FrameSize(f) \in Nat /\ FrameSize(f) >= 2 /\ sent[f] \in Kinds
<1>1. sent[f] \in Kinds
  OBVIOUS
<1> QED BY <1>1, TextSizes DEF FrameSize

\* A byte is known by its frame and its place.
LEMMA ByteFacts ==
    ASSUME NEW f \in Nat, NEW p \in Nat
    PROVE  Byte(f, p) \in AnyByte /\ Byte(f, p).frame = f /\ Byte(f, p).place = p
BY DEF Byte, AnyByte

\* The bytes of a frame.
LEMMA BytesFacts ==
    ASSUME NEW f \in Nat, NEW k \in Kinds
    PROVE  /\ Bytes(f, k) \in Seq(AnyByte) /\ Len(Bytes(f, k)) = TextSize(k) + 2
           /\ \A p \in 1..TextSize(k) + 2 : Bytes(f, k)[p] = Byte(f, p)
<1>1. TextSize(k) + 2 \in Nat
  BY TextSizes
<1>2. \A p \in 1..TextSize(k) + 2 : Byte(f, p) \in AnyByte
  BY <1>1, ByteFacts
<1> QED BY <1>1, <1>2 DEF Bytes

\* What is in the buffer is in front of what is on its way.
LEMMA StreamFacts ==
    ASSUME rx \in Seq(AnyByte), wire \in Seq(AnyByte)
    PROVE  /\ Stream \in Seq(AnyByte) /\ Len(Stream) = Len(rx) + Len(wire)
           /\ Len(Stream) \in Nat /\ Len(rx) \in Nat /\ Len(wire) \in Nat
           /\ \A i \in 1..Len(rx) : Stream[i] = rx[i]
           /\ \A i \in 1..Len(wire) : Stream[Len(rx) + i] = wire[i]
<1>1. \A i \in 1..Len(wire) : (rx \o wire)[Len(rx) + i] = wire[i]
  BY ConcatProperties
<1> QED BY <1>1, ConcatProperties DEF Stream

\* A stream that begins later, ends earlier, or has bytes overwritten.
Piece(t, s, d) ==
    /\ Len(t) + d <= Len(s)
    /\ \A i \in 1..Len(t) : t[i] = s[i + d] \/ t[i].frame = 0

\* What is left of an ordered stream is ordered.
LEMMA PieceKeeps ==
    ASSUME NEW s \in Seq(AnyByte), NEW t \in Seq(AnyByte), NEW d \in Nat, Piece(t, s, d),
           BytesInOrder(s), UNCHANGED <<sent, firstFrame>>
    PROVE  /\ BytesInOrder(t)'
           /\ HeardInOrder(s) /\ UNCHANGED heard => HeardInOrder(t)'
<1>1. \A i \in 1..Len(t) : i \in Nat /\ i + d \in 1..Len(s)
  BY DEF Piece
<1>2. ASSUME NEW i \in 1..Len(t) PROVE ByteOk(t[i])'
  <2>1. t[i].frame = 0 \/ ByteOk(t[i])
    BY <1>1 DEF Piece, BytesInOrder
  <2> QED BY <2>1 DEF ByteOk, FrameSize
<1>3. ASSUME NEW i \in 1..Len(t), NEW j \in 1..Len(t), i < j,
             t[i].frame # 0, t[j].frame # 0
      PROVE  Precedes(t[i], t[j])
  <2>1. t[i] = s[i + d] /\ t[j] = s[j + d] /\ i + d < j + d
    BY <1>1, <1>3 DEF Piece
  <2> QED BY <1>1, <1>3, <2>1 DEF BytesInOrder
<1>4. BytesInOrder(t)'
  BY <1>2, <1>3 DEF BytesInOrder, Precedes
<1>5. ASSUME HeardInOrder(s), UNCHANGED heard PROVE HeardInOrder(t)'
  <2>1. ASSUME NEW i \in 1..Len(heard), NEW j \in 1..Len(t), t[j].frame # 0
        PROVE  heard[i] < t[j].frame
    BY <1>1, <1>5, <2>1 DEF Piece, HeardInOrder
  <2> QED BY <1>5, <2>1 DEF HeardInOrder
<1> QED BY <1>4, <1>5

-----------------------------------------------------------------------------
\* The peer sends a frame.
LEMMA SentFacts ==
    ASSUME sent \in Seq(Kinds), NEW k \in Kinds, sent' = Append(sent, k),
           NEW n \in Nat, n = Len(sent)
    PROVE  /\ sent' \in Seq(Kinds) /\ Len(sent') = n + 1
           /\ \A f \in 1..n : sent'[f] = sent[f] /\ FrameSize(f)' = FrameSize(f)
           /\ sent'[n + 1] = k /\ FrameSize(n + 1)' = TextSize(k) + 2
<1>1. /\ sent' \in Seq(Kinds) /\ Len(sent') = n + 1
      /\ sent'[n + 1] = k
  BY AppendProperties
<1>2. \A f \in 1..n : sent'[f] = sent[f]
  BY AppendProperties
<1>3. \A f \in 1..n : FrameSize(f)' = FrameSize(f)
  BY <1>2 DEF FrameSize
<1>4. FrameSize(n + 1)' = TextSize(k) + 2
  BY <1>1 DEF FrameSize
<1> QED BY <1>1, <1>2, <1>3, <1>4

\* The stream t is s, of m bytes, with z bytes of frame f behind it.
Longer(t, s, m, f, z) ==
    /\ t \in Seq(AnyByte) /\ Len(t) = m + z
    /\ \A i \in 1..m : t[i] = s[i]
    /\ \A p \in 1..z : t[m + p] = Byte(f, p)
    /\ \A i \in 1..Len(t) : i \notin 1..m => i - m \in 1..z /\ t[i] = Byte(f, i - m)

\* The peer sends the bytes of a frame behind the others.
LEMMA SentBytes ==
    ASSUME NEW s \in Seq(AnyByte), NEW k \in Kinds, NEW f \in Nat
    PROVE  Longer(s \o Bytes(f, k), s, Len(s), f, TextSize(k) + 2)
<1>1. PICK b \in Seq(AnyByte) : b = Bytes(f, k)
  BY BytesFacts
<1>2. PICK z \in Nat : z = TextSize(k) + 2
  BY TextSizes
<1>3. PICK m \in Nat : m = Len(s)
  OBVIOUS
<1>4. PICK t : t = s \o b
  OBVIOUS
<1>5. Len(b) = z /\ \A p \in 1..z : b[p] = Byte(f, p)
  BY <1>1, <1>2, BytesFacts
<1>6. t \in Seq(AnyByte) /\ Len(t) = Len(s) + Len(b)
  BY <1>4
<1>7. \A i \in 1..m : t[i] = s[i]
  BY <1>3, <1>4, ConcatProperties
<1>8. \A p \in 1..z : t[m + p] = b[p]
  BY <1>3, <1>4, <1>5, ConcatProperties
<1>9. \A p \in 1..z : t[m + p] = Byte(f, p)
  BY <1>5, <1>8
<1>10. Len(t) = m + z
  BY <1>3, <1>5, <1>6
<1>11. ASSUME NEW i \in 1..Len(t), i \notin 1..m
      PROVE  i - m \in 1..z /\ t[i] = Byte(f, i - m)
  <2>1. i - m \in 1..z /\ m + (i - m) = i
    BY <1>10, <1>11
  <2> QED BY <1>9, <2>1
<1>12. Longer(t, s, m, f, z)
  BY <1>6, <1>7, <1>9, <1>10, <1>11 DEF Longer
<1> QED BY <1>1, <1>2, <1>3, <1>4, <1>12

\* What the peer sends is behind what it has sent and what was heard.
LEMMA SendKeepsOrder ==
    ASSUME StreamTypes, NEW k \in Kinds, sent' = Append(sent, k), UNCHANGED <<firstFrame, heard>>,
           NEW s \in Seq(AnyByte), NEW t, t = s \o Bytes(Len(sent) + 1, k),
           BytesInOrder(s), HeardInOrder(s)
    PROVE  BytesInOrder(t)' /\ HeardInOrder(t)'
<1>1. PICK n \in Nat : n = Len(sent)
  BY DEF StreamTypes
<1>2. PICK m \in Nat : m = Len(s)
  OBVIOUS
<1>3. PICK z \in Nat : z = TextSize(k) + 2
  BY TextSizes
<1>4. firstFrame \in 1..n + 1 /\ firstFrame' = firstFrame
  BY <1>1 DEF StreamTypes
<1>5. /\ Len(sent') = n + 1 /\ sent'[n + 1] = k /\ FrameSize(n + 1)' = z
      /\ \A f \in 1..n : sent'[f] = sent[f] /\ FrameSize(f)' = FrameSize(f)
  BY <1>1, <1>3, SentFacts DEF StreamTypes
<1>6. /\ t \in Seq(AnyByte) /\ Len(t) = m + z
      /\ \A i \in 1..m : t[i] = s[i]
      /\ \A i \in 1..Len(t) : i \notin 1..m => i - m \in 1..z /\ t[i] = Byte(n + 1, i - m)
  <2>1. n + 1 \in Nat /\ t = s \o Bytes(n + 1, k)
    BY <1>1
  <2>2. Longer(t, s, m, n + 1, z)
    BY <1>2, <1>3, <2>1, SentBytes
  <2> QED BY <2>2 DEF Longer
<1>7. ASSUME NEW i \in 1..Len(t), i \notin 1..m
      PROVE  t[i].frame = n + 1 /\ t[i].place = i - m /\ i - m \in 1..z
  <2>1. i - m \in 1..z /\ t[i] = Byte(n + 1, i - m)
    BY <1>6, <1>7
  <2>2. n + 1 \in Nat /\ i - m \in Nat
    BY <2>1
  <2> QED BY <2>1, <2>2, ByteFacts
<1>8. \A i \in 1..m : t[i] = s[i] /\ ByteOk(s[i])
  BY <1>2, <1>6 DEF BytesInOrder
<1>9. ASSUME NEW i \in 1..Len(t) PROVE ByteOk(t[i])'
  <2>1. CASE i \in 1..m /\ t[i].frame # 0
    <3>1. t[i].frame \in firstFrame..n /\ t[i].place \in 1..FrameSize(t[i].frame)
      BY <1>1, <1>8, <2>1 DEF ByteOk
    <3>2. t[i].frame \in 1..n /\ t[i].frame \in firstFrame..n + 1
      BY <1>4, <3>1
    <3>3. t[i].place \in 1..FrameSize(t[i].frame)'
      BY <1>5, <3>1, <3>2
    <3> QED BY <1>4, <1>5, <3>2, <3>3 DEF ByteOk
  <2>2. CASE i \notin 1..m
    <3>1. n + 1 \in firstFrame..n + 1
      BY <1>4
    <3>2. t[i].frame \in firstFrame'..Len(sent') /\ t[i].place \in 1..FrameSize(n + 1)'
      BY <1>4, <1>5, <1>7, <2>2, <3>1
    <3> QED BY <1>7, <2>2, <3>2 DEF ByteOk
  <2>3. CASE t[i].frame = 0
    BY <2>3 DEF ByteOk
  <2> QED BY <2>1, <2>2, <2>3
<1>10. ASSUME NEW i \in 1..Len(t), NEW j \in 1..Len(t), i < j,
              t[i].frame # 0, t[j].frame # 0
       PROVE  Precedes(t[i], t[j])
  <2>1. CASE i \in 1..m /\ j \in 1..m
    BY <1>2, <1>8, <1>10, <2>1 DEF BytesInOrder
  <2>2. CASE i \in 1..m /\ j \notin 1..m
    <3>1. t[i].frame \in firstFrame..n
      BY <1>1, <1>8, <1>10, <2>2 DEF ByteOk
    <3>2. t[i].frame < n + 1
      BY <1>4, <3>1
    <3> QED BY <1>7, <2>2, <3>2 DEF Precedes
  <2>3. CASE i \notin 1..m
    <3>1. j \notin 1..m
      BY <1>6, <1>10, <2>3
    <3>2. i - m < j - m
      BY <1>6, <1>10
    <3> QED BY <1>7, <2>3, <3>1, <3>2 DEF Precedes
  <2> QED BY <2>1, <2>2, <2>3
<1>11. BytesInOrder(t)'
  BY <1>9, <1>10 DEF BytesInOrder, Precedes
<1>12. ASSUME NEW i \in 1..Len(heard)
       PROVE  /\ heard[i] \in firstFrame..n + 1 /\ sent'[heard[i]] \in Legal
              /\ heard[i] < n + 1
  <2>1. heard[i] \in firstFrame..n /\ sent[heard[i]] \in Legal
    BY <1>1 DEF HeardInOrder
  <2>2. heard[i] \in 1..n /\ heard[i] \in firstFrame..n + 1 /\ heard[i] < n + 1
    BY <1>4, <2>1
  <2> QED BY <1>5, <2>1, <2>2
<1>13. ASSUME NEW i \in 1..Len(heard), NEW j \in 1..Len(t), t[j].frame # 0
       PROVE  heard[i] < t[j].frame
  <2>1. CASE j \in 1..m
    BY <1>2, <1>8, <1>13, <2>1 DEF HeardInOrder
  <2>2. CASE j \notin 1..m
    BY <1>7, <1>12, <2>2
  <2> QED BY <2>1, <2>2
<1>14. \A i, j \in 1..Len(heard) : i < j => heard[i] < heard[j]
  BY DEF HeardInOrder
<1>15. HeardInOrder(t)'
  <2>1. heard' = heard /\ Len(sent') = n + 1 /\ firstFrame' = firstFrame
    BY <1>4, <1>5
  <2> QED BY <2>1, <1>12, <1>13, <1>14 DEF HeardInOrder
<1> QED BY <1>11, <1>15

\* A stream of whole frames stays one when the peer sends a frame.
LEMMA SendKeepsWhole ==
    ASSUME StreamTypes, NEW k \in Kinds, sent' = Append(sent, k),
           NEW s \in Seq(AnyByte), NEW t, t = s \o Bytes(Len(sent) + 1, k),
           NEW g \in 1..Len(sent) + 1, Whole(s, g)
    PROVE  Whole(t, g)'
<1>1. PICK n \in Nat : n = Len(sent)
  BY DEF StreamTypes
<1>2. PICK m \in Nat : m = Len(s)
  OBVIOUS
<1>3. PICK z \in Nat : z = TextSize(k) + 2
  BY TextSizes
<1>4. /\ Len(sent') = n + 1 /\ FrameSize(n + 1)' = z
      /\ \A f \in 1..n : FrameSize(f)' = FrameSize(f) /\ FrameSize(f) \in Nat
  BY <1>1, <1>3, SentFacts, FrameSizes DEF StreamTypes
<1>5. /\ t \in Seq(AnyByte) /\ Len(t) = m + z
      /\ \A i \in 1..m : t[i] = s[i]
      /\ \A p \in 1..z : t[m + p] = Byte(n + 1, p)
      /\ \A i \in 1..Len(t) : i \notin 1..m => i - m \in 1..z /\ t[i] = Byte(n + 1, i - m)
  <2>1. n + 1 \in Nat /\ t = s \o Bytes(n + 1, k)
    BY <1>1
  <2>2. Longer(t, s, m, n + 1, z)
    BY <1>2, <1>3, <2>1, SentBytes
  <2> QED BY <2>2 DEF Longer
<1>6. PICK off : Placed(s, g, off)
  BY DEF Whole
<1>7. /\ \A f \in g..n + 1 : off[f] \in Nat
      /\ off[g] = 0 /\ off[n + 1] = m
      /\ \A f \in g..n : off[f + 1] = off[f] + FrameSize(f)
  BY <1>1, <1>2, <1>6 DEF Placed
<1>8. \A f, h \in g..n + 1 : f < h => off[f] + FrameSize(f) <= off[h]
  BY <1>1, <1>6 DEF Placed
<1>9. \A f \in g..n : \A p \in 1..FrameSize(f) : s[off[f] + p] = Byte(f, p)
  BY <1>1, <1>6 DEF Placed
<1>10. g \in 1..n + 1
  BY <1>1
<1> DEFINE new == [f \in g..n + 2 |-> IF f = n + 2 THEN m + z ELSE off[f]]
<1>11. /\ new \in [g..n + 2 -> Nat] /\ new[n + 2] = m + z
       /\ \A f \in g..n + 1 : new[f] = off[f]
  <2>1. \A f \in g..n + 2 : f # n + 2 => f \in g..n + 1
    BY <1>10
  <2>2. \A f \in g..n + 1 : f \in g..n + 2 /\ f # n + 2
    BY <1>10
  <2> QED BY <1>7, <1>10, <2>1, <2>2
<1> HIDE DEF new
<1>12. new[g] = 0 /\ new[n + 1] = m
  BY <1>7, <1>10, <1>11
<1>13. ASSUME NEW f \in g..n + 1 PROVE new[f + 1] = new[f] + FrameSize(f)'
  <2>1. CASE f = n + 1
    BY <1>4, <1>11, <1>12, <2>1
  <2>2. CASE f # n + 1
    <3>1. f \in g..n /\ f \in 1..n /\ f + 1 \in g..n + 1
      BY <1>10, <2>2
    <3> QED BY <1>4, <1>7, <1>11, <3>1
  <2> QED BY <2>1, <2>2
<1>14. ASSUME NEW f \in g..n, NEW h \in g..n + 1, f < h
       PROVE  new[f] + FrameSize(f)' <= new[h]
  <2>1. f \in g..n + 1 /\ f \in 1..n
    BY <1>10
  <2> QED BY <1>4, <1>8, <1>11, <1>14, <2>1
<1>15. ASSUME NEW f \in g..n + 2, NEW h \in g..n + 2, f < h
       PROVE  new[f] + FrameSize(f)' <= new[h]
  <2>1. CASE h # n + 2
    <3>1. h \in g..n + 1 /\ f \in g..n
      BY <1>10, <1>15, <2>1
    <3> QED BY <1>14, <1>15, <3>1
  <2>2. CASE h = n + 2 /\ f = n + 1
    BY <1>4, <1>11, <1>12, <2>2
  <2>3. CASE h = n + 2 /\ f # n + 1
    <3>1. f \in g..n /\ f \in g..n + 1 /\ n + 1 \in g..n + 1 /\ f \in 1..n /\ f < n + 1
      BY <1>10, <1>15, <2>3
    <3>2. new[f] + FrameSize(f)' <= m
      BY <1>12, <1>14, <3>1
    <3>3. new[f] \in Nat /\ FrameSize(f)' \in Nat
      BY <1>4, <1>7, <1>11, <3>1
    <3>4. new[f] + FrameSize(f)' <= m + z
      BY <3>2, <3>3
    <3> QED BY <1>11, <2>3, <3>4
  <2> QED BY <2>1, <2>2, <2>3
<1>16. ASSUME NEW f \in g..n + 1, NEW p \in 1..FrameSize(f)' PROVE t[new[f] + p] = Byte(f, p)
  <2>1. CASE f = n + 1
    BY <1>4, <1>5, <1>12, <2>1
  <2>2. CASE f # n + 1
    <3>1. /\ f \in g..n /\ f \in 1..n /\ f \in g..n + 1 /\ n + 1 \in g..n + 1 /\ f < n + 1
      BY <1>10, <2>2
    <3>2. off[f] + FrameSize(f) <= m /\ new[f] = off[f] /\ off[f] \in Nat
      BY <1>7, <1>8, <1>11, <3>1
    <3>3. p \in 1..FrameSize(f) /\ FrameSize(f) \in Nat
      BY <1>4, <3>1
    <3>4. off[f] + p \in 1..m
      BY <3>2, <3>3
    <3> QED BY <1>5, <1>9, <3>1, <3>2, <3>3, <3>4
  <2> QED BY <2>1, <2>2
<1>17. Placed(t, g, new)'
  <2>1. Len(sent') + 1 = n + 2 /\ Len(sent') = n + 1
    BY <1>4
  <2>2. new \in [g..Len(sent') + 1 -> Nat] /\ new[Len(sent') + 1] = Len(t)
    BY <1>5, <1>11, <2>1
  <2>3. \A f \in g..Len(sent') : new[f + 1] = new[f] + FrameSize(f)'
    BY <1>13, <2>1
  <2>4. \A f, h \in g..Len(sent') + 1 : f < h => new[f] + FrameSize(f)' <= new[h]
    BY <1>15, <2>1
  <2>5. \A f \in g..Len(sent') : \A p \in 1..FrameSize(f)' : t[new[f] + p] = Byte(f, p)
    BY <1>16, <2>1
  <2> QED BY <1>12, <2>2, <2>3, <2>4, <2>5 DEF Placed
<1>18. ASSUME NEW i \in 1..Len(t) PROVE t[i].frame # 0
  <2>1. CASE i \in 1..m
    BY <1>2, <1>5, <2>1 DEF Whole
  <2>2. CASE i \notin 1..m
    <3>1. t[i] = Byte(n + 1, i - m) /\ i - m \in Nat
      BY <1>5, <2>2
    <3>2. n + 1 \in Nat /\ n + 1 # 0
      OBVIOUS
    <3>3. Byte(n + 1, i - m).frame = n + 1
      BY <3>1, <3>2, ByteFacts
    <3> QED BY <3>1, <3>2, <3>3
  <2> QED BY <2>1, <2>2
<1> QED BY <1>17, <1>18 DEF Whole

\* The device consumes the first frame.
LEMMA FirstIsPlaced ==
    ASSUME StreamTypes, NEW s \in Seq(AnyByte), NEW g \in 1..Len(sent) + 1, Whole(s, g), s # <<>>
    PROVE  /\ g <= Len(sent) /\ FrameSize(g) \in Nat /\ FrameSize(g) >= 2
           /\ FrameSize(g) <= Len(s)
           /\ \A p \in 1..FrameSize(g) : s[p] = Byte(g, p)
<1>1. sent \in Seq(Kinds) /\ Len(sent) \in Nat /\ Len(s) \in Nat /\ Len(s) > 0
  BY DEF StreamTypes
<1>2. PICK off : Placed(s, g, off)
  BY DEF Whole
<1>3. g <= Len(sent)
  BY <1>1, <1>2 DEF Placed
<1>4. FrameSize(g) \in Nat /\ FrameSize(g) >= 2
  BY <1>1, <1>3, FrameSizes
<1>5. /\ off[g] = 0 /\ off[Len(sent) + 1] = Len(s)
      /\ g \in g..Len(sent) /\ g \in g..Len(sent) + 1
      /\ Len(sent) + 1 \in g..Len(sent) + 1 /\ g < Len(sent) + 1
  BY <1>1, <1>2, <1>3 DEF Placed
<1>6. off[g] + FrameSize(g) <= off[Len(sent) + 1]
  BY <1>2, <1>5 DEF Placed
<1>7. ASSUME NEW p \in 1..FrameSize(g) PROVE s[p] = Byte(g, p)
  <2>1. s[off[g] + p] = Byte(g, p)
    BY <1>2, <1>5 DEF Placed
  <2> QED BY <1>4, <1>5, <2>1
<1> QED BY <1>1, <1>3, <1>4, <1>5, <1>6, <1>7

\* Without its first frame a stream of whole frames still is one.
LEMMA DropKeepsWhole ==
    ASSUME StreamTypes, UNCHANGED sent, NEW s \in Seq(AnyByte), NEW g \in 1..Len(sent),
           Whole(s, g), NEW t \in Seq(AnyByte), Len(t) = Len(s) - FrameSize(g),
           \A i \in 1..Len(t) : t[i] = s[i + FrameSize(g)]
    PROVE  Whole(t, g + 1)'
<1>1. PICK n \in Nat : n = Len(sent)
  BY DEF StreamTypes
<1>2. PICK z \in Nat : z = FrameSize(g)
  BY FrameSizes DEF StreamTypes
<1>3. PICK m \in Nat : m = Len(s)
  OBVIOUS
<1>4. /\ Len(sent') = n /\ g \in 1..n
      /\ \A f \in 1..n : FrameSize(f) \in Nat /\ FrameSize(f)' = FrameSize(f)
  BY <1>1, FrameSizes DEF FrameSize, StreamTypes
<1>5. PICK off : Placed(s, g, off)
  BY DEF Whole
<1>6. /\ \A f \in g..n + 1 : off[f] \in Nat
      /\ off[g] = 0 /\ off[n + 1] = m
      /\ \A f \in g..n : off[f + 1] = off[f] + FrameSize(f)
  BY <1>1, <1>3, <1>5 DEF Placed
<1>7. \A f, h \in g..n + 1 : f < h => off[f] + FrameSize(f) <= off[h]
  BY <1>1, <1>5 DEF Placed
<1>8. \A f \in g..n : \A p \in 1..FrameSize(f) : s[off[f] + p] = Byte(f, p)
  BY <1>1, <1>5 DEF Placed
<1>9. Len(t) \in Nat /\ Len(t) = m - z /\ \A i \in 1..Len(t) : t[i] = s[i + z]
  BY <1>2, <1>3
<1>10. ASSUME NEW f \in g + 1..n + 1 PROVE f \in g..n + 1 /\ z <= off[f] /\ off[f] \in Nat
  <2>1. f \in g..n + 1 /\ g < f /\ g \in g..n + 1
    BY <1>4
  <2>2. off[g] + z <= off[f]
    BY <1>2, <1>7, <2>1
  <2> QED BY <1>6, <2>1, <2>2
<1> DEFINE new == [f \in g + 1..n + 1 |-> off[f] - z]
<1>11. new \in [g + 1..n + 1 -> Nat] /\ \A f \in g + 1..n + 1 : new[f] = off[f] - z
  BY <1>10
<1> HIDE DEF new
<1>12. new[g + 1] = 0 /\ new[n + 1] = Len(t)
  <2>1. g + 1 \in g + 1..n + 1 /\ n + 1 \in g + 1..n + 1 /\ g \in g..n
    BY <1>4
  <2>2. off[g + 1] = z
    <3>1. off[g + 1] = off[g] + FrameSize(g)
      BY <1>6, <2>1
    <3> QED BY <1>2, <1>6, <3>1
  <2> QED BY <1>6, <1>9, <1>11, <2>1, <2>2
<1>13. ASSUME NEW f \in g + 1..n PROVE new[f + 1] = new[f] + FrameSize(f)'
  <2>1. f \in g..n /\ f \in g + 1..n + 1 /\ f + 1 \in g + 1..n + 1 /\ f \in 1..n
    BY <1>4
  <2>2. off[f + 1] = off[f] + FrameSize(f) /\ off[f] \in Nat /\ off[f + 1] \in Nat
    BY <1>6, <1>10, <2>1
  <2>3. FrameSize(f) \in Nat /\ FrameSize(f)' = FrameSize(f)
    BY <1>4, <2>1
  <2>4. new[f + 1] = off[f + 1] - z /\ new[f] = off[f] - z
    BY <1>11, <2>1
  <2> QED BY <2>2, <2>3, <2>4
<1>14. ASSUME NEW f \in g + 1..n + 1, NEW h \in g + 1..n + 1, f < h
       PROVE  new[f] + FrameSize(f)' <= new[h]
  <2>1. f \in g..n + 1 /\ h \in g..n + 1 /\ f \in 1..n
    BY <1>4, <1>14
  <2>2. off[f] + FrameSize(f) <= off[h] /\ off[f] \in Nat /\ off[h] \in Nat
    BY <1>6, <1>7, <1>14, <2>1
  <2>3. FrameSize(f) \in Nat /\ FrameSize(f)' = FrameSize(f)
    BY <1>4, <2>1
  <2>4. new[f] = off[f] - z /\ new[h] = off[h] - z
    BY <1>11
  <2>5. z \in Nat
    BY <1>4
  <2>6. new[f] + FrameSize(f) <= new[h]
    BY <2>2, <2>3, <2>4, <2>5
  <2> QED BY <2>3, <2>6
<1>15. ASSUME NEW f \in g + 1..n, NEW p \in 1..FrameSize(f)' PROVE t[new[f] + p] = Byte(f, p)
  <2>1. /\ f \in g..n /\ f \in g + 1..n + 1 /\ f \in 1..n
        /\ f \in g..n + 1 /\ n + 1 \in g..n + 1 /\ f < n + 1
    BY <1>4
  <2>2. p \in 1..FrameSize(f) /\ FrameSize(f) \in Nat
    BY <1>4, <2>1
  <2>3. off[f] + FrameSize(f) <= m /\ off[f] \in Nat /\ z <= off[f] /\ new[f] = off[f] - z
    BY <1>6, <1>7, <1>10, <1>11, <2>1
  <2>4. new[f] + p \in 1..Len(t) /\ (new[f] + p) + z = off[f] + p
    <3>1. \A a, d \in Nat : a + d <= m /\ z <= a /\ p <= d =>
            ((a - z) + p) + z = a + p /\ (a - z) + p \in 1..m - z
      BY <2>2
    <3>2. p <= FrameSize(f)
      BY <2>2
    <3> QED BY <1>9, <2>2, <2>3, <3>1, <3>2
  <2>5. t[new[f] + p] = s[off[f] + p]
    BY <1>9, <2>4
  <2> QED BY <1>8, <2>1, <2>2, <2>5
<1>16. Placed(t, g + 1, new)'
  <2>1. Len(sent') = n
    BY <1>4
  <2>2. new \in [g + 1..Len(sent') + 1 -> Nat] /\ new[Len(sent') + 1] = Len(t)
    BY <1>11, <1>12, <2>1
  <2>3. \A f \in g + 1..Len(sent') : new[f + 1] = new[f] + FrameSize(f)'
    BY <1>13, <2>1
  <2>4. \A f, h \in g + 1..Len(sent') + 1 : f < h => new[f] + FrameSize(f)' <= new[h]
    BY <1>14, <2>1
  <2>5. \A f \in g + 1..Len(sent') : \A p \in 1..FrameSize(f)' : t[new[f] + p] = Byte(f, p)
    BY <1>15, <2>1
  <2> QED BY <1>12, <2>2, <2>3, <2>4, <2>5 DEF Placed
<1>17. ASSUME NEW i \in 1..Len(t) PROVE t[i].frame # 0
  <2>1. i + z \in 1..m /\ t[i] = s[i + z]
    BY <1>9
  <2> QED BY <1>3, <2>1 DEF Whole
<1> QED BY <1>16, <1>17 DEF Whole
-----------------------------------------------------------------------------
\* A part of a sequence of bytes.
LEMMA CutFacts ==
    ASSUME NEW s \in Seq(AnyByte), NEW n \in 0..Len(s), NEW m, m = Len(s)
    PROVE  /\ SubSeq(s, 1, n) \in Seq(AnyByte) /\ Len(SubSeq(s, 1, n)) = n
           /\ SubSeq(s, n + 1, m) \in Seq(AnyByte) /\ Len(SubSeq(s, n + 1, m)) = m - n
           /\ \A i \in 1..n : SubSeq(s, 1, n)[i] = s[i]
           /\ \A i \in 1..m - n : SubSeq(s, n + 1, m)[i] = s[i + n]
<1>1. n \in Int /\ n + 1 \in Int /\ m \in Nat
  OBVIOUS
<1>2. \A i \in 1..m : s[i] \in AnyByte
  OBVIOUS
<1>3. (\A i \in 1..n : s[i] \in AnyByte) /\ \A i \in n + 1..m : s[i] \in AnyByte
  BY <1>1, <1>2
<1>4. /\ SubSeq(s, 1, n) \in Seq(AnyByte) /\ Len(SubSeq(s, 1, n)) = n
      /\ \A i \in 1..n : SubSeq(s, 1, n)[i] = s[i]
  <2>1. \A i \in 1..n - 1 + 1 : SubSeq(s, 1, n)[i] = s[1 + i - 1]
    BY <1>1, <1>3, SubSeqProperties
  <2>2. \A i \in 1..n : i \in 1..n - 1 + 1 /\ 1 + i - 1 = i
    BY <1>1
  <2>3. SubSeq(s, 1, n) \in Seq(AnyByte) /\ Len(SubSeq(s, 1, n)) = n
    BY <1>1, <1>3, SubSeqProperties
  <2> QED BY <2>1, <2>2, <2>3
<1>5. /\ SubSeq(s, n + 1, m) \in Seq(AnyByte) /\ Len(SubSeq(s, n + 1, m)) = m - n
      /\ \A i \in 1..m - n : SubSeq(s, n + 1, m)[i] = s[i + n]
  <2>1. \A i \in 1..m - (n + 1) + 1 : SubSeq(s, n + 1, m)[i] = s[n + 1 + i - 1]
    BY <1>1, <1>3, SubSeqProperties
  <2>2. \A i \in 1..m - n : i \in 1..m - (n + 1) + 1 /\ n + 1 + i - 1 = i + n
    BY <1>1
  <2>3. SubSeq(s, n + 1, m) \in Seq(AnyByte) /\ Len(SubSeq(s, n + 1, m)) = m - n
    BY <1>1, <1>3, SubSeqProperties
  <2> QED BY <2>1, <2>2, <2>3
<1> QED BY <1>4, <1>5

\* Bytes put together twice.
LEMMA JoinsAssociate ==
    \A s, t, u \in Seq(AnyByte) : (s \o t) \o u = s \o (t \o u)
BY ConcatAssociative

\* The sequence r is s, of n bytes, and t behind it.
Joined(r, s, n, t) ==
    /\ Len(r) = n + Len(t)
    /\ \A i \in 1..n : r[i] = s[i]
    /\ \A i \in 1..n + Len(t) : i \notin 1..n => r[i] = t[i - n]

\* Two sequences of bytes put together.
LEMMA JoinFacts ==
    ASSUME NEW s \in Seq(AnyByte), NEW t \in Seq(AnyByte)
    PROVE  Joined(s \o t, s, Len(s), t)
BY ConcatProperties DEF Joined

\* Frames and places are numbers.
LEMMA FramesAreNumbers == \A b \in AnyByte : b.frame \in Nat /\ b.place \in Nat
BY DEF AnyByte

\* The first d bytes are read, and the others stay where they are.
Dropped(t, s, d) ==
    /\ t \in Seq(AnyByte) /\ Len(t) = Len(s) - d
    /\ \A i \in 1..Len(t) : t[i] = s[i + d]

\* What is read from the buffer is read from the stream.
LEMMA DropFacts ==
    ASSUME rx \in Seq(AnyByte), wire \in Seq(AnyByte), NEW d \in 0..Len(rx),
           NEW r \in Seq(AnyByte), Len(r) = Len(rx) - d,
           \A i \in 1..Len(r) : r[i] = rx[i + d]
    PROVE  Dropped(r \o wire, Stream, d)
<1>1. PICK m \in Nat, l \in Nat : m = Len(rx) /\ l = Len(wire)
  OBVIOUS
<1>2. PICK t : t = r \o wire
  OBVIOUS
<1>3. t \in Seq(AnyByte) /\ Len(t) = (m - d) + l
  BY <1>1, <1>2, ConcatProperties
<1>4. \A i \in 1..m - d : t[i] = r[i]
  BY <1>1, <1>2, ConcatProperties
<1>5. \A i \in 1..l : t[(m - d) + i] = wire[i]
  BY <1>1, <1>2, ConcatProperties
<1>6. /\ Len(Stream) = m + l
      /\ \A i \in 1..m : Stream[i] = rx[i]
      /\ \A i \in 1..l : Stream[m + i] = wire[i]
  BY <1>1, StreamFacts
<1>7. ASSUME NEW i \in 1..Len(t) PROVE t[i] = Stream[i + d]
  <2>1. CASE i \in 1..m - d
    <3>1. i + d \in 1..m
      BY <1>1, <2>1
    <3> QED BY <1>1, <1>4, <1>6, <2>1, <3>1
  <2>2. CASE i \notin 1..m - d
    <3>1. PICK j \in 1..l : i = (m - d) + j /\ i + d = m + j
      <4>1. i - (m - d) \in 1..l /\ i = (m - d) + (i - (m - d)) /\ i + d = m + (i - (m - d))
        BY <1>1, <1>3, <2>2
      <4> QED BY <4>1
    <3> QED BY <1>5, <1>6, <3>1
  <2> QED BY <2>1, <2>2
<1>8. Len(t) = Len(Stream) - d
  BY <1>1, <1>3, <1>6
<1> QED BY <1>2, <1>3, <1>7, <1>8 DEF Dropped

\* A stream without its first bytes is a piece of it.
LEMMA DroppedIsPiece ==
    ASSUME NEW s \in Seq(AnyByte), NEW t, NEW d \in Nat, Dropped(t, s, d)
    PROVE  Piece(t, s, d)
<1>1. Len(t) = Len(s) - d /\ Len(t) + d <= Len(s)
  BY DEF Dropped
<1> QED BY <1>1 DEF Dropped, Piece

-----------------------------------------------------------------------------
\* The stream loses bytes in a way the device knows nothing of, or its connection.
LEMMA ShorterKeeps ==
    ASSUME FrameInv, UNCHANGED <<sent, firstFrame, heard>>, counted' \in Nat,
           rx' \in Seq(AnyByte), wire' \in Seq(AnyByte),
           NEW d \in Nat, Piece(Stream', Stream, d), conn' = "none" \/ fate' # {}
    PROVE  FrameInv'
<1>1. Stream \in Seq(AnyByte) /\ Stream' \in Seq(AnyByte)
  BY StreamFacts, ConcatProperties DEF FrameInv, StreamTypes, Stream
<1>2. PICK t \in Seq(AnyByte) : t = Stream'
  BY <1>1
<1>3. BytesInOrder(t)' /\ HeardInOrder(t)'
  BY <1>1, <1>2, PieceKeeps DEF FrameInv
<1>4. BytesInOrder(Stream)' /\ HeardInOrder(Stream)'
  BY <1>2, <1>3 DEF BytesInOrder, HeardInOrder
<1>5. StreamTypes'
  BY DEF FrameInv, StreamTypes
<1>6. PlaceKept'
  BY DEF PlaceKept
<1> QED BY <1>4, <1>5, <1>6 DEF FrameInv

\* Bytes move from the wire to the buffer, or nothing happens.
LEMMA SameKeeps ==
    ASSUME FrameInv, Stream' = Stream, rx' \in Seq(AnyByte), wire' \in Seq(AnyByte),
           UNCHANGED <<conn, sent, firstFrame, heard, counted, fate>>
    PROVE  FrameInv'
<1>1. StreamTypes'
  BY DEF FrameInv, StreamTypes
<1>2. BytesInOrder(Stream)' /\ HeardInOrder(Stream)'
  BY DEF FrameInv, BytesInOrder, HeardInOrder, ByteOk, FrameSize, Precedes
<1>3. ASSUME conn' # "none", fate' = {}
      PROVE  \E g \in firstFrame..Len(sent) + 1 : Whole(Stream, g)' /\ Handled(g)'
  <2>1. PICK g \in firstFrame..Len(sent) + 1 : Whole(Stream, g) /\ Handled(g)
    BY <1>3 DEF FrameInv, PlaceKept
  <2>2. PICK t : t = Stream /\ t = Stream'
    OBVIOUS
  <2>3. PICK off : Placed(t, g, off)
    BY <2>1, <2>2 DEF Whole
  <2>4. Placed(t, g, off)'
    BY <2>3 DEF Placed, FrameSize
  <2>5. Whole(t, g)'
    BY <2>1, <2>2, <2>4 DEF Whole
  <2>6. Whole(Stream, g)'
    BY <2>2, <2>5 DEF Whole, Placed
  <2>7. Handled(g)'
    BY <2>1 DEF Handled, Bad
  <2> QED BY <2>1, <2>6, <2>7
<1>4. PlaceKept'
  BY <1>3 DEF PlaceKept
<1> QED BY <1>1, <1>2, <1>4 DEF FrameInv

\* One frame more is handled.
LEMMA NextIsHandled ==
    ASSUME FrameInv, NEW g \in firstFrame..Len(sent), Handled(g), UNCHANGED <<sent, firstFrame>>,
           \/ sent[g] \notin Legal /\ counted' = counted + 1 /\ heard' = heard
           \/ sent[g] \in Legal /\ counted' = counted /\ heard' = Append(heard, g)
    PROVE  Handled(g + 1)'
<1>1. firstFrame \in Nat /\ g \in Nat /\ heard \in Seq(Nat) /\ counted \in Nat
  BY DEF FrameInv, StreamTypes
<1>2. \A f \in firstFrame..(g + 1) - 1 : f \in firstFrame..g - 1 \/ f = g
  BY <1>1
<1>3. PICK l \in Nat : l = Len(heard)
  BY <1>1
<1>4. \A i \in 1..l : i \in 1..Len(heard') /\ heard'[i] = heard[i]
  <2>1. CASE heard' = heard
    BY <1>3, <2>1
  <2>2. CASE heard' = Append(heard, g)
    BY <1>1, <1>3, <2>2, AppendProperties
  <2> QED BY <2>1, <2>2
<1>5. ASSUME NEW f \in firstFrame..(g + 1) - 1, sent[f] \in Legal
      PROVE  \E i \in 1..Len(heard') : heard'[i] = f
  <2>1. CASE f \in firstFrame..g - 1
    <3>1. PICK i \in 1..l : heard[i] = f
      BY <1>3, <1>5, <2>1 DEF Handled
    <3> QED BY <1>4, <3>1
  <2>2. CASE f = g
    <3>1. heard' = Append(heard, g)
      BY <1>5, <2>2
    <3>2. l + 1 \in 1..Len(heard') /\ heard'[l + 1] = g
      BY <1>1, <1>3, <3>1, AppendProperties
    <3> QED BY <2>2, <3>2
  <2> QED BY <1>2, <2>1, <2>2
<1>6. ASSUME NEW i \in 1..Len(heard') PROVE heard'[i] < g + 1
  <2>1. CASE i \in 1..l
    <3>1. heard[i] < g /\ heard[i] \in Nat
      BY <1>1, <1>3, <2>1 DEF Handled
    <3> QED BY <1>1, <1>4, <2>1, <3>1
  <2>2. CASE i \notin 1..l
    <3>1. heard' = Append(heard, g)
      BY <1>3, <2>2
    <3>2. i = l + 1 /\ heard'[i] = g
      BY <1>1, <1>3, <2>2, <3>1, AppendProperties
    <3> QED BY <1>1, <3>2
  <2> QED BY <2>1, <2>2
<1>7. counted' = Cardinality(Bad(g + 1)')
  <2>1. IsFiniteSet(Bad(g)) /\ g \notin Bad(g)
    <3>1. IsFiniteSet(firstFrame..g - 1)
      BY <1>1, FS_Interval
    <3>2. Bad(g) \subseteq firstFrame..g - 1 /\ g \notin firstFrame..g - 1
      BY <1>1 DEF Bad
    <3> QED BY <3>1, <3>2, FS_Subset
  <2>2. CASE sent[g] \notin Legal
    <3>1. Bad(g + 1)' = Bad(g) \cup {g}
      BY <1>1, <2>2 DEF Bad
    <3> QED BY <2>1, <2>2, <3>1, FS_AddElement DEF Handled
  <2>3. CASE sent[g] \in Legal
    <3>1. Bad(g + 1)' = Bad(g)
      BY <1>1, <2>3 DEF Bad
    <3> QED BY <2>3, <3>1 DEF Handled
  <2> QED BY <2>2, <2>3
<1> QED BY <1>5, <1>6, <1>7 DEF Handled, Bad
-----------------------------------------------------------------------------
\* What the device knows of the first frame while it has not lost its place.
LEMMA FirstFrame ==
    ASSUME FrameInv, NEW g \in firstFrame..Len(sent) + 1, Whole(Stream, g), Len(rx) >= 2
    PROVE  /\ g \in firstFrame..Len(sent) /\ g \in 1..Len(sent)
           /\ rx[1] = Byte(g, 1) /\ rx[2] = Byte(g, 2)
           /\ Lengths = {TextSize(sent[g])} /\ FrameSize(g) <= Len(Stream)
           /\ \A p \in 1..FrameSize(g) : Stream[p] = Byte(g, p)
<1>1. firstFrame \in 1..Len(sent) + 1 /\ Len(sent) \in Nat /\ Len(rx) \in Nat
  BY DEF FrameInv, StreamTypes
<1>2. g \in 1..Len(sent) + 1 /\ g \in Nat
  BY <1>1
<1>3. Stream \in Seq(AnyByte) /\ Stream # <<>> /\ Stream[1] = rx[1] /\ Stream[2] = rx[2]
  BY <1>1, StreamFacts DEF FrameInv, StreamTypes
<1>4. /\ g <= Len(sent) /\ FrameSize(g) \in Nat /\ FrameSize(g) >= 2
      /\ FrameSize(g) <= Len(Stream)
      /\ \A p \in 1..FrameSize(g) : Stream[p] = Byte(g, p)
  BY <1>2, <1>3, FirstIsPlaced DEF FrameInv
<1>5. rx[1] = Byte(g, 1) /\ rx[2] = Byte(g, 2)
  BY <1>3, <1>4
<1>6. rx[2].place = 2 /\ rx[2].frame = g /\ rx[1].frame = g
  BY <1>2, <1>5, ByteFacts
<1>7. rx[1] # Nul
  BY <1>1, <1>2, <1>6, ByteFacts DEF Nul
<1>8. Lengths = {TextSize(sent[g])}
  BY <1>6, <1>7 DEF Lengths
<1> QED BY <1>1, <1>2, <1>4, <1>5, <1>8

\* The device drops the first frame, as one it counts or has handed over.
LEMMA NextKeepsPlace ==
    ASSUME FrameInv, NEW g \in firstFrame..Len(sent), g \in 1..Len(sent),
           Whole(Stream, g), Handled(g),
           UNCHANGED <<sent, firstFrame>>, Dropped(Stream', Stream, FrameSize(g)),
           \/ sent[g] \notin Legal /\ counted' = counted + 1 /\ heard' = heard
           \/ sent[g] \in Legal /\ counted' = counted /\ heard' = Append(heard, g)
    PROVE  PlaceKept'
<1>1. Stream \in Seq(AnyByte)
  BY StreamFacts DEF FrameInv, StreamTypes
<1>2. PICK t \in Seq(AnyByte) : t = Stream'
  BY DEF Dropped
<1>3. Len(t) = Len(Stream) - FrameSize(g) /\ \A i \in 1..Len(t) : t[i] = Stream[i + FrameSize(g)]
  BY <1>2 DEF Dropped
<1>4. Whole(t, g + 1)'
  BY <1>1, <1>3, DropKeepsWhole DEF FrameInv
<1>6. Handled(g + 1)'
  BY NextIsHandled
<1>7. g + 1 \in firstFrame'..Len(sent') + 1
  <2>1. Len(sent) \in Nat /\ firstFrame \in Nat
    BY DEF FrameInv, StreamTypes
  <2>2. sent' = sent /\ firstFrame' = firstFrame
    OBVIOUS
  <2> QED BY <2>1, <2>2
<1>8. Whole(Stream, g + 1)'
  BY <1>2, <1>4 DEF Whole, Placed
<1> QED BY <1>6, <1>7, <1>8 DEF PlaceKept

\* recv: the bytes move to the buffer, or what the buffer held is lost.
LEMMA ReceiveKeeps == ASSUME FrameInv, NEW n \in Nat, Receive(n) PROVE FrameInv'
<1>1. /\ n <= Len(wire) /\ wire' = SubSeq(wire, n + 1, Len(wire))
      /\ UNCHANGED <<sent, firstFrame, heard>>
  BY DEF Receive
<1>2. rx \in Seq(AnyByte) /\ wire \in Seq(AnyByte) /\ counted \in Nat
  BY DEF FrameInv, StreamTypes
<1>3. PICK m \in Nat, l \in Nat : m = Len(rx) /\ l = Len(wire) /\ n <= l
  BY <1>1, <1>2
<1>4. PICK u \in Seq(AnyByte), v \in Seq(AnyByte) :
        /\ u = SubSeq(wire, 1, n) /\ v = SubSeq(wire, n + 1, l) /\ v = wire'
        /\ Len(u) = n /\ Len(v) = l - n
        /\ \A i \in 1..n : u[i] = wire[i]
        /\ \A i \in 1..l - n : v[i] = wire[i + n]
  <2>1. n \in 0..Len(wire)
    BY <1>3
  <2>2. PICK u, v : u = SubSeq(wire, 1, n) /\ v = SubSeq(wire, n + 1, l)
    OBVIOUS
  <2>3. /\ u \in Seq(AnyByte) /\ v \in Seq(AnyByte) /\ Len(u) = n /\ Len(v) = l - n
        /\ \A i \in 1..n : u[i] = wire[i]
        /\ \A i \in 1..l - n : v[i] = wire[i + n]
    <3>1. /\ u \in Seq(AnyByte) /\ Len(u) = n
          /\ \A i \in 1..n : u[i] = wire[i]
      BY <1>2, <1>3, <2>1, <2>2, CutFacts
    <3>2. /\ v \in Seq(AnyByte) /\ Len(v) = l - n
          /\ \A i \in 1..l - n : v[i] = wire[i + n]
      BY <1>2, <1>3, <2>1, <2>2, CutFacts
    <3> QED BY <3>1, <3>2
  <2>4. v = wire'
    BY <1>1, <1>3, <2>2
  <2> QED BY <2>2, <2>3, <2>4
<1>5. u \o v = wire
  <2>1. PICK w \in Seq(AnyByte) : w = u \o v /\ Len(w) = Len(u) + Len(v)
    BY <1>4, ConcatProperties
  <2>2. Len(w) = l
    BY <1>3, <1>4, <2>1
  <2>3. ASSUME NEW i \in 1..l PROVE w[i] = wire[i]
    <3>1. Joined(w, u, n, v) /\ i \in 1..n + Len(v)
      <4>1. Joined(w, u, Len(u), v)
        BY <2>1, JoinFacts
      <4> QED BY <1>3, <1>4, <4>1
    <3>2. CASE i \in 1..n
      BY <1>4, <3>1, <3>2 DEF Joined
    <3>3. CASE i \notin 1..n
      <4>1. i - n \in 1..l - n /\ (i - n) + n = i
        BY <1>3, <3>3
      <4>2. w[i] = v[i - n]
        BY <3>1, <3>3 DEF Joined
      <4> QED BY <1>4, <4>1, <4>2
    <3> QED BY <3>2, <3>3
  <2>4. w = wire
    BY <1>2, <1>3, <2>2, <2>3, SeqEqual
  <2> QED BY <2>1, <2>4
<1>6. CASE Len(rx) + n <= BufferSize
  <2>1. rx' = rx \o u /\ UNCHANGED <<conn, counted, fate>>
    BY <1>4, <1>6 DEF Receive
  <2>2. rx' \in Seq(AnyByte)
    BY <1>2, <2>1, ConcatProperties
  <2>3. Stream' = Stream
    <3>1. Stream' = (rx \o u) \o v
      BY <1>4, <2>1 DEF Stream
    <3>2. (rx \o u) \o v = rx \o (u \o v)
      BY <1>2, <1>4, JoinsAssociate
    <3> QED BY <1>5, <3>1, <3>2 DEF Stream
  <2> QED BY <1>1, <1>4, <2>1, <2>2, <2>3, SameKeeps
<1>7. CASE ~(Len(rx) + n <= BufferSize)
  <2>1. /\ counted' = counted + 1
        /\ \/ TooMany /\ ClosedAsMalformed
           \/ rx' = u /\ fate' = fate \cup {"overflow"}
    BY <1>4, <1>7 DEF Receive, Counts
  <2>2. \A i \in 1..l : Stream[m + i] = wire[i]
    BY <1>2, <1>3, StreamFacts
  <2>3. Len(Stream) = m + l
    BY <1>2, <1>3, StreamFacts
  <2>4. CASE ClosedAsMalformed
    <3>1. rx' = <<>> /\ conn' = "none"
      BY <2>4 DEF ClosedAsMalformed
    <3>2. Stream' = v
      BY <1>4, <3>1, ConcatEmptySeq DEF Stream
    <3>3. PICK d \in Nat : d = m + n
      BY <1>3
    <3>4. Piece(v, Stream, d)
      <4>1. ASSUME NEW i \in 1..Len(v) PROVE v[i] = Stream[i + d]
        <5>1. i \in 1..l - n
          BY <1>4
        <5>2. i + n \in 1..l /\ m + (i + n) = i + d
          BY <1>3, <3>3, <5>1
        <5> QED BY <1>4, <2>2, <5>1, <5>2
      <4>2. Len(v) + d <= Len(Stream)
        <5>1. Len(v) = l - n /\ Len(Stream) = m + l
          BY <1>4, <2>3
        <5> QED BY <1>3, <3>3, <5>1
      <4> QED BY <4>1, <4>2 DEF Piece
    <3>5. Piece(Stream', Stream, d)
      BY <3>2, <3>4
    <3>6. rx' \in Seq(AnyByte) /\ wire' \in Seq(AnyByte) /\ counted' \in Nat
      <4>1. <<>> \in Seq(AnyByte) /\ counted' \in Nat
        BY <1>2, <2>1
      <4> QED BY <1>4, <3>1, <4>1
    <3> QED BY <1>1, <3>1, <3>5, <3>6, ShorterKeeps
  <2>5. CASE rx' = u /\ fate' = fate \cup {"overflow"}
    <3>1. Stream' = wire
      BY <1>4, <1>5, <2>5 DEF Stream
    <3>2. Piece(wire, Stream, m)
      <4>1. ASSUME NEW i \in 1..Len(wire) PROVE wire[i] = Stream[i + m]
        <5>1. i \in 1..l /\ m + i = i + m
          BY <1>3
        <5> QED BY <2>2, <5>1
      <4> QED BY <1>3, <2>3, <4>1 DEF Piece
    <3>3. Piece(Stream', Stream, m)
      BY <3>1, <3>2
    <3>4. fate' # {}
      BY <2>5
    <3> QED BY <1>1, <1>2, <1>4, <2>1, <2>5, <3>3, <3>4, <1>3, ShorterKeeps
  <2> QED BY <2>1, <2>4, <2>5
<1> QED BY <1>6, <1>7

\* Two bytes are skipped.
LEMMA BadPrefixKeeps == FrameInv /\ BadPrefix => FrameInv'
<1> SUFFICES ASSUME FrameInv, BadPrefix PROVE FrameInv'
  OBVIOUS
<1>1. /\ Len(rx) >= 2 /\ 0 \in Lengths /\ counted' = counted + 1
      /\ UNCHANGED <<sent, firstFrame, wire, heard>>
      /\ \/ ClosedAsMalformed
         \/ rx' = SubSeq(rx, 3, Len(rx)) /\ UNCHANGED <<conn, fate>>
  BY DEF BadPrefix, Counts
<1>2. rx \in Seq(AnyByte) /\ wire \in Seq(AnyByte) /\ counted' \in Nat
  BY <1>1 DEF FrameInv, StreamTypes
<1>3. Stream \in Seq(AnyByte)
  BY <1>2, StreamFacts
<1>4. CASE ClosedAsMalformed
  <2>1. rx' = <<>> /\ conn' = "none"
    BY <1>4 DEF ClosedAsMalformed
  <2>2. Len(rx) \in Nat /\ Len(rx) \in 0..Len(rx)
    BY <1>2
  <2>3. Dropped(<<>> \o wire, Stream, Len(rx))
    <3>1. <<>> \in Seq(AnyByte) /\ Len(<<>>) = Len(rx) - Len(rx)
      BY <2>2
    <3>2. \A i \in 1..Len(<<>>) : <<>>[i] = rx[i + Len(rx)]
      OBVIOUS
    <3> QED BY <1>2, <2>2, <3>1, <3>2, DropFacts
  <2>4. Stream' = <<>> \o wire
    BY <1>1, <2>1 DEF Stream
  <2>5. Piece(Stream', Stream, Len(rx))
    BY <1>3, <2>2, <2>3, <2>4, DroppedIsPiece
  <2>6. rx' \in Seq(AnyByte) /\ wire' \in Seq(AnyByte)
    BY <1>1, <1>2, <2>1
  <2> QED BY <1>1, <1>2, <2>1, <2>2, <2>5, <2>6, ShorterKeeps
<1>5. CASE rx' = SubSeq(rx, 3, Len(rx)) /\ UNCHANGED <<conn, fate>>
  <2>1. 2 \in 0..Len(rx)
    BY <1>1, <1>2
  <2>2. /\ rx' \in Seq(AnyByte) /\ Len(rx') = Len(rx) - 2
        /\ \A i \in 1..Len(rx') : rx'[i] = rx[i + 2]
    <3>1. PICK d \in 0..Len(rx), m \in Nat : d = 2 /\ m = Len(rx)
      BY <1>2, <2>1
    <3>2. PICK r : r = SubSeq(rx, d + 1, m) /\ r = rx'
      BY <1>5, <3>1
    <3>3. /\ r \in Seq(AnyByte) /\ Len(r) = m - d
          /\ \A i \in 1..m - d : r[i] = rx[i + d]
      <4>1. m = Len(rx)
        BY <3>1
      <4> QED BY <1>2, <3>2, <4>1, CutFacts
    <3> QED BY <3>1, <3>2, <3>3
  <2>3. Dropped(rx' \o wire, Stream, 2)
    BY <1>2, <2>1, <2>2, DropFacts
  <2>4. Stream' = rx' \o wire
    BY <1>1 DEF Stream
  <2>5. Dropped(Stream', Stream, 2) /\ Piece(Stream', Stream, 2)
    BY <1>3, <2>3, <2>4, DroppedIsPiece
  <2>6. CASE conn' = "none" \/ fate' # {}
    BY <1>1, <1>2, <2>2, <2>5, <2>6, ShorterKeeps
  <2>7. CASE conn' # "none" /\ fate' = {}
    <3>1. PICK g \in firstFrame..Len(sent) + 1 : Whole(Stream, g) /\ Handled(g)
      BY <1>5, <2>7 DEF FrameInv, PlaceKept
    <3>2. /\ g \in firstFrame..Len(sent) /\ g \in 1..Len(sent)
          /\ Lengths = {TextSize(sent[g])}
      BY <1>1, <3>1, FirstFrame
    <3>3. TextSize(sent[g]) = 0 /\ sent[g] \in Kinds
      BY <1>1, <3>2 DEF FrameInv, StreamTypes
    <3>4. sent[g] \notin Legal /\ FrameSize(g) = 2
      BY <3>3, TextSizes DEF FrameSize
    <3>5. PlaceKept'
      BY <1>1, <2>5, <3>1, <3>2, <3>4, NextKeepsPlace
    <3>6. PICK t \in Seq(AnyByte) : t = Stream' /\ Piece(t, Stream, 2)
      BY <2>5 DEF Dropped
    <3>7. BytesInOrder(t)' /\ HeardInOrder(t)'
      BY <1>1, <1>3, <3>6, PieceKeeps DEF FrameInv
    <3>8. BytesInOrder(Stream)' /\ HeardInOrder(Stream)'
      BY <3>6, <3>7 DEF BytesInOrder, HeardInOrder
    <3>9. StreamTypes'
      BY <1>1, <1>2, <2>2 DEF FrameInv, StreamTypes
    <3> QED BY <3>5, <3>8, <3>9 DEF FrameInv
  <2> QED BY <2>6, <2>7
<1> QED BY <1>1, <1>4, <1>5

\* A complete frame is handled.
LEMMA FrameKeeps == ASSUME FrameInv, NEW len \in 1..LongText, Frame(len) PROVE FrameInv'
<1>1. /\ len > 0 /\ Len(rx) >= len + 2 /\ len \in Lengths /\ rx' = Rest(len)
      /\ fate' = IF Spoils(len) THEN fate \cup {"nul"} ELSE fate
      /\ UNCHANGED <<sent, firstFrame, wire>>
      /\ conn' \in {conn, "none"}
      /\ \/ IsMessage(len) /\ heard' = Append(heard, rx[1].frame) /\ counted' = counted
         \/ ~IsMessage(len) /\ heard' = heard /\ counted' = counted + 1
  BY DEF Frame, Counts
<1>2. /\ rx \in Seq(AnyByte) /\ wire \in Seq(AnyByte) /\ counted' \in Nat
      /\ sent \in Seq(Kinds) /\ firstFrame \in 1..Len(sent) + 1 /\ heard \in Seq(Nat)
  BY <1>1 DEF FrameInv, StreamTypes
<1>3. PICK m \in Nat : m = Len(rx)
  BY <1>2
<1>4. len \in Nat /\ len + 2 \in 0..m /\ Len(rx) >= 2
  BY <1>1, <1>3, FrameAssumption
<1>5. PICK d \in 0..m : d = len + 2
  BY <1>4
<1>6. PICK r : r = SubSeq(rx, len + 3, Len(rx)) /\ r = SubSeq(rx, d + 1, m)
  <2>1. len + 3 = d + 1
    BY <1>4, <1>5
  <2> QED BY <1>3, <2>1
<1>7. r \in Seq(AnyByte) /\ Len(r) = m - d /\ \A i \in 1..m - d : r[i] = rx[i + d]
  <2>1. r = SubSeq(rx, d + 1, m)
    BY <1>6
  <2> QED BY <1>2, <1>3, <2>1, CutFacts
<1>8. /\ rx' \in Seq(AnyByte) /\ Len(rx') = m - d
      /\ \A i \in 1..m - d : rx'[i] = r[i] \/ rx'[i] = Nul
      /\ ~Spoils(len) => rx' = r
  <2>1. CASE Spoils(len)
    <3>1. rx' = [r EXCEPT ![1] = Nul]
      BY <1>1, <1>6, <2>1 DEF Rest
    <3>2. Nul \in AnyByte
      BY ByteFacts DEF Nul
    <3>3. Len(rx) > len + 2
      BY <2>1 DEF Spoils
    <3>4. 1 \in 1..Len(r)
      BY <1>3, <1>5, <1>7, <3>3
    <3> QED BY <1>7, <2>1, <3>1, <3>2, <3>4, ExceptSeq
  <2>2. CASE ~Spoils(len)
    BY <1>1, <1>6, <1>7, <2>2 DEF Rest
  <2> QED BY <2>1, <2>2
<1>9. PICK s \in Seq(AnyByte), t \in Seq(AnyByte) : s = Stream /\ t = Stream' /\ t = rx' \o wire
  <2>1. Stream \in Seq(AnyByte)
    BY <1>2, StreamFacts
  <2>2. Stream' = rx' \o wire /\ rx' \o wire \in Seq(AnyByte)
    BY <1>1, <1>2, <1>8, ConcatProperties DEF Stream
  <2> QED BY <2>1, <2>2
<1>10. Dropped(r \o wire, s, d)
  BY <1>2, <1>3, <1>7, <1>9, DropFacts
<1>11. Piece(t, s, d)
  <2>1. PICK u \in Seq(AnyByte) : u = r \o wire
    BY <1>10 DEF Dropped
  <2>0. PICK n \in Nat : n = m - d
    OBVIOUS
  <2>2. /\ Len(t) = n + Len(wire) /\ Len(u) = n + Len(wire)
        /\ \A i \in 1..n : t[i] = rx'[i] /\ u[i] = r[i]
        /\ \A i \in 1..n + Len(wire) : i \notin 1..n => t[i] = wire[i - n] /\ u[i] = wire[i - n]
    <3>1. n = Len(r) /\ n = Len(rx')
      BY <1>7, <1>8, <2>0
    <3>2. Joined(u, r, n, wire)
      BY <1>2, <1>7, <2>1, <3>1, JoinFacts
    <3>3. Joined(t, rx', n, wire)
      BY <1>2, <1>8, <1>9, <3>1, JoinFacts
    <3> QED BY <3>2, <3>3 DEF Joined
  <2>3. ASSUME NEW i \in 1..Len(t) PROVE t[i] = u[i] \/ t[i] = Nul
    <3>1. CASE i \in 1..n
      BY <1>8, <2>0, <2>2, <3>1
    <3>2. CASE i \notin 1..n
      BY <2>2, <3>2
    <3> QED BY <3>1, <3>2
  <2>4. Piece(u, s, d)
    BY <1>9, <1>10, <2>1, DroppedIsPiece
  <2>5. \A i \in 1..Len(t) : t[i] = s[i + d] \/ t[i].frame = 0
    <3>1. Nul.frame = 0
      BY ByteFacts DEF Nul
    <3> QED BY <2>2, <2>3, <2>4, <3>1 DEF Piece
  <2> QED BY <2>2, <2>4, <2>5 DEF Piece
<1>12. BytesInOrder(s) /\ HeardInOrder(s)
  BY <1>9 DEF FrameInv, BytesInOrder, HeardInOrder
<1>13. BytesInOrder(t)' /\ (heard' = heard => HeardInOrder(t)')
  BY <1>1, <1>11, <1>12, PieceKeeps
<1>14. IsMessage(len) => HeardInOrder(t)'
  <2> SUFFICES ASSUME IsMessage(len) PROVE HeardInOrder(t)'
    OBVIOUS
  <2>1. PICK f : f = rx[1].frame
    OBVIOUS
  <2>2. f # 0 /\ sent[f] \in Legal /\ SubSeq(rx, 1, len + 2) = Bytes(f, sent[f])
    BY <2>1 DEF IsMessage
  <2>3. /\ Len(s) \in Nat /\ m <= Len(s) /\ \A i \in 1..m : s[i] = rx[i]
    BY <1>2, <1>3, <1>9, StreamFacts
  <2>4. 1 \in 1..m /\ 1 \in 1..Len(s) /\ s[1].frame = f /\ d \in 1..m /\ d \in 1..Len(s)
    BY <1>3, <1>4, <1>5, <2>1, <2>3
  <2>5. f \in firstFrame..Len(sent) /\ f \in 1..Len(sent) /\ f \in Nat
    <3>1. f \in firstFrame..Len(sent)
      BY <1>12, <2>2, <2>4 DEF BytesInOrder, ByteOk
    <3> QED BY <1>2, <3>1
  <2>6. d = FrameSize(f) /\ rx[d] = Byte(f, d)
    <3>1. PICK u : u = SubSeq(rx, 1, d) /\ u = Bytes(f, sent[f])
      BY <1>5, <2>2
    <3>2. Len(u) = d /\ \A i \in 1..d : u[i] = rx[i]
      BY <1>2, <1>3, <3>1, CutFacts
    <3>3. sent[f] \in Kinds
      BY <1>2, <2>5
    <3>4. Len(u) = FrameSize(f) /\ \A p \in 1..FrameSize(f) : u[p] = Byte(f, p)
      BY <2>5, <3>1, <3>3, BytesFacts DEF FrameSize
    <3> QED BY <1>4, <1>5, <3>2, <3>4
  <2>7. s[d].frame = f /\ s[d].place = d
    BY <2>3, <2>4, <2>5, <2>6, ByteFacts
  <2>8. ASSUME NEW j \in 1..Len(t), t[j].frame # 0 PROVE t[j].frame > f
    <3>1. t[j] = s[j + d] /\ j + d \in 1..Len(s) /\ d < j + d
      BY <1>5, <1>11, <2>3, <2>8 DEF Piece
    <3>2. Precedes(s[d], s[j + d]) /\ ByteOk(s[j + d])
      BY <1>12, <2>2, <2>4, <2>7, <2>8, <3>1 DEF BytesInOrder
    <3>3. s[j + d].frame \in firstFrame..Len(sent)
          /\ s[j + d].place \in 1..FrameSize(s[j + d].frame)
      BY <2>8, <3>1, <3>2 DEF ByteOk
    <3>4. s[j + d].frame # f
      <4> SUFFICES ASSUME s[j + d].frame = f PROVE FALSE
        OBVIOUS
      <4>1. d < s[j + d].place /\ s[j + d].place \in 1..d
        BY <2>5, <2>6, <2>7, <3>2, <3>3 DEF Precedes
      <4> QED BY <4>1
    <3> QED BY <2>5, <2>7, <3>1, <3>2, <3>3, <3>4 DEF Precedes
  <2>9. PICK l \in Nat : l = Len(heard)
    BY <1>2
  <2>10. /\ Len(heard') = l + 1 /\ heard'[l + 1] = f
         /\ \A i \in 1..l : heard'[i] = heard[i]
    <3>1. heard' = Append(heard, f) /\ heard \in Seq(Nat) /\ l = Len(heard)
      <4>1. ~(~IsMessage(len))
        OBVIOUS
      <4> QED BY <1>1, <1>2, <2>1, <2>9, <4>1
    <3> QED BY <2>5, <3>1, AppendProperties
  <2>11. \A i \in 1..l : heard[i] < f /\ heard[i] \in firstFrame..Len(sent)
                         /\ sent[heard[i]] \in Legal
    BY <1>12, <2>2, <2>4, <2>9 DEF HeardInOrder
  <2>12. \A i \in 1..Len(heard') : i \in 1..l \/ i = l + 1
    BY <2>10
  <2>13. ASSUME NEW i \in 1..Len(heard')
         PROVE  heard'[i] \in firstFrame..Len(sent) /\ sent[heard'[i]] \in Legal
    BY <2>2, <2>5, <2>10, <2>11, <2>12
  <2>14. ASSUME NEW i \in 1..Len(heard'), NEW j \in 1..Len(heard'), i < j
         PROVE  heard'[i] < heard'[j]
    <3>1. i \in 1..l
      BY <2>12, <2>14
    <3>2. CASE j \in 1..l
      BY <1>12, <2>9, <2>10, <2>14, <3>1, <3>2 DEF HeardInOrder
    <3>3. CASE j = l + 1
      BY <2>10, <2>11, <3>1, <3>3
    <3> QED BY <2>12, <3>2, <3>3
  <2>15. ASSUME NEW i \in 1..Len(heard'), NEW j \in 1..Len(t), t[j].frame # 0
         PROVE  heard'[i] < t[j].frame
    <3>1. t[j].frame > f /\ t[j].frame \in Nat
      BY <2>8, <2>15, FramesAreNumbers
    <3>2. CASE i \in 1..l
      <4>1. heard'[i] < f /\ heard'[i] \in Nat
        <5>1. heard'[i] = heard[i] /\ heard[i] < f /\ heard[i] \in firstFrame..Len(sent)
          BY <2>10, <2>11, <3>2
        <5>2. firstFrame \in Nat /\ Len(sent) \in Nat
          BY <1>2
        <5> QED BY <5>1, <5>2
      <4> QED BY <2>5, <3>1, <4>1
    <3>3. CASE i = l + 1
      BY <2>5, <2>10, <3>1, <3>3
    <3> QED BY <2>12, <3>2, <3>3
  <2> QED BY <1>1, <2>13, <2>14, <2>15 DEF HeardInOrder
<1>15. BytesInOrder(Stream)' /\ HeardInOrder(Stream)'
  BY <1>1, <1>9, <1>13, <1>14 DEF BytesInOrder, HeardInOrder
<1>16. StreamTypes'
  <2>1. rx[1].frame \in Nat
    <3>1. 1 \in 1..Len(rx)
      BY <1>2, <1>4
    <3>2. rx[1] \in AnyByte
      BY <1>2, <3>1
    <3> QED BY <3>2, FramesAreNumbers
  <2>2. heard' \in Seq(Nat)
    <3>1. PICK f \in Nat : f = rx[1].frame
      BY <2>1
    <3>2. Append(heard, f) \in Seq(Nat)
      BY <1>2, <3>1, AppendProperties
    <3> QED BY <1>1, <1>2, <3>1, <3>2
  <2> QED BY <1>1, <1>2, <1>8, <2>2 DEF StreamTypes
<1>17. ASSUME conn' # "none", fate' = {} PROVE PlaceKept'
  <2>1. conn # "none" /\ fate = {} /\ ~Spoils(len)
    BY <1>1, <1>17
  <2>2. PICK g \in firstFrame..Len(sent) + 1 : Whole(Stream, g) /\ Handled(g)
    BY <2>1 DEF FrameInv, PlaceKept
  <2>3. /\ g \in firstFrame..Len(sent) /\ g \in 1..Len(sent)
        /\ rx[1] = Byte(g, 1) /\ Lengths = {TextSize(sent[g])} /\ FrameSize(g) <= Len(Stream)
        /\ \A p \in 1..FrameSize(g) : Stream[p] = Byte(g, p)
    BY <1>4, <2>2, FirstFrame
  <2>4. g \in Nat /\ sent[g] \in Kinds /\ len = TextSize(sent[g]) /\ FrameSize(g) = d
    <3>1. g \in Nat /\ sent[g] \in Kinds
      BY <1>2, <2>3
    <3>2. len = TextSize(sent[g])
      BY <1>1, <2>3
    <3> QED BY <1>5, <3>1, <3>2 DEF FrameSize
  <2>5. rx[1].frame = g /\ g # 0
    <3>1. Byte(g, 1).frame = g
      BY <2>4, ByteFacts
    <3> QED BY <2>3, <3>1
  <2>6. IsMessage(len) <=> sent[g] \in Legal
    <3>1. PICK u : u = SubSeq(rx, 1, d) /\ u = SubSeq(rx, 1, len + 2)
      BY <1>5
    <3>2. u \in Seq(AnyByte) /\ Len(u) = d /\ \A i \in 1..d : u[i] = rx[i]
      <4>1. u = SubSeq(rx, 1, d) /\ d \in 0..Len(rx)
        BY <1>3, <3>1
      <4> QED BY <1>2, <4>1, CutFacts
    <3>3. PICK b \in Seq(AnyByte) : b = Bytes(g, sent[g])
      BY <2>4, BytesFacts
    <3>4. Len(b) = d /\ \A p \in 1..d : b[p] = Byte(g, p)
      BY <2>4, <3>3, BytesFacts DEF FrameSize
    <3>5. \A p \in 1..d : rx[p] = Byte(g, p)
      <4>1. \A p \in 1..m : Stream[p] = rx[p]
        BY <1>2, <1>3, StreamFacts
      <4>2. \A p \in 1..d : p \in 1..m
        OBVIOUS
      <4> QED BY <2>3, <2>4, <4>1, <4>2
    <3>6. u = b
      BY <3>2, <3>4, <3>5, SeqEqual
    <3> QED BY <2>5, <3>1, <3>3, <3>6 DEF IsMessage
  <2>7. Dropped(Stream', Stream, FrameSize(g))
    BY <1>8, <1>9, <1>10, <2>1, <2>4
  <2>8. \/ sent[g] \notin Legal /\ counted' = counted + 1 /\ heard' = heard
        \/ sent[g] \in Legal /\ counted' = counted /\ heard' = Append(heard, g)
    BY <1>1, <2>5, <2>6
  <2> QED BY <1>1, <2>2, <2>3, <2>7, <2>8, NextKeepsPlace
<1>18. PlaceKept'
  BY <1>17 DEF PlaceKept
<1> QED BY <1>15, <1>16, <1>18 DEF FrameInv

\* The peer sends one more frame.
LEMMA PeerSendsKeeps == ASSUME FrameInv, NEW k \in Kinds, PeerSends(k) PROVE FrameInv'
<1>1. /\ sent' = Append(sent, k) /\ wire' = wire \o Bytes(Len(sent'), k)
      /\ UNCHANGED <<conn, firstFrame, rx, heard, counted, fate>>
  BY DEF PeerSends
<1>2. /\ rx \in Seq(AnyByte) /\ wire \in Seq(AnyByte) /\ sent \in Seq(Kinds)
      /\ firstFrame \in 1..Len(sent) + 1
  BY DEF FrameInv, StreamTypes
<1>3. PICK n \in Nat : n = Len(sent)
  BY <1>2
<1>4. /\ sent' \in Seq(Kinds) /\ Len(sent') = n + 1
      /\ \A f \in 1..n : sent'[f] = sent[f]
  BY <1>1, <1>2, <1>3, SentFacts
<1>5. PICK b \in Seq(AnyByte) : b = Bytes(n + 1, k)
  <2>1. n + 1 \in Nat
    OBVIOUS
  <2> QED BY <2>1, BytesFacts
<1>6. wire' = wire \o b /\ wire' \in Seq(AnyByte)
  BY <1>1, <1>2, <1>4, <1>5, ConcatProperties
<1>7. PICK s \in Seq(AnyByte), t \in Seq(AnyByte) :
        s = Stream /\ t = Stream' /\ t = s \o Bytes(Len(sent) + 1, k)
  <2>1. Stream \in Seq(AnyByte) /\ Stream' \in Seq(AnyByte)
    BY <1>1, <1>2, <1>6, ConcatProperties DEF Stream
  <2>2. Stream' = rx \o (wire \o b)
    BY <1>1, <1>6 DEF Stream
  <2>3. rx \o (wire \o b) = (rx \o wire) \o b
    BY <1>2, JoinsAssociate
  <2>4. Stream' = Stream \o Bytes(Len(sent) + 1, k)
    BY <1>3, <1>5, <2>2, <2>3 DEF Stream
  <2> QED BY <2>1, <2>4
<1>8. BytesInOrder(s) /\ HeardInOrder(s)
  BY <1>7 DEF FrameInv, BytesInOrder, HeardInOrder
<1>9. BytesInOrder(t)' /\ HeardInOrder(t)'
  BY <1>1, <1>7, <1>8, SendKeepsOrder DEF FrameInv
<1>10. BytesInOrder(Stream)' /\ HeardInOrder(Stream)'
  BY <1>7, <1>9 DEF BytesInOrder, HeardInOrder
<1>11. StreamTypes'
  <2>1. firstFrame' \in 1..Len(sent') + 1
    BY <1>1, <1>2, <1>3, <1>4
  <2> QED BY <1>1, <1>4, <1>6, <2>1 DEF FrameInv, StreamTypes
<1>12. ASSUME conn' # "none", fate' = {} PROVE PlaceKept'
  <2>1. PICK g \in firstFrame..Len(sent) + 1 : Whole(Stream, g) /\ Handled(g)
    BY <1>1, <1>12 DEF FrameInv, PlaceKept
  <2>2. g \in 1..Len(sent) + 1 /\ g \in firstFrame..n + 2 /\ g - 1 \in 0..n
    BY <1>2, <1>3, <2>1
  <2>3. Whole(s, g)
    BY <1>7, <2>1 DEF Whole, Placed
  <2>4. Whole(t, g)'
    BY <1>1, <1>7, <2>2, <2>3, SendKeepsWhole DEF FrameInv
  <2>5. Whole(Stream, g)'
    BY <1>7, <2>4 DEF Whole, Placed
  <2>6. \A f \in firstFrame..g - 1 : sent'[f] = sent[f]
    <3>1. \A f \in firstFrame..g - 1 : f \in 1..n
      BY <1>2, <1>3, <2>2
    <3> QED BY <1>4, <3>1
  <2>7. Bad(g)' = Bad(g)
    BY <1>1, <2>6 DEF Bad
  <2>8. Handled(g)'
    BY <1>1, <2>1, <2>6, <2>7 DEF Handled
  <2>9. g \in firstFrame'..Len(sent') + 1
    BY <1>1, <1>4, <2>2
  <2> QED BY <2>5, <2>8, <2>9 DEF PlaceKept
<1>13. PlaceKept'
  BY <1>12 DEF PlaceKept
<1> QED BY <1>10, <1>11, <1>13 DEF FrameInv

\* A new connection has an empty stream.
LEMMA NewConnectionKeeps == ASSUME FrameInv, NewConnection, rx' = <<>> PROVE FrameInv'
<1>1. /\ firstFrame' = Len(sent) + 1 /\ wire' = <<>> /\ heard' = <<>> /\ counted' = 0
      /\ sent' = sent /\ Stream' = <<>> \o <<>>
  BY DEF NewConnection, Stream
<1>2. PICK n \in Nat : n = Len(sent)
  BY DEF FrameInv, StreamTypes
<1>3. <<>> \in Seq(AnyByte) /\ <<>> \in Seq(Nat) /\ Len(<<>>) = 0
  OBVIOUS
<1>4. PICK t \in Seq(AnyByte) : t = Stream' /\ Len(t) = 0
  <2>1. <<>> \o <<>> = <<>>
    BY <1>3, ConcatEmptySeq
  <2> QED BY <1>1, <1>3, <2>1
<1>5. StreamTypes'
  <2>1. n + 1 \in 1..n + 1
    OBVIOUS
  <2> QED BY <1>1, <1>2, <1>3, <2>1 DEF FrameInv, StreamTypes
<1>6. BytesInOrder(Stream)' /\ HeardInOrder(Stream)'
  <2>1. \A i \in 1..0 : FALSE
    OBVIOUS
  <2> QED BY <1>1, <1>3, <1>4, <2>1 DEF BytesInOrder, HeardInOrder
<1>7. PlaceKept'
  <2>1. PICK g \in Nat : g = n + 1
    OBVIOUS
  <2>2. g \in firstFrame'..Len(sent') + 1
    BY <1>1, <1>2, <2>1
  <2>3. \A f \in g..n : FALSE
    BY <2>1
  <2>4. \A f \in g..n + 1 : f = g
    BY <2>1
  <2> DEFINE off == [f \in g..n + 1 |-> 0]
  <2>5. off \in [g..n + 1 -> Nat] /\ off[g] = 0 /\ off[n + 1] = 0
    BY <2>1
  <2> HIDE DEF off
  <2>6. Placed(t, g, off)'
    BY <1>1, <1>2, <1>4, <2>3, <2>4, <2>5 DEF Placed
  <2>7. Whole(t, g)'
    <3>1. \A i \in 1..0 : FALSE
      OBVIOUS
    <3> QED BY <1>4, <2>6, <3>1 DEF Whole
  <2>8. Whole(Stream, g)'
    BY <1>4, <2>7 DEF Whole, Placed
  <2>9. Handled(g)'
    <3>1. \A f \in firstFrame'..g - 1 : FALSE
      BY <1>1, <1>2, <2>1
    <3>2. Bad(g)' = {}
      BY <3>1 DEF Bad
    <3>3. \A i \in 1..0 : FALSE
      OBVIOUS
    <3> QED BY <1>1, <1>3, <3>1, <3>2, <3>3, FS_EmptySet DEF Handled
  <2> QED BY <2>2, <2>8, <2>9 DEF PlaceKept
<1> QED BY <1>5, <1>6, <1>7 DEF FrameInv

\* The connection is closed.
LEMMA ClosesKeeps == FrameInv /\ (PeerCloses \/ DeviceCloses) => FrameInv'
<1> SUFFICES ASSUME FrameInv, PeerCloses \/ DeviceCloses PROVE FrameInv'
  OBVIOUS
<1>1. /\ conn' = "none" /\ wire' = <<>> /\ (rx' = <<>> \/ rx' = rx)
      /\ UNCHANGED <<sent, firstFrame, heard, counted>>
  BY DEF PeerCloses, DeviceCloses
<1>2. rx \in Seq(AnyByte) /\ wire \in Seq(AnyByte) /\ counted \in Nat
  BY DEF FrameInv, StreamTypes
<1>3. rx' \in Seq(AnyByte) /\ wire' \in Seq(AnyByte)
  <2>1. <<>> \in Seq(AnyByte)
    OBVIOUS
  <2> QED BY <1>1, <1>2, <2>1
<1>4. Stream' = rx'
  BY <1>1, <1>3, ConcatEmptySeq DEF Stream
<1>5. Piece(rx', Stream, 0)
  <2>1. Len(Stream) = Len(rx) + Len(wire) /\ \A i \in 1..Len(rx) : Stream[i] = rx[i]
    BY <1>2, StreamFacts
  <2>2. Len(rx) \in Nat /\ Len(wire) \in Nat
    BY <1>2
  <2>3. CASE rx' = rx
    BY <2>1, <2>2, <2>3 DEF Piece
  <2>4. CASE rx' = <<>>
    <3>1. Len(<<>>) = 0
      OBVIOUS
    <3> QED BY <2>1, <2>2, <2>4, <3>1 DEF Piece
  <2> QED BY <1>1, <2>3, <2>4
<1>6. Piece(Stream', Stream, 0)
  BY <1>4, <1>5
<1> QED BY <1>1, <1>2, <1>3, <1>6, ShorterKeeps

-----------------------------------------------------------------------------
\* Whatever has happened to the stream, its bytes and the messages handed over
\* are of this connection and in order; as long as the device has lost nothing it
\* is a row of whole frames, behind those that were heard or counted (frame_parse
\* of frame.c, handle_rx of device_app.c).
THEOREM FrameInvariant == FrameSpec => []FrameInv
<1>1. FrameInit => FrameInv
  <2> SUFFICES ASSUME FrameInit PROVE FrameInv
    OBVIOUS
  <2>1. /\ sent = <<>> /\ firstFrame = 1 /\ wire = <<>> /\ rx = <<>> /\ heard = <<>>
        /\ counted = 0 /\ conn = "none"
    BY DEF FrameInit
  <2>2. Stream = <<>> /\ Len(<<>>) = 0
    BY <2>1 DEF Stream
  <2>3. \A i \in 1..0 : FALSE
    OBVIOUS
  <2>4. StreamTypes
    BY <2>1 DEF StreamTypes
  <2>5. BytesInOrder(Stream) /\ HeardInOrder(Stream)
    BY <2>1, <2>2, <2>3 DEF BytesInOrder, HeardInOrder
  <2>6. PlaceKept
    BY <2>1 DEF PlaceKept
  <2> QED BY <2>4, <2>5, <2>6 DEF FrameInv
<1>2. FrameInv /\ [FrameNext]_frameVars => FrameInv'
  <2> SUFFICES ASSUME FrameInv, [FrameNext]_frameVars PROVE FrameInv'
    OBVIOUS
  <2>1. CASE Accept \/ Connect
    BY <2>1, NewConnectionKeeps DEF Accept, Connect
  <2>2. CASE PeerCloses \/ DeviceCloses
    BY <2>2, ClosesKeeps
  <2>3. CASE \E k \in Kinds : PeerSends(k)
    BY <2>3, PeerSendsKeeps
  <2>4. CASE \E n \in 1..RecvMax : Receive(n)
    <3>1. PICK n \in 1..RecvMax : Receive(n)
      BY <2>4
    <3>2. n \in Nat
      BY FrameAssumption
    <3> QED BY <3>1, <3>2, ReceiveKeeps
  <2>5. CASE WaitsForMore \/ UNCHANGED frameVars
    <3>1. UNCHANGED <<conn, sent, firstFrame, wire, rx, heard, counted, fate>>
      BY <2>5 DEF WaitsForMore, frameVars
    <3>2. rx' \in Seq(AnyByte) /\ wire' \in Seq(AnyByte) /\ Stream' = Stream
      BY <3>1 DEF FrameInv, StreamTypes, Stream
    <3> QED BY <3>1, <3>2, SameKeeps
  <2>6. CASE \E len \in 1..LongText : Frame(len)
    BY <2>6, FrameKeeps
  <2> QED BY <2>1, <2>2, <2>3, <2>4, <2>5, <2>6, BadPrefixKeeps DEF FrameNext
<1> QED BY <1>1, <1>2, PTL DEF FrameSpec

\* The frames of which no byte waits are the ones in front of the first that does.
LEMMA ConsumedFacts ==
    ASSUME FrameInv, NEW g \in firstFrame..Len(sent) + 1, Whole(Stream, g)
    PROVE  Consumed = firstFrame..g - 1
<1>1. /\ firstFrame \in 1..Len(sent) + 1 /\ Len(sent) \in Nat /\ Stream \in Seq(AnyByte)
      /\ sent \in Seq(Kinds)
  BY StreamFacts DEF FrameInv, StreamTypes
<1>2. PICK n \in Nat : n = Len(sent)
  BY <1>1
<1>3. PICK s \in Seq(AnyByte) : s = Stream /\ s = rx \o wire /\ DOMAIN s = 1..Len(s)
  <2>1. \A r \in Seq(AnyByte) : DOMAIN r = 1..Len(r)
    OBVIOUS
  <2>2. Stream = rx \o wire
    BY DEF Stream
  <2> QED BY <1>1, <2>1, <2>2
<1>4. g \in 1..n + 1 /\ firstFrame \in 1..n + 1 /\ g \in Nat /\ firstFrame \in Nat
  BY <1>1, <1>2
<1>5. ASSUME NEW i \in 1..Len(s) PROVE s[i].frame >= g
  <2>1. s # <<>> /\ 1 \in 1..Len(s)
    BY <1>5
  <2>2. s[1].frame = g
    <3>1. Whole(s, g)
      BY <1>3 DEF Whole, Placed
    <3>2. /\ FrameSize(g) \in Nat /\ FrameSize(g) >= 2
          /\ \A p \in 1..FrameSize(g) : s[p] = Byte(g, p)
      BY <1>2, <1>4, <2>1, <3>1, FirstIsPlaced DEF FrameInv
    <3>3. s[1] = Byte(g, 1)
      BY <3>2
    <3> QED BY <1>4, <3>3, ByteFacts
  <2>3. s[i].frame # 0 /\ s[i].frame \in Nat /\ g # 0
    BY <1>3, <1>4, <1>5, FramesAreNumbers DEF Whole
  <2>4. CASE i = 1
    BY <1>4, <2>2, <2>4
  <2>5. CASE i # 1
    <3>1. 1 < i
      BY <1>5, <2>5
    <3>2. Precedes(s[1], s[i])
      BY <1>3, <1>5, <2>1, <2>2, <2>3, <3>1 DEF FrameInv, BytesInOrder
    <3> QED BY <1>4, <2>2, <2>3, <3>2 DEF Precedes
  <2> QED BY <2>4, <2>5
<1>6. ASSUME NEW f \in g..n PROVE \E i \in 1..Len(s) : s[i].frame = f
  <2>1. PICK off : Placed(s, g, off)
    BY <1>3 DEF Whole, Placed
  <2>2. f \in 1..n /\ f \in Nat /\ f \in g..n + 1 /\ n + 1 \in g..n + 1 /\ f < n + 1
    BY <1>4
  <2>3. FrameSize(f) \in Nat /\ FrameSize(f) >= 2
    BY <1>1, <1>2, <2>2, FrameSizes
  <2>4. off[f] \in Nat /\ off[f] + FrameSize(f) <= Len(s)
    BY <1>2, <2>1, <2>2 DEF Placed
  <2>5. s[off[f] + 1] = Byte(f, 1)
    <3>1. 1 \in 1..FrameSize(f)
      BY <2>3
    <3> QED BY <1>2, <2>1, <3>1 DEF Placed
  <2>6. off[f] + 1 \in 1..Len(s)
    BY <2>3, <2>4
  <2>7. s[off[f] + 1].frame = f
    BY <2>2, <2>5, ByteFacts
  <2> QED BY <2>6, <2>7
<1>7. ASSUME NEW f \in Consumed PROVE f \in firstFrame..g - 1
  <2>1. f \in firstFrame..n /\ \A i \in 1..Len(s) : s[i].frame # f
    BY <1>2, <1>3 DEF Consumed
  <2>2. f \notin g..n
    BY <1>6, <2>1
  <2> QED BY <1>4, <2>1, <2>2
<1>8. ASSUME NEW f \in firstFrame..g - 1 PROVE f \in Consumed
  <2>1. f \in firstFrame..Len(sent) /\ f \in Nat /\ f < g
    BY <1>2, <1>4
  <2>2. ASSUME NEW i \in 1..Len(s) PROVE s[i].frame # f
    <3>1. s[i].frame >= g /\ s[i].frame \in Nat
      BY <1>5, FramesAreNumbers
    <3> QED BY <1>4, <2>1, <3>1
  <2> QED BY <1>3, <2>1, <2>2 DEF Consumed
<1> QED BY <1>7, <1>8

\* The handlers get messages of this connection only, in order, each at most
\* once; and while no byte was lost or overwritten every message, and every
\* malformed frame is counted once (frame_parse of frame.c, handle_rx).
THEOREM FramesAreInOrder == FrameSpec => []FramesInOrder
<1>1. FrameInv => FramesInOrder
  <2> SUFFICES ASSUME FrameInv PROVE FramesInOrder
    OBVIOUS
  <2>1. heard \in Seq(Nat) /\ DOMAIN heard = 1..Len(heard) /\ firstFrame \in Nat
    BY DEF FrameInv, StreamTypes
  <2>2. \A i \in DOMAIN heard : heard[i] >= firstFrame /\ sent[heard[i]] \in Legal
    BY <2>1 DEF FrameInv, HeardInOrder
  <2>3. ASSUME NEW i \in DOMAIN heard, i > 1 PROVE heard[i - 1] < heard[i]
    <3>1. i - 1 \in 1..Len(heard) /\ i \in 1..Len(heard) /\ i - 1 < i
      BY <2>1, <2>3
    <3> QED BY <3>1 DEF FrameInv, HeardInOrder
  <2>4. ASSUME conn # "none", fate = {}
        PROVE  /\ ToSet(heard) = {f \in Consumed : sent[f] \in Legal}
               /\ counted = Cardinality(Consumed \ {f \in Consumed : sent[f] \in Legal})
    <3>1. PICK g \in firstFrame..Len(sent) + 1 : Whole(Stream, g) /\ Handled(g)
      BY <2>4 DEF FrameInv, PlaceKept
    <3>2. Consumed = firstFrame..g - 1
      BY <3>1, ConsumedFacts
    <3>3. g \in Nat /\ Len(sent) \in Nat
      BY <3>1 DEF FrameInv, StreamTypes
    <3>4. ASSUME NEW i \in 1..Len(heard) PROVE heard[i] \in Consumed /\ sent[heard[i]] \in Legal
      <4>1. heard[i] < g /\ heard[i] \in firstFrame..Len(sent) /\ sent[heard[i]] \in Legal
        BY <3>1 DEF FrameInv, HeardInOrder, Handled
      <4> QED BY <2>1, <3>2, <3>3, <4>1
    <3>5. ASSUME NEW f \in Consumed, sent[f] \in Legal PROVE \E i \in 1..Len(heard) : heard[i] = f
      BY <3>1, <3>2, <3>5 DEF Handled
    <3>6. ToSet(heard) = {heard[i] : i \in 1..Len(heard)}
      BY <2>1 DEF ToSet
    <3>7. ToSet(heard) = {f \in Consumed : sent[f] \in Legal}
      BY <3>4, <3>5, <3>6
    <3>8. Consumed \ {f \in Consumed : sent[f] \in Legal} = Bad(g)
      BY <3>2 DEF Bad
    <3> QED BY <3>1, <3>7, <3>8 DEF Handled
  <2> QED BY <2>2, <2>3, <2>4 DEF FramesInOrder
<1> QED BY <1>1, FrameInvariant, PTL
=============================================================================
