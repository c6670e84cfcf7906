-------------------------- MODULE DeviceCoreProofs --------------------------
(***************************************************************************)
(* Theorems about DeviceCore, for any networks, list capacity, retry and   *)
(* PIN limits.                                                             *)
(***************************************************************************)
EXTENDS DeviceCore, WellFoundedInduction, TLAPS

(***************************************************************************)
(* What the in-place shifts of the credential list preserve: its length    *)
(* and type, at most one entry per network, and that nothing becomes       *)
(* confirmed by being moved.                                               *)
(***************************************************************************)
\* The empty list is a list, without duplicates and without confirmed entries.
LEMMA EmptyList ==
    /\ <<>> \in CredLists
    /\ Len(<<>>) = 0
    /\ NoDuplicates(<<>>)
    /\ ConfirmedNets(<<>>) = {}
<1>1. <<>> \in Seq(Cred) /\ Len(<<>>) = 0
  OBVIOUS
<1>2. <<>> \in CredLists
  BY <1>1, CredMaxAssumption DEF CredLists
<1>3. NoDuplicates(<<>>) /\ ConfirmedNets(<<>>) = {}
  BY <1>1 DEF NoDuplicates, ConfirmedNets
<1> QED
  BY <1>1, <1>2, <1>3

\* creds_remove shortens the list by one and moves entries, no more.
LEMMA RemoveFacts ==
    ASSUME NEW s \in CredLists, NEW i \in 1..Len(s)
    PROVE  /\ RemoveAtPos(s, i) \in CredLists
           /\ Len(RemoveAtPos(s, i)) = Len(s) - 1
           /\ NoDuplicates(s) => NoDuplicates(RemoveAtPos(s, i))
           /\ ConfirmedNets(RemoveAtPos(s, i)) \subseteq ConfirmedNets(s)
<1> DEFINE r == RemoveAtPos(s, i)
           old(j) == IF j < i THEN j ELSE j + 1
<1>1. /\ s \in Seq(Cred) /\ Len(s) \in Nat /\ Len(s) <= CredMax
      /\ \A j \in 1..Len(s) : s[j] \in Cred
  BY DEF CredLists
<1>2. \A j \in 1..(Len(s) - 1) :
        old(j) \in 1..Len(s) /\ r[j] = s[old(j)]
  BY <1>1 DEF RemoveAtPos
<1>3. r \in [1..(Len(s) - 1) -> Cred]
  BY <1>1 DEF RemoveAtPos
<1>4. r \in Seq(Cred) /\ Len(r) = Len(s) - 1
  BY <1>1, <1>3
<1>5. r \in CredLists
  BY <1>1, <1>4, CredMaxAssumption DEF CredLists
<1>6. ASSUME NoDuplicates(s)
      PROVE  NoDuplicates(r)
  <2> SUFFICES ASSUME NEW j \in 1..(Len(s) - 1), NEW k \in 1..(Len(s) - 1),
                      r[j].net = r[k].net
               PROVE  j = k
    BY <1>4 DEF NoDuplicates
  <2>1. old(j) = old(k)
    BY <1>2, <1>6 DEF NoDuplicates
  <2> QED
    BY <2>1, <1>1
<1>7. ConfirmedNets(r) \subseteq ConfirmedNets(s)
  <2> SUFFICES ASSUME NEW j \in 1..(Len(s) - 1), r[j].ok
               PROVE  r[j].net \in ConfirmedNets(s)
    BY <1>4 DEF ConfirmedNets
  <2> QED
    BY <1>2 DEF ConfirmedNets
<1> QED
  BY <1>4, <1>5, <1>6, <1>7

\* The hole is a position of the list or the one after its end, never past
\* the capacity, and no other entry has the network that is put in front.
LEMMA HoleFacts ==
    ASSUME NEW s \in CredLists, NEW n \in Nets
    PROVE  /\ Hole(s, n) \in 1..CredMax
           /\ Hole(s, n) <= Len(s) + 1
           /\ NoDuplicates(s) =>
                \A j \in 1..Len(s) : j # Hole(s, n) => s[j].net # n
<1>1. s \in Seq(Cred) /\ Len(s) \in Nat /\ Len(s) <= CredMax
  BY DEF CredLists
<1>2. CASE \E i \in 1..Len(s) : s[i].net = n
  <2> DEFINE First(i) == s[i].net = n /\ \A j \in 1..(i - 1) : s[j].net # n
  <2>1. \E i \in 1..Len(s) : First(i)
    <3> DEFINE At == {i \in 1..Len(s) : s[i].net = n}
    <3>1. At # {} /\ At \subseteq Nat
      BY <1>2, <1>1
    <3>2. PICK i \in At : \A j \in At : <<j, i>> \notin OpToRel(<, Nat)
      BY <3>1, WFMin, NatLessThanWellFounded
    <3>3. ASSUME NEW j \in At, j < i
          PROVE  FALSE
      <4>1. <<j, i>> \in Nat \X Nat /\ <<j, i>>[1] < <<j, i>>[2]
        BY <3>1, <3>3
      <4> QED
        BY <4>1, <3>2 DEF OpToRel
    <3> QED
      BY <3>1, <3>3, <1>1
  <2>2. /\ Hole(s, n) \in 1..Len(s)
        /\ First(Hole(s, n))
    BY <2>1, <1>2 DEF Hole
  <2> QED
    BY <2>2, <1>1, CredMaxAssumption DEF NoDuplicates
<1>3. CASE ~\E i \in 1..Len(s) : s[i].net = n
  BY <1>1, <1>3, CredMaxAssumption DEF Hole
<1> QED
  BY <1>2, <1>3

\* Putting a network in front keeps the list within its capacity and every
\* other network in it at most once, and confirms nothing.
LEMMA PutFirstFacts ==
    ASSUME NEW s \in CredLists, NEW n \in Nets
    PROVE  /\ PutFirst(s, n) \in CredLists
           /\ 1 \in 1..Len(PutFirst(s, n))
           /\ NoDuplicates(s) => NoDuplicates(PutFirst(s, n))
           /\ ConfirmedNets(PutFirst(s, n)) \subseteq ConfirmedNets(s)
<1> DEFINE k == Hole(s, n)
           m == IF Len(s) < k THEN k ELSE Len(s)
           p == PutFirst(s, n)
           old(j) == IF j <= k THEN j - 1 ELSE j
<1>1. /\ s \in Seq(Cred) /\ Len(s) \in Nat /\ Len(s) <= CredMax
      /\ \A j \in 1..Len(s) : s[j] \in Cred
  BY DEF CredLists
<1>2. /\ k \in 1..CredMax /\ k <= Len(s) + 1
      /\ NoDuplicates(s) => \A j \in 1..Len(s) : j # k => s[j].net # n
  BY HoleFacts
<1>3. m \in 1..CredMax
  BY <1>1, <1>2, CredMaxAssumption
<1>4. p = [j \in 1..m |-> IF j = 1 THEN Unconfirmed(n)
                          ELSE IF j <= k THEN s[j - 1] ELSE s[j]]
  BY DEF PutFirst
<1>5. /\ p[1] = Unconfirmed(n)
      /\ \A j \in 2..m : /\ old(j) \in 1..Len(s) /\ old(j) # k
                         /\ p[j] = s[old(j)]
  BY <1>1, <1>2, <1>3, <1>4
<1>6. Unconfirmed(n) \in Cred /\ Unconfirmed(n).net = n /\ ~Unconfirmed(n).ok
  BY DEF Unconfirmed, Cred
<1>7. p \in [1..m -> Cred]
  <2>1. \A j \in 1..m : p[j] \in Cred
    BY <1>1, <1>3, <1>5, <1>6
  <2> QED
    BY <2>1, <1>4
<1>8. p \in Seq(Cred) /\ Len(p) = m
  BY <1>3, <1>7
<1>9. p \in CredLists
  BY <1>3, <1>8, CredMaxAssumption DEF CredLists
<1>10. ASSUME NoDuplicates(s)
       PROVE  NoDuplicates(p)
  <2> SUFFICES ASSUME NEW i \in 1..m, NEW j \in 1..m, i < j
               PROVE  p[i].net # p[j].net
    BY <1>3, <1>8 DEF NoDuplicates
  <2>1. j \in 2..m
    BY <1>3
  <2>2. CASE i = 1
    BY <1>2, <1>5, <1>6, <1>10, <2>1, <2>2
  <2>3. CASE i # 1
    <3>1. i \in 2..m
      BY <2>3, <1>3
    <3>2. old(i) # old(j)
      BY <3>1, <2>1, <1>2, <1>3
    <3> QED
      BY <3>1, <3>2, <2>1, <1>5, <1>10 DEF NoDuplicates
  <2> QED
    BY <2>2, <2>3
<1>11. ConfirmedNets(p) \subseteq ConfirmedNets(s)
  <2> SUFFICES ASSUME NEW j \in 1..m, p[j].ok
               PROVE  p[j].net \in ConfirmedNets(s)
    BY <1>8 DEF ConfirmedNets
  <2>1. j \in 2..m
    BY <1>3, <1>5, <1>6
  <2> QED
    BY <2>1, <1>5 DEF ConfirmedNets
<1>12. 1 \in 1..Len(p)
  BY <1>3, <1>8
<1> QED
  BY <1>9, <1>10, <1>11, <1>12

\* Confirming an entry changes its mark and nothing else.
LEMMA ConfirmFacts ==
    ASSUME NEW s \in CredLists, NEW i \in 1..Len(s)
    PROVE  /\ Confirm(s, i) \in CredLists
           /\ Len(Confirm(s, i)) = Len(s)
           /\ Confirm(s, i)[i].net = s[i].net
           /\ NoDuplicates(s) => NoDuplicates(Confirm(s, i))
           /\ ConfirmedNets(Confirm(s, i))
                \subseteq ConfirmedNets(s) \cup {s[i].net}
<1> DEFINE e == [net |-> s[i].net, ok |-> TRUE]
           c == [s EXCEPT ![i] = e]
<1>1. /\ s \in Seq(Cred) /\ Len(s) \in Nat /\ Len(s) <= CredMax
      /\ \A j \in 1..Len(s) : s[j] \in Cred
  BY DEF CredLists
<1>2. e \in Cred /\ e.net = s[i].net
  BY <1>1 DEF Cred
<1> HIDE DEF e
<1>3. /\ c \in Seq(Cred) /\ Len(c) = Len(s)
      /\ c[i] = e
      /\ \A j \in 1..Len(s) : j # i => c[j] = s[j]
  BY <1>1, <1>2
<1>4. c \in CredLists
  BY <1>1, <1>3 DEF CredLists
<1>5. NoDuplicates(s) => NoDuplicates(c)
  <2>1. \A j \in 1..Len(s) : c[j].net = s[j].net
    BY <1>2, <1>3
  <2> QED
    BY <1>3, <2>1 DEF NoDuplicates
<1>6. ConfirmedNets(c) \subseteq ConfirmedNets(s) \cup {s[i].net}
  <2> SUFFICES ASSUME NEW j \in 1..Len(s), c[j].ok
               PROVE  c[j].net \in ConfirmedNets(s) \cup {s[i].net}
    BY <1>3 DEF ConfirmedNets
  <2> QED
    BY <1>2, <1>3 DEF ConfirmedNets
<1>7. c = Confirm(s, i)
  BY DEF Confirm, e
<1> QED
  BY <1>2, <1>3, <1>4, <1>5, <1>6, <1>7

-----------------------------------------------------------------------------
(***************************************************************************)
(* The inductive invariant.  The provisioning steps happen in the          *)
(* provisioning state only, a client is connected only to a hotspot that   *)
(* is on, and an acknowledgement that is still remembered came over the    *)
(* entry that is active.                                                   *)
(***************************************************************************)
StepFollowsState ==
    /\ pc \in {"accept", "recv", "rx", "check"} => state = "AP_PROVISION"
    /\ pc = "load" => state \in {"BOOT", "AP_PROVISION"}
    /\ pc = "accept" => apListen

ClientNeedsHotspot == apConn => apListen

AckIsForActive == state = "SESSION" /\ ackOk => creds[active].net \in acked

DeviceInv ==
    /\ TypeOK
    /\ StepFollowsState
    /\ ClientNeedsHotspot
    /\ AckIsForActive
    /\ JoinUsesACredential
    /\ SocketsFollowState
    /\ ConfirmedWasAcked
    /\ OneEntryPerNetwork
    /\ MemoryMatchesFlash
    /\ OnlyTheAuthenticatedConfigures

\* The steps keep to their states, and sockets to theirs.
LEMMA PlacesKept ==
    DeviceInv /\ [Next]_vars
        => (StepFollowsState /\ ClientNeedsHotspot /\ SocketsFollowState)'
<1> SUFFICES ASSUME DeviceInv, [Next]_vars
             PROVE  (/\ StepFollowsState /\ ClientNeedsHotspot
                     /\ SocketsFollowState)'
  OBVIOUS
<1> USE DEF DeviceInv, StepFollowsState, ClientNeedsHotspot,
        SocketsFollowState, Online,
        InAp, Tick, KeepAp, KeepCreds, KeepSession, apVars, nvsVars,
        credVars, sessVars
<1>1. CASE PowerOn
  BY <1>1 DEF PowerOn, NvsRead, NvsUnreadable
<1>2. CASE Crash
  BY <1>2 DEF Crash
<1>3. CASE Boot
  BY <1>3 DEF Boot
<1>4. CASE Loading
  BY <1>4 DEF Loading, RollBackOne, ReloadDone, Persist, Saved
<1>5. CASE Joining
  BY <1>5
     DEF Joining, JoinConnected, JoinRefused, JoinRetry, JoinExhausted,
         NextCredential, CredsClearAll, Persist, Saved
<1>6. CASE ApTick
  BY <1>6 DEF ApTick, ApWaitsBackoff, ApStart, ApStartFails, ApPoll
<1>7. CASE ApAccept \/ ApNoClient \/ ApReceive \/ ApConnClosed \/ ApTimeouts
  BY <1>7
     DEF ApAccept, AcceptResets, ApNoClient, ApReceive, ApConnClosed,
         ApTimeouts, ServerStop
<1>8. CASE ApRx
  BY <1>8
     DEF ApRx, FrameIgnored, AuthSucceeds, AuthFails, CountFail, ConfigFails,
         ConfigSaved, ConfigNotSaved, CloseAp, Takes, ServerStop, Saved,
         NvsRead, NvsUnreadable
<1>9. CASE ApCheck
  BY <1>9
     DEF ApCheck, ApClosedEarly, ApCompleted, ApCompletedWrongWifi,
         ApIdleTimeout, ApNextRound, StopIfHandoff, ServerStop, ListenLeft,
         HandoffFires, WifiValid, Reprovision, CredsClearAll, Persist, Saved
<1>10. CASE WifiLost \/ WifiWrong \/ RollBack
  BY <1>10
     DEF WifiLost, WifiWrong, RollBack, WifiValid, Reprovision, CredsClearAll,
         Persist, Saved
<1>11. CASE \/ HostFound \/ Connected \/ ConnectFails \/ BackToDiscovery
            \/ SessionLost
  BY <1>11
     DEF HostFound, Connected, SessionEntered, ConnectFails, BackToDiscovery,
         SessionLost, OnlineStep, WifiValid
<1>12. CASE SessionRound
  BY <1>12 DEF SessionRound, ConfirmOnAck, OnlineStep, WifiValid, Saved
<1>13. CASE Clock
  BY <1>13 DEF Clock, WindowElapses, HandoffElapses, BackoffElapses
<1>14. CASE WifiChanges
  BY <1>14 DEF WifiChanges
<1>15. CASE UNCHANGED vars
  BY <1>15 DEF vars
<1> QED
  BY <1>1, <1>2, <1>3, <1>4, <1>5, <1>6, <1>7, <1>8, <1>9, <1>10, <1>11,
     <1>12, <1>13, <1>14, <1>15
     DEF Next, Device, Provisioning, OnlineNext

\* Memory and NVS part only where the code loses track of them.
LEMMA FlashKept == DeviceInv /\ [Next]_vars => MemoryMatchesFlash'
<1> SUFFICES ASSUME DeviceInv, [Next]_vars PROVE MemoryMatchesFlash'
  OBVIOUS
<1> USE DEF DeviceInv, StepFollowsState, MemoryMatchesFlash, Online,
        InAp, Tick, KeepAp, KeepCreds, KeepSession, apVars, nvsVars,
        credVars, sessVars
<1>1. CASE PowerOn
  BY <1>1 DEF PowerOn, NvsRead, NvsUnreadable
<1>2. CASE Crash
  BY <1>2 DEF Crash
<1>3. CASE Boot
  BY <1>3 DEF Boot
<1>4. CASE Loading
  BY <1>4 DEF Loading, RollBackOne, ReloadDone, Persist, Saved
<1>5. CASE Joining
  BY <1>5
     DEF Joining, JoinConnected, JoinRefused, JoinRetry, JoinExhausted,
         NextCredential, CredsClearAll, Persist, Saved
<1>6. CASE ApTick
  BY <1>6 DEF ApTick, ApWaitsBackoff, ApStart, ApStartFails, ApPoll
<1>7. CASE ApAccept \/ ApNoClient \/ ApReceive \/ ApConnClosed \/ ApTimeouts
  BY <1>7
     DEF ApAccept, AcceptResets, ApNoClient, ApReceive, ApConnClosed,
         ApTimeouts, ServerStop
<1>8. CASE ApRx
  BY <1>8
     DEF ApRx, FrameIgnored, AuthSucceeds, AuthFails, CountFail, ConfigFails,
         ConfigSaved, ConfigNotSaved, CloseAp, Takes, ServerStop, Saved,
         NvsRead, NvsUnreadable
<1>9. CASE ApCheck
  BY <1>9
     DEF ApCheck, ApClosedEarly, ApCompleted, ApCompletedWrongWifi,
         ApIdleTimeout, ApNextRound, StopIfHandoff, ServerStop, ListenLeft,
         HandoffFires, WifiValid, Reprovision, CredsClearAll, Persist, Saved
<1>10. CASE WifiLost \/ WifiWrong \/ RollBack
  BY <1>10
     DEF WifiLost, WifiWrong, RollBack, WifiValid, Reprovision, CredsClearAll,
         Persist, Saved
<1>11. CASE \/ HostFound \/ Connected \/ ConnectFails \/ BackToDiscovery
            \/ SessionLost
  BY <1>11
     DEF HostFound, Connected, SessionEntered, ConnectFails, BackToDiscovery,
         SessionLost, OnlineStep, WifiValid
<1>12. CASE SessionRound
  BY <1>12 DEF SessionRound, ConfirmOnAck, OnlineStep, WifiValid, Saved
<1>13. CASE Clock
  BY <1>13 DEF Clock, WindowElapses, HandoffElapses, BackoffElapses
<1>14. CASE WifiChanges
  BY <1>14 DEF WifiChanges
<1>15. CASE UNCHANGED vars
  BY <1>15 DEF vars
<1> QED
  BY <1>1, <1>2, <1>3, <1>4, <1>5, <1>6, <1>7, <1>8, <1>9, <1>10, <1>11,
     <1>12, <1>13, <1>14, <1>15
     DEF Next, Device, Provisioning, OnlineNext

\* Only the client that authenticated is treated as authenticated.
LEMMA AuthKept == DeviceInv /\ [Next]_vars => OnlyTheAuthenticatedConfigures'
<1> SUFFICES ASSUME DeviceInv, [Next]_vars
             PROVE  OnlyTheAuthenticatedConfigures'
  OBVIOUS
<1> USE DEF DeviceInv, OnlyTheAuthenticatedConfigures,
        InAp, Tick, KeepAp, KeepCreds, KeepSession, apVars, nvsVars,
        credVars, sessVars
<1>1. CASE PowerOn
  BY <1>1 DEF PowerOn, NvsRead, NvsUnreadable
<1>2. CASE Crash
  BY <1>2 DEF Crash
<1>3. CASE Boot
  BY <1>3 DEF Boot
<1>4. CASE Loading
  BY <1>4 DEF Loading, RollBackOne, ReloadDone, Persist, Saved
<1>5. CASE Joining
  BY <1>5
     DEF Joining, JoinConnected, JoinRefused, JoinRetry, JoinExhausted,
         NextCredential, CredsClearAll, Persist, Saved
<1>6. CASE ApTick
  BY <1>6 DEF ApTick, ApWaitsBackoff, ApStart, ApStartFails, ApPoll
<1>7. CASE ApAccept \/ ApNoClient \/ ApReceive \/ ApConnClosed \/ ApTimeouts
  BY <1>7
     DEF ApAccept, AcceptResets, ApNoClient, ApReceive, ApConnClosed,
         ApTimeouts, ServerStop
<1>8. CASE ApRx
  BY <1>8
     DEF ApRx, FrameIgnored, AuthSucceeds, AuthFails, CountFail, ConfigFails,
         ConfigSaved, ConfigNotSaved, CloseAp, Takes, ServerStop, Saved,
         NvsRead, NvsUnreadable
<1>9. CASE ApCheck
  BY <1>9
     DEF ApCheck, ApClosedEarly, ApCompleted, ApCompletedWrongWifi,
         ApIdleTimeout, ApNextRound, StopIfHandoff, ServerStop, ListenLeft,
         HandoffFires, WifiValid, Reprovision, CredsClearAll, Persist, Saved
<1>10. CASE WifiLost \/ WifiWrong \/ RollBack
  BY <1>10
     DEF WifiLost, WifiWrong, RollBack, WifiValid, Reprovision, CredsClearAll,
         Persist, Saved
<1>11. CASE \/ HostFound \/ Connected \/ ConnectFails \/ BackToDiscovery
            \/ SessionLost
  BY <1>11
     DEF HostFound, Connected, SessionEntered, ConnectFails, BackToDiscovery,
         SessionLost, OnlineStep, WifiValid
<1>12. CASE SessionRound
  BY <1>12 DEF SessionRound, ConfirmOnAck, OnlineStep, WifiValid, Saved
<1>13. CASE Clock
  BY <1>13 DEF Clock, WindowElapses, HandoffElapses, BackoffElapses
<1>14. CASE WifiChanges
  BY <1>14 DEF WifiChanges
<1>15. CASE UNCHANGED vars
  BY <1>15 DEF vars
<1> QED
  BY <1>1, <1>2, <1>3, <1>4, <1>5, <1>6, <1>7, <1>8, <1>9, <1>10, <1>11,
     <1>12, <1>13, <1>14, <1>15
     DEF Next, Device, Provisioning, OnlineNext

(***************************************************************************)
(* The five ways the list in memory moves in a step; what is written to    *)
(* NVS is the list in memory.                                              *)
(***************************************************************************)
ListMoves ==
    /\ \/ creds' = creds
       \/ creds' = <<>>
       \/ creds' = nvs
       \/ \E i \in 1..Len(creds) : creds' = RemoveAtPos(creds, i)
       \/ \E n \in Nets : creds' = PutFirst(creds, n)
       \/ /\ active \in 1..Len(creds)
          /\ creds' = Confirm(creds, active)
          /\ creds[active].net \in acked'
    /\ nvs' \in {nvs, creds'}
    /\ acked \subseteq acked'

\* Every step moves the lists in one of these ways.
LEMMA ListsMove == DeviceInv /\ [Next]_vars => ListMoves
<1> SUFFICES ASSUME DeviceInv, [Next]_vars PROVE ListMoves
  OBVIOUS
<1> USE DEF ListMoves, DeviceInv, AckIsForActive, TypeOK, Frames,
        InAp, Tick, KeepAp, KeepCreds, KeepSession, apVars, nvsVars,
        credVars, sessVars
<1>1. CASE PowerOn
  BY <1>1 DEF PowerOn, NvsRead, NvsUnreadable
<1>2. CASE Crash
  BY <1>2 DEF Crash
<1>3. CASE Boot
  BY <1>3 DEF Boot
<1>4. CASE Loading
  BY <1>4 DEF Loading, RollBackOne, ReloadDone, Persist, Saved
<1>5. CASE Joining
  BY <1>5
     DEF Joining, JoinConnected, JoinRefused, JoinRetry, JoinExhausted,
         NextCredential, CredsClearAll, Persist, Saved
<1>6. CASE ApTick
  BY <1>6 DEF ApTick, ApWaitsBackoff, ApStart, ApStartFails, ApPoll
<1>7. CASE ApAccept \/ ApNoClient \/ ApReceive \/ ApConnClosed \/ ApTimeouts
  BY <1>7
     DEF ApAccept, AcceptResets, ApNoClient, ApReceive, ApConnClosed,
         ApTimeouts, ServerStop
<1>8. CASE ApRx
  BY <1>8
     DEF ApRx, FrameIgnored, AuthSucceeds, AuthFails, CountFail, ConfigFails,
         ConfigSaved, ConfigNotSaved, CloseAp, Takes, ServerStop, Saved,
         NvsRead, NvsUnreadable
<1>9. CASE ApCheck
  BY <1>9
     DEF ApCheck, ApClosedEarly, ApCompleted, ApCompletedWrongWifi,
         ApIdleTimeout, ApNextRound, StopIfHandoff, ServerStop, ListenLeft,
         HandoffFires, WifiValid, Reprovision, CredsClearAll, Persist, Saved
<1>10. CASE WifiLost \/ WifiWrong \/ RollBack
  BY <1>10
     DEF WifiLost, WifiWrong, RollBack, WifiValid, Reprovision, CredsClearAll,
         Persist, Saved
<1>11. CASE \/ HostFound \/ Connected \/ ConnectFails \/ BackToDiscovery
            \/ SessionLost
  BY <1>11
     DEF HostFound, Connected, SessionEntered, ConnectFails, BackToDiscovery,
         SessionLost, OnlineStep, WifiValid
<1>12. CASE SessionRound
  BY <1>12 DEF SessionRound, ConfirmOnAck, OnlineStep, WifiValid, Saved
<1>13. CASE Clock
  BY <1>13 DEF Clock, WindowElapses, HandoffElapses, BackoffElapses
<1>14. CASE WifiChanges
  BY <1>14 DEF WifiChanges
<1>15. CASE UNCHANGED vars
  BY <1>15 DEF vars
<1> QED
  BY <1>1, <1>2, <1>3, <1>4, <1>5, <1>6, <1>7, <1>8, <1>9, <1>10, <1>11,
     <1>12, <1>13, <1>14, <1>15
     DEF Next, Device, Provisioning, OnlineNext

\* The lists keep their type, one entry per network, and no entry is marked
\* confirmed but by an acknowledgement.
LEMMA ListsKept ==
    ASSUME DeviceInv, ListMoves
    PROVE  /\ creds' \in CredLists /\ nvs' \in CredLists
           /\ OneEntryPerNetwork'
           /\ ConfirmedWasAcked'
<1> DEFINE Good(s) == /\ s \in CredLists
                      /\ NoDuplicates(s)
                      /\ ConfirmedNets(s) \subseteq acked'
<1>1. Good(creds) /\ Good(nvs)
  BY DEF DeviceInv, TypeOK, ListMoves, OneEntryPerNetwork, ConfirmedWasAcked
<1>2. Good(creds')
  <2>1. CASE creds' \in {creds, <<>>, nvs}
    BY <1>1, <2>1, EmptyList
  <2>2. CASE \E i \in 1..Len(creds) : creds' = RemoveAtPos(creds, i)
    BY <1>1, <2>2, RemoveFacts
  <2>3. CASE \E n \in Nets : creds' = PutFirst(creds, n)
    BY <1>1, <2>3, PutFirstFacts
  <2>4. CASE /\ active \in 1..Len(creds)
             /\ creds' = Confirm(creds, active)
             /\ creds[active].net \in acked'
    BY <1>1, <2>4, ConfirmFacts
  <2> QED
    BY <2>1, <2>2, <2>3, <2>4 DEF ListMoves
<1>3. Good(nvs')
  BY <1>1, <1>2 DEF ListMoves
<1> QED
  BY <1>2, <1>3 DEF OneEntryPerNetwork, ConfirmedWasAcked

\* The active entry stays inside the list wherever the list is indexed.
LEMMA IndexKept == DeviceInv /\ [Next]_vars => JoinUsesACredential'
<1> SUFFICES ASSUME DeviceInv, [Next]_vars PROVE JoinUsesACredential'
  OBVIOUS
<1> USE DEF JoinUsesACredential, DeviceInv, TypeOK, StepFollowsState, Online,
        InAp, Tick, KeepAp, KeepCreds, KeepSession, apVars, nvsVars,
        credVars, sessVars
<1>1. CASE PowerOn
  BY <1>1 DEF PowerOn, NvsRead, NvsUnreadable
<1>2. CASE Crash
  BY <1>2 DEF Crash
<1>3. CASE Boot
  BY <1>3 DEF Boot
<1>4. CASE Loading
  BY <1>4 DEF Loading, RollBackOne, ReloadDone, Persist, Saved
<1>5. CASE Joining
  BY <1>5
     DEF Joining, JoinConnected, JoinRefused, JoinRetry, JoinExhausted,
         NextCredential, CredsClearAll, Persist, Saved
<1>6. CASE ApTick
  BY <1>6 DEF ApTick, ApWaitsBackoff, ApStart, ApStartFails, ApPoll
<1>7. CASE ApAccept \/ ApNoClient \/ ApReceive \/ ApConnClosed \/ ApTimeouts
  BY <1>7
     DEF ApAccept, AcceptResets, ApNoClient, ApReceive, ApConnClosed,
         ApTimeouts, ServerStop
<1>8. CASE ApRx
  BY <1>8
     DEF ApRx, FrameIgnored, AuthSucceeds, AuthFails, CountFail, ConfigFails,
         ConfigSaved, ConfigNotSaved, CloseAp, Takes, ServerStop, Saved,
         NvsRead, NvsUnreadable
<1>9. CASE ApCheck
  BY <1>9
     DEF ApCheck, ApClosedEarly, ApCompleted, ApCompletedWrongWifi,
         ApIdleTimeout, ApNextRound, StopIfHandoff, ServerStop, ListenLeft,
         HandoffFires, WifiValid, Reprovision, CredsClearAll, Persist, Saved
<1>10. CASE WifiLost \/ WifiWrong \/ RollBack
  BY <1>10
     DEF WifiLost, WifiWrong, RollBack, WifiValid, Reprovision, CredsClearAll,
         Persist, Saved
<1>11. CASE \/ HostFound \/ Connected \/ ConnectFails \/ BackToDiscovery
            \/ SessionLost
  BY <1>11
     DEF HostFound, Connected, SessionEntered, ConnectFails, BackToDiscovery,
         SessionLost, OnlineStep, WifiValid
<1>12. CASE SessionRound
  <2>1. active' = active /\ active \in 1..Len(creds) /\ creds \in CredLists
    BY <1>12 DEF SessionRound, OnlineStep, WifiValid
  <2>2. creds' = creds \/ creds' = Confirm(creds, active)
    BY <1>12 DEF SessionRound, ConfirmOnAck
  <2>3. Len(creds') = Len(creds)
    BY <2>1, <2>2, ConfirmFacts
  <2> QED
    BY <2>1, <2>3
<1>13. CASE Clock
  BY <1>13 DEF Clock, WindowElapses, HandoffElapses, BackoffElapses
<1>14. CASE WifiChanges
  BY <1>14 DEF WifiChanges
<1>15. CASE UNCHANGED vars
  BY <1>15 DEF vars
<1> QED
  BY <1>1, <1>2, <1>3, <1>4, <1>5, <1>6, <1>7, <1>8, <1>9, <1>10, <1>11,
     <1>12, <1>13, <1>14, <1>15
     DEF Next, Device, Provisioning, OnlineNext

\* An acknowledgement that is remembered came over the active entry.
LEMMA AckKept == DeviceInv /\ [Next]_vars => AckIsForActive'
<1> SUFFICES ASSUME DeviceInv, [Next]_vars PROVE AckIsForActive'
  OBVIOUS
<1> USE DEF AckIsForActive, DeviceInv, StepFollowsState, Online,
        InAp, Tick, KeepAp, KeepCreds, KeepSession, apVars, nvsVars,
        credVars, sessVars
<1>1. CASE PowerOn
  BY <1>1 DEF PowerOn, NvsRead, NvsUnreadable
<1>2. CASE Crash
  BY <1>2 DEF Crash
<1>3. CASE Boot
  BY <1>3 DEF Boot
<1>4. CASE Loading
  BY <1>4 DEF Loading, RollBackOne, ReloadDone, Persist, Saved
<1>5. CASE Joining
  BY <1>5
     DEF Joining, JoinConnected, JoinRefused, JoinRetry, JoinExhausted,
         NextCredential, CredsClearAll, Persist, Saved
<1>6. CASE ApTick
  BY <1>6 DEF ApTick, ApWaitsBackoff, ApStart, ApStartFails, ApPoll
<1>7. CASE ApAccept \/ ApNoClient \/ ApReceive \/ ApConnClosed \/ ApTimeouts
  BY <1>7
     DEF ApAccept, AcceptResets, ApNoClient, ApReceive, ApConnClosed,
         ApTimeouts, ServerStop
<1>8. CASE ApRx
  BY <1>8
     DEF ApRx, FrameIgnored, AuthSucceeds, AuthFails, CountFail, ConfigFails,
         ConfigSaved, ConfigNotSaved, CloseAp, Takes, ServerStop, Saved,
         NvsRead, NvsUnreadable
<1>9. CASE ApCheck
  BY <1>9
     DEF ApCheck, ApClosedEarly, ApCompleted, ApCompletedWrongWifi,
         ApIdleTimeout, ApNextRound, StopIfHandoff, ServerStop, ListenLeft,
         HandoffFires, WifiValid, Reprovision, CredsClearAll, Persist, Saved
<1>10. CASE WifiLost \/ WifiWrong \/ RollBack
  BY <1>10
     DEF WifiLost, WifiWrong, RollBack, WifiValid, Reprovision, CredsClearAll,
         Persist, Saved
<1>11. CASE \/ HostFound \/ Connected \/ ConnectFails \/ BackToDiscovery
            \/ SessionLost
  BY <1>11
     DEF HostFound, Connected, SessionEntered, ConnectFails, BackToDiscovery,
         SessionLost, OnlineStep
<1>12. CASE SessionRound
  <2>1. active' = active /\ active \in 1..Len(creds) /\ creds \in CredLists
    BY <1>12 DEF SessionRound, OnlineStep, WifiValid, TypeOK
  <2>2. creds' = creds \/ creds' = Confirm(creds, active)
    BY <1>12 DEF SessionRound, ConfirmOnAck
  <2>3. creds'[active].net = creds[active].net
    BY <2>1, <2>2, ConfirmFacts
  <2>4. ackOk' => creds[active].net \in acked'
    BY <1>12 DEF SessionRound, OnlineStep
  <2> QED
    BY <2>1, <2>3, <2>4
<1>13. CASE Clock
  <2>1. CASE WindowElapses
    BY <2>1 DEF WindowElapses
  <2>2. CASE HandoffElapses
    BY <2>2 DEF HandoffElapses
  <2>3. CASE BackoffElapses
    BY <2>3 DEF BackoffElapses
  <2> QED
    BY <1>13, <2>1, <2>2, <2>3 DEF Clock
<1>14. CASE WifiChanges
  BY <1>14 DEF WifiChanges
<1>15. CASE UNCHANGED vars
  BY <1>15 DEF vars
<1> QED
  BY <1>1, <1>2, <1>3, <1>4, <1>5, <1>6, <1>7, <1>8, <1>9, <1>10, <1>11,
     <1>12, <1>13, <1>14, <1>15
     DEF Next, Device, Provisioning, OnlineNext


(***************************************************************************)
(* TypeOK in parts, apart from the lists, which are done.  Flags and       *)
(* numbers are proved apart because they need different provers.           *)
(***************************************************************************)
NamesOK ==
    /\ state \in States /\ pc \in Steps
    /\ confirmDl \in Deadlines /\ handoff \in Deadlines

FlagsOK ==
    /\ sock \in BOOLEAN /\ ackOk \in BOOLEAN /\ confirmDone \in BOOLEAN
    /\ backoff \in BOOLEAN /\ unsaved \in BOOLEAN
    /\ apListen \in BOOLEAN /\ apConn \in BOOLEAN /\ pinLive \in BOOLEAN
    /\ authOk \in BOOLEAN /\ wifiOk \in BOOLEAN /\ connAuthed \in BOOLEAN

NumbersOK ==
    /\ active \in 1..CredMax
    /\ retry \in 0..(RetryMax - 1)
    /\ pinFails \in 0..PinMax

DataOK ==
    /\ sta \in Ssids \cup {NoSsid}
    /\ rx \in Seq(Frames)
    /\ acked \subseteq Nets

\* Every step keeps the state, the step and the deadlines among their values.
LEMMA NamesKept == DeviceInv /\ [Next]_vars => NamesOK'
<1> SUFFICES ASSUME DeviceInv, [Next]_vars PROVE NamesOK'
  OBVIOUS
<1> USE DEF DeviceInv, TypeOK, NamesOK, States, Steps, Deadlines,
        InAp, Tick, KeepAp, KeepCreds, KeepSession, apVars, nvsVars,
        credVars, sessVars
<1>1. CASE PowerOn
  BY <1>1 DEF PowerOn, NvsRead, NvsUnreadable
<1>2. CASE Crash
  BY <1>2 DEF Crash
<1>3. CASE Boot
  BY <1>3 DEF Boot
<1>4. CASE Loading
  BY <1>4 DEF Loading, RollBackOne, ReloadDone, Persist, Saved
<1>5. CASE Joining
  BY <1>5
     DEF Joining, JoinConnected, JoinRefused, JoinRetry, JoinExhausted,
         NextCredential, CredsClearAll, Persist, Saved
<1>6. CASE ApTick
  BY <1>6 DEF ApTick, ApWaitsBackoff, ApStart, ApStartFails, ApPoll
<1>7. CASE ApAccept \/ ApNoClient \/ ApReceive \/ ApConnClosed \/ ApTimeouts
  BY <1>7
     DEF ApAccept, AcceptResets, ApNoClient, ApReceive, ApConnClosed,
         ApTimeouts, ServerStop
<1>8. CASE ApRx
  BY <1>8
     DEF ApRx, FrameIgnored, AuthSucceeds, AuthFails, CountFail, ConfigFails,
         ConfigSaved, ConfigNotSaved, CloseAp, Takes, ServerStop, Saved,
         NvsRead, NvsUnreadable
<1>9. CASE ApCheck
  BY <1>9
     DEF ApCheck, ApClosedEarly, ApCompleted, ApCompletedWrongWifi,
         ApIdleTimeout, ApNextRound, StopIfHandoff, ServerStop, ListenLeft,
         HandoffFires, WifiValid, Reprovision, CredsClearAll, Persist, Saved
<1>10. CASE WifiLost \/ WifiWrong \/ RollBack
  BY <1>10
     DEF WifiLost, WifiWrong, RollBack, WifiValid, Reprovision, CredsClearAll,
         Persist, Saved
<1>11. CASE \/ HostFound \/ Connected \/ ConnectFails \/ BackToDiscovery
            \/ SessionLost
  BY <1>11
     DEF HostFound, Connected, SessionEntered, ConnectFails, BackToDiscovery,
         SessionLost, OnlineStep, WifiValid
<1>12. CASE SessionRound
  BY <1>12 DEF SessionRound, ConfirmOnAck, OnlineStep, WifiValid, Saved
<1>13. CASE Clock
  BY <1>13 DEF Clock, WindowElapses, HandoffElapses, BackoffElapses
<1>14. CASE WifiChanges
  BY <1>14 DEF WifiChanges
<1>15. CASE UNCHANGED vars
  BY <1>15 DEF vars
<1> QED
  BY <1>1, <1>2, <1>3, <1>4, <1>5, <1>6, <1>7, <1>8, <1>9, <1>10, <1>11,
     <1>12, <1>13, <1>14, <1>15
     DEF Next, Device, Provisioning, OnlineNext

\* Every action assigns truth values to the flags.
LEMMA FlagsKept == DeviceInv /\ [Next]_vars => FlagsOK'
<1> SUFFICES ASSUME DeviceInv, [Next]_vars PROVE FlagsOK'
  OBVIOUS
<1> USE DEF DeviceInv, TypeOK, FlagsOK,
        InAp, Tick, KeepAp, KeepCreds, KeepSession, apVars, nvsVars,
        credVars, sessVars
<1>1. CASE PowerOn
  BY <1>1 DEF PowerOn, NvsRead, NvsUnreadable
<1>2. CASE Crash
  BY <1>2 DEF Crash
<1>3. CASE Boot
  BY <1>3 DEF Boot
<1>4. CASE RollBackOne
  BY <1>4 DEF RollBackOne, ActiveAfterRemove
<1>5. CASE ReloadDone
  BY <1>5 DEF ReloadDone, Persist, Saved
<1>6. CASE JoinConnected
  BY <1>6 DEF JoinConnected
<1>7. CASE JoinRefused
  BY <1>7 DEF JoinRefused, NextCredential, CredsClearAll, Persist, Saved
<1>8. CASE JoinRetry
  BY <1>8 DEF JoinRetry
<1>9. CASE JoinExhausted
  BY <1>9 DEF JoinExhausted, NextCredential, CredsClearAll, Persist, Saved
<1>10. CASE ApWaitsBackoff
  BY <1>10 DEF ApWaitsBackoff
<1>11. CASE ApStart
  BY <1>11 DEF ApStart
<1>12. CASE ApStartFails
  BY <1>12 DEF ApStartFails
<1>13. CASE ApPoll
  BY <1>13 DEF ApPoll
<1>14. CASE ApAccept
  BY <1>14 DEF ApAccept, AcceptResets
<1>15. CASE ApNoClient
  BY <1>15 DEF ApNoClient
<1>16. CASE ApReceive
  BY <1>16 DEF ApReceive
<1>17. CASE ApConnClosed
  BY <1>17 DEF ApConnClosed, ServerStop
<1>18. CASE ApTimeouts
  BY <1>18, ZenonT(30) DEF ApTimeouts
<1>19. CASE FrameIgnored
  BY <1>19 DEF FrameIgnored
<1>20. CASE AuthSucceeds
  BY <1>20 DEF AuthSucceeds, Takes
<1>21. CASE AuthFails
  BY <1>21 DEF AuthFails, CountFail, Takes
<1>22. CASE ConfigFails
  BY <1>22 DEF ConfigFails, Takes
<1>23. CASE ConfigSaved
  BY <1>23 DEF ConfigSaved, Takes, Saved
<1>24. CASE ConfigNotSaved
  BY <1>24 DEF ConfigNotSaved, Takes, NvsRead, NvsUnreadable
<1>25. CASE CloseAp
  BY <1>25 DEF CloseAp, Takes, ServerStop
<1>26. CASE ApClosedEarly
  BY <1>26 DEF ApClosedEarly
<1>27. CASE ApCompleted
  BY <1>27 DEF ApCompleted, StopIfHandoff, ServerStop
<1>28. CASE ApCompletedWrongWifi
  BY <1>28
     DEF ApCompletedWrongWifi, StopIfHandoff, ServerStop, Reprovision,
         CredsClearAll, Persist, Saved
<1>29. CASE ApIdleTimeout
  BY <1>29 DEF ApIdleTimeout, ServerStop
<1>30. CASE ApNextRound
  BY <1>30 DEF ApNextRound, StopIfHandoff, ServerStop
<1>31. CASE WifiLost
  BY <1>31 DEF WifiLost
<1>32. CASE WifiWrong
  BY <1>32 DEF WifiWrong, Reprovision, CredsClearAll, Persist, Saved
<1>33. CASE RollBack
  BY <1>33 DEF RollBack, Persist, Saved
<1>34. CASE HostFound
  BY <1>34 DEF HostFound
<1>35. CASE Connected
  BY <1>35 DEF Connected, SessionEntered
<1>36. CASE ConnectFails
  BY <1>36 DEF ConnectFails
<1>37. CASE BackToDiscovery
  BY <1>37 DEF BackToDiscovery
<1>38. CASE SessionLost
  BY <1>38 DEF SessionLost
<1>39. CASE SessionRound
  BY <1>39 DEF SessionRound, ConfirmOnAck, Saved
<1>40. CASE WindowElapses
  BY <1>40 DEF WindowElapses
<1>41. CASE HandoffElapses
  BY <1>41 DEF HandoffElapses
<1>42. CASE BackoffElapses
  BY <1>42 DEF BackoffElapses
<1>43. CASE WifiChanges
  BY <1>43 DEF WifiChanges
<1>44. CASE UNCHANGED vars
  BY <1>44 DEF vars
<1> QED
  BY <1>1, <1>2, <1>3, <1>4, <1>5, <1>6, <1>7, <1>8, <1>9, <1>10, <1>11,
     <1>12, <1>13, <1>14, <1>15, <1>16, <1>17, <1>18, <1>19, <1>20, <1>21,
     <1>22, <1>23, <1>24, <1>25, <1>26, <1>27, <1>28, <1>29, <1>30, <1>31,
     <1>32, <1>33, <1>34, <1>35, <1>36, <1>37, <1>38, <1>39, <1>40, <1>41,
     <1>42, <1>43, <1>44
     DEF Next, Device, Provisioning, ApTick, ApRx, ApCheck, Joining,
         OnlineNext, Loading, Clock

\* Entry, retry count and PIN count stay within their limits.
LEMMA NumbersKept == DeviceInv /\ [Next]_vars => NumbersOK'
<1> SUFFICES ASSUME DeviceInv, [Next]_vars PROVE NumbersOK'
  OBVIOUS
<1>a. NumbersOK /\ Len(creds) \in Nat /\ Len(creds) <= CredMax
  BY DEF DeviceInv, TypeOK, NumbersOK, CredLists
<1>b. /\ state = "STA_JOIN" \/ state \in Online => active \in 1..Len(creds)
      /\ state \in Online => pc # "load"
  BY DEF DeviceInv, JoinUsesACredential, StepFollowsState, Online
<1> USE DeviceAssumption, CredMaxAssumption DEF NumbersOK, InAp, Tick, KeepAp,
        KeepCreds, KeepSession, apVars, nvsVars, credVars, sessVars
<1>1. CASE PowerOn \/ Crash \/ Boot
  BY <1>1, <1>a, <1>b DEF PowerOn, Crash, Boot
<1>2. CASE RollBackOne
  BY <1>2, <1>a, <1>b DEF RollBackOne, ActiveAfterRemove
<1>3. CASE ReloadDone
  BY <1>3, <1>a, <1>b DEF ReloadDone
<1>4. CASE JoinConnected
  BY <1>4, <1>a, <1>b DEF JoinConnected
<1>5. CASE JoinRefused
  BY <1>5, <1>a, <1>b DEF JoinRefused, NextCredential, CredsClearAll
<1>6. CASE JoinRetry
  BY <1>6, <1>a, <1>b DEF JoinRetry
<1>7. CASE JoinExhausted
  BY <1>7, <1>a, <1>b DEF JoinExhausted, NextCredential, CredsClearAll
<1>8. CASE ApStart
  BY <1>8, <1>a, <1>b DEF ApStart
<1>9. CASE AuthFails
  BY <1>9, <1>a, <1>b DEF AuthFails, CountFail, Takes
<1>10. CASE ConfigSaved
  BY <1>10, <1>a, <1>b DEF ConfigSaved, Takes
<1>11. CASE ConfigNotSaved
  BY <1>11, <1>a, <1>b DEF ConfigNotSaved, Takes
<1>12. CASE ApCompletedWrongWifi
  BY <1>12, <1>a, <1>b DEF ApCompletedWrongWifi, Reprovision, CredsClearAll
<1>13. CASE WifiLost
  BY <1>13, <1>a, <1>b DEF WifiLost
<1>14. CASE WifiWrong
  BY <1>14, <1>a, <1>b DEF WifiWrong, Reprovision, CredsClearAll
<1>15. CASE RollBack
  BY <1>15, <1>a, <1>b DEF RollBack
<1>16. CASE \/ ApWaitsBackoff \/ ApStartFails \/ ApPoll \/ ApAccept
            \/ ApNoClient \/ ApReceive \/ ApConnClosed \/ ApTimeouts
            \/ FrameIgnored \/ AuthSucceeds \/ ConfigFails \/ CloseAp
            \/ ApClosedEarly \/ ApCompleted \/ ApIdleTimeout \/ ApNextRound
  BY <1>16, <1>a, <1>b
     DEF ApWaitsBackoff, ApStartFails, ApPoll, ApAccept, ApNoClient,
         ApReceive, ApConnClosed, ApTimeouts, FrameIgnored, AuthSucceeds,
         Takes, ConfigFails, CloseAp, ApClosedEarly, ApCompleted,
         ApIdleTimeout, ApNextRound
<1>17. CASE \/ HostFound \/ Connected \/ ConnectFails \/ BackToDiscovery
            \/ SessionLost \/ SessionRound \/ WindowElapses \/ HandoffElapses
            \/ BackoffElapses \/ WifiChanges \/ UNCHANGED vars
  BY <1>17, <1>a, <1>b
     DEF HostFound, Connected, ConnectFails, BackToDiscovery, SessionLost,
         SessionRound, WindowElapses, HandoffElapses, BackoffElapses,
         WifiChanges, vars
<1> QED
  BY <1>1, <1>2, <1>3, <1>4, <1>5, <1>6, <1>7, <1>8, <1>9, <1>10, <1>11,
     <1>12, <1>13, <1>14, <1>15, <1>16, <1>17
     DEF Next, Device, Provisioning, ApTick, ApRx, ApCheck, Joining,
         OnlineNext, Loading, Clock

\* The active entry names a network and its SSID.
LEMMA ActiveEntry ==
    ASSUME creds \in CredLists, active \in 1..Len(creds)
    PROVE  /\ creds[active].net \in Nets
           /\ SsidOf[creds[active].net] \in Ssids
<1>1. creds[active] \in Cred
  BY DEF CredLists
<1> QED
  BY <1>1 DEF Cred, Ssids

\* What a receive delivers is a sequence of frames, and taking the first one
\* leaves a sequence of frames; a wifi_config names a network.
LEMMA FrameFacts ==
    /\ \A b \in Bursts : b \in Seq(Frames)
    /\ <<>> \in Seq(Frames)
    /\ \A s \in Seq(Frames) : s # <<>> =>
        /\ Tail(s) \in Seq(Frames)
        /\ Head(s).cmd = "wifi_config" =>
             Head(s).net \in Nets /\ SsidOf[Head(s).net] \in Ssids
<1>1. \A b \in Bursts : b \in Seq(Frames)
  BY DeviceAssumption DEF Bursts
<1>2. ASSUME NEW s \in Seq(Frames), s # <<>>
      PROVE  /\ Tail(s) \in Seq(Frames)
             /\ Head(s).cmd = "wifi_config" =>
                  Head(s).net \in Nets /\ SsidOf[Head(s).net] \in Ssids
  <2>1. Head(s) \in Frames /\ Tail(s) \in Seq(Frames)
    BY <1>2
  <2>2. ASSUME NEW f \in Frames, f.cmd = "wifi_config"
        PROVE  f.net \in Nets /\ SsidOf[f.net] \in Ssids
    BY <2>2 DEF Frames, Ssids
  <2> QED
    BY <2>1, <2>2
<1> QED
  BY <1>1, <1>2

\* What comes from the lists, the radio and the client keeps its type.
LEMMA DataKept == DeviceInv /\ [Next]_vars => DataOK'
<1> SUFFICES ASSUME DeviceInv, [Next]_vars PROVE DataOK'
  OBVIOUS
<1>a. DataOK /\ creds \in CredLists
  BY DEF DeviceInv, TypeOK, DataOK
<1>b. state = "STA_JOIN" \/ WifiValid => active \in 1..Len(creds)
  BY DEF DeviceInv, JoinUsesACredential, WifiValid
<1> USE DEF DataOK, InAp, Tick, KeepAp, KeepCreds, KeepSession, apVars,
        nvsVars, credVars, sessVars
<1>1. CASE PowerOn \/ Crash \/ Boot
  BY <1>1, <1>a, FrameFacts DEF PowerOn, NvsRead, NvsUnreadable, Crash, Boot
<1>2. CASE RollBackOne \/ ReloadDone
  BY <1>2, <1>a DEF RollBackOne, ReloadDone
<1>3. CASE JoinConnected
  BY <1>3, <1>a, <1>b, ActiveEntry DEF JoinConnected
<1>4. CASE JoinRefused \/ JoinRetry \/ JoinExhausted
  BY <1>4, <1>a DEF JoinRefused, JoinRetry, JoinExhausted
<1>5. CASE ApTick
  BY <1>5, <1>a, FrameFacts
     DEF ApTick, ApWaitsBackoff, ApStart, ApStartFails, ApPoll
<1>6. CASE ApAccept \/ ApNoClient \/ ApReceive \/ ApConnClosed \/ ApTimeouts
  BY <1>6, <1>a, FrameFacts
     DEF ApAccept, ApNoClient, ApReceive, ApConnClosed, ApTimeouts
<1>7. CASE FrameIgnored \/ AuthSucceeds \/ AuthFails \/ ConfigFails \/ CloseAp
  BY <1>7, <1>a, FrameFacts
     DEF FrameIgnored, AuthSucceeds, AuthFails, ConfigFails, CloseAp, Takes
<1>8. CASE ConfigSaved \/ ConfigNotSaved
  BY <1>8, <1>a, FrameFacts DEF ConfigSaved, ConfigNotSaved, Takes
<1>9. CASE ApCheck
  BY <1>9, <1>a, FrameFacts
     DEF ApCheck, ApClosedEarly, ApCompleted, ApCompletedWrongWifi,
               ApIdleTimeout, ApNextRound, Reprovision
<1>10. CASE WifiLost \/ WifiWrong \/ RollBack
  BY <1>10, <1>a DEF WifiLost, WifiWrong, RollBack, Reprovision
<1>11. CASE \/ HostFound \/ Connected \/ ConnectFails \/ BackToDiscovery
            \/ SessionLost
  BY <1>11, <1>a
     DEF HostFound, Connected, SessionEntered, ConnectFails, BackToDiscovery,
               SessionLost
<1>12. CASE SessionRound
  <2>1. creds[active].net \in Nets
    BY <1>12, <1>a, <1>b, ActiveEntry DEF SessionRound, OnlineStep
  <2>2. acked' \subseteq acked \cup {creds[active].net}
    BY <1>12 DEF SessionRound
  <2>3. UNCHANGED <<sta, rx>>
    BY <1>12 DEF SessionRound
  <2> QED
    BY <1>a, <2>1, <2>2, <2>3
<1>13. CASE Clock
  BY <1>13, <1>a DEF Clock, WindowElapses, HandoffElapses, BackoffElapses
<1>14. CASE WifiChanges
  BY <1>14, <1>a DEF WifiChanges
<1>15. CASE UNCHANGED vars
  BY <1>15, <1>a DEF vars
<1> QED
  BY <1>1, <1>2, <1>3, <1>4, <1>5, <1>6, <1>7, <1>8, <1>9, <1>10, <1>11,
     <1>12, <1>13, <1>14, <1>15
     DEF Next, Device, Provisioning, ApRx, Joining, OnlineNext, Loading

-----------------------------------------------------------------------------
\* A device without power, with an empty NVS, satisfies the invariant ...
LEMMA DeviceInit == Init => DeviceInv
<1> SUFFICES ASSUME Init PROVE DeviceInv
  OBVIOUS
<1>1. TypeOK
  <2>1. NamesOK /\ FlagsOK /\ DataOK
    BY FrameFacts DEF Init, NamesOK, FlagsOK, DataOK, States, Steps, Deadlines
  <2>2. NumbersOK
    BY DeviceAssumption, CredMaxAssumption DEF Init, NumbersOK
  <2>3. creds \in CredLists /\ nvs \in CredLists
    BY EmptyList DEF Init
  <2> QED
    BY <2>1, <2>2, <2>3 DEF TypeOK, NamesOK, FlagsOK, DataOK, NumbersOK
<1>2. StepFollowsState /\ ClientNeedsHotspot /\ AckIsForActive
  BY DEF Init, StepFollowsState, ClientNeedsHotspot, AckIsForActive
<1>3. JoinUsesACredential /\ SocketsFollowState /\ MemoryMatchesFlash
  BY
     DEF Init, JoinUsesACredential, SocketsFollowState, MemoryMatchesFlash,
         Online
<1>4. ConfirmedWasAcked /\ OneEntryPerNetwork
  BY EmptyList DEF Init, ConfirmedWasAcked, OneEntryPerNetwork
<1>5. OnlyTheAuthenticatedConfigures
  BY DEF Init, OnlyTheAuthenticatedConfigures
<1> QED
  BY <1>1, <1>2, <1>3, <1>4, <1>5 DEF DeviceInv

\* ... and every step of device, clock, radio and power supply keeps it.
LEMMA DeviceStep == DeviceInv /\ [Next]_vars => DeviceInv'
<1> SUFFICES ASSUME DeviceInv, [Next]_vars PROVE DeviceInv'
  OBVIOUS
<1>1. /\ creds' \in CredLists /\ nvs' \in CredLists
      /\ OneEntryPerNetwork' /\ ConfirmedWasAcked'
  BY ListsMove, ListsKept
<1>2. NamesOK' /\ FlagsOK' /\ NumbersOK' /\ DataOK'
  BY NamesKept, FlagsKept, NumbersKept, DataKept
<1>3. TypeOK'
  BY <1>1, <1>2 DEF TypeOK, NamesOK, FlagsOK, DataOK, NumbersOK
<1>4. (StepFollowsState /\ ClientNeedsHotspot /\ SocketsFollowState)'
  BY PlacesKept
<1>5. MemoryMatchesFlash' /\ OnlyTheAuthenticatedConfigures'
  BY FlashKept, AuthKept
<1>6. JoinUsesACredential' /\ AckIsForActive'
  BY IndexKept, AckKept
<1> QED
  BY <1>1, <1>3, <1>4, <1>5, <1>6 DEF DeviceInv

\* The invariant holds in every reachable state of device_app.c with
\* device_provision.c, for any networks and any limits.
THEOREM DeviceInvariant == Spec => []DeviceInv
  BY DeviceInit, DeviceStep, PTL DEF Spec

\* Every field of the device keeps its type.
THEOREM DeviceTypeOK == Spec => []TypeOK
<1>1. DeviceInv => TypeOK
  BY DEF DeviceInv
<1> QED
  BY <1>1, DeviceInvariant, PTL

\* sm_sta_join and the online states never index the credential list outside
\* its entries.
THEOREM DeviceIndexInBounds == Spec => []JoinUsesACredential
<1>1. DeviceInv => JoinUsesACredential
  BY DEF DeviceInv
<1> QED
  BY <1>1, DeviceInvariant, PTL

\* No state of device_app.c is left with its socket open.
THEOREM DeviceSockets == Spec => []SocketsFollowState
<1>1. DeviceInv => SocketsFollowState
  BY DEF DeviceInv
<1> QED
  BY <1>1, DeviceInvariant, PTL

\* Neither crash, rollback, fallback nor NVS failure ever marks a credential
\* confirmed that no host acknowledged.
THEOREM DeviceConfirmation == Spec => []ConfirmedWasAcked
<1>1. DeviceInv => ConfirmedWasAcked
  BY DEF DeviceInv
<1> QED
  BY <1>1, DeviceInvariant, PTL

\* The in-place shifts of wifi_config, rollback and reload never put a
\* network into the list twice.
THEOREM DeviceOneEntry == Spec => []OneEntryPerNetwork
<1>1. DeviceInv => OneEntryPerNetwork
  BY DEF DeviceInv
<1> QED
  BY <1>1, DeviceInvariant, PTL

\* Memory and NVS differ only after an NVS failure the code does not look at.
THEOREM DeviceMemoryMatchesFlash == Spec => []MemoryMatchesFlash
<1>1. DeviceInv => MemoryMatchesFlash
  BY DEF DeviceInv
<1> QED
  BY <1>1, DeviceInvariant, PTL

\* A client that replaced the authenticated one is never taken for it.
THEOREM DeviceAuthentication == Spec => []OnlyTheAuthenticatedConfigures
<1>1. DeviceInv => OnlyTheAuthenticatedConfigures
  BY DEF DeviceInv
<1> QED
  BY <1>1, DeviceInvariant, PTL

\* A step into the provisioning state leaves no credential.
LEMMA HotspotStep ==
    DeviceInv /\ [Next]_vars
        => (state # "AP_PROVISION" /\ state' = "AP_PROVISION" => creds' = <<>>)
<1> SUFFICES ASSUME DeviceInv, [Next]_vars
             PROVE  (state # "AP_PROVISION" /\ state' = "AP_PROVISION"
                        => creds' = <<>>)
  OBVIOUS
<1> USE DEF DeviceInv, StepFollowsState, Online,
        InAp, Tick, KeepAp, KeepCreds, KeepSession, apVars, nvsVars,
        credVars, sessVars
<1>1. CASE PowerOn
  BY <1>1 DEF PowerOn, NvsRead, NvsUnreadable
<1>2. CASE Crash
  BY <1>2 DEF Crash
<1>3. CASE Boot
  BY <1>3 DEF Boot
<1>4. CASE Loading
  BY <1>4 DEF Loading, RollBackOne, ReloadDone, Persist, Saved
<1>5. CASE Joining
  BY <1>5
     DEF Joining, JoinConnected, JoinRefused, JoinRetry, JoinExhausted,
         NextCredential, CredsClearAll, Persist, Saved
<1>6. CASE ApTick
  BY <1>6 DEF ApTick, ApWaitsBackoff, ApStart, ApStartFails, ApPoll
<1>7. CASE ApAccept \/ ApNoClient \/ ApReceive \/ ApConnClosed \/ ApTimeouts
  BY <1>7
     DEF ApAccept, AcceptResets, ApNoClient, ApReceive, ApConnClosed,
         ApTimeouts, ServerStop
<1>8. CASE ApRx
  BY <1>8
     DEF ApRx, FrameIgnored, AuthSucceeds, AuthFails, CountFail, ConfigFails,
         ConfigSaved, ConfigNotSaved, CloseAp, Takes, ServerStop, Saved,
         NvsRead, NvsUnreadable
<1>9. CASE ApCheck
  BY <1>9
     DEF ApCheck, ApClosedEarly, ApCompleted, ApCompletedWrongWifi,
         ApIdleTimeout, ApNextRound, StopIfHandoff, ServerStop, ListenLeft,
         HandoffFires, WifiValid, Reprovision, CredsClearAll, Persist, Saved
<1>10. CASE WifiLost \/ WifiWrong \/ RollBack
  BY <1>10
     DEF WifiLost, WifiWrong, RollBack, WifiValid, Reprovision, CredsClearAll,
         Persist, Saved
<1>11. CASE \/ HostFound \/ Connected \/ ConnectFails \/ BackToDiscovery
            \/ SessionLost
  BY <1>11
     DEF HostFound, Connected, SessionEntered, ConnectFails, BackToDiscovery,
         SessionLost, OnlineStep, WifiValid
<1>12. CASE SessionRound
  BY <1>12 DEF SessionRound, ConfirmOnAck, OnlineStep, WifiValid, Saved
<1>13. CASE Clock
  BY <1>13 DEF Clock, WindowElapses, HandoffElapses, BackoffElapses
<1>14. CASE WifiChanges
  BY <1>14 DEF WifiChanges
<1>15. CASE UNCHANGED vars
  BY <1>15 DEF vars
<1> QED
  BY <1>1, <1>2, <1>3, <1>4, <1>5, <1>6, <1>7, <1>8, <1>9, <1>10, <1>11,
     <1>12, <1>13, <1>14, <1>15
     DEF Next, Device, Provisioning, OnlineNext

\* device_app.c opens the hotspot only when no credential is left.
THEOREM DeviceHotspot == Spec => HotspotMeansNoCredential
  BY DeviceInvariant, HotspotStep, PTL DEF Spec, HotspotMeansNoCredential
=============================================================================
