-------------------------- MODULE HostServerProofs --------------------------
(***************************************************************************)
(* Proofs about the host's TCP server, for any devices, handles, limits    *)
(* and numbers of sessions.                                                *)
(*                                                                         *)
(* Every step does one of four things to the connections: it leaves them   *)
(* as they are, closes some, accepts one, or registers one.  One lemma for *)
(* each carries the invariant over; the rest is the place Poll is at.      *)
(***************************************************************************)
EXTENDS HostServer, FiniteSetTheorems, SequenceTheorems, TLAPS

\* Device d is online over handle h.
Holds(d, h) == entry[d] # None /\ entry[d].online /\ entry[d].conn = h

ShapeTypes ==
    /\ pending \in [Handles -> PendingConn \cup {None}]
    /\ entry \in [Ids -> DeviceEntry \cup {None}]
    /\ open \subseteq Handles
    /\ nextSid \in Nat \ {0}

\* SocketsOwned, handle by handle.
Owned ==
    /\ \A h \in Handles :
           h \in open <=> (pending[h] # None \/ \E d \in Ids : Holds(d, h))
    /\ \A h \in Handles, d \in Ids : ~(pending[h] # None /\ Holds(d, h))
    /\ \A h \in Handles, c, d \in Ids : Holds(c, h) /\ Holds(d, h) => c = d

\* A session id in the registry has been given out.
SidsGiven == \A d \in Registered : entry[d].sid < nextSid

Shape ==
    /\ ShapeTypes
    /\ Owned
    /\ OnlineMeansConnected
    /\ SidsGiven
    /\ SessionsAreSeparate
    /\ CapacityKept

\* What Poll has yet to serve exists.
TodoKnown ==
    /\ phase = "pending" => todo \subseteq Pending
    /\ phase = "online" => todo \subseteq Online

ServerInv == Shape /\ TodoKnown

-----------------------------------------------------------------------------
\* Sets of sockets and of devices are finite.
LEMMA Finite ==
    ASSUME NEW S \in SUBSET Handles, NEW T \in SUBSET Ids
    PROVE  /\ IsFiniteSet(S) /\ Cardinality(S) \in Nat
           /\ IsFiniteSet(T) /\ Cardinality(T) \in Nat
<1>1. IsFiniteSet(S) /\ IsFiniteSet(T)
  BY FS_Subset, HostAssumption
<1> QED BY <1>1, FS_CardinalityType

\* A device that is online has an entry with a connection.
LEMMA OnlineHolds ==
    ASSUME Shape, NEW d \in Online
    PROVE  /\ d \in Ids /\ entry[d] \in DeviceEntry /\ entry[d].online
           /\ entry[d].conn \in open /\ Holds(d, entry[d].conn)
           /\ entry[d].conn \in Handles /\ pending[entry[d].conn] = None
<1>1. d \in Ids /\ entry[d] \in DeviceEntry /\ entry[d].online
  BY DEF Shape, ShapeTypes, Online, Registered
<1>2. entry[d].conn \in Handles
  BY <1>1, NoneAssumption DEF Shape, OnlineMeansConnected, Online, DeviceEntry
<1>3. Holds(d, entry[d].conn)
  BY <1>1, NoneAssumption DEF Holds
<1> QED BY <1>1, <1>2, <1>3 DEF Shape, Owned

\* Nothing opened, closed or registered.
LEMMA ShapeSame ==
    ASSUME Shape, open' = open, nextSid' = nextSid,
           pending' \in [Handles -> PendingConn \cup {None}],
           \A h \in Handles : pending'[h] # None <=> pending[h] # None,
           entry' \in [Ids -> DeviceEntry \cup {None}],
           \A d \in Ids :
               /\ entry'[d] # None <=> entry[d] # None
               /\ entry[d] # None =>
                      /\ entry'[d].online = entry[d].online
                      /\ entry'[d].conn = entry[d].conn
                      /\ entry'[d].sid = entry[d].sid
    PROVE  Shape' /\ Pending' = Pending /\ Online' = Online
<1>1. Pending' = Pending /\ Registered' = Registered /\ Online' = Online
  BY DEF Pending, Registered, Online
<1>2. \A d \in Ids, h \in Handles : Holds(d, h)' <=> Holds(d, h)
  BY DEF Holds
<1>3. ShapeTypes'
  BY DEF Shape, ShapeTypes
<1>4. Owned'
  BY <1>2 DEF Shape, Owned
<1>5. OnlineMeansConnected' /\ SidsGiven' /\ SessionsAreSeparate'
  BY <1>1 DEF Shape, OnlineMeansConnected, SidsGiven, SessionsAreSeparate, Registered
<1>6. CapacityKept'
  BY <1>1 DEF Shape, CapacityKept
<1> QED BY <1>1, <1>3, <1>4, <1>5, <1>6 DEF Shape

\* The connections of the devices S and the unregistered ones P are closed.
LEMMA ShapeClose ==
    ASSUME Shape, NEW S \in SUBSET Online, NEW P \in SUBSET Pending,
           pending' = [h \in Handles |-> IF h \in P THEN None ELSE pending[h]],
           entry' = [d \in Ids |-> IF d \in S THEN Offline(entry[d]) ELSE entry[d]],
           open' = open \ (P \cup {entry[d].conn : d \in S}),
           nextSid' = nextSid
    PROVE  Shape' /\ Pending' = Pending \ P /\ Online' = Online \ S
<1>1. ASSUME NEW d \in S
      PROVE  /\ entry'[d] \in DeviceEntry /\ entry'[d] # None
             /\ ~entry'[d].online /\ entry'[d].conn = None
             /\ entry'[d].sid = entry[d].sid
  <2>1. d \in Ids /\ entry[d] \in DeviceEntry
    BY OnlineHolds
  <2>2. entry'[d] = Offline(entry[d])
    BY <2>1
  <2>3. entry'[d] \in DeviceEntry
    BY <2>1, <2>2 DEF Offline, DeviceEntry
  <2> QED BY <2>1, <2>2, <2>3, NoneAssumption DEF Offline, DeviceEntry
<1>2. \A d \in Ids \ S : entry'[d] = entry[d]
  OBVIOUS
<1>3. S \subseteq Ids /\ S \subseteq Registered
  BY DEF Online, Registered
<1>4. Registered' = Registered /\ Online' = Online \ S
  BY <1>1, <1>2, <1>3 DEF Registered, Online
<1>5. Pending' = Pending \ P
  BY DEF Pending
<1>6. ShapeTypes'
  <2>1. entry' \in [Ids -> DeviceEntry \cup {None}]
    BY <1>1, <1>2 DEF Shape, ShapeTypes
  <2> QED BY <2>1 DEF Shape, ShapeTypes
<1>7. Owned'
  <2>1. \A d \in Ids, h \in Handles : Holds(d, h)' <=> d \notin S /\ Holds(d, h)
    BY <1>1, <1>2 DEF Holds
  <2>2. \A h \in Handles : pending'[h] # None <=> h \notin P /\ pending[h] # None
    BY DEF Pending
  <2>3. \A h \in Handles :
            h \in open' <=> h \in open /\ h \notin P
                            /\ \A d \in S : ~Holds(d, h)
    <3>1. ASSUME NEW d \in S, NEW h \in Handles
          PROVE  Holds(d, h) <=> entry[d].conn = h
      BY OnlineHolds DEF Holds
    <3> QED BY <3>1
  <2>4. \A h \in P : pending[h] # None
    BY DEF Pending
  <2> QED BY <2>1, <2>2, <2>3, <2>4, <1>3 DEF Shape, Owned
<1>8. OnlineMeansConnected'
  BY <1>1, <1>2, <1>4 DEF Shape, OnlineMeansConnected, Registered
<1>9. SidsGiven' /\ SessionsAreSeparate'
  <2>1. \A d \in Registered : entry'[d].sid = entry[d].sid
    BY <1>1, <1>2 DEF Registered
  <2> QED BY <2>1, <1>4 DEF Shape, SidsGiven, SessionsAreSeparate
<1>10. CapacityKept'
  <2>1. Pending \in SUBSET Handles /\ Registered \in SUBSET Ids
    BY DEF Pending, Registered
  <2>2. Cardinality(Pending') <= Cardinality(Pending)
    BY <1>5, <2>1, Finite, FS_Subset
  <2>3. Cardinality(Pending') \in Nat /\ Cardinality(Pending) \in Nat
        /\ Cardinality(Registered) \in Nat
    BY <1>5, <2>1, Finite
  <2> QED BY <2>2, <2>3, <1>4, HostAssumption DEF Shape, CapacityKept
<1> QED BY <1>4, <1>5, <1>6, <1>7, <1>8, <1>9, <1>10 DEF Shape

\* A connection accepted.
LEMMA ShapeAccept ==
    ASSUME Shape, Accept
    PROVE  Shape' /\ Online' = Online /\ Pending \subseteq Pending'
<1>1. PICK h \in Handles \ open :
          /\ pending' = [pending EXCEPT ![h] = [late |-> FALSE, malformed |-> 0]]
          /\ open' = open \cup {h}
  BY DEF Accept
<1>2. entry' = entry /\ nextSid' = nextSid /\ ~Full
  BY DEF Accept
<1>3. pending[h] = None /\ \A d \in Ids : ~Holds(d, h)
  BY DEF Shape, Owned
<1>4. [late |-> FALSE, malformed |-> 0] \in PendingConn
  BY HostAssumption DEF PendingConn
<1>5. /\ pending' \in [Handles -> PendingConn \cup {None}]
      /\ pending'[h] # None
      /\ \A g \in Handles \ {h} : pending'[g] = pending[g]
  BY <1>1, <1>4, NoneAssumption DEF Shape, ShapeTypes
<1>6. Pending' = Pending \cup {h} /\ h \notin Pending
  BY <1>3, <1>5 DEF Pending
<1>7. Registered' = Registered /\ Online' = Online
  BY <1>2 DEF Registered, Online
<1>8. ShapeTypes'
  BY <1>1, <1>2, <1>5 DEF Shape, ShapeTypes
<1>9. Owned'
  <2>1. \A d \in Ids, g \in Handles : Holds(d, g)' <=> Holds(d, g)
    BY <1>2 DEF Holds
  <2> QED BY <1>1, <1>3, <1>5, <2>1 DEF Shape, Owned
<1>10. OnlineMeansConnected' /\ SidsGiven' /\ SessionsAreSeparate'
  BY <1>2, <1>7 DEF Shape, OnlineMeansConnected, SidsGiven, SessionsAreSeparate
<1>11. CapacityKept'
  <2>1. Pending \in SUBSET Handles /\ Registered \in SUBSET Ids
    BY DEF Pending, Registered
  <2>2. Cardinality(Pending') = Cardinality(Pending) + 1
    BY <1>6, <2>1, Finite, FS_AddElement
  <2>3. Cardinality(Pending) \in Nat /\ Cardinality(Registered) \in Nat
    BY <2>1, Finite
  <2> QED BY <1>2, <1>7, <2>2, <2>3, HostAssumption DEF Full, CapacityKept
<1> QED BY <1>6, <1>7, <1>8, <1>9, <1>10, <1>11 DEF Shape

\* A connection that becomes a device's.
LEMMA ShapeHello ==
    ASSUME Shape, TodoKnown,
           NEW h \in Handles, NEW d \in Ids, NEW sid \in 0 .. nextSid - 1,
           PendingHello(h, d, sid)
    PROVE  /\ Shape' /\ Pending' = Pending \ {h}
           /\ d \in Online => entry'[d].conn # entry[d].conn /\ entry'[d].sid = nextSid
           /\ \A c \in Ids \ {d} : entry'[c] = entry[c]
<1>1. h \in Pending /\ pending[h] # None
  BY DEF PendingHello, ServesPending, TodoKnown, Pending
<1> DEFINE new == [online |-> TRUE, conn |-> h, late |-> FALSE,
                   sid |-> IF Resumes(d, sid) THEN sid ELSE nextSid]
<1>2. /\ pending' = [pending EXCEPT ![h] = None]
      /\ open' = open \ OldConn(d)
      /\ entry' = [entry EXCEPT ![d] = new]
      /\ nextSid' = IF Resumes(d, sid) THEN nextSid ELSE nextSid + 1
  BY DEF PendingHello
<1>3. Resumes(d, sid) => d \in Registered /\ ~entry[d].online /\ sid = entry[d].sid
  BY DEF Resumes
<1>4. new.sid \in 1 .. MaxSids /\ new.sid < nextSid'
  <2>1. CASE Resumes(d, sid)
    <3>1. entry[d] \in DeviceEntry /\ entry[d].sid = sid
      BY <1>3, <2>1 DEF Shape, ShapeTypes, Registered
    <3> QED BY <1>2, <2>1, <3>1 DEF DeviceEntry, Shape, ShapeTypes
  <2>2. CASE ~Resumes(d, sid)
    <3>1. nextSid <= MaxSids /\ nextSid \in Nat \ {0}
      BY <2>2 DEF PendingHello, Shape, ShapeTypes
    <3> QED BY <1>2, <2>2, <3>1, HostAssumption
  <2> QED BY <2>1, <2>2
<1>5. new \in DeviceEntry /\ new # None /\ new.online /\ new.conn = h
  <2>1. new \in DeviceEntry
    BY <1>4 DEF DeviceEntry
  <2> QED BY <2>1, NoneAssumption
<1>6. /\ entry'[d] = new
      /\ \A c \in Ids \ {d} : entry'[c] = entry[c]
  BY <1>2 DEF Shape, ShapeTypes
<1>7. /\ pending'[h] = None
      /\ \A g \in Handles \ {h} : pending'[g] = pending[g]
  BY <1>2 DEF Shape, ShapeTypes
<1>8. Registered' = Registered \cup {d}
  BY <1>5, <1>6 DEF Registered
<1>9. Pending' = Pending \ {h}
  BY <1>7 DEF Pending
<1>10. ShapeTypes'
  <2>1. entry' \in [Ids -> DeviceEntry \cup {None}]
    BY <1>2, <1>5 DEF Shape, ShapeTypes
  <2>2. pending' \in [Handles -> PendingConn \cup {None}]
    BY <1>2 DEF Shape, ShapeTypes
  <2>3. open' \subseteq Handles /\ nextSid' \in Nat \ {0}
    BY <1>2 DEF Shape, ShapeTypes
  <2> QED BY <2>1, <2>2, <2>3 DEF ShapeTypes
<1>11. Owned'
  <2>1. \A g \in Handles : Holds(d, g)' <=> g = h
    BY <1>5, <1>6 DEF Holds
  <2>2. \A c \in Ids \ {d}, g \in Handles : Holds(c, g)' <=> Holds(c, g)
    BY <1>6 DEF Holds
  <2>3. \A g \in Handles : g \in OldConn(d) <=> Holds(d, g)
    BY NoneAssumption DEF OldConn, Holds, Shape, OnlineMeansConnected, Registered
  <2>4. \A c \in Ids : ~Holds(c, h)
    BY <1>1 DEF Shape, Owned
  <2>5. h \in open
    BY <1>1 DEF Shape, Owned
  <2> QED BY <1>1, <1>2, <1>7, <2>1, <2>2, <2>3, <2>4, <2>5 DEF Shape, Owned
<1>12. OnlineMeansConnected'
  <2>1. entry'[d].online /\ entry'[d].conn # None
    BY <1>5, <1>6, NoneAssumption
  <2> HIDE DEF new
  <2> QED BY <1>6, <1>8, <2>1 DEF Shape, OnlineMeansConnected, Registered
<1>13. SidsGiven'
  <2>1. nextSid' >= nextSid /\ \A c \in Registered : entry[c].sid \in Nat
    BY <1>2 DEF Shape, ShapeTypes, Registered, DeviceEntry
  <2> QED BY <1>2, <1>4, <1>6, <1>8, <2>1 DEF Shape, ShapeTypes, SidsGiven
<1>14. SessionsAreSeparate'
  <2>1. ASSUME NEW c \in Registered, c # d
        PROVE  entry[c].sid # new.sid
    BY <1>3, <2>1 DEF Shape, ShapeTypes, SidsGiven, SessionsAreSeparate, Registered, DeviceEntry
  <2> HIDE DEF new
  <2> QED BY <1>6, <1>8, <2>1 DEF Shape, SessionsAreSeparate, Registered
<1>15. CapacityKept'
  <2>1. Pending \in SUBSET Handles /\ Registered \in SUBSET Ids
    BY DEF Pending, Registered
  <2>2. Cardinality(Pending') = Cardinality(Pending) - 1
    BY <1>1, <1>9, <2>1, Finite, FS_RemoveElement
  <2>3. Cardinality(Registered') \in {Cardinality(Registered), Cardinality(Registered) + 1}
    BY <1>8, <2>1, Finite, FS_AddElement
  <2>4. Cardinality(Pending) \in Nat /\ Cardinality(Registered) \in Nat
    BY <2>1, Finite
  <2> QED BY <2>2, <2>3, <2>4, HostAssumption DEF Shape, CapacityKept
<1>16. d \in Online => entry'[d].conn # entry[d].conn /\ entry'[d].sid = nextSid
  <2> SUFFICES ASSUME d \in Online
               PROVE  entry'[d].conn # entry[d].conn /\ entry'[d].sid = nextSid
    OBVIOUS
  <2>1. entry[d].online /\ pending[entry[d].conn] = None
    BY OnlineHolds
  <2> QED BY <1>1, <1>3, <1>6, <2>1
<1> QED BY <1>6, <1>9, <1>10, <1>11, <1>12, <1>13, <1>14, <1>15, <1>16 DEF Shape

-----------------------------------------------------------------------------
\* A new server.
LEMMA InvInit == Init => ServerInv
<1> SUFFICES ASSUME Init PROVE ServerInv
  OBVIOUS
<1>1. Pending = {} /\ Registered = {} /\ Online = {}
  BY DEF Init, Pending, Registered, Online
<1>2. ShapeTypes
  BY DEF Init, ShapeTypes
<1>3. Owned
  BY DEF Init, Owned, Holds
<1>4. OnlineMeansConnected /\ SidsGiven /\ SessionsAreSeparate
  BY <1>1 DEF OnlineMeansConnected, SidsGiven, SessionsAreSeparate
<1>5. CapacityKept
  BY <1>1, FS_EmptySet, HostAssumption DEF CapacityKept
<1>6. TodoKnown
  BY DEF Init, TodoKnown
<1> QED BY <1>2, <1>3, <1>4, <1>5, <1>6 DEF ServerInv, Shape

\* Closing one connection that has said no hello.
LEMMA CloseOne ==
    ASSUME Shape, NEW h \in Pending, ClosePending(h)
    PROVE  Shape' /\ Pending' = Pending \ {h} /\ Online' = Online
<1> DEFINE S == {}
           P == {h}
<1>1. pending' = [g \in Handles |-> IF g \in P THEN None ELSE pending[g]]
  BY DEF ClosePending, Shape, ShapeTypes
<1>2. entry' = [d \in Ids |-> IF d \in S THEN Offline(entry[d]) ELSE entry[d]]
  BY DEF ClosePending, Shape, ShapeTypes
<1>3. open' = open \ (P \cup {entry[d].conn : d \in S}) /\ nextSid' = nextSid
  BY DEF ClosePending
<1>4. S \in SUBSET Online /\ P \in SUBSET Pending /\ Online \ S = Online
  OBVIOUS
<1>5. Shape' /\ Pending' = Pending \ P /\ Online' = Online \ S
  <2> HIDE DEF S, P
  <2> QED BY <1>1, <1>2, <1>3, <1>4, ShapeClose
<1> QED BY <1>4, <1>5

\* A pending connection from which nothing came.
LEMMA WaitsStep ==
    ASSUME ServerInv, NEW h \in Handles, PendingWaits(h)
    PROVE  ServerInv'
<1>1. /\ Shape /\ TodoKnown /\ phase = "pending" /\ phase' = phase
      /\ todo' = todo \ {h} /\ h \in Pending /\ todo \subseteq Pending
  BY DEF ServerInv, TodoKnown, PendingWaits, ServesPending
<1>2. PICK bad \in 0 .. MaxMalformed :
         IF Expired(pending[h].late, pending[h].malformed + bad)
         THEN ClosePending(h)
         ELSE /\ pending' = [pending EXCEPT ![h].malformed = pending[h].malformed + bad]
              /\ UNCHANGED <<entry, open, nextSid>>
  BY DEF PendingWaits
<1>3. CASE Expired(pending[h].late, pending[h].malformed + bad)
  BY <1>1, <1>2, <1>3, CloseOne DEF ServerInv, TodoKnown
<1>4. CASE ~Expired(pending[h].late, pending[h].malformed + bad)
  <2>1. pending[h] \in PendingConn
    BY <1>1 DEF Shape, ShapeTypes, Pending
  <2>2. pending[h].malformed + bad \in 0 .. MaxMalformed - 1
    BY <1>4, <2>1, HostAssumption DEF PendingConn, Expired
  <2>3. pending' = [pending EXCEPT ![h].malformed = pending[h].malformed + bad]
        /\ entry' = entry /\ open' = open /\ nextSid' = nextSid
    BY <1>2, <1>4
  <2>4. pending'[h] \in PendingConn
        /\ \A g \in Handles \ {h} : pending'[g] = pending[g]
    BY <1>1, <2>1, <2>2, <2>3 DEF Shape, ShapeTypes, PendingConn
  <2>5. pending' \in [Handles -> PendingConn \cup {None}]
    BY <1>1, <2>3, <2>4 DEF Shape, ShapeTypes
  <2>6. \A g \in Handles : pending'[g] # None <=> pending[g] # None
    BY <2>1, <2>4, NoneAssumption
  <2>7. Shape' /\ Pending' = Pending /\ Online' = Online
    BY <1>1, <2>3, <2>5, <2>6, ShapeSame DEF Shape, ShapeTypes
  <2> QED BY <1>1, <2>7 DEF ServerInv, TodoKnown
<1> QED BY <1>3, <1>4

\* Steps that only move Poll along, or concern the window's texts.
LEMMA QuietStep ==
    ASSUME ServerInv, UNCHANGED sockets
    PROVE  Shape' /\ Pending' = Pending /\ Online' = Online
<1>1. Shape /\ pending' = pending /\ entry' = entry /\ open' = open /\ nextSid' = nextSid
  BY DEF ServerInv, sockets
<1> QED BY <1>1, ShapeSame DEF Shape, ShapeTypes

\* The snapshot of a round.
LEMMA PollStartStep ==
    ASSUME ServerInv, PollStart
    PROVE  ServerInv'
<1>1. PICK L \in SUBSET Pending, S \in SUBSET Online : PollStartAt(L, S)
  BY DEF PollStart
<1>2. Shape /\ open' = open /\ nextSid' = nextSid /\ phase' = "accept"
  BY <1>1 DEF ServerInv, PollStartAt
<1>3. ASSUME NEW h \in Handles
      PROVE  /\ pending'[h] \in PendingConn \cup {None}
             /\ pending'[h] # None <=> pending[h] # None
  <2>1. pending'[h] = IF h \in L THEN [pending[h] EXCEPT !.late = TRUE] ELSE pending[h]
    BY <1>1 DEF PollStartAt
  <2>2. CASE h \in L
    <3>1. pending[h] \in PendingConn
      BY <1>2, <2>2 DEF Pending, Shape, ShapeTypes
    <3>2. pending'[h] \in PendingConn
      BY <2>1, <2>2, <3>1 DEF PendingConn
    <3> QED BY <3>1, <3>2, NoneAssumption
  <2>3. CASE h \notin L
    BY <1>2, <2>1, <2>3 DEF Shape, ShapeTypes
  <2> QED BY <2>2, <2>3
<1>4. ASSUME NEW d \in Ids
      PROVE  /\ entry'[d] \in DeviceEntry \cup {None}
             /\ entry'[d] # None <=> entry[d] # None
             /\ entry[d] # None =>
                    /\ entry'[d].online = entry[d].online
                    /\ entry'[d].conn = entry[d].conn
                    /\ entry'[d].sid = entry[d].sid
  <2>1. entry'[d] = IF d \in S THEN [entry[d] EXCEPT !.late = TRUE] ELSE entry[d]
    BY <1>1 DEF PollStartAt
  <2>2. CASE d \in S
    <3>1. entry[d] \in DeviceEntry
      BY <1>2, <2>2, OnlineHolds
    <3>2. entry'[d] \in DeviceEntry
      BY <2>1, <2>2, <3>1 DEF DeviceEntry
    <3>3. entry'[d].online = entry[d].online /\ entry'[d].conn = entry[d].conn
          /\ entry'[d].sid = entry[d].sid
      BY <2>1, <2>2, <3>1 DEF DeviceEntry
    <3> QED BY <3>1, <3>2, <3>3, NoneAssumption
  <2>3. CASE d \notin S
    BY <1>2, <2>1, <2>3 DEF Shape, ShapeTypes
  <2> QED BY <2>2, <2>3
<1>5. pending' = [h \in Handles |-> pending'[h]] /\ entry' = [d \in Ids |-> entry'[d]]
  BY <1>1 DEF PollStartAt
<1>6. pending' \in [Handles -> PendingConn \cup {None}]
      /\ entry' \in [Ids -> DeviceEntry \cup {None}]
  BY <1>3, <1>4, <1>5
<1>7. Shape'
  BY <1>2, <1>3, <1>4, <1>6, ShapeSame
<1> QED BY <1>2, <1>7 DEF ServerInv, TodoKnown

\* Frames of an online device.
LEMMA FramesStep ==
    ASSUME ServerInv, NEW d \in Ids, OnlineFrames(d)
    PROVE  ServerInv'
<1>1. /\ Shape /\ TodoKnown /\ phase = "online" /\ phase' = phase
      /\ todo' = todo \ {d} /\ d \in Online /\ todo \subseteq Online
  BY DEF ServerInv, TodoKnown, OnlineFrames, ServesOnline
<1>2. /\ entry' = [entry EXCEPT ![d].late = FALSE]
      /\ open' = open /\ nextSid' = nextSid /\ pending' = pending
  BY DEF OnlineFrames, ServesOnline
<1>3. entry[d] \in DeviceEntry
  BY <1>1, OnlineHolds
<1>4. /\ entry'[d] = [entry[d] EXCEPT !.late = FALSE]
      /\ \A c \in Ids \ {d} : entry'[c] = entry[c]
  BY <1>1, <1>2 DEF Shape, ShapeTypes
<1>5. /\ entry'[d] \in DeviceEntry
      /\ entry'[d].online = entry[d].online /\ entry'[d].conn = entry[d].conn
      /\ entry'[d].sid = entry[d].sid
  BY <1>3, <1>4 DEF DeviceEntry
<1>6. entry' \in [Ids -> DeviceEntry \cup {None}]
  BY <1>1, <1>2, <1>5 DEF Shape, ShapeTypes
<1>7. Shape' /\ Pending' = Pending /\ Online' = Online
  <2>1. ASSUME NEW c \in Ids
        PROVE  /\ entry'[c] # None <=> entry[c] # None
               /\ entry[c] # None =>
                      /\ entry'[c].online = entry[c].online
                      /\ entry'[c].conn = entry[c].conn
                      /\ entry'[c].sid = entry[c].sid
    BY <1>3, <1>4, <1>5, NoneAssumption
  <2>2. pending' \in [Handles -> PendingConn \cup {None}]
        /\ \A h \in Handles : pending'[h] # None <=> pending[h] # None
    BY <1>1, <1>2 DEF Shape, ShapeTypes
  <2> QED BY <1>1, <1>2, <1>6, <2>1, <2>2, ShapeSame
<1> QED BY <1>1, <1>7 DEF ServerInv, TodoKnown

\* A connection that is lost.
LEMMA LostStep ==
    ASSUME ServerInv, NEW d \in Ids, OnlineLost(d)
    PROVE  ServerInv'
<1>1. /\ Shape /\ TodoKnown /\ phase = "online" /\ phase' = phase
      /\ todo' = todo \ {d} /\ d \in Online /\ todo \subseteq Online
  BY DEF ServerInv, TodoKnown, OnlineLost, ServesOnline
<1> DEFINE S == {d}
           P == {}
<1>2. entry' = [c \in Ids |-> IF c \in S THEN Offline(entry[c]) ELSE entry[c]]
  BY <1>1 DEF OnlineLost, LostEntry, Shape, ShapeTypes
<1>3. pending' = [h \in Handles |-> IF h \in P THEN None ELSE pending[h]]
  BY <1>1 DEF OnlineLost, ServesOnline, Shape, ShapeTypes
<1>4. open' = open \ (P \cup {entry[c].conn : c \in S}) /\ nextSid' = nextSid
  BY DEF OnlineLost, ServesOnline
<1>5. Shape' /\ Online' = Online \ S
  <2>1. S \in SUBSET Online /\ P \in SUBSET Pending
    BY <1>1
  <2> HIDE DEF S, P
  <2> QED BY <1>1, <1>2, <1>3, <1>4, <2>1, ShapeClose
<1> QED BY <1>1, <1>5 DEF ServerInv, TodoKnown

\* The connections that were given up are closed.
LEMMA CloseDeadStep ==
    ASSUME ServerInv, CloseDead
    PROVE  ServerInv'
<1>1. Shape /\ FindDead \subseteq Online /\ phase' = "flush"
  BY DEF ServerInv, FindDead, CloseDead
<1>2. entry' = [d \in Ids |-> IF d \in FindDead THEN Offline(entry[d]) ELSE entry[d]]
  BY DEF CloseDead
<1> DEFINE P == {}
<1>3. pending' = [h \in Handles |-> IF h \in P THEN None ELSE pending[h]]
  BY <1>1 DEF CloseDead, Shape, ShapeTypes
<1>4. open' = open \ (P \cup {entry[d].conn : d \in FindDead}) /\ nextSid' = nextSid
  BY DEF CloseDead
<1>5. Shape'
  <2>1. P \in SUBSET Pending
    OBVIOUS
  <2> HIDE DEF P
  <2> QED BY <1>1, <1>2, <1>3, <1>4, <2>1, ShapeClose
<1> QED BY <1>1, <1>5 DEF ServerInv, TodoKnown

\* HostTcpServer::Stop.
LEMMA StopStep ==
    ASSUME ServerInv, Stop
    PROVE  ServerInv'
<1>1. Shape /\ phase' = "idle"
  BY DEF ServerInv, Stop
<1>2. entry' = [d \in Ids |-> IF d \in Online THEN Offline(entry[d]) ELSE entry[d]]
  BY DEF Stop
<1>3. pending' = [h \in Handles |-> IF h \in Pending THEN None ELSE pending[h]]
  BY DEF Stop, Pending
<1>4. open' = open \ (Pending \cup {entry[d].conn : d \in Online}) /\ nextSid' = nextSid
  BY DEF Stop
<1>5. Shape'
  BY <1>1, <1>2, <1>3, <1>4, ShapeClose
<1> QED BY <1>1, <1>5 DEF ServerInv, TodoKnown

\* Every step keeps the invariant.
LEMMA InvStep == ServerInv /\ [Next]_vars => ServerInv'
<1> SUFFICES ASSUME ServerInv, [Next]_vars PROVE ServerInv'
  OBVIOUS
<1>1. CASE UNCHANGED vars
  BY <1>1, QuietStep DEF vars, ServerInv, TodoKnown
<1>2. CASE Start
  BY <1>2, QuietStep DEF Start, ServerInv, TodoKnown
<1>3. CASE Stop
  BY <1>3, StopStep
<1>4. CASE PollStart
  BY <1>4, PollStartStep
<1>5. CASE Accept
  BY <1>5, ShapeAccept DEF Accept, ServerInv, TodoKnown
<1>6. CASE AcceptDone
  BY <1>6, QuietStep DEF AcceptDone, ServerInv, TodoKnown
<1>7. ASSUME NEW h \in Handles, ServePending(h)
      PROVE  ServerInv'
  <2>1. CASE PendingWaits(h)
    BY <2>1, WaitsStep
  <2>2. CASE PendingGone(h)
    <3>1. h \in Pending
      BY <2>2 DEF PendingGone, ServesPending, ServerInv, TodoKnown
    <3> QED BY <2>2, <3>1, CloseOne DEF PendingGone, ServesPending, ServerInv, TodoKnown
  <2>3. ASSUME NEW d \in Ids, NEW sid \in 0 .. nextSid - 1, PendingHello(h, d, sid)
        PROVE  ServerInv'
    <3>1. Shape' /\ Pending' = Pending \ {h}
      BY <2>3, ShapeHello DEF ServerInv
    <3> QED BY <2>3, <3>1 DEF PendingHello, ServesPending, ServerInv, TodoKnown
  <2> QED BY <1>7, <2>1, <2>2, <2>3 DEF ServePending
<1>8. CASE PendingDone
  BY <1>8, QuietStep DEF PendingDone, ServerInv, TodoKnown
<1>9. ASSUME NEW d \in Ids, ServeOnline(d)
      PROVE  ServerInv'
  <2>1. CASE OnlineSilent(d)
    BY <2>1, QuietStep DEF OnlineSilent, ServesOnline, sockets, ServerInv, TodoKnown
  <2> QED BY <1>9, <2>1, FramesStep, LostStep DEF ServeOnline
<1>10. CASE CloseDead
  BY <1>10, CloseDeadStep
<1>11. CASE FlushPendingTx
  BY <1>11, QuietStep
     DEF FlushPendingTx, FlushSwap, FlushSend, FlushDone, ServerInv, TodoKnown
<1>12. ASSUME NEW d \in Ids, QueueAppData(d)
       PROVE  ServerInv'
  BY <1>12, QuietStep DEF QueueAppData, ServerInv, TodoKnown
<1> QED BY <1>1, <1>2, <1>3, <1>4, <1>5, <1>6, <1>7, <1>8, <1>9, <1>10, <1>11,
           <1>12 DEF Next, Poll

-----------------------------------------------------------------------------
\* The inductive invariant: who owns which handle, which session ids are
\* given out, what Poll has yet to serve, and the limit.
THEOREM ServerInvariant == Spec => []ServerInv
BY InvInit, InvStep, PTL DEF Spec

\* No socket leaks, is shared or is closed while in use.
THEOREM ServerSockets == Spec => []SocketsOwned
<1>1. ServerInv => SocketsOwned
  <2> SUFFICES ASSUME ServerInv PROVE SocketsOwned
    OBVIOUS
  <2>1. Shape
    BY DEF ServerInv
  <2>2. \A d \in Online : d \in Ids /\ Holds(d, entry[d].conn)
                          /\ entry[d].conn \in Handles /\ pending[entry[d].conn] = None
    BY <2>1, OnlineHolds
  <2>3. \A d \in Ids, h \in Handles : Holds(d, h) => d \in Online /\ entry[d].conn = h
    BY DEF Holds, Online, Registered
  <2>4. open = Pending \cup {entry[d].conn : d \in Online}
    BY <2>1, <2>2, <2>3 DEF Shape, ShapeTypes, Owned, Pending
  <2>5. Pending \cap {entry[d].conn : d \in Online} = {}
    BY <2>2 DEF Pending
  <2>6. \A c, d \in Online : entry[c].conn = entry[d].conn => c = d
    BY <2>1, <2>2 DEF Shape, Owned
  <2> QED BY <2>4, <2>5, <2>6 DEF SocketsOwned
<1> QED BY <1>1, ServerInvariant, PTL

\* Online and connected are one.
THEOREM ServerOnline == Spec => []OnlineMeansConnected
<1>1. ServerInv => OnlineMeansConnected
  BY DEF ServerInv, Shape
<1> QED BY <1>1, ServerInvariant, PTL

\* The connection limit holds.
THEOREM ServerCapacity == Spec => []CapacityKept
<1>1. ServerInv => CapacityKept
  BY DEF ServerInv, Shape
<1> QED BY <1>1, ServerInvariant, PTL

\* No two devices have one session.
THEOREM ServerSessions == Spec => []SessionsAreSeparate
<1>1. ServerInv => SessionsAreSeparate
  BY DEF ServerInv, Shape
<1> QED BY <1>1, ServerInvariant, PTL

-----------------------------------------------------------------------------
(***************************************************************************)
(* The window's texts.  What was sent, what FlushPendingTx has yet to send *)
(* and what is queued make up one rising line of numbers.                  *)
(***************************************************************************)
Rising(q) == \A i, j \in 1 .. Len(q) : i < j => q[i].no < q[j].no

TextTypes ==
    /\ queue \in Seq(Text)
    /\ batch \in Seq(Text)
    /\ sent \in Seq(1 .. MaxTexts)
    /\ nextText \in Nat \ {0}

TextLine ==
    /\ Rising(queue) /\ Rising(batch) /\ TextsOnceInOrder
    /\ \A i \in 1 .. Len(sent) :
           /\ sent[i] < nextText
           /\ \A j \in 1 .. Len(batch) : sent[i] < batch[j].no
           /\ \A j \in 1 .. Len(queue) : sent[i] < queue[j].no
    /\ \A i \in 1 .. Len(batch) :
           /\ batch[i].no < nextText
           /\ \A j \in 1 .. Len(queue) : batch[i].no < queue[j].no
    /\ \A j \in 1 .. Len(queue) : queue[j].no < nextText

\* FlushPendingTx leaves nothing in its copy behind.
BatchIsLocal == phase # "send" => batch = <<>>

TextInv == TextTypes /\ TextLine /\ BatchIsLocal

\* Texts are numbered.
LEMMA TextNos ==
    ASSUME NEW q \in Seq(Text), NEW i \in 1 .. Len(q)
    PROVE  q[i] \in Text /\ q[i].no \in 1 .. MaxTexts /\ q[i].no \in Nat
<1>1. q[i] \in Text
  OBVIOUS
<1> QED BY <1>1, HostAssumption DEF Text

\* QueueAppData: the new text is the newest of all.
LEMMA QueueText ==
    ASSUME TextInv, NEW d \in Ids, QueueAppData(d)
    PROVE  TextInv'
<1> DEFINE t == [to |-> d, no |-> nextText]
<1>1. /\ nextText \in Nat \ {0} /\ nextText <= MaxTexts /\ nextText' = nextText + 1
      /\ queue' = Append(queue, t) /\ batch' = batch /\ sent' = sent /\ phase' = phase
  BY DEF TextInv, TextTypes, QueueAppData, texts
<1>2. t \in Text /\ t.no = nextText
  BY <1>1, HostAssumption DEF Text
<1> HIDE DEF t
<1>3. queue \in Seq(Text) /\ batch \in Seq(Text) /\ sent \in Seq(1 .. MaxTexts)
  BY DEF TextInv, TextTypes
<1>4. /\ queue' \in Seq(Text) /\ Len(queue') = Len(queue) + 1 /\ Len(queue) \in Nat
      /\ \A i \in 1 .. Len(queue) : queue'[i] = queue[i]
      /\ queue'[Len(queue) + 1] = t
  BY <1>1, <1>2, <1>3, AppendProperties
<1>5. TextTypes' /\ BatchIsLocal'
  BY <1>1, <1>3, <1>4 DEF TextInv, TextTypes, BatchIsLocal
<1>6. \A j \in 1 .. Len(queue') :
         \/ j \in 1 .. Len(queue) /\ queue'[j] = queue[j]
         \/ j = Len(queue) + 1 /\ queue'[j].no = nextText
  BY <1>2, <1>4
<1>7. \A i \in 1 .. Len(queue) : queue[i].no \in Nat
  BY <1>3, TextNos
<1>8. Rising(queue)'
  BY <1>1, <1>4, <1>6, <1>7 DEF TextInv, TextLine, Rising
<1>9. \A i \in 1 .. Len(sent) : sent[i] \in Nat
  BY <1>3, HostAssumption
<1>10. \A i \in 1 .. Len(batch) : batch[i].no \in Nat
  BY <1>3, TextNos
<1>11. TextLine'
  BY <1>1, <1>6, <1>7, <1>8, <1>9, <1>10, SMTT(30)
     DEF TextInv, TextLine, Rising, TextsOnceInOrder
<1> QED BY <1>5, <1>11 DEF TextInv

\* The swap: the copy takes the queue's place in the line.
LEMMA SwapTexts ==
    ASSUME TextInv, FlushSwap
    PROVE  TextInv'
<1>1. batch' = queue /\ queue' = <<>> /\ sent' = sent /\ nextText' = nextText
      /\ phase' = "send"
  BY DEF FlushSwap, QueueAfterSwap
<1>2. TextTypes' /\ BatchIsLocal'
  BY <1>1 DEF TextInv, TextTypes, BatchIsLocal
<1>3. TextLine'
  BY <1>1 DEF TextInv, TextLine, Rising, TextsOnceInOrder
<1> QED BY <1>2, <1>3 DEF TextInv

\* One text is sent or dropped: it is older than all that follow.
LEMMA SendText ==
    ASSUME TextInv, FlushSend
    PROVE  TextInv'
<1>1. /\ batch # <<>> /\ batch' = Tail(batch) /\ queue' = queue /\ phase = "send"
      /\ nextText' = nextText /\ phase' = phase
      /\ sent' = sent \/ sent' = Append(sent, Head(batch).no)
  BY DEF FlushSend
<1>2. queue \in Seq(Text) /\ batch \in Seq(Text) /\ sent \in Seq(1 .. MaxTexts)
      /\ nextText \in Nat
  BY DEF TextInv, TextTypes
<1>3. /\ batch' \in Seq(Text) /\ Len(batch') = Len(batch) - 1 /\ Len(batch) \in Nat
      /\ Len(batch) > 0 /\ Head(batch) = batch[1]
      /\ \A i \in 1 .. Len(batch') : batch'[i] = batch[i + 1]
  BY <1>1, <1>2, HeadTailProperties
<1>4. batch[1] \in Text /\ batch[1].no \in 1 .. MaxTexts
  BY <1>2, <1>3, TextNos
<1>5. \A i \in 1 .. Len(batch) : batch[i].no \in Nat
  BY <1>2, TextNos
<1>6. \A i \in 1 .. Len(queue) : queue[i].no \in Nat
  BY <1>2, TextNos
<1>7. \A i \in 1 .. Len(sent) : sent[i] \in Nat
  BY <1>2, HostAssumption
<1>8. CASE sent' = sent
  <2>1. TextTypes' /\ BatchIsLocal'
    BY <1>1, <1>3, <1>8 DEF TextInv, TextTypes, BatchIsLocal
  <2>2. TextLine'
    BY <1>1, <1>3, <1>8 DEF TextInv, TextLine, Rising, TextsOnceInOrder
  <2> QED BY <2>1, <2>2 DEF TextInv
<1>9. CASE sent' = Append(sent, Head(batch).no)
  <2>1. /\ sent' \in Seq(1 .. MaxTexts) /\ Len(sent') = Len(sent) + 1 /\ Len(sent) \in Nat
        /\ \A i \in 1 .. Len(sent) : sent'[i] = sent[i]
        /\ sent'[Len(sent) + 1] = batch[1].no
    BY <1>2, <1>3, <1>4, <1>9, AppendProperties
  <2>2. TextTypes' /\ BatchIsLocal'
    BY <1>1, <1>3, <2>1 DEF TextInv, TextTypes, BatchIsLocal
  <2>3. \A i \in 1 .. Len(sent') :
            \/ i \in 1 .. Len(sent) /\ sent'[i] = sent[i]
            \/ i = Len(sent) + 1 /\ sent'[i] = batch[1].no
    BY <2>1
  <2>4. \A i \in 1 .. Len(batch') : i + 1 \in 1 .. Len(batch) /\ 1 < i + 1
                                    /\ batch'[i] = batch[i + 1]
    BY <1>3
  <2>5. Rising(batch)'
    <3>1. ASSUME NEW i \in 1 .. Len(batch'), NEW j \in 1 .. Len(batch'), i < j
          PROVE  batch'[i].no < batch'[j].no
      <4>1. i + 1 < j + 1
        BY <1>3, <3>1
      <4> QED BY <2>4, <4>1 DEF TextInv, TextLine, Rising
    <3> QED BY <3>1 DEF Rising
  <2>6. TextsOnceInOrder'
    BY <1>3, <1>7, <2>1, <2>3 DEF TextInv, TextLine, TextsOnceInOrder
  <2>7. ASSUME NEW i \in 1 .. Len(sent')
        PROVE  /\ sent'[i] < nextText
               /\ \A j \in 1 .. Len(batch') : sent'[i] < batch'[j].no
               /\ \A j \in 1 .. Len(queue) : sent'[i] < queue[j].no
    <3>1. CASE i \in 1 .. Len(sent) /\ sent'[i] = sent[i]
      BY <2>4, <3>1 DEF TextInv, TextLine
    <3>2. CASE i = Len(sent) + 1 /\ sent'[i] = batch[1].no
      <4>1. 1 \in 1 .. Len(batch)
        BY <1>3
      <4> QED BY <2>4, <3>2, <4>1 DEF TextInv, TextLine, Rising
    <3> QED BY <2>3, <3>1, <3>2
  <2>8. TextLine'
    BY <1>1, <2>4, <2>5, <2>6, <2>7 DEF TextInv, TextLine, Rising
  <2> QED BY <2>2, <2>8 DEF TextInv
<1> QED BY <1>1, <1>8, <1>9

\* No text.
LEMMA TextInit == Init => TextInv
BY HostAssumption DEF Init, TextInv, TextTypes, TextLine, BatchIsLocal, Rising, TextsOnceInOrder

\* Every step keeps the line of texts.
LEMMA TextStep == TextInv /\ [Next]_vars => TextInv'
<1> SUFFICES ASSUME TextInv, [Next]_vars PROVE TextInv'
  OBVIOUS
<1>1. ASSUME UNCHANGED texts, phase' # "send" => phase # "send" \/ batch = <<>>
      PROVE  TextInv'
  BY <1>1 DEF texts, TextInv, TextTypes, TextLine, BatchIsLocal, Rising, TextsOnceInOrder
<1>2. CASE FlushPendingTx
  <2>1. CASE FlushDone
    BY <1>1, <2>1 DEF FlushDone
  <2> QED BY <1>2, <2>1, SwapTexts, SendText DEF FlushPendingTx
<1>3. CASE \E d \in Ids : QueueAppData(d)
  BY <1>3, QueueText
<1>4. CASE ~FlushPendingTx /\ ~\E d \in Ids : QueueAppData(d)
  <2>1. UNCHANGED texts /\ (phase' # "send" => phase # "send")
    BY <1>4 DEF Next, Poll, vars, Start, Stop, PollStart, PollStartAt, Accept, AcceptDone,
                PendingDone, ServePending, PendingWaits, PendingGone, PendingHello,
                ServesPending, ServeOnline, OnlineSilent, OnlineFrames, OnlineLost,
                ServesOnline, CloseDead
  <2> QED BY <1>1, <2>1
<1> QED BY <1>2, <1>3, <1>4

\* The line of numbers holds in every reachable state.
THEOREM ServerTextLine == Spec => []TextInv
BY TextInit, TextStep, PTL DEF Spec

\* Texts go out in the order of QueueAppData and none twice (FlushPendingTx,
\* whose copy is sent while the window queues more).
THEOREM ServerTexts == Spec => []TextsOnceInOrder
<1>1. TextInv => TextsOnceInOrder
  BY DEF TextInv, TextLine
<1> QED BY <1>1, ServerTextLine, PTL

-----------------------------------------------------------------------------
\* What the two invariants leave open: where Poll is, and the bounds of the
\* counters.
PlaceTypes ==
    /\ listening \in BOOLEAN
    /\ phase \in Phases
    /\ todo \subseteq Handles \cup Ids
    /\ nextSid \in 1 .. MaxSids + 1
    /\ nextText \in 1 .. MaxTexts + 1

LEMMA PlaceStep == PlaceTypes /\ [Next]_vars => PlaceTypes'
<1> SUFFICES ASSUME PlaceTypes, [Next]_vars
             PROVE  PlaceTypes'
  OBVIOUS
<1> USE HostAssumption DEF PlaceTypes, Phases, sockets, texts, Pending, Online, Registered
<1>1. CASE UNCHANGED vars
  BY <1>1 DEF vars
<1>2. CASE Start \/ Stop
  BY <1>2 DEF Start, Stop
<1>3. ASSUME NEW d \in Ids, QueueAppData(d) PROVE PlaceTypes'
  BY <1>3 DEF QueueAppData
<1>4. CASE PollStart \/ Accept \/ AcceptDone
  BY <1>4 DEF PollStart, PollStartAt, Accept, AcceptDone
<1>5. ASSUME NEW h \in Handles, PendingWaits(h) \/ PendingGone(h) PROVE PlaceTypes'
  BY <1>5 DEF PendingWaits, PendingGone, ServesPending, ClosePending
<1>6. ASSUME NEW h \in Handles, NEW d \in Ids, NEW sid \in 0 .. nextSid - 1,
             PendingHello(h, d, sid)
      PROVE  PlaceTypes'
  <2>1. /\ listening' = listening /\ phase' = phase /\ nextText' = nextText
        /\ todo' = todo \ {h}
    BY <1>6 DEF PendingHello, ServesPending
  <2>2. nextSid' = nextSid \/ (nextSid <= MaxSids /\ nextSid' = nextSid + 1)
    BY <1>6 DEF PendingHello
  <2> QED BY <2>1, <2>2
<1>7. CASE PendingDone \/ CloseDead
  BY <1>7 DEF PendingDone, CloseDead
<1>8. ASSUME NEW d \in Ids, ServeOnline(d) PROVE PlaceTypes'
  BY <1>8 DEF ServeOnline, OnlineSilent, OnlineFrames, OnlineLost, ServesOnline
<1>9. CASE FlushPendingTx
  BY <1>9 DEF FlushPendingTx, FlushSwap, FlushSend, FlushDone
<1> QED BY <1>1, <1>2, <1>3, <1>4, <1>5, <1>6, <1>7, <1>8, <1>9 DEF Next, Poll, ServePending

\* Type correctness of the server, the registry and the texts
\* (host_tcp_server.cpp, host_registry.cpp).
THEOREM ServerTypeOK == Spec => []TypeOK
<1>1. Init => PlaceTypes
  <2> SUFFICES ASSUME Init PROVE PlaceTypes
    OBVIOUS
  <2>1. 1 \in 1 .. MaxSids + 1 /\ 1 \in 1 .. MaxTexts + 1
    BY HostAssumption
  <2> QED BY <2>1 DEF Init, PlaceTypes, Phases
<1>2. PlaceTypes /\ ServerInv /\ TextInv => TypeOK
  BY DEF PlaceTypes, ServerInv, Shape, ShapeTypes, TextInv, TextTypes, TypeOK
<1> QED BY <1>1, <1>2, PlaceStep, ServerInvariant, ServerTextLine, PTL DEF Spec
=============================================================================
