--------------------------- MODULE DeviceIOProofs ---------------------------
(***************************************************************************)
(* Proofs about what a device does to the machine and to its file: the     *)
(* hotspot, the NVS file, the event log in it, and the queue of log lines, *)
(* for every number of processes, subnets and starts, every capacity and   *)
(* every buffer.                                                           *)
(***************************************************************************)
EXTENDS Hotspot, DeviceStore, SequenceTheorems, FiniteSetTheorems, WellFoundedInduction, TLAPS

(* The queue of log lines *)

\* The invariant of the queue; it is inductive as it stands.
QueueInv == QueueTypeOK /\ LinesAccounted

\* The index computed by push and pull: one wrap at most.
LEMMA SlotIndex ==
    ASSUME NEW h \in Index, NEW i \in 0..QueueCapacity
    PROVE  /\ (h + i) % QueueCapacity \in Index
           /\ h + i < QueueCapacity => (h + i) % QueueCapacity = h + i
           /\ h + i >= QueueCapacity => (h + i) % QueueCapacity = h + i - QueueCapacity
<1>1. QueueCapacity \in Nat /\ QueueCapacity > 0
  BY QueueCapacityAssumption
<1>2. h \in Nat /\ h < QueueCapacity /\ i \in Nat /\ i <= QueueCapacity
  BY <1>1 DEF Index
<1>3. CASE h + i < QueueCapacity
  <2>1. (h + i) % QueueCapacity = h + i
    BY <1>1, <1>2, <1>3
  <2> QED BY <1>1, <1>2, <1>3, <2>1 DEF Index
<1>4. CASE h + i >= QueueCapacity
  <2>1. (h + i) % QueueCapacity = h + i - QueueCapacity
    BY <1>1, <1>2, <1>4
  <2> QED BY <1>1, <1>2, <1>4, <2>1 DEF Index
<1> QED BY <1>1, <1>2, <1>3, <1>4

\* Moving the start of the ring by n: the i-th line from there is line n + i.
LEMMA SlotShift ==
    ASSUME NEW h \in Index, NEW n \in Nat, NEW i \in Nat, n + i <= QueueCapacity
    PROVE  (((h + n) % QueueCapacity) + i) % QueueCapacity = (h + (n + i)) % QueueCapacity
<1>1. /\ QueueCapacity \in Nat /\ QueueCapacity > 0
      /\ h \in Nat /\ h < QueueCapacity
      /\ n \in 0..QueueCapacity /\ i \in 0..QueueCapacity /\ n + i \in 0..QueueCapacity
  BY QueueCapacityAssumption DEF Index
<1> DEFINE g == (h + n) % QueueCapacity
<1>2. g \in Index
  BY <1>1, SlotIndex
<1>3. CASE h + n < QueueCapacity
  <2>1. g = h + n
    BY <1>1, <1>3, SlotIndex
  <2> QED BY <1>1, <2>1
<1>4. CASE h + n >= QueueCapacity
  <2>1. g = h + n - QueueCapacity
    BY <1>1, <1>4, SlotIndex
  <2>2. g + i < QueueCapacity
    BY <1>1, <2>1
  <2>3. (g + i) % QueueCapacity = g + i
    BY <1>1, <1>2, <2>2, SlotIndex
  <2>4. (h + (n + i)) % QueueCapacity = h + (n + i) - QueueCapacity
    BY <1>1, <1>4, SlotIndex
  <2> QED BY <1>1, <2>1, <2>3, <2>4
<1> QED BY <1>1, <1>3, <1>4

\* Two different places of the ring are two different slots.
LEMMA SlotsDiffer ==
    ASSUME NEW h \in Index, NEW i \in 0..QueueCapacity - 1, NEW j \in 0..QueueCapacity - 1,
           i # j
    PROVE  (h + i) % QueueCapacity # (h + j) % QueueCapacity
<1>1. /\ QueueCapacity \in Nat /\ QueueCapacity > 0
      /\ h \in Nat /\ h < QueueCapacity
      /\ i \in 0..QueueCapacity /\ j \in 0..QueueCapacity
      /\ i < QueueCapacity /\ j < QueueCapacity
  BY QueueCapacityAssumption DEF Index
<1> QED BY <1>1, SlotIndex

\* A new queue.
LEMMA QueueStarts == QueueNew => QueueInv
BY QueueCapacityAssumption DEF QueueNew, QueueInv, QueueTypeOK, LinesAccounted, Index

\* The queue of the next process.
LEMMA QueueStartsAgain == QueueFresh => QueueInv'
<1>1. QueueCapacity \in Nat /\ QueueCapacity > 0
  BY QueueCapacityAssumption
<1> QED BY <1>1 DEF QueueFresh, QueueInv, QueueTypeOK, LinesAccounted, Index

\* device_log_queue_push: a line behind the others, in the place of the oldest
\* one when the ring is full.
LEMMA PushKeeps == QueueInv /\ QueuePush => QueueInv'
<1> SUFFICES ASSUME QueueInv, QueuePush PROVE QueueInv'
  OBVIOUS
<1>1. /\ QueueCapacity \in Nat /\ QueueCapacity > 0
      /\ first \in Index /\ first \in Nat
      /\ waiting \in Nat /\ waiting <= QueueCapacity
      /\ lines \in [Index -> Nat]
      /\ sequence \in Nat /\ dropped \in Nat /\ pulled \in Nat
      /\ sequence = pulled + waiting + dropped
  BY QueueCapacityAssumption DEF QueueInv, QueueTypeOK, LinesAccounted, Index
<1>2. \A i \in 1..waiting : lines[(first + (i - 1)) % QueueCapacity] = sequence - waiting + i
  <2>1. ASSUME NEW i \in 1..waiting
        PROVE  lines[(first + (i - 1)) % QueueCapacity] = sequence - waiting + i
    <3>1. first + i - 1 = first + (i - 1)
      BY <1>1
    <3> QED BY <2>1, <3>1 DEF QueueInv, LinesAccounted, Slot
  <2> QED BY <2>1
<1>3. sequence' = sequence + 1 /\ pulled' = pulled
  BY DEF QueuePush
<1>4. CASE waiting >= QueueCapacity
  <2>1. /\ waiting = QueueCapacity /\ waiting' = waiting /\ dropped' = dropped + 1
        /\ lines' = [lines EXCEPT ![first] = sequence + 1]
        /\ first' = (first + 1) % QueueCapacity
    BY <1>1, <1>3, <1>4 DEF QueuePush
  <2>2. first' \in Index
    BY <1>1, <2>1, SlotIndex
  <2>3. QueueTypeOK'
    BY <1>1, <1>3, <2>1, <2>2 DEF QueueTypeOK
  <2>4. ASSUME NEW i \in 1..waiting
        PROVE  lines'[(first' + (i - 1)) % QueueCapacity] = (sequence + 1) - waiting + i
    <3>1. i \in Nat /\ 1 <= i /\ i <= QueueCapacity /\ 1 + (i - 1) = i
      BY <1>1, <2>1
    <3>2. (first' + (i - 1)) % QueueCapacity = (first + i) % QueueCapacity
      <4>1. 1 \in Nat /\ i - 1 \in Nat /\ 1 + (i - 1) <= QueueCapacity
        BY <1>1, <3>1
      <4>2. (((first + 1) % QueueCapacity) + (i - 1)) % QueueCapacity
              = (first + (1 + (i - 1))) % QueueCapacity
        BY <1>1, <4>1, SlotShift
      <4> QED BY <2>1, <3>1, <4>2
    <3>3. CASE i = QueueCapacity
      <4>1. (first + i) % QueueCapacity = first
        BY <1>1, <3>1, <3>3, SlotIndex
      <4> QED BY <1>1, <2>1, <3>2, <3>3, <4>1
    <3>4. CASE i < QueueCapacity
      <4>1. i \in 0..QueueCapacity - 1 /\ 0 \in 0..QueueCapacity - 1 /\ i # 0
        BY <1>1, <3>1, <3>4
      <4>2. (first + 0) % QueueCapacity = first
        BY <1>1, SlotIndex DEF Index
      <4>3. (first + i) % QueueCapacity # first
        BY <1>1, <4>1, <4>2, SlotsDiffer
      <4>4. (first + i) % QueueCapacity \in Index
        BY <1>1, <3>1, SlotIndex
      <4>5. i + 1 \in 1..waiting /\ (i + 1) - 1 = i
        BY <1>1, <2>1, <3>1, <3>4
      <4>6. lines[(first + i) % QueueCapacity] = sequence - waiting + (i + 1)
        BY <1>2, <4>5
      <4> QED BY <1>1, <2>1, <3>1, <3>2, <4>3, <4>4, <4>6
    <3> QED BY <1>1, <3>1, <3>3, <3>4
  <2>5. LinesAccounted'
    <3>1. ASSUME NEW i \in 1..waiting'
          PROVE  lines'[(first' + i - 1) % QueueCapacity] = sequence' - waiting' + i
      <4>1. first' + i - 1 = first' + (i - 1)
        BY <2>2, <1>1 DEF Index
      <4> QED BY <1>3, <2>1, <2>4, <4>1
    <3> QED BY <1>1, <1>3, <2>1, <3>1 DEF LinesAccounted, Slot
  <2> QED BY <2>3, <2>5 DEF QueueInv
<1>5. CASE waiting < QueueCapacity
  <2>1. /\ waiting' = waiting + 1 /\ dropped' = dropped /\ first' = first
        /\ lines' = [lines EXCEPT ![(first + waiting) % QueueCapacity] = sequence + 1]
    <3>1. first + (waiting + 1) - 1 = first + waiting
      BY <1>1
    <3> QED BY <1>1, <1>3, <1>5, <3>1 DEF QueuePush, Slot
  <2>2. (first + waiting) % QueueCapacity \in Index
    BY <1>1, SlotIndex
  <2>3. QueueTypeOK'
    BY <1>1, <1>3, <1>5, <2>1, <2>2 DEF QueueTypeOK
  <2>4. ASSUME NEW i \in 1..waiting + 1
        PROVE  lines'[(first + (i - 1)) % QueueCapacity]
                  = (sequence + 1) - (waiting + 1) + i
    <3>1. CASE i = waiting + 1
      BY <1>1, <2>1, <2>2, <3>1
    <3>2. CASE i <= waiting
      <4>1. /\ i \in 1..waiting /\ i - 1 \in 0..QueueCapacity - 1
            /\ waiting \in 0..QueueCapacity - 1 /\ i - 1 # waiting
            /\ i - 1 \in 0..QueueCapacity
        BY <1>1, <1>5, <3>2
      <4>2. (first + (i - 1)) % QueueCapacity # (first + waiting) % QueueCapacity
        BY <1>1, <4>1, SlotsDiffer
      <4>3. (first + (i - 1)) % QueueCapacity \in Index
        BY <1>1, <4>1, SlotIndex
      <4>4. lines[(first + (i - 1)) % QueueCapacity] = sequence - waiting + i
        BY <1>2, <4>1
      <4> QED BY <1>1, <2>1, <4>2, <4>3, <4>4
    <3> QED BY <1>1, <3>1, <3>2
  <2>5. LinesAccounted'
    <3>1. ASSUME NEW i \in 1..waiting'
          PROVE  lines'[(first' + i - 1) % QueueCapacity] = sequence' - waiting' + i
      <4>1. first' + i - 1 = first + (i - 1) /\ i \in 1..waiting + 1
        BY <1>1, <2>1
      <4> QED BY <1>3, <2>1, <2>4, <4>1
    <3> QED BY <1>1, <1>3, <2>1, <3>1 DEF LinesAccounted, Slot
  <2> QED BY <2>3, <2>5 DEF QueueInv
<1> QED BY <1>1, <1>4, <1>5

\* device_log_queue_pull: the oldest lines go, the others move up.
LEMMA PullKeeps ==
    ASSUME QueueInv, NEW capacity \in Nat, QueuePull(capacity)
    PROVE  QueueInv'
<1>1. /\ QueueCapacity \in Nat /\ QueueCapacity > 0
      /\ first \in Index /\ first \in Nat
      /\ waiting \in Nat /\ waiting <= QueueCapacity
      /\ lines \in [Index -> Nat]
      /\ sequence \in Nat /\ dropped \in Nat /\ pulled \in Nat
      /\ sequence = pulled + waiting + dropped
  BY QueueCapacityAssumption DEF QueueInv, QueueTypeOK, LinesAccounted, Index
<1> DEFINE n == IF capacity < waiting THEN capacity ELSE waiting
<1>2. n \in Nat /\ n <= waiting
  BY <1>1
<1>3. Len(Pulled(capacity)) = n
  BY <1>2 DEF Pulled
<1>4. /\ first' = (first + n) % QueueCapacity /\ waiting' = waiting - n
      /\ pulled' = pulled + n /\ lines' = lines
      /\ sequence' = sequence /\ dropped' = dropped
  BY <1>3 DEF QueuePull
<1> HIDE DEF n
<1>5. first' \in Index
  BY <1>1, <1>2, <1>4, SlotIndex
<1>6. QueueTypeOK'
  BY <1>1, <1>2, <1>4, <1>5 DEF QueueTypeOK
<1>7. ASSUME NEW i \in 1..waiting'
      PROVE  lines'[(first' + i - 1) % QueueCapacity] = sequence' - waiting' + i
  <2>1. /\ i \in Nat /\ i - 1 \in Nat /\ n + (i - 1) \in Nat /\ n + (i - 1) <= QueueCapacity
        /\ n + i \in 1..waiting /\ (n + i) - 1 = n + (i - 1)
    BY <1>1, <1>2, <1>4
  <2>2. first' + i - 1 = first' + (i - 1) /\ first + (n + i) - 1 = first + (n + (i - 1))
    BY <1>1, <1>2, <1>5, <2>1 DEF Index
  <2>3. (first' + (i - 1)) % QueueCapacity = (first + (n + (i - 1))) % QueueCapacity
    BY <1>1, <1>2, <1>4, <2>1, SlotShift
  <2>4. lines[(first + (n + i) - 1) % QueueCapacity] = sequence - waiting + (n + i)
    BY <2>1 DEF QueueInv, LinesAccounted, Slot
  <2>5. sequence - waiting + (n + i) = sequence' - waiting' + i
    BY <1>1, <1>2, <1>4, <2>1
  <2>6. lines' = lines
    BY <1>1, <1>4
  <2> QED BY <2>2, <2>3, <2>4, <2>5, <2>6
<1>8. LinesAccounted'
  BY <1>1, <1>2, <1>4, <1>7 DEF LinesAccounted, Slot
<1> QED BY <1>6, <1>8 DEF QueueInv

\* The queue is well formed and every line is accounted for, whatever the
\* process does: it logs, is drained, ends, crashes and starts again
\* (device_log_queue.c:39-89).
THEOREM StoreQueueInvariant == Spec => []QueueInv
<1>1. Init => QueueInv
  BY QueueStarts DEF Init
<1>2. QueueInv /\ [Next]_vars => QueueInv'
  <2> SUFFICES ASSUME QueueInv, [Next]_vars PROVE QueueInv'
    OBVIOUS
  <2>1. CASE UNCHANGED queueVars
    BY <2>1 DEF queueVars, QueueInv, QueueTypeOK, LinesAccounted, Slot
  <2>2. CASE Boot
    BY <2>2, QueueStartsAgain DEF Boot
  <2>3. CASE Record
    BY <2>3, PushKeeps DEF Record
  <2>4. CASE Drain
    <3>1. PICK capacity \in 1..QueueCapacity : QueuePull(capacity)
      BY <2>4 DEF Drain
    <3>2. capacity \in Nat
      BY QueueCapacityAssumption
    <3> QED BY <3>1, <3>2, PullKeeps
  <2>5. CASE StoreCreds
    BY <2>1, <2>5 DEF StoreCreds
  <2>6. CASE EraseCreds
    BY <2>1, <2>6 DEF EraseCreds
  <2>7. CASE Destroy
    BY <2>1, <2>7 DEF Destroy
  <2>8. CASE Rename
    BY <2>1, <2>8 DEF Rename
  <2>9. CASE Second
    BY <2>1, <2>9 DEF Second
  <2>10. CASE Crash
    BY <2>1, <2>10 DEF Crash
  <2>11. CASE Commit
    BY <2>1, <2>11 DEF Commit
  <2>12. CASE PowerFailure
    BY <2>1, <2>12 DEF PowerFailure
  <2>13. CASE Damage
    BY <2>1, <2>13 DEF Damage
  <2>14. CASE UNCHANGED vars
    BY <2>1, <2>14 DEF vars
  <2> QED BY <2>2, <2>3, <2>4, <2>5, <2>6, <2>7, <2>8, <2>9, <2>10, <2>11, <2>12,
             <2>13, <2>14 DEF Next
<1> QED BY <1>1, <1>2, PTL DEF Spec

\* Every line was handed out, waits in order, or is counted as dropped.
THEOREM StoreLinesAccounted == Spec => []LinesAccounted
<1>1. QueueInv => LinesAccounted
  BY DEF QueueInv
<1> QED BY <1>1, StoreQueueInvariant, PTL

-----------------------------------------------------------------------------
(* The NVS file *)

\* A record of the three fields of a file, whatever the log in it.
IsContent(f) ==
    /\ f = Content(f.state, f.evlog, f.creds)
    /\ f.creds \in Nat
    /\ f.state \in {"missing", "ok", "unsynced", "damaged"}

\* The variables of the store.
StoreTypes ==
    /\ kind \in {"linux", "sim"} /\ pc \in {"off", "on", "rename"}
    /\ after \in {"off", "on"} /\ key \in {"evlog", "creds"}
    /\ IsContent(file) /\ IsContent(disk) /\ IsContent(tmp) /\ unread \in BOOLEAN
    /\ acks \in Seq(Nat) /\ Len(acks) > 0 /\ 0 \in Range(acks)

\* A file that may be found: it can be read, and the Linux backend has synced
\* it; without a file there are no credentials.
Sound(f) ==
    /\ f.state # "damaged" /\ f.creds \in Range(acks)
    /\ kind = "linux" => f.state # "unsynced"
    /\ f.state = "missing" => f.creds = 0

\* The strengthening: what a power failure would bring back is sound as well,
\* and a temporary file that is about to take the place of the store is whole
\* and has its credentials unless it is written for new ones, or by the
\* simulation without the store.
WholeInv ==
    "damage" \notin blame =>
        /\ Sound(file) /\ Sound(disk)
        /\ "power" \notin blame /\ (kind = "sim" => "unread" \notin blame)
              => file.creds = acks[Len(acks)]
        /\ pc = "rename" =>
            /\ tmp.state = (IF kind = "linux" THEN "ok" ELSE "unsynced")
            /\ unread => kind = "sim"
            /\ key = "evlog" => tmp.creds = IF unread THEN 0 ELSE file.creds

\* The invariant of the store.
StoreInv == StoreTypes /\ WholeInv

\* A file is its three fields.
LEMMA ContentFacts ==
    ASSUME NEW s \in {"missing", "ok", "unsynced", "damaged"}, NEW e, NEW c \in Nat
    PROVE  /\ IsContent(Content(s, e, c))
           /\ Content(s, e, c).state = s
           /\ Content(s, e, c).evlog = e
           /\ Content(s, e, c).creds = c
BY DEF IsContent, Content

\* One key changes and the others stay; saving changes only the state.
LEMMA ChangedFacts ==
    ASSUME NEW f, IsContent(f), NEW v
    PROVE  /\ Changed(f, "evlog", v) = Content(f.state, v, f.creds)
           /\ Changed(f, "creds", v) = Content(f.state, f.evlog, v)
           /\ LinuxSaved(f) = Content("ok", f.evlog, f.creds)
           /\ SimSaved(f) = Content("unsynced", f.evlog, f.creds)
<1> DEFINE g == Content(f.state, f.evlog, f.creds)
<1>1. f = g
  BY DEF IsContent
<1>2. [g EXCEPT !["evlog"] = v] = Content(f.state, v, f.creds)
  BY DEF Content
<1>3. [g EXCEPT !["creds"] = v] = Content(f.state, f.evlog, v)
  BY DEF Content
<1>4. [g EXCEPT !.state = "ok"] = Content("ok", f.evlog, f.creds)
  BY DEF Content
<1>5. [g EXCEPT !.state = "unsynced"] = Content("unsynced", f.evlog, f.creds)
  BY DEF Content
<1> HIDE DEF g
<1> QED BY <1>1, <1>2, <1>3, <1>4, <1>5 DEF Changed, LinuxSaved, SimSaved

\* A write that ends with a temporary file.
LEMMA WriteMakes ==
    ASSUME StoreTypes, NEW k \in {"evlog", "creds"}, NEW v, NEW size, NEW to \in {"off", "on"},
           k = "creds" => v \in Nat, Write(k, v, size, to), UNCHANGED <<kind, file, acks>>
    PROVE  /\ pc' \in {"off", "on", "rename"} /\ after' \in {"off", "on"}
           /\ key' \in {"evlog", "creds"} /\ IsContent(tmp') /\ unread' \in BOOLEAN
           /\ (pc' = to /\ tmp' = tmp) \/ pc' = "rename"
           /\ pc' = "rename" =>
                /\ tmp'.state = (IF kind = "linux" THEN "ok" ELSE "unsynced")
                /\ key' = k /\ after' = to
                /\ k = "evlog" => tmp'.evlog = v
                /\ k = "creds" => tmp'.evlog = file.evlog \/ tmp'.evlog = <<>>
                /\ unread' => kind = "sim"
                /\ k = "evlog" => tmp'.creds = IF unread' THEN 0 ELSE file.creds
<1>1. CASE WriteFails(to)
  BY <1>1 DEF WriteFails, writeVars, StoreTypes
<1>2. CASE /\ IF kind = "linux" THEN LinuxSet(k, v) ELSE SimSet(k, v, size)
           /\ Written(k, to)
  <2> DEFINE st == IF kind = "linux" THEN "ok" ELSE "unsynced"
  <2>1. PICK old : /\ old = file \/ (old = Missing /\ kind = "sim")
                   /\ tmp' = IF kind = "linux" THEN LinuxSaved(Changed(old, k, v))
                             ELSE SimSaved(Changed(old, k, v))
                   /\ unread' = (old # file)
    <3>1. CASE kind = "linux"
      BY <1>2, <3>1 DEF LinuxSet
    <3>2. CASE kind = "sim"
      BY <1>2, <3>2 DEF SimSet, SimLoaded
    <3> QED BY <3>1, <3>2 DEF StoreTypes
  <2> DEFINE new == Changed(old, k, v)
  <2>2. IsContent(Missing) /\ Missing.evlog = <<>> /\ Missing.creds = 0
    BY ContentFacts DEF Missing
  <2>3. IsContent(old)
    BY <2>1, <2>2 DEF StoreTypes
  <2>4. /\ IsContent(new)
        /\ k = "evlog" => new.creds = old.creds /\ new.evlog = v
        /\ k = "creds" => new.evlog = old.evlog
    <3>1. CASE k = "evlog"
      BY <2>3, <3>1, ChangedFacts, ContentFacts DEF IsContent
    <3>2. CASE k = "creds"
      BY <2>3, <3>2, ChangedFacts, ContentFacts DEF IsContent
    <3> QED BY <3>1, <3>2
  <2>5. tmp' = Content(st, new.evlog, new.creds)
    BY <2>1, <2>4, ChangedFacts
  <2> HIDE DEF new
  <2>6. IsContent(tmp') /\ tmp'.state = st /\ tmp'.creds = new.creds /\ tmp'.evlog = new.evlog
    BY <2>4, <2>5, ContentFacts DEF IsContent
  <2> QED BY <1>2, <2>1, <2>2, <2>4, <2>6 DEF Written
<1> QED BY <1>1, <1>2 DEF Write

\* An erasure that ends with a temporary file.
LEMMA EraseMakes ==
    ASSUME StoreTypes, Erase, UNCHANGED <<kind, file, acks>>
    PROVE  /\ pc' \in {"on", "rename"} /\ after' \in {"off", "on"}
           /\ key' \in {"evlog", "creds"} /\ IsContent(tmp') /\ unread' \in BOOLEAN
           /\ (pc' = "on" /\ tmp' = tmp) \/ pc' = "rename"
           /\ pc' = "rename" =>
                /\ tmp'.state = (IF kind = "linux" THEN "ok" ELSE "unsynced")
                /\ key' = "creds" /\ after' = "on" /\ unread' = FALSE
                /\ tmp'.evlog = file.evlog
<1>1. CASE WriteFails("on")
  BY <1>1 DEF WriteFails, writeVars, StoreTypes
<1>2. CASE (IF kind = "linux" THEN LinuxErase ELSE SimErase) /\ Written("creds", "on")
  <2> DEFINE st == IF kind = "linux" THEN "ok" ELSE "unsynced"
             new == Changed(file, "creds", 0)
  <2>1. /\ tmp' = IF kind = "linux" THEN LinuxSaved(new) ELSE SimSaved(new)
        /\ unread' = FALSE
    BY <1>2 DEF LinuxErase, LinuxSet, SimErase
  <2>2. IsContent(new) /\ new.evlog = file.evlog
    BY ChangedFacts, ContentFacts DEF StoreTypes, IsContent
  <2>3. tmp' = Content(st, new.evlog, new.creds)
    BY <2>1, <2>2, ChangedFacts
  <2> HIDE DEF new
  <2>4. IsContent(tmp') /\ tmp'.state = st /\ tmp'.evlog = new.evlog
    BY <2>2, <2>3, ContentFacts DEF IsContent
  <2> QED BY <1>2, <2>1, <2>2, <2>4 DEF Written
<1> QED BY <1>1, <1>2 DEF Erase

\* One more write that succeeded.
LEMMA AckedStays ==
    ASSUME NEW s \in Seq(Nat), NEW x \in Nat
    PROVE  /\ Range(Append(s, x)) = Range(s) \cup {x}
           /\ Append(s, x) \in Seq(Nat) /\ Len(Append(s, x)) = Len(s) + 1
           /\ Append(s, x)[Len(s) + 1] = x
BY DEF Range

\* A step that writes, with the store as it was.
LEMMA WriteKeeps ==
    ASSUME StoreInv, NEW k \in {"evlog", "creds"}, NEW v, NEW size, NEW to \in {"off", "on"},
           k = "creds" => v \in Nat, Write(k, v, size, to),
           UNCHANGED <<kind, file, disk, acks>>,
           {"power", "damage", "unread"} \cap blame' = {"power", "damage", "unread"} \cap blame
    PROVE  StoreInv'
<1>1. StoreTypes'
  BY WriteMakes DEF StoreInv, StoreTypes
<1>2. WholeInv'
  BY WriteMakes DEF StoreInv, WholeInv, Sound
<1> QED BY <1>1, <1>2 DEF StoreInv

\* What a process, a crash or a power failure finds in the NVS file was written
\* in one piece, the temporary file as well (linux_nvs.c:97-318,
\* sim_nvs.c:181-281).
THEOREM StoreInvariant == Spec => []StoreInv
<1>1. Init => StoreInv
  <2> SUFFICES ASSUME Init PROVE StoreInv
    OBVIOUS
  <2>1. /\ Range(acks) = {0} /\ acks \in Seq(Nat) /\ Len(acks) = 1 /\ acks[1] = 0
        /\ Len(acks) > 0 /\ 0 \in Range(acks)
    BY DEF Init, Range
  <2>2. IsContent(Missing) /\ Missing.state = "missing" /\ Missing.creds = 0
    BY ContentFacts DEF Missing
  <2>3. /\ kind \in {"linux", "sim"} /\ pc = "off" /\ after = "off" /\ key = "evlog"
        /\ tmp = Missing /\ unread = FALSE /\ file = Missing /\ disk = Missing
    BY DEF Init
  <2>4. StoreTypes
    BY <2>1, <2>2, <2>3, Zenon DEF StoreTypes
  <2>5. WholeInv
    BY <2>1, <2>2, <2>3 DEF WholeInv, Sound
  <2> QED BY <2>4, <2>5 DEF StoreInv
<1>2. StoreInv /\ [Next]_vars => StoreInv'
  <2> SUFFICES ASSUME StoreInv, [Next]_vars PROVE StoreInv'
    OBVIOUS
  <2>1. CASE Boot
    BY <2>1, WriteKeeps DEF Boot, StoreLog
  <2>2. CASE Record
    <3>1. CASE fresh
      BY <2>2, <3>1 DEF Record, storeVars, writeVars, StoreInv, StoreTypes, WholeInv, Sound
    <3>2. CASE ~fresh
      BY <2>2, <3>2, WriteKeeps DEF Record, StoreLog, storeVars
    <3> QED BY <3>1, <3>2
  <2>3. CASE StoreCreds
    <3>1. Len(acks) \in Nat
      BY DEF StoreInv, StoreTypes
    <3> QED BY <2>3, <3>1, WriteKeeps DEF StoreCreds, storeVars
  <2>4. CASE EraseCreds
    <3>1. CASE /\ ErasesNothing
               /\ acks' = Append(acks, 0)
               /\ blame' = IF file.creds = 0 THEN blame \ {"power", "unread"}
                           ELSE blame \cup {"unread"}
               /\ UNCHANGED <<pc, writeVars, file, disk>>
      <4>1. /\ UNCHANGED <<kind, pc, after, key, tmp, unread, file, disk>>
            /\ kind = "linux" => file.creds = 0
            /\ pc = "on"
        BY <2>4, <3>1 DEF EraseCreds, ErasesNothing, writeVars
      <4>2. /\ Range(acks') = Range(acks) \cup {0} /\ acks' \in Seq(Nat)
            /\ Len(acks') > 0 /\ acks'[Len(acks')] = 0
        BY <3>1, AckedStays DEF StoreInv, StoreTypes
      <4>3. StoreTypes'
        BY <4>1, <4>2 DEF StoreInv, StoreTypes
      <4>4. CASE file.creds = 0
        <5>1. WholeInv'
          BY <3>1, <4>1, <4>2, <4>4 DEF StoreInv, WholeInv, Sound
        <5> QED BY <4>3, <5>1 DEF StoreInv
      <4>5. CASE file.creds # 0
        <5>1. kind = "sim" /\ "unread" \in blame'
          BY <3>1, <4>1, <4>5 DEF StoreInv, StoreTypes
        <5>2. WholeInv'
          BY <3>1, <4>1, <4>2, <5>1 DEF StoreInv, WholeInv, Sound
        <5> QED BY <4>3, <5>2 DEF StoreInv
      <4> QED BY <4>3, <4>4, <4>5 DEF StoreInv
    <3>2. CASE Erase /\ UNCHANGED storeVars
      <4>1. UNCHANGED <<kind, file, disk, acks, blame>>
        BY <2>4, <3>2 DEF EraseCreds, storeVars
      <4>2. StoreTypes'
        BY <3>2, <4>1, EraseMakes DEF StoreInv, StoreTypes
      <4>3. WholeInv'
        BY <3>2, <4>1, EraseMakes DEF StoreInv, WholeInv, Sound
      <4> QED BY <4>2, <4>3 DEF StoreInv
    <3> QED BY <2>4, <3>1, <3>2 DEF EraseCreds
  <2>5. CASE Destroy
    BY <2>5, WriteKeeps DEF Destroy, StoreLog
  <2>6. CASE Rename
    <3> DEFINE more == IF unread THEN blame \cup {"unread"} ELSE blame
    <3>1. /\ pc = "rename" /\ pc' = after /\ UNCHANGED <<kind, after, key, disk>>
          /\ tmp' = Missing /\ unread' = FALSE /\ IsContent(tmp') /\ tmp.creds \in Nat
      BY <2>6, ContentFacts DEF Rename, Missing, StoreInv, StoreTypes, IsContent
    <3>2. CASE UNCHANGED <<file, acks>>
               /\ blame' = IF after = "off" THEN blame \cup {"unsaved"} ELSE blame
      BY <3>1, <3>2 DEF StoreInv, StoreTypes, WholeInv, Sound
    <3>3. CASE Renamed /\ key = "creds"
      <4>1. /\ file' = tmp /\ acks' = Append(acks, tmp.creds)
            /\ blame' = (blame \ {"power", "unread"}) \ {"unsaved"}
        BY <3>3 DEF Renamed
      <4>2. /\ Range(acks') = Range(acks) \cup {tmp.creds} /\ acks' \in Seq(Nat)
            /\ Len(acks') > 0 /\ acks'[Len(acks')] = tmp.creds
        BY <3>1, <4>1, AckedStays DEF StoreInv, StoreTypes
      <4> QED BY <3>1, <4>1, <4>2 DEF StoreInv, StoreTypes, WholeInv, Sound
    <3>4. CASE Renamed /\ key = "evlog"
      <4>1. file' = tmp /\ acks' = acks /\ blame' = more \ {"unsaved"}
        BY <3>4 DEF Renamed
      <4>2. CASE unread
        BY <3>1, <3>4, <4>1, <4>2 DEF StoreInv, StoreTypes, WholeInv, Sound
      <4>3. CASE ~unread
        BY <3>1, <3>4, <4>1, <4>3 DEF StoreInv, StoreTypes, WholeInv, Sound
      <4> QED BY <4>2, <4>3
    <3> QED BY <2>6, <3>2, <3>3, <3>4 DEF Rename, StoreInv, StoreTypes
  <2>7. CASE Drain \/ Second \/ UNCHANGED vars
    BY <2>7 DEF Drain, Second, vars, storeVars, writeVars, StoreInv, StoreTypes, WholeInv, Sound
  <2>8. CASE Crash
    BY <2>8 DEF Crash, writeVars, StoreInv, StoreTypes, WholeInv, Sound
  <2>9. CASE Commit
    <3>1. IsContent(Damaged)
      BY ContentFacts DEF Damaged
    <3> QED BY <2>9, <3>1 DEF Commit, writeVars, StoreInv, StoreTypes, WholeInv, Sound
  <2>10. CASE PowerFailure
    BY <2>10 DEF PowerFailure, writeVars, StoreInv, StoreTypes, WholeInv, Sound
  <2>11. CASE Damage
    <3>1. IsContent(Damaged)
      BY ContentFacts DEF Damaged
    <3> QED BY <2>11, <3>1 DEF Damage, writeVars, StoreInv, StoreTypes, WholeInv, Sound
  <2> QED BY <2>1, <2>2, <2>3, <2>4, <2>5, <2>6, <2>7, <2>8, <2>9, <2>10, <2>11 DEF Next
<1> QED BY <1>1, <1>2, PTL DEF Spec

\* The file can be read, and it has the credentials whose write or erasure
\* succeeded last, whichever reads and writes fail, until another program damages
\* it: earlier ones only after a power failure, and in the simulation none, or
\* the old ones, after it took a file it had not read for an empty one
\* (linux_nvs.c:97-197 load_root and save_root, sim_nvs.c:181-281).
THEOREM StoreStaysWhole == Spec => []StoreIsWhole
<1>1. StoreInv => StoreIsWhole
  BY DEF StoreInv, StoreTypes, WholeInv, Sound, StoreIsWhole, Last
<1> QED BY <1>1, StoreInvariant, PTL

-----------------------------------------------------------------------------
(* The event log *)

\* An index that wraps at most once.
LEMMA WrapIndex ==
    ASSUME NEW C \in Nat \ {0}, NEW h \in 0..C - 1, NEW i \in 0..C
    PROVE  /\ (h + i) % C \in 0..C - 1
           /\ h + i < C => (h + i) % C = h + i
           /\ h + i >= C => (h + i) % C = h + i - C
<1>1. h \in Nat /\ h < C /\ i \in Nat /\ i <= C
  OBVIOUS
<1>2. CASE h + i < C
  <2>1. (h + i) % C = h + i
    BY <1>1, <1>2
  <2> QED BY <1>1, <1>2, <2>1
<1>3. CASE h + i >= C
  <2>1. (h + i) % C = h + i - C
    BY <1>1, <1>3
  <2> QED BY <1>1, <1>3, <2>1
<1> QED BY <1>1, <1>2, <1>3

\* The same for the ring of the event log.
LEMMA CellIndex ==
    ASSUME NEW h \in 0..Capacity - 1, NEW i \in 0..Capacity
    PROVE  /\ (h + i) % Capacity \in 0..Capacity - 1
           /\ h + i < Capacity => (h + i) % Capacity = h + i
           /\ h + i >= Capacity => (h + i) % Capacity = h + i - Capacity
BY StoreAssumption, WrapIndex

\* A ring that starts at the first cell.
LEMMA FirstCell ==
    ASSUME NEW i \in 0..Capacity - 1
    PROVE  (0 + i) % Capacity = i
<1>1. 0 \in 0..Capacity - 1 /\ i \in 0..Capacity /\ 0 + i = i /\ i < Capacity
  BY StoreAssumption
<1> QED BY <1>1, CellIndex

\* The fields of a ring.
IsRing(r) ==
    /\ r.slots \in [0..Capacity - 1 -> Nat]
    /\ r.head \in 0..Capacity - 1
    /\ r.count \in 0..Capacity

\* The fields of a record that is a ring.
LEMMA RingFields ==
    ASSUME NEW s, NEW h, NEW n
    PROVE  Ring(s, h, n).slots = s /\ Ring(s, h, n).head = h /\ Ring(s, h, n).count = n
BY DEF Ring

\* What the i-th line from the oldest is.
LEMMA ViewFacts ==
    ASSUME NEW r, IsRing(r)
    PROVE  /\ View(r) \in Seq(Nat) /\ Len(View(r)) = r.count
           /\ \A i \in 1..r.count : View(r)[i] = r.slots[(r.head + (i - 1)) % Capacity]
<1>1. Capacity \in Nat \ {0} /\ r.head \in Nat /\ r.count \in Nat
  BY StoreAssumption DEF IsRing
<1>2. ASSUME NEW i \in 1..r.count
      PROVE  /\ r.head + i - 1 = r.head + (i - 1)
             /\ r.slots[(r.head + (i - 1)) % Capacity] \in Nat
  <2>1. i - 1 \in 0..Capacity
    BY <1>1 DEF IsRing
  <2>2. (r.head + (i - 1)) % Capacity \in 0..Capacity - 1
    BY <1>1, <2>1, CellIndex DEF IsRing
  <2> QED BY <1>1, <2>2 DEF IsRing
<1>3. View(r) = [i \in 1..r.count |-> r.slots[(r.head + (i - 1)) % Capacity]]
  BY <1>2 DEF View
<1> QED BY <1>1, <1>2, <1>3, SMTT(20)

\* Two different places of the ring are two different cells.
LEMMA CellsDiffer ==
    ASSUME NEW h \in 0..Capacity - 1, NEW i \in 0..Capacity - 1, NEW j \in 0..Capacity - 1,
           i # j
    PROVE  /\ (h + i) % Capacity \in 0..Capacity - 1
           /\ (h + i) % Capacity # (h + j) % Capacity
<1>1. /\ Capacity \in Nat /\ Capacity > 0
      /\ h \in Nat /\ h < Capacity
      /\ i \in 0..Capacity /\ j \in 0..Capacity
      /\ i < Capacity /\ j < Capacity
  BY StoreAssumption
<1> QED BY <1>1, CellIndex

\* The i-th of the lines that start at cell h.
LineAt(s, h, i) == s[(h + (i - 1)) % Capacity]

\* The cells with the line x in cell j.
Put(s, j, x) == [s EXCEPT ![j] = x]

\* A push into a ring with room.
LEMMA PushHasRoom ==
    ASSUME NEW s \in [0..Capacity - 1 -> Nat], NEW h \in 0..Capacity - 1,
           NEW n \in 0..Capacity - 1, NEW x \in Nat,
           NEW t, t = Put(s, (h + n) % Capacity, x)
    PROVE  /\ t \in [0..Capacity - 1 -> Nat]
           /\ LineAt(t, h, n + 1) = x
           /\ \A i \in 1..n : LineAt(t, h, i) = LineAt(s, h, i)
<1> DEFINE j == (h + n) % Capacity
<1>1. Capacity \in Nat /\ n \in 0..Capacity /\ n \in Nat /\ h \in Nat /\ h < Capacity
  BY StoreAssumption
<1>2. j \in 0..Capacity - 1
  BY <1>1, CellIndex
<1>3. ASSUME NEW i \in 1..n
      PROVE  (h + (i - 1)) % Capacity \in 0..Capacity - 1 /\ (h + (i - 1)) % Capacity # j
  <2>1. i - 1 \in 0..Capacity - 1 /\ i - 1 # n
    BY <1>1
  <2> QED BY <2>1, CellsDiffer
<1>4. (n + 1) - 1 = n
  BY <1>1
<1> HIDE DEF j
<1>5. t = [s EXCEPT ![j] = x]
  BY DEF j, Put
<1> QED BY <1>2, <1>3, <1>4, <1>5 DEF LineAt, j

\* A push into a full ring.
LEMMA PushIsFull ==
    ASSUME NEW s \in [0..Capacity - 1 -> Nat], NEW h \in 0..Capacity - 1, NEW x \in Nat,
           NEW t, t = Put(s, (h + Capacity) % Capacity, x),
           NEW g, g = (h + 1) % Capacity
    PROVE  /\ t \in [0..Capacity - 1 -> Nat] /\ g \in 0..Capacity - 1
           /\ LineAt(t, g, Capacity) = x
           /\ \A i \in 1..Capacity - 1 : LineAt(t, g, i) = LineAt(s, h, i + 1)
<1>1. Capacity \in Nat /\ Capacity > 0 /\ h \in Nat /\ h < Capacity
      /\ 1 \in 0..Capacity /\ Capacity \in 0..Capacity
  BY StoreAssumption
<1>2. (h + Capacity) % Capacity = h /\ g \in 0..Capacity - 1
  BY <1>1, CellIndex
<1>3. t = [s EXCEPT ![h] = x]
  BY <1>2 DEF Put
<1>4. ASSUME NEW i \in 1..Capacity
      PROVE  (g + (i - 1)) % Capacity
                = IF h + i < Capacity THEN h + i ELSE h + i - Capacity
  <2>1. i \in Nat /\ i >= 1 /\ i <= Capacity /\ i - 1 \in 0..Capacity
    BY <1>1
  <2>2. CASE h + 1 < Capacity
    <3>1. g = h + 1
      BY <1>1, <2>2, CellIndex
    <3>2. g + (i - 1) = h + i
      BY <1>1, <2>1, <3>1
    <3> QED BY <1>1, <1>2, <2>1, <3>2, CellIndex, SMTT(20)
  <2>3. CASE h + 1 >= Capacity
    <3>1. h = Capacity - 1 /\ g = 0
      BY <1>1, <2>3, CellIndex
    <3>2. g + (i - 1) = i - 1 /\ i - 1 < Capacity
      BY <1>1, <2>1, <3>1
    <3> QED BY <1>1, <1>2, <2>1, <3>1, <3>2, CellIndex
  <2> QED BY <1>1, <2>2, <2>3
<1>5. LineAt(t, g, Capacity) = x
  <2>1. (g + (Capacity - 1)) % Capacity = h
    BY <1>1, <1>4
  <2> QED BY <1>3, <2>1 DEF LineAt
<1>6. ASSUME NEW i \in 1..Capacity - 1
      PROVE  LineAt(t, g, i) = LineAt(s, h, i + 1)
  <2> DEFINE k == IF h + i < Capacity THEN h + i ELSE h + i - Capacity
  <2>1. i \in Nat /\ i \in 1..Capacity /\ i \in 0..Capacity /\ (i + 1) - 1 = i
    BY <1>1
  <2>2. k \in 0..Capacity - 1 /\ k # h
    BY <1>1
  <2>3. (g + (i - 1)) % Capacity = k
    BY <1>4, <2>1
  <2>4. (h + i) % Capacity = k
    <3>1. h \in 0..Capacity - 1 /\ i \in 0..Capacity
      BY <2>1
    <3>2. CASE h + i < Capacity
      BY <3>1, <3>2, CellIndex
    <3>3. CASE h + i >= Capacity
      BY <1>1, <2>1, <3>1, <3>3, CellIndex
    <3> QED BY <1>1, <2>1, <3>2, <3>3
  <2> HIDE DEF k
  <2>5. LineAt(s, h, i + 1) = s[k]
    BY <2>1, <2>4 DEF LineAt
  <2> QED BY <1>3, <2>2, <2>3, <2>5 DEF LineAt
<1> QED BY <1>2, <1>3, <1>5, <1>6

\* evlog_record without the store: the new line is the newest, and the others
\* stay in their order but for the oldest of a full ring.
LEMMA PushedFacts ==
    ASSUME NEW r, IsRing(r), NEW x \in Nat
    PROVE  LET p == Pushed(r, x)
               d == IF r.count < Capacity THEN 0 ELSE 1
           IN  /\ IsRing(p)
               /\ p.count = r.count + 1 - d
               /\ View(p)[p.count] = x
               /\ \A i \in 1..p.count - 1 : View(p)[i] = View(r)[i + d]
<1> DEFINE p == Pushed(r, x)
<1>1. PICK s \in [0..Capacity - 1 -> Nat], h \in 0..Capacity - 1, n \in 0..Capacity :
        s = r.slots /\ h = r.head /\ n = r.count
  BY DEF IsRing
<1>2. PICK t : t = Put(s, (h + n) % Capacity, x)
  OBVIOUS
<1>3. /\ s \in [0..Capacity - 1 -> Nat] /\ h \in 0..Capacity - 1 /\ n \in 0..Capacity
      /\ Capacity \in Nat /\ Capacity > 0 /\ n \in Nat
  BY <1>1, StoreAssumption DEF IsRing
<1>4. View(r) \in Seq(Nat) /\ \A i \in 1..n : View(r)[i] = LineAt(s, h, i)
  BY <1>1, ViewFacts DEF LineAt
<1>5. CASE n < Capacity
  <2>1. p = Ring(t, h, n + 1)
    BY <1>1, <1>2, <1>5 DEF Pushed, Put
  <2>2. p.slots = t /\ p.head = h /\ p.count = n + 1
    BY <2>1, RingFields
  <2>3. /\ t \in [0..Capacity - 1 -> Nat]
        /\ LineAt(t, h, n + 1) = x
        /\ \A i \in 1..n : LineAt(t, h, i) = LineAt(s, h, i)
    <3>1. n \in 0..Capacity - 1
      BY <1>3, <1>5
    <3>2. t \in [0..Capacity - 1 -> Nat]
      BY <1>2, <3>1, PushHasRoom
    <3>3. LineAt(t, h, n + 1) = x
      BY <1>2, <3>1, PushHasRoom
    <3>4. ASSUME NEW i \in 1..n PROVE LineAt(t, h, i) = LineAt(s, h, i)
      BY <1>2, <3>1, PushHasRoom
    <3> QED BY <3>2, <3>3, <3>4
  <2>4. n + 1 \in 0..Capacity /\ n + 1 \in 1..n + 1
    BY <1>3, <1>5
  <2> HIDE DEF p
  <2>5. IsRing(p)
    BY <1>3, <2>2, <2>3, <2>4 DEF IsRing
  <2>6. \A i \in 1..n + 1 : View(p)[i] = LineAt(t, h, i)
    BY <2>2, <2>5, ViewFacts DEF LineAt
  <2>7. \A i \in 1..n : View(p)[i] = View(r)[i]
    BY <1>3, <1>4, <2>3, <2>6
  <2>8. View(p)[n + 1] = x
    BY <2>3, <2>4, <2>6
  <2> QED BY <1>1, <1>3, <1>5, <2>2, <2>5, <2>7, <2>8 DEF p
<1>6. CASE n = Capacity
  <2>1. PICK g : g = (h + 1) % Capacity
    OBVIOUS
  <2>2. p = Ring(t, g, n)
    BY <1>1, <1>2, <1>3, <1>6, <2>1 DEF Pushed, Put
  <2>3. p.slots = t /\ p.head = g /\ p.count = n
    BY <2>2, RingFields
  <2>4. /\ t \in [0..Capacity - 1 -> Nat] /\ g \in 0..Capacity - 1
        /\ LineAt(t, g, n) = x
        /\ \A i \in 1..n - 1 : LineAt(t, g, i) = LineAt(s, h, i + 1)
    <3>1. t = Put(s, (h + Capacity) % Capacity, x)
      BY <1>2, <1>6
    <3>2. t \in [0..Capacity - 1 -> Nat] /\ g \in 0..Capacity - 1
      BY <2>1, <3>1, PushIsFull
    <3>3. LineAt(t, g, Capacity) = x
      BY <2>1, <3>1, PushIsFull
    <3>4. ASSUME NEW i \in 1..Capacity - 1 PROVE LineAt(t, g, i) = LineAt(s, h, i + 1)
      BY <2>1, <3>1, PushIsFull
    <3> QED BY <1>6, <3>2, <3>3, <3>4
  <2> HIDE DEF p
  <2>5. IsRing(p)
    BY <1>3, <2>3, <2>4 DEF IsRing
  <2>6. \A i \in 1..n : View(p)[i] = LineAt(t, g, i)
    BY <2>3, <2>5, ViewFacts DEF LineAt
  <2>7. \A i \in 1..n - 1 : i \in 1..n /\ i + 1 \in 1..n
    BY <1>3
  <2>8. \A i \in 1..n - 1 : View(p)[i] = View(r)[i + 1]
    BY <1>4, <2>4, <2>6, <2>7
  <2>9. View(p)[n] = x
    BY <1>3, <1>6, <2>4, <2>6
  <2> QED BY <1>1, <1>3, <1>6, <2>3, <2>5, <2>8, <2>9 DEF p
<1> QED BY <1>1, <1>3, <1>5, <1>6

\* What device_app_create makes of a log that fits: a ring with just its lines.
LEMMA ReplayedFacts ==
    ASSUME NEW log \in Seq(Nat), Len(log) <= Capacity
    PROVE  IsRing(Replayed(log)) /\ View(Replayed(log)) = log
<1> DEFINE D == 0..Len(log)
           g == [n \in D |->
                    Ring([i \in 0..Capacity - 1 |-> IF i < n THEN log[i + 1] ELSE 0], 0, n)]
           eq(f) == f = [n \in D |-> IF n = 0 THEN EmptyRing ELSE Pushed(f[n - 1], log[n])]
           r == CHOOSE f : eq(f)
<1>1. Capacity \in Nat \ {0} /\ Len(log) \in Nat /\ 0 \in D /\ Len(log) \in D
  BY StoreAssumption
<1>2. ASSUME NEW n \in D, n # 0
      PROVE  Pushed(g[n - 1], log[n]) = g[n]
  <2> DEFINE s == [i \in 0..Capacity - 1 |-> IF i < n - 1 THEN log[i + 1] ELSE 0]
             t == [i \in 0..Capacity - 1 |-> IF i < n THEN log[i + 1] ELSE 0]
  <2>1. /\ n \in Nat /\ n - 1 \in D /\ n - 1 \in 0..Capacity - 1 /\ n - 1 < Capacity
        /\ n - 1 \in 0..Capacity /\ 0 \in 0..Capacity - 1 /\ (n - 1) + 1 = n
    BY <1>1, <1>2
  <2>2. g[n - 1] = Ring(s, 0, n - 1) /\ g[n] = Ring(t, 0, n)
    BY <2>1
  <2>3. (0 + (n - 1)) % Capacity = n - 1
    BY <2>1, FirstCell
  <2>4. \A i \in 0..Capacity - 1 : i < n <=> i < n - 1 \/ i = n - 1
    BY <2>1
  <2>5. \A i \in 0..Capacity - 1 : t[i] = IF i = n - 1 THEN log[n] ELSE s[i]
    BY <2>1, <2>4
  <2>6. DOMAIN s = 0..Capacity - 1 /\ t = [i \in 0..Capacity - 1 |-> t[i]]
    OBVIOUS
  <2> HIDE DEF g, s, t
  <2>7. [s EXCEPT ![n - 1] = log[n]] = t
    BY <2>5, <2>6
  <2>8. Pushed(Ring(s, 0, n - 1), log[n]) = Ring(t, 0, n)
    <3> DEFINE q == Ring(s, 0, n - 1)
    <3>1. q.slots = s /\ q.head = 0 /\ q.count = n - 1
      BY RingFields
    <3> HIDE DEF q
    <3>2. [q.slots EXCEPT ![(q.head + q.count) % Capacity] = log[n]] = t
      BY <2>3, <2>7, <3>1
    <3>3. Pushed(q, log[n]) = Ring(t, 0, n)
      BY <2>1, <3>1, <3>2 DEF Pushed
    <3> QED BY <3>3 DEF q
  <2> QED BY <2>2, <2>8
<1>3. g[0] = EmptyRing
  <2>1. [i \in 0..Capacity - 1 |-> IF i < 0 THEN log[i + 1] ELSE 0]
          = [i \in 0..Capacity - 1 |-> 0]
    BY <1>1
  <2> QED BY <1>1, <2>1 DEF EmptyRing
<1>4. eq(g)
  <2>1. g = [n \in D |-> g[n]]
    OBVIOUS
  <2> HIDE DEF g
  <2> QED BY <1>1, <1>2, <1>3, <2>1
<1>5. eq(r)
  <2> HIDE DEF g, eq
  <2> QED BY <1>4
<1> HIDE DEF r
<1>6. \A n \in D : r[n] = IF n = 0 THEN EmptyRing ELSE Pushed(r[n - 1], log[n])
  <2> DEFINE h == [n \in D |-> IF n = 0 THEN EmptyRing ELSE Pushed(r[n - 1], log[n])]
  <2>1. r = h
    BY <1>5
  <2>2. \A n \in D : h[n] = IF n = 0 THEN EmptyRing ELSE Pushed(r[n - 1], log[n])
    OBVIOUS
  <2> HIDE DEF h
  <2> QED BY <2>1, <2>2
<1>7. \A n \in D : r[n] = g[n]
  <2> DEFINE W == {n \in D : r[n] # g[n]}
  <2> SUFFICES ASSUME W # {} PROVE FALSE
    OBVIOUS
  <2>1. W \subseteq Nat
    BY <1>1
  <2> HIDE DEF W, g
  <2>2. PICK n \in W : \A m \in W : <<m, n>> \notin OpToRel(<, Nat)
    BY <2>1, WFMin, NatLessThanWellFounded
  <2>3. n \in D /\ r[n] # g[n]
    BY DEF W
  <2>4. n # 0
    BY <1>1, <1>3, <1>6, <2>3
  <2>5. n - 1 \in D /\ n - 1 \in Nat /\ n - 1 < n
    BY <1>1, <2>3, <2>4
  <2>6. n - 1 \notin W
    <3>1. <<n - 1, n>> \in Nat \X Nat /\ <<n - 1, n>>[1] < <<n - 1, n>>[2]
      BY <2>1, <2>5
    <3> QED BY <2>2, <3>1 DEF OpToRel
  <2>7. r[n - 1] = g[n - 1]
    BY <2>5, <2>6 DEF W
  <2> QED BY <1>2, <1>6, <2>3, <2>4, <2>7
<1>8. Replayed(log) = r[Len(log)]
  BY DEF Replayed, r
<1> DEFINE s == [i \in 0..Capacity - 1 |-> IF i < Len(log) THEN log[i + 1] ELSE 0]
           q == Ring(s, 0, Len(log))
<1>9. Replayed(log) = q
  BY <1>1, <1>7, <1>8
<1>10. s \in [0..Capacity - 1 -> Nat]
  <2>1. ASSUME NEW i \in 0..Capacity - 1, i < Len(log)
        PROVE  log[i + 1] \in Nat
    <3>1. i + 1 \in 1..Len(log)
      BY <1>1, <2>1
    <3> QED BY <3>1
  <2> QED BY <2>1
<1>11. q.slots = s /\ q.head = 0 /\ q.count = Len(log)
  BY RingFields
<1> HIDE DEF q
<1>12. IsRing(q)
  <2> HIDE DEF s
  <2> QED BY <1>1, <1>10, <1>11 DEF IsRing
<1>13. ASSUME NEW i \in 1..Len(log)
       PROVE  View(q)[i] = log[i]
  <2>1. /\ i - 1 \in 0..Capacity /\ i - 1 \in 0..Capacity - 1 /\ 0 \in 0..Capacity - 1
        /\ i - 1 < Len(log) /\ (i - 1) + 1 = i /\ i - 1 < Capacity
    BY <1>1
  <2>2. (0 + (i - 1)) % Capacity = i - 1
    BY <2>1, FirstCell
  <2>3. s[i - 1] = log[i]
    BY <2>1
  <2> HIDE DEF s
  <2> QED BY <1>11, <1>12, <2>2, <2>3, ViewFacts
<1>14. View(q) \in Seq(Nat) /\ Len(View(q)) = Len(log)
  BY <1>11, <1>12, ViewFacts
<1>15. View(q) = log
  BY <1>13, <1>14, SeqEqual
<1> QED BY <1>9, <1>12, <1>15

-----------------------------------------------------------------------------
\* A log as the ring and the store hold it, when n is the newest line so far
\* and B the first lines of the processes.
Neat(log, n, B) ==
    /\ log \in Seq(Nat) /\ Len(log) <= Capacity
    /\ \A i \in 1..Len(log) : log[i] <= n
    /\ \A i \in 1..Len(log) - 1 :
        log[i] < log[i + 1] /\ (log[i + 1] \notin B => log[i + 1] = log[i] + 1)

\* The variables of the log.
LogTypes ==
    /\ last \in Nat /\ boot \in Nat /\ kept \in Nat
    /\ IsRing(ring)

\* How many lines the ring has: those that were restored and those since, as
\* many as fit; the newest line is the last one.
RingInv ==
    /\ pc # "off" => last > 0
    /\ last > 0 =>
        /\ boot <= last
        /\ ring.count = (IF kept + last - boot + 1 < Capacity
                         THEN kept + last - boot + 1 ELSE Capacity)
        /\ View(ring)[ring.count] = last

\* The log is neat wherever it is: in the ring, in the store, on its way there.
NeatInv ==
    /\ Neat(View(ring), last, boots)
    /\ Neat(file.evlog, last, boots) /\ Neat(disk.evlog, last, boots)
    /\ Neat(tmp.evlog, last, boots)

\* The end of a process: its log is on the way, and then in the store.
LogIsStored ==
    pc = "off" /\ last > 0 /\ blame \cap {"unsaved", "crash", "damage"} = {}
        => file.evlog = View(ring)
\* The log that a process stores at its end is the ring's.
StoredInv ==
    /\ pc = "rename" /\ after = "off" => key = "evlog" /\ tmp.evlog = View(ring)
    /\ LogIsStored

\* The invariant of the log.
LogInv == LogTypes /\ RingInv /\ NeatInv /\ StoredInv

\* A neat log stays neat when more lines are written.
LEMMA NeatGrows ==
    ASSUME NEW log, NEW n \in Nat, NEW m \in Nat, n <= m, NEW B, NEW C, B \subseteq C,
           Neat(log, n, B)
    PROVE  Neat(log, m, C)
<1>1. \A i \in 1..Len(log) : log[i] \in Nat
  BY DEF Neat
<1>2. \A i \in 1..Len(log) : log[i] <= m
  BY <1>1 DEF Neat
<1> QED BY <1>2 DEF Neat

\* An empty log is neat.
LEMMA NoLines ==
    ASSUME NEW n, NEW B
    PROVE  Neat(<<>>, n, B)
BY StoreAssumption DEF Neat

\* A push of the next line, the first of a process or the successor of the
\* newest one.
LEMMA PushIsNeat ==
    ASSUME NEW r, IsRing(r), NEW n \in Nat, NEW B, Neat(View(r), n, B),
           NEW C, B \subseteq C,
           n + 1 \in C \/ (r.count > 0 /\ View(r)[r.count] = n)
    PROVE  /\ IsRing(Pushed(r, n + 1))
           /\ Neat(View(Pushed(r, n + 1)), n + 1, C)
           /\ View(Pushed(r, n + 1))[Pushed(r, n + 1).count] = n + 1
           /\ Pushed(r, n + 1).count = IF r.count < Capacity THEN r.count + 1 ELSE Capacity
<1> DEFINE p == Pushed(r, n + 1)
<1>1. PICK c, q, v, w, d :
         /\ c = r.count /\ q = p.count /\ v = View(r) /\ w = View(p)
         /\ d = IF c < Capacity THEN 0 ELSE 1
  OBVIOUS
<1>2. c \in 0..Capacity /\ Capacity \in Nat /\ Capacity > 0 /\ v \in Seq(Nat) /\ Len(v) = c
  BY <1>1, ViewFacts, StoreAssumption DEF IsRing
<1>3. /\ IsRing(p) /\ q = c + 1 - d /\ w[q] = n + 1
      /\ \A i \in 1..q - 1 : w[i] = v[i + d]
  <2>1. /\ IsRing(p)
        /\ p.count = r.count + 1 - d
        /\ View(p)[p.count] = n + 1
        /\ \A i \in 1..p.count - 1 : View(p)[i] = View(r)[i + d]
    <3>1. n + 1 \in Nat /\ d = IF r.count < Capacity THEN 0 ELSE 1
      BY <1>1
    <3> QED BY <3>1, PushedFacts
  <2> HIDE DEF p
  <2> QED BY <1>1, <2>1
<1>4. w \in Seq(Nat) /\ Len(w) = q
  BY <1>1, <1>3, ViewFacts
<1> HIDE DEF p
<1>5. /\ \A i \in 1..c : v[i] \in Nat /\ v[i] <= n
      /\ \A i \in 1..c - 1 : v[i] < v[i + 1] /\ (v[i + 1] \notin B => v[i + 1] = v[i] + 1)
      /\ n + 1 \in C \/ (c > 0 /\ v[c] = n)
  BY <1>1, <1>2 DEF Neat
<1>6. /\ d \in {0, 1} /\ c \in Nat /\ q \in Nat /\ q > 0 /\ q <= Capacity
      /\ q = IF c < Capacity THEN c + 1 ELSE Capacity
  BY <1>1, <1>2, <1>3
<1>7. \A i \in 1..q - 1 : i + d \in 1..c /\ w[i] = v[i + d] /\ w[i] \in Nat /\ w[i] <= n
  BY <1>3, <1>5, <1>6
<1>8. ASSUME NEW i \in 1..q
      PROVE  w[i] <= n + 1
  <2>1. i = q \/ i \in 1..q - 1
    BY <1>6
  <2> QED BY <1>3, <1>7, <2>1
<1>9. ASSUME NEW i \in 1..q - 1
      PROVE  w[i] < w[i + 1] /\ (w[i + 1] \notin C => w[i + 1] = w[i] + 1)
  <2>1. CASE i + 1 = q
    <3>1. i + d = c
      BY <1>3, <1>6, <2>1
    <3> QED BY <1>3, <1>5, <1>7, <2>1, <3>1
  <2>2. CASE i + 1 # q
    <3>1. i + 1 \in 1..q - 1 /\ i + d \in 1..c - 1 /\ (i + 1) + d = (i + d) + 1
      BY <1>3, <1>6, <2>2
    <3> QED BY <1>3, <1>5, <3>1
  <2> QED BY <2>1, <2>2
<1>10. Neat(w, n + 1, C)
  BY <1>4, <1>6, <1>8, <1>9 DEF Neat
<1> QED BY <1>1, <1>3, <1>6, <1>10 DEF p

\* The count of a ring.
LEMMA CountIsNat ==
    ASSUME NEW r, IsRing(r)
    PROVE  r.count \in Nat /\ r.count <= Capacity
BY StoreAssumption DEF IsRing

\* The ring a process starts with.
LEMMA EmptyFacts == IsRing(EmptyRing) /\ View(EmptyRing) = <<>>
<1> DEFINE s == [i \in 0..Capacity - 1 |-> 0]
<1>1. PICK r : r = EmptyRing
  OBVIOUS
<1>2. r.slots = s /\ r.head = 0 /\ r.count = 0
  BY <1>1, RingFields DEF EmptyRing
<1>3. s \in [0..Capacity - 1 -> Nat] /\ 0 \in 0..Capacity - 1 /\ 0 \in 0..Capacity
  BY StoreAssumption
<1> HIDE DEF s
<1>4. IsRing(r)
  BY <1>2, <1>3 DEF IsRing
<1>5. View(r) \in Seq(Nat) /\ Len(View(r)) = 0
  BY <1>2, <1>4, ViewFacts
<1> QED BY <1>1, <1>4, <1>5

\* The rings device_app_create may start with.
LEMMA RestoredFacts ==
    ASSUME Neat(file.evlog, last, boots), NEW found \in Restored
    PROVE  IsRing(found) /\ Neat(View(found), last, boots)
           /\ found.count \in Nat /\ found.count <= Capacity
<1>1. CASE found = Replayed(file.evlog)
  <2>1. IsRing(Replayed(file.evlog)) /\ View(Replayed(file.evlog)) = file.evlog
    BY ReplayedFacts DEF Neat
  <2> QED BY <1>1, <2>1, CountIsNat
<1>2. CASE found = EmptyRing
  BY <1>2, EmptyFacts, NoLines, CountIsNat
<1> QED BY <1>1, <1>2 DEF Restored

\* A new device has no log.
LEMMA LogInit == Init => LogInv
<1> SUFFICES ASSUME Init PROVE LogInv
  OBVIOUS
<1>1. /\ file = Missing /\ disk = Missing /\ tmp = Missing /\ Missing.evlog = <<>>
      /\ ring = EmptyRing /\ last = 0 /\ boot = 1 /\ kept = 0 /\ pc = "off"
  BY ContentFacts DEF Init, Missing
<1>2. LogTypes /\ RingInv /\ StoredInv
  BY <1>1, EmptyFacts DEF LogTypes, RingInv, StoredInv, LogIsStored
<1>3. NeatInv
  BY <1>1, EmptyFacts, NoLines DEF NeatInv
<1> QED BY <1>2, <1>3 DEF LogInv

\* evlog_record and device_app_create: the ring gets its next line.
LEMMA LineIsNeat ==
    ASSUME LogInv, NEW r, IsRing(r), Neat(View(r), last, boots), Line(r),
           boots \subseteq boots',
           last + 1 \in boots' \/ (r.count > 0 /\ View(r)[r.count] = last)
    PROVE  /\ last \in Nat /\ last' = last + 1
           /\ IsRing(ring') /\ View(ring')[ring'.count] = last'
           /\ ring'.count = IF r.count < Capacity THEN r.count + 1 ELSE Capacity
           /\ Neat(View(ring'), last', boots')
           /\ \A log : Neat(log, last, boots) => Neat(log, last', boots')
<1>1. last \in Nat /\ last' = last + 1 /\ ring' = Pushed(r, last + 1)
  BY DEF LogInv, LogTypes, Line
<1>2. last' \in Nat /\ last <= last'
  BY <1>1
<1>3. \A log : Neat(log, last, boots) => Neat(log, last', boots')
  BY <1>1, <1>2, NeatGrows
<1>4. /\ IsRing(Pushed(r, last + 1))
      /\ Neat(View(Pushed(r, last + 1)), last + 1, boots')
      /\ View(Pushed(r, last + 1))[Pushed(r, last + 1).count] = last + 1
      /\ Pushed(r, last + 1).count = IF r.count < Capacity THEN r.count + 1 ELSE Capacity
  BY <1>1, PushIsNeat
<1> QED BY <1>1, <1>3, <1>4

\* A write of the log, or of the credentials, that leaves a temporary file.
LEMMA WriteIsNeat ==
    ASSUME StoreTypes, Neat(file.evlog, last', boots'), Neat(tmp.evlog, last', boots'),
           NEW k \in {"evlog", "creds"}, NEW v, NEW size, NEW to \in {"off", "on"},
           k = "creds" => v \in Nat, k = "evlog" => Neat(v, last', boots'),
           Write(k, v, size, to), UNCHANGED <<kind, file, acks>>
    PROVE  /\ Neat(tmp'.evlog, last', boots')
           /\ pc' \in {to, "rename"}
           /\ pc' = "rename" => after' = to /\ key' = k
           /\ pc' = "rename" /\ k = "evlog" => tmp'.evlog = v
<1>1. /\ (pc' = to /\ tmp' = tmp) \/ pc' = "rename"
      /\ pc' = "rename" =>
           /\ key' = k /\ after' = to
           /\ k = "evlog" => tmp'.evlog = v
           /\ k = "creds" => tmp'.evlog = file.evlog \/ tmp'.evlog = <<>>
  BY WriteMakes
<1> QED BY <1>1, NoLines

\* Record: the process goes on, and may write.
LEMMA RecordKeepsLog ==
    ASSUME StoreInv, LogInv, Record
    PROVE  LogInv'
<1>1. /\ pc = "on" /\ Line(ring) /\ fresh' = TRUE
      /\ UNCHANGED <<kind, boot, kept, boots, file, disk, acks, blame>>
      /\ IF fresh THEN UNCHANGED <<pc, after, key, tmp>> ELSE StoreLog(View(ring'), "on")
  BY DEF Record, storeVars, writeVars
<1>2. /\ last > 0 /\ last \in Nat /\ boot \in Nat /\ kept \in Nat /\ Capacity \in Nat
      /\ IsRing(ring) /\ ring.count \in Nat
      /\ Capacity > 0 /\ boot <= last /\ View(ring)[ring.count] = last
      /\ ring.count = (IF kept + last - boot + 1 < Capacity
                       THEN kept + last - boot + 1 ELSE Capacity)
  BY <1>1, CountIsNat, StoreAssumption DEF LogInv, LogTypes, RingInv
<1>3. /\ last' = last + 1
      /\ IsRing(ring') /\ View(ring')[ring'.count] = last'
      /\ ring'.count = IF ring.count < Capacity THEN ring.count + 1 ELSE Capacity
      /\ Neat(View(ring'), last', boots')
      /\ \A log : Neat(log, last, boots) => Neat(log, last', boots')
  <2>1. ring.count > 0
    BY <1>2
  <2> QED BY <1>1, <1>2, <2>1, LineIsNeat DEF LogInv, NeatInv
<1>4. Neat(file'.evlog, last', boots') /\ Neat(disk'.evlog, last', boots')
      /\ Neat(tmp.evlog, last', boots')
  BY <1>1, <1>3 DEF LogInv, NeatInv
<1>5. Neat(tmp'.evlog, last', boots') /\ pc' \in {"on", "rename"}
      /\ (pc' = "rename" => after' = "on")
  <2>1. CASE fresh
    BY <1>1, <1>4, <2>1
  <2>2. CASE ~fresh
    BY <1>1, <1>3, <1>4, <2>2, WriteIsNeat DEF StoreInv, StoreLog
  <2> QED BY <2>1, <2>2
<1>6. LogTypes'
  BY <1>1, <1>2, <1>3 DEF LogTypes
<1>7. RingInv'
  <2> DEFINE c == ring'.count
  <2>1. c = IF ring.count < Capacity THEN ring.count + 1 ELSE Capacity
    BY <1>3
  <2> HIDE DEF c
  <2>2. c = (IF kept + last' - boot + 1 < Capacity THEN kept + last' - boot + 1 ELSE Capacity)
    BY <1>2, <1>3, <2>1
  <2> QED BY <1>1, <1>2, <1>3, <2>2 DEF RingInv, c
<1>8. NeatInv' /\ StoredInv'
  BY <1>3, <1>4, <1>5 DEF NeatInv, StoredInv, LogIsStored
<1> QED BY <1>6, <1>7, <1>8 DEF LogInv

\* Boot: the restored lines and a first one.
LEMMA BootKeepsLog ==
    ASSUME StoreInv, LogInv, Boot
    PROVE  LogInv'
<1>1. PICK found \in Restored :
      /\ Line(found) /\ kept' = found.count
      /\ boot' = last' /\ boots' = boots \cup {last'}
      /\ StoreLog(View(ring'), "on")
      /\ UNCHANGED <<kind, file, disk, acks>>
  BY DEF Boot
<1>2. /\ IsRing(found) /\ Neat(View(found), last, boots) /\ found.count \in Nat
      /\ last \in Nat /\ Capacity \in Nat /\ Capacity > 0
      /\ found.count <= Capacity
  BY RestoredFacts, StoreAssumption DEF LogInv, LogTypes, NeatInv
<1>3. /\ last' = last + 1
      /\ IsRing(ring') /\ View(ring')[ring'.count] = last'
      /\ ring'.count = IF found.count < Capacity THEN found.count + 1 ELSE Capacity
      /\ Neat(View(ring'), last', boots')
      /\ \A log : Neat(log, last, boots) => Neat(log, last', boots')
  <2>1. last + 1 \in boots' /\ boots \subseteq boots'
    BY <1>1 DEF Line
  <2> QED BY <1>1, <1>2, <2>1, LineIsNeat
<1>4. Neat(file'.evlog, last', boots') /\ Neat(disk'.evlog, last', boots')
      /\ Neat(tmp.evlog, last', boots')
  BY <1>1, <1>3 DEF LogInv, NeatInv
<1>5. Neat(tmp'.evlog, last', boots') /\ pc' \in {"on", "rename"}
      /\ (pc' = "rename" => after' = "on")
  BY <1>1, <1>3, <1>4, WriteIsNeat DEF StoreInv, StoreLog
<1>6. LogTypes'
  BY <1>1, <1>2, <1>3 DEF LogTypes
<1>7. RingInv'
  BY <1>1, <1>2, <1>3 DEF RingInv
<1>8. NeatInv' /\ StoredInv'
  BY <1>3, <1>4, <1>5 DEF NeatInv, StoredInv, LogIsStored
<1> QED BY <1>6, <1>7, <1>8 DEF LogInv

\* The steps that add no line.
LEMMA NoLineKeepsLog ==
    ASSUME LogInv, UNCHANGED logVars, StoredInv', pc' # "off" => pc # "off",
           Neat(file'.evlog, last, boots), Neat(disk'.evlog, last, boots),
           Neat(tmp'.evlog, last, boots)
    PROVE  LogInv'
BY DEF LogInv, LogTypes, RingInv, NeatInv, logVars

\* Every step keeps the log neat.
LEMMA LogStep == StoreInv /\ LogInv /\ [Next]_vars => LogInv'
<1> SUFFICES ASSUME StoreInv, LogInv, [Next]_vars PROVE LogInv'
  OBVIOUS
<1>1. Neat(file.evlog, last, boots) /\ Neat(disk.evlog, last, boots)
      /\ Neat(tmp.evlog, last, boots) /\ Neat(View(ring), last, boots)
  BY DEF LogInv, NeatInv
<1>2. CASE StoreCreds \/ EraseCreds
  <2>1. UNCHANGED logVars /\ pc = "on"
    BY <1>2 DEF StoreCreds, EraseCreds
  <2>2. CASE UNCHANGED <<pc, writeVars, file, disk>>
    BY <1>1, <2>1, <2>2, NoLineKeepsLog DEF writeVars, StoredInv, LogIsStored
  <2>3. CASE /\ Write("creds", Len(acks), 1, "on") \/ Erase
             /\ UNCHANGED <<kind, file, disk, acks, blame>>
    <3>1. Len(acks) \in Nat /\ last' = last /\ boots' = boots
      BY <2>1 DEF StoreInv, StoreTypes, logVars
    <3>2. Neat(tmp'.evlog, last, boots) /\ pc' \in {"on", "rename"}
          /\ (pc' = "rename" => after' = "on")
      <4>1. CASE Write("creds", Len(acks), 1, "on")
        BY <1>1, <2>3, <3>1, <4>1, WriteIsNeat DEF StoreInv
      <4>2. CASE Erase
        BY <1>1, <2>3, <4>2, EraseMakes DEF StoreInv
      <4> QED BY <2>3, <4>1, <4>2
    <3> QED BY <1>1, <2>1, <2>3, <3>2, NoLineKeepsLog DEF StoredInv, LogIsStored
  <2> QED BY <1>2, <2>2, <2>3 DEF StoreCreds, EraseCreds, storeVars
<1>3. CASE Destroy
  <2>1. /\ pc = "on" /\ StoreLog(View(ring), "off") /\ UNCHANGED <<kind, file, disk, acks>>
        /\ UNCHANGED logVars
        /\ blame' = IF pc' = "off" THEN blame \cup {"unsaved"} ELSE blame
    BY <1>3 DEF Destroy
  <2>2. last' = last /\ boots' = boots /\ ring' = ring
    BY <2>1 DEF logVars
  <2>3. /\ Neat(tmp'.evlog, last, boots) /\ pc' \in {"off", "rename"}
        /\ (pc' = "rename" => after' = "off" /\ key' = "evlog" /\ tmp'.evlog = View(ring))
    BY <1>1, <2>1, <2>2, WriteIsNeat DEF StoreInv, StoreLog
  <2>4. StoredInv'
    BY <2>1, <2>2, <2>3 DEF StoredInv, LogIsStored
  <2> QED BY <1>1, <2>1, <2>3, <2>4, NoLineKeepsLog
<1>4. CASE Rename
  <2>1. /\ pc = "rename" /\ pc' = after /\ UNCHANGED <<kind, after, key, disk>>
        /\ UNCHANGED logVars /\ tmp' = Missing /\ Missing.evlog = <<>>
        /\ \/ file' = tmp
           \/ file' = file /\ (after = "off" => "unsaved" \in blame')
    BY <1>4, ContentFacts DEF Rename, Renamed, Missing
  <2>2. StoredInv'
    BY <2>1 DEF LogInv, StoredInv, LogIsStored, StoreInv, StoreTypes, logVars
  <2>3. Neat(file'.evlog, last, boots) /\ Neat(disk'.evlog, last, boots)
        /\ Neat(tmp'.evlog, last, boots)
    BY <1>1, <2>1, NoLines
  <2> QED BY <2>1, <2>2, <2>3, NoLineKeepsLog
<1>5. CASE Drain \/ Second \/ UNCHANGED vars
  <2>1. UNCHANGED <<pc, after, key, tmp, file, disk, blame>>
        /\ UNCHANGED <<ring, last, boot, kept, boots>>
    BY <1>5 DEF Drain, Second, vars, logVars, storeVars, writeVars
  <2> QED BY <2>1 DEF LogInv, LogTypes, RingInv, NeatInv, StoredInv, LogIsStored
<1>6. CASE Crash \/ PowerFailure
  <2>1. /\ pc' = "off" /\ "crash" \in blame' /\ UNCHANGED logVars
        /\ file' \in {file, disk} /\ UNCHANGED <<disk, tmp>>
    BY <1>6 DEF Crash, PowerFailure, writeVars
  <2> QED BY <1>1, <2>1, NoLineKeepsLog DEF StoredInv, LogIsStored
<1>7. CASE Commit \/ Damage
  <2>1. Damaged.evlog = <<>>
    BY ContentFacts DEF Damaged
  <2>2. Neat(file'.evlog, last, boots) /\ Neat(disk'.evlog, last, boots)
    BY <1>1, <1>7, <2>1, NoLines DEF Commit, Damage
  <2>3. UNCHANGED logVars /\ UNCHANGED <<pc, after, key, tmp>>
        /\ ((file' = file /\ blame' = blame) \/ "damage" \in blame')
    BY <1>7 DEF Commit, Damage, writeVars
  <2>4. StoredInv'
    BY <2>3 DEF LogInv, StoredInv, LogIsStored, logVars
  <2> QED BY <1>1, <2>2, <2>3, <2>4, NoLineKeepsLog
<1> QED BY <1>2, <1>3, <1>4, <1>5, <1>6, <1>7, BootKeepsLog, RecordKeepsLog DEF Next

-----------------------------------------------------------------------------
\* The places of the long lines of a log.
Longs(log) == {i \in DOMAIN log : log[i] \in Long}

\* The size of a log: its lines and its long lines.
LEMMA SizeFacts ==
    ASSUME NEW log \in Seq(Nat)
    PROVE  /\ IsFiniteSet(Longs(log))
           /\ Size(log) = Len(log) + Cardinality(Longs(log))
           /\ Size(log) \in Nat
<1>1. Len(log) \in Nat /\ DOMAIN log = 1..Len(log)
  OBVIOUS
<1>2. IsFiniteSet(1..Len(log))
  BY <1>1, FS_Interval
<1>3. IsFiniteSet(Longs(log))
  BY <1>1, <1>2, FS_Subset DEF Longs
<1>4. Size(log) = Len(log) + Cardinality(Longs(log))
  BY DEF Size, Longs
<1> QED BY <1>1, <1>3, <1>4, FS_CardinalityType

\* An empty log has no size.
LEMMA NothingIsSmall == \A log \in Seq(Nat) : Len(log) = 0 => Size(log) = 0
<1> SUFFICES ASSUME NEW log \in Seq(Nat), Len(log) = 0 PROVE Size(log) = 0
  OBVIOUS
<1>1. Longs(log) = {}
  BY DEF Longs
<1>2. Size(log) = Len(log) + Cardinality(Longs(log))
  BY SizeFacts
<1>3. Cardinality(Longs(log)) = 0
  BY <1>1, FS_EmptySet
<1> QED BY <1>2, <1>3

\* What SubSeq cuts off a log.
LEMMA TailFacts ==
    ASSUME NEW log \in Seq(Nat), NEW k \in 0..Len(log)
    PROVE  /\ SubSeq(log, k + 1, Len(log)) \in Seq(Nat)
           /\ Len(SubSeq(log, k + 1, Len(log))) = Len(log) - k
           /\ \A i \in 1..Len(log) - k : SubSeq(log, k + 1, Len(log))[i] = log[i + k]
<1>1. Len(log) \in Nat /\ k \in Nat
  OBVIOUS
<1>2. \A i \in k + 1..Len(log) : log[i] \in Nat
  BY <1>1
<1>3. PICK n, s : n = k + 1 /\ s = SubSeq(log, n, Len(log))
  OBVIOUS
<1>4. n \in Nat /\ n - 1 = k
  BY <1>1, <1>3
<1>5. /\ s \in Seq(Nat)
      /\ Len(s) = IF n <= Len(log) THEN Len(log) - n + 1 ELSE 0
      /\ \A i \in 1..Len(log) - n + 1 : s[i] = log[n + i - 1]
  BY <1>1, <1>2, <1>3, <1>4, SubSeqProperties
<1>6. Len(s) = Len(log) - k
  BY <1>1, <1>4, <1>5
<1>7. ASSUME NEW i \in 1..Len(log) - k PROVE s[i] = log[i + k]
  <2>1. i \in 1..Len(log) - n + 1 /\ n + i - 1 = i + k
    BY <1>1, <1>4
  <2> QED BY <1>5, <2>1
<1> QED BY <1>3, <1>5, <1>6, <1>7

\* The last lines of a log are no longer than the log.
LEMMA TailIsSmaller ==
    ASSUME NEW log \in Seq(Nat), NEW k \in 0..Len(log), NEW tail \in Seq(Nat),
           Len(tail) = Len(log) - k, \A i \in 1..Len(log) - k : tail[i] = log[i + k]
    PROVE  Size(tail) <= Size(log)
<1>1. Len(log) \in Nat /\ DOMAIN log = 1..Len(log) /\ k \in Nat
  OBVIOUS
<1>2. Cardinality(Longs(tail)) <= Cardinality(Longs(log))
  <2> DEFINE f == [i \in Longs(tail) |-> i + k]
  <2>1. ASSUME NEW i \in Longs(tail) PROVE i + k \in Longs(log) /\ i \in Nat
    <3>1. i \in DOMAIN tail /\ tail[i] \in Long
      BY DEF Longs
    <3>2. DOMAIN tail = 1..Len(log) - k
      OBVIOUS
    <3>3. tail[i] = log[i + k]
      BY <3>1, <3>2
    <3>4. i + k \in DOMAIN log /\ i \in Nat
      BY <1>1, <3>1, <3>2
    <3>5. log[i + k] \in Long
      BY <3>1, <3>3
    <3> QED BY <3>4, <3>5 DEF Longs
  <2>2. f \in Injection(Longs(tail), Longs(log))
    BY <1>1, <2>1 DEF Injection, IsInjective
  <2>3. IsFiniteSet(Longs(tail)) /\ IsFiniteSet(Longs(log))
    BY SizeFacts
  <2> QED BY <2>2, <2>3, FS_Injection
<1>3. IsFiniteSet(Longs(tail)) /\ Size(tail) = Len(tail) + Cardinality(Longs(tail))
  BY SizeFacts
<1>4. IsFiniteSet(Longs(log)) /\ Size(log) = Len(log) + Cardinality(Longs(log))
  BY SizeFacts
<1>5. Cardinality(Longs(tail)) \in Nat /\ Cardinality(Longs(log)) \in Nat
  BY <1>3, <1>4, FS_CardinalityType
<1>6. Len(tail) <= Len(log)
  BY <1>1
<1>7. \A a, b, c, d \in Nat : a <= c /\ b <= d => a + b <= c + d
  OBVIOUS
<1>8. Len(tail) \in Nat
  OBVIOUS
<1> QED BY <1>1, <1>2, <1>3, <1>4, <1>5, <1>6, <1>7, <1>8

\* evlog_fill_report: the loop stops, with what fits or at the end.
LEMMA LastFits ==
    ASSUME NEW tail \in Seq(Nat)
    PROVE  \E n \in 0..Len(tail) :
               /\ Size(SubSeq(tail, 1, n)) <= ReportCap
               /\ n < Len(tail) => Size(SubSeq(tail, 1, n + 1)) > ReportCap
<1> DEFINE TooMuch == {n \in 0..Len(tail) : Size(SubSeq(tail, 1, n)) > ReportCap}
<1>1. Len(tail) \in Nat /\ ReportCap \in Nat
  BY StoreAssumption
<1>2. ASSUME NEW n \in 0..Len(tail) PROVE SubSeq(tail, 1, n) \in Seq(Nat)
                                         /\ Size(SubSeq(tail, 1, n)) \in Nat
  <2>1. SubSeq(tail, 1, n) \in Seq(Nat)
    BY <1>1
  <2> QED BY <2>1, SizeFacts
<1>3. Size(SubSeq(tail, 1, 0)) = 0
  <2>1. SubSeq(tail, 1, 0) \in Seq(Nat) /\ Len(SubSeq(tail, 1, 0)) = 0
    OBVIOUS
  <2> QED BY <2>1, NothingIsSmall
<1>4. CASE TooMuch = {}
  <2>1. Len(tail) \in 0..Len(tail) /\ Size(SubSeq(tail, 1, Len(tail))) <= ReportCap
    BY <1>1, <1>2, <1>4
  <2> QED BY <1>1, <2>1
<1>5. CASE TooMuch # {}
  <2>1. TooMuch \subseteq Nat
    BY <1>1
  <2> HIDE DEF TooMuch
  <2>2. PICK m \in TooMuch : \A j \in TooMuch : <<j, m>> \notin OpToRel(<, Nat)
    BY <1>5, <2>1, WFMin, NatLessThanWellFounded
  <2>3. m \in 0..Len(tail) /\ Size(SubSeq(tail, 1, m)) > ReportCap
    BY DEF TooMuch
  <2>4. m # 0
    BY <1>1, <1>3, <2>3
  <2>5. m - 1 \in 0..Len(tail) /\ m - 1 \in Nat /\ m - 1 < m /\ (m - 1) + 1 = m
    BY <1>1, <2>3, <2>4
  <2>6. m - 1 \notin TooMuch
    <3>1. <<m - 1, m>> \in Nat \X Nat /\ <<m - 1, m>>[1] < <<m - 1, m>>[2]
      BY <2>1, <2>5
    <3> QED BY <2>2, <3>1 DEF OpToRel
  <2>7. Size(SubSeq(tail, 1, m - 1)) <= ReportCap
    BY <1>1, <1>2, <2>5, <2>6 DEF TooMuch
  <2> QED BY <2>3, <2>5, <2>7
<1> QED BY <1>4, <1>5

\* evlog_fill_report: what fits; the newest line is in it if everything fits.
LEMMA ReportFacts ==
    ASSUME NEW log \in Seq(Nat)
    PROVE  /\ Size(Report(log)) <= ReportCap
           /\ Size(log) <= ReportCap /\ Len(log) > 0 => Last(Report(log)) = log[Len(log)]
<1> DEFINE k == Len(log) - (IF Len(log) > ReportMax THEN ReportMax ELSE Len(log))
           tail == SubSeq(log, k + 1, Len(log))
           fits(n) == /\ Size(SubSeq(tail, 1, n)) <= ReportCap
                      /\ n < Len(tail) => Size(SubSeq(tail, 1, n + 1)) > ReportCap
           m == CHOOSE n \in 0..Len(tail) : fits(n)
<1>1. /\ Len(log) \in Nat /\ ReportMax \in Nat /\ ReportMax > 0 /\ ReportCap \in Nat
      /\ k \in 0..Len(log) /\ (Len(log) > 0 => k < Len(log))
  BY StoreAssumption
<1>2. Report(log) = SubSeq(tail, 1, m)
  BY DEF Report
<1> HIDE DEF k
<1>3. /\ tail \in Seq(Nat) /\ Len(tail) = Len(log) - k
      /\ \A i \in 1..Len(log) - k : tail[i] = log[i + k]
      /\ Size(tail) <= Size(log)
  <2>1. tail \in Seq(Nat) /\ Len(tail) = Len(log) - k
    BY <1>1, TailFacts
  <2>2. \A i \in 1..Len(log) - k : tail[i] = log[i + k]
    BY <1>1, TailFacts
  <2> HIDE DEF tail
  <2>3. Size(tail) <= Size(log)
    BY <1>1, <2>1, <2>2, TailIsSmaller
  <2> QED BY <2>1, <2>2, <2>3
<1> HIDE DEF tail
<1>4. m \in 0..Len(tail) /\ fits(m)
  BY <1>3, LastFits
<1> HIDE DEF m
<1>5. ASSUME Size(log) <= ReportCap, Len(log) > 0
      PROVE  Last(Report(log)) = log[Len(log)]
  <2>1. m = Len(tail)
    <3>1. CASE m < Len(tail)
      <4> DEFINE part == SubSeq(tail, 1, m + 1)
      <4>1. Size(part) > ReportCap /\ m + 1 \in 0..Len(tail)
        BY <1>1, <1>3, <1>4, <3>1
      <4>2. Size(part) <= Size(tail)
        <5>1. part \in Seq(Nat) /\ Len(part) = m + 1
              /\ \A i \in 1..m + 1 : part[i] = tail[i]
          BY <1>3, <4>1
        <5> HIDE DEF part
        <5>2. Longs(part) \subseteq Longs(tail)
          BY <1>3, <4>1, <5>1 DEF Longs
        <5>3. Cardinality(Longs(part)) <= Cardinality(Longs(tail))
          BY <1>3, <5>2, SizeFacts, FS_Subset
        <5>4. Cardinality(Longs(part)) \in Nat /\ Cardinality(Longs(tail)) \in Nat
          BY <1>3, <5>1, SizeFacts, FS_CardinalityType
        <5> QED BY <1>3, <4>1, <5>1, <5>3, <5>4, SizeFacts
      <4>3. Size(part) \in Nat /\ Size(tail) \in Nat /\ Size(log) \in Nat
        <5>1. part \in Seq(Nat)
          BY <1>3, <4>1
        <5> QED BY <1>3, <5>1, SizeFacts
      <4> QED BY <1>1, <1>3, <1>5, <4>1, <4>2, <4>3
    <3> QED BY <1>1, <1>3, <1>4, <3>1
  <2>2. Len(tail) > 0 /\ Len(tail) \in Nat /\ Len(tail) + k = Len(log)
    BY <1>1, <1>3, <1>5
  <2>3. Report(log) = tail
    BY <1>2, <1>3, <2>1
  <2>4. Last(tail) = tail[Len(tail)]
    BY DEF Last
  <2> QED BY <1>3, <2>2, <2>3, <2>4
<1> QED BY <1>2, <1>4, <1>5

-----------------------------------------------------------------------------
\* Wherever the log is, its lines are in order and without a gap but where a
\* process started, and the ring has as many as it should have
\* (device_eventlog.c:12-84, device_app.c:588-612).
THEOREM StoreLogInvariant == Spec => []LogInv
BY LogInit, LogStep, StoreInvariant, PTL DEF Spec

\* The log of a process has the lines it found and its own ones in order, the
\* newest ones as far as there is room; it is in the store when the process has
\* ended, unless a write failed; a report is no longer than its buffer and ends
\* with the newest line if everything fits (device_eventlog.c:12-84).
THEOREM StoreLogIsKept == Spec => []LogIsKept
<1>1. LogInv => LogIsKept
  <2> SUFFICES ASSUME LogInv PROVE LogIsKept
    OBVIOUS
  <2> DEFINE log == View(ring)
             c == ring.count
  <2>1. /\ log \in Seq(Nat) /\ Len(log) = c /\ c \in Nat /\ last \in Nat
        /\ Neat(log, last, boots)
    BY ViewFacts, CountIsNat DEF LogInv, LogTypes, NeatInv
  <2>2. last > 0 => c > 0 /\ log[c] = last
    BY StoreAssumption DEF LogInv, LogTypes, RingInv
  <2>3. LogInOrder
    BY <2>1, <2>2 DEF LogInOrder, LogInv, RingInv, Neat, Last
  <2>4. Size(Report(log)) <= ReportCap
    BY <2>1, ReportFacts
  <2>5. Size(log) <= ReportCap /\ last > 0 => Last(Report(log)) = last
    BY <2>1, <2>2, ReportFacts
  <2> QED BY <2>3, <2>4, <2>5 DEF LogIsKept, LogInv, StoredInv, LogIsStored
<1> QED BY <1>1, StoreLogInvariant, PTL

-----------------------------------------------------------------------------
\* Type correctness of the store, the event log and the log queue
\* (linux_nvs.c, sim_nvs.c, device_eventlog.c, device_log_queue.c).
THEOREM StoreTypeOK == Spec => []TypeOK
<1> DEFINE Rest == last \in 0..MaxLines /\ fresh \in BOOLEAN
<1>4. MaxLines \in Nat
  BY StoreAssumption
<1>1. Init => Rest
  <2> SUFFICES ASSUME Init PROVE Rest
    OBVIOUS
  <2>1. last = 0 /\ fresh = FALSE
    BY DEF Init
  <2>2. 0 \in 0..MaxLines
    BY <1>4
  <2> QED BY <2>1, <2>2
<1>2. Rest /\ [Next]_vars => Rest'
  <2> SUFFICES ASSUME Rest, [Next]_vars PROVE Rest'
    OBVIOUS
  <2>1. CASE Boot \/ Record
    <3>1. last < MaxLines /\ last' = last + 1 /\ fresh' = TRUE
      BY <2>1 DEF Boot, Record, Line
    <3> QED BY <1>4, <3>1
  <2>2. CASE Second
    BY <2>2 DEF Second
  <2>3. UNCHANGED <<last, fresh>> \/ Boot \/ Record \/ Second
    BY DEF Next, vars, logVars, StoreCreds, EraseCreds, Destroy, Rename, Drain, Crash, Commit,
           PowerFailure, Damage
  <2> QED BY <2>1, <2>2, <2>3
<1>3. Rest /\ StoreInv /\ LogInv /\ QueueInv => TypeOK
  BY DEF StoreInv, StoreTypes, LogInv, LogTypes, IsRing, QueueInv, TypeOK
<1> QED BY <1>1, <1>2, <1>3, StoreInvariant, StoreLogInvariant, StoreQueueInvariant, PTL
        DEF Spec

-----------------------------------------------------------------------------
(* The hotspot *)

\* The phases of a start that has taken an address plan.
Working == {"iface", "conf", "hostapd", "hostapd_wait", "addr", "dnsmasq",
            "dnsmasq_wait", "nat", "rule"}
\* A start is at work, or has left flags.
Engaged(i) == step[i] \in Working \/ own[i] # {}

\* Only the process that holds the lock has flags, and the steps of a start
\* set and clear them in one order: the interface first and last.
LockInv ==
    /\ \A i, j \in Instances : Alive(i) /\ Alive(j) => i = j
    /\ \A i \in Instances :
        /\ own[i] # {} => Alive(i) /\ "iface" \in own[i] /\ step[i] # "begin"
        /\ own[i] # {} /\ step[i] = "ready" => active[i]
        /\ active[i] => step[i] \in {"ready", "undo"}
        /\ step[i] \in Working \ {"iface"} => "iface" \in own[i]
        /\ step[i] = "iface" => own[i] = {}
        /\ step[i] = "conf" => "conf" \notin own[i]
        /\ step[i] \in {"conf", "hostapd"} => "hostapd" \notin own[i]
        /\ step[i] \in {"conf", "hostapd", "hostapd_wait", "addr", "dnsmasq"} =>
            "dnsmasq" \notin own[i]

\* What the flags stand for bears the number of the start.
HeldInv ==
    /\ \A i \in Instances :
        /\ cur[i] # Nobody => Mine(i, cur[i])
        /\ Engaged(i) => cur[i] # Nobody /\ plan[i] # NoPlan
        /\ "iface" \in own[i] => iface = cur[i]
        /\ "conf" \in own[i] => conf = cur[i]
        /\ "nat" \in own[i] => rule[plan[i]] = cur[i]
        /\ step[i] = "iface" => iface \in {Nobody, Other}
        /\ step[i] \in {"iface", "conf"} => conf = Nobody
        /\ step[i] = "rule" => rule[plan[i]] = Nobody

\* A daemon that has no pidfile yet has its process's flag, unless it was too late
Keeps(n, r) ==
    /\ n \in DOMAIN madeBy /\ n = cur[madeBy[n]]
    /\ r \in own[madeBy[n]] \/ step[madeBy[n]] = "crashed"

\* As long as no rollback came too late for a daemon that had no pidfile yet:
\* such a daemon has its process's flag, or dies with it on the interface; the
\* pidfiles name no one else's daemon, and the one a start is about to write is
\* not there.
DaemonInv ==
    "late" \notin mishaps =>
        /\ \A d \in Daemons, n \in Starts : daemon[d][n] = "born" =>
            /\ Keeps(n, d)
            /\ step[madeBy[n]] = "crashed" => iface = n
        /\ \A i \in Instances, d \in Daemons :
            /\ Engaged(i) => pidfile[d] \in {Nobody, cur[i]}
            /\ step[i] \in Working /\ d \notin own[i] => pidfile[d] = Nobody
        /\ \A d \in Daemons : pidfile[d] # Nobody => daemon[d][pidfile[d]] # "born"

\* As long as nothing else went wrong: whatever is left of a start on the machine
\* bears the flag of its process, or that process has crashed.
CleanInv ==
    mishaps = {} =>
        /\ iface \notin {Nobody, Other} => Keeps(iface, "iface")
        /\ conf # Nobody => Keeps(conf, "conf")
        /\ \A s \in Subnets : rule[s] # Nobody =>
            Keeps(rule[s], "nat") /\ plan[madeBy[rule[s]]] = s
        /\ \A d \in Daemons, n \in Starts :
            daemon[d][n] \in {"born", "up"} => Keeps(n, d)
        /\ \A d \in Daemons : pidfile[d] # Nobody => daemon[d][pidfile[d]] = "up"

\* The variables of the processes, and those of the machine.
HotspotTypes ==
    /\ step \in [Instances -> Phases]
    /\ then \in [Instances -> {"ready", "begin", "gone"}]
    /\ own \in [Instances -> SUBSET Resources]
    /\ active \in [Instances -> BOOLEAN]

\* linux_hotspot_select_plan: the first free candidate, or no plan.
LEMMA SelectedIsPlan ==
    ASSUME NEW routes
    PROVE  Selected(routes) \in Subnets \cup {NoPlan}
<1> DEFINE free == {k \in DOMAIN Candidates : Candidates[k] \notin routes}
<1>1. CASE free = {}
  BY <1>1 DEF Selected
<1>2. CASE free # {}
  <2>1. free \subseteq Nat /\ DOMAIN Candidates = 1..Len(Candidates)
    BY HotspotAssumption
  <2>2. PICK k \in free : \A j \in free : <<j, k>> \notin OpToRel(<, Nat)
    BY <1>2, <2>1, WFMin, NatLessThanWellFounded
  <2>3. ASSUME NEW j \in free PROVE k <= j
    <3>1. CASE j < k
      <4>1. <<j, k>> \in Nat \X Nat /\ <<j, k>>[1] < <<j, k>>[2]
        BY <2>1, <3>1
      <4> QED BY <2>2, <4>1 DEF OpToRel
    <3> QED BY <2>1, <3>1
  <2>4. (CHOOSE m \in free : \A j \in free : m <= j) \in free
    BY <2>3
  <2> QED BY <1>2, <2>4 DEF Selected, Subnets
<1> QED BY <1>1, <1>2

WorldTypes ==
    /\ plan \in [Instances -> Subnets \cup {NoPlan}]
    /\ cur \in [Instances -> 0..MaxStarts]
    /\ madeBy \in Seq(Instances) /\ Len(madeBy) <= MaxStarts
    /\ iface \in Owners /\ conf \in Owners
    /\ addr \in Subnets \cup {NoPlan}
    /\ rule \in [Subnets -> Owners]
    /\ daemon \in [Daemons -> [Starts -> {"off", "born", "up", "term"}]]
    /\ pidfile \in [Daemons -> 0..MaxStarts]
    /\ mishaps \subseteq {"undo", "late", "slow", "died"}

\* The part of the invariant that holds whatever went wrong.
HotspotInv == HotspotTypes /\ WorldTypes /\ LockInv /\ HeldInv

\* acquire_lock and the flags.
LEMMA LockStep ==
    ASSUME HotspotTypes, LockInv, [HotspotNext]_hotspotVars
    PROVE  HotspotTypes' /\ LockInv'
<1> USE DEF Goto, At, Owns, hotspotVars, instVars, world, files, HotspotTypes, LockInv,
           Alive, Phases, Resources, Daemons, Working, Before
<1>1. ASSUME NEW i \in Instances, Create(i) PROVE HotspotTypes' /\ LockInv'
  BY <1>1 DEF Create
<1>2. ASSUME NEW i \in Instances, Stop(i) PROVE HotspotTypes' /\ LockInv'
  BY <1>2 DEF Stop, Rollback
<1>3. ASSUME NEW i \in Instances, DestroyHotspot(i) PROVE HotspotTypes' /\ LockInv'
  BY <1>3 DEF DestroyHotspot, Rollback
<1>4. ASSUME NEW i \in Instances, Restart(i) PROVE HotspotTypes' /\ LockInv'
  BY <1>4 DEF Restart, Rollback
<1>5. ASSUME NEW i \in Instances, Begin(i) PROVE HotspotTypes' /\ LockInv'
  BY <1>5 DEF Begin
<1>6. ASSUME NEW i \in Instances, BeginFails(i) PROVE HotspotTypes' /\ LockInv'
  BY <1>6 DEF BeginFails
<1>7. ASSUME NEW i \in Instances, StepFails(i) PROVE HotspotTypes' /\ LockInv'
  BY <1>7 DEF StepFails, Rollback
<1>8. ASSUME NEW i \in Instances, AddInterface(i) PROVE HotspotTypes' /\ LockInv'
  BY <1>8 DEF AddInterface
<1>9. ASSUME NEW i \in Instances, WriteConfig(i) PROVE HotspotTypes' /\ LockInv'
  BY <1>9 DEF WriteConfig
<1>10. ASSUME NEW i \in Instances, RunDaemon(i, "hostapd", "hostapd_wait")
      PROVE  HotspotTypes' /\ LockInv'
  BY <1>10 DEF RunDaemon
<1>11. ASSUME NEW i \in Instances, WaitDaemon(i, "hostapd", "hostapd_wait", "addr")
      PROVE  HotspotTypes' /\ LockInv'
  BY <1>11 DEF WaitDaemon, Checked
<1>12. ASSUME NEW i \in Instances, AddAddress(i) PROVE HotspotTypes' /\ LockInv'
  BY <1>12 DEF AddAddress
<1>13. ASSUME NEW i \in Instances, RunDaemon(i, "dnsmasq", "dnsmasq_wait")
      PROVE  HotspotTypes' /\ LockInv'
  BY <1>13 DEF RunDaemon
<1>14. ASSUME NEW i \in Instances, WaitDaemon(i, "dnsmasq", "dnsmasq_wait", "nat")
      PROVE  HotspotTypes' /\ LockInv'
  BY <1>14 DEF WaitDaemon, Checked
<1>15. ASSUME NEW i \in Instances, FinishNat(i) PROVE HotspotTypes' /\ LockInv'
  <2>1. CASE WithNat /\ rule[plan[i]] = Nobody
    BY <1>15, <2>1 DEF FinishNat, Checked
  <2>2. CASE ~(WithNat /\ rule[plan[i]] = Nobody)
    <3>1. At(i, "nat") /\ Started(i) /\ UNCHANGED <<own, rule>>
      BY <1>15, <2>2 DEF FinishNat
    <3> QED BY <3>1, HotspotAssumption DEF Started
  <2> HIDE DEF HotspotTypes, WorldTypes, LockInv, HeldInv
  <2> QED BY <2>1, <2>2
<1>16. ASSUME NEW i \in Instances, AddRule(i) PROVE HotspotTypes' /\ LockInv'
  BY <1>16 DEF AddRule, Started
<1>17. ASSUME NEW i \in Instances, UndoFails(i) PROVE HotspotTypes' /\ LockInv'
  BY <1>17 DEF UndoFails, Undoes, Trouble
<1>18. ASSUME NEW i \in Instances, UndoNat(i) PROVE HotspotTypes' /\ LockInv'
  BY <1>18 DEF UndoNat, Undoes
<1>19. ASSUME NEW i \in Instances, UndoAddress(i) PROVE HotspotTypes' /\ LockInv'
  BY <1>19 DEF UndoAddress, Undoes
<1>20. ASSUME NEW i \in Instances, UndoConfig(i) PROVE HotspotTypes' /\ LockInv'
  BY <1>20 DEF UndoConfig, Undoes
<1>21. ASSUME NEW i \in Instances, UndoInterface(i) PROVE HotspotTypes' /\ LockInv'
  BY <1>21 DEF UndoInterface, Undoes
<1>22. ASSUME NEW i \in Instances, NEW d \in Daemons, UndoDaemonUnseen(i, d)
      PROVE  HotspotTypes' /\ LockInv'
  BY <1>22 DEF UndoDaemonUnseen, Undoes
<1>23. ASSUME NEW i \in Instances, NEW d \in Daemons, UndoDaemonGone(i, d)
      PROVE  HotspotTypes' /\ LockInv'
  BY <1>23 DEF UndoDaemonGone, Undoes
<1>24. ASSUME NEW i \in Instances, NEW d \in Daemons, UndoDaemon(i, d)
      PROVE  HotspotTypes' /\ LockInv'
  BY <1>24 DEF UndoDaemon, Undoes, Trouble
<1>25. ASSUME NEW i \in Instances, Undone(i) PROVE HotspotTypes' /\ LockInv'
  BY <1>25 DEF Undone
<1>26. ASSUME NEW d \in Daemons, NEW n \in Starts, DaemonWrites(d, n)
      PROVE  HotspotTypes' /\ LockInv'
  BY <1>26 DEF DaemonWrites
<1>27. ASSUME NEW d \in Daemons, NEW n \in Starts, DaemonEnds(d, n)
      PROVE  HotspotTypes' /\ LockInv'
  BY <1>27 DEF DaemonEnds
<1>28. ASSUME NEW d \in Daemons, NEW n \in Starts, DaemonDies(d, n)
      PROVE  HotspotTypes' /\ LockInv'
  BY <1>28 DEF DaemonDies, Trouble
<1>29. ASSUME NEW i \in Instances, ProcessDies(i) PROVE HotspotTypes' /\ LockInv'
  BY <1>29 DEF ProcessDies
<1>30. ASSUME OtherInterface PROVE HotspotTypes' /\ LockInv'
  BY <1>30 DEF OtherInterface
<1>31. ASSUME Tidy PROVE HotspotTypes' /\ LockInv'
  BY <1>31 DEF Tidy
<1>32. ASSUME UNCHANGED hotspotVars PROVE HotspotTypes' /\ LockInv'
  BY <1>32 DEF hotspotVars
<1> QED BY <1>1, <1>2, <1>3, <1>4, <1>5, <1>6, <1>7, <1>8, <1>9, <1>10, <1>11, <1>12,
             <1>13, <1>14, <1>15, <1>16, <1>17, <1>18, <1>19, <1>20, <1>21, <1>22, <1>23,
             <1>24, <1>25, <1>26, <1>27, <1>28, <1>29, <1>30, <1>31, <1>32, SMTT(30)
         DEF HotspotNext, Machine, Process, Start, Undo

\* While one process has the lock the others have nothing.
LEMMA OthersIdle ==
    ASSUME LockInv, NEW i \in Instances, Alive(i)
    PROVE  \A j \in Instances \ {i} : own[j] = {} /\ step[j] \in {"new", "gone", "crashed"}
BY DEF LockInv, Alive

\* The machine keeps its types.
LEMMA TypeStep ==
    ASSUME HotspotTypes, WorldTypes, [HotspotNext]_hotspotVars
    PROVE  WorldTypes'
<1> USE DEF Goto, At, Owns, hotspotVars, instVars, world, files, HotspotTypes, WorldTypes,
           Owners, Starts, Nobody, Other, Daemons
<1>1. ASSUME NEW i \in Instances, Create(i) PROVE WorldTypes'
  BY <1>1, HotspotAssumption DEF Create
<1>2. ASSUME NEW i \in Instances, Stop(i) PROVE WorldTypes'
  BY <1>2, HotspotAssumption DEF Stop, Rollback
<1>3. ASSUME NEW i \in Instances, DestroyHotspot(i) PROVE WorldTypes'
  BY <1>3, HotspotAssumption DEF DestroyHotspot, Rollback
<1>4. ASSUME NEW i \in Instances, Restart(i) PROVE WorldTypes'
  BY <1>4, HotspotAssumption DEF Restart, Rollback
<1>5. ASSUME NEW i \in Instances, Begin(i) PROVE WorldTypes'
  <2>1. /\ UNCHANGED <<iface, addr, conf, rule, daemon, pidfile, mishaps>>
        /\ plan' \in [Instances -> Subnets \cup {NoPlan}]
    BY <1>5, SelectedIsPlan DEF Begin
  <2>2. CASE UNCHANGED <<cur, madeBy>>
    BY <2>1, <2>2
  <2>3. CASE /\ Len(madeBy) < MaxStarts /\ madeBy' = Append(madeBy, i)
             /\ cur' = [cur EXCEPT ![i] = Len(madeBy')]
    <3>1. Len(madeBy') = Len(madeBy) + 1 /\ madeBy' \in Seq(Instances)
      BY <2>3
    <3>2. Len(madeBy') \in 0..MaxStarts /\ Len(madeBy') <= MaxStarts
      BY <2>3, <3>1, HotspotAssumption
    <3>3. cur' \in [Instances -> 0..MaxStarts]
      BY <2>3, <3>2
    <3> QED BY <2>1, <3>1, <3>2, <3>3
  <2> QED BY <1>5, <2>2, <2>3 DEF Begin
<1>6. ASSUME NEW i \in Instances, BeginFails(i) PROVE WorldTypes'
  BY <1>6, HotspotAssumption DEF BeginFails
<1>7. ASSUME NEW i \in Instances, StepFails(i) PROVE WorldTypes'
  BY <1>7, HotspotAssumption DEF StepFails, Rollback
<1>8. ASSUME NEW i \in Instances, AddInterface(i) PROVE WorldTypes'
  BY <1>8, HotspotAssumption DEF AddInterface
<1>9. ASSUME NEW i \in Instances, WriteConfig(i) PROVE WorldTypes'
  BY <1>9, HotspotAssumption DEF WriteConfig
<1>10. ASSUME NEW i \in Instances, RunDaemon(i, "hostapd", "hostapd_wait") PROVE WorldTypes'
  BY <1>10, HotspotAssumption DEF RunDaemon
<1>11. ASSUME NEW i \in Instances, WaitDaemon(i, "hostapd", "hostapd_wait", "addr")
      PROVE  WorldTypes'
  BY <1>11, HotspotAssumption DEF WaitDaemon, Checked
<1>12. ASSUME NEW i \in Instances, AddAddress(i) PROVE WorldTypes'
  BY <1>12, HotspotAssumption DEF AddAddress
<1>13. ASSUME NEW i \in Instances, RunDaemon(i, "dnsmasq", "dnsmasq_wait") PROVE WorldTypes'
  BY <1>13, HotspotAssumption DEF RunDaemon
<1>14. ASSUME NEW i \in Instances, WaitDaemon(i, "dnsmasq", "dnsmasq_wait", "nat")
      PROVE  WorldTypes'
  BY <1>14, HotspotAssumption DEF WaitDaemon, Checked
<1>15. ASSUME NEW i \in Instances, FinishNat(i) PROVE WorldTypes'
  <2>1. CASE WithNat /\ rule[plan[i]] = Nobody
    BY <1>15, <2>1 DEF FinishNat, Checked
  <2>2. CASE ~(WithNat /\ rule[plan[i]] = Nobody)
    <3>1. At(i, "nat") /\ Started(i) /\ UNCHANGED <<own, rule>>
      BY <1>15, <2>2 DEF FinishNat
    <3> QED BY <3>1, HotspotAssumption DEF Started
  <2> HIDE DEF HotspotTypes, WorldTypes, LockInv, HeldInv
  <2> QED BY <2>1, <2>2
<1>16. ASSUME NEW i \in Instances, AddRule(i) PROVE WorldTypes'
  <2>1. rule' \in [Subnets -> Owners]
    <3>1. cur[i] \in Owners
      BY HotspotAssumption
    <3> QED BY <1>16, <3>1 DEF AddRule
  <2> QED BY <1>16, <2>1 DEF AddRule, Started
<1>17. ASSUME NEW i \in Instances, UndoFails(i) PROVE WorldTypes'
  BY <1>17, HotspotAssumption DEF UndoFails, Undoes, Trouble
<1>18. ASSUME NEW i \in Instances, UndoNat(i) PROVE WorldTypes'
  <2>1. Nobody \in Owners
    BY HotspotAssumption
  <2>2. rule' \in [Subnets -> Owners]
    BY <1>18, <2>1 DEF UndoNat
  <2> QED BY <1>18, <2>2 DEF UndoNat, Undoes
<1>19. ASSUME NEW i \in Instances, UndoAddress(i) PROVE WorldTypes'
  BY <1>19, HotspotAssumption DEF UndoAddress, Undoes
<1>20. ASSUME NEW i \in Instances, UndoConfig(i) PROVE WorldTypes'
  BY <1>20, HotspotAssumption DEF UndoConfig, Undoes
<1>21. ASSUME NEW i \in Instances, UndoInterface(i) PROVE WorldTypes'
  BY <1>21, HotspotAssumption DEF UndoInterface, Undoes
<1>22. ASSUME NEW i \in Instances, NEW d \in Daemons, UndoDaemonUnseen(i, d)
      PROVE  WorldTypes'
  BY <1>22, HotspotAssumption DEF UndoDaemonUnseen, Undoes
<1>23. ASSUME NEW i \in Instances, NEW d \in Daemons, UndoDaemonGone(i, d) PROVE WorldTypes'
  BY <1>23, HotspotAssumption DEF UndoDaemonGone, Undoes
<1>24. ASSUME NEW i \in Instances, NEW d \in Daemons, UndoDaemon(i, d) PROVE WorldTypes'
  <2>1. pidfile' = [pidfile EXCEPT ![d] = Nobody] /\ Nobody \in 0..MaxStarts
    BY <1>24, HotspotAssumption DEF UndoDaemon
  <2>2. pidfile' \in [Daemons -> 0..MaxStarts]
    BY <2>1
  <2>3. daemon' \in [Daemons -> [Starts -> {"off", "born", "up", "term"}]]
    <3>1. daemon[d] \in [Starts -> {"off", "born", "up", "term"}]
      OBVIOUS
    <3>2. [daemon[d] EXCEPT ![pidfile[d]] = "term"]
             \in [Starts -> {"off", "born", "up", "term"}]
      BY <3>1
    <3> QED BY <1>24, <3>2 DEF UndoDaemon
  <2> QED BY <1>24, <2>2, <2>3 DEF UndoDaemon, Undoes, Trouble
<1>25. ASSUME NEW i \in Instances, Undone(i) PROVE WorldTypes'
  BY <1>25, HotspotAssumption DEF Undone
<1>26. ASSUME NEW d \in Daemons, NEW n \in Starts, DaemonWrites(d, n) PROVE WorldTypes'
  BY <1>26, HotspotAssumption DEF DaemonWrites
<1>27. ASSUME NEW d \in Daemons, NEW n \in Starts, DaemonEnds(d, n) PROVE WorldTypes'
  BY <1>27, HotspotAssumption DEF DaemonEnds
<1>28. ASSUME NEW d \in Daemons, NEW n \in Starts, DaemonDies(d, n) PROVE WorldTypes'
  BY <1>28, HotspotAssumption DEF DaemonDies, Trouble
<1>29. ASSUME NEW i \in Instances, ProcessDies(i) PROVE WorldTypes'
  BY <1>29, HotspotAssumption DEF ProcessDies
<1>30. ASSUME OtherInterface PROVE WorldTypes'
  BY <1>30, HotspotAssumption DEF OtherInterface
<1>31. ASSUME Tidy PROVE WorldTypes'
  BY <1>31, HotspotAssumption DEF Tidy
<1>32. ASSUME UNCHANGED hotspotVars PROVE WorldTypes'
  BY <1>32, HotspotAssumption DEF hotspotVars
<1> QED BY <1>1, <1>2, <1>3, <1>4, <1>5, <1>6, <1>7, <1>8, <1>9, <1>10, <1>11, <1>12,
             <1>13, <1>14, <1>15, <1>16, <1>17, <1>18, <1>19, <1>20, <1>21, <1>22, <1>23,
             <1>24, <1>25, <1>26, <1>27, <1>28, <1>29, <1>30, <1>31, <1>32, SMTT(30)
         DEF HotspotNext, Machine, Process, Start, Undo

\* What the flags stand for stays the start's own.
LEMMA HeldStep ==
    ASSUME HotspotTypes, WorldTypes, LockInv, HeldInv, [HotspotNext]_hotspotVars
    PROVE  HeldInv'
<1> USE DEF Goto, At, Owns, hotspotVars, instVars, world, files, HotspotTypes, WorldTypes,
           LockInv, HeldInv, Alive, Engaged, Mine, Working, Owners, Nobody, Other, Starts
<1>1. ASSUME NEW i \in Instances, Create(i) PROVE HeldInv'
  BY <1>1, HotspotAssumption DEF Create
<1>2. ASSUME NEW i \in Instances, Stop(i) PROVE HeldInv'
  BY <1>2, HotspotAssumption DEF Stop, Rollback
<1>3. ASSUME NEW i \in Instances, DestroyHotspot(i) PROVE HeldInv'
  BY <1>3, HotspotAssumption DEF DestroyHotspot, Rollback
<1>4. ASSUME NEW i \in Instances, Restart(i) PROVE HeldInv'
  BY <1>4, HotspotAssumption DEF Restart, Rollback
<1>5. ASSUME NEW i \in Instances, Begin(i) PROVE HeldInv'
  <2>1. own[i] = {} /\ UNCHANGED <<own, iface, conf, rule>>
    BY <1>5 DEF Begin
  <2>2. CASE Goto(i, "ready") /\ UNCHANGED <<cur, madeBy>>
    BY <1>5, <2>1, <2>2 DEF Begin
  <2>3. CASE /\ plan'[i] # NoPlan /\ ~LeftOvers
             /\ madeBy' = Append(madeBy, i) /\ Goto(i, "iface")
             /\ cur' = [cur EXCEPT ![i] = Len(madeBy')]
    <3>1. Alive(i)
      BY <1>5 DEF Begin
    <3>2. /\ Len(madeBy') = Len(madeBy) + 1 /\ DOMAIN madeBy' = 1..Len(madeBy')
          /\ Len(madeBy) \in Nat
          /\ madeBy'[Len(madeBy')] = i
          /\ \A n \in DOMAIN madeBy : n \in DOMAIN madeBy' /\ madeBy'[n] = madeBy[n]
      BY <2>3
    <3>3. cur'[i] = Len(madeBy') /\ Len(madeBy') # Nobody /\ Len(madeBy') \in DOMAIN madeBy'
      BY <2>3, <3>2
    <3>4. ASSUME NEW j \in Instances, j # i
          PROVE  /\ own'[j] = {} /\ step'[j] = step[j] /\ cur'[j] = cur[j]
                 /\ step[j] \in {"new", "gone", "crashed"}
      BY <2>1, <2>3, <3>1, <3>4, OthersIdle
    <3>5. \A j \in Instances : cur'[j] # Nobody => Mine(j, cur[j])'
      <4>1. Mine(i, cur[i])'
        BY <3>2, <3>3
      <4>2. ASSUME NEW j \in Instances, j # i, cur'[j] # Nobody PROVE Mine(j, cur[j])'
        <5>1. Mine(j, cur[j]) /\ cur'[j] = cur[j]
          BY <3>4, <4>2
        <5> QED BY <3>2, <5>1
      <4> QED BY <4>1, <4>2
    <3>6. step'[i] = "iface" /\ own'[i] = {} /\ iface' = Nobody /\ conf' = Nobody
      BY <2>1, <2>3 DEF LeftOvers
    <3>7. ASSUME NEW j \in Instances, j # i
          PROVE  ~Engaged(j)' /\ step'[j] \notin {"iface", "conf", "rule"} /\ own'[j] = {}
      BY <3>4, <3>7
    <3> HIDE DEF Mine
    <3> QED BY <2>3, <3>3, <3>5, <3>6, <3>7
  <2> QED BY <1>5, <2>2, <2>3 DEF Begin
<1>6. ASSUME NEW i \in Instances, BeginFails(i) PROVE HeldInv'
  BY <1>6, HotspotAssumption DEF BeginFails
<1>7. ASSUME NEW i \in Instances, StepFails(i) PROVE HeldInv'
  BY <1>7, HotspotAssumption DEF StepFails, Rollback
<1>8. ASSUME NEW i \in Instances, AddInterface(i) PROVE HeldInv'
  <2>1. /\ own' = [own EXCEPT ![i] = @ \cup {"iface"}]
        /\ step' = [step EXCEPT ![i] = "conf"] /\ own[i] = {}
        /\ iface' = cur[i] /\ UNCHANGED <<plan, cur, madeBy, conf, rule>>
    BY <1>8 DEF AddInterface
  <2>2. \A j \in Instances \ {i} : own[j] = {} /\ step[j] \in {"new", "gone", "crashed"}
    BY <1>8, OthersIdle DEF AddInterface
  <2>3. conf = Nobody /\ cur[i] # Nobody /\ plan[i] # NoPlan /\ own'[i] = {"iface"}
    BY <1>8, <2>1 DEF AddInterface
  <2>4. ASSUME NEW j \in Instances, j # i
        PROVE  own'[j] = {} /\ step'[j] \in {"new", "gone", "crashed"} /\ ~Engaged(j)'
    BY <2>1, <2>2, <2>4
  <2>5. \A j \in Instances : cur'[j] # Nobody => Mine(j, cur[j])'
    BY <2>1
  <2> HIDE DEF Mine
  <2> QED BY <2>1, <2>3, <2>4, <2>5
<1>9. ASSUME NEW i \in Instances, WriteConfig(i) PROVE HeldInv'
  BY <1>9, HotspotAssumption DEF WriteConfig
<1>10. ASSUME NEW i \in Instances, RunDaemon(i, "hostapd", "hostapd_wait") PROVE HeldInv'
  BY <1>10, HotspotAssumption DEF RunDaemon
<1>11. ASSUME NEW i \in Instances, WaitDaemon(i, "hostapd", "hostapd_wait", "addr")
      PROVE  HeldInv'
  BY <1>11, HotspotAssumption DEF WaitDaemon, Checked
<1>12. ASSUME NEW i \in Instances, AddAddress(i) PROVE HeldInv'
  BY <1>12, HotspotAssumption DEF AddAddress
<1>13. ASSUME NEW i \in Instances, RunDaemon(i, "dnsmasq", "dnsmasq_wait") PROVE HeldInv'
  BY <1>13, HotspotAssumption DEF RunDaemon
<1>14. ASSUME NEW i \in Instances, WaitDaemon(i, "dnsmasq", "dnsmasq_wait", "nat")
      PROVE  HeldInv'
  BY <1>14, HotspotAssumption DEF WaitDaemon, Checked
<1>15. ASSUME NEW i \in Instances, FinishNat(i) PROVE HeldInv'
  <2>1. CASE WithNat /\ rule[plan[i]] = Nobody
    BY <1>15, <2>1 DEF FinishNat, Checked
  <2>2. CASE ~(WithNat /\ rule[plan[i]] = Nobody)
    <3>1. At(i, "nat") /\ Started(i) /\ UNCHANGED <<own, rule>>
      BY <1>15, <2>2 DEF FinishNat
    <3> QED BY <3>1, HotspotAssumption DEF Started
  <2> HIDE DEF HotspotTypes, WorldTypes, LockInv, HeldInv
  <2> QED BY <2>1, <2>2
<1>16. ASSUME NEW i \in Instances, AddRule(i) PROVE HeldInv'
  BY <1>16, HotspotAssumption DEF AddRule, Started
<1>17. ASSUME NEW i \in Instances, UndoFails(i) PROVE HeldInv'
  BY <1>17, HotspotAssumption DEF UndoFails, Undoes, Trouble
<1>18. ASSUME NEW i \in Instances, UndoNat(i) PROVE HeldInv'
  BY <1>18, HotspotAssumption DEF UndoNat, Undoes
<1>19. ASSUME NEW i \in Instances, UndoAddress(i) PROVE HeldInv'
  BY <1>19, HotspotAssumption DEF UndoAddress, Undoes
<1>20. ASSUME NEW i \in Instances, UndoConfig(i) PROVE HeldInv'
  BY <1>20, HotspotAssumption DEF UndoConfig, Undoes
<1>21. ASSUME NEW i \in Instances, UndoInterface(i) PROVE HeldInv'
  BY <1>21, HotspotAssumption DEF UndoInterface, Undoes
<1>22. ASSUME NEW i \in Instances, NEW d \in Daemons, UndoDaemonUnseen(i, d) PROVE HeldInv'
  BY <1>22, HotspotAssumption DEF UndoDaemonUnseen, Undoes
<1>23. ASSUME NEW i \in Instances, NEW d \in Daemons, UndoDaemonGone(i, d) PROVE HeldInv'
  BY <1>23, HotspotAssumption DEF UndoDaemonGone, Undoes
<1>24. ASSUME NEW i \in Instances, NEW d \in Daemons, UndoDaemon(i, d) PROVE HeldInv'
  BY <1>24, HotspotAssumption DEF UndoDaemon, Undoes, Trouble
<1>25. ASSUME NEW i \in Instances, Undone(i) PROVE HeldInv'
  <2>1. /\ UNCHANGED <<own, plan, cur, madeBy, iface, conf, rule>>
        /\ \A j \in Instances :
             step'[j] = step[j] \/ step'[j] \in {"ready", "begin", "gone"}
    BY <1>25 DEF Undone
  <2>2. \A j \in Instances : Engaged(j)' => Engaged(j)
    BY <2>1
  <2>3. \A j \in Instances : Mine(j, cur[j])' <=> Mine(j, cur[j])
    BY <2>1
  <2> HIDE DEF Mine, Engaged
  <2> QED BY <2>1, <2>2, <2>3
<1>26. ASSUME NEW d \in Daemons, NEW n \in Starts, DaemonWrites(d, n) PROVE HeldInv'
  BY <1>26, HotspotAssumption DEF DaemonWrites
<1>27. ASSUME NEW d \in Daemons, NEW n \in Starts, DaemonEnds(d, n) PROVE HeldInv'
  BY <1>27, HotspotAssumption DEF DaemonEnds
<1>28. ASSUME NEW d \in Daemons, NEW n \in Starts, DaemonDies(d, n) PROVE HeldInv'
  BY <1>28, HotspotAssumption DEF DaemonDies, Trouble
<1>29. ASSUME NEW i \in Instances, ProcessDies(i) PROVE HeldInv'
  BY <1>29, HotspotAssumption DEF ProcessDies
<1>30. ASSUME OtherInterface PROVE HeldInv'
  BY <1>30, HotspotAssumption DEF OtherInterface
<1>31. ASSUME Tidy PROVE HeldInv'
  BY <1>31, HotspotAssumption DEF Tidy
<1>32. ASSUME UNCHANGED hotspotVars PROVE HeldInv'
  BY <1>32, HotspotAssumption DEF hotspotVars
<1> QED BY <1>1, <1>2, <1>3, <1>4, <1>5, <1>6, <1>7, <1>8, <1>9, <1>10, <1>11, <1>12,
             <1>13, <1>14, <1>15, <1>16, <1>17, <1>18, <1>19, <1>20, <1>21, <1>22, <1>23,
             <1>24, <1>25, <1>26, <1>27, <1>28, <1>29, <1>30, <1>31, <1>32, SMTT(30)
         DEF HotspotNext, Machine, Process, Start, Undo

\* A step that takes no flag from a process that goes on keeps what was made.
LEMMA Retains ==
    ASSUME WorldTypes, UNCHANGED <<cur, madeBy>>,
           \A j \in Instances : step[j] = "crashed" => step'[j] = "crashed",
           \A j \in Instances : own[j] \subseteq own'[j] \/ step'[j] = "crashed",
           NEW n, NEW r, Keeps(n, r)
    PROVE  Keeps(n, r)'
<1>1. madeBy[n] \in Instances
  BY DEF Keeps, WorldTypes
<1> QED BY <1>1 DEF Keeps

\* rollback clears one flag of one process: what the others stand for stays.
LEMMA RetainsOthers ==
    ASSUME HotspotTypes, WorldTypes, NEW i \in Instances, NEW q, Undoes(i, q),
           NEW n, NEW r, Keeps(n, r), n # cur[i] \/ r # q
    PROVE  Keeps(n, r)'
<1>1. madeBy[n] \in Instances
  BY DEF Keeps, WorldTypes
<1> QED BY <1>1 DEF Keeps, WorldTypes, HotspotTypes, Undoes, instVars

\* A new flag is that of the start at work.
LEMMA Acquired ==
    ASSUME HotspotInv, NEW i \in Instances, Engaged(i), NEW r, UNCHANGED <<cur, madeBy>>,
           r \in own'[i]
    PROVE  Keeps(cur[i], r)'
BY DEF HotspotInv, HeldInv, Mine, Keeps

\* A step of a process that touches nothing.
Quiet ==
    /\ UNCHANGED <<own, plan, cur, madeBy, world, mishaps>>
    /\ \A j \in Instances : step[j] = "crashed" <=> step'[j] = "crashed"
    /\ \A j \in Instances : Engaged(j)' => Engaged(j)
    /\ \A j \in Instances : step'[j] \in Working => step[j] \in Working

\* The steps that touch nothing outside their process, or only wait.
LEMMA QuietSteps ==
    ASSUME HotspotTypes, NEW i \in Instances,
           \/ Create(i) \/ Stop(i) \/ DestroyHotspot(i) \/ Restart(i) \/ BeginFails(i)
           \/ StepFails(i) \/ Undone(i)
           \/ WaitDaemon(i, "hostapd", "hostapd_wait", "addr")
           \/ WaitDaemon(i, "dnsmasq", "dnsmasq_wait", "nat")
    PROVE  Quiet
<1> USE DEF Quiet, Goto, At, HotspotTypes, instVars, world, files, Engaged, Working
<1>1. CASE Create(i) BY <1>1 DEF Create
<1>2. CASE Stop(i) BY <1>2 DEF Stop, Rollback
<1>3. CASE DestroyHotspot(i) BY <1>3 DEF DestroyHotspot, Rollback
<1>4. CASE Restart(i) BY <1>4 DEF Restart, Rollback
<1>5. CASE BeginFails(i) BY <1>5 DEF BeginFails
<1>6. CASE StepFails(i) BY <1>6 DEF StepFails, Rollback
<1>7. CASE Undone(i) BY <1>7 DEF Undone
<1>8. CASE WaitDaemon(i, "hostapd", "hostapd_wait", "addr")
  BY <1>8 DEF WaitDaemon, Checked
<1>9. CASE WaitDaemon(i, "dnsmasq", "dnsmasq_wait", "nat")
  BY <1>9 DEF WaitDaemon, Checked
<1> QED BY <1>1, <1>2, <1>3, <1>4, <1>5, <1>6, <1>7, <1>8, <1>9

\* Such a step keeps what is said of the machine.
LEMMA QuietKeeps ==
    ASSUME HotspotInv, Quiet
    PROVE  /\ DaemonInv => DaemonInv'
           /\ CleanInv => CleanInv'
<1> USE DEF HotspotInv
<1>1. ASSUME NEW n, NEW r, Keeps(n, r)
      PROVE  /\ Keeps(n, r)'
             /\ (step[madeBy[n]] = "crashed") <=> (step[madeBy[n]] = "crashed")'
  <2>1. madeBy[n] \in Instances
    BY <1>1 DEF Keeps, WorldTypes
  <2> QED BY <1>1, <2>1 DEF Quiet, Keeps
<1>2. DaemonInv => DaemonInv'
  BY <1>1 DEF Quiet, DaemonInv, world, files
<1>3. CleanInv => CleanInv'
  BY <1>1 DEF Quiet, CleanInv, world, files
<1> QED BY <1>2, <1>3

\* A step of a start that only adds to what the process has.
Grows(i) ==
    /\ UNCHANGED <<plan, cur, madeBy, daemon, pidfile, mishaps>>
    /\ Engaged(i)
    /\ \A j \in Instances : own[j] \subseteq own'[j]
    /\ \A j \in Instances : step[j] = "crashed" <=> step'[j] = "crashed"
    /\ \A j \in Instances : Engaged(j)' => Engaged(j)
    /\ \A j \in Instances : step'[j] \in Working => step[j] \in Working

\* The steps that make one thing and set its flag; they touch no daemon.
LEMMA GrowingSteps ==
    ASSUME HotspotTypes, NEW i \in Instances,
           \/ AddInterface(i) \/ WriteConfig(i) \/ AddAddress(i) \/ FinishNat(i) \/ AddRule(i)
    PROVE  Grows(i)
<1> USE DEF Grows, Goto, At, Owns, HotspotTypes, instVars, world, files, Engaged, Working
<1>1. CASE AddInterface(i) BY <1>1 DEF AddInterface
<1>2. CASE WriteConfig(i) BY <1>2 DEF WriteConfig
<1>3. CASE AddAddress(i) BY <1>3 DEF AddAddress
<1>4. CASE FinishNat(i) BY <1>4 DEF FinishNat, Checked, Started
<1>5. CASE AddRule(i) BY <1>5 DEF AddRule, Started
<1> QED BY <1>1, <1>2, <1>3, <1>4, <1>5

\* A process that dies keeps what its start has made.
LEMMA Died ==
    ASSUME HotspotTypes, WorldTypes, NEW i \in Instances, ProcessDies(i)
    PROVE  /\ \A n, r : Keeps(n, r) => Keeps(n, r)'
           /\ \A j \in Instances : Engaged(j)' => Engaged(j)
           /\ UNCHANGED <<plan, cur, madeBy, world, mishaps>>
<1>1. /\ UNCHANGED <<plan, cur, madeBy, world, mishaps>>
      /\ \A j \in Instances : step[j] = "crashed" => step'[j] = "crashed"
      /\ \A j \in Instances : own[j] \subseteq own'[j] \/ step'[j] = "crashed"
      /\ \A j \in Instances : Engaged(j)' => Engaged(j)
  BY DEF ProcessDies, Goto, HotspotTypes, Engaged, Working
<1>2. ASSUME NEW n, NEW r, Keeps(n, r) PROVE Keeps(n, r)'
  BY <1>1, <1>2, Retains
<1> QED BY <1>1, <1>2

\* A start gets the next number.
NewStart(i) ==
    /\ Len(madeBy) < MaxStarts
    /\ madeBy' = Append(madeBy, i)
    /\ cur' = [cur EXCEPT ![i] = Len(madeBy')]
    /\ Goto(i, "iface")

\* It makes no difference to what others have made.
LEMMA NewStartKeeps ==
    ASSUME HotspotTypes, WorldTypes, NEW i \in Instances, NewStart(i), UNCHANGED own,
           own[i] = {}, step[i] # "crashed", NEW n, NEW r, Keeps(n, r)
    PROVE  /\ Keeps(n, r)' /\ madeBy[n] \in Instances \ {i}
           /\ madeBy'[n] = madeBy[n]
<1>1. n \in DOMAIN madeBy /\ madeBy[n] \in Instances \ {i}
  BY DEF Keeps, WorldTypes
<1>2. n \in DOMAIN madeBy' /\ madeBy'[n] = madeBy[n]
  BY <1>1 DEF NewStart, WorldTypes
<1> QED BY <1>1, <1>2 DEF Keeps, NewStart, Goto, WorldTypes, HotspotTypes

\* A pidfile that is there names a start.
LEMMA PidfileNames ==
    ASSUME WorldTypes, NEW d \in Daemons, pidfile[d] # Nobody
    PROVE  pidfile[d] \in Starts
BY HotspotAssumption DEF WorldTypes, Starts, Nobody

\* Daemons and pidfiles: every step of a process and of the machine.
LEMMA DaemonStep ==
    ASSUME HotspotInv, DaemonInv, [HotspotNext]_hotspotVars
    PROVE  DaemonInv'
<1> USE DEF HotspotInv
<1>1. CASE Quiet
  BY <1>1, QuietKeeps
<1>2. ASSUME NEW i \in Instances, Grows(i), iface' = iface \/ iface \in {Nobody, Other}
      PROVE  DaemonInv'
  <2>1. \A n, r : Keeps(n, r) => Keeps(n, r)'
    BY <1>2, Retains DEF Grows
  <2>2. ASSUME NEW n \in Starts, iface = n PROVE iface' = n
    BY <1>2, <2>2, HotspotAssumption DEF Starts, Nobody, Other
  <2>3. ASSUME NEW n, NEW r, Keeps(n, r) PROVE madeBy[n] \in Instances
    BY <2>3 DEF Keeps, WorldTypes
  <2> QED BY <1>2, <2>1, <2>2, <2>3 DEF Grows, DaemonInv
<1>3. ASSUME NEW i \in Instances, Begin(i) PROVE DaemonInv'
  <2>1. /\ UNCHANGED <<own, iface, daemon, pidfile, mishaps>>
        /\ own[i] = {} /\ step[i] \in {"ready", "begin"}
        /\ \A j \in Instances \ {i} :
            own[j] = {} /\ step[j] \in {"new", "gone", "crashed"} /\ step'[j] = step[j]
    BY <1>3, OthersIdle DEF Begin, Goto, At, HotspotTypes, LockInv, Alive, world, files
  <2>2. \A j \in Instances \ {i} : ~Engaged(j)'
    BY <2>1 DEF Engaged, Working
  <2>3. CASE Goto(i, "ready") /\ UNCHANGED <<cur, madeBy>>
    <3>1. ~Engaged(i)' /\ step'[i] = "ready"
      BY <2>1, <2>3 DEF Goto, HotspotTypes, Engaged, Working
    <3>2. ASSUME NEW n, NEW r, Keeps(n, r) PROVE Keeps(n, r)' /\ madeBy[n] \in Instances
      BY <2>1, <2>3, <3>1, <3>2 DEF Keeps, WorldTypes
    <3> QED BY <2>1, <2>2, <2>3, <3>1, <3>2 DEF DaemonInv, Engaged
  <2>4. CASE ~LeftOvers /\ NewStart(i)
    <3>1. ASSUME NEW n, NEW r, Keeps(n, r)
          PROVE  /\ Keeps(n, r)' /\ madeBy[n] \in Instances \ {i}
                 /\ madeBy'[n] = madeBy[n]
      BY <2>1, <2>4, <3>1, NewStartKeeps
    <3>2. \A d \in Daemons : pidfile'[d] = Nobody
      BY <2>1, <2>4 DEF LeftOvers
    <3> QED BY <2>1, <2>2, <3>1, <3>2 DEF DaemonInv, Engaged
  <2> QED BY <1>3, <2>3, <2>4 DEF Begin, NewStart
<1>4. ASSUME NEW i \in Instances, NEW d \in Daemons, NEW wait, RunDaemon(i, d, wait),
             d = "hostapd" \/ d = "dnsmasq", wait \in Working, wait # "iface"
      PROVE  DaemonInv'
  <2>1. /\ UNCHANGED <<plan, cur, madeBy, iface, pidfile, mishaps>>
        /\ daemon' = [daemon EXCEPT ![d][cur[i]] = "born"]
        /\ own' = [own EXCEPT ![i] = @ \cup {d}]
        /\ \A j \in Instances : step[j] = "crashed" <=> step'[j] = "crashed"
        /\ \A j \in Instances : Engaged(j)' => Engaged(j)
        /\ \A j \in Instances : step'[j] \in Working => step[j] \in Working
        /\ Engaged(i) /\ step[i] \in Working /\ d \notin own[i] /\ d \in Daemons
    BY <1>4 DEF RunDaemon, Owns, Goto, At, instVars, files, HotspotTypes, Engaged, Working,
                LockInv, Daemons
  <2>2. \A n, r : Keeps(n, r) => Keeps(n, r)'
    BY <2>1, Retains DEF HotspotTypes
  <2>3. Keeps(cur[i], d)' /\ step'[madeBy'[cur[i]]] # "crashed"
    <3>1. d \in own'[i] /\ madeBy[cur[i]] = i /\ step'[i] # "crashed"
      BY <2>1, <1>4 DEF HotspotTypes, HeldInv, Mine, Working
    <3> QED BY <2>1, <3>1, Acquired
  <2>4. ASSUME NEW n, NEW r, Keeps(n, r) PROVE madeBy[n] \in Instances
    BY <2>4 DEF Keeps, WorldTypes
  <2>5. ASSUME NEW e \in Daemons, NEW n \in Starts, daemon'[e][n] = "born", n # cur[i] \/ e # d
        PROVE  daemon[e][n] = "born"
    BY <2>1, <2>5 DEF WorldTypes
  <2>6. ASSUME NEW e \in Daemons, "late" \notin mishaps', pidfile'[e] # Nobody
        PROVE  daemon'[e][pidfile'[e]] # "born"
    <3>1. pidfile[e] # Nobody /\ daemon[e][pidfile[e]] # "born" /\ pidfile[d] = Nobody
      BY <2>1, <2>6 DEF DaemonInv
    <3> QED BY <2>1, <3>1 DEF WorldTypes
  <2>7. ASSUME NEW j \in Instances, NEW e \in Daemons, "late" \notin mishaps',
               step'[j] \in Working, e \notin own'[j]
        PROVE  pidfile'[e] = Nobody
    BY <2>1, <2>7 DEF DaemonInv, HotspotTypes
  <2> QED BY <2>1, <2>2, <2>3, <2>4, <2>5, <2>6, <2>7 DEF DaemonInv
<1>5. ASSUME NEW i \in Instances, NEW q \in Resources \ Daemons, Undoes(i, q),
             UNCHANGED <<daemon, pidfile>>, mishaps \subseteq mishaps',
             q # "iface" => iface' = iface
      PROVE  DaemonInv'
  <2>1. /\ UNCHANGED <<step, plan, cur, madeBy>>
        /\ \A j \in Instances : Engaged(j)' => Engaged(j)
        /\ \A j \in Instances : step[j] \in Working => own'[j] = own[j]
        /\ q \in own[i] /\ step[i] = "undo"
    BY <1>5 DEF Undoes, At, instVars, Engaged, HotspotTypes, Working
  <2>2. ASSUME NEW n, NEW e \in Daemons, Keeps(n, e)
        PROVE  Keeps(n, e)' /\ madeBy[n] \in Instances
    BY <1>5, <2>2, RetainsOthers DEF Keeps, WorldTypes
  <2>3. ASSUME NEW n, madeBy[n] \in Instances, step[madeBy[n]] = "crashed", iface = n
        PROVE  iface' = n
    BY <1>5, <2>1, <2>3 DEF HeldInv, Mine, Engaged
  <2> QED BY <1>5, <2>1, <2>2, <2>3 DEF DaemonInv
<1>6. ASSUME NEW i \in Instances, NEW d \in Daemons, Undoes(i, d),
             mishaps \subseteq mishaps', iface' = iface,
             "late" \notin mishaps' => daemon'[d][cur[i]] # "born",
             pidfile'[d] \in {Nobody, pidfile[d]},
             \A e \in Daemons : e # d => pidfile'[e] = pidfile[e],
             \A e \in Daemons, n \in Starts :
               (e # d \/ n # cur[i]) /\ daemon'[e][n] = "born" => daemon[e][n] = "born",
             \A e \in Daemons : "late" \notin mishaps' /\ pidfile'[e] # Nobody =>
               pidfile'[e] = pidfile[e] /\ daemon'[e][pidfile[e]] # "born"
      PROVE  DaemonInv'
  <2>1. /\ UNCHANGED <<step, plan, cur, madeBy>>
        /\ \A j \in Instances : Engaged(j)' => Engaged(j)
        /\ \A j \in Instances : step[j] \in Working => own'[j] = own[j]
    BY <1>6 DEF Undoes, At, instVars, Engaged, HotspotTypes, Working
  <2>2. ASSUME NEW n \in Starts, NEW e \in Daemons, "late" \notin mishaps',
               daemon'[e][n] = "born"
        PROVE  /\ Keeps(n, e)'
               /\ step'[madeBy'[n]] = "crashed" => iface' = n
    <3>1. daemon[e][n] = "born" /\ (e # d \/ n # cur[i]) /\ "late" \notin mishaps
      BY <1>6, <2>2
    <3>2. Keeps(n, e) /\ (step[madeBy[n]] = "crashed" => iface = n)
      BY <3>1 DEF DaemonInv
    <3>3. Keeps(n, e)'
      BY <1>6, <3>1, <3>2, RetainsOthers
    <3> QED BY <1>6, <2>1, <3>2, <3>3
  <2>3. ASSUME NEW j \in Instances, NEW e \in Daemons, "late" \notin mishaps', Engaged(j)'
        PROVE  pidfile'[e] \in {Nobody, cur'[j]}
    <3>1. pidfile[e] \in {Nobody, cur[j]}
      BY <1>6, <2>1, <2>3 DEF DaemonInv
    <3> QED BY <1>6, <2>1, <3>1
  <2>4. ASSUME NEW e \in Daemons, "late" \notin mishaps', pidfile'[e] # Nobody
        PROVE  daemon'[e][pidfile'[e]] # "born"
    BY <1>6, <2>4 DEF DaemonInv
  <2>5. ASSUME NEW j \in Instances, NEW e \in Daemons, "late" \notin mishaps',
               step'[j] \in Working, e \notin own'[j]
        PROVE  pidfile'[e] = Nobody
    BY <1>6, <2>1, <2>5 DEF DaemonInv
  <2> QED BY <2>2, <2>3, <2>4, <2>5 DEF DaemonInv
<1>7. ASSUME NEW d \in Daemons, NEW n \in Starts, DaemonWrites(d, n) PROVE DaemonInv'
  <2>1. /\ UNCHANGED <<step, own, plan, cur, madeBy, iface, mishaps>>
        /\ daemon[d][n] = "born" /\ pidfile'[d] = n /\ daemon'[d][n] = "up"
        /\ \A e \in Daemons : e # d => pidfile'[e] = pidfile[e]
        /\ \A e \in Daemons, m \in Starts : daemon'[e][m] = "born" => daemon[e][m] = "born"
    BY <1>7 DEF DaemonWrites, instVars, files, WorldTypes
  <2>2. ASSUME NEW i \in Instances, Engaged(i), "late" \notin mishaps
        PROVE  n = cur[i] /\ (step[i] \in Working => d \in own[i])
    <3>1. Keeps(n, d) /\ (step[madeBy[n]] = "crashed" => iface = n)
      BY <2>1, <2>2 DEF DaemonInv
    <3>2. madeBy[n] \in Instances /\ Alive(i)
      BY <2>2, <3>1 DEF Keeps, WorldTypes, LockInv, Engaged, Working, Alive
    <3>3. CASE d \in own[madeBy[n]]
      BY <3>1, <3>2, <3>3 DEF LockInv, Keeps
    <3>4. CASE step[madeBy[n]] = "crashed"
      <4>1. iface = n /\ iface \notin {Nobody, Other}
        BY <3>1, <3>4, HotspotAssumption DEF Starts, Nobody, Other
      <4>2. "iface" \in own[i]
        BY <2>2, <4>1 DEF Engaged, LockInv, HeldInv
      <4> QED BY <2>2, <3>2, <3>4, <4>1, <4>2 DEF HeldInv, Mine, Alive
    <3> QED BY <3>1, <3>3, <3>4 DEF Keeps
  <2>3. ASSUME NEW e \in Daemons, "late" \notin mishaps, pidfile'[e] # Nobody
        PROVE  daemon'[e][pidfile'[e]] # "born"
    BY <2>1, <2>3, PidfileNames DEF DaemonInv
  <2> QED BY <2>1, <2>2, <2>3 DEF DaemonInv, Keeps, Engaged
<1>8. ASSUME NEW d \in Daemons, NEW n \in Starts, DaemonEnds(d, n) \/ DaemonDies(d, n)
      PROVE  DaemonInv'
  <2>1. /\ UNCHANGED <<step, own, plan, cur, madeBy, iface>> /\ mishaps \subseteq mishaps'
        /\ \A e \in Daemons : pidfile'[e] \in {Nobody, pidfile[e]}
        /\ \A e \in Daemons, m \in Starts : daemon'[e][m] = "born" => daemon[e][m] = "born"
    <3>1. CASE DaemonEnds(d, n)
      BY <3>1 DEF DaemonEnds, instVars, WorldTypes
    <3>2. CASE DaemonDies(d, n)
      BY <3>2 DEF DaemonDies, Trouble, instVars, files, WorldTypes
    <3> QED BY <1>8, <3>1, <3>2
  <2>2. ASSUME NEW e \in Daemons, "late" \notin mishaps', pidfile'[e] # Nobody
        PROVE  daemon'[e][pidfile'[e]] # "born"
    BY <2>1, <2>2, PidfileNames DEF DaemonInv
  <2> QED BY <2>1, <2>2 DEF DaemonInv, Keeps, Engaged
<1>9. ASSUME NEW i \in Instances, ProcessDies(i) PROVE DaemonInv'
  <2>1. /\ \A n, r : Keeps(n, r) => Keeps(n, r)'
        /\ \A j \in Instances : Engaged(j)' => Engaged(j)
        /\ UNCHANGED <<plan, cur, madeBy, iface, daemon, pidfile, mishaps>>
        /\ \A j \in Instances : step'[j] \in Working => step[j] \in Working /\ own'[j] = own[j]
    BY <1>9, Died DEF world, files, ProcessDies, Goto, HotspotTypes, Working
  <2>2. ASSUME NEW d \in Daemons, NEW n \in Starts, Keeps(n, d),
               step[madeBy[n]] = "crashed" => iface = n,
               step'[madeBy[n]] = "crashed"
        PROVE  iface = n
    <3>1. madeBy[n] \in Instances
      BY <2>2 DEF Keeps, WorldTypes
    <3>2. CASE madeBy[n] # i
      BY <1>9, <2>2, <3>1, <3>2 DEF ProcessDies, Goto, HotspotTypes
    <3>3. CASE madeBy[n] = i
      BY <1>9, <2>2, <3>3 DEF ProcessDies, Alive, Keeps, LockInv, HeldInv
    <3> QED BY <3>2, <3>3
  <2> QED BY <2>1, <2>2 DEF DaemonInv
<1>10. CASE OtherInterface
  <2>1. UNCHANGED <<step, own, plan, cur, madeBy, pidfile, daemon, mishaps>>
    BY <1>10 DEF OtherInterface, instVars, files
  <2>2. \A n \in Starts : iface = n => iface' = n
    BY <1>10, HotspotAssumption DEF OtherInterface, Starts, Nobody, Other
  <2> QED BY <2>1, <2>2 DEF DaemonInv, Keeps, Engaged
<1>11. CASE Tidy
  BY <1>11 DEF Tidy, DaemonInv, Engaged, LockInv, Alive, Working
<1>12. CASE UNCHANGED hotspotVars
  BY <1>1, <1>12 DEF hotspotVars, instVars, Quiet, Engaged
<1>13. ASSUME NEW i \in Instances, NEW q \in {"iface", "conf", "addr", "nat"},
              Undoes(i, q), UNCHANGED <<daemon, pidfile>>, mishaps \subseteq mishaps',
              q # "iface" => iface' = iface
       PROVE  DaemonInv'
  BY <1>5, <1>13 DEF Resources, Daemons
<1>14. ASSUME NEW i \in Instances, Undo(i) PROVE DaemonInv'
  <2>1. CASE UndoFails(i)
    <3>1. PICK q \in Resources \ Daemons : Undoes(i, q)
      BY <2>1 DEF UndoFails
    <3> QED BY <1>5, <2>1, <3>1 DEF UndoFails, Trouble, files
  <2>2. CASE UndoNat(i)
    BY <1>13, <2>2 DEF UndoNat, files
  <2>3. CASE UndoAddress(i)
    BY <1>13, <2>3 DEF UndoAddress, files
  <2>4. CASE UndoConfig(i)
    BY <1>13, <2>4 DEF UndoConfig
  <2>5. CASE UndoInterface(i)
    BY <1>13, <2>5 DEF UndoInterface, files
  <2>6. CASE Undone(i)
    BY <1>1, <2>6, QuietSteps
  <2>7. ASSUME NEW d \in Daemons, UndoDaemonUnseen(i, d) PROVE DaemonInv'
    <3>1. "late" \notin mishaps' =>
             daemon[d][cur[i]] \notin {"born", "up"} /\ "late" \notin mishaps
      BY <2>7 DEF UndoDaemonUnseen
    <3> QED BY <1>6, <2>7, <3>1 DEF UndoDaemonUnseen, files, DaemonInv
  <2>8. ASSUME NEW d \in Daemons, UndoDaemonGone(i, d) PROVE DaemonInv'
    <3>1. "late" \notin mishaps => daemon[d][cur[i]] # "born"
      BY <2>8 DEF UndoDaemonGone, Undoes, Running, DaemonInv, Engaged
    <3> QED BY <1>6, <2>8, <3>1 DEF UndoDaemonGone, files, DaemonInv
  <2>9. ASSUME NEW d \in Daemons, UndoDaemon(i, d) PROVE DaemonInv'
    <3>1. /\ Undoes(i, d) /\ iface' = iface /\ pidfile[d] # Nobody
          /\ pidfile' = [pidfile EXCEPT ![d] = Nobody]
          /\ mishaps \subseteq mishaps'
          /\ \/ daemon' = [daemon EXCEPT ![d][pidfile[d]] = "term"]
             \/ daemon' = daemon
      BY <2>9 DEF UndoDaemon, Trouble, DaemonReady
    <3>4. \A e \in Daemons, n \in Starts :
            daemon'[e][n] = "born" => daemon[e][n] = "born"
      <4>1. CASE daemon' = [daemon EXCEPT ![d][pidfile[d]] = "term"]
        <5>1. ASSUME NEW e \in Daemons, NEW n \in Starts
              PROVE  daemon'[e][n] = IF e = d /\ n = pidfile[d] THEN "term" ELSE daemon[e][n]
          <6> DEFINE f == [daemon[d] EXCEPT ![pidfile[d]] = "term"]
          <6>1. daemon' = [daemon EXCEPT ![d] = f]
            BY <4>1
          <6>2. e # d => daemon'[e] = daemon[e]
            BY <6>1 DEF WorldTypes
          <6>3. e = d => daemon'[e] = f
            BY <6>1 DEF WorldTypes
          <6>4. f[n] = IF n = pidfile[d] THEN "term" ELSE daemon[d][n]
            BY DEF WorldTypes
          <6> QED BY <6>2, <6>3, <6>4
        <5> QED BY <5>1
      <4> QED BY <3>1, <4>1
    <3>2. "late" \notin mishaps => pidfile[d] = cur[i] /\ daemon[d][cur[i]] # "born"
      BY <3>1 DEF DaemonInv, Engaged, Undoes
    <3>3. cur[i] \in Starts
      BY <3>1 DEF Undoes, Engaged, HeldInv, Starts, Nobody, WorldTypes
    <3>5. "late" \notin mishaps => daemon'[d][cur[i]] # "born"
      BY <3>2, <3>3, <3>4
    <3>6. /\ pidfile'[d] = Nobody
          /\ \A e \in Daemons : e # d => pidfile'[e] = pidfile[e]
      BY <3>1 DEF WorldTypes
    <3>7. \A e \in Daemons : "late" \notin mishaps' /\ pidfile'[e] # Nobody =>
             pidfile'[e] = pidfile[e] /\ daemon'[e][pidfile[e]] # "born"
      BY <3>1, <3>4, <3>6, PidfileNames DEF DaemonInv
    <3> QED BY <1>6, <3>1, <3>4, <3>5, <3>6, <3>7
  <2> QED BY <1>14, <2>1, <2>2, <2>3, <2>4, <2>5, <2>6, <2>7, <2>8, <2>9 DEF Undo
<1>15. ASSUME NEW i \in Instances, Start(i) PROVE DaemonInv'
  <2>1. CASE \/ Restart(i) \/ BeginFails(i) \/ StepFails(i)
             \/ WaitDaemon(i, "hostapd", "hostapd_wait", "addr")
             \/ WaitDaemon(i, "dnsmasq", "dnsmasq_wait", "nat")
    BY <1>1, <2>1, QuietSteps
  <2>2. CASE AddInterface(i) \/ WriteConfig(i) \/ AddAddress(i) \/ FinishNat(i) \/ AddRule(i)
    <3>1. iface' = iface \/ iface \in {Nobody, Other}
      BY <2>2 DEF AddInterface, WriteConfig, AddAddress, FinishNat, AddRule, Checked,
                  Started, world
    <3> QED BY <1>2, <2>2, <3>1, GrowingSteps
  <2>3. CASE Begin(i)
    BY <1>3, <2>3
  <2>4. CASE RunDaemon(i, "hostapd", "hostapd_wait")
    BY <1>4, <2>4 DEF RunDaemon, At, Working, Daemons
  <2>5. CASE RunDaemon(i, "dnsmasq", "dnsmasq_wait")
    BY <1>4, <2>5 DEF RunDaemon, At, Working, Daemons
  <2> QED BY <1>15, <2>1, <2>2, <2>3, <2>4, <2>5 DEF Start
<1>16. ASSUME NEW i \in Instances, Create(i) \/ Stop(i) \/ DestroyHotspot(i)
       PROVE  DaemonInv'
  BY <1>1, <1>16, QuietSteps
<1> QED BY <1>7, <1>8, <1>9, <1>10, <1>11, <1>12, <1>14, <1>15, <1>16
        DEF HotspotNext, Machine, Process

\* What is left on the machine: every step of a process and of the machine.
LEMMA CleanStep ==
    ASSUME HotspotInv, DaemonInv, CleanInv, [HotspotNext]_hotspotVars
    PROVE  CleanInv'
<1> USE DEF HotspotInv
<1>1. CASE Quiet
  BY <1>1, QuietKeeps
<1>2. ASSUME NEW i \in Instances, Grows(i),
             iface' = iface \/ (iface' = cur[i] /\ "iface" \in own'[i]),
             conf' = conf \/ (conf' = cur[i] /\ "conf" \in own'[i]),
             \A s \in Subnets :
               rule'[s] = rule[s] \/ (rule'[s] = cur[i] /\ s = plan[i] /\ "nat" \in own'[i])
      PROVE  CleanInv'
  <2>1. \A n, r : Keeps(n, r) => Keeps(n, r)'
    BY <1>2, Retains DEF Grows
  <2>2. \A r : r \in own'[i] => Keeps(cur[i], r)'
    BY <1>2, Acquired DEF Grows
  <2>3. madeBy[cur[i]] = i
    BY <1>2 DEF Grows, HeldInv, Mine
  <2> QED BY <1>2, <2>1, <2>2, <2>3 DEF Grows, CleanInv
<1>3. ASSUME NEW i \in Instances, Begin(i) PROVE CleanInv'
  <2>1. /\ UNCHANGED <<own, iface, conf, rule, daemon, pidfile, mishaps>>
        /\ own[i] = {} /\ step[i] \in {"ready", "begin"}
        /\ \A j \in Instances \ {i} : plan'[j] = plan[j] /\ step'[j] = step[j]
    BY <1>3, SelectedIsPlan DEF Begin, Goto, At, HotspotTypes, WorldTypes, LockInv, world, files
  <2>2. ASSUME NEW n, NEW r, Keeps(n, r)
        PROVE  /\ Keeps(n, r)' /\ madeBy'[n] = madeBy[n]
               /\ plan'[madeBy[n]] = plan[madeBy[n]]
    <3>1. CASE Goto(i, "ready") /\ UNCHANGED <<cur, madeBy>>
      <4>1. madeBy[n] \in Instances \ {i}
        BY <2>1, <2>2 DEF Keeps, WorldTypes
      <4> QED BY <2>1, <2>2, <3>1, <4>1 DEF Keeps, Goto, HotspotTypes
    <3>2. CASE NewStart(i)
      BY <2>1, <2>2, <3>2, NewStartKeeps
    <3> QED BY <1>3, <3>1, <3>2 DEF Begin, NewStart
  <2> QED BY <2>1, <2>2 DEF CleanInv
<1>4. ASSUME NEW i \in Instances, NEW d \in Daemons, NEW wait, RunDaemon(i, d, wait),
             wait \in Working
      PROVE  CleanInv'
  <2>1. /\ UNCHANGED <<plan, cur, madeBy, iface, conf, rule, pidfile, mishaps>>
        /\ daemon' = [daemon EXCEPT ![d][cur[i]] = "born"]
        /\ own' = [own EXCEPT ![i] = @ \cup {d}]
        /\ \A j \in Instances : step[j] = "crashed" <=> step'[j] = "crashed"
        /\ step[i] \in Working /\ d \notin own[i] /\ Engaged(i)
    BY <1>4 DEF RunDaemon, Owns, Goto, At, instVars, files, HotspotTypes, Engaged, Working,
                LockInv, Daemons
  <2>2. \A n, r : Keeps(n, r) => Keeps(n, r)'
    BY <2>1, Retains DEF HotspotTypes
  <2>3. Keeps(cur[i], d)'
    BY <2>1, Acquired DEF HotspotTypes
  <2>4. \A e \in Daemons, n \in Starts :
          n # cur[i] \/ e # d => daemon'[e][n] = daemon[e][n]
    BY <2>1 DEF WorldTypes
  <2>5. ASSUME NEW e \in Daemons, mishaps = {}, pidfile'[e] # Nobody
        PROVE  daemon'[e][pidfile'[e]] = "up"
    <3>1. pidfile[d] = Nobody
      BY <2>1, <2>5 DEF DaemonInv
    <3> QED BY <2>1, <2>4, <2>5, <3>1, PidfileNames DEF CleanInv
  <2> QED BY <2>1, <2>2, <2>3, <2>4, <2>5 DEF CleanInv
<1>5. ASSUME NEW i \in Instances, NEW q \in {"iface", "conf", "addr", "nat"},
             Undoes(i, q), UNCHANGED <<daemon, pidfile, mishaps>>,
             iface' = (IF q = "iface" THEN Nobody ELSE iface),
             conf' = (IF q = "conf" THEN Nobody ELSE conf),
             rule' = (IF q = "nat" THEN [rule EXCEPT ![plan[i]] = Nobody] ELSE rule)
      PROVE  CleanInv'
  <2>1. ASSUME NEW n, NEW r, r # q \/ n # cur[i], Keeps(n, r)
        PROVE  Keeps(n, r)' /\ plan'[madeBy'[n]] = plan[madeBy[n]]
    BY <1>5, <2>1, RetainsOthers DEF Undoes, instVars
  <2>2. ASSUME NEW s \in Subnets, rule'[s] # Nobody, q = "nat", mishaps = {}
        PROVE  rule'[s] = rule[s] /\ rule[s] # cur[i]
    <3>1. rule'[s] = rule[s] /\ s # plan[i]
      BY <1>5, <2>2 DEF WorldTypes
    <3>2. CASE rule[s] = cur[i]
      <4>1. plan[madeBy[cur[i]]] = s
        BY <2>2, <3>1, <3>2 DEF CleanInv
      <4>2. madeBy[cur[i]] = i
        BY <1>5 DEF Undoes, HeldInv, Mine, Engaged
      <4> QED BY <3>1, <4>1, <4>2
    <3> QED BY <3>1, <3>2
  <2>3. ASSUME NEW s \in Subnets, rule'[s] # Nobody, mishaps = {}
        PROVE  Keeps(rule[s], "nat")' /\ plan'[madeBy'[rule[s]]] = s /\ rule'[s] = rule[s]
    BY <1>5, <2>1, <2>2, <2>3 DEF CleanInv
  <2>4. \A e \in Daemons : e # q
    BY DEF Daemons
  <2>5. mishaps = {} => \A e \in Daemons, n \in Starts :
          daemon[e][n] \in {"born", "up"} => Keeps(n, e)'
    BY <2>1, <2>4 DEF CleanInv
  <2> QED BY <1>5, <2>1, <2>3, <2>5 DEF CleanInv
<1>6. ASSUME NEW i \in Instances, NEW d \in Daemons, Undoes(i, d), mishaps \subseteq mishaps',
             UNCHANGED <<iface, conf, rule>>,
             mishaps' = {} => daemon'[d][cur[i]] \notin {"born", "up"},
             \A e \in Daemons, n \in Starts :
               (e # d \/ n # cur[i]) => daemon'[e][n] = daemon[e][n],
             \A e \in Daemons : mishaps' = {} /\ pidfile'[e] # Nobody =>
               pidfile'[e] = pidfile[e] /\ daemon'[e][pidfile[e]] = "up"
      PROVE  CleanInv'
  <2>1. ASSUME NEW n, NEW r, r # d \/ n # cur[i], Keeps(n, r)
        PROVE  Keeps(n, r)' /\ plan'[madeBy'[n]] = plan[madeBy[n]]
    BY <1>6, <2>1, RetainsOthers DEF Undoes, instVars
  <2>2. d # "iface" /\ d # "conf" /\ d # "nat"
    BY DEF Daemons
  <2>3. ASSUME NEW e \in Daemons, NEW n \in Starts, mishaps' = {},
               daemon'[e][n] \in {"born", "up"}
        PROVE  Keeps(n, e)'
    BY <1>6, <2>1, <2>3 DEF CleanInv
  <2> QED BY <1>6, <2>1, <2>2, <2>3 DEF CleanInv
<1>7. ASSUME NEW d \in Daemons, NEW n \in Starts, DaemonWrites(d, n) PROVE CleanInv'
  <2>1. /\ UNCHANGED <<step, own, plan, cur, madeBy, iface, conf, rule, mishaps>>
        /\ daemon[d][n] = "born" /\ pidfile'[d] = n /\ daemon'[d][n] = "up"
        /\ \A e \in Daemons : e # d => pidfile'[e] = pidfile[e]
        /\ \A e \in Daemons, m \in Starts :
            e # d \/ m # n => daemon'[e][m] = daemon[e][m]
    BY <1>7 DEF DaemonWrites, instVars, files, WorldTypes
  <2>2. \A e \in Daemons : mishaps = {} /\ pidfile'[e] # Nobody =>
          daemon'[e][pidfile'[e]] = "up"
    BY <2>1, PidfileNames DEF CleanInv
  <2> QED BY <2>1, <2>2 DEF CleanInv, Keeps
<1>8. ASSUME NEW d \in Daemons, NEW n \in Starts, DaemonEnds(d, n) PROVE CleanInv'
  <2>1. /\ UNCHANGED <<step, own, plan, cur, madeBy, iface, conf, rule>>
        /\ mishaps \subseteq mishaps'
        /\ pidfile'[d] = Nobody /\ \A e \in Daemons : e # d => pidfile'[e] = pidfile[e]
        /\ daemon'[d][n] = "off"
        /\ \A e \in Daemons, m \in Starts :
            e # d \/ m # n => daemon'[e][m] = daemon[e][m]
    BY <1>8 DEF DaemonEnds, instVars, WorldTypes
  <2>2. \A e \in Daemons : mishaps = {} /\ pidfile'[e] # Nobody =>
          daemon'[e][pidfile'[e]] = "up"
    BY <2>1, PidfileNames DEF CleanInv
  <2> QED BY <2>1, <2>2 DEF CleanInv, Keeps
<1>9. ASSUME NEW i \in Instances, ProcessDies(i) PROVE CleanInv'
  <2>1. /\ \A n, r : Keeps(n, r) => Keeps(n, r)'
        /\ UNCHANGED <<plan, cur, madeBy, iface, conf, rule, daemon, pidfile, mishaps>>
    BY <1>9, Died DEF world, files
  <2> QED BY <2>1 DEF CleanInv
<1>10. CASE OtherInterface
  BY <1>10 DEF OtherInterface, instVars, files, CleanInv, Keeps
<1>11. CASE Tidy
  BY <1>11 DEF Tidy, CleanInv
<1>12. CASE UNCHANGED hotspotVars
  BY <1>1, <1>12 DEF hotspotVars, instVars, Quiet, Engaged
<1>13. ASSUME NEW i \in Instances, Undo(i) PROVE CleanInv'
  <2>1. CASE UndoFails(i)
    BY <2>1 DEF UndoFails, Trouble, CleanInv
  <2>2. CASE UndoNat(i)
    BY <1>5, <2>2 DEF UndoNat, files
  <2>3. CASE UndoAddress(i)
    BY <1>5, <2>3 DEF UndoAddress, files
  <2>4. CASE UndoConfig(i)
    BY <1>5, <2>4 DEF UndoConfig
  <2>5. CASE UndoInterface(i)
    BY <1>5, <2>5 DEF UndoInterface, files
  <2>6. CASE Undone(i)
    BY <1>1, <2>6, QuietSteps
  <2>7. ASSUME NEW d \in Daemons, UndoDaemonUnseen(i, d) PROVE CleanInv'
    <3>1. mishaps' = {} => daemon[d][cur[i]] \notin {"born", "up"} /\ mishaps = {}
      BY <2>7 DEF UndoDaemonUnseen
    <3> QED BY <1>6, <2>7, <3>1 DEF UndoDaemonUnseen, files, CleanInv
  <2>8. ASSUME NEW d \in Daemons, UndoDaemonGone(i, d) PROVE CleanInv'
    BY <2>8 DEF UndoDaemonGone, Running, CleanInv
  <2>9. ASSUME NEW d \in Daemons, UndoDaemon(i, d) PROVE CleanInv'
    <3>1. CASE mishaps' # {}
      BY <3>1 DEF CleanInv
    <3>2. CASE mishaps' = {}
      <4>1. /\ Undoes(i, d) /\ UNCHANGED <<iface, conf, rule, mishaps>>
            /\ daemon' = [daemon EXCEPT ![d][pidfile[d]] = "term"]
            /\ pidfile' = [pidfile EXCEPT ![d] = Nobody] /\ pidfile[d] # Nobody
        BY <2>9, <3>2 DEF UndoDaemon, Trouble, DaemonReady
      <4>2. pidfile[d] = cur[i] /\ cur[i] \in Starts
        BY <3>2, <4>1, PidfileNames DEF DaemonInv, Undoes, Engaged
      <4>3. daemon'[d][cur[i]] = "term"
        BY <4>1, <4>2 DEF WorldTypes
      <4>4. \A e \in Daemons, n \in Starts :
              e # d \/ n # cur[i] => daemon'[e][n] = daemon[e][n]
        BY <4>1, <4>2 DEF WorldTypes
      <4>5. \A e \in Daemons : pidfile'[e] # Nobody =>
              pidfile'[e] = pidfile[e] /\ daemon'[e][pidfile[e]] = "up"
        BY <3>2, <4>1, <4>4, PidfileNames DEF CleanInv, WorldTypes
      <4> QED BY <1>6, <4>1, <4>3, <4>4, <4>5
    <3> QED BY <3>1, <3>2
  <2> QED BY <1>13, <2>1, <2>2, <2>3, <2>4, <2>5, <2>6, <2>7, <2>8, <2>9 DEF Undo
<1>14. ASSUME NEW i \in Instances, Start(i) PROVE CleanInv'
  <2>1. CASE \/ Restart(i) \/ BeginFails(i) \/ StepFails(i)
             \/ WaitDaemon(i, "hostapd", "hostapd_wait", "addr")
             \/ WaitDaemon(i, "dnsmasq", "dnsmasq_wait", "nat")
    BY <1>1, <2>1, QuietSteps
  <2>2. CASE AddInterface(i)
    BY <1>2, <2>2, GrowingSteps DEF AddInterface, Owns, HotspotTypes, files
  <2>3. CASE WriteConfig(i)
    BY <1>2, <2>3, GrowingSteps DEF WriteConfig, Owns, HotspotTypes
  <2>4. CASE AddAddress(i)
    BY <1>2, <2>4, GrowingSteps DEF AddAddress, files
  <2>5. CASE FinishNat(i)
    BY <1>2, <2>5, GrowingSteps DEF FinishNat, Checked, Started, files, world
  <2>6. CASE AddRule(i)
    BY <1>2, <2>6, GrowingSteps DEF AddRule, Owns, Started, files, HotspotTypes, WorldTypes
  <2>7. CASE Begin(i)
    BY <1>3, <2>7
  <2>8. CASE RunDaemon(i, "hostapd", "hostapd_wait")
    BY <1>4, <2>8 DEF Working, Daemons
  <2>9. CASE RunDaemon(i, "dnsmasq", "dnsmasq_wait")
    BY <1>4, <2>9 DEF Working, Daemons
  <2> QED BY <1>14, <2>1, <2>2, <2>3, <2>4, <2>5, <2>6, <2>7, <2>8, <2>9 DEF Start
<1>15. ASSUME NEW i \in Instances, Create(i) \/ Stop(i) \/ DestroyHotspot(i)
       PROVE  CleanInv'
  BY <1>1, <1>15, QuietSteps
<1>16. ASSUME NEW d \in Daemons, NEW n \in Starts, DaemonDies(d, n) PROVE CleanInv'
  BY <1>16 DEF DaemonDies, Trouble, CleanInv
<1> QED BY <1>3, <1>7, <1>8, <1>9, <1>10, <1>11, <1>12, <1>13, <1>14, <1>15, <1>16
        DEF HotspotNext, Machine, Process

\* One process at a time works on the machine; what its flags stand for is its
\* own start's; daemons without a pidfile and remains on the machine are accounted
\* for (linux_hotspot.c:70-544).
THEOREM HotspotInvariant == HotspotSpec => [](HotspotInv /\ DaemonInv /\ CleanInv)
<1>1. HotspotInit => HotspotInv /\ DaemonInv /\ CleanInv
  <2> SUFFICES ASSUME HotspotInit PROVE HotspotInv /\ DaemonInv /\ CleanInv
    OBVIOUS
  <2> USE DEF HotspotInit, NothingThere, Nobody
  <2>1. HotspotTypes
    BY DEF HotspotTypes, Phases
  <2>2. WorldTypes
    BY HotspotAssumption DEF WorldTypes, Owners, Other
  <2>3. LockInv
    BY DEF LockInv, Alive, Working
  <2>4. HeldInv
    BY DEF HeldInv, Engaged, Working
  <2>5. DaemonInv /\ CleanInv
    BY DEF DaemonInv, CleanInv, Engaged, Working
  <2> QED BY <2>1, <2>2, <2>3, <2>4, <2>5 DEF HotspotInv
<1>2. HotspotInv /\ DaemonInv /\ CleanInv /\ [HotspotNext]_hotspotVars
        => (HotspotInv /\ DaemonInv /\ CleanInv)'
  <2> SUFFICES ASSUME HotspotInv, DaemonInv, CleanInv, [HotspotNext]_hotspotVars
               PROVE  HotspotInv' /\ DaemonInv' /\ CleanInv'
    OBVIOUS
  <2>1. HotspotTypes' /\ LockInv'
    BY LockStep DEF HotspotInv
  <2>2. WorldTypes'
    BY TypeStep DEF HotspotInv
  <2>3. HeldInv'
    BY HeldStep DEF HotspotInv
  <2>4. DaemonInv' /\ CleanInv'
    BY DaemonStep, CleanStep
  <2> QED BY <2>1, <2>2, <2>3, <2>4 DEF HotspotInv
<1> QED BY <1>1, <1>2, PTL DEF HotspotSpec

\* Type correctness of the hotspot and of the machine (linux_hotspot.c:255-349).
THEOREM HotspotTypesHold == HotspotSpec => []HotspotTypeOK
<1>1. HotspotInv => HotspotTypeOK
  BY DEF HotspotInv, HotspotTypes, WorldTypes, HeldInv, Engaged, HotspotTypeOK
<1> QED BY <1>1, HotspotInvariant, PTL

\* A start that failed, a stop and the end of a process leave nothing of the
\* hotspot on the machine unless something went wrong that the code only logs
\* (linux_hotspot.c:203-253 rollback).
THEOREM HotspotLeavesNothing == HotspotSpec => []NothingLeftBehind
<1>1. HotspotInv /\ CleanInv => NothingLeftBehind
  <2> SUFFICES ASSUME HotspotInv, CleanInv, mishaps = {}, NEW n \in DOMAIN madeBy,
                      \/ n # cur[madeBy[n]]
                      \/ step[madeBy[n]] \in {"ready", "gone"} /\ ~active[madeBy[n]]
               PROVE  /\ n \notin {iface, conf}
                      /\ \A s \in Subnets : rule[s] # n
                      /\ \A d \in Daemons :
                          pidfile[d] # n /\ daemon[d][n] \in {"off", "term"}
    BY DEF NothingLeftBehind
  <2>1. n \in Starts /\ n # Nobody /\ n # Other /\ madeBy[n] \in Instances
    BY HotspotAssumption DEF HotspotInv, WorldTypes, Starts, Nobody, Other
  <2>2. ASSUME NEW r PROVE ~Keeps(n, r)
    BY <2>1 DEF Keeps, HotspotInv, LockInv, Alive
  <2>3. \A d \in Daemons : daemon[d][n] \in {"off", "term"} /\ pidfile[d] # n
    BY <2>1, <2>2 DEF CleanInv, HotspotInv, WorldTypes
  <2> QED BY <2>1, <2>2, <2>3 DEF CleanInv
<1> QED BY <1>1, HotspotInvariant, PTL

\* One step: what a process takes away is its own.
TakesItsOwn(i) ==
    /\ iface \notin {Nobody, iface'} => Mine(i, iface)
    /\ conf \notin {Nobody, conf'} => Mine(i, conf)
    /\ \A s \in Subnets : rule[s] \notin {Nobody, rule'[s]} => Mine(i, rule[s])
    /\ \A d \in Daemons, n \in Starts :
        daemon[d][n] # daemon'[d][n] => Mine(i, n) \/ "late" \in mishaps

\* A step of one process is not a step of another.
LEMMA OnlyItsOwnSteps ==
    ASSUME HotspotTypes, NEW j \in Instances, Process(j) \/ ProcessDies(j)
    PROVE  \A k \in Instances \ {j} : step'[k] = step[k] /\ own'[k] = own[k]
<1> USE DEF HotspotTypes, Goto, At, Owns
<1>1. CASE Create(j) \/ Stop(j) \/ DestroyHotspot(j) \/ ProcessDies(j)
  BY <1>1 DEF Create, Stop, DestroyHotspot, ProcessDies, Rollback
<1>2. CASE Start(j)
  BY <1>2 DEF Start, Restart, Begin, BeginFails, StepFails, AddInterface, WriteConfig,
              RunDaemon, WaitDaemon, AddAddress, FinishNat, AddRule, Checked, Started,
              Rollback
<1>3. CASE Undo(j)
  BY <1>3 DEF Undo, UndoFails, UndoNat, UndoAddress, UndoConfig, UndoInterface, Undone,
              UndoDaemonUnseen, UndoDaemonGone, UndoDaemon, Undoes
<1> QED BY <1>1, <1>2, <1>3 DEF Process

\* Whatever a process's step takes away was made by its own start.
LEMMA StepTakesItsOwn ==
    ASSUME HotspotInv, DaemonInv, [HotspotNext]_hotspotVars, NEW i \in Instances,
           step[i] # step'[i] \/ own[i] # own'[i]
    PROVE  TakesItsOwn(i)
<1> USE DEF HotspotInv
<1>1. CASE UNCHANGED world
  BY <1>1 DEF world, files, TakesItsOwn
<1>2. ASSUME NEW j \in Instances, Process(j) \/ ProcessDies(j) PROVE j = i
  BY <1>2, OnlyItsOwnSteps
<1>3. CASE Machine \/ UNCHANGED hotspotVars
  BY <1>3 DEF Machine, DaemonWrites, DaemonEnds, DaemonDies, OtherInterface, Tidy, hotspotVars
<1>4. CASE AddInterface(i)
  BY <1>4 DEF AddInterface, TakesItsOwn, files
<1>5. CASE WriteConfig(i)
  BY <1>5 DEF WriteConfig, At, HeldInv, TakesItsOwn
<1>6. CASE AddAddress(i)
  BY <1>6 DEF AddAddress, TakesItsOwn, files
<1>7. CASE FinishNat(i)
  BY <1>7 DEF FinishNat, Checked, Started, world, TakesItsOwn, files
<1>8. CASE AddRule(i)
  BY <1>8 DEF AddRule, Started, At, HeldInv, TakesItsOwn, files, WorldTypes
<1>9. ASSUME NEW d \in Daemons, NEW wait, RunDaemon(i, d, wait), wait \in Working
      PROVE  TakesItsOwn(i)
  <2>1. /\ UNCHANGED <<iface, conf, rule>> /\ Mine(i, cur[i])
        /\ daemon' = [daemon EXCEPT ![d][cur[i]] = "born"]
    BY <1>9 DEF RunDaemon, At, files, HeldInv, Engaged, Working, Daemons
  <2>2. \A e \in Daemons, n \in Starts :
          n # cur[i] \/ e # d => daemon'[e][n] = daemon[e][n]
    BY <2>1 DEF WorldTypes
  <2> QED BY <2>1, <2>2 DEF TakesItsOwn
<1>10. CASE UndoFails(i) \/ UndoAddress(i)
  BY <1>10 DEF UndoFails, UndoAddress, TakesItsOwn, files
<1>11. CASE UndoNat(i)
  BY <1>11 DEF UndoNat, Undoes, TakesItsOwn, files, HeldInv, Engaged, WorldTypes
<1>12. CASE UndoConfig(i)
  BY <1>12 DEF UndoConfig, Undoes, TakesItsOwn, HeldInv, Engaged
<1>13. CASE UndoInterface(i)
  BY <1>13 DEF UndoInterface, Undoes, TakesItsOwn, HeldInv, Engaged, files
<1>14. ASSUME NEW d \in Daemons, UndoDaemonUnseen(i, d) \/ UndoDaemonGone(i, d)
       PROVE  TakesItsOwn(i)
  BY <1>14 DEF UndoDaemonUnseen, UndoDaemonGone, TakesItsOwn, files
<1>15. ASSUME NEW d \in Daemons, UndoDaemon(i, d) PROVE TakesItsOwn(i)
  <2>1. /\ UNCHANGED <<iface, conf, rule>> /\ Undoes(i, d) /\ pidfile[d] # Nobody
        /\ daemon' = [daemon EXCEPT ![d][pidfile[d]] = "term"] \/ daemon' = daemon
    BY <1>15 DEF UndoDaemon, DaemonReady
  <2>2. "late" \notin mishaps => Mine(i, pidfile[d])
    BY <2>1 DEF Undoes, DaemonInv, HeldInv, Engaged
  <2>3. \A e \in Daemons, n \in Starts :
          n # pidfile[d] \/ e # d => daemon'[e][n] = daemon[e][n]
    BY <2>1, PidfileNames DEF WorldTypes
  <2> QED BY <2>1, <2>2, <2>3 DEF TakesItsOwn
<1>16. CASE Start(i)
  <2>1. CASE Restart(i) \/ Begin(i) \/ BeginFails(i) \/ StepFails(i)
             \/ WaitDaemon(i, "hostapd", "hostapd_wait", "addr")
             \/ WaitDaemon(i, "dnsmasq", "dnsmasq_wait", "nat")
    BY <1>1, <2>1 DEF Restart, Begin, BeginFails, StepFails, WaitDaemon, Checked, Rollback
  <2> QED BY <1>4, <1>5, <1>6, <1>7, <1>8, <1>9, <1>16, <2>1 DEF Start, Working, Daemons
<1>17. CASE Undo(i)
  <2>1. CASE Undone(i)
    BY <1>1, <2>1 DEF Undone
  <2> QED BY <1>10, <1>11, <1>12, <1>13, <1>14, <1>15, <1>17, <2>1 DEF Undo
<1>18. CASE Create(i) \/ Stop(i) \/ DestroyHotspot(i) \/ ProcessDies(i)
  BY <1>1, <1>18 DEF Create, Stop, DestroyHotspot, ProcessDies, Rollback
<1> QED BY <1>2, <1>3, <1>16, <1>17, <1>18 DEF HotspotNext, Process

\* linux_hotspot_start, linux_hotspot_stop and the rollback never take away what
\* another process or another program has made (linux_hotspot.c:203-253).
THEOREM HotspotSparesOthers == HotspotSpec => OthersKeepTheirs
<1>1. HotspotInv /\ DaemonInv /\ [HotspotNext]_hotspotVars
        => [\A i \in Instances : step[i] # step'[i] \/ own[i] # own'[i] =>
               TakesItsOwn(i)]_hotspotVars
  BY StepTakesItsOwn
<1> QED BY <1>1, HotspotInvariant, PTL DEF HotspotSpec, OthersKeepTheirs, TakesItsOwn
=============================================================================
