---------------------------- MODULE DeviceStore -----------------------------
(***************************************************************************)
(* What a device keeps: the NVS file of the Linux and of the simulation    *)
(* backend (linux_nvs.c, sim_nvs.c), the event log that is stored in it    *)
(* (device_eventlog.c, device_app_create) next to the WiFi credentials,    *)
(* and the log lines on their way to the window (LogQueue).                *)
(*                                                                         *)
(* Every write reads the whole file, changes one key, writes a temporary   *)
(* file and renames it.  The process may be killed and the machine may     *)
(* lose power between any two of these, and any of them may fail: reading  *)
(* as well, when there is no memory, no descriptor, or less than expected. *)
(***************************************************************************)
EXTENDS LogQueue, FiniteSets, SequencesExt

CONSTANTS
    Capacity,  \* DEVICE_EVLOG_CAPACITY
    Long,      \* the lines that need two units of room, the others need one
    ReadCap,   \* the buffer of nvs_read_json
    WriteCap,  \* the buffer of sim_nvs_set, which the Linux backend has not
    ReportMax, \* lines of a diag_report
    ReportCap, \* its buffer
    MaxLines,  \* bound: lines of the event log
    MaxAcks    \* bound: writes of the credentials

ASSUME StoreAssumption ==
    /\ Capacity \in Nat \ {0} /\ Long \subseteq Nat
    /\ {ReadCap, WriteCap, ReportMax, ReportCap, MaxLines, MaxAcks} \subseteq Nat
    /\ ReportMax > 0

VARIABLES
    kind,    \* the backend: linux or sim
    pc,      \* off, on, or rename: a temporary file is complete
    after,   \* where the write leads: on, or off at the end of the process
    key,     \* the key that is written
    tmp,     \* what the temporary file holds, Missing when there is none
    unread,  \* it was made without the file that is there
    file,    \* the NVS file as the processes see it
    disk,    \* the file as it is found after a power failure
    ring,    \* app->evlog, its head and its count
    last,    \* the number of the newest line
    fresh,   \* the log was stored less than a second ago
    boot,    \* history: the first line of this process
    kept,    \* history: the lines this process found in the store
    boots,   \* history: the first lines of all processes
    acks,    \* history: the credentials whose write succeeded
    blame    \* history: what happened to the store

logVars == <<ring, last, fresh, boot, kept, boots>>
writeVars == <<after, key, tmp, unread>>
storeVars == <<file, disk, acks, blame>>
vars == <<kind, pc, writeVars, logVars, storeVars, queueVars>>

Ring(s, h, n) == [slots |-> s, head |-> h, count |-> n]
EmptyRing == Ring([i \in 0..Capacity - 1 |-> 0], 0, 0)

\* A file that is ok was synced before it got its name.
Content(state, evlog, creds) == [state |-> state, evlog |-> evlog, creds |-> creds]
Missing == Content("missing", <<>>, 0)
Damaged == Content("damaged", <<>>, 0)

Init ==
    /\ kind \in {"linux", "sim"}
    /\ pc = "off" /\ after = "off" /\ key = "evlog"
    /\ tmp = Missing /\ unread = FALSE
    /\ file = Missing /\ disk = Missing
    /\ ring = EmptyRing /\ last = 0 /\ fresh = FALSE
    /\ boot = 1 /\ kept = 0 /\ boots = {}
    /\ acks = <<0>> /\ blame = {}
    /\ QueueNew

-----------------------------------------------------------------------------
(* The event log *)

\* The lines, from the oldest to the newest.
View(r) == [i \in 1..r.count |-> r.slots[(r.head + i - 1) % Capacity]]

\* Mutant: the oldest line stays the oldest when it is overwritten.
Pushed_KeepsHead(r, line) ==
    LET slots == [r.slots EXCEPT ![(r.head + r.count) % Capacity] = line] IN
    IF r.count < Capacity THEN Ring(slots, r.head, r.count + 1)
    ELSE Ring(slots, r.head, r.count)

\* evlog_record without the store
Pushed(r, line) ==
    LET slots == [r.slots EXCEPT ![(r.head + r.count) % Capacity] = line] IN
    IF r.count < Capacity THEN Ring(slots, r.head, r.count + 1)
    ELSE Ring(slots, (r.head + 1) % Capacity, r.count)

Size(log) == Len(log) + Cardinality({i \in DOMAIN log : log[i] \in Long})

\* evlog_fill_report: the last lines from the oldest on, as far as they fit.
Report(log) ==
    LET tail == SubSeq(log, Len(log) - (IF Len(log) > ReportMax THEN ReportMax ELSE Len(log)) + 1,
                       Len(log)) IN
    SubSeq(tail, 1, CHOOSE n \in 0..Len(tail) :
                      /\ Size(SubSeq(tail, 1, n)) <= ReportCap
                      /\ n < Len(tail) => Size(SubSeq(tail, 1, n + 1)) > ReportCap)

\* linux_nvs_get and sim_nvs_get, with the buffer of nvs_read_json, when the
\* file can be read
LinuxGets(size) == file.state # "damaged" /\ size <= ReadCap
SimGets(size) == file.state \notin {"missing", "damaged"} /\ size <= ReadCap

\* nvs_read_json
Gets(size) == IF kind = "linux" THEN LinuxGets(size) ELSE SimGets(size)

\* device_app_create: the lines of the store, pushed one by one.
Replayed(log) ==
    LET r[n \in 0..Len(log)] ==
            IF n = 0 THEN EmptyRing ELSE Pushed(r[n - 1], log[n])
    IN  r[Len(log)]

\* A log that cannot be read is no log, and any read may fail.
Restored ==
    {EmptyRing} \cup
        (IF Gets(Size(file.evlog)) THEN {Replayed(file.evlog)} ELSE {})

-----------------------------------------------------------------------------
(* The NVS *)

\* load_root: the Linux backend does not work on a file it cannot read.
LinuxLoads == file.state # "damaged"

\* nvs_load: a file that is damaged, or cannot be read this time, is taken for
\* an empty one.
SimLoaded == {Missing} \cup (IF file.state = "damaged" THEN {} ELSE {file})

\* Mutant: the file is renamed without being synced.
LinuxSaved_NotSynced(content) == [content EXCEPT !.state = "unsynced"]

\* save_root up to the rename
LinuxSaved(content) == [content EXCEPT !.state = "ok"]

\* sim_util_atomic_write_file up to the rename: written, not synced.
SimSaved(content) == [content EXCEPT !.state = "unsynced"]

\* The file with the key changed, as linux_nvs_set and sim_nvs_set write it.
Changed(f, k, value) == [f EXCEPT ![k] = value]

LinuxSet(k, value) ==
    LinuxLoads /\ tmp' = LinuxSaved(Changed(file, k, value)) /\ unread' = FALSE

SimSet(k, value, size) ==
    /\ size <= WriteCap
    /\ \E f \in SimLoaded :
        tmp' = SimSaved(Changed(f, k, value)) /\ unread' = (f # file)

\* linux_nvs_erase and sim_nvs_erase, when there is something to write; 0 is a
\* key that is not there.
LinuxErase == file.creds # 0 /\ LinuxSet("creds", 0)
SimErase ==
    /\ file.state \notin {"missing", "damaged"}
    /\ tmp' = SimSaved(Changed(file, "creds", 0)) /\ unread' = FALSE

\* When they say OK and have written nothing: the key is not there, or the
\* simulation has not read the file.
ErasesNothing == kind = "linux" => LinuxLoads /\ file.creds = 0

\* The end of a write that leaves no temporary file: any step of it fails.
WriteFails(to) == pc' = to /\ UNCHANGED writeVars

\* The temporary file is there.
Written(k, to) == pc' = "rename" /\ after' = to /\ key' = k

Write(k, value, size, to) ==
    \/ WriteFails(to)
    \/ /\ IF kind = "linux" THEN LinuxSet(k, value) ELSE SimSet(k, value, size)
       /\ Written(k, to)

Erase ==
    \/ WriteFails("on")
    \/ (IF kind = "linux" THEN LinuxErase ELSE SimErase) /\ Written("creds", "on")

StoreLog(log, to) == Write("evlog", log, Size(log), to)

\* The file has its new content.
Renamed ==
    /\ file' = tmp
    /\ acks' = IF key = "creds" THEN Append(acks, tmp.creds) ELSE acks
    /\ blame' = (IF key = "creds" THEN blame \ {"power", "unread"}
                 ELSE IF unread THEN blame \cup {"unread"} ELSE blame)
                \ {"unsaved"}

\* rename and the return to the caller
Rename ==
    /\ pc = "rename" /\ pc' = after
    /\ \/ Renamed
       \/ /\ blame' = IF after = "off" THEN blame \cup {"unsaved"} ELSE blame
          /\ UNCHANGED <<file, acks>>
    /\ tmp' = Missing /\ unread' = FALSE
    /\ UNCHANGED <<kind, after, key, disk, logVars, queueVars>>

-----------------------------------------------------------------------------
(* The process *)

\* evlog_record: the line is also logged, and the whole log is stored unless
\* that was done less than a second ago, successfully or not.
Line(r) ==
    /\ last < MaxLines
    /\ last' = last + 1
    /\ ring' = Pushed(r, last')

Record ==
    /\ pc = "on"
    /\ Line(ring)
    /\ QueuePush
    /\ fresh' = TRUE
    /\ IF fresh THEN UNCHANGED <<pc, writeVars>> ELSE StoreLog(View(ring'), "on")
    /\ UNCHANGED <<kind, boot, kept, boots, storeVars>>

\* device_app_create: the log of the last process, and a first line.  (What it
\* does to the credentials is in DeviceState.)
Boot ==
    /\ pc = "off"
    /\ \E found \in Restored : Line(found) /\ kept' = found.count
    /\ boot' = last' /\ boots' = boots \cup {last'}
    /\ fresh' = TRUE
    /\ StoreLog(View(ring'), "on")
    /\ blame' = blame \ {"unsaved", "crash"}
    /\ QueueFresh
    /\ UNCHANGED <<kind, file, disk, acks>>

\* net_nvs_set of the credentials
StoreCreds ==
    /\ pc = "on" /\ Len(acks) <= MaxAcks
    /\ Write("creds", Len(acks), 1, "on")
    /\ UNCHANGED <<kind, logVars, storeVars, queueVars>>

\* net_nvs_erase of the credentials
EraseCreds ==
    /\ pc = "on" /\ Len(acks) <= MaxAcks
    /\ \/ /\ ErasesNothing
          /\ acks' = Append(acks, 0)
          /\ blame' = IF file.creds = 0 THEN blame \ {"power", "unread"}
                      ELSE blame \cup {"unread"}
          /\ UNCHANGED <<pc, writeVars, file, disk>>
       \/ Erase /\ UNCHANGED storeVars
    /\ UNCHANGED <<kind, logVars, queueVars>>

\* Mutant: the last lines are stored only if the last time is long ago.
Destroy_Debounced ==
    /\ pc = "on"
    /\ IF fresh THEN pc' = "off" /\ UNCHANGED writeVars
       ELSE StoreLog(View(ring), "off")
    /\ blame' = IF pc' = "off" /\ ~fresh THEN blame \cup {"unsaved"} ELSE blame
    /\ UNCHANGED <<kind, logVars, file, disk, acks, queueVars>>

\* device_app_destroy: evlog_flush stores the log whenever it was stored last.
Destroy ==
    /\ pc = "on"
    /\ StoreLog(View(ring), "off")
    /\ blame' = IF pc' = "off" THEN blame \cup {"unsaved"} ELSE blame
    /\ UNCHANGED <<kind, logVars, file, disk, acks, queueVars>>

\* device_host_drain_logs, by the window
Drain ==
    /\ pc # "off" /\ waiting > 0
    /\ \E capacity \in 1..QueueCapacity : QueuePull(capacity)
    /\ UNCHANGED <<kind, pc, writeVars, logVars, storeVars>>

\* A second passes.
Second ==
    /\ fresh /\ pc = "on" /\ fresh' = FALSE
    /\ UNCHANGED <<kind, pc, writeVars, ring, last, boot, kept, boots,
                   storeVars, queueVars>>

\* The process is killed.
Crash ==
    /\ pc # "off" /\ pc' = "off"
    /\ blame' = blame \cup {"crash"}
    /\ UNCHANGED <<kind, writeVars, logVars, file, disk, acks, queueVars>>

\* The directory is never synced: the file system writes it when it likes.
Commit ==
    /\ kind = "linux" /\ disk # file
    /\ disk' = IF file.state = "unsynced" THEN Damaged ELSE file
    /\ UNCHANGED <<kind, pc, writeVars, logVars, file, acks, blame, queueVars>>

PowerFailure ==
    /\ kind = "linux" /\ pc' = "off"
    /\ file' = disk /\ disk # file
    /\ blame' = blame \cup {"power", "crash"}
    /\ UNCHANGED <<kind, writeVars, logVars, disk, acks, queueVars>>

\* Something else writes to the file.
Damage ==
    /\ "damage" \notin blame /\ pc = "off" /\ file # Missing
    /\ file' = Damaged /\ disk' = Damaged
    /\ blame' = blame \cup {"damage"}
    /\ UNCHANGED <<kind, pc, writeVars, logVars, acks, queueVars>>

Next ==
    \/ Boot \/ Record \/ StoreCreds \/ EraseCreds \/ Destroy \/ Rename
    \/ Drain \/ Second
    \/ Crash \/ Commit \/ PowerFailure \/ Damage

Spec == Init /\ [][Next]_vars

-----------------------------------------------------------------------------
(* Properties *)

TypeOK ==
    /\ kind \in {"linux", "sim"} /\ pc \in {"off", "on", "rename"}
    /\ after \in {"off", "on"} /\ key \in {"evlog", "creds"}
    /\ ring.head \in 0..Capacity - 1 /\ ring.count \in 0..Capacity
    /\ last \in 0..MaxLines /\ fresh \in BOOLEAN
    /\ QueueTypeOK

\* The store is whole after every crash and every power failure: it can be read
\* (linux_nvs.c syncs the temporary file before the rename), and it holds the
\* credentials that were last written with success.  Storing the event log, or a
\* read that fails, never changes them on Linux (load_root).  Only a power
\* failure may bring an older file back, and only the simulation, which takes a
\* file it could not read for an empty one and says OK, may lose them or keep
\* them where it should not (nvs_load), until they are written again.
StoreIsWhole ==
    "damage" \notin blame =>
        /\ file.state # "damaged"
        /\ file.creds \in Range(acks)
        /\ "power" \notin blame /\ (kind = "sim" => "unread" \notin blame)
              => file.creds = Last(acks)

\* The event log is a window on what was recorded: the newest line is the last
\* one, lines are in order, lines are missing only before the first line of a
\* process, and none of the restored or recorded lines is forgotten before
\* Capacity newer ones.
LogInOrder ==
    LET log == View(ring) IN
    last > 0 =>
        /\ Len(log) = (IF kept + last - boot + 1 < Capacity
                       THEN kept + last - boot + 1 ELSE Capacity)
        /\ Last(log) = last
        /\ \A i \in 1..Len(log) - 1 :
            /\ log[i] < log[i + 1]
            /\ log[i + 1] \notin boots => log[i + 1] = log[i] + 1

\* A process that ended by itself left its whole log in the store, unless the
\* write failed or the store was damaged; and a report whose lines all fit ends
\* with the newest.
LogIsKept ==
    LET log == View(ring) IN
    /\ (pc = "off" /\ last > 0 /\ blame \cap {"unsaved", "crash", "damage"} = {})
           => file.evlog = log
    /\ LogInOrder
    /\ Size(Report(log)) <= ReportCap
    /\ Size(log) <= ReportCap /\ last > 0 => Last(Report(log)) = last
=============================================================================
