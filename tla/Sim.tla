--------------------------------- MODULE Sim --------------------------------
(***************************************************************************)
(* The simulated radio (device/backends/sim, pc/backends/sim).  Every      *)
(* process has a world of its own, with the target network and its own     *)
(* hotspot; hotspots of other processes are seen through a directory of    *)
(* records, one file per device index, that survives its writers.          *)
(***************************************************************************)
EXTENDS Naturals, FiniteSets

CONSTANTS
    Devices,    \* device processes, over time
    Pc,         \* the host's process
    Indices,    \* device indices; an index also stands for its hotspot's SSID
    Target,     \* SSID of the target network
    Elsewhere,  \* any other SSID
    None,
    MaxFaults   \* bound: faults in force; one process at a time has a link or faults

Procs == Devices \cup {Pc}
Ssids == Indices \cup {Target, Elsewhere}

ASSUME SimAssumption ==
    /\ Pc \notin Devices /\ None \notin Procs \cup Ssids
    /\ None \notin [owner : Devices, old : BOOLEAN]
    /\ {Target, Elsewhere} \cap Indices = {} /\ Target # Elsewhere
    /\ IsFiniteSet(Indices) /\ MaxFaults \in Nat

VARIABLES
    life,      \* "none", "alive", "publish" (in ap_start), "remove" (in ap_stop
               \* or destroy), "dead"
    index,     \* device_index
    leaving,   \* destroy called ap_stop's steps
    started,   \* ap_started
    world,     \* the hotspot is in its process's own table
    sta,       \* sta_ssid, None if not connected
    faults,    \* faults in force: kinds per process
    catalog,   \* the record of each index: None or [owner, old]
    temps,     \* temporary files: <<index, process>>
    stuck      \* history: indices whose record could not be removed

apVars == <<life, index, leaving, started, world>>
vars == <<apVars, sta, faults, catalog, temps, stuck>>

Kinds == {"down", "auth", "deaf", "weak", "skip", "fail"}
Alive(p) == life[p] \in {"alive", "publish", "remove"}
Calls(p) == life[p] = "alive"

Init ==
    /\ life = [p \in Procs |-> IF p = Pc THEN "alive" ELSE "none"]
    /\ index = [p \in Devices |-> None] /\ leaving = [p \in Devices |-> FALSE]
    /\ started = [p \in Devices |-> FALSE] /\ world = [p \in Devices |-> FALSE]
    /\ sta = [p \in Procs |-> None] /\ faults = [p \in Procs |-> {}]
    /\ catalog = [i \in Indices |-> None] /\ temps = {} /\ stuck = {}

-----------------------------------------------------------------------------
(* What is seen *)

Published(i) == catalog[i] # None

\* sim_ap_catalog_list: a record counts until it is both old and orphaned.
Listed == {i \in Indices : Published(i) /\ (~catalog[i].old \/ Alive(catalog[i].owner))}

\* ap_record_read: the clocks of age and of publication differ, every record
\* is old, and the owner alone decides.
PcListed == {i \in Indices : Published(i) /\ Alive(catalog[i].owner)}

Own(p) == IF p # Pc /\ world[p] THEN {index[p]} ELSE {}

\* The scan, without repetitions, the target network while it is up.
DeviceScan(p) == Own(p) \cup Listed \cup (IF "down" \in faults[p] THEN {} ELSE {Target})
PcScan == PcListed \cup (IF "down" \in faults[Pc] THEN {} ELSE {Target})

\* A device's own table decides for the SSIDs in it.
WorldJoins(p, s, right) ==
    right /\ \/ s \in Own(p)
             \/ s = Target /\ faults[p] \cap {"down", "auth"} = {}

\* A hotspot in the catalog lets a device in with any password.
DeviceJoins(p, s, right) == WorldJoins(p, s, right) \/ s \in Listed

\* The host's process has no hotspot of its own; it checks the password that
\* every record has.
PcWorldJoins(s, right) == s = Target /\ faults[Pc] \cap {"down", "auth"} = {} /\ right
PcJoins(s, right) == PcWorldJoins(s, right) \/ (s \in PcListed /\ right)

Lost(p) == sta[p] = Target /\ "down" \in faults[p]

\* What a process is told of its link (wifi_get_current_ssid, wifi_get_ip): the
\* loss of the target network shows in both.
CurrentSsid(p) == IF Lost(p) THEN None ELSE sta[p]

DeviceAddress(p) ==
    CASE Lost(p) -> "error"
      [] ~Lost(p) /\ sta[p] # None -> "sta"
      [] OTHER -> IF started[p] THEN "ap" ELSE "none"

\* The host has its address whether it is connected or not.
PcAddress == IF Lost(Pc) THEN "error" ELSE "host"

-----------------------------------------------------------------------------
(* Processes and their hotspots *)

\* The process and its memory are gone.
Ends(p) ==
    /\ life' = [life EXCEPT ![p] = "dead"] /\ index' = [index EXCEPT ![p] = None]
    /\ sta' = [sta EXCEPT ![p] = None] /\ faults' = [faults EXCEPT ![p] = {}]

\* sim_world_ap_register, sim_world_ap_unregister
Registers(p) == world' = [world EXCEPT ![p] = TRUE]
Unregisters(p) == world' = [world EXCEPT ![p] = FALSE]

\* device_sim_backend_create: a failure undoes what was done.  Two devices at
\* once are configured with different indices.
Create(p) ==
    /\ life[p] = "none"
    /\ \E i \in Indices :
        /\ \A q \in Devices : Alive(q) => index[q] # i
        /\ index' = [index EXCEPT ![p] = i]
    /\ life' = [life EXCEPT ![p] = "alive"]
    /\ UNCHANGED <<leaving, started, world, sta, faults, catalog, temps, stuck>>

\* wifi_ap_start: its own table, then a temporary file (or not even that).
ApStart(p) ==
    /\ Calls(p)
    /\ Registers(p)
    /\ life' = [life EXCEPT ![p] = "publish"]
    /\ temps' \in {temps, temps \cup {<<index[p], p>>}}
    /\ UNCHANGED <<index, leaving, started, sta, faults, catalog, stuck>>

\* Mutant: a hotspot that could not be published is taken for started.
Publish_AlwaysStarted(p) ==
    /\ life[p] = "publish" /\ life' = [life EXCEPT ![p] = "alive"]
    /\ \/ /\ <<index[p], p>> \in temps
          /\ catalog' = [catalog EXCEPT ![index[p]] = [owner |-> p, old |-> FALSE]]
          /\ temps' = temps \ {<<index[p], p>>}
          /\ stuck' = stuck \ {index[p]}
       \/ UNCHANGED <<catalog, temps, stuck>>
    /\ started' = [started EXCEPT ![p] = TRUE]
    /\ UNCHANGED <<index, leaving, world, sta, faults>>

\* The rename, or a failure, which also withdraws the hotspot from the table
\* (a record of an earlier start stays, and so does ap_started).
Publish(p) ==
    /\ life[p] = "publish" /\ life' = [life EXCEPT ![p] = "alive"]
    /\ \/ /\ <<index[p], p>> \in temps
          /\ catalog' = [catalog EXCEPT ![index[p]] = [owner |-> p, old |-> FALSE]]
          /\ temps' = temps \ {<<index[p], p>>}
          /\ started' = [started EXCEPT ![p] = TRUE]
          /\ stuck' = stuck \ {index[p]}
          /\ UNCHANGED world
       \/ /\ Unregisters(p)
          /\ temps' \in {temps, temps \ {<<index[p], p>>}}
          /\ UNCHANGED <<catalog, started, stuck>>
    /\ UNCHANGED <<index, leaving, sta, faults>>

\* wifi_ap_stop, and destroy while a hotspot is started: the own table first.
ApStop(p) ==
    /\ Calls(p)
    /\ Unregisters(p)
    /\ life' = [life EXCEPT ![p] = "remove"]
    /\ \/ UNCHANGED leaving
       \/ started[p] /\ leaving' = [leaving EXCEPT ![p] = TRUE]
    /\ UNCHANGED <<index, started, sta, faults, catalog, temps, stuck>>

\* Whatever record the index has is removed, with the process's own temporary
\* files.  The result of remove is not looked at: a reader may hold the file.
Remove(p) ==
    /\ life[p] = "remove"
    /\ LET i == index[p] IN
       \/ catalog' = [catalog EXCEPT ![i] = None] /\ stuck' = stuck \ {i}
       \/ Published(i) /\ stuck' = stuck \cup {i} /\ UNCHANGED catalog
    /\ temps' = temps \ {<<index[p], p>>}
    /\ started' = [started EXCEPT ![p] = FALSE]
    /\ IF leaving[p] THEN Ends(p)
       ELSE life' = [life EXCEPT ![p] = "alive"] /\ UNCHANGED <<index, sta, faults>>
    /\ leaving' = [leaving EXCEPT ![p] = FALSE]
    /\ UNCHANGED world

\* destroy without a hotspot
Destroy(p) ==
    /\ Calls(p) /\ ~started[p] /\ Ends(p)
    /\ Unregisters(p)
    /\ UNCHANGED <<leaving, started, catalog, temps, stuck>>

Crash(p) ==
    /\ Alive(p) /\ Ends(p)
    /\ started' = [started EXCEPT ![p] = FALSE]
    /\ Unregisters(p)
    /\ leaving' = [leaving EXCEPT ![p] = FALSE]
    /\ UNCHANGED <<catalog, temps, stuck>>

\* SIM_AP_CATALOG_TTL_MS pass.
Ages(i) ==
    /\ Published(i) /\ ~catalog[i].old
    /\ catalog' = [catalog EXCEPT ![i].old = TRUE]
    /\ UNCHANGED <<apVars, sta, faults, temps, stuck>>

-----------------------------------------------------------------------------
(* The link and the faults *)

\* bound: the link of the others is at rest
OthersRest(p) == \A q \in Procs \ {p} : sta[q] = None /\ faults[q] = {}

Connect(p, s, right) ==
    /\ Calls(p) /\ OthersRest(p)
    /\ sta' = [sta EXCEPT ![p] =
         IF (p = Pc /\ PcJoins(s, right)) \/ (p # Pc /\ DeviceJoins(p, s, right))
         THEN s ELSE None]
    /\ UNCHANGED <<apVars, faults, catalog, temps, stuck>>

Disconnect(p) ==
    /\ Calls(p) /\ sta' = [sta EXCEPT ![p] = None]
    /\ UNCHANGED <<apVars, faults, catalog, temps, stuck>>

\* wifi_disconnect / wifi_ok, wifi_auth_fail / wifi_auth_ok, mcast_block /
\* mcast_unblock, rssi_set
DeviceFaults == {"down", "auth", "deaf", "weak"}
PcFaults == {"down", "auth", "deaf", "weak"}

Inject(p, k) ==
    /\ Calls(p) /\ OthersRest(p) /\ k \in (IF p = Pc THEN PcFaults ELSE DeviceFaults)
    /\ \/ /\ k \notin faults[p]
          /\ Cardinality(faults[p]) < MaxFaults
          /\ faults' = [faults EXCEPT ![p] = @ \cup {k}]
       \/ faults' = [faults EXCEPT ![p] = @ \ {k}]
    /\ UNCHANGED <<apVars, sta, catalog, temps, stuck>>

\* wifi_ssid_mismatch needs a connection.
InjectMismatch(p) ==
    /\ Calls(p) /\ sta[p] # None /\ sta' = [sta EXCEPT ![p] = Elsewhere]
    /\ UNCHANGED <<apVars, faults, catalog, temps, stuck>>

\* sock_send_fail sets both counters anew.
InjectSendFail(p) ==
    /\ Calls(p) /\ OthersRest(p) /\ faults[p] \subseteq {"skip", "fail"}
    /\ faults' \in {[faults EXCEPT ![p] = {"fail"} \cup x] : x \in {{}, {"skip"}}}
    /\ UNCHANGED <<apVars, sta, catalog, temps, stuck>>

\* A send is let through and counted, or fails and is counted.
Send(p) ==
    /\ Calls(p) /\ faults[p] \cap {"skip", "fail"} # {}
    /\ faults' = [faults EXCEPT ![p] = @ \ (IF "skip" \in @ THEN {"skip"} ELSE {"fail"})]
    /\ UNCHANGED <<apVars, sta, catalog, temps, stuck>>

DeviceNext ==
    \E p \in Devices :
        \/ Create(p) \/ ApStart(p) \/ Publish(p) \/ ApStop(p) \/ Remove(p)
        \/ Destroy(p) \/ Crash(p)

LinkNext ==
    \E p \in Procs :
        \/ \E s \in (IF p = Pc THEN Ssids ELSE {Target}), right \in BOOLEAN :
             Connect(p, s, right)
        \/ Disconnect(p) \/ InjectMismatch(p) \/ InjectSendFail(p) \/ Send(p)
        \/ \E k \in Kinds : Inject(p, k)

Next == DeviceNext \/ LinkNext \/ \E i \in Indices : Ages(i)

Spec == Init /\ [][Next]_vars

-----------------------------------------------------------------------------
(* Properties *)

\* The directory tells the truth (sim_backend.c:188-232 and 467-487): a hotspot
\* the host is shown is started, in a process that lives, unless its record
\* could not be removed or is on its way out; a hotspot that was started stays
\* in the directory until its process stops it or dies, whatever other
\* processes start, stop or leave behind, and every process sees it.
CatalogIsTrue ==
    /\ \A i \in (PcScan \cap Indices) \ stuck :
         LET p == catalog[i].owner IN started[p] /\ index[p] = i
    /\ \A p \in Devices : started[p] =>
         /\ index[p] \in PcScan /\ catalog[index[p]].owner = p
         /\ \A q \in Devices : Alive(q) => index[p] \in DeviceScan(q)
=============================================================================
