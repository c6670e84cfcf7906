----------------------------- MODULE MCDeviceIO -----------------------------
(***************************************************************************)
(* Hotspot, DeviceStore and FrameStream for TLC: what a device does to the *)
(* machine, its file and its connections.  They share no state; a          *)
(* behaviour explores one of them.  Two device processes share a machine   *)
(* with two address plans; the log has two lines, some of them long.       *)
(***************************************************************************)
EXTENDS Hotspot, DeviceStore, FrameStream

CONSTANTS p1, p2, home, lab
MCInstances == {p1, p2}
MCSymmetry == Permutations(MCInstances)
MCCandidates == <<home, lab>>
MCLong == {2, 3}

VARIABLE part

MCInit ==
    /\ part \in {"hotspot", "store", "frames"}
    /\ HotspotInit /\ Init /\ FrameInit
    /\ part # "store" => kind = "linux"
MCNext ==
    \/ part = "hotspot" /\ HotspotNext /\ UNCHANGED <<part, vars, frameVars>>
    \/ part = "store" /\ Next /\ UNCHANGED <<part, hotspotVars, frameVars>>
    \/ part = "frames" /\ FrameNext /\ UNCHANGED <<part, hotspotVars, vars>>
MCSpec == MCInit /\ [][MCNext]_<<part, hotspotVars, vars, frameVars>>
=============================================================================
