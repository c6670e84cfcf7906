---------------------------- MODULE MCDeviceHost ----------------------------
(***************************************************************************)
(* DeviceHost for TLC: the process starts 3 units after boot, a limited    *)
(* run lasts 2 units and the clock stops at 6, so a run can be started     *)
(* before, at and after the moment the limit would have been reached since *)
(* boot, and the limit can be reached or not.  A behaviour explores either *)
(* the life of a host or the making and unmaking of its parts.             *)
(***************************************************************************)
EXTENDS DeviceHost, HostParts

VARIABLE part

MCVars == <<part, vars, partVars>>
MCInit == part \in {"life", "parts"} /\ Init /\ PartsInit
MCNext ==
    \/ part = "life" /\ Next /\ UNCHANGED <<part, partVars>>
    \/ part = "parts" /\ PartsNext /\ UNCHANGED <<part, vars>>
InLife(A) == part = "life" /\ A /\ UNCHANGED <<part, partVars>>
MCFairSpec ==
    /\ MCInit /\ [][MCNext]_MCVars
    /\ WF_MCVars(InLife(Runner)) /\ WF_MCVars(InLife(MainBusy))
=============================================================================
