----------------------------- MODULE MCBackends -----------------------------
(***************************************************************************)
(* Sim, Sockets and Scenario for TLC.  The simulated radio, the sockets    *)
(* and the scenario engine, which only runs on the simulation, share no    *)
(* state; a behaviour explores one of them.                                *)
(***************************************************************************)
EXTENDS Sim, Sockets, Scenario, TLC

VARIABLE part

\* The first action of a scenario is auto_provision, the second any other.
MCScnInit ==
    /\ ScnInit
    /\ kind[1] = (IF part = "scenario" THEN "auto_provision" ELSE "pc")
    /\ IF part = "scenario" THEN kind[2] # "auto_provision"
       ELSE kind[2] = "pc" /\ gate = [a \in ActionIds |-> NoGate]

MCInit ==
    /\ part \in {"radio", "sockets", "scenario"} /\ Init /\ SockInit /\ MCScnInit
    /\ part # "sockets" => backend = "sim"
MCNext ==
    \/ part = "radio" /\ Next /\ UNCHANGED <<part, sockVars, scnVars>>
    \/ part = "sockets" /\ SockNext /\ UNCHANGED <<part, vars, scnVars>>
    \/ part = "scenario" /\ ScnNext /\ UNCHANGED <<part, vars, sockVars>>
MCSpec == MCInit /\ [][MCNext]_<<part, vars, sockVars, scnVars>>

\* Processes are alike.
Symmetry == Permutations(Devices)
=============================================================================
