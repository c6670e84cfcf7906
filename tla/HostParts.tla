------------------------------ MODULE HostParts ------------------------------
(***************************************************************************)
(* The making and unmaking of a device host (device_host.c): create makes  *)
(* its parts in one order and, when one cannot be made, undoes what there  *)
(* is in another; destroy has a third.  The log sink is global: any line   *)
(* that is logged meanwhile goes through it to the host's locks and ring.  *)
(***************************************************************************)
EXTENDS Naturals, Sequences, FiniteSets

VARIABLES
    doing,  \* none, create, undo, made, destroy
    todo,   \* the parts still to come, or still to go
    made,   \* the parts there are
    sink,   \* g_sink_host is the host
    talks,  \* auto_provision has a connection
    leaked  \* a connection nobody can close any more

partVars == <<doing, todo, made, sink, talks, leaked>>

Locks == {"state_mutex", "snapshot_mutex", "cmds", "logs"}
Optional == {"events", "scenario"}

\* The order of device_host_create; the four parts of Locks are made together.
Making == <<"host", "events", "locks", "sink", "backend", "net", "app", "scenario">>

\* Mutant: the sink is taken back last.
Undoing_SinkLast ==
    <<"app", "net", "backend", "events", "scenario", "cmds", "logs", "state_mutex",
      "snapshot_mutex", "host", "sink">>
\* The label fail of device_host_create.
Undoing ==
    <<"sink", "app", "net", "backend", "events", "scenario", "cmds", "logs", "state_mutex",
      "snapshot_mutex", "host">>
Destroying ==
    <<"sink", "app", "net", "backend", "scenario", "events", "cmds", "logs", "state_mutex",
      "snapshot_mutex", "host">>

PartsInit ==
    /\ doing = "none" /\ todo = <<>> /\ made = {} /\ sink = FALSE
    /\ talks = FALSE /\ leaked = FALSE

CreateBegins ==
    /\ doing = "none" /\ doing' = "create" /\ todo' = Making
    /\ UNCHANGED <<made, sink, talks, leaked>>

\* What a step makes; events and scenario only when the options name a file.
Makes(p) ==
    CASE p = "locks" -> {made \cup Locks}
      [] p = "sink" -> {made}
      [] p \in Optional -> {made, made \cup {p}}
      [] OTHER -> {made \cup {p}}

CreateStep ==
    /\ doing = "create" /\ todo # <<>>
    /\ made' \in Makes(Head(todo))
    /\ sink' = (sink \/ Head(todo) = "sink")
    /\ todo' = Tail(todo)
    /\ UNCHANGED <<doing, talks, leaked>>

\* Any step but the registration of the sink fails; of the queues and locks, any
\* of which may be missing, the others stay until they are undone.  Without the
\* host itself there is nothing to undo.
CreateFails ==
    /\ doing = "create" /\ todo # <<>> /\ Head(todo) # "sink"
    /\ IF Head(todo) = "locks"
       THEN \E some \in SUBSET Locks : some # Locks /\ made' = made \cup some
       ELSE UNCHANGED made
    /\ IF Head(todo) = "host" THEN doing' = "none" /\ todo' = <<>>
       ELSE doing' = "undo" /\ todo' = Undoing
    /\ UNCHANGED <<sink, talks, leaked>>

CreateReturns ==
    /\ doing = "create" /\ todo = <<>> /\ doing' = "made"
    /\ UNCHANGED <<todo, made, sink, talks, leaked>>

\* While the device thread runs, the scenario connects and disconnects.
ScenarioTalks ==
    /\ doing = "made" /\ "scenario" \in made /\ talks' = ~talks
    /\ UNCHANGED <<doing, todo, made, sink, leaked>>

\* The thread is joined.
DestroyBegins ==
    /\ doing = "made" /\ doing' = "destroy" /\ todo' = Destroying
    /\ UNCHANGED <<made, sink, talks, leaked>>

\* A part that is there goes.  scenario_engine_destroy closes its connection
\* through the network context, and does nothing when that is gone.
Releases ==
    /\ doing \in {"undo", "destroy"} /\ todo # <<>>
    /\ LET p == Head(todo) IN
       /\ made' = made \ {p}
       /\ sink' = (sink /\ p # "sink")
       /\ leaked' = (leaked \/ (p = "scenario" /\ talks /\ "net" \notin made))
       /\ talks' = (talks /\ p # "scenario")
    /\ todo' = Tail(todo) /\ UNCHANGED doing

EndsWithout ==
    /\ doing \in {"undo", "destroy"} /\ todo = <<>> /\ doing' = "none"
    /\ UNCHANGED <<todo, made, sink, talks, leaked>>

PartsNext ==
    \/ CreateBegins \/ CreateStep \/ CreateFails \/ CreateReturns \/ ScenarioTalks
    \/ DestroyBegins \/ Releases \/ EndsWithout

PartsSpec == PartsInit /\ [][PartsNext]_partVars

-----------------------------------------------------------------------------
(* Properties *)

\* Wherever creation fails and however far destruction has come
\* (device_host.c:452-483, 590-641): a line that is logged finds the locks and
\* the ring it goes to, no part outlives what it calls (the core its network
\* context, the context its back end), and without a host there is nothing
\* left of one.
PartsAreSound ==
    /\ sink => {"host", "state_mutex", "logs"} \subseteq made
    /\ "app" \in made => "net" \in made
    /\ "net" \in made => "backend" \in made
    /\ made # {} => "host" \in made
    /\ doing = "none" => made = {} /\ ~sink
=============================================================================
