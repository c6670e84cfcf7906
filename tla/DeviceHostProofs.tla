-------------------------- MODULE DeviceHostProofs --------------------------
(***************************************************************************)
(* Theorems about DeviceHost, for every duration limit and clock bound,    *)
(* and about HostParts.                                                    *)
(***************************************************************************)
EXTENDS DeviceHost, HostParts, TLAPS

(***************************************************************************)
(* The inductive invariant.  DestroyIsQuiet alone is not inductive: destroy*)
(* looks only at hostState, so one must know that CREATED, read by an idle *)
(* facade thread, means there is no thread yet, and that STOPPED means it  *)
(* has left the host; join hands the same knowledge on.                    *)
(***************************************************************************)
CreatedMeansNoThread ==
    hostState = "CREATED" /\ mpc \notin {"start_mono", "start_running"}
        => rpc = "none"

JoinedMeansGone == joined => RunnerGone

\* While start is still under way no join of this run has returned.
Starting == mpc \in {"start_mono", "start_running", "start_snap_read",
                    "start_snap_write"}
StartingNotJoined == Starting => ~joined

HostInv ==
    /\ TypeOK
    /\ StoppedMeansGone
    /\ CreatedMeansNoThread
    /\ JoinedMeansGone
    /\ StartingNotJoined
    /\ DestroyIsQuiet

\* A new host.
LEMMA HostInit == Init => HostInv
<1> SUFFICES ASSUME Init PROVE HostInv
  OBVIOUS
<1>1. TypeOK
  BY TimeAssumption DEF Init, TypeOK, HostStates, MainSteps, RunnerSteps
<1>2. StoppedMeansGone /\ CreatedMeansNoThread /\ JoinedMeansGone /\ DestroyIsQuiet
  BY DEF Init, StoppedMeansGone, CreatedMeansNoThread, JoinedMeansGone, DestroyIsQuiet
<1>3. StartingNotJoined
  BY DEF Init, StartingNotJoined
<1> QED
  BY <1>1, <1>2, <1>3 DEF HostInv

\* The facade thread's steps keep the invariant.
LEMMA MainKeepsInv == HostInv /\ Main => HostInv'
<1> SUFFICES ASSUME HostInv, Main PROVE HostInv'
  OBVIOUS
<1> USE DEF HostInv, TypeOK, StoppedMeansGone, CreatedMeansNoThread, JoinedMeansGone,
        StartingNotJoined, Starting, DestroyIsQuiet, RunnerGone, HostStates, MainSteps,
        RunnerSteps
<1>1. CASE StartThread
  BY <1>1, ZenonT(30) DEF StartThread, MainAt
<1>2. CASE StartMono
  BY <1>2 DEF StartMono, MainAt, RunnerUnchanged
<1>3. CASE StartRunning
  BY <1>3 DEF StartRunning, MainAt, RunnerUnchanged
<1>4. CASE StartSnapRead
  BY <1>4 DEF StartSnapRead, MainAt, RunnerUnchanged
<1>5. CASE StartSnapWrite
  BY <1>5 DEF StartSnapWrite, MainAt, RunnerUnchanged
<1>6. CASE StopRead
  BY <1>6 DEF StopRead, RunnerUnchanged
<1>7. CASE StopFlag
  BY <1>7 DEF StopFlag, MainAt, RunnerUnchanged
<1>8. CASE StopWrite
  BY <1>8 DEF StopWrite, MainAt, RunnerUnchanged
<1>9. CASE JoinRead
  <2>1. CASE hostState \in {"CREATED", "STOPPED"}
    BY <1>9, <2>1 DEF JoinRead, RunnerUnchanged
  <2>2. CASE hostState \notin {"CREATED", "STOPPED"}
    BY <1>9, <2>2 DEF JoinRead, RunnerUnchanged
  <2> QED
    BY <2>1, <2>2
<1>10. CASE JoinReturns
  BY <1>10 DEF JoinReturns, RunnerUnchanged
<1>11. CASE JoinTimeout
  BY <1>11 DEF JoinTimeout, MainAt, RunnerUnchanged
<1>12. CASE Destroy
  BY <1>12 DEF Destroy, MainAt, RunnerUnchanged
<1> QED
  BY <1>1, <1>2, <1>3, <1>4, <1>5, <1>6, <1>7, <1>8, <1>9, <1>10, <1>11, <1>12
     DEF Main, Start, RequestStop, Join

\* The device thread's steps keep the invariant.
LEMMA RunnerKeepsInv == HostInv /\ Runner => HostInv'
<1> SUFFICES ASSUME HostInv, Runner PROVE HostInv'
  OBVIOUS
<1> USE DEF HostInv, TypeOK, StoppedMeansGone, CreatedMeansNoThread, JoinedMeansGone,
        StartingNotJoined, Starting, DestroyIsQuiet, RunnerGone, HostStates, MainSteps,
        RunnerSteps
<1>1. CASE RunnerCheckStop
  BY <1>1 DEF RunnerCheckStop, MainUnchanged
<1>2. CASE RunnerDuration
  BY <1>2 DEF RunnerDuration, DurationReached, MainUnchanged
<1>3. CASE ScenarioIdle
  BY <1>3 DEF ScenarioIdle, RunnerAt, MainUnchanged
<1>4. CASE ScenarioStopRead
  BY <1>4 DEF ScenarioStopRead, MainUnchanged
<1>5. CASE ScenarioStopFlag
  BY <1>5 DEF ScenarioStopFlag, RunnerAt, MainUnchanged
<1>6. CASE ScenarioStopWrite
  BY <1>6 DEF ScenarioStopWrite, RunnerAt, MainUnchanged
<1>7. CASE RunnerStep
  BY <1>7 DEF RunnerStep, RunnerAt, MainUnchanged
<1>8. CASE RunnerRefreshRead
  BY <1>8 DEF RunnerRefreshRead, RunnerAt, MainUnchanged
<1>9. CASE RunnerRefreshWrite
  BY <1>9 DEF RunnerRefreshWrite, RunnerAt, MainUnchanged
<1>10. CASE RunnerStopped
  BY <1>10 DEF RunnerStopped, RunnerAt, MainUnchanged
<1>11. CASE ThreadDone
  BY <1>11 DEF ThreadDone, RunnerAt, MainUnchanged
<1> QED
  BY <1>1, <1>2, <1>3, <1>4, <1>5, <1>6, <1>7, <1>8, <1>9, <1>10, <1>11
     DEF Runner, Scenario, Refresh

\* Every step of the window and of the runner.
LEMMA HostStep == HostInv /\ [Next]_vars => HostInv'
<1> SUFFICES ASSUME HostInv, [Next]_vars PROVE HostInv'
  OBVIOUS
<1>1. CASE Main
  BY <1>1, MainKeepsInv
<1>2. CASE Runner
  BY <1>2, RunnerKeepsInv
<1>3. CASE Tick
  BY <1>3, TimeAssumption
     DEF Tick, HostInv, TypeOK, StoppedMeansGone, CreatedMeansNoThread,
         JoinedMeansGone, StartingNotJoined, Starting, DestroyIsQuiet, RunnerGone
<1>4. CASE UNCHANGED vars
  BY <1>4 DEF vars, HostInv, TypeOK, StoppedMeansGone, CreatedMeansNoThread,
         JoinedMeansGone, StartingNotJoined, Starting, DestroyIsQuiet, RunnerGone
<1> QED
  BY <1>1, <1>2, <1>3, <1>4 DEF Next

\* The invariant holds in every reachable state of the host.
THEOREM HostInvariant == Spec => []HostInv
BY HostInit, HostStep, PTL DEF Spec

\* Type correctness of the lifecycle model.
THEOREM HostTypeOK == Spec => []TypeOK
<1>1. HostInv => TypeOK
  BY DEF HostInv
<1> QED
  BY <1>1, HostInvariant, PTL

\* A freed host is never touched by the device thread: destroy is safe in
\* every interleaving in which it does not answer BUSY.
THEOREM HostDestroyIsQuiet == Spec => []DestroyIsQuiet
<1>1. HostInv => DestroyIsQuiet
  BY DEF HostInv
<1> QED
  BY <1>1, HostInvariant, PTL

\* STOPPED is only ever shown once the device thread has left the host.
THEOREM HostStoppedMeansGone == Spec => []StoppedMeansGone
<1>1. HostInv => StoppedMeansGone
  BY DEF HostInv
<1> QED
  BY <1>1, HostInvariant, PTL

\* After a successful join the snapshot is frozen until the next start.
THEOREM HostNoWriteAfterJoin == Spec => NoWriteAfterJoin
<1>1. HostInv /\ HostInv' /\ [Next]_vars => [joined /\ joined' => snap' = snap]_vars
  <2> SUFFICES ASSUME HostInv, HostInv', [Next]_vars, joined, joined'
               PROVE  snap' = snap
    BY DEF vars
  <2>1. rpc # "refresh_write"
    BY DEF HostInv, JoinedMeansGone, RunnerGone
  <2>2. CASE UNCHANGED vars
    BY <2>2 DEF vars
  <2>3. CASE Tick
    BY <2>3 DEF Tick
  <2>4. CASE Runner
    BY <2>1, <2>4 DEF Runner, Scenario, Refresh, RunnerAt, RunnerCheckStop, RunnerDuration,
       ScenarioIdle, ScenarioStopRead, ScenarioStopFlag, ScenarioStopWrite, RunnerStep,
       RunnerRefreshRead, RunnerRefreshWrite, RunnerStopped, ThreadDone
  <2>5. CASE Main
    <3>1. mpc # "start_snap_write"
      BY DEF HostInv, StartingNotJoined, Starting
    <3> QED
      BY <2>5, <3>1 DEF Main, Start, RequestStop, Join, MainAt, StartThread, StartMono,
         StartRunning, StartSnapRead, StartSnapWrite, StopRead, StopFlag, StopWrite,
         JoinRead, JoinReturns, JoinTimeout, Destroy
  <2> QED
    BY <2>2, <2>3, <2>4, <2>5 DEF Next
<1> QED
  BY <1>1, HostInvariant, PTL DEF Spec, NoWriteAfterJoin

-----------------------------------------------------------------------------
(***************************************************************************)
(* The making and unmaking of the host.  Whatever comes in todo: creation  *)
(* makes nothing before what it needs, rollback and destruction release    *)
(* nothing before what needs it, and what there is, is still to be         *)
(* released.                                                               *)
(***************************************************************************)
Parts == {"host", "events", "backend", "net", "app", "scenario"} \cup Locks
Steps == Parts \cup {"locks", "sink"}

\* The second is used by the first.
Needs ==
    {<<"app", "net">>, <<"net", "backend">>, <<"sink", "locks">>,
     <<"sink", "state_mutex">>, <<"sink", "logs">>}
    \cup ((Steps \ {"host"}) \X {"host"})

In(p, s) == \E i \in 1..Len(s) : s[i] = p
MakesInOrder(s) ==
    /\ \A i, j \in 1..Len(s) : i < j => <<s[i], s[j]>> \notin Needs
    /\ \A j \in 2..Len(s) : s[j] # "host"
ReleasesInOrder(s) == \A i, j \in 1..Len(s) : i < j => <<s[j], s[i]>> \notin Needs

CreateInv ==
    doing = "create" =>
        /\ MakesInOrder(todo)
        /\ \A p \in {"host", "backend", "net"} : p \in made \/ In(p, todo)
        /\ Locks \subseteq made \/ In("locks", todo)
        /\ In("host", todo) => made = {} /\ ~sink
ReleaseInv ==
    doing \in {"undo", "destroy"} =>
        /\ ReleasesInOrder(todo)
        /\ \A p \in made : In(p, todo)
        /\ sink => In("sink", todo)
PartsType ==
    /\ doing \in {"none", "create", "undo", "made", "destroy"}
    /\ todo \in Seq(Steps) /\ made \subseteq Parts /\ sink \in BOOLEAN
PartsInv == PartsType /\ CreateInv /\ ReleaseInv /\ PartsAreSound

\* What is left of a list of steps after its head.
LEMMA TailFacts ==
    ASSUME NEW s \in Seq(Steps), s # <<>>
    PROVE  /\ Head(s) \in Steps /\ In(Head(s), s)
           /\ Tail(s) \in Seq(Steps)
           /\ \A p : In(p, Tail(s)) => In(p, s)
           /\ \A p : In(p, s) => p = Head(s) \/ In(p, Tail(s))
           /\ MakesInOrder(s) =>
                /\ MakesInOrder(Tail(s))
                /\ ~In("host", Tail(s))
                /\ \A p : In(p, Tail(s)) => <<Head(s), p>> \notin Needs
           /\ ReleasesInOrder(s) =>
                /\ ReleasesInOrder(Tail(s))
                /\ \A p : In(p, Tail(s)) => <<p, Head(s)>> \notin Needs
<1>1. /\ Len(s) \in Nat /\ Len(s) > 0
      /\ Tail(s) \in Seq(Steps) /\ Len(Tail(s)) = Len(s) - 1
      /\ Head(s) = s[1] /\ Head(s) \in Steps
      /\ \A i \in 1..Len(s) - 1 : Tail(s)[i] = s[i + 1]
  OBVIOUS
<1>2. ASSUME NEW p, In(p, Tail(s))
      PROVE  \E j \in 2..Len(s) : s[j] = p
  <2>1. PICK i \in 1..Len(s) - 1 : Tail(s)[i] = p
    BY <1>1, <1>2 DEF In
  <2>2. i + 1 \in 2..Len(s) /\ s[i + 1] = p
    BY <1>1, <2>1
  <2> QED BY <2>2
<1>3. ASSUME NEW p, In(p, s), p # Head(s)
      PROVE  In(p, Tail(s))
  <2>1. PICK i \in 1..Len(s) : s[i] = p
    BY <1>3 DEF In
  <2>2. i - 1 \in 1..Len(Tail(s)) /\ (i - 1) + 1 = i
    BY <1>1, <1>3, <2>1
  <2>3. Tail(s)[i - 1] = p
    BY <1>1, <2>1, <2>2
  <2> QED BY <2>2, <2>3 DEF In
<1>4. In(Head(s), s)
  BY <1>1 DEF In
<1>5. \A p : In(p, Tail(s)) => In(p, s)
  <2>1. \A j \in 2..Len(s) : j \in 1..Len(s)
    BY <1>1
  <2> QED BY <1>2, <2>1 DEF In
<1>6. ASSUME MakesInOrder(s)
      PROVE  /\ MakesInOrder(Tail(s)) /\ ~In("host", Tail(s))
             /\ \A p : In(p, Tail(s)) => <<Head(s), p>> \notin Needs
  <2>1. ASSUME NEW i \in 1..Len(Tail(s)), NEW j \in 1..Len(Tail(s)), i < j
        PROVE  <<Tail(s)[i], Tail(s)[j]>> \notin Needs
    <3>1. /\ i + 1 \in 1..Len(s) /\ j + 1 \in 1..Len(s) /\ i + 1 < j + 1
          /\ Tail(s)[i] = s[i + 1] /\ Tail(s)[j] = s[j + 1]
      BY <1>1, <2>1
    <3> QED BY <1>6, <3>1 DEF MakesInOrder
  <2>2. ASSUME NEW j \in 2..Len(Tail(s))
        PROVE  Tail(s)[j] # "host"
    <3>1. j + 1 \in 2..Len(s) /\ Tail(s)[j] = s[j + 1]
      BY <1>1
    <3> QED BY <1>6, <3>1 DEF MakesInOrder
  <2>3. ASSUME NEW p, In(p, Tail(s))
        PROVE  p # "host" /\ <<Head(s), p>> \notin Needs
    <3>1. PICK j \in 2..Len(s) : s[j] = p
      BY <1>2, <2>3
    <3>2. 1 \in 1..Len(s) /\ j \in 1..Len(s) /\ 1 < j
      BY <1>1
    <3> QED BY <1>1, <1>6, <3>1, <3>2 DEF MakesInOrder
  <2> QED BY <2>1, <2>2, <2>3 DEF MakesInOrder
<1>7. ASSUME ReleasesInOrder(s)
      PROVE  /\ ReleasesInOrder(Tail(s))
             /\ \A p : In(p, Tail(s)) => <<p, Head(s)>> \notin Needs
  <2>1. ASSUME NEW i \in 1..Len(Tail(s)), NEW j \in 1..Len(Tail(s)), i < j
        PROVE  <<Tail(s)[j], Tail(s)[i]>> \notin Needs
    <3>1. /\ i + 1 \in 1..Len(s) /\ j + 1 \in 1..Len(s) /\ i + 1 < j + 1
          /\ Tail(s)[i] = s[i + 1] /\ Tail(s)[j] = s[j + 1]
      BY <1>1, <2>1
    <3> QED BY <1>7, <3>1 DEF ReleasesInOrder
  <2>2. ASSUME NEW p, In(p, Tail(s))
        PROVE  <<p, Head(s)>> \notin Needs
    <3>1. PICK j \in 2..Len(s) : s[j] = p
      BY <1>2, <2>2
    <3>2. 1 \in 1..Len(s) /\ j \in 1..Len(s) /\ 1 < j
      BY <1>1
    <3> QED BY <1>1, <1>7, <3>1, <3>2 DEF ReleasesInOrder
  <2> QED BY <2>1, <2>2 DEF ReleasesInOrder
<1> QED BY <1>1, <1>3, <1>4, <1>5, <1>6, <1>7

\* The three orders of the code.
LEMMA OrderOfMaking ==
    /\ Making \in Seq(Steps) /\ MakesInOrder(Making)
    /\ \A p \in {"host", "backend", "net", "locks"} : In(p, Making)
<1>1. Making \in Seq(Steps) /\ Len(Making) = 8
  BY DEF Making, Steps, Parts
<1>2. /\ Making[1] = "host" /\ Making[2] = "events" /\ Making[3] = "locks"
      /\ Making[4] = "sink" /\ Making[5] = "backend" /\ Making[6] = "net"
      /\ Making[7] = "app" /\ Making[8] = "scenario"
  BY DEF Making
<1>3. ASSUME NEW i \in 1..8, NEW j \in 1..8, i < j
      PROVE  <<Making[i], Making[j]>> \notin Needs /\ Making[j] # "host"
  BY <1>2, <1>3 DEF Needs
<1>4. \A p \in {"host", "backend", "net", "locks"} : In(p, Making)
  BY <1>1, <1>2 DEF In
<1> QED BY <1>1, <1>3, <1>4 DEF MakesInOrder

\* device_host_create undoes in the order it did.
LEMMA OrderOfUndoing ==
    /\ Undoing \in Seq(Steps) /\ ReleasesInOrder(Undoing)
    /\ \A p \in Parts \cup {"sink"} : In(p, Undoing)
<1>1. Undoing \in Seq(Steps) /\ Len(Undoing) = 11
  BY DEF Undoing, Steps, Parts, Locks
<1>2. /\ Undoing[1] = "sink" /\ Undoing[2] = "app" /\ Undoing[3] = "net"
      /\ Undoing[4] = "backend" /\ Undoing[5] = "events" /\ Undoing[6] = "scenario"
      /\ Undoing[7] = "cmds" /\ Undoing[8] = "logs" /\ Undoing[9] = "state_mutex"
      /\ Undoing[10] = "snapshot_mutex" /\ Undoing[11] = "host"
  BY DEF Undoing
<1>3. ASSUME NEW i \in 1..11, NEW j \in 1..11, i < j
      PROVE  <<Undoing[j], Undoing[i]>> \notin Needs
  BY <1>2, <1>3 DEF Needs
<1>4. \A p \in Parts \cup {"sink"} : In(p, Undoing)
  BY <1>1, <1>2 DEF In, Parts, Locks
<1> QED BY <1>1, <1>3, <1>4 DEF ReleasesInOrder

\* device_host_destroy.
LEMMA OrderOfDestroying ==
    /\ Destroying \in Seq(Steps) /\ ReleasesInOrder(Destroying)
    /\ \A p \in Parts \cup {"sink"} : In(p, Destroying)
<1>1. Destroying \in Seq(Steps) /\ Len(Destroying) = 11
  BY DEF Destroying, Steps, Parts, Locks
<1>2. /\ Destroying[1] = "sink" /\ Destroying[2] = "app" /\ Destroying[3] = "net"
      /\ Destroying[4] = "backend" /\ Destroying[5] = "scenario" /\ Destroying[6] = "events"
      /\ Destroying[7] = "cmds" /\ Destroying[8] = "logs" /\ Destroying[9] = "state_mutex"
      /\ Destroying[10] = "snapshot_mutex" /\ Destroying[11] = "host"
  BY DEF Destroying
<1>3. ASSUME NEW i \in 1..11, NEW j \in 1..11, i < j
      PROVE  <<Destroying[j], Destroying[i]>> \notin Needs
  BY <1>2, <1>3 DEF Needs
<1>4. \A p \in Parts \cup {"sink"} : In(p, Destroying)
  BY <1>1, <1>2 DEF In, Parts, Locks
<1> QED BY <1>1, <1>3, <1>4 DEF ReleasesInOrder

\* device_host_create acquires.
LEMMA CreateStepKeeps == PartsInv /\ CreateStep => PartsInv'
<1> SUFFICES ASSUME PartsInv, CreateStep PROVE PartsInv'
  OBVIOUS
<1> DEFINE p == Head(todo)
<1>1. /\ doing = "create" /\ doing' = "create" /\ todo \in Seq(Steps) /\ todo # <<>>
      /\ todo' = Tail(todo) /\ made' \in Makes(p) /\ sink' = (sink \/ p = "sink")
      /\ made \subseteq Parts /\ sink \in BOOLEAN /\ MakesInOrder(todo)
  BY DEF CreateStep, PartsInv, PartsType, CreateInv
<1>2. /\ p \in Steps /\ In(p, todo) /\ todo' \in Seq(Steps) /\ MakesInOrder(todo')
      /\ ~In("host", todo')
      /\ \A q : In(q, todo) => q = p \/ In(q, todo')
      /\ \A q : In(q, todo') => <<p, q>> \notin Needs
  BY <1>1, TailFacts
<1> HIDE DEF p
<1>3. /\ made \subseteq made' /\ made' \subseteq Parts
      /\ p \in {"host", "backend", "net", "app"} => p \in made'
      /\ p = "locks" => Locks \subseteq made'
      /\ \A q \in made' : q \in made \cup Locks \cup {p}
  BY <1>1, <1>2 DEF Makes, Optional, Parts, Steps
\* What this step needs is there.
<1>4. \A q \in {"host", "backend", "net"} : <<p, q>> \in Needs /\ p # q => q \in made
  BY <1>1, <1>2 DEF PartsInv, CreateInv
<1>5. p # "host" => "host" \in made
  BY <1>2, <1>4 DEF Needs
<1>6. p = "sink" => Locks \subseteq made
  <2>1. <<"sink", "locks">> \in Needs
    BY DEF Needs
  <2> QED BY <1>1, <1>2, <2>1 DEF PartsInv, CreateInv
<1>7. PartsType'
  BY <1>1, <1>2, <1>3 DEF PartsType
<1>8. CreateInv'
  <2>1. \A q \in {"host", "backend", "net"} : q \in made' \/ In(q, todo')
    BY <1>1, <1>2, <1>3 DEF PartsInv, CreateInv
  <2>2. Locks \subseteq made' \/ In("locks", todo')
    BY <1>1, <1>2, <1>3 DEF PartsInv, CreateInv
  <2> QED BY <1>2, <2>1, <2>2 DEF CreateInv
<1>9. PartsAreSound'
  <2>1. "host" \in made'
    BY <1>3, <1>5
  <2>2. sink' => {"host", "state_mutex", "logs"} \subseteq made'
    BY <1>1, <1>3, <1>6, <2>1 DEF PartsInv, PartsAreSound, Locks
  <2>3. "app" \in made' => "net" \in made'
    <3>1. p = "app" => <<p, "net">> \in Needs
      BY DEF Needs
    <3> QED BY <1>3, <1>4, <3>1 DEF PartsInv, PartsAreSound, Locks
  <2>4. "net" \in made' => "backend" \in made'
    <3>1. p = "net" => <<p, "backend">> \in Needs
      BY DEF Needs
    <3> QED BY <1>3, <1>4, <3>1 DEF PartsInv, PartsAreSound, Locks
  <2> QED BY <1>1, <2>1, <2>2, <2>3, <2>4 DEF PartsAreSound
<1>10. ReleaseInv'
  BY <1>1 DEF ReleaseInv
<1> QED BY <1>7, <1>8, <1>9, <1>10 DEF PartsInv

\* device_host_create fails.
LEMMA CreateFailsKeeps == PartsInv /\ CreateFails => PartsInv'
<1> SUFFICES ASSUME PartsInv, CreateFails PROVE PartsInv'
  OBVIOUS
<1>1. /\ doing = "create" /\ todo \in Seq(Steps) /\ todo # <<>>
      /\ made \subseteq Parts /\ sink \in BOOLEAN /\ MakesInOrder(todo)
      /\ sink' = sink
  BY DEF CreateFails, PartsInv, PartsType, CreateInv
<1>2. /\ In(Head(todo), todo)
      /\ \A q : In(q, todo) => q = Head(todo) \/ In(q, Tail(todo))
      /\ \A q : In(q, Tail(todo)) => <<Head(todo), q>> \notin Needs
      /\ Head(todo) \in Steps
  BY <1>1, TailFacts
<1>3. /\ made \subseteq made' /\ made' \subseteq made \cup Locks
      /\ Head(todo) = "host" => made' = made
  BY DEF CreateFails
<1>4. CASE Head(todo) = "host"
  <2>1. made' = {} /\ ~sink' /\ doing' = "none" /\ todo' = <<>>
    BY <1>1, <1>2, <1>3, <1>4 DEF PartsInv, CreateInv, CreateFails
  <2>2. <<>> \in Seq(Steps) /\ {} \subseteq Parts /\ sink' \in BOOLEAN
    BY <1>1
  <2>3. PartsType' /\ CreateInv' /\ ReleaseInv'
    BY <2>1, <2>2 DEF PartsType, CreateInv, ReleaseInv
  <2>4. PartsAreSound'
    BY <2>1 DEF PartsAreSound
  <2> QED BY <2>3, <2>4 DEF PartsInv
<1>5. CASE Head(todo) # "host"
  <2>1. doing' = "undo" /\ todo' = Undoing
    BY <1>5 DEF CreateFails
  <2>2. "host" \in made
    <3>1. <<Head(todo), "host">> \in Needs
      BY <1>2, <1>5 DEF Needs
    <3> QED BY <1>1, <1>2, <1>5, <3>1 DEF PartsInv, CreateInv
  <2>3. PartsType' /\ CreateInv' /\ ReleaseInv'
    BY <1>1, <1>3, <2>1, OrderOfUndoing DEF PartsType, CreateInv, ReleaseInv, Parts
  <2>4. PartsAreSound'
    <3>1. {"app", "net", "backend", "host"} \cap Locks = {}
      BY DEF Locks
    <3> QED BY <1>1, <1>3, <2>1, <2>2, <3>1 DEF PartsInv, PartsAreSound
  <2> QED BY <2>3, <2>4 DEF PartsInv
<1> QED BY <1>4, <1>5

\* device_host_destroy releases.
LEMMA ReleasesKeeps == PartsInv /\ Releases => PartsInv'
<1> SUFFICES ASSUME PartsInv, Releases PROVE PartsInv'
  OBVIOUS
<1> DEFINE p == Head(todo)
<1>1. /\ doing \in {"undo", "destroy"} /\ doing' = doing
      /\ todo \in Seq(Steps) /\ todo # <<>> /\ todo' = Tail(todo)
      /\ made \subseteq Parts /\ made' = made \ {p}
      /\ sink \in BOOLEAN /\ sink' = (sink /\ p # "sink")
      /\ ReleasesInOrder(todo)
  BY DEF Releases, PartsInv, PartsType, ReleaseInv
<1>2. /\ todo' \in Seq(Steps) /\ ReleasesInOrder(todo')
      /\ \A q : In(q, todo) => q = p \/ In(q, todo')
      /\ \A q : In(q, todo') => <<q, p>> \notin Needs
  BY <1>1, TailFacts
<1> HIDE DEF p
<1>3. /\ \A q \in made' : In(q, todo')
      /\ sink' => In("sink", todo')
  BY <1>1, <1>2 DEF PartsInv, ReleaseInv
\* Whoever is still there does not need what goes.
<1>4. /\ \A q \in made' : <<q, p>> \notin Needs
      /\ sink' => <<"sink", p>> \notin Needs
  BY <1>2, <1>3
<1>5. PartsType' /\ CreateInv' /\ ReleaseInv'
  BY <1>1, <1>2, <1>3 DEF PartsType, CreateInv, ReleaseInv
<1>6. PartsAreSound'
  <2>1. sink' => {"host", "state_mutex", "logs"} \subseteq made'
    <3>1. \A q \in {"host", "state_mutex", "logs"} : <<"sink", q>> \in Needs
      BY DEF Needs, Steps
    <3> QED BY <1>1, <1>4, <3>1 DEF PartsInv, PartsAreSound
  <2>2. "app" \in made' => "net" \in made'
    BY <1>1, <1>4 DEF PartsInv, PartsAreSound, Needs
  <2>3. "net" \in made' => "backend" \in made'
    BY <1>1, <1>4 DEF PartsInv, PartsAreSound, Needs
  <2>4. made' # {} => "host" \in made'
    <3>1. ASSUME NEW q \in made', p = "host" PROVE FALSE
      <4>1. q # "host" /\ q \in Steps
        BY <1>1, <3>1 DEF Steps
      <4>2. <<q, p>> \in Needs
        BY <3>1, <4>1 DEF Needs
      <4> QED BY <1>4, <4>2
    <3> QED BY <1>1, <3>1 DEF PartsInv, PartsAreSound
  <2> QED BY <1>1, <2>1, <2>2, <2>3, <2>4 DEF PartsAreSound
<1> QED BY <1>5, <1>6 DEF PartsInv

\* Wherever creation fails and however far destruction has come, what is still
\* there finds what it calls, and in the end nothing is left
\* (device_host.c:452-483, 590-641).
THEOREM HostPartsAreSound == PartsSpec => []PartsAreSound
<1>1. PartsInit => PartsInv
  <2>1. <<>> \in Seq(Steps) /\ {} \subseteq Parts
    OBVIOUS
  <2>2. PartsInit => PartsType /\ CreateInv /\ ReleaseInv
    BY <2>1 DEF PartsInit, PartsType, CreateInv, ReleaseInv
  <2>3. PartsInit => PartsAreSound
    BY DEF PartsInit, PartsAreSound
  <2> QED BY <2>2, <2>3 DEF PartsInv
<1>2. PartsInv /\ [PartsNext]_partVars => PartsInv'
  <2> SUFFICES ASSUME PartsInv, [PartsNext]_partVars PROVE PartsInv'
    OBVIOUS
  <2> USE DEF PartsInv
  <2>1. CASE CreateBegins
    <3>1. /\ doing' = "create" /\ todo' = Making /\ made' = {} /\ ~sink'
          /\ made' \subseteq Parts /\ sink' \in BOOLEAN
      BY <2>1 DEF CreateBegins, PartsAreSound, PartsType
    <3> QED BY <3>1, OrderOfMaking DEF PartsType, CreateInv, ReleaseInv, PartsAreSound
  <2>2. CASE CreateStep
    BY <2>2, CreateStepKeeps
  <2>3. CASE CreateFails
    BY <2>3, CreateFailsKeeps
  <2>4. CASE CreateReturns
    BY <2>4 DEF CreateReturns, PartsType, CreateInv, ReleaseInv, PartsAreSound
  <2>5. CASE ScenarioTalks
    BY <2>5 DEF ScenarioTalks, PartsType, CreateInv, ReleaseInv, PartsAreSound
  <2>6. CASE DestroyBegins
    BY <2>6, OrderOfDestroying DEF DestroyBegins, PartsType, CreateInv, ReleaseInv,
                                   PartsAreSound
  <2>7. CASE Releases
    BY <2>7, ReleasesKeeps
  <2>8. CASE EndsWithout
    <3>1. \A q : ~In(q, todo)
      BY <2>8 DEF EndsWithout, In
    <3>2. made = {} /\ ~sink
      BY <2>8, <3>1 DEF EndsWithout, ReleaseInv
    <3> QED BY <2>8, <3>2 DEF EndsWithout, PartsType, CreateInv, ReleaseInv, PartsAreSound
  <2>9. CASE UNCHANGED partVars
    BY <2>9 DEF partVars, PartsType, CreateInv, ReleaseInv, PartsAreSound
  <2> QED BY <2>1, <2>2, <2>3, <2>4, <2>5, <2>6, <2>7, <2>8, <2>9 DEF PartsNext
<1>3. PartsInv => PartsAreSound
  BY DEF PartsInv
<1> QED BY <1>1, <1>2, <1>3, PTL DEF PartsSpec
=============================================================================
