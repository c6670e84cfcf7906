------------------------------- MODULE Hotspot -------------------------------
(***************************************************************************)
(* The hotspot of the Linux backend (linux_hotspot.c): a start is a row of *)
(* external commands, each of which may fail; what was started is undone   *)
(* in reverse order, and what is not known to be one's own is left alone.  *)
(* Several device processes (device_linux_backend.c) share the machine:    *)
(* they come one after the other or at the same time, may be killed in the *)
(* middle of anything, and the daemons they start live on their own.       *)
(*                                                                         *)
(* One action is one external command or system call.  What exists on the  *)
(* machine is labelled with the number of the start that made it; the code *)
(* only knows its own flags, the variable own.                             *)
(***************************************************************************)
EXTENDS Naturals, Sequences, FiniteSets

CONSTANTS
    Instances,  \* device processes, each with one linux_hotspot_t
    Candidates, \* the address plans, the preferred one first
    NoPlan,     \* no address
    WithNat,    \* cfg.nat
    MaxStarts,  \* bound: starts that get as far as their first command
    MaxTrouble  \* bound: failures of the rollback and deaths of daemons

Subnets == {Candidates[k] : k \in DOMAIN Candidates}
Starts == 1..MaxStarts
Nobody == 0              \* the owner of what does not exist
Other == MaxStarts + 1   \* the owner of what some other program made
Daemons == {"hostapd", "dnsmasq"}
Resources == {"iface", "conf", "hostapd", "addr", "dnsmasq", "nat"}

ASSUME HotspotAssumption ==
    /\ MaxStarts \in Nat \ {0} /\ MaxTrouble \in Nat /\ WithNat \in BOOLEAN
    /\ Candidates \in Seq(Subnets) /\ NoPlan \notin Subnets

VARIABLES
    step,    \* the command an instance is about to run
    then,    \* what follows the rollback: ready, begin or gone
    own,     \* hotspot->runtime: the flags that are set
    active,  \* hotspot->active
    plan,    \* hotspot->plan
    cur,     \* the number of the instance's last start
    madeBy,  \* the instance of each start
    iface, addr, conf, \* the AP interface, its address, hostapd_modu.conf
    rule,    \* the owner of the NAT rule of each subnet
    daemon,  \* each start's hostapd and dnsmasq: off, born (it has no
             \* pidfile yet), up, or term (told to end)
    pidfile, \* the start whose daemon the file names
    mishaps  \* history: what went wrong that the code only logs, or cannot see

instVars == <<then, active, plan, cur, madeBy>>
files == <<conf, pidfile>>
world == <<iface, addr, conf, rule, daemon, pidfile>>
hotspotVars == <<step, own, instVars, world, mishaps>>

Phases == {"new", "ready", "begin", "iface", "conf", "hostapd",
           "hostapd_wait", "addr", "dnsmasq", "dnsmasq_wait", "nat", "rule",
           "undo", "gone", "crashed"}
Owners == 0..Other

HotspotTypeOK ==
    /\ step \in [Instances -> Phases]
    /\ then \in [Instances -> {"ready", "begin", "gone"}]
    /\ own \in [Instances -> SUBSET Resources]
    /\ active \in [Instances -> BOOLEAN]
    /\ plan \in [Instances -> Subnets \cup {NoPlan}]
    /\ cur \in [Instances -> 0..MaxStarts]
    /\ madeBy \in Seq(Instances) /\ Len(madeBy) <= MaxStarts
    /\ iface \in Owners /\ conf \in Owners
    /\ addr \in Subnets \cup {NoPlan}
    /\ rule \in [Subnets -> Owners]
    /\ daemon \in [Daemons -> [Starts -> {"off", "born", "up", "term"}]]
    /\ pidfile \in [Daemons -> 0..MaxStarts]
    /\ mishaps \subseteq {"undo", "late", "slow", "died"}
    /\ \A i \in Instances : own[i] \cap {"addr", "nat"} # {} => plan[i] # NoPlan

NothingThere ==
    /\ iface = Nobody /\ addr = NoPlan /\ conf = Nobody
    /\ rule = [s \in Subnets |-> Nobody]
    /\ daemon = [d \in Daemons |-> [n \in Starts |-> "off"]]
    /\ pidfile = [d \in Daemons |-> Nobody]

HotspotInit ==
    /\ step = [i \in Instances |-> "new"]
    /\ then = [i \in Instances |-> "ready"]
    /\ own = [i \in Instances |-> {}]
    /\ active = [i \in Instances |-> FALSE]
    /\ plan = [i \in Instances |-> NoPlan]
    /\ cur = [i \in Instances |-> 0] /\ madeBy = <<>>
    /\ NothingThere
    /\ mishaps = {}

\* flock: held from create to destroy, and lost with the process.
Alive(i) == step[i] \notin {"new", "gone", "crashed"}

At(i, from) == step[i] = from
Goto(i, to) == step' = [step EXCEPT ![i] = to]
Owns(i, r) == own' = [own EXCEPT ![i] = @ \cup {r}]
Running(d, n) == daemon[d][n] \in {"born", "up", "term"}

-----------------------------------------------------------------------------
(* The calls *)

\* device_linux_backend_create: the hotspot with its lock, then NVS and WiFi;
\* if one of these fails the hotspot is destroyed again.
Create(i) ==
    /\ At(i, "new")
    /\ \A j \in Instances : ~Alive(j)
    /\ Goto(i, "ready") \/ Goto(i, "gone")
    /\ UNCHANGED <<own, instVars, world, mishaps>>

\* A rollback, and what comes after it.
Rollback(i, next) ==
    /\ Goto(i, "undo")
    /\ then' = [then EXCEPT ![i] = next]
    /\ UNCHANGED <<own, active, plan, cur, madeBy, world, mishaps>>

Stop(i) == At(i, "ready") /\ Rollback(i, "ready")

DestroyHotspot(i) == At(i, "ready") /\ Rollback(i, "gone")

\* linux_hotspot_select_plan: the first candidate no route overlaps.
Selected(routes) ==
    LET free == {k \in DOMAIN Candidates : Candidates[k] \notin routes} IN
    IF free = {} THEN NoPlan
    ELSE Candidates[CHOOSE k \in free : \A j \in free : k <= j]

\* linux_hotspot_start with the checks passed: a hotspot that is active is
\* stopped first.
Restart(i) == At(i, "ready") /\ active[i] /\ Rollback(i, "begin")

\* Mutant: the configuration file is not looked for.
LeftOvers_NotConfig == iface # Nobody \/ \E d \in Daemons : pidfile[d] # Nobody

\* The interface or a file is there, and nobody knows whose it is.
LeftOvers ==
    iface # Nobody \/ conf # Nobody \/ \E d \in Daemons : pidfile[d] # Nobody

\* The plan is chosen anew from the routes there are, and the start goes ahead
\* or is refused.
Begin(i) ==
    /\ At(i, "begin") \/ (At(i, "ready") /\ ~active[i])
    /\ \E routes \in SUBSET Subnets :
        plan' = [plan EXCEPT ![i] = Selected(routes)]
    /\ IF plan'[i] = NoPlan \/ LeftOvers
       THEN Goto(i, "ready") /\ UNCHANGED <<cur, madeBy>>
       ELSE /\ Len(madeBy) < MaxStarts
            /\ madeBy' = Append(madeBy, i)
            /\ cur' = [cur EXCEPT ![i] = Len(madeBy')]
            /\ Goto(i, "iface")
    /\ UNCHANGED <<then, own, active, world, mishaps>>

\* The routes cannot be read: nothing has been done yet.
BeginFails(i) ==
    /\ At(i, "begin")
    /\ Goto(i, "ready")
    /\ UNCHANGED <<own, instVars, world, mishaps>>

-----------------------------------------------------------------------------
(* The commands of a start *)

\* pidfile_read and pid_is_expected: the file names a process that runs this
\* program.
DaemonReady(d) == pidfile[d] # Nobody /\ Running(d, pidfile[d])

\* A command fails or a wait for a daemon is over: everything is undone.  A
\* command that only looks (nmcli, iw ... info, the address read back,
\* ip_forward) fails with the one that follows it.
StepFails(i) ==
    /\ step[i] \in {"iface", "conf", "hostapd", "hostapd_wait", "addr",
                  "dnsmasq", "dnsmasq_wait", "nat", "rule"}
    /\ At(i, "hostapd_wait") => ~DaemonReady("hostapd")
    /\ Rollback(i, "ready")

\* iw dev ... interface add
AddInterface(i) ==
    /\ At(i, "iface") /\ iface = Nobody
    /\ iface' = cur[i]
    /\ Owns(i, "iface") /\ Goto(i, "conf")
    /\ UNCHANGED <<instVars, addr, files, rule, daemon, mishaps>>

\* A command that only looks.
Checked(i, from, to) ==
    /\ At(i, from) /\ Goto(i, to)
    /\ UNCHANGED <<own, instVars, world, mishaps>>

\* Mutant: the file is remembered when it is complete.
WriteConfig_LateFlag(i) ==
    /\ At(i, "conf")
    /\ conf' = cur[i]
    /\ \/ Goto(i, "hostapd") /\ Owns(i, "conf") /\ UNCHANGED then
       \/ Goto(i, "undo") /\ then' = [then EXCEPT ![i] = "ready"] /\ UNCHANGED own
    /\ UNCHANGED <<active, plan, cur, madeBy, iface, addr, pidfile, rule, daemon,
                   mishaps>>

\* write_hostapd_config: the file is there from the moment it is opened, and
\* writing may still fail.
WriteConfig(i) ==
    /\ At(i, "conf")
    /\ conf' = cur[i] /\ Owns(i, "conf")
    /\ \/ Goto(i, "hostapd") /\ UNCHANGED then
       \/ Goto(i, "undo") /\ then' = [then EXCEPT ![i] = "ready"]
    /\ UNCHANGED <<active, plan, cur, madeBy, iface, addr, pidfile, rule, daemon,
                   mishaps>>

\* hostapd -B, dnsmasq: the daemon runs when the command returns; its pidfile
\* may take longer.
RunDaemon(i, d, wait) ==
    /\ At(i, d)
    /\ daemon' = [daemon EXCEPT ![d][cur[i]] = "born"]
    /\ Owns(i, d) /\ Goto(i, wait)
    /\ UNCHANGED <<instVars, iface, addr, files, rule, mishaps>>

\* The wait for the pidfile; for dnsmasq also for its port.
WaitDaemon(i, d, wait, to) ==
    /\ DaemonReady(d)
    /\ Checked(i, wait, to)

\* ip addr add
AddAddress(i) ==
    /\ At(i, "addr")
    /\ addr' = plan[i]
    /\ Owns(i, "addr") /\ Goto(i, "dnsmasq")
    /\ UNCHANGED <<instVars, iface, files, rule, daemon, mishaps>>

Started(i) ==
    /\ active' = [active EXCEPT ![i] = TRUE]
    /\ Goto(i, "ready")
    /\ UNCHANGED <<then, plan, cur, madeBy, iface, addr, files, daemon,
                   mishaps>>

\* iptables -C: a rule that is there already is used and not owned.
FinishNat(i) ==
    /\ At(i, "nat")
    /\ IF WithNat /\ rule[plan[i]] = Nobody
       THEN Checked(i, "nat", "rule")
       ELSE Started(i) /\ UNCHANGED <<own, rule>>

\* iptables -A
AddRule(i) ==
    /\ At(i, "rule")
    /\ rule' = [rule EXCEPT ![plan[i]] = cur[i]]
    /\ Owns(i, "nat") /\ Started(i)

-----------------------------------------------------------------------------
(* The rollback *)

\* rollback looks at the flags in this order.
Before(r) ==
    CASE r = "nat"     -> {}
      [] r = "dnsmasq" -> {"nat"}
      [] r = "addr"    -> {"nat", "dnsmasq"}
      [] r = "hostapd" -> {"nat", "dnsmasq", "addr"}
      [] r = "conf"    -> {"nat", "dnsmasq", "addr", "hostapd"}
      [] r = "iface"   -> {"nat", "dnsmasq", "addr", "hostapd", "conf"}

\* Something goes wrong that stays unnoticed.
Trouble(t) == Cardinality(mishaps) < MaxTrouble /\ mishaps' = mishaps \cup {t}

Undoes(i, r) ==
    /\ At(i, "undo") /\ r \in own[i] /\ Before(r) \cap own[i] = {}
    /\ own' = [own EXCEPT ![i] = @ \ {r}]
    /\ UNCHANGED <<step, instVars>>

\* A command of the rollback fails: it is logged, and the flag is cleared.
UndoFails(i) ==
    /\ \E r \in Resources \ Daemons : Undoes(i, r)
    /\ Trouble("undo")
    /\ UNCHANGED <<iface, addr, files, rule, daemon>>

\* iptables -D
UndoNat(i) ==
    /\ Undoes(i, "nat")
    /\ rule' = [rule EXCEPT ![plan[i]] = Nobody]
    /\ UNCHANGED <<iface, addr, files, daemon, mishaps>>

UndoAddress(i) ==
    /\ Undoes(i, "addr")
    /\ addr' = IF addr = plan[i] THEN NoPlan ELSE addr
    /\ UNCHANGED <<iface, files, rule, daemon, mishaps>>

UndoConfig(i) ==
    /\ Undoes(i, "conf")
    /\ conf' = Nobody
    /\ UNCHANGED <<iface, addr, pidfile, rule, daemon, mishaps>>

\* iw dev ... del: the address goes with the interface.
UndoInterface(i) ==
    /\ Undoes(i, "iface")
    /\ iface' = Nobody /\ addr' = NoPlan
    /\ UNCHANGED <<files, rule, daemon, mishaps>>

\* terminate_owned_pidfile: without a pidfile nothing is killed.
UndoDaemonUnseen(i, d) ==
    /\ Undoes(i, d) /\ pidfile[d] = Nobody
    /\ mishaps' = IF daemon[d][cur[i]] \in {"born", "up"}
                THEN mishaps \cup {"late"} ELSE mishaps
    /\ UNCHANGED <<iface, addr, files, rule, daemon>>

\* The process is not there any more: its pidfile is kept.
UndoDaemonGone(i, d) ==
    /\ Undoes(i, d) /\ pidfile[d] # Nobody /\ ~Running(d, pidfile[d])
    /\ UNCHANGED <<iface, addr, files, rule, daemon, mishaps>>

\* kill -TERM, which is not waited for, and the pidfile is removed.
UndoDaemon(i, d) ==
    /\ Undoes(i, d) /\ DaemonReady(d)
    /\ \/ daemon' = [daemon EXCEPT ![d][pidfile[d]] = "term"] /\ UNCHANGED mishaps
       \/ Trouble("undo") /\ UNCHANGED daemon
    /\ pidfile' = [pidfile EXCEPT ![d] = Nobody]
    /\ UNCHANGED <<iface, addr, conf, rule>>

Undone(i) ==
    /\ At(i, "undo") /\ own[i] = {}
    /\ active' = [active EXCEPT ![i] = FALSE]
    /\ Goto(i, then[i])
    /\ UNCHANGED <<own, then, plan, cur, madeBy, world, mishaps>>

-----------------------------------------------------------------------------
(* What happens to the machine *)

\* A daemon writes its pidfile once it is ready.
DaemonWrites(d, n) ==
    /\ daemon[d][n] = "born"
    /\ daemon' = [daemon EXCEPT ![d][n] = "up"]
    /\ pidfile' = [pidfile EXCEPT ![d] = n]
    /\ UNCHANGED <<step, own, instVars, iface, addr, conf, rule, mishaps>>

\* A daemon that was told to end removes the pidfile, whosever it is by then.
DaemonEnds(d, n) ==
    /\ daemon[d][n] = "term"
    /\ daemon' = [daemon EXCEPT ![d][n] = "off"]
    /\ pidfile' = [pidfile EXCEPT ![d] = Nobody]
    /\ mishaps' = IF pidfile[d] \in {Nobody, n} THEN mishaps ELSE mishaps \cup {"slow"}
    /\ UNCHANGED <<step, own, instVars, iface, addr, conf, rule>>

\* A daemon dies of itself and leaves its pidfile.
DaemonDies(d, n) ==
    /\ daemon[d][n] \in {"born", "up"}
    /\ daemon' = [daemon EXCEPT ![d][n] = "off"]
    /\ Trouble("died")
    /\ UNCHANGED <<step, own, instVars, iface, addr, files, rule>>

\* The device process is killed.
ProcessDies(i) ==
    /\ Alive(i)
    /\ Goto(i, "crashed")
    /\ own' = [own EXCEPT ![i] = {}] /\ active' = [active EXCEPT ![i] = FALSE]
    /\ UNCHANGED <<then, plan, cur, madeBy, world, mishaps>>

\* Another program makes an interface of that name, or removes its own.
OtherInterface ==
    /\ iface \in {Nobody, Other}
    /\ iface' = IF iface = Nobody THEN Other ELSE Nobody
    /\ addr' = NoPlan
    /\ UNCHANGED <<step, own, instVars, files, rule, daemon, mishaps>>

\* While no device runs somebody tidies up what crashed ones left.
Tidy ==
    /\ \A i \in Instances : ~Alive(i)
    /\ iface' = Nobody /\ addr' = NoPlan /\ conf' = Nobody
    /\ rule' = [s \in Subnets |-> Nobody]
    /\ daemon' = [d \in Daemons |-> [n \in Starts |-> "off"]]
    /\ pidfile' = [d \in Daemons |-> Nobody]
    /\ UNCHANGED <<step, own, instVars, mishaps>>

-----------------------------------------------------------------------------
Start(i) ==
    \/ Restart(i) \/ Begin(i) \/ BeginFails(i) \/ StepFails(i)
    \/ AddInterface(i) \/ WriteConfig(i)
    \/ RunDaemon(i, "hostapd", "hostapd_wait")
    \/ WaitDaemon(i, "hostapd", "hostapd_wait", "addr") \/ AddAddress(i)
    \/ RunDaemon(i, "dnsmasq", "dnsmasq_wait")
    \/ WaitDaemon(i, "dnsmasq", "dnsmasq_wait", "nat")
    \/ FinishNat(i) \/ AddRule(i)

Undo(i) ==
    \/ UndoFails(i) \/ UndoNat(i) \/ UndoAddress(i) \/ UndoConfig(i)
    \/ UndoInterface(i) \/ Undone(i)
    \/ \E d \in Daemons : UndoDaemonUnseen(i, d) \/ UndoDaemonGone(i, d)
                          \/ UndoDaemon(i, d)

Process(i) == Create(i) \/ Start(i) \/ Stop(i) \/ DestroyHotspot(i) \/ Undo(i)

Machine ==
    \/ \E d \in Daemons, n \in Starts :
        DaemonWrites(d, n) \/ DaemonEnds(d, n) \/ DaemonDies(d, n)
    \/ OtherInterface \/ Tidy

HotspotNext == Machine \/ \E i \in Instances : Process(i) \/ ProcessDies(i)

HotspotSpec == HotspotInit /\ [][HotspotNext]_hotspotVars

-----------------------------------------------------------------------------
Mine(i, n) == n \in DOMAIN madeBy /\ madeBy[n] = i

\* A process removes, overwrites or kills only what its own starts made:
\* never the interface of another program, nor what a process that was
\* killed has left, although both bear the same names (linux_hotspot.c:
\* 所有权未知, 拒绝终止).  Only a daemon whose pidfile came too late for its own
\* process may be killed by another.
OthersKeepTheirs ==
    [][\A i \in Instances : step[i] # step'[i] \/ own[i] # own'[i] =>
        /\ iface \notin {Nobody, iface'} => Mine(i, iface)
        /\ conf \notin {Nobody, conf'} => Mine(i, conf)
        /\ \A s \in Subnets :
            rule[s] \notin {Nobody, rule'[s]} => Mine(i, rule[s])
        /\ \A d \in Daemons, n \in Starts :
            daemon[d][n] # daemon'[d][n] => Mine(i, n) \/ "late" \in mishaps
      ]_hotspotVars

\* A start that has been undone, after a failure at any command, a stop or
\* the next start, has left nothing behind, unless a command of the rollback
\* failed, a daemon had no pidfile yet, died of itself, or took so long to
\* end that the next one's pidfile was there.  (linux_hotspot.h: 逆序
\* rollback.)  What is left blocks every later start.
NothingLeftBehind ==
    mishaps = {} => \A n \in DOMAIN madeBy :
        LET i == madeBy[n] IN
        n # cur[i] \/ (step[i] \in {"ready", "gone"} /\ ~active[i]) =>
            /\ n \notin {iface, conf}
            /\ \A s \in Subnets : rule[s] # n
            /\ \A d \in Daemons :
                pidfile[d] # n /\ daemon[d][n] \in {"off", "term"}
=============================================================================
