------------------------------- MODULE Sockets ------------------------------
(***************************************************************************)
(* The sockets of the five backends: linux_socket.c and sim_socket.c of    *)
(* the device, pc_socket_backend.cpp, win_backend.cpp and the simulation   *)
(* of the host.  An operation is a chain of system calls; each may fail,   *)
(* and what was opened must then be closed.  The chains differ in order,   *)
(* in what they check and in what they answer.                             *)
(***************************************************************************)
EXTENDS Integers, Sequences

CONSTANTS
    Fds,   \* handles a process may have (0, 1 and 2 are taken)
    NoFd

ASSUME SocketsAssumption == NoFd \notin Fds

VARIABLES
    backend, \* one backend per process
    chain,   \* the calls still to come of the operation at work
    cur,     \* the handle it has opened
    open,    \* handles open in the kernel
    held,    \* handles the callers were given and have not closed
    waits,   \* handles that may block a call
    ignored, \* handles whose change of mode failed unnoticed
    rc       \* the last answer

sockVars == <<backend, chain, cur, open, held, waits, ignored, rc>>

-----------------------------------------------------------------------------
(* System calls: on every outcome the operation goes on ("next"), is done,  *)
(* or ends with an answer, after closing its handle or not.                 *)

Opens(f) == [call |-> "open", on |-> [ok |-> "next", failed |-> f], closes |-> FALSE]
Accepts(f) == [call |-> "open", on |-> [ok |-> "next", empty |-> "again", failed |-> f],
               closes |-> FALSE]
Checked(c, f) == [call |-> c, on |-> [ok |-> "next", failed |-> f], closes |-> TRUE]
Ignored(c) == [call |-> c, on |-> [ok |-> "next", failed |-> "next"], closes |-> FALSE]
Unclosed(step) == [step EXCEPT !.closes = FALSE]
Dials(refused, done) ==
    [call |-> "connect", closes |-> TRUE,
     on |-> [ok |-> done, pending |-> "next", refused |-> refused, failed |-> "err"]]
Waits(f) ==
    [call |-> "select", closes |-> TRUE,
     on |-> [ok |-> "next", late |-> "timeout", failed |-> f]]
Asks(refused, f) ==
    [call |-> "so_error", closes |-> TRUE,
     on |-> [ok |-> "next", refused |-> refused, other |-> "err", failed |-> f]]
Sends(short) == [call |-> "sendto", closes |-> TRUE,
                 on |-> [ok |-> "sent", short |-> short, failed |-> "err"]]

LinuxListen ==
    <<Opens("err"), Ignored("reuse"), Checked("bind", "err"), Checked("listen", "err"),
      Checked("nonblock", "err")>>
SimListen ==
    <<Opens("err"), Ignored("nonblock"), Ignored("reuse"), Checked("bind", "err"),
      Checked("listen", "err")>>
PcListen ==
    <<Opens("err"), Ignored("nonblock"), Ignored("reuse"), Checked("bind", "err"),
      Checked("listen", "err")>>
PcSimListen ==
    <<Opens("err"), Ignored("nonblock"), Ignored("reuse"), Checked("bind", "err"),
      Checked("listen", "err")>>
WinListen ==
    <<Opens("err"), Ignored("exclusive"), Checked("bind", "err"), Checked("listen", "err"),
      Ignored("nonblock")>>

\* Mutant: an accepted connection is not closed when its mode cannot be set.
LinuxAccept_Leaks == <<Accepts("err"), Unclosed(Checked("nonblock", "err"))>>
LinuxAccept == <<Accepts("err"), Checked("nonblock", "err")>>
SimAccept == <<Accepts("again"), Ignored("nonblock")>>
PcAccept == <<Accepts("again"), Ignored("nonblock")>>
PcSimAccept == <<Accepts("again"), Ignored("nonblock")>>

\* A refusal is an error on Linux and Windows and a time-out in the others; a
\* select that fails is a time-out everywhere but on Linux; only Linux looks at
\* the result of getsockopt.
LinuxConnect ==
    <<Opens("err"), Checked("nonblock", "err"), Dials("err", "done"), Waits("err"),
      Asks("err", "err")>>
SimConnect ==
    <<Opens("err"), Ignored("nonblock"), Dials("timeout", "done"), Waits("timeout"),
      Asks("timeout", "next"), Ignored("nonblock")>>
PcConnect ==
    <<Opens("err"), Ignored("nonblock"), Dials("timeout", "done"), Waits("timeout"),
      Asks("timeout", "next"), Ignored("nonblock")>>
PcSimConnect ==
    <<Opens("err"), Ignored("nonblock"), Dials("timeout", "done"), Waits("timeout"),
      Asks("timeout", "next"), Ignored("nonblock")>>
WinConnect ==
    <<Opens("err"), Ignored("nonblock"), Dials("err", "done"), Waits("timeout"),
      Asks("err", "next")>>

\* Linux joins the group before it binds.
LinuxJoin ==
    <<Opens("err"), Ignored("reuse"), Checked("join", "err"), Checked("bind", "err"),
      Checked("nonblock", "err")>>
SimJoin ==
    <<Opens("err"), Ignored("reuse"), Checked("bind", "err"), Checked("join", "err"),
      Ignored("nonblock")>>
PcJoin ==
    <<Opens("err"), Ignored("reuse"), Checked("bind", "err"), Checked("join", "err"),
      Ignored("nonblock")>>
PcSimJoin ==
    <<Opens("err"), Ignored("reuse"), Checked("bind", "err"), Checked("join", "err"),
      Ignored("nonblock")>>

\* A datagram has a socket of its own, closed whatever becomes of it; Linux
\* takes a short datagram for an error.
LinuxUdpSend == <<Opens("err"), Ignored("ttl"), Sends("err")>>
SimUdpSend == <<Opens("err"), Ignored("ttl"), Sends("sent")>>
PcUdpSend == <<Opens("err"), Ignored("ttl"), Sends("sent")>>
PcSimUdpSend == <<Opens("err"), Ignored("ttl"), Sends("sent")>>

\* The Windows backend has its own listen and connect and uses the host's
\* sockets for everything else.
Chains ==
    [linux |-> {LinuxListen, LinuxAccept, LinuxConnect, LinuxJoin, LinuxUdpSend},
     sim |-> {SimListen, SimAccept, SimConnect, SimJoin, SimUdpSend},
     pc |-> {PcListen, PcAccept, PcConnect, PcJoin, PcUdpSend},
     pcsim |-> {PcSimListen, PcSimAccept, PcSimConnect, PcSimJoin, PcSimUdpSend},
     win |-> {WinListen, PcAccept, WinConnect, PcJoin, PcUdpSend}]

\* send and recv on a handle: 0 bytes is a closed peer, or nothing was sent.
LinuxTransfer == {"sent", "again", "err"}
SimTransfer == {"sent", "again", "err"}
PcTransfer == {"sent", "again", "err"}
PcSimTransfer == {"sent", "again", "err"}

\* recvfrom: an empty datagram is an answer on Linux only.
LinuxDatagram == {"sent", "empty", "again", "err"}
SimDatagram == {"sent", "again", "err"}
PcDatagram == {"sent", "again", "err"}
PcSimDatagram == {"sent", "again", "err"}
Transfers ==
    [linux |-> LinuxTransfer \cup LinuxDatagram, sim |-> SimTransfer \cup SimDatagram,
     pc |-> PcTransfer \cup PcDatagram, pcsim |-> PcSimTransfer \cup PcSimDatagram,
     win |-> PcTransfer \cup PcDatagram]

-----------------------------------------------------------------------------
SockInit ==
    /\ backend \in DOMAIN Chains
    /\ chain = <<>> /\ cur = NoFd /\ open = {} /\ held = {}
    /\ waits = {} /\ ignored = {} /\ rc = "ok"

Idle == chain = <<>>

Call ==
    /\ Idle /\ chain' \in Chains[backend]
    /\ UNCHANGED <<backend, cur, open, held, waits, ignored, rc>>

Outcome(o) == ~Idle /\ o \in DOMAIN Head(chain).on
Continues == IF Len(chain) = 1 THEN "given" ELSE "next"
After(o) == IF Head(chain).on[o] = "next" THEN Continues ELSE Head(chain).on[o]

\* A new handle is in blocking mode.
OpenSucceeds ==
    /\ Outcome("ok") /\ Head(chain).call = "open"
    /\ \E f \in Fds \ open :
         /\ cur' = f /\ open' = open \cup {f}
         /\ waits' = waits \cup {f} /\ ignored' = ignored \ {f}
    /\ chain' = Tail(chain)
    /\ UNCHANGED <<backend, held, rc>>

\* What a change of the mode does to the handle.
Mode(o) ==
    /\ waits' = IF Head(chain).call = "nonblock" /\ o = "ok" THEN waits \ {cur} ELSE waits
    /\ ignored' = IF Head(chain).call = "nonblock" /\ o = "failed" THEN ignored \cup {cur}
                  ELSE ignored

GoesOn(o) ==
    /\ Outcome(o) /\ After(o) = "next" /\ ~(Head(chain).call = "open" /\ o = "ok")
    /\ Mode(o) /\ chain' = Tail(chain)
    /\ UNCHANGED <<backend, cur, open, held, rc>>

\* The handle is the caller's.
Gives(o) ==
    /\ Outcome(o) /\ After(o) \in {"given", "done"}
    /\ Mode(o) /\ chain' = <<>> /\ cur' = NoFd /\ rc' = "ok"
    /\ held' = held \cup {cur}
    /\ UNCHANGED <<backend, open>>

\* The operation ends with an answer and no handle.
Refuses(o) ==
    /\ Outcome(o) /\ After(o) \notin {"next", "given", "done"}
    /\ chain' = <<>> /\ cur' = NoFd /\ rc' = After(o)
    /\ open' = IF Head(chain).closes THEN open \ {cur} ELSE open
    /\ UNCHANGED <<backend, held, waits, ignored>>

Transfer ==
    /\ Idle /\ held # {} /\ rc' \in Transfers[backend]
    /\ UNCHANGED <<backend, chain, cur, open, held, waits, ignored>>

SockClose ==
    /\ Idle
    /\ \E f \in held : open' = open \ {f} /\ held' = held \ {f}
    /\ UNCHANGED <<backend, chain, cur, waits, ignored, rc>>

Outcomes == {"ok", "failed", "empty", "pending", "refused", "late", "other", "short"}

SockNext ==
    \/ Call \/ OpenSucceeds \/ Transfer \/ SockClose
    \/ \E o \in Outcomes : GoesOn(o) \/ Gives(o) \/ Refuses(o)

SockSpec == SockInit /\ [][SockNext]_sockVars

-----------------------------------------------------------------------------
(* Properties *)

\* Whatever system call fails, in any backend: between operations every open
\* handle is one a caller was given, a handle that was given is open, and it
\* does not block its callers unless a backend that ignores the failure could
\* not change its mode; Linux never gives such a handle.
HandlesAreSound ==
    /\ open = held \cup ({cur} \ {NoFd})
    /\ held \cap waits \subseteq (IF backend = "linux" THEN {} ELSE ignored)
=============================================================================
