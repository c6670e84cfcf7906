---------------------------- MODULE BoundedFifo -----------------------------
(***************************************************************************)
(* What a command queue promises its users: commands leave in the order    *)
(* they came, each once, and at most Capacity wait.  CmdQueue keeps this   *)
(* promise with a ring (see AppDataPath and AppDataProofs).                *)
(***************************************************************************)
EXTENDS Naturals, Sequences

CONSTANTS Capacity, Command

VARIABLE queue

Init == queue = <<>>

Put(c) ==
    /\ Len(queue) < Capacity
    /\ queue' = Append(queue, c)

Take ==
    /\ queue # <<>>
    /\ queue' = Tail(queue)

Next == Take \/ \E c \in Command : Put(c)

Spec == Init /\ [][Next]_queue
=============================================================================
