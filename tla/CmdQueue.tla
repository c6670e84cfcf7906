------------------------------ MODULE CmdQueue ------------------------------
(***************************************************************************)
(* The command ring between the callers of the device facade and the       *)
(* device thread (device/src/runtime/device_cmd_queue.c).  Every operation *)
(* runs under the queue's own mutex from its first read to its last write, *)
(* so each is one action.                                                  *)
(***************************************************************************)
EXTENDS Naturals, Sequences

CONSTANTS
    Capacity,   \* DEVICE_CMD_QUEUE_CAPACITY
    NoCommand   \* the content of a slot calloc has zeroed

ASSUME CapacityAssumption == Capacity \in Nat \ {0}

VARIABLES slots, head, count

queueVars == <<slots, head, count>>

Index == 0 .. Capacity - 1

QueueInit ==
    /\ slots = [i \in Index |-> NoCommand]
    /\ head = 0
    /\ count = 0

\* The i-th waiting command, from 0, and all of them, oldest first.
Waiting(i) == slots[(head + i) % Capacity]
Queue == [i \in 1 .. count |-> Waiting(i - 1)]

QueueFull == count >= Capacity

Push_NoWrap(c) ==
    /\ ~QueueFull
    /\ slots' = [slots EXCEPT ![count % Capacity] = c]
    /\ count' = count + 1
    /\ head' = head
\* device_cmd_queue_push when there is room.
Push(c) ==
    /\ ~QueueFull
    /\ slots' = [slots EXCEPT ![(head + count) % Capacity] = c]
    /\ count' = count + 1
    /\ head' = head

\* device_cmd_queue_pop: the slot keeps its content, only the indices move.
Pop ==
    /\ count # 0
    /\ head' = (head + 1) % Capacity
    /\ count' = count - 1
    /\ slots' = slots
=============================================================================
