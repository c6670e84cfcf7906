------------------------------ MODULE LogQueue ------------------------------
(***************************************************************************)
(* The queue between the device thread that logs and the window that shows *)
(* the lines (device_log_queue.c): a ring that overwrites its oldest line  *)
(* when it is full, and counts what it overwrote since the start.  A line  *)
(* is its sequence number.                                                 *)
(***************************************************************************)
EXTENDS Naturals, Sequences

CONSTANT QueueCapacity \* DEVICE_LOG_QUEUE_CAPACITY

ASSUME QueueCapacityAssumption == QueueCapacity \in Nat \ {0}

VARIABLES
    lines,     \* the slots
    first,     \* the slot of the oldest line
    waiting,   \* how many lines wait
    sequence,  \* lines pushed so far
    dropped,   \* lines overwritten so far
    pulled     \* history: lines handed out so far

queueVars == <<lines, first, waiting, sequence, dropped, pulled>>

Index == 0..QueueCapacity - 1

QueueTypeOK ==
    /\ lines \in [Index -> Nat]
    /\ first \in Index
    /\ waiting \in 0..QueueCapacity
    /\ sequence \in Nat /\ dropped \in Nat /\ pulled \in Nat

\* device_log_queue_create: calloc
QueueNew ==
    /\ lines = [i \in Index |-> 0] /\ first = 0 /\ waiting = 0
    /\ sequence = 0 /\ dropped = 0 /\ pulled = 0

\* The next process starts with a new queue.
QueueFresh ==
    /\ lines' = [i \in Index |-> 0] /\ first' = 0 /\ waiting' = 0
    /\ sequence' = 0 /\ dropped' = 0 /\ pulled' = 0

\* The slot of the i-th waiting line.
Slot(i) == (first + i - 1) % QueueCapacity

\* The line that was just pushed has the place after the last one, which in a
\* full ring is the place of the oldest.
QueuePush ==
    /\ sequence' = sequence + 1
    /\ IF waiting >= QueueCapacity
       THEN /\ dropped' = dropped + 1
            /\ lines' = [lines EXCEPT ![first] = sequence']
            /\ first' = (first + 1) % QueueCapacity
            /\ UNCHANGED waiting
       ELSE /\ lines' = [lines EXCEPT ![Slot(waiting + 1)] = sequence']
            /\ waiting' = waiting + 1
            /\ UNCHANGED <<dropped, first>>
    /\ UNCHANGED pulled

\* What a pull with room for capacity lines returns.
Pulled(capacity) ==
    [i \in 1..(IF capacity < waiting THEN capacity ELSE waiting) |-> lines[Slot(i)]]

\* Mutant: the ring forgets how much it handed out.
QueuePull_KeepsCount(capacity) ==
    LET n == Len(Pulled(capacity)) IN
    /\ first' = (first + n) % QueueCapacity
    /\ waiting' = waiting
    /\ pulled' = pulled + n
    /\ UNCHANGED <<lines, sequence, dropped>>

QueuePull(capacity) ==
    LET n == Len(Pulled(capacity)) IN
    /\ first' = (first + n) % QueueCapacity
    /\ waiting' = waiting - n
    /\ pulled' = pulled + n
    /\ UNCHANGED <<lines, sequence, dropped>>

\* The lines that wait are the newest ones, in order, and every line was handed
\* out, waits, or is counted as dropped: the reader can say how many lines are
\* missing between two pulls.
LinesAccounted ==
    /\ \A i \in 1..waiting : lines[Slot(i)] = sequence - waiting + i
    /\ sequence = pulled + waiting + dropped
=============================================================================
