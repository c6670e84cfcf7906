------------------------------ MODULE CredList ------------------------------
(***************************************************************************)
(* The ordered list of WiFi credentials the device keeps, and the in-place *)
(* shifts device_app.c and device_provision.c make on it.  A network       *)
(* stands for one (ssid, password) pair; the first entry is the one tried  *)
(* first after a restart.                                                  *)
(***************************************************************************)
EXTENDS Naturals, Sequences

CONSTANTS
    Nets,    \* (ssid, password) pairs
    CredMax  \* PROTO_WIFI_CRED_MAX

ASSUME CredMaxAssumption == CredMax \in Nat \ {0}

Cred == [net : Nets, ok : BOOLEAN]  \* ok: the "confirmed" mark

CredLists == {s \in Seq(Cred) : Len(s) <= CredMax}

Unconfirmed(n) == [net |-> n, ok |-> FALSE]

\* creds_remove: the entries after position i move down by one.
RemoveAtPos(s, i) ==
    [j \in 1..(Len(s) - 1) |-> IF j < i THEN s[j] ELSE s[j + 1]]

\* Mutant: the entry the network already has is not looked for.
Hole_IgnoresEntry(s, n) == IF Len(s) < CredMax THEN Len(s) + 1 ELSE CredMax

\* The position a new target takes out of the list: the entry of the same
\* network if there is one, else a new last entry, else the last of a full list.
Hole(s, n) ==
    IF \E i \in 1..Len(s) : s[i].net = n
    THEN CHOOSE i \in 1..Len(s) :
            s[i].net = n /\ \A j \in 1..(i - 1) : s[j].net # n
    ELSE IF Len(s) < CredMax THEN Len(s) + 1 ELSE CredMax

\* wifi_config: everything before the hole moves up by one and the target
\* enters at the front, unconfirmed.
PutFirst(s, n) ==
    LET k == Hole(s, n)
        m == IF Len(s) < k THEN k ELSE Len(s)
    IN  [j \in 1..m |-> IF j = 1 THEN Unconfirmed(n)
                        ELSE IF j <= k THEN s[j - 1] ELSE s[j]]

\* The confirmed mark of entry i is set.
Confirm(s, i) == [s EXCEPT ![i] = [net |-> s[i].net, ok |-> TRUE]]

AllConfirmed(s) == \A i \in 1..Len(s) : s[i].ok

NoDuplicates(s) == \A i, j \in 1..Len(s) : s[i].net = s[j].net => i = j

ConfirmedNets(s) == {s[i].net : i \in {j \in 1..Len(s) : s[j].ok}}
=============================================================================
