------------------------- MODULE PrefixReplication -------------------------
(***************************************************************************)
(* What synchronisation promises of the clocks, without logs, batches or   *)
(* sessions: each device numbers its own ops 1, 2, 3, ...; what a device   *)
(* has delivered of another is always a prefix, it only grows, and it      *)
(* never runs ahead of what the other has issued.                          *)
(***************************************************************************)
EXTENDS Integers

CONSTANTS Device, MaxSeq

VARIABLE delivered  \* delivered[n][d]: length of the prefix of d's ops on n

Init == delivered = [n \in Device |-> [d \in Device |-> 0]]

Issue(n) ==
    /\ delivered[n][n] < MaxSeq
    /\ delivered' = [delivered EXCEPT ![n][n] = @ + 1]

\* A catch-up round extends the prefix of one device, a checkpoint several.
Deliver(n) ==
    \E to \in [Device -> 0..MaxSeq] :
        /\ \A d \in Device : delivered[n][d] <= to[d] /\ to[d] <= delivered[d][d]
        /\ delivered' = [delivered EXCEPT ![n] = to]

Next == \E n \in Device : Issue(n) \/ Deliver(n)

Spec == Init /\ [][Next]_delivered
=============================================================================
