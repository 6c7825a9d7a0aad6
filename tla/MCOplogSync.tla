---------------------------- MODULE MCOplogSync ----------------------------
(* Instances of OplogSync for TLC. *)
EXTENDS OplogSync

CONSTANTS p1, i1, x1

\* Decimal texts sort "1" < "10" < "2": the key of a number below 100.
SeqTextKey(s) == IF s < 10 THEN 100 * s ELSE 10 * s + 1

OpIdTextBefore(a, b) ==
    \/ a[1] < b[1]
    \/ a[1] = b[1] /\ SeqTextKey(a[2]) < SeqTextKey(b[2])

MCOpRank ==
    [a \in Device \X Seqs |-> Cardinality({b \in Device \X Seqs : OpIdTextBefore(b, a)})]

TwoDevices   == {1, 2}
ThreeDevices == {1, 2, 3}
BothWays     == {<<1, 2>>, <<2, 1>>}
Even         == [n \in Device |-> MaxSeq]
Uneven       == [n \in Device |-> IF n = 1 THEN MaxSeq ELSE 1]
Contained    == [i \in Item |-> p1]
=============================================================================
