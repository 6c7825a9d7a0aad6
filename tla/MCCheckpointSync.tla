-------------------------- MODULE MCCheckpointSync --------------------------
(* Instances of CheckpointSync for TLC. *)
EXTENDS CheckpointSync

CONSTANTS p1, i1, x1, x2

\* Below ten ops per device the text order of op ids is the order of the pairs.
MCOpRank == [a \in Device \X Seqs |-> a[1] * (MaxSeq + 1) + a[2]]

TwoDevices   == {1, 2}
ThreeDevices == {1, 2, 3}
BothWays     == {<<1, 2>>, <<2, 1>>}
Even         == [n \in Device |-> MaxSeq]
Uneven       == [n \in Device |-> IF n = 1 THEN MaxSeq ELSE IF n = 2 THEN 1 ELSE 0]
OnlyFirst    == [n \in Device |-> IF n = 1 THEN MaxSeq ELSE 0]
Contained    == [i \in Item |-> p1]
=============================================================================
