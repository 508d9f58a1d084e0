----------------------------- MODULE MCPortPool -----------------------------
(* Small instances of PortPool for TLC.                                    *)
EXTENDS PortPool, TLC

CONSTANTS s1, s2, s3

MCThree == {s1, s2, s3}

MCSymmetry == Permutations(MCThree)

(* Ranges that begin or end inside a pair and overlap one another; the     *)
(* last of them ends at the last port.                                     *)
MCRanges == {[first |-> 0, last |-> 3], [first |-> 1, last |-> 4], [first |-> 2, last |-> 5]}

=============================================================================
