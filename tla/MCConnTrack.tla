---------------------------- MODULE MCConnTrack ----------------------------
(* Instances of ConnTrack for TLC: k1 and k2 hash to one bucket (a port      *)
(* used for TCP and for UDP), k3 to another.                                 *)
EXTENDS ConnTrack, TLC

CONSTANTS k1, k2, k3

KeyBucket == [k \in Keys |-> IF k = k3 THEN 2 ELSE 1]

Symmetry == Permutations(Cells) \cup Permutations(Dests)
=============================================================================
