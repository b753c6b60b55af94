---------------------------- MODULE MCRegionFile ----------------------------
(* RegionFile for TLC: two regions, one of them with two chunks. *)
EXTENDS RegionFile, TLC

CONSTANTS a, b, far, near, off

Where == [c \in Chunks |-> IF c = far THEN off ELSE near]

\* Nothing tells the chunks of one region from each other.
Symmetry == Permutations({a, b})
=============================================================================
