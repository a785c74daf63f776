--------------------------- MODULE MCStaleWrites ---------------------------
(* Instances of StaleWrites for TLC. *)
EXTENDS StaleWrites, TLC

CONSTANTS u1

MCOwnerOf == [l \in Listings |-> u1]

MCSymmetry == Permutations(Requests)
=============================================================================
