----------------------------- MODULE MCListing -----------------------------
(* Instances of Listing for TLC: every listing belongs to the one account. *)
EXTENDS Listing, TLC

CONSTANTS u1

MCOwnerOf == [l \in Listings |-> u1]

(* Sound where every content is treated alike. *)
MCSymmetry == Permutations(Listings) \cup Permutations(Contents)
=============================================================================
