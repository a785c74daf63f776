------------------------------ MODULE MCUpkeep ------------------------------
EXTENDS Upkeep, TLC

CONSTANTS avatar, product

MCRefs == {avatar, product}
MCRetyped == [r \in {avatar} |-> product]

(* Nothing tells two requests, two opens or two places apart.              *)
Same == Permutations(Requests) \cup Permutations(Opens) \cup Permutations(Places)
=============================================================================
