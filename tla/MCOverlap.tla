----------------------------- MODULE MCOverlap -----------------------------
(* Overlapping requests for TLC: how many of them begin is bounded here,   *)
(* and nowhere in StaleWrites.                                             *)
EXTENDS MCStaleWrites, FiniteSets, Naturals

CONSTANT MaxLoads   \* how often a request or a consumer reads a row

VARIABLE loads

Loading == {q \in Requests : held[q] = Nothing /\ held'[q] # Nothing}

MCInit == StaleInit /\ loads = 0
MCNext == StaleNext /\ loads' = loads + Cardinality(Loading) /\ loads' <= MaxLoads

MCSpec == MCInit /\ [][MCNext]_<<staleVars, loads>>
=============================================================================
