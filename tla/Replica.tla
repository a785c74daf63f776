------------------------------- MODULE Replica -------------------------------
(***************************************************************************)
(* What a search index that is told of changes promises of the row behind  *)
(* it: while a change has not reached it the index may serve anything, but *)
(* once every change has, it serves the row as it is; and, changes         *)
(* permitting, every change does reach it.                                 *)
(***************************************************************************)
CONSTANT Versions   \* of a row, as far as a document tells them apart

VARIABLES
  current,   \* the version the row has
  served,    \* the version the index holds
  settled    \* every change has reached the index

vars == <<current, served, settled>>

Init == current \in Versions /\ served = current /\ settled = TRUE

Change ==
  /\ current' \in Versions
  /\ settled' = FALSE
  /\ UNCHANGED served

Serve ==
  /\ ~settled
  /\ served' \in Versions
  /\ UNCHANGED <<current, settled>>

Settle ==
  /\ ~settled
  /\ served' = current
  /\ settled' = TRUE
  /\ UNCHANGED current

Next == Change \/ Serve \/ Settle

Safe == Init /\ [][Next]_vars
Spec == Safe /\ WF_vars(Settle)
=============================================================================
