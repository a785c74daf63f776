---------------------------- MODULE SearchExport ----------------------------
(***************************************************************************)
(* services/search_feed.export_page: an indexer rebuilds from a keyset-    *)
(* paged snapshot of the table while the table changes under it.  Keys     *)
(* come from the database's sequence, so a row may become visible after    *)
(* rows with larger keys; Listing.objects shows neither uncommitted nor    *)
(* soft-deleted rows.                                                      *)
(***************************************************************************)
EXTENDS Integers, FiniteSets

CONSTANTS
  MaxKey,        \* bound: the rows ever inserted
  Asked,         \* the limits a consumer may ask for; 0 stands for none
  DefaultLimit,  \* 500
  LargestLimit   \* 1000

ASSUME MaxKeyAssumption == MaxKey \in Nat
ASSUME LimitAssumption ==
  /\ Asked \subseteq Int
  /\ DefaultLimit \in Nat \ {0}
  /\ LargestLimit \in Nat \ {0}

Keys == 1 .. MaxKey

VARIABLES
  table,     \* Keys -> what stands under the key
  limit,     \* what the consumer asks for, the same on every page
  cursor,    \* the cursor of the page to ask for, 0 for none
  phase,     \* the rebuild: "idle", "reading" or "done"
  exported,  \* Keys -> how often the rebuild was handed the row (capped at 2)
  stable     \* ghost: the keys visible since the rebuild began

vars == <<table, limit, cursor, phase, exported, stable>>

TypeOK ==
  /\ table \in [Keys -> {"free", "inserting", "visible", "deleted"}]
  /\ limit \in Asked
  /\ cursor \in {0} \cup {k \in Keys : exported[k] > 0}  \* none, or a row handed out
  /\ phase \in {"idle", "reading", "done"}
  /\ exported \in [Keys -> 0 .. 2]
  /\ stable \subseteq Keys

Visible == {k \in Keys : table[k] = "visible"}

Init ==
  /\ table = [k \in Keys |-> "free"]
  /\ limit \in Asked
  /\ cursor = 0
  /\ phase = "idle"
  /\ exported = [k \in Keys |-> 0]
  /\ stable = {}

-----------------------------------------------------------------------------
(* The table. *)

Allocate(k) ==
  /\ table[k] = "free"
  /\ \A j \in Keys : j < k => table[j] # "free"
  /\ table' = [table EXCEPT ![k] = "inserting"]
  /\ UNCHANGED <<limit, cursor, phase, exported, stable>>

CommitInsert(k) ==
  /\ table[k] = "inserting"
  /\ table' = [table EXCEPT ![k] = "visible"]
  /\ UNCHANGED <<limit, cursor, phase, exported, stable>>

(* delete and hard_delete *)
Delete(k) ==
  /\ table[k] = "visible"
  /\ table' = [table EXCEPT ![k] = "deleted"]
  /\ stable' = stable \ {k}
  /\ UNCHANGED <<limit, cursor, phase, exported>>

Restore(k) ==
  /\ table[k] = "deleted"
  /\ table' = [table EXCEPT ![k] = "visible"]
  /\ UNCHANGED <<limit, cursor, phase, exported, stable>>

-----------------------------------------------------------------------------
(* The rebuild. *)

(* Mutation: the limit as it came. *)
Unclamped(asked) == IF asked = 0 THEN DefaultLimit ELSE asked

(* limit = max(1, min(int(limit or 500), 1000)) *)
PageSize(asked) ==
  LET n == IF asked = 0 THEN DefaultLimit ELSE asked
      least == IF n > LargestLimit THEN LargestLimit ELSE n
  IN IF least < 1 THEN 1 ELSE least

(* Mutation: the next page starts on the cursor. *)
FromTheCursor == {k \in Visible : k >= cursor}

AfterTheCursor == {k \in Visible : k > cursor}

(* The first n rows of the candidates, in key order. *)
IsPage(page, n) ==
  /\ page \subseteq AfterTheCursor
  /\ \A k \in page, j \in AfterTheCursor \ page : k < j
  /\ Cardinality(page) <= n
  /\ page = AfterTheCursor \/ Cardinality(page) = n

(* Mutation: any page taken for the last. *)
IsAnyPage(page, n) == Cardinality(page) <= n

IsLastKey(page, c) == c \in page /\ \A k \in page : k <= c

(* A page shorter than its limit is the last one. *)
IsLastPage(page, n) == Cardinality(page) < n

Start ==
  /\ phase = "idle"
  /\ phase' = "reading"
  /\ stable' = Visible
  /\ UNCHANGED <<table, limit, cursor, exported>>

ReadPage ==
  /\ phase = "reading"
  /\ \E page \in SUBSET Keys :
       /\ IsPage(page, PageSize(limit))
       /\ exported' = [k \in Keys |->
            IF k \in page /\ exported[k] < 2 THEN exported[k] + 1 ELSE exported[k]]
       /\ \/ /\ IsLastPage(page, PageSize(limit))
             /\ cursor' = 0
             /\ phase' = "done"
          \/ /\ ~IsLastPage(page, PageSize(limit))
             /\ \E c \in Keys : IsLastKey(page, c) /\ cursor' = c
             /\ phase' = phase
  /\ UNCHANGED <<table, limit, stable>>

Next ==
  \/ \E k \in Keys : Allocate(k) \/ CommitInsert(k) \/ Delete(k) \/ Restore(k)
  \/ Start
  \/ ReadPage

Spec == Init /\ [][Next]_vars

(* A consumer that began a rebuild keeps asking. *)
FairSpec == Spec /\ WF_vars(ReadPage)

-----------------------------------------------------------------------------
(* Properties. *)

(* No row is handed out twice, however rows come and go between pages.     *)
NoRowTwice == \A k \in Keys : exported[k] <= 1

(* "A row inserted mid-rebuild cannot shift a page under the reader": when *)
(* the cursor is exhausted, every row that was there the whole time has    *)
(* been handed out.                                                        *)
NothingSkipped == phase = "done" => \A k \in stable : exported[k] > 0

(* A rebuild comes to its end, whatever limit the consumer asks for.       *)
RebuildEnds == phase = "reading" ~> phase = "done"
=============================================================================
