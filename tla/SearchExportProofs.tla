------------------------- MODULE SearchExportProofs -------------------------
(***************************************************************************)
(* That a rebuild through export_page is handed every row that stays, and  *)
(* none twice, for any table and any limit.                                *)
(*                                                                         *)
(* The cursor splits the table: what was handed out lies at or below it,   *)
(* and nothing that stayed was left behind there.                          *)
(***************************************************************************)
EXTENDS SearchExport, TLAPS

Behind ==
  /\ stable \subseteq Visible
  /\ phase = "idle" => stable = {} /\ \A k \in Keys : exported[k] = 0
  /\ phase = "idle" => cursor = 0
  /\ phase = "reading" =>
       /\ \A k \in Keys : exported[k] > 0 => k <= cursor
       /\ \A k \in stable : k <= cursor => exported[k] > 0

IInv == TypeOK /\ NoRowTwice /\ NothingSkipped /\ Behind

(* The clamp leaves a positive page size, whatever the consumer asked for. *)
LEMMA PageSizePositive == \A asked \in Asked : PageSize(asked) \in Nat \ {0}
BY LimitAssumption DEF PageSize

(* The inductive invariant holds before the rebuild. *)
LEMMA InitInv == Init => IInv
BY MaxKeyAssumption DEF Init, IInv, TypeOK, NoRowTwice, NothingSkipped, Behind, Visible, Keys

(* A page of the rebuild, last or not. *)
LEMMA ReadPageInv == IInv /\ ReadPage => IInv'
<1> SUFFICES ASSUME IInv, ReadPage PROVE IInv'
  OBVIOUS
<1>0. PICK page \in SUBSET Keys :
        /\ IsPage(page, PageSize(limit))
        /\ exported' = [k \in Keys |->
             IF k \in page /\ exported[k] < 2 THEN exported[k] + 1 ELSE exported[k]]
        /\ \/ /\ IsLastPage(page, PageSize(limit))
              /\ cursor' = 0
              /\ phase' = "done"
           \/ /\ ~IsLastPage(page, PageSize(limit))
              /\ \E c \in Keys : IsLastKey(page, c) /\ cursor' = c
              /\ phase' = phase
  BY DEF ReadPage
<1>1. phase = "reading" /\ table' = table /\ stable' = stable /\ limit' = limit
  BY DEF ReadPage
<1>2. /\ stable \subseteq Visible
      /\ \A k \in Keys : exported[k] \in 0 .. 1
      /\ \A k \in Keys : exported[k] > 0 => k <= cursor
      /\ \A k \in stable : k <= cursor => exported[k] > 0
      /\ cursor \in {0} \cup Keys
      /\ limit \in Asked
  BY <1>1 DEF IInv, TypeOK, NoRowTwice, Behind
<1>3. page \subseteq AfterTheCursor /\ \A k \in page : k \in Keys /\ exported[k] = 0
  <2>1. page \subseteq AfterTheCursor
    BY <1>0 DEF IsPage
  <2>2. ASSUME NEW k \in page PROVE k \in Keys /\ k > cursor
    BY <2>1 DEF AfterTheCursor, Visible
  <2> QED BY <1>2, <2>1, <2>2 DEF Keys
<1>4. \A k \in Keys : exported'[k] = IF k \in page THEN 1 ELSE exported[k]
  BY <1>0, <1>2, <1>3 DEF Keys
<1>5. /\ NoRowTwice'
      /\ exported' \in [Keys -> 0 .. 2]
      /\ table' \in [Keys -> {"free", "inserting", "visible", "deleted"}]
      /\ stable' \subseteq Keys /\ stable' \subseteq Visible'
  <2>1. \A k \in Keys : exported'[k] \in 0 .. 1
    BY <1>2, <1>4
  <2>2. exported' \in [Keys -> 0 .. 2]
    BY <1>0, <2>1
  <2> QED BY <1>1, <1>2, <2>1, <2>2 DEF IInv, TypeOK, NoRowTwice, Visible
<1>6. CASE IsLastPage(page, PageSize(limit))
  <2>1. page = AfterTheCursor
    BY <1>0, <1>2, <1>6, PageSizePositive DEF IsPage, IsLastPage
  <2>2. phase' = "done" /\ cursor' = 0
    BY <1>0, <1>6
  <2>3. ASSUME NEW k \in stable PROVE exported'[k] > 0
    <3>1. k \in Keys /\ k \in Visible
      BY <1>2 DEF Visible
    <3>2. CASE k <= cursor
      BY <1>2, <1>4, <3>1, <3>2
    <3>3. CASE k > cursor
      BY <1>4, <2>1, <3>1, <3>3 DEF AfterTheCursor
    <3> QED BY <1>2, <3>1, <3>2, <3>3 DEF Keys
  <2> QED BY <1>1, <1>5, <2>2, <2>3 DEF IInv, TypeOK, NothingSkipped, Behind
<1>7. CASE ~IsLastPage(page, PageSize(limit))
  <2>1. PICK c \in Keys : IsLastKey(page, c) /\ cursor' = c
    BY <1>0, <1>7
  <2>2. phase' = "reading" /\ c \in page /\ c > cursor /\ \A k \in page : k <= c
    BY <1>0, <1>1, <1>3, <1>7, <2>1 DEF IsLastKey, AfterTheCursor
  <2>3. exported'[c] = 1
    BY <1>4, <2>2
  <2>4. ASSUME NEW k \in Keys, exported'[k] > 0 PROVE k <= c
    <3>1. k \in page \/ k <= cursor
      BY <1>2, <1>4, <2>4
    <3> QED BY <1>2, <2>2, <3>1 DEF Keys
  <2>5. ASSUME NEW k \in stable, k <= c PROVE exported'[k] > 0
    <3>1. k \in Keys /\ k \in Visible
      BY <1>2 DEF Visible
    <3>2. CASE k <= cursor
      BY <1>2, <1>4, <3>1, <3>2
    <3>3. CASE k > cursor
      <4>1. k \in AfterTheCursor
        BY <3>1, <3>3 DEF AfterTheCursor
      <4>2. k \in page
        BY <1>0, <2>2, <2>5, <3>1, <4>1 DEF IsPage, Keys
      <4> QED BY <1>4, <3>1, <4>2
    <3> QED BY <1>2, <3>1, <3>2, <3>3 DEF Keys
  <2> QED BY <1>1, <1>5, <2>1, <2>2, <2>3, <2>4, <2>5
          DEF IInv, TypeOK, NothingSkipped, Behind
<1> QED BY <1>6, <1>7

(* Every step keeps it. *)
LEMMA InvInductive == IInv /\ [Next]_vars => IInv'
<1> SUFFICES ASSUME IInv, [Next]_vars PROVE IInv'
  OBVIOUS
<1> USE DEF IInv, TypeOK, NoRowTwice, NothingSkipped, Behind, Visible
<1>1. CASE UNCHANGED vars
  BY <1>1 DEF vars
<1>2. ASSUME NEW k \in Keys, Allocate(k) PROVE IInv'
  BY <1>2 DEF Allocate
<1>3. ASSUME NEW k \in Keys, CommitInsert(k) PROVE IInv'
  BY <1>3 DEF CommitInsert
<1>4. ASSUME NEW k \in Keys, Delete(k) PROVE IInv'
  BY <1>4 DEF Delete
<1>5. ASSUME NEW k \in Keys, Restore(k) PROVE IInv'
  BY <1>5 DEF Restore
<1>6. CASE Start
  <2>1. \A k \in Keys : exported[k] = 0
    BY <1>6 DEF Start
  <2> QED BY <1>6, <2>1 DEF Start, Keys
<1>7. CASE ReadPage
  <2> USE DEF IInv
  <2> QED BY <1>7, ReadPageInv
<1> QED BY <1>1, <1>2, <1>3, <1>4, <1>5, <1>6, <1>7 DEF Next

(* So it holds throughout. *)
LEMMA InvHolds == Spec => []IInv
BY InitInv, InvInductive, PTL DEF Spec

(* No page repeats a row of an earlier one, whatever was inserted, deleted *)
(* or restored in between.                                                 *)
THEOREM ExportsNoRowTwice == Spec => []NoRowTwice
BY InvHolds, PTL DEF IInv

(* When export_page answers a null cursor, every row that was visible all  *)
(* along has been handed out.                                              *)
THEOREM ExportSkipsNothing == Spec => []NothingSkipped
BY InvHolds, PTL DEF IInv

(* The rebuild's own state is what TypeOK says; in particular the cursor   *)
(* is a key that was handed out, or none.                                  *)
THEOREM ExportTypeCorrect == Spec => []TypeOK
BY InvHolds, PTL DEF IInv
=============================================================================
