------------------------------- MODULE Upkeep -------------------------------
(***************************************************************************)
(* What is kept beside one listing and must follow it: the count of its    *)
(* views, the media it claims, the geohash of its place.  Each has writers *)
(* of its own (modules Engagement, Claims, Geohash); this module adds the  *)
(* writer they share, a request that reads the row into an instance,       *)
(* changes it there and saves it, and lets all of them overlap.            *)
(* Statuses are left to module Listing: any kept listing may be opened,    *)
(* published or deleted here.                                              *)
(***************************************************************************)
EXTENDS Engagement, Claims, Geohash

CONSTANTS
  Requests,
  MaxWork,  \* requests, opens and passes that begin, a bound for TLC
  Idle      \* the request has no instance

VARIABLES
  instance,  \* Requests -> the row in memory, changed and not yet saved
  work

vars == <<engagementVars, claimsVars, geohashVars, instance, work>>

Kinds == {"save", "publish", "delete", "restore", "erase"}
WholeRow == {"save", "publish"}  \* save() without update_fields

Row ==
  [images |-> images, draft |-> draft, standing |-> standing,
   place |-> place, geo |-> geo,
   publicPlace |-> publicPlace, publicGeo |-> publicGeo, views |-> views]
Rows ==
  [images : SUBSET Refs, draft : SUBSET Refs, standing : Standings,
   place : Anywhere, geo : Anywhere,
   publicPlace : Anywhere, publicGeo : Anywhere, views : Nat]

Instances == [kind : Kinds, row : Rows, known : BOOLEAN, old : SUBSET Refs]

ASSUME UpkeepAssumption == MaxWork \in Nat /\ Idle \notin Instances

Init ==
  /\ EngagementInit /\ ClaimsInit /\ GeohashInit
  /\ instance = [q \in Requests |-> Idle]
  /\ work = 0

TypeOK ==
  /\ EngagementTypeOK /\ ClaimsTypeOK /\ GeohashTypeOK
  /\ instance \in [Requests -> Instances \cup {Idle}]
  /\ work \in 0 .. MaxWork

BeginWork == work < MaxWork /\ work' = work + 1

-----------------------------------------------------------------------------
(* The instance as the request leaves it: save_draft sets draft columns,   *)
(* publish_listing promotes them, delete, restore and hard_delete move     *)
(* the row's standing.  The gone row is not read.                          *)
Changed(kind) ==
  CASE kind = "save" /\ standing = "kept" ->
         {[Row EXCEPT !.draft = d] : d \in SUBSET Refs}
         \cup {[Row EXCEPT !.place = p] : p \in Anywhere}
    [] kind = "publish" /\ standing = "kept" ->
         {[Row EXCEPT !.images = draft, !.publicPlace = place, !.publicGeo = geo]}
    [] kind = "delete" /\ standing = "kept" -> {[Row EXCEPT !.standing = "deleted"]}
    [] kind = "restore" /\ standing = "deleted" -> {[Row EXCEPT !.standing = "kept"]}
    [] kind = "erase" /\ standing # "gone" -> {[Row EXCEPT !.standing = "gone"]}
    [] OTHER -> {}

(* hard_delete announces what its instance claimed; save() asks the row    *)
(* again, in Baseline.                                                     *)
Load(q, kind) ==
  /\ instance[q] = Idle /\ BeginWork
  /\ \E r \in Changed(kind) :
       instance' = [instance EXCEPT ![q] =
         [kind |-> kind, row |-> r, known |-> kind = "erase",
          old |-> IF kind = "erase" THEN Current ELSE {}]]
  /\ UNCHANGED <<engagementVars, claimsVars, geohashVars>>

(* _stored_cdn_image_refs, before the write. *)
Baseline(q) ==
  /\ instance[q] # Idle /\ ~instance[q].known
  /\ instance' = [instance EXCEPT ![q] =
       [kind |-> instance[q].kind, row |-> instance[q].row, known |-> TRUE, old |-> Current]]
  /\ UNCHANGED <<engagementVars, claimsVars, geohashVars, work>>

Finish(q) == instance' = [instance EXCEPT ![q] = Idle] /\ UNCHANGED work

Ready(q, kinds) == instance[q] # Idle /\ instance[q].known /\ instance[q].kind \in kinds

(* Every column as the instance has it; the draft's geohash stamped anew.  *)
(* A row that is gone is inserted again.                                   *)
WriteRow(q) ==
  /\ Ready(q, WholeRow)
  /\ LET r == instance[q].row IN
     /\ WriteRefs(r.images, r.draft, r.standing)
     /\ Say(instance[q].old, ClaimsOf(r))
     /\ \E g \in ComputeGeohashDraft(r.place, r.geo) :
          WritePlaces(r.place, g, r.publicPlace, r.publicGeo)
     /\ WriteViews(r.views)
  /\ Finish(q)

(* update_fields=["deleted_at", "updated_at"], refused where there is no   *)
(* row; and hard_delete, which takes the rows of its viewers with it.      *)
WriteStanding(q) ==
  /\ Ready(q, Kinds \ WholeRow)
  /\ LET r == instance[q].row IN
     IF standing = "gone" /\ r.standing # "gone"
     THEN UNCHANGED claimsVars
     ELSE /\ WriteRefs(images, draft, r.standing)
          /\ Say(instance[q].old, ClaimsOf(r))
  /\ seen' = IF instance[q].kind = "erase" THEN {} ELSE seen
  /\ Finish(q)
  /\ UNCHANGED <<views, window, opening, expired, counted, overwritten, geohashVars>>

(* publish_listing, delete and restore save inside a transaction of their  *)
(* own, and an erasure deletes inside one: it may be rolled back after the *)
(* difference was announced.                                               *)
RollBack(q) ==
  /\ Ready(q, Kinds \ {"save"})
  /\ Say(instance[q].old, ClaimsOf(instance[q].row))
  /\ Finish(q)
  /\ UNCHANGED <<engagementVars, geohashVars,
                 images, draft, standing, claims, retyping, claiming>>

OpenPage(o, v) ==
  /\ standing = "kept" /\ BeginWork /\ Open(o, v)
  /\ UNCHANGED <<claimsVars, geohashVars, instance>>

(* No row to count on, and none to remember a viewer of. *)
Engage ==
  /\ IF standing = "gone" THEN \E o \in Opens : Fail(o) ELSE EngagementStep
  /\ UNCHANGED <<claimsVars, geohashVars, instance, work>>

Lapse(v) == Expire(v) /\ UNCHANGED <<claimsVars, geohashVars, instance, work>>

BeginRetype ==
  RetypeRead /\ BeginWork /\ UNCHANGED <<engagementVars, geohashVars, instance>>

BeginClaiming ==
  ClaimRead /\ BeginWork /\ UNCHANGED <<engagementVars, geohashVars, instance>>

Keep == ClaimsStep /\ UNCHANGED <<engagementVars, geohashVars, instance, work>>

BeginStamping(pair) ==
  /\ standing # "gone" /\ BeginWork /\ BackfillRead(pair)
  /\ UNCHANGED <<engagementVars, claimsVars, instance>>

Stamp(pair) ==
  /\ BackfillFlush(pair, standing # "gone")
  /\ UNCHANGED <<engagementVars, claimsVars, instance, work>>

Next ==
  \/ \E q \in Requests :
       \/ \E kind \in Kinds : Load(q, kind)
       \/ Baseline(q) \/ WriteRow(q) \/ WriteStanding(q) \/ RollBack(q)
  \/ \E o \in Opens, v \in Viewers : OpenPage(o, v)
  \/ \E v \in Viewers : Lapse(v)
  \/ Engage \/ Keep \/ BeginRetype \/ BeginClaiming
  \/ \E pair \in {"draft", "public"} : BeginStamping(pair) \/ Stamp(pair)

Spec == Init /\ [][Next]_vars

-----------------------------------------------------------------------------
(* The row moved between the two reads a save makes, or after the second.  *)
StaleSave(q) ==
  \/ WriteRow(q) /\ instance[q].old # Current
  \/ WriteStanding(q) /\ ~(/\ instance[q].old = Current
                          /\ ClaimsOf(instance[q].row) = Current')

(* The claims stapel-cdn settles on are those of the row (the union of     *)
(* both sides, nothing for a deleted listing) unless a difference was      *)
(* taken from a row that had moved, was announced for a write rolled back, *)
(* was dropped, or was overtaken by one it crosses.                        *)
ClaimsFollowTheRow ==
  [][Settled =>
       \/ Settled'
       \/ \E q \in Requests : StaleSave(q) \/ RollBack(q)
       \/ StaleRetype \/ StaleBackfill \/ Dropped \/ Overtaken]_vars

(* No geohash names another place than its coordinates, unless the         *)
(* backfill's stamp came after they moved, or a request had read the row   *)
(* while that stood.                                                       *)
OnlyALateStampMisplaces ==
  [][WellPlaced =>
       \/ WellPlaced'
       \/ LateStamp
       \/ \E q \in Requests :
            WriteRow(q) /\ Misplaced(instance[q].row.publicPlace, instance[q].row.publicGeo)]_vars
=============================================================================
