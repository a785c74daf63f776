---------------------------- MODULE UpkeepProofs ----------------------------
(***************************************************************************)
(* The properties of Upkeep for any number of requests, opens, viewers,    *)
(* references and places: a window counts once, the count is a floor, only *)
(* a late stamp puts a geohash next to other coordinates, and only a       *)
(* difference that is stale, rolled back, dropped or overtaken parts the   *)
(* claims from the row.                                                    *)
(*                                                                         *)
(* A window counts once because every admission pays for at most one       *)
(* count: the opens counted and those still to be counted are no more than *)
(* the windows there have been.                                            *)
(***************************************************************************)
EXTENDS Upkeep, FiniteSetTheorems, TLAPS

Pending(v) ==
  {o \in Opens : opening[o] # NoOpen /\ opening[o].viewer = v /\ ~opening[o].counted}

Windows(v) == expired[v] + (IF v \in window THEN 1 ELSE 0)

Admitted == \A v \in Viewers : counted[v] + Cardinality(Pending(v)) <= Windows(v)

-----------------------------------------------------------------------------
(* Types, writer by writer. *)

LEMMA RowType == ASSUME TypeOK PROVE Row \in Rows
BY DEF TypeOK, EngagementTypeOK, ClaimsTypeOK, GeohashTypeOK, Row, Rows

LEMMA CurrentType == ASSUME ClaimsTypeOK PROVE Current \subseteq Refs
BY DEF ClaimsTypeOK, Current, ClaimsOf

LEMMA ClaimsOfType == ASSUME NEW r \in Rows PROVE ClaimsOf(r) \subseteq Refs
BY DEF Rows, ClaimsOf

LEMMA ChangedType ==
  ASSUME TypeOK, NEW kind \in Kinds, NEW r \in Changed(kind)
  PROVE  r \in Rows
<1>0. Row \in Rows
  BY RowType
<1>1. CASE kind = "save"
  <2>1. \/ \E d \in SUBSET Refs : r = [Row EXCEPT !.draft = d]
        \/ \E p \in Anywhere : r = [Row EXCEPT !.place = p]
    BY <1>1 DEF Changed
  <2> QED BY <1>0, <2>1 DEF Rows
<1>2. CASE kind = "publish"
  <2> DEFINE x == [Row EXCEPT !.images = draft]
  <2> DEFINE y == [x EXCEPT !.publicPlace = place]
  <2>1. r = [y EXCEPT !.publicGeo = geo]
    BY <1>2 DEF Changed
  <2>2. x \in Rows
    BY <1>0 DEF Rows, TypeOK, ClaimsTypeOK
  <2> HIDE DEF x
  <2>3. y \in Rows
    BY <2>2 DEF Rows, TypeOK, GeohashTypeOK
  <2> HIDE DEF y
  <2> QED BY <2>1, <2>3 DEF Rows, TypeOK, GeohashTypeOK
<1>3. CASE kind \in {"delete", "restore", "erase"}
  <2>1. \E s \in Standings : r = [Row EXCEPT !.standing = s]
    BY <1>3 DEF Changed, Standings
  <2> QED BY <1>0, <2>1 DEF Rows
<1> QED BY <1>1, <1>2, <1>3 DEF Kinds

(* A difference announced, or taken off the list.                          *)
LEMMA AppendType ==
  ASSUME NEW S, NEW s \in Seq(S), NEW x \in S
  PROVE  Append(s, x) \in Seq(S)
OBVIOUS

LEMMA RemoveType ==
  ASSUME NEW S, NEW s \in Seq(S), NEW k \in DOMAIN s
  PROVE  RemoveAt(s, k) \in Seq(S) /\ s[k] \in S
<1>1. k \in 1 .. Len(s) /\ Len(s) \in Nat
  OBVIOUS
<1>2. SubSeq(s, 1, k - 1) \in Seq(S) /\ SubSeq(s, k + 1, Len(s)) \in Seq(S)
  BY <1>1
<1> QED BY <1>1, <1>2 DEF RemoveAt

Differences == [old : SUBSET Refs, new : SUBSET Refs]

LEMMA SayType ==
  ASSUME unsaid \in Seq(Differences), NEW old \in SUBSET Refs, NEW new \in SUBSET Refs,
         Say(old, new)
  PROVE  unsaid' \in Seq(Differences)
<1>1. [old |-> old, new |-> new] \in Differences
  BY DEF Differences
<1> QED BY <1>1, AppendType DEF Say

LEMMA SyncType ==
  ASSUME NEW held \in SUBSET Refs, NEW said \in [old : SUBSET Refs, new : SUBSET Refs]
  PROVE  RefSync(held, said) \in SUBSET Refs
BY DEF RefSync

LEMMA RetypeType ==
  ASSUME NEW r \in References
  PROVE  /\ Retype(r) \in References
         /\ ClaimsOf(r) \in SUBSET Refs /\ ClaimsOf(Retype(r)) \in SUBSET Refs
<1>1. \A refs \in SUBSET Refs : Rewritten(refs) \in SUBSET Refs
  BY ClaimsAssumption DEF Rewritten
<1> DEFINE x == [r EXCEPT !.images = Rewritten(r.images)]
<1>2. x \in References /\ x.draft = r.draft
  BY <1>1 DEF References
<1>3. Retype(r) = [x EXCEPT !.draft = Rewritten(r.draft)]
  BY DEF Retype
<1> HIDE DEF x
<1>4. Retype(r) \in References
  BY <1>1, <1>2, <1>3 DEF References
<1> QED BY <1>4 DEF References, ClaimsOf

(* The keepers of the claims beside save().                                *)
LEMMA ClaimsStepType ==
  ASSUME ClaimsTypeOK, ClaimsStep \/ RetypeRead \/ ClaimRead
  PROVE  ClaimsTypeOK'
<1>0. unsaid \in Seq(Differences)
  BY DEF ClaimsTypeOK, Differences
<1>1. ASSUME NEW k \in DOMAIN unsaid, Announce(k) \/ Drop(k)
      PROVE  ClaimsTypeOK'
  <2>1. unsaid[k] \in Differences
    BY <1>0, RemoveType
  <2>2. unsaid' \in Seq(Differences)
    BY <1>0, <1>1, RemoveType DEF Announce, Drop
  <2>3. claims' \in SUBSET Refs
    BY <1>1, <2>1, SyncType DEF Announce, Drop, ClaimsTypeOK, Differences
  <2> QED BY <1>1, <2>2, <2>3 DEF Announce, Drop, ClaimsTypeOK, Differences
<1>2. CASE RetypeWrite
  <2>1. /\ retyping \in References /\ Retype(retyping) \in References
        /\ ClaimsOf(retyping) \in SUBSET Refs /\ ClaimsOf(Retype(retyping)) \in SUBSET Refs
    BY RetypeType DEF ClaimsTypeOK
  <2>2. unsaid' \in Seq(Differences)
    BY <1>0, <1>2, <2>1, SayType DEF RetypeWrite
  <2>3. Unread \in References
    BY DEF Unread, References, Standings
  <2>4. images' \in SUBSET Refs /\ draft' \in SUBSET Refs
    BY <1>2, <2>1 DEF RetypeWrite, References, ClaimsTypeOK
  <2> QED BY <1>2, <2>2, <2>3, <2>4 DEF RetypeWrite, ClaimsTypeOK, Differences
<1>3. CASE ClaimPublish
  <2>1. RefSync(claims, [old |-> {}, new |-> claiming]) \in SUBSET Refs
    BY SyncType DEF ClaimsTypeOK
  <2> QED BY <1>3, <2>1 DEF ClaimPublish, ClaimsTypeOK
<1>4. CASE RetypeRead
  BY <1>4 DEF RetypeRead, ClaimsTypeOK, References
<1>5. CASE ClaimRead
  BY <1>5, CurrentType DEF ClaimRead, ClaimsTypeOK
<1> QED BY <1>1, <1>2, <1>3, <1>4, <1>5 DEF ClaimsStep

-----------------------------------------------------------------------------
(* Opens, and what they pay for.                                           *)

(* A row of ListingView is on its way only for a viewer who is signed in.  *)
KnownAreRemembered ==
  \A o \in Opens : opening[o] # NoOpen /\ opening[o].counted => opening[o].viewer \in SignedIn

Engaged == EngagementTypeOK /\ KnownAreRemembered /\ Admitted

OpenRecords == [viewer : Viewers, counted : BOOLEAN]

LEMMA PendingIsFinite ==
  ASSUME NEW v
  PROVE  IsFiniteSet(Pending(v)) /\ Cardinality(Pending(v)) \in Nat
<1>1. Pending(v) \subseteq Opens
  BY DEF Pending
<1>2. IsFiniteSet(Pending(v))
  BY <1>1, FS_Subset, EngagementAssumption
<1> QED BY <1>2, FS_CardinalityType

(* Only the opens under way, the counts and the windows matter.            *)
LEMMA EngagedIsKept ==
  ASSUME Engaged, views' \in Nat, overwritten' \in BOOLEAN, seen' \subseteq SignedIn,
         UNCHANGED <<window, opening, expired, counted>>
  PROVE  Engaged'
<1>1. \A v \in Viewers : Pending(v)' = Pending(v) /\ Windows(v)' = Windows(v)
  BY DEF Pending, Windows
<1> QED BY <1>1 DEF Engaged, EngagementTypeOK, KnownAreRemembered, Admitted

(* An open that ends has nothing left to count.                            *)
LEMMA EndOfOpen ==
  ASSUME Engaged, NEW o \in Opens, Remember(o) \/ Fail(o)
  PROVE  Engaged'
<1>1. /\ opening' = [opening EXCEPT ![o] = NoOpen]
      /\ UNCHANGED <<views, window, expired, counted, overwritten>>
  BY DEF Remember, Fail, Proceed
<1>2. seen' \subseteq SignedIn
  BY DEF Remember, Fail, Engaged, EngagementTypeOK, KnownAreRemembered
<1>3. EngagementTypeOK' /\ KnownAreRemembered'
  BY <1>1, <1>2 DEF Engaged, EngagementTypeOK, KnownAreRemembered
<1>4. ASSUME NEW v \in Viewers
      PROVE  counted'[v] + Cardinality(Pending(v)') <= Windows(v)'
  <2>1. Pending(v)' \subseteq Pending(v)
    BY <1>1 DEF Pending, Engaged, EngagementTypeOK
  <2>2. /\ Cardinality(Pending(v)') \in Nat
        /\ Cardinality(Pending(v)') <= Cardinality(Pending(v))
        /\ Cardinality(Pending(v)) \in Nat
    BY <2>1, PendingIsFinite, FS_Subset, FS_CardinalityType
  <2>3. /\ counted[v] + Cardinality(Pending(v)) <= Windows(v) /\ Windows(v)' = Windows(v)
        /\ counted[v] \in Nat /\ Windows(v) \in Nat /\ counted' = counted
    BY <1>1 DEF Engaged, Admitted, Windows, EngagementTypeOK
  <2> QED BY <2>2, <2>3
<1> QED BY <1>3, <1>4 DEF Engaged, Admitted

(* A count moves one open from what is to be counted to what has been.     *)
LEMMA CountOfOpen ==
  ASSUME Engaged, NEW o \in Opens, Count(o)
  PROVE  Engaged'
<1> DEFINE u == opening[o].viewer
<1> DEFINE after == IF u \in SignedIn THEN [viewer |-> u, counted |-> TRUE] ELSE NoOpen
<1>1. /\ u \in Viewers /\ opening[o] # NoOpen /\ ~opening[o].counted /\ o \in Pending(u)
      /\ counted' = [counted EXCEPT ![u] = counted[u] + 1]
      /\ opening' = [opening EXCEPT ![o] = after]
      /\ views' = views + 1
      /\ UNCHANGED <<window, seen, expired, overwritten>>
  BY DEF Count, Proceed, Pending, Engaged, EngagementTypeOK
<1>2. /\ after \in OpenRecords \cup {NoOpen}
      /\ after # NoOpen => after.counted /\ after.viewer \in SignedIn
  BY <1>1 DEF OpenRecords
<1> HIDE DEF u, after
<1>3. EngagementTypeOK' /\ KnownAreRemembered'
  BY <1>1, <1>2 DEF Engaged, EngagementTypeOK, KnownAreRemembered, OpenRecords
<1>4. ASSUME NEW v \in Viewers
      PROVE  counted'[v] + Cardinality(Pending(v)') <= Windows(v)'
  <2>1. /\ counted[v] + Cardinality(Pending(v)) <= Windows(v) /\ Windows(v)' = Windows(v)
        /\ counted[v] \in Nat /\ Windows(v) \in Nat
    BY <1>1 DEF Engaged, Admitted, Windows, EngagementTypeOK
  <2>2. Pending(v)' = Pending(v) \ {o}
    BY <1>1, <1>2 DEF Pending, Engaged, EngagementTypeOK
  <2>3. /\ IsFiniteSet(Pending(v)) /\ Cardinality(Pending(v)) \in Nat
        /\ Cardinality(Pending(v)') =
             IF o \in Pending(v) THEN Cardinality(Pending(v)) - 1 ELSE Cardinality(Pending(v))
    BY <2>2, PendingIsFinite, FS_RemoveElement
  <2>4. CASE v = u
    <3>1. counted'[v] = counted[v] + 1 /\ o \in Pending(v)
      BY <1>1, <2>4 DEF Engaged, EngagementTypeOK
    <3> QED BY <2>1, <2>3, <3>1
  <2>5. CASE v # u
    <3>1. counted'[v] = counted[v] /\ o \notin Pending(v)
      BY <1>1, <2>5 DEF Engaged, EngagementTypeOK, Pending, u
    <3> QED BY <2>1, <2>3, <3>1
  <2> QED BY <2>4, <2>5
<1> QED BY <1>3, <1>4 DEF Engaged, Admitted

(* An admission opens a window that was not open.                          *)
LEMMA OpenIsAdmitted ==
  ASSUME Engaged, NEW o \in Opens, NEW u \in Viewers, Open(o, u)
  PROVE  Engaged'
<1> DEFINE new == [viewer |-> u, counted |-> FALSE]
<1>1. /\ opening[o] = NoOpen /\ u \notin window
      /\ window' = window \cup {u}
      /\ opening' = [opening EXCEPT ![o] = new]
      /\ UNCHANGED <<views, seen, expired, counted, overwritten>>
  BY DEF Open, Proceed
<1>2. new \in OpenRecords /\ new # NoOpen /\ new.viewer = u /\ ~new.counted
  <2>1. new \in OpenRecords /\ new.viewer = u /\ ~new.counted
    BY DEF OpenRecords
  <2>2. NoOpen \notin OpenRecords
    BY EngagementAssumption DEF OpenRecords
  <2> QED BY <2>1, <2>2
<1> HIDE DEF new
<1>3. EngagementTypeOK' /\ KnownAreRemembered'
  BY <1>1, <1>2 DEF Engaged, EngagementTypeOK, KnownAreRemembered, OpenRecords
<1>4. ASSUME NEW v \in Viewers
      PROVE  counted'[v] + Cardinality(Pending(v)') <= Windows(v)'
  <2>1. /\ counted[v] + Cardinality(Pending(v)) <= Windows(v)
        /\ counted[v] \in Nat /\ Windows(v) \in Nat /\ counted' = counted
    BY <1>1 DEF Engaged, Admitted, Windows, EngagementTypeOK
  <2>2. IsFiniteSet(Pending(v)) /\ Cardinality(Pending(v)) \in Nat
    BY PendingIsFinite
  <2>3. CASE v = u
    <3>1. Pending(v)' = Pending(v) \cup {o} /\ o \notin Pending(v)
      BY <1>1, <1>2, <2>3 DEF Pending, Engaged, EngagementTypeOK
    <3>2. Cardinality(Pending(v)') = Cardinality(Pending(v)) + 1
      BY <2>2, <3>1, FS_AddElement
    <3>3. Windows(v)' = Windows(v) + 1
      BY <1>1, <2>3 DEF Windows, Engaged, EngagementTypeOK
    <3> QED BY <2>1, <2>2, <3>2, <3>3
  <2>4. CASE v # u
    <3>1. Pending(v)' = Pending(v)
      BY <1>1, <1>2, <2>4 DEF Pending, Engaged, EngagementTypeOK
    <3>2. Windows(v)' = Windows(v)
      BY <1>1, <2>4 DEF Windows
    <3> QED BY <2>1, <3>1, <3>2
  <2> QED BY <2>3, <2>4
<1> QED BY <1>3, <1>4 DEF Engaged, Admitted

(* A window that ends has been one.                                        *)
LEMMA WindowEnds ==
  ASSUME Engaged, NEW u \in Viewers, Expire(u)
  PROVE  Engaged'
<1>1. /\ u \in window /\ window' = window \ {u} /\ expired[u] < MaxExpiries
      /\ expired' = [expired EXCEPT ![u] = expired[u] + 1]
      /\ UNCHANGED <<views, seen, opening, counted, overwritten>>
  BY DEF Expire
<1>2. EngagementTypeOK' /\ KnownAreRemembered'
  BY <1>1, EngagementAssumption DEF Engaged, EngagementTypeOK, KnownAreRemembered
<1>3. ASSUME NEW v \in Viewers
      PROVE  Pending(v)' = Pending(v) /\ Windows(v)' = Windows(v)
  BY <1>1 DEF Pending, Windows, Engaged, EngagementTypeOK
<1> QED BY <1>1, <1>2, <1>3 DEF Engaged, Admitted
-----------------------------------------------------------------------------
(* The invariant. *)

InstancesOK == instance \in [Requests -> Instances \cup {Idle}] /\ work \in 0 .. MaxWork

IInv == Engaged /\ ClaimsTypeOK /\ GeohashTypeOK /\ InstancesOK

LEMMA InvIsTyped == IInv => TypeOK
BY DEF IInv, Engaged, InstancesOK, TypeOK

LEMMA InitInv == Init => IInv
<1> SUFFICES ASSUME Init PROVE IInv
  OBVIOUS
<1>1. Engaged
  <2>1. EngagementTypeOK /\ KnownAreRemembered
    <3>1. 0 \in 0 .. MaxExpiries
      BY EngagementAssumption
    <3>2. EngagementTypeOK
      BY <3>1 DEF Init, EngagementInit, EngagementTypeOK
    <3>3. KnownAreRemembered
      BY DEF Init, EngagementInit, KnownAreRemembered
    <3> QED BY <3>2, <3>3
  <2>2. \A v \in Viewers : Pending(v) = {} /\ Windows(v) = 0 /\ counted[v] = 0
    BY DEF Init, EngagementInit, Pending, Windows
  <2> QED BY <2>1, <2>2, FS_EmptySet DEF Engaged, Admitted
<1>2. ClaimsTypeOK
  BY DEF Init, ClaimsInit, ClaimsTypeOK, Standings, Unread, References
<1>3. GeohashTypeOK
  BY DEF Init, GeohashInit, GeohashTypeOK, Anywhere
<1>4. InstancesOK
  BY UpkeepAssumption DEF Init, InstancesOK
<1> QED BY <1>1, <1>2, <1>3, <1>4 DEF IInv

(* What a request has in memory when it is ready to write.                 *)
LEMMA ReadyType ==
  ASSUME InstancesOK, NEW q \in Requests, instance[q] # Idle
  PROVE  /\ instance[q] \in Instances /\ instance[q].row \in Rows
         /\ instance[q].kind \in Kinds /\ instance[q].old \in SUBSET Refs
BY DEF InstancesOK, Instances

LEMMA HoldsInstance ==
  ASSUME InstancesOK, NEW q \in Requests, NEW i \in Instances \cup {Idle},
         instance' = [instance EXCEPT ![q] = i], work' \in 0 .. MaxWork
  PROVE  InstancesOK'
BY DEF InstancesOK

LEMMA BeginWorkType == ASSUME InstancesOK, BeginWork PROVE work' \in 0 .. MaxWork
BY UpkeepAssumption DEF InstancesOK, BeginWork

LEMMA EngagedStutters == ASSUME Engaged, UNCHANGED engagementVars PROVE Engaged'
BY EngagedIsKept DEF engagementVars, Engaged, EngagementTypeOK

LEMMA ClaimsStutter == ASSUME ClaimsTypeOK, UNCHANGED claimsVars PROVE ClaimsTypeOK'
BY DEF claimsVars, ClaimsTypeOK

LEMMA GeohashStutters == ASSUME GeohashTypeOK, UNCHANGED geohashVars PROVE GeohashTypeOK'
BY DEF geohashVars, GeohashTypeOK

(* The request, from its read to its write or its rollback.                *)
LEMMA LoadInv ==
  ASSUME IInv, NEW q \in Requests, NEW kind \in Kinds, Load(q, kind) PROVE IInv'
<1>1. Engaged' /\ ClaimsTypeOK' /\ GeohashTypeOK'
  BY EngagedStutters, ClaimsStutter, GeohashStutters DEF IInv, Load
<1>2. PICK r \in Changed(kind) :
        instance' = [instance EXCEPT ![q] =
          [kind |-> kind, row |-> r, known |-> kind = "erase",
           old |-> IF kind = "erase" THEN Current ELSE {}]]
  BY DEF Load
<1>3. r \in Rows
  BY ChangedType, InvIsTyped
<1>4. Current \in SUBSET Refs
  BY CurrentType DEF IInv
<1> DEFINE i == [kind |-> kind, row |-> r, known |-> kind = "erase",
                 old |-> IF kind = "erase" THEN Current ELSE {}]
<1>5. i \in Instances
  BY <1>3, <1>4 DEF Instances
<1>6. instance' = [instance EXCEPT ![q] = i]
  BY <1>2
<1> HIDE DEF i
<1>7. InstancesOK'
  BY <1>5, <1>6, HoldsInstance, BeginWorkType DEF Load, IInv
<1> QED BY <1>1, <1>7 DEF IInv

LEMMA BaselineInv == ASSUME IInv, NEW q \in Requests, Baseline(q) PROVE IInv'
<1>1. Engaged' /\ ClaimsTypeOK' /\ GeohashTypeOK'
  BY EngagedStutters, ClaimsStutter, GeohashStutters DEF IInv, Baseline
<1> DEFINE i == [kind |-> instance[q].kind, row |-> instance[q].row,
                 known |-> TRUE, old |-> Current]
<1>2. i \in Instances
  BY ReadyType, CurrentType DEF Baseline, IInv, Instances
<1>3. instance' = [instance EXCEPT ![q] = i] /\ work' = work
  BY DEF Baseline
<1> HIDE DEF i
<1>4. InstancesOK'
  BY <1>2, <1>3, HoldsInstance DEF IInv, InstancesOK
<1> QED BY <1>1, <1>4 DEF IInv

LEMMA FinishType == ASSUME InstancesOK, NEW q \in Requests, Finish(q) PROVE InstancesOK'
BY HoldsInstance DEF Finish, InstancesOK

LEMMA WriteRowInv == ASSUME IInv, NEW q \in Requests, WriteRow(q) PROVE IInv'
<1> DEFINE r == instance[q].row
<1>1. r \in Rows /\ instance[q].old \in SUBSET Refs
  BY ReadyType DEF WriteRow, Ready, IInv
<1>2. /\ WriteRefs(r.images, r.draft, r.standing) /\ Say(instance[q].old, ClaimsOf(r))
      /\ WriteViews(r.views) /\ Finish(q)
      /\ \E g \in ComputeGeohashDraft(r.place, r.geo) :
           WritePlaces(r.place, g, r.publicPlace, r.publicGeo)
  BY DEF WriteRow
<1> HIDE DEF r
<1>3. Engaged'
  BY <1>1, <1>2, EngagedIsKept DEF WriteViews, IInv, Engaged, EngagementTypeOK, Rows
<1>4. ClaimsTypeOK'
  <2>1. unsaid \in Seq(Differences)
    BY DEF IInv, ClaimsTypeOK, Differences
  <2>2. ClaimsOf(r) \in SUBSET Refs
    BY <1>1, ClaimsOfType
  <2>3. unsaid' \in Seq(Differences)
    BY <1>1, <1>2, <2>1, <2>2, SayType
  <2> QED BY <1>1, <1>2, <2>3 DEF WriteRefs, IInv, ClaimsTypeOK, Differences, Rows
<1>5. GeohashTypeOK'
  BY <1>1, <1>2 DEF WritePlaces, ComputeGeohashDraft, Encode, IInv, GeohashTypeOK, Rows, Anywhere
<1> QED BY <1>2, <1>3, <1>4, <1>5, FinishType DEF IInv

LEMMA WriteStandingInv ==
  ASSUME IInv, NEW q \in Requests, WriteStanding(q) \/ RollBack(q) PROVE IInv'
<1> DEFINE r == instance[q].row
<1>1. r \in Rows /\ instance[q].old \in SUBSET Refs
  BY ReadyType DEF WriteStanding, RollBack, Ready, IInv
<1>2. /\ \/ UNCHANGED claimsVars
         \/ /\ \E s \in {r.standing, standing} : WriteRefs(images, draft, s)
            /\ Say(instance[q].old, ClaimsOf(r))
      /\ Finish(q)
      /\ seen' \in {{}, seen}
      /\ UNCHANGED <<views, window, opening, expired, counted, overwritten, geohashVars>>
  BY DEF WriteStanding, RollBack, engagementVars, WriteRefs
<1> HIDE DEF r
<1>3. Engaged'
  BY <1>2, EngagedIsKept DEF IInv, Engaged, EngagementTypeOK
<1>4. ClaimsTypeOK'
  <2>1. CASE UNCHANGED claimsVars
    BY <2>1, ClaimsStutter DEF IInv
  <2>2. ASSUME NEW s \in {r.standing, standing}, WriteRefs(images, draft, s),
               Say(instance[q].old, ClaimsOf(r))
        PROVE  ClaimsTypeOK'
    <3>1. unsaid \in Seq(Differences)
      BY DEF IInv, ClaimsTypeOK, Differences
    <3>2. ClaimsOf(r) \in SUBSET Refs
      BY <1>1, ClaimsOfType
    <3>3. unsaid' \in Seq(Differences)
      BY <1>1, <2>2, <3>1, <3>2, SayType
    <3>4. s \in Standings
      BY <1>1, <2>2 DEF Rows, IInv, ClaimsTypeOK
    <3> QED BY <2>2, <3>3, <3>4 DEF WriteRefs, IInv, ClaimsTypeOK, Differences
  <2> QED BY <1>2, <2>1, <2>2
<1>5. GeohashTypeOK'
  BY <1>2, GeohashStutters DEF IInv
<1> QED BY <1>2, <1>3, <1>4, <1>5, FinishType DEF IInv

LEMMA StampingType ==
  ASSUME GeohashTypeOK, NEW pair \in {"draft", "public"}, NEW there \in BOOLEAN,
         BackfillRead(pair) \/ BackfillFlush(pair, there)
  PROVE  GeohashTypeOK'
BY DEF GeohashTypeOK, BackfillRead, BackfillFlush, Anywhere

LEMMA NextInv == IInv /\ [Next]_vars => IInv'
<1> SUFFICES ASSUME IInv, [Next]_vars PROVE IInv'
  OBVIOUS
<1>0. Engaged /\ EngagementTypeOK /\ ClaimsTypeOK /\ GeohashTypeOK /\ InstancesOK
  BY DEF IInv, Engaged
<1>1. ASSUME NEW q \in Requests,
             \/ \E kind \in Kinds : Load(q, kind)
             \/ Baseline(q) \/ WriteRow(q) \/ WriteStanding(q) \/ RollBack(q)
      PROVE  IInv'
  BY <1>1, LoadInv, BaselineInv, WriteRowInv, WriteStandingInv
<1>2. ASSUME NEW o \in Opens, NEW v \in Viewers, OpenPage(o, v) PROVE IInv'
  <2>1. Engaged'
    BY <1>0, <1>2, OpenIsAdmitted DEF OpenPage
  <2>2. InstancesOK'
    BY <1>0, <1>2, BeginWorkType DEF OpenPage, InstancesOK
  <2> QED BY <1>0, <1>2, <2>1, <2>2, ClaimsStutter, GeohashStutters DEF OpenPage, IInv
<1>3. ASSUME NEW v \in Viewers, Lapse(v) PROVE IInv'
  <2>1. Engaged'
    BY <1>0, <1>3, WindowEnds DEF Lapse
  <2> QED BY <1>0, <1>3, <2>1, ClaimsStutter, GeohashStutters DEF Lapse, IInv, InstancesOK
<1>4. CASE Engage
  <2>1. Engaged'
    <3>1. \E o \in Opens : Count(o) \/ Remember(o) \/ Fail(o)
      BY <1>4 DEF Engage, EngagementStep
    <3> QED BY <1>0, <3>1, CountOfOpen, EndOfOpen
  <2> QED BY <1>0, <1>4, <2>1, ClaimsStutter, GeohashStutters DEF Engage, IInv, InstancesOK
<1>5. CASE Keep
  BY <1>0, <1>5, ClaimsStepType, EngagedStutters, GeohashStutters DEF Keep, IInv, InstancesOK
<1>6. CASE BeginRetype \/ BeginClaiming
  <2>1. InstancesOK'
    BY <1>0, <1>6, BeginWorkType DEF BeginRetype, BeginClaiming, InstancesOK
  <2> QED
    BY <1>0, <1>6, <2>1, ClaimsStepType, EngagedStutters, GeohashStutters
       DEF BeginRetype, BeginClaiming, IInv
<1>7. ASSUME NEW pair \in {"draft", "public"}, BeginStamping(pair) \/ Stamp(pair) PROVE IInv'
  <2>1. InstancesOK'
    BY <1>0, <1>7, BeginWorkType DEF BeginStamping, Stamp, InstancesOK
  <2>2. GeohashTypeOK'
    BY <1>0, <1>7, StampingType DEF BeginStamping, Stamp
  <2> QED
    BY <1>0, <1>7, <2>1, <2>2, EngagedStutters, ClaimsStutter DEF BeginStamping, Stamp, IInv
<1>8. CASE UNCHANGED vars
  BY <1>0, <1>8, EngagedStutters, ClaimsStutter, GeohashStutters DEF vars, IInv, InstancesOK
<1> QED BY <1>1, <1>2, <1>3, <1>4, <1>5, <1>6, <1>7, <1>8 DEF Next

THEOREM Inv == Spec => []IInv
<1>1. Init => IInv
  BY InitInv
<1>2. IInv /\ [Next]_vars => IInv'
  BY NextInv
<1> QED BY <1>1, <1>2, PTL DEF Spec

-----------------------------------------------------------------------------
(* The theorems. *)

(* Rows, instances and what is under way keep their types, whoever writes  *)
(* between whose read and write.                                           *)
THEOREM UpkeepTypeCorrect == Spec => []TypeOK
BY InvIsTyped, Inv, PTL

(* However opens of one viewer overlap and whichever of them fail, a       *)
(* window counts once.                                                     *)
THEOREM WindowsCountOnce == Spec => []AtMostOneCountPerWindow
<1>1. IInv => AtMostOneCountPerWindow
  <2> SUFFICES ASSUME IInv, NEW v \in Viewers PROVE counted[v] <= expired[v] + 1
    BY DEF AtMostOneCountPerWindow
  <2>1. /\ counted[v] \in Nat /\ expired[v] \in Nat
        /\ counted[v] + Cardinality(Pending(v)) <= Windows(v)
    BY DEF IInv, Engaged, Admitted, EngagementTypeOK
  <2>2. Cardinality(Pending(v)) \in Nat
    BY PendingIsFinite
  <2> QED BY <2>1, <2>2 DEF Windows
<1> QED BY <1>1, Inv, PTL

-----------------------------------------------------------------------------
(* The count and its floor.  An instance holds a count of the past, which  *)
(* is no more than there have been opens since; so a save that puts it     *)
(* back only lowers the count.                                             *)
CountsOfThePast ==
  \A q \in Requests : instance[q] # Idle => instance[q].row.views <= Counted

(* A viewer is about to be remembered only once counted.                   *)
RememberedAfter ==
  \A o \in Opens : opening[o] # NoOpen /\ opening[o].counted => counted[opening[o].viewer] > 0

Floor == IsFiniteSet(CountedOpens) /\ CountIsAFloor /\ CountsOfThePast /\ RememberedAfter

LEMMA CountedType == ASSUME IsFiniteSet(CountedOpens) PROVE Counted \in Nat
BY FS_CardinalityType DEF Counted

LEMMA ChangedKeepsViews ==
  ASSUME TypeOK, NEW kind \in Kinds, NEW r \in Changed(kind)
  PROVE  r.views = views
<1>0. Row \in Rows /\ Row.views = views
  BY RowType DEF Row
<1>1. CASE kind = "save"
  <2>1. \/ \E d \in SUBSET Refs : r = [Row EXCEPT !.draft = d]
        \/ \E p \in Anywhere : r = [Row EXCEPT !.place = p]
    BY <1>1 DEF Changed
  <2> QED BY <1>0, <2>1 DEF Rows
<1>2. CASE kind = "publish"
  <2>1. r = [Row EXCEPT !.images = draft, !.publicPlace = place, !.publicGeo = geo]
    BY <1>2 DEF Changed
  <2> QED BY <1>0, <2>1 DEF Rows
<1>3. CASE kind \in {"delete", "restore", "erase"}
  <2>1. \E s \in Standings : r = [Row EXCEPT !.standing = s]
    BY <1>3 DEF Changed, Standings
  <2> QED BY <1>0, <2>1 DEF Rows
<1> QED BY <1>1, <1>2, <1>3 DEF Kinds

(* An open that is counted raises both, and no other step raises the count.*)
LEMMA CountRaisesBoth ==
  ASSUME IInv, Floor, NEW o \in Opens, Count(o), UNCHANGED instance
  PROVE  Floor'
<1> DEFINE u == opening[o].viewer
<1>1. /\ u \in Viewers /\ counted \in [Viewers -> Nat] /\ views \in Nat
      /\ counted' = [counted EXCEPT ![u] = counted[u] + 1]
      /\ views' = views + 1
      /\ UNCHANGED <<window, seen, expired, overwritten>>
      /\ seen \subseteq Viewers
  BY EngagementAssumption DEF Count, IInv, Engaged, EngagementTypeOK
<1>2. opening' = [opening EXCEPT ![o] = IF u \in SignedIn
                    THEN [viewer |-> u, counted |-> TRUE] ELSE NoOpen]
  BY DEF Count, Proceed
<1>3. opening \in [Opens -> OpenRecords \cup {NoOpen}]
  BY DEF IInv, Engaged, EngagementTypeOK, OpenRecords
<1> HIDE DEF u
<1>4. CountedOpens' = CountedOpens \cup {<<u, counted[u] + 1>>}
  BY <1>1 DEF CountedOpens
<1>5. <<u, counted[u] + 1>> \notin CountedOpens
  BY <1>1 DEF CountedOpens
<1>6. IsFiniteSet(CountedOpens') /\ Counted' = Counted + 1 /\ Counted \in Nat
  BY <1>4, <1>5, FS_AddElement, CountedType DEF Floor, Counted
<1>7. CountIsAFloor'
  BY <1>1, <1>6 DEF Floor, CountIsAFloor
<1>8. CountsOfThePast'
  <2>1. \A q \in Requests : instance[q] # Idle => instance[q].row.views \in Nat
    BY ReadyType DEF IInv, Rows
  <2> QED BY <1>6, <2>1 DEF Floor, CountsOfThePast
<1>9. RememberedAfter'
  <2> SUFFICES ASSUME NEW p \in Opens, opening'[p] # NoOpen, opening'[p].counted
               PROVE  counted'[opening'[p].viewer] > 0
    BY DEF RememberedAfter
  <2>1. CASE p = o
    <3>1. opening'[p].viewer = u
      BY <1>2, <1>3, <2>1
    <3> QED BY <1>1, <3>1
  <2>2. CASE p # o
    <3>1. opening'[p] = opening[p] /\ opening[p].viewer \in Viewers
      BY <1>2, <1>3, <2>2 DEF OpenRecords
    <3>2. counted[opening[p].viewer] > 0
      BY <3>1 DEF Floor, RememberedAfter
    <3> QED BY <1>1, <3>1, <3>2
  <2> QED BY <2>1, <2>2
<1> QED BY <1>6, <1>7, <1>8, <1>9 DEF Floor

(* The steps that count nothing: what is still to be shown of each.        *)
LEMMA FloorIsKept ==
  ASSUME Floor, UNCHANGED counted,
         CountIsAFloor', CountsOfThePast', RememberedAfter'
  PROVE  Floor'
BY DEF Floor, CountedOpens

LEMMA FloorStutters ==
  ASSUME Floor, UNCHANGED engagementVars, UNCHANGED instance
  PROVE  Floor'
BY DEF Floor, engagementVars, CountedOpens, Counted, CountIsAFloor, CountsOfThePast,
       RememberedAfter

LEMMA FloorOfRequest ==
  ASSUME IInv, Floor, NEW q \in Requests,
         \/ \E kind \in Kinds : Load(q, kind)
         \/ Baseline(q) \/ WriteRow(q) \/ WriteStanding(q) \/ RollBack(q)
  PROVE  Floor'
<1>1. counted' = counted /\ opening' = opening /\ Counted' = Counted /\ RememberedAfter'
  BY DEF Load, Baseline, WriteRow, WriteViews, WriteStanding, RollBack, engagementVars,
         Floor, RememberedAfter, Counted, CountedOpens
<1>2. /\ Counted \in Nat /\ views \in Nat /\ instance \in [Requests -> Instances \cup {Idle}]
      /\ overwritten \in BOOLEAN
  BY CountedType DEF Floor, IInv, Engaged, EngagementTypeOK, InstancesOK
<1>3. ASSUME NEW i \in {Idle} \cup {j \in Instances : j.row.views <= Counted},
             instance' = [instance EXCEPT ![q] = i]
      PROVE  CountsOfThePast'
  <2>1. \A p \in Requests : instance'[p] = IF p = q THEN i ELSE instance[p]
    BY <1>2, <1>3
  <2> QED BY <1>1, <1>3, <2>1 DEF CountsOfThePast, Floor
<1>4. ASSUME NEW kind \in Kinds, Load(q, kind) PROVE Floor'
  <2>1. PICK r \in Changed(kind) :
          instance' = [instance EXCEPT ![q] =
            [kind |-> kind, row |-> r, known |-> kind = "erase",
             old |-> IF kind = "erase" THEN Current ELSE {}]]
    BY <1>4 DEF Load
  <2> DEFINE i == [kind |-> kind, row |-> r, known |-> kind = "erase",
                   old |-> IF kind = "erase" THEN Current ELSE {}]
  <2>2. r.views <= Counted
    BY ChangedKeepsViews, InvIsTyped DEF Floor, CountIsAFloor
  <2>3. i \in Instances /\ i.row = r
    BY InvIsTyped, ChangedType, CurrentType DEF IInv, Instances
  <2>4. instance' = [instance EXCEPT ![q] = i]
    BY <2>1
  <2> HIDE DEF i
  <2>5. CountsOfThePast'
    BY <1>3, <2>2, <2>3, <2>4
  <2>6. CountIsAFloor'
    BY <1>1, <1>4 DEF Load, engagementVars, Floor, CountIsAFloor
  <2> QED BY <1>1, <2>5, <2>6, FloorIsKept
<1>5. CASE Baseline(q)
  <2> DEFINE i == [kind |-> instance[q].kind, row |-> instance[q].row,
                   known |-> TRUE, old |-> Current]
  <2>1. i \in Instances /\ i.row = instance[q].row /\ instance[q] # Idle
    BY <1>5, ReadyType, CurrentType DEF Baseline, IInv, Instances
  <2>2. i.row.views <= Counted
    BY <2>1 DEF Floor, CountsOfThePast
  <2>3. instance' = [instance EXCEPT ![q] = i]
    BY <1>5 DEF Baseline
  <2> HIDE DEF i
  <2>4. CountsOfThePast'
    BY <1>3, <2>1, <2>2, <2>3
  <2>5. CountIsAFloor'
    BY <1>1, <1>5 DEF Baseline, engagementVars, Floor, CountIsAFloor
  <2> QED BY <1>1, <2>4, <2>5, FloorIsKept
<1>6. ASSUME Finish(q) PROVE CountsOfThePast'
  BY <1>3, <1>6 DEF Finish
<1>7. CASE WriteRow(q)
  <2>1. /\ views' = instance[q].row.views /\ seen' = seen
        /\ overwritten' = (overwritten \/ instance[q].row.views # views)
        /\ instance[q] # Idle /\ Finish(q)
    BY <1>7 DEF WriteRow, WriteViews, Ready
  <2>2. views' <= Counted
    BY <2>1 DEF Floor, CountsOfThePast
  <2>3. CountIsAFloor'
    BY <1>1, <2>1, <2>2 DEF Floor, CountIsAFloor
  <2> QED BY <1>1, <1>6, <2>1, <2>3, FloorIsKept
<1>8. CASE WriteStanding(q) \/ RollBack(q)
  <2>1. /\ UNCHANGED <<views, overwritten>> /\ seen' \in {{}, seen} /\ Finish(q)
    BY <1>8 DEF WriteStanding, RollBack, engagementVars
  <2>2. CountIsAFloor'
    BY <1>1, <2>1 DEF Floor, CountIsAFloor
  <2> QED BY <1>1, <1>6, <2>1, <2>2, FloorIsKept
<1> QED BY <1>4, <1>5, <1>7, <1>8

LEMMA FloorNext == ASSUME IInv, Floor, [Next]_vars PROVE Floor'
<1>0. opening \in [Opens -> OpenRecords \cup {NoOpen}]
  BY DEF IInv, Engaged, EngagementTypeOK, OpenRecords
<1>1. ASSUME NEW q \in Requests,
             \/ \E kind \in Kinds : Load(q, kind)
             \/ Baseline(q) \/ WriteRow(q) \/ WriteStanding(q) \/ RollBack(q)
      PROVE  Floor'
  BY <1>1, FloorOfRequest
<1>2. ASSUME NEW o \in Opens, NEW to \in OpenRecords \cup {NoOpen},
             opening' = [opening EXCEPT ![o] = to], to = NoOpen \/ ~to.counted,
             UNCHANGED <<views, counted, overwritten, instance>>,
             \A v \in seen' : counted[v] > 0
      PROVE  Floor'
  <2>1. CountIsAFloor' /\ CountsOfThePast'
    BY <1>2 DEF Floor, CountIsAFloor, CountsOfThePast, Counted, CountedOpens
  <2>2. RememberedAfter'
    BY <1>0, <1>2 DEF Floor, RememberedAfter
  <2> QED BY <1>2, <2>1, <2>2, FloorIsKept
<1>3. ASSUME NEW o \in Opens, NEW v \in Viewers, OpenPage(o, v) PROVE Floor'
  <2> DEFINE to == [viewer |-> v, counted |-> FALSE]
  <2>1. to \in OpenRecords /\ ~to.counted
    BY DEF OpenRecords
  <2>2. /\ opening' = [opening EXCEPT ![o] = to]
        /\ UNCHANGED <<views, seen, counted, overwritten, instance>>
    BY <1>3 DEF OpenPage, Open, Proceed
  <2> HIDE DEF to
  <2> QED BY <1>2, <2>1, <2>2 DEF Floor, CountIsAFloor
<1>4. CASE Engage
  <2>1. PICK o \in Opens : (Count(o) \/ Remember(o) \/ Fail(o)) /\ UNCHANGED instance
    BY <1>4 DEF Engage, EngagementStep
  <2>2. CASE Count(o)
    BY <2>1, <2>2, CountRaisesBoth
  <2>3. CASE Remember(o)
    <3>1. counted[opening[o].viewer] > 0
      BY <2>3 DEF Remember, Floor, RememberedAfter
    <3> QED BY <1>2, <2>1, <2>3, <3>1 DEF Remember, Proceed, Floor, CountIsAFloor
  <2>4. CASE Fail(o)
    BY <1>2, <2>1, <2>4 DEF Fail, Proceed, Floor, CountIsAFloor
  <2> QED BY <2>1, <2>2, <2>3, <2>4
<1>5. ASSUME NEW v \in Viewers, Lapse(v) PROVE Floor'
  <2>1. UNCHANGED <<views, seen, opening, counted, overwritten, instance>>
    BY <1>5 DEF Lapse, Expire
  <2> QED
    BY <2>1 DEF Floor, CountedOpens, Counted, CountIsAFloor, CountsOfThePast, RememberedAfter
<1>6. CASE UNCHANGED <<engagementVars, instance>>
  BY <1>6, FloorStutters
<1>7. \/ \E q \in Requests :
           \/ \E kind \in Kinds : Load(q, kind)
           \/ Baseline(q) \/ WriteRow(q) \/ WriteStanding(q) \/ RollBack(q)
      \/ \E o \in Opens, v \in Viewers : OpenPage(o, v)
      \/ \E v \in Viewers : Lapse(v)
      \/ Engage
      \/ UNCHANGED <<engagementVars, instance>>
  BY DEF Next, vars, Keep, BeginRetype, BeginClaiming, BeginStamping, Stamp
<1> QED BY <1>1, <1>3, <1>4, <1>5, <1>6, <1>7

LEMMA FloorInit == Init => Floor
<1> SUFFICES ASSUME Init PROVE Floor
  OBVIOUS
<1>1. CountedOpens = {}
  BY DEF Init, EngagementInit, CountedOpens
<1>2. IsFiniteSet(CountedOpens) /\ Counted = 0
  BY <1>1, FS_EmptySet DEF Counted
<1> QED
  BY <1>2 DEF Init, EngagementInit, Floor, CountIsAFloor, CountsOfThePast, RememberedAfter

(* No race, failure or save makes the count more than the opens that were  *)
(* counted, and only a save of the whole row makes it less.                *)
THEOREM TheCountIsAFloor == Spec => []CountIsAFloor
<1>1. IInv /\ Floor /\ [Next]_vars => Floor'
  BY FloorNext
<1>2. Floor => CountIsAFloor
  BY DEF Floor
<1> QED BY <1>1, <1>2, FloorInit, Inv, PTL DEF Spec

-----------------------------------------------------------------------------
Excused ==
  \/ WellPlaced'
  \/ LateStamp
  \/ \E q \in Requests :
       WriteRow(q) /\ Misplaced(instance[q].row.publicPlace, instance[q].row.publicGeo)

LEMMA StepPlaces ==
  ASSUME IInv, [Next]_vars, WellPlaced
  PROVE  Excused
<1>1. CASE UNCHANGED <<place, geo, publicPlace, publicGeo>>
  BY <1>1 DEF Excused, WellPlaced, Misplaced
<1>2. ASSUME NEW q \in Requests, WriteRow(q)
      PROVE  \/ WellPlaced'
             \/ Misplaced(instance[q].row.publicPlace, instance[q].row.publicGeo)
  <2> DEFINE r == instance[q].row
  <2>1. PICK g \in {r.place, NoPlace} : WritePlaces(r.place, g, r.publicPlace, r.publicGeo)
    BY <1>2 DEF WriteRow, ComputeGeohashDraft, Encode
  <2> QED BY <2>1 DEF WritePlaces, WellPlaced, Misplaced
<1>3. ASSUME NEW pair \in {"draft", "public"}, Stamp(pair)
      PROVE  WellPlaced' \/ LateStamp
  <2>1. CASE standing = "gone"
    BY <1>3, <2>1 DEF Stamp, BackfillFlush, WellPlaced, Misplaced
  <2>2. CASE standing # "gone"
    <3>1. BackfillFlush(pair, TRUE)
      BY <1>3, <2>2 DEF Stamp
    <3>2. CASE pair = "draft" /\ place = batch["draft"]
      BY <3>1, <3>2 DEF BackfillFlush, WellPlaced, Misplaced
    <3>3. CASE pair = "public" /\ publicPlace = batch["public"]
      BY <3>1, <3>3 DEF BackfillFlush, WellPlaced, Misplaced
    <3> QED BY <3>1, <3>2, <3>3 DEF LateStamp
  <2> QED BY <2>1, <2>2
<1>4. \/ UNCHANGED <<place, geo, publicPlace, publicGeo>>
      \/ \E q \in Requests : WriteRow(q)
      \/ \E pair \in {"draft", "public"} : Stamp(pair)
  BY DEF Next, vars, geohashVars, Load, Baseline, WriteStanding, RollBack, OpenPage, Lapse,
         Engage, Keep, BeginRetype, BeginClaiming, BeginStamping, BackfillRead
<1> QED BY <1>1, <1>2, <1>3, <1>4 DEF Excused

(* A geohash names another place than the coordinates next to it only      *)
(* after a late stamp of the backfill, or a request that read one.         *)
THEOREM OnlyLateStamps == Spec => OnlyALateStampMisplaces
<1>1. IInv /\ [Next]_vars => [WellPlaced => Excused]_vars
  BY StepPlaces
<1> QED BY <1>1, Inv, PTL DEF Spec, OnlyALateStampMisplaces, Excused

-----------------------------------------------------------------------------
(* The claims.  A difference joins those unsaid at the end; announced, it  *)
(* takes effect before all the others.                                     *)
LEMMA SayMovesWillHold ==
  ASSUME ClaimsTypeOK, NEW old \in SUBSET Refs, NEW new \in SUBSET Refs,
         Say(old, new), claims' = claims
  PROVE  WillHold' = RefSync(WillHold, [old |-> old, new |-> new])
<1>0. unsaid \in Seq(Differences)
  BY DEF ClaimsTypeOK, Differences
<1>1. CASE old = new
  BY <1>1 DEF Say, WillHold, KeptAfter, RefSync
<1>2. CASE old # new
  <2> DEFINE d == [old |-> old, new |-> new]
  <2>1. d \in Differences /\ unsaid' = Append(unsaid, d) /\ d.old = old /\ d.new = new
    BY <1>2 DEF Say, Differences
  <2> HIDE DEF d
  <2>2. /\ Len(unsaid) \in Nat /\ Len(unsaid') = Len(unsaid) + 1
        /\ DOMAIN unsaid = 1 .. Len(unsaid) /\ DOMAIN unsaid' = 1 .. Len(unsaid) + 1
        /\ \A j \in 1 .. Len(unsaid) : unsaid'[j] = unsaid[j]
        /\ unsaid'[Len(unsaid) + 1] = d
    BY <1>0, <2>1
  <2> SUFFICES ASSUME NEW r \in Refs
               PROVE  r \in WillHold' <=>
                        (r \in WillHold /\ r \notin old \ new) \/ r \in new \ old
    BY DEF RefSync, WillHold
  <2>3. \A k \in 0 .. Len(unsaid) :
          KeptAfter(k, r)' <=> KeptAfter(k, r) /\ r \notin old \ new
    BY <2>1, <2>2 DEF KeptAfter
  <2>4. KeptAfter(Len(unsaid) + 1, r)'
    BY <2>2 DEF KeptAfter
  <2>5. r \in WillHold' <=>
          \/ r \in claims /\ KeptAfter(0, r)'
          \/ \E k \in 1 .. Len(unsaid) :
               r \in unsaid[k].new \ unsaid[k].old /\ KeptAfter(k, r)'
          \/ r \in new \ old
    <3> DEFINE Lasts(k) == r \in unsaid'[k].new \ unsaid'[k].old /\ KeptAfter(k, r)'
    <3>1. r \in WillHold' <=> \/ r \in claims /\ KeptAfter(0, r)'
                              \/ \E k \in DOMAIN unsaid' : Lasts(k)
      BY DEF WillHold
    <3>2. Lasts(Len(unsaid) + 1) <=> r \in new \ old
      BY <2>1, <2>2, <2>4
    <3>3. \A k \in 1 .. Len(unsaid) :
            Lasts(k) <=> r \in unsaid[k].new \ unsaid[k].old /\ KeptAfter(k, r)'
      BY <2>2
    <3> HIDE DEF Lasts
    <3>4. (\E k \in DOMAIN unsaid' : Lasts(k)) <=>
            (\E k \in 1 .. Len(unsaid) : Lasts(k)) \/ Lasts(Len(unsaid) + 1)
      BY <2>2
    <3> QED BY <3>1, <3>2, <3>3, <3>4
  <2> QED BY <2>2, <2>3, <2>5 DEF WillHold
<1> QED BY <1>1, <1>2

LEMMA RemoveAtEntries ==
  ASSUME NEW S, NEW s \in Seq(S), NEW k \in DOMAIN s
  PROVE  /\ Len(s) \in Nat /\ k \in 1 .. Len(s)
         /\ Len(RemoveAt(s, k)) = Len(s) - 1
         /\ \A j \in 1 .. k - 1 : RemoveAt(s, k)[j] = s[j]
         /\ \A j \in k .. Len(s) - 1 : RemoveAt(s, k)[j] = s[j + 1]
<1>1. k \in 1 .. Len(s) /\ Len(s) \in Nat
  OBVIOUS
<1> DEFINE a == SubSeq(s, 1, k - 1)
<1> DEFINE b == SubSeq(s, k + 1, Len(s))
<1>2. /\ a \in Seq(S) /\ Len(a) = k - 1 /\ \A j \in 1 .. k - 1 : a[j] = s[j]
  BY <1>1
<1>3. /\ b \in Seq(S) /\ Len(b) = Len(s) - k
      /\ \A j \in 1 .. Len(s) - k : b[j] = s[k + j]
  BY <1>1
<1>4. RemoveAt(s, k) = a \o b
  BY DEF RemoveAt
<1> HIDE DEF a, b
<1>5. Len(a \o b) = Len(s) - 1
  BY <1>1, <1>2, <1>3
<1>6. \A j \in 1 .. k - 1 : (a \o b)[j] = s[j]
  BY <1>1, <1>2, <1>3
<1>7. ASSUME NEW j \in k .. Len(s) - 1
      PROVE  (a \o b)[j] = s[j + 1]
  <2>1. (a \o b)[j] = b[j - (k - 1)]
    BY <1>1, <1>2, <1>3
  <2>2. j - (k - 1) \in 1 .. Len(s) - k /\ k + (j - (k - 1)) = j + 1
    BY <1>1
  <2> QED BY <1>3, <2>1, <2>2
<1> QED BY <1>1, <1>4, <1>5, <1>6, <1>7

LEMMA AnnounceKeepsWillHold ==
  ASSUME ClaimsTypeOK, NEW k \in DOMAIN unsaid, Announce(k), ~Overtaken
  PROVE  WillHold' = WillHold
<1>1. unsaid \in Seq(Differences)
  BY DEF ClaimsTypeOK, Differences
<1> DEFINE n == Len(unsaid)
<1>2. /\ n \in Nat /\ k \in 1 .. n /\ DOMAIN unsaid = 1 .. n
      /\ Len(unsaid') = n - 1 /\ unsaid' \in Seq(Differences)
      /\ \A j \in 1 .. k - 1 : unsaid'[j] = unsaid[j]
      /\ \A j \in k .. n - 1 : unsaid'[j] = unsaid[j + 1]
  BY <1>1, RemoveAtEntries, RemoveType DEF Announce
<1>3. DOMAIN unsaid' = 1 .. n - 1
  BY <1>2
<1>4. \A j \in 1 .. k - 1 : ~Crosses(unsaid[j], unsaid[k])
  BY <1>2 DEF Announce, Overtaken
<1> HIDE DEF n
<1> SUFFICES ASSUME NEW r \in Refs PROVE r \in WillHold' <=> r \in WillHold
  BY DEF WillHold
<1> DEFINE Adds(j) == r \in unsaid[j].new \ unsaid[j].old
<1> DEFINE Drops(j) == r \in unsaid[j].old \ unsaid[j].new
<1>5. \A j \in 1 .. k - 1 : ~(Drops(j) /\ Adds(k)) /\ ~(Adds(j) /\ Drops(k))
  BY <1>4 DEF Crosses
<1>6. r \in claims' <=> (r \in claims /\ ~Drops(k)) \/ Adds(k)
  BY DEF Announce, RefSync
<1>7. r \in WillHold <=>
        \/ r \in claims /\ \A j \in 1 .. n : ~Drops(j)
        \/ \E i \in 1 .. n : Adds(i) /\ \A j \in i + 1 .. n : ~Drops(j)
  BY <1>2 DEF WillHold, KeptAfter, n
<1>8. r \in WillHold' <=>
        \/ r \in claims' /\ \A j \in 1 .. n : j # k => ~Drops(j)
        \/ \E i \in 1 .. n : i # k /\ Adds(i) /\ \A j \in i + 1 .. n : j # k => ~Drops(j)
  <2> DEFINE Adds1(j) == r \in unsaid'[j].new \ unsaid'[j].old
  <2> DEFINE Drops1(j) == r \in unsaid'[j].old \ unsaid'[j].new
  <2>1. r \in WillHold' <=>
          \/ r \in claims' /\ \A j \in 1 .. n - 1 : ~Drops1(j)
          \/ \E i \in 1 .. n - 1 : Adds1(i) /\ \A j \in i + 1 .. n - 1 : ~Drops1(j)
    BY <1>2, <1>3 DEF WillHold, KeptAfter
  <2>2. \A j \in 1 .. k - 1 : (Adds1(j) <=> Adds(j)) /\ (Drops1(j) <=> Drops(j))
    BY <1>2
  <2>3. \A j \in k .. n - 1 : (Adds1(j) <=> Adds(j + 1)) /\ (Drops1(j) <=> Drops(j + 1))
    BY <1>2
  <2> HIDE DEF Adds, Drops, Adds1, Drops1
  <2>4. ASSUME NEW i \in 0 .. k - 1
        PROVE  (\A j \in i + 1 .. n - 1 : ~Drops1(j)) <=>
               (\A j \in i + 1 .. n : j # k => ~Drops(j))
    <3>1. ASSUME \A j \in i + 1 .. n - 1 : ~Drops1(j), NEW j \in i + 1 .. n, j # k
          PROVE  ~Drops(j)
      <4>1. CASE j < k
        BY <1>2, <2>2, <3>1, <4>1
      <4>2. CASE j > k
        <5>1. j - 1 \in k .. n - 1 /\ j - 1 \in i + 1 .. n - 1 /\ (j - 1) + 1 = j
          BY <1>2, <4>2
        <5> QED BY <2>3, <3>1, <5>1
      <4> QED BY <1>2, <3>1, <4>1, <4>2
    <3>2. ASSUME \A j \in i + 1 .. n : j # k => ~Drops(j), NEW j \in i + 1 .. n - 1
          PROVE  ~Drops1(j)
      <4>1. CASE j < k
        BY <1>2, <2>2, <3>2, <4>1
      <4>2. CASE j >= k
        <5>1. j \in k .. n - 1 /\ j + 1 \in i + 1 .. n /\ j + 1 # k
          BY <1>2, <4>2
        <5> QED BY <2>3, <3>2, <5>1
      <4> QED BY <1>2, <4>1, <4>2
    <3> QED BY <3>1, <3>2
  <2>5. ASSUME NEW i \in k .. n - 1
        PROVE  (\A j \in i + 1 .. n - 1 : ~Drops1(j)) <=>
               (\A j \in i + 2 .. n : j # k => ~Drops(j))
    <3>1. ASSUME \A j \in i + 1 .. n - 1 : ~Drops1(j), NEW j \in i + 2 .. n
          PROVE  ~Drops(j)
      <4>1. j - 1 \in k .. n - 1 /\ j - 1 \in i + 1 .. n - 1 /\ (j - 1) + 1 = j
        BY <1>2
      <4> QED BY <2>3, <3>1, <4>1
    <3>2. ASSUME \A j \in i + 2 .. n : j # k => ~Drops(j), NEW j \in i + 1 .. n - 1
          PROVE  ~Drops1(j)
      <4>1. j \in k .. n - 1 /\ j + 1 \in i + 2 .. n /\ j + 1 # k
        BY <1>2
      <4> QED BY <2>3, <3>2, <4>1
    <3> QED BY <3>1, <3>2
  <2> DEFINE Stays1(i) == Adds1(i) /\ \A j \in i + 1 .. n - 1 : ~Drops1(j)
  <2> DEFINE Stays(i) == Adds(i) /\ \A j \in i + 1 .. n : j # k => ~Drops(j)
  <2>6. \A i \in 1 .. k - 1 : Stays1(i) <=> Stays(i)
    BY <1>2, <2>2, <2>4
  <2>7. \A i \in k .. n - 1 : Stays1(i) <=> Stays(i + 1)
    <3> SUFFICES ASSUME NEW i \in k .. n - 1 PROVE Stays1(i) <=> Stays(i + 1)
      OBVIOUS
    <3>1. (i + 1) + 1 = i + 2
      BY <1>2
    <3> QED BY <2>3, <2>5, <3>1
  <2>8. (\E i \in 1 .. n - 1 : Stays1(i)) <=> (\E i \in 1 .. n : i # k /\ Stays(i))
    <3> HIDE DEF Stays, Stays1
    <3>1. ASSUME NEW i \in 1 .. n - 1, Stays1(i)
          PROVE  \E x \in 1 .. n : x # k /\ Stays(x)
      <4>1. CASE i < k
        BY <1>2, <2>6, <3>1, <4>1
      <4>2. CASE i >= k
        <5>1. i \in k .. n - 1 /\ i + 1 \in 1 .. n /\ i + 1 # k
          BY <1>2, <4>2
        <5> QED BY <2>7, <3>1, <5>1
      <4> QED BY <1>2, <4>1, <4>2
    <3>2. ASSUME NEW x \in 1 .. n, x # k, Stays(x)
          PROVE  \E i \in 1 .. n - 1 : Stays1(i)
      <4>1. CASE x < k
        <5>1. x \in 1 .. k - 1 /\ x \in 1 .. n - 1
          BY <1>2, <4>1
        <5> QED BY <2>6, <3>2, <5>1
      <4>2. CASE x > k
        <5>1. x - 1 \in k .. n - 1 /\ x - 1 \in 1 .. n - 1 /\ (x - 1) + 1 = x
          BY <1>2, <4>2
        <5> QED BY <2>7, <3>2, <5>1
      <4> QED BY <1>2, <3>2, <4>1, <4>2
    <3> QED BY <3>1, <3>2
  <2>9. (\A j \in 1 .. n - 1 : ~Drops1(j)) <=> (\A j \in 1 .. n : j # k => ~Drops(j))
    <3>1. 0 \in 0 .. k - 1 /\ 0 + 1 = 1
      BY <1>2
    <3> QED BY <2>4, <3>1
  <2> QED BY <2>1, <2>8, <2>9
<1> HIDE DEF Adds, Drops
<1>9. ASSUME r \in WillHold' PROVE r \in WillHold
  <2>1. CASE r \in claims' /\ \A j \in 1 .. n : j # k => ~Drops(j)
    <3>1. CASE r \in claims /\ ~Drops(k)
      BY <1>7, <2>1, <3>1
    <3>2. CASE Adds(k)
      BY <1>2, <1>7, <2>1, <3>2
    <3> QED BY <1>6, <2>1, <3>1, <3>2
  <2>2. ASSUME NEW i \in 1 .. n, i # k, Adds(i), \A j \in i + 1 .. n : j # k => ~Drops(j)
        PROVE  r \in WillHold
    <3>1. i < k => ~Drops(k)
      BY <1>2, <1>5, <2>2
    <3>2. \A j \in i + 1 .. n : ~Drops(j)
      BY <1>2, <2>2, <3>1
    <3> QED BY <1>7, <2>2, <3>2
  <2> QED BY <1>8, <1>9, <2>1, <2>2
<1>10. ASSUME r \in WillHold PROVE r \in WillHold'
  <2>1. CASE r \in claims /\ \A j \in 1 .. n : ~Drops(j)
    BY <1>2, <1>6, <1>8, <2>1
  <2>2. ASSUME NEW i \in 1 .. n, Adds(i), \A j \in i + 1 .. n : ~Drops(j)
        PROVE  r \in WillHold'
    <3>1. CASE i = k
      <4>1. \A j \in 1 .. n : j # k => ~Drops(j)
        BY <1>2, <1>5, <2>2, <3>1
      <4> QED BY <1>6, <1>8, <2>2, <3>1, <4>1
    <3>2. CASE i # k
      BY <1>8, <2>2, <3>2
    <3> QED BY <3>1, <3>2
  <2> QED BY <1>7, <1>10, <2>1, <2>2
<1> QED BY <1>9, <1>10

(* A difference taken from the row as it stands brings the claims to what  *)
(* it says of the row.                                                     *)
LEMMA FreshDifference ==
  ASSUME ClaimsTypeOK, Settled, NEW new \in SUBSET Refs, Say(Current, new),
         claims' = claims, Current' = new
  PROVE  Settled'
<1>1. Current \in SUBSET Refs
  BY CurrentType
<1>2. WillHold' = RefSync(WillHold, [old |-> Current, new |-> new])
  BY <1>1, SayMovesWillHold
<1> QED BY <1>1, <1>2 DEF Settled, RefSync

Excusable ==
  \/ \E q \in Requests : StaleSave(q) \/ RollBack(q)
  \/ StaleRetype \/ StaleBackfill \/ Dropped \/ Overtaken

LEMMA RequestSettles ==
  ASSUME IInv, Settled, NEW q \in Requests, WriteRow(q) \/ WriteStanding(q), ~StaleSave(q)
  PROVE  Settled'
<1> DEFINE r == instance[q].row
<1>1. r \in Rows /\ ClaimsOf(r) \in SUBSET Refs /\ ClaimsTypeOK
  BY ReadyType, ClaimsOfType DEF WriteRow, WriteStanding, Ready, IInv
<1>2. CASE WriteRow(q)
  <2>1. /\ Say(Current, ClaimsOf(r)) /\ claims' = claims
        /\ images' = r.images /\ draft' = r.draft /\ standing' = r.standing
    BY <1>2 DEF WriteRow, StaleSave, WriteRefs
  <2>2. Current' = ClaimsOf(r)
    BY <2>1 DEF Current, ClaimsOf
  <2> QED BY <1>1, <2>1, <2>2, FreshDifference
<1>3. CASE WriteStanding(q)
  <2>1. instance[q].old = Current /\ ClaimsOf(r) = Current'
    BY <1>3 DEF StaleSave
  <2>2. CASE UNCHANGED claimsVars
    BY <2>2 DEF claimsVars, Settled, WillHold, KeptAfter, Current, ClaimsOf
  <2>3. CASE claims' = claims /\ Say(instance[q].old, ClaimsOf(r))
    BY <1>1, <2>1, <2>3, FreshDifference
  <2> QED BY <1>3, <2>2, <2>3 DEF WriteStanding, WriteRefs
<1> QED BY <1>2, <1>3

LEMMA KeepSettles ==
  ASSUME IInv, Settled, ClaimsStep, ~Excusable
  PROVE  Settled'
<1>0. ClaimsTypeOK
  BY DEF IInv
<1>1. ASSUME NEW k \in DOMAIN unsaid, Announce(k) PROVE Settled'
  <2>1. WillHold' = WillHold
    BY <1>0, <1>1, AnnounceKeepsWillHold DEF Excusable
  <2>2. Current' = Current
    BY <1>1 DEF Announce, Current, ClaimsOf
  <2> QED BY <2>1, <2>2 DEF Settled
<1>2. ASSUME NEW k \in DOMAIN unsaid, Drop(k) PROVE Dropped
  <2>1. unsaid \in Seq(Differences)
    BY <1>0 DEF ClaimsTypeOK, Differences
  <2> QED BY <1>2, <2>1, RemoveAtEntries DEF Drop, Dropped
<1>3. CASE RetypeWrite
  <2> DEFINE r == [images |-> images, draft |-> draft, standing |-> standing]
  <2>1. retyping = r /\ r \in References
    BY <1>0, <1>3 DEF Excusable, StaleRetype, ClaimsTypeOK, References
  <2>2. Retype(r) \in References /\ ClaimsOf(Retype(r)) \in SUBSET Refs
    BY <2>1, RetypeType
  <2>3. /\ Say(Current, ClaimsOf(Retype(r))) /\ claims' = claims /\ standing' = standing
        /\ standing # "gone" => images' = Retype(r).images /\ draft' = Retype(r).draft
    BY <1>3, <2>1 DEF RetypeWrite, Current
  <2>4. Retype(r).standing = standing
    BY <2>1 DEF Retype, References
  <2>5. Current' = ClaimsOf(Retype(r))
    BY <2>3, <2>4 DEF Current, ClaimsOf
  <2> QED BY <1>0, <2>2, <2>3, <2>5, FreshDifference
<1>4. CASE ClaimPublish
  <2>1. claiming \subseteq Current /\ unsaid = <<>>
    BY <1>4 DEF Excusable, StaleBackfill
  <2>2. /\ claims' \in {claims \cup claiming, claims} /\ unsaid' = unsaid
        /\ Current' = Current
    BY <1>4 DEF ClaimPublish, RefSync, Current, ClaimsOf
  <2>3. Len(unsaid) = 0 /\ DOMAIN unsaid = {} /\ claims \subseteq Refs /\ claims' \subseteq Refs
    BY <1>0, <2>1, <2>2 DEF ClaimsTypeOK
  <2>4. WillHold = claims /\ WillHold' = claims'
    BY <2>2, <2>3 DEF WillHold, KeptAfter
  <2> QED BY <2>1, <2>2, <2>4 DEF Settled
<1> QED BY <1>1, <1>2, <1>3, <1>4 DEF ClaimsStep, Excusable

LEMMA StepSettles ==
  ASSUME IInv, [Next]_vars, Settled
  PROVE  Settled' \/ Excusable
<1>1. CASE UNCHANGED <<images, draft, standing, claims, unsaid>>
  BY <1>1 DEF Settled, WillHold, KeptAfter, Current, ClaimsOf
<1>2. ASSUME NEW q \in Requests, WriteRow(q) \/ WriteStanding(q) \/ RollBack(q)
      PROVE  Settled' \/ Excusable
  BY <1>2, RequestSettles DEF Excusable
<1>3. CASE Keep
  BY <1>3, KeepSettles DEF Keep
<1>4. \/ UNCHANGED <<images, draft, standing, claims, unsaid>>
      \/ \E q \in Requests : WriteRow(q) \/ WriteStanding(q) \/ RollBack(q)
      \/ Keep
  BY DEF Next, vars, claimsVars, Load, Baseline, OpenPage, Lapse, Engage,
         BeginRetype, BeginClaiming, RetypeRead, ClaimRead, BeginStamping, Stamp
<1> QED BY <1>1, <1>2, <1>3, <1>4

(* What stapel-cdn settles on follows the row through every save, delete,  *)
(* restore, retyping and backfill, unless a difference was taken from a    *)
(* row that had moved, rolled back, dropped, or overtaken by one it        *)
(* crosses.                                                                *)
THEOREM OnlyTheseLoseTheClaims == Spec => ClaimsFollowTheRow
<1>1. IInv /\ [Next]_vars =>
        [Settled =>
           \/ Settled'
           \/ \E q \in Requests : StaleSave(q) \/ RollBack(q)
           \/ StaleRetype \/ StaleBackfill \/ Dropped \/ Overtaken]_vars
  BY StepSettles DEF Excusable
<1> QED BY <1>1, Inv, PTL DEF Spec, ClaimsFollowTheRow

=============================================================================
