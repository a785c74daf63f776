--------------------------- MODULE AccountsProofs ---------------------------
(***************************************************************************)
(* What holds of module Accounts for every set of guests, members,         *)
(* listings and requests.  TypeOK is inductive as it stands: it says that  *)
(* no foreign key points at an account whose row is gone, and each of the  *)
(* three action properties is a step argument from it.                     *)
(***************************************************************************)
EXTENDS Accounts, TLAPS

(* A request writes no account and sends no event. *)
Requesting(q) ==
  \/ \E u \in Users : Authenticate(q, u)
  \/ Refuse(q)
  \/ Save(q)
  \/ \E l \in Listings :
       Create(q, l) \/ GetOwn(q, l) \/ Favorite(q, l) \/ Unfavorite(q, l)

(* Every step is an account's, a request's or a handler's. *)
LEMMA Steps ==
  ASSUME [Next]_vars
  PROVE  \/ \E u \in Users : Arrive(u) \/ DeleteRow(u)
         \/ \E g \in Guests, s \in Members : Absorb(g, s) \/ HandleMerged(g, s)
         \/ \E s \in Members : Leave(s) \/ HandleDeleted(s)
         \/ \E q \in Requests : Requesting(q)
         \/ UNCHANGED vars
BY DEF Next, Requesting

(* The accounts keep their foreign keys: a row goes with all that points   *)
(* at it.                                                                  *)
LEMMA AccountsKeepType ==
  ASSUME TypeOK, NEW u \in Users, Arrive(u) \/ DeleteRow(u)
  PROVE  TypeOK'
<1>. USE AccountsAssumption DEF Users, TypeOK, Stands
<1>1. CASE Arrive(u)
  BY <1>1 DEF Arrive
<1>2. CASE DeleteRow(u)
  <2>1. /\ account' \in [Users -> {"unknown", "known", "absorbed", "leaving", "gone"}]
        /\ owner' \in [Listings -> Users \cup {Unused, NoOne}]
        /\ favorites' \subseteq favorites
        /\ merged' = merged /\ owed' = owed /\ held' = held
    BY <1>2 DEF DeleteRow, EraseRowsOf, WithoutRowsOf
  <2>2. \A l \in Listings : owner'[l] \in Users => owner'[l] # u /\ owner'[l] = owner[l]
    BY <1>2 DEF DeleteRow, EraseRowsOf
  <2>3. \A f \in favorites' : f[1] # u /\ owner[f[2]] # u /\ owner'[f[2]] = owner[f[2]]
    BY <1>2 DEF DeleteRow, EraseRowsOf, WithoutRowsOf
  <2>4. \A v \in Users : v # u => account'[v] = account[v]
    BY <1>2 DEF DeleteRow
  <2>. QED
    BY <2>1, <2>2, <2>3, <2>4
<1>. QED
  BY <1>1, <1>2

(* A member that leaves, and its erasure. *)
LEMMA MembersKeepType ==
  ASSUME TypeOK, NEW s \in Members, Leave(s) \/ HandleDeleted(s)
  PROVE  TypeOK'
<1>. USE AccountsAssumption DEF Users, TypeOK, Stands
<1>1. CASE Leave(s)
  BY <1>1 DEF Leave
<1>2. CASE HandleDeleted(s)
  <2>1. /\ owner' \in [Listings -> Users \cup {Unused, NoOne}]
        /\ favorites' \subseteq favorites
        /\ account' = account /\ merged' = merged /\ owed' = owed /\ held' = held
    BY <1>2 DEF HandleDeleted, EraseRowsOf, WithoutRowsOf
  <2>2. \A l \in Listings : owner'[l] \in Users => owner'[l] = owner[l]
    BY <1>2 DEF HandleDeleted, EraseRowsOf
  <2>3. \A f \in favorites' : owner'[f[2]] = owner[f[2]]
    BY <1>2 DEF HandleDeleted, EraseRowsOf, WithoutRowsOf
  <2>. QED
    BY <2>1, <2>2, <2>3
<1>. QED
  BY <1>1, <1>2

(* A merge moves rows to an account that stands. *)
LEMMA MergesKeepType ==
  ASSUME TypeOK, NEW g \in Guests, NEW s \in Members, Absorb(g, s) \/ HandleMerged(g, s)
  PROVE  TypeOK'
<1>. USE AccountsAssumption DEF Users, Stands
<1>1. CASE Absorb(g, s)
  BY <1>1 DEF Absorb, TypeOK, Merges
<1>2. CASE HandleMerged(g, s) /\ UNCHANGED <<owner, favorites>>
  BY <1>2 DEF HandleMerged, TypeOK
<1>3. CASE HandleMerged(g, s) /\ ~UNCHANGED <<owner, favorites>>
  <2>1. /\ owner' = CarriedOwner(g, s)
        /\ favorites' = Folded(g, s)
        /\ Stands(s)
        /\ account' = account /\ merged' = merged /\ held' = held
        /\ owed' \subseteq owed
    BY <1>3 DEF HandleMerged, SurvivorReady
  <2>2. \A l \in Listings : owner'[l] = IF owner[l] = g THEN s ELSE owner[l]
    BY <2>1 DEF CarriedOwner
  <2>3. owner' \in [Listings -> Users \cup {Unused, NoOne}]
    BY <2>1 DEF CarriedOwner, TypeOK
  <2>4. \A l \in Listings : owner'[l] \in Users => Stands(owner'[l])
    BY <2>1, <2>2 DEF TypeOK
  <2>5. \A l \in Listings : owner[l] \in Users => owner'[l] \in Users
    BY <2>2
  <2>6. ASSUME NEW f \in favorites'
        PROVE  f \in Users \X Listings /\ Stands(f[1]) /\ owner'[f[2]] \in Users
    <3>1. f \in favorites \/ \E e \in favorites : f = <<s, e[2]>>
      BY <2>1 DEF Folded, Of
    <3>. QED
      BY <2>1, <2>5, <3>1 DEF TypeOK
  <2>7. \A f \in favorites' : Stands(f[1])' /\ owner'[f[2]] \in Users
    BY <2>1, <2>6
  <2>8. favorites' \subseteq Users \X Listings
    BY <2>6
  <2>. QED
    BY <2>1, <2>3, <2>4, <2>7, <2>8 DEF TypeOK
<1>. QED
  BY <1>1, <1>2, <1>3

(* A request writes only for an account that stands. *)
LEMMA RequestsKeepType ==
  ASSUME TypeOK, NEW q \in Requests, Requesting(q)
  PROVE  TypeOK'
<1>. USE AccountsAssumption DEF Users, Stands, TypeOK, Held
<1>1. ASSUME NEW u \in Users, Authenticate(q, u) PROVE TypeOK'
  BY <1>1 DEF Authenticate
<1>2. CASE Refuse(q)
  BY <1>2 DEF Refuse, Answer
<1>3. CASE Save(q)
  BY <1>3 DEF Save, Answer
<1>4. ASSUME NEW l \in Listings, Create(q, l) PROVE TypeOK'
  BY <1>4 DEF Create, Answer
<1>5. ASSUME NEW l \in Listings, GetOwn(q, l) PROVE TypeOK'
  BY <1>5 DEF GetOwn
<1>6. ASSUME NEW l \in Listings, Favorite(q, l) PROVE TypeOK'
  BY <1>6 DEF Favorite, Answer
<1>7. ASSUME NEW l \in Listings, Unfavorite(q, l) PROVE TypeOK'
  BY <1>7 DEF Unfavorite, Answer
<1>. QED
  BY <1>1, <1>2, <1>3, <1>4, <1>5, <1>6, <1>7 DEF Requesting

(* Type correctness, and with it the foreign keys: no listing and no       *)
(* favorite belongs to an account that is not there, no favorite points at *)
(* a listing that is not there.                                            *)
THEOREM AccountsTypeCorrect == Spec => []TypeOK
<1>1. Init => TypeOK
  BY AccountsAssumption DEF Init, TypeOK, Users, Held
<1>2. TypeOK /\ [Next]_vars => TypeOK'
  <2> SUFFICES ASSUME TypeOK, [Next]_vars PROVE TypeOK'
    OBVIOUS
  <2>1. CASE UNCHANGED vars
    BY <2>1 DEF vars, TypeOK, Stands
  <2>. QED
    BY <2>1, Steps, AccountsKeepType, MembersKeepType, MergesKeepType, RequestsKeepType
<1>. QED
  BY <1>1, <1>2, PTL DEF Spec

-----------------------------------------------------------------------------
(* What the steps may not do. *)

(* Only a delivery that succeeds settles a merge. *)
LEMMA SettledByItsHandler ==
  ASSUME TypeOK, [Next]_vars,
         NEW g \in Guests, NEW s \in Members, <<g, s>> \in owed, <<g, s>> \notin owed'
  PROVE  HandleMerged(g, s)
<1>1. ASSUME NEW u \in Users, Arrive(u) \/ DeleteRow(u) PROVE FALSE
  BY <1>1 DEF Arrive, DeleteRow
<1>2. ASSUME NEW h \in Guests, NEW t \in Members, Absorb(h, t) PROVE FALSE
  BY <1>2 DEF Absorb
<1>3. ASSUME NEW t \in Members, Leave(t) \/ HandleDeleted(t) PROVE FALSE
  BY <1>3 DEF Leave, HandleDeleted
<1>4. ASSUME NEW q \in Requests, Requesting(q) PROVE FALSE
  BY <1>4 DEF Requesting, Authenticate, Refuse, Save, Create, GetOwn, Favorite, Unfavorite
<1>5. ~UNCHANGED vars
  BY DEF vars
<1>6. ASSUME NEW h \in Guests, NEW t \in Members, HandleMerged(h, t) PROVE HandleMerged(g, s)
  <2>1. owed' = owed \ {<<h, t>>}
    BY <1>6 DEF HandleMerged
  <2>2. h = g /\ t = s
    BY <2>1
  <2>. QED
    BY <1>6, <2>2
<1>. QED
  BY <1>1, <1>2, <1>3, <1>4, <1>5, <1>6, Steps

(* user.merged never reports success with rows of the guest left behind:   *)
(* what the guest saved or owned the moment before is the survivor's.      *)
THEOREM DeliveryCarriesEverything == Spec => DeliveredMeansCarried
<1>1. ASSUME TypeOK, [Next]_vars,
             NEW g \in Guests, NEW s \in Members, <<g, s>> \in owed, <<g, s>> \notin owed',
             NEW l \in Listings
      PROVE  /\ <<g, l>> \in favorites => <<s, l>> \in favorites'
             /\ owner[l] = g => owner'[l] = s
  <2>1. HandleMerged(g, s)
    BY <1>1, SettledByItsHandler
  <2>2. CASE NothingToCarry(g)
    BY <2>2 DEF NothingToCarry, Owns, Of
  <2>3. CASE owner' = CarriedOwner(g, s) /\ favorites' = Folded(g, s)
    <3>1. <<g, l>> \in favorites => <<g, l>> \in Of(g)
      BY DEF Of
    <3>2. <<g, l>> \in Of(g) => <<s, <<g, l>>[2]>> \in Folded(g, s)
      BY DEF Folded
    <3>. QED
      BY <2>3, <3>1, <3>2 DEF CarriedOwner
  <2>. QED
    BY <2>1, <2>2, <2>3 DEF HandleMerged
<1>2. TypeOK /\ [Next]_vars
        => [\A g \in Guests, s \in Members :
              <<g, s>> \in owed /\ <<g, s>> \notin owed'
                => \A l \in Listings :
                     /\ <<g, l>> \in favorites => <<s, l>> \in favorites'
                     /\ owner[l] = g => owner'[l] = s]_vars
  BY <1>1
<1>. QED
  BY <1>2, AccountsTypeCorrect, PTL DEF Spec, DeliveredMeansCarried

(* A listing goes to a member by a merge of its owner, or back to the      *)
(* account of a request that read it before, and in no other way.          *)
THEOREM OwnersChangeByMerge == Spec => ChangesHandsByMerge
<1>1. ASSUME TypeOK, [Next]_vars,
             NEW l \in Listings, owner[l] \in Users, owner'[l] \notin {NoOne, owner[l]}
      PROVE  \/ <<owner[l], owner'[l]>> \in merged
             \/ \E q \in Requests :
                  /\ held[q] = [user |-> owner'[l], listing |-> l]
                  /\ held'[q] = Nothing
  <2>. USE <1>1
  <2>1. ASSUME NEW u \in Users, Arrive(u) \/ DeleteRow(u) PROVE FALSE
    BY <2>1 DEF Arrive, DeleteRow, EraseRowsOf
  <2>2. ASSUME NEW s \in Members, Leave(s) \/ HandleDeleted(s) PROVE FALSE
    BY <2>2 DEF Leave, HandleDeleted, EraseRowsOf
  <2>3. ASSUME NEW g \in Guests, NEW s \in Members, Absorb(g, s) \/ HandleMerged(g, s)
        PROVE  <<owner[l], owner'[l]>> \in merged
    BY <2>3 DEF Absorb, HandleMerged, CarriedOwner
  <2>4. ASSUME NEW q \in Requests, Requesting(q)
        PROVE  held[q] = [user |-> owner'[l], listing |-> l] /\ held'[q] = Nothing
    <3>1. \A u \in Users : ~Authenticate(q, u)
      BY DEF Authenticate
    <3>2. ~Refuse(q) /\ \A k \in Listings : ~GetOwn(q, k) /\ ~Favorite(q, k) /\ ~Unfavorite(q, k)
      BY DEF Refuse, GetOwn, Favorite, Unfavorite
    <3>3. \A k \in Listings : ~Create(q, k)
      BY AccountsAssumption DEF Create, TypeOK, Users
    <3>4. Save(q)
      BY <2>4, <3>1, <3>2, <3>3 DEF Requesting
    <3>5. held[q] \in Held /\ held[q].listing = l /\ owner'[l] = held[q].user
      BY <3>4 DEF Save, TypeOK
    <3>6. held'[q] = Nothing
      BY <3>4 DEF Save, Answer, TypeOK
    <3>. QED
      BY <3>5, <3>6 DEF Held
  <2>5. ~UNCHANGED vars
    BY DEF vars
  <2>. QED
    BY <2>1, <2>2, <2>3, <2>4, <2>5, Steps
<1>2. TypeOK /\ [Next]_vars
        => [\A l \in Listings :
              owner[l] \in Users /\ owner'[l] \notin {NoOne, owner[l]}
                => \/ <<owner[l], owner'[l]>> \in merged
                   \/ \E q \in Requests :
                        /\ held[q] = [user |-> owner'[l], listing |-> l]
                        /\ held'[q] = Nothing]_vars
  BY <1>1
<1>. QED
  BY <1>2, AccountsTypeCorrect, PTL DEF Spec, ChangesHandsByMerge

(* A saved listing is lost by its owner's request or with something that   *)
(* goes: the listing, the account, or the guest whose favorites went over. *)
THEOREM FavoritesLast == Spec => FavoritesAreKept
<1> DEFINE Excused(u, l) ==
      \/ owner'[l] = NoOne
      \/ account[u] = "leaving"
      \/ account'[u] = "gone" /\ \A m \in owed : m[1] # u
      \/ \E s \in Members : <<u, s>> \in merged /\ <<s, l>> \in favorites'
      \/ \E q \in Requests : held[q] # Nothing /\ held[q].user = u
                             /\ held'[q] = Nothing
<1>1. ASSUME TypeOK, [Next]_vars, NEW u \in Users, NEW l \in Listings,
             <<u, l>> \in favorites, <<u, l>> \notin favorites'
      PROVE  Excused(u, l)
  <2>. USE <1>1
  <2>1. ASSUME NEW v \in Users, Arrive(v) \/ DeleteRow(v) PROVE Excused(u, l)
    <3>1. DeleteRow(v) /\ favorites' = WithoutRowsOf(v)
      BY <2>1 DEF Arrive, DeleteRow, EraseRowsOf
    <3>2. u = v \/ owner[l] = v
      BY <3>1 DEF WithoutRowsOf
    <3>3. CASE u = v
      BY <3>1, <3>3 DEF DeleteRow, TypeOK
    <3>4. CASE owner[l] = v
      BY <3>1, <3>4 DEF DeleteRow, EraseRowsOf
    <3>. QED
      BY <3>2, <3>3, <3>4
  <2>2. ASSUME NEW s \in Members, Leave(s) \/ HandleDeleted(s) PROVE Excused(u, l)
    <3>1. HandleDeleted(s) /\ favorites' = WithoutRowsOf(s)
      BY <2>2 DEF Leave, HandleDeleted, EraseRowsOf
    <3>2. u = s \/ owner[l] = s
      BY <3>1 DEF WithoutRowsOf
    <3>. QED
      BY <3>1, <3>2 DEF HandleDeleted, EraseRowsOf
  <2>3. ASSUME NEW g \in Guests, NEW s \in Members, Absorb(g, s) \/ HandleMerged(g, s)
        PROVE  Excused(u, l)
    <3>1. HandleMerged(g, s) /\ favorites' = Folded(g, s)
      BY <2>3 DEF Absorb, HandleMerged
    <3>2. u = g
      BY <3>1 DEF Folded, Of
    <3>3. <<g, l>> \in Of(g)
      BY <3>2 DEF Of
    <3>4. <<s, <<g, l>>[2]>> \in favorites'
      BY <3>1, <3>3 DEF Folded
    <3>. QED
      BY <3>1, <3>2, <3>4 DEF HandleMerged
  <2>4. ASSUME NEW q \in Requests, Requesting(q) PROVE Excused(u, l)
    <3>1. PICK k \in Listings : Unfavorite(q, k)
      BY <2>4 DEF Requesting, Authenticate, Refuse, Save, Create, GetOwn, Favorite
    <3>2. held[q] # Nothing /\ held[q].user = u
      BY <3>1 DEF Unfavorite
    <3>3. held'[q] = Nothing
      BY <3>1 DEF Unfavorite, Answer, TypeOK
    <3>. QED
      BY <3>2, <3>3
  <2>5. ~UNCHANGED vars
    BY DEF vars
  <2>. HIDE DEF Excused
  <2>. QED
    BY <2>1, <2>2, <2>3, <2>4, <2>5, Steps
<1>2. TypeOK /\ [Next]_vars
        => [\A u \in Users, l \in Listings :
              <<u, l>> \in favorites /\ <<u, l>> \notin favorites'
                => Excused(u, l)]_vars
  <2>. HIDE DEF Excused
  <2>. QED
    BY <1>1
<1>. QED
  BY <1>2, AccountsTypeCorrect, PTL DEF Spec, FavoritesAreKept
=============================================================================
