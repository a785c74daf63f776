------------------------------ MODULE Accounts ------------------------------
(***************************************************************************)
(* Who owns and who saved which listing while accounts come and go.  A     *)
(* guest may be absorbed into a member (user.merged: carry over what the   *)
(* guest has), a member may leave (user.deleted: erase it), and either     *)
(* account's row is then deleted with everything that still hangs off it.  *)
(* user.merged is delivered until it succeeds, and perhaps again later; it *)
(* may come before the member's row is known here.                         *)
(*                                                                         *)
(* A request is authenticated once and writes later; one that edits a      *)
(* listing writes back the owner_id it read.                               *)
(***************************************************************************)
CONSTANTS
  Guests,          \* anonymous accounts
  Members,
  Listings,
  Requests,        \* request threads
  AnonymousWrites, \* ALLOW_ANONYMOUS_WRITES
  Unused,          \* the owner of an id that was never given out
  NoOne,           \* the owner where a row has been deleted
  NoRow,           \* the listing of a request that has read none
  Nothing          \* an idle thread

ASSUME AccountsAssumption ==
  /\ Guests \cap Members = {}
  /\ {Unused, NoOne} \cap (Guests \cup Members) = {}
  /\ Unused # NoOne
  /\ NoRow \notin Listings
  /\ AnonymousWrites \in BOOLEAN

Users == Guests \cup Members
Merges == Guests \X Members

VARIABLES
  account,    \* Users -> the row of the account in this database
  owner,      \* Listings -> owner_id, where there is a row
  favorites,  \* the Favorite rows, as <<user, listing>>
  merged,     \* the user.merged events ever sent
  owed,       \* those of them no delivery of which has succeeded
  held        \* Requests -> who asks, and which listing it read

vars == <<account, owner, favorites, merged, owed, held>>

(* Has the account a row here that a foreign key may point at? *)
Stands(u) == account[u] \in {"known", "absorbed", "leaving"}

Held == [user : Users, listing : Listings \cup {NoRow}]

TypeOK ==
  /\ account \in [Users -> {"unknown", "known", "absorbed", "leaving", "gone"}]
  /\ owner \in [Listings -> Users \cup {Unused, NoOne}]
  /\ favorites \subseteq Users \X Listings
  /\ merged \subseteq Merges /\ owed \subseteq merged
  /\ held \in [Requests -> Held \cup {Nothing}]
  /\ \A l \in Listings : owner[l] \in Users => Stands(owner[l])
  /\ \A f \in favorites : Stands(f[1]) /\ owner[f[2]] \in Users

Init ==
  /\ account = [u \in Users |-> "unknown"]
  /\ owner = [l \in Listings |-> Unused]
  /\ favorites = {}
  /\ merged = {} /\ owed = {}
  /\ held = [q \in Requests |-> Nothing]

Of(u) == {f \in favorites : f[1] = u}
Owns(u) == Of(u) # {} \/ \E l \in Listings : owner[l] = u

-----------------------------------------------------------------------------
(* The accounts, as stapel-auth moves them. *)

Arrive(u) ==
  /\ account[u] = "unknown"
  /\ account' = [account EXCEPT ![u] = "known"]
  /\ UNCHANGED <<owner, favorites, merged, owed, held>>

(* A guest signs in to an account that exists there, known here or not. *)
Absorb(g, s) ==
  /\ account[g] = "known"
  /\ account[s] \in {"unknown", "known"}
  /\ account' = [account EXCEPT ![g] = "absorbed"]
  /\ merged' = merged \cup {<<g, s>>}
  /\ owed' = owed \cup {<<g, s>>}
  /\ UNCHANGED <<owner, favorites, held>>

Leave(s) ==
  /\ account[s] = "known"
  /\ account' = [account EXCEPT ![s] = "leaving"]
  /\ UNCHANGED <<owner, favorites, merged, owed, held>>

(* Every row of u's, and the favorites others hold of u's listings. *)
WithoutRowsOf(u) == {f \in favorites : f[1] # u /\ owner[f[2]] # u}

EraseRowsOf(u) ==
  /\ owner' = [l \in Listings |-> IF owner[l] = u THEN NoOne ELSE owner[l]]
  /\ favorites' = WithoutRowsOf(u)

(* The row of an absorbed guest or an erased member goes, by CASCADE. *)
DeleteRow(u) ==
  /\ \/ account[u] = "absorbed" /\ \A m \in owed : m[1] # u
     \/ account[u] = "leaving"
  /\ account' = [account EXCEPT ![u] = "gone"]
  /\ EraseRowsOf(u)
  /\ UNCHANGED <<merged, owed, held>>

-----------------------------------------------------------------------------
(* The requests. *)

Authenticate(q, u) ==
  /\ held[q] = Nothing
  /\ account[u] = "known"
  /\ held' = [held EXCEPT ![q] = [user |-> u, listing |-> NoRow]]
  /\ UNCHANGED <<account, owner, favorites, merged, owed>>

Answer(q) == held' = [held EXCEPT ![q] = Nothing]

MayAuthor(u) == u \in Members \/ AnonymousWrites

Refuse(q) ==
  /\ held[q] # Nothing
  /\ Answer(q)
  /\ UNCHANGED <<account, owner, favorites, merged, owed>>

Create(q, l) ==
  /\ held[q] # Nothing /\ held[q].listing = NoRow
  /\ MayAuthor(held[q].user) /\ Stands(held[q].user)
  /\ owner[l] = Unused
  /\ owner' = [owner EXCEPT ![l] = held[q].user]
  /\ Answer(q)
  /\ UNCHANGED <<account, favorites, merged, owed>>

(* _get_own: only its owner gets a listing to write. *)
GetOwn(q, l) ==
  /\ held[q] # Nothing /\ held[q].listing = NoRow
  /\ MayAuthor(held[q].user)
  /\ owner[l] = held[q].user
  /\ held' = [held EXCEPT ![q] = [user |-> held[q].user, listing |-> l]]
  /\ UNCHANGED <<account, owner, favorites, merged, owed>>

(* save-draft, update and publish: every column of the instance, an insert *)
(* if the row has gone; refused by the foreign key if the account has.     *)
Save(q) ==
  /\ held[q] # Nothing /\ held[q].listing # NoRow
  /\ Stands(held[q].user)
  /\ owner' = [owner EXCEPT ![held[q].listing] = held[q].user]
  /\ Answer(q)
  /\ UNCHANGED <<account, favorites, merged, owed>>

Favorite(q, l) ==
  /\ held[q] # Nothing /\ held[q].listing = NoRow
  /\ Stands(held[q].user) /\ owner[l] \in Users
  /\ favorites' = favorites \cup {<<held[q].user, l>>}
  /\ Answer(q)
  /\ UNCHANGED <<account, owner, merged, owed>>

Unfavorite(q, l) ==
  /\ held[q] # Nothing /\ held[q].listing = NoRow
  /\ favorites' = favorites \ {<<held[q].user, l>>}
  /\ Answer(q)
  /\ UNCHANGED <<account, owner, merged, owed>>

-----------------------------------------------------------------------------
(* The event handlers, each one transaction. *)

(* Mutation: the transfer before the member has a row. *)
AlwaysReady(s) == TRUE

SurvivorReady(s) == Stands(s)

(* Mutation: on a collision the guest's favorites are dropped wholesale. *)
FoldAll(g, s) ==
  IF \E l \in Listings : {<<g, l>>, <<s, l>>} \subseteq favorites
    THEN favorites \ Of(g)
    ELSE (favorites \ Of(g)) \cup {<<s, f[2]>> : f \in Of(g)}

(* The guest's duplicates deleted, the others reassigned. *)
Folded(g, s) == (favorites \ Of(g)) \cup {<<s, f[2]>> : f \in Of(g)}

(* Mutation: the ids of the update swapped. *)
SwappedOwner(g, s) == [l \in Listings |-> IF owner[l] = s THEN g ELSE owner[l]]

CarriedOwner(g, s) == [l \in Listings |-> IF owner[l] = g THEN s ELSE owner[l]]

(* Mutation: an empty guest waits for the survivor like any other. *)
NeverEmpty(g) == FALSE

NothingToCarry(g) == ~Owns(g)

(* user.merged.  MergeTargetNotReady leaves everything as it was and the   *)
(* event owed.                                                             *)
HandleMerged(g, s) ==
  /\ <<g, s>> \in merged
  /\ \/ NothingToCarry(g) /\ UNCHANGED <<owner, favorites>>
     \/ /\ Owns(g) /\ SurvivorReady(s)
        /\ owner' = CarriedOwner(g, s)
        /\ favorites' = Folded(g, s)
  /\ owed' = owed \ {<<g, s>>}
  /\ UNCHANGED <<account, merged, held>>

(* user.deleted *)
HandleDeleted(s) ==
  /\ account[s] = "leaving"
  /\ EraseRowsOf(s)
  /\ UNCHANGED <<account, merged, owed, held>>

Next ==
  \/ \E u \in Users : Arrive(u) \/ DeleteRow(u)
  \/ \E g \in Guests, s \in Members : Absorb(g, s) \/ HandleMerged(g, s)
  \/ \E s \in Members : Leave(s) \/ HandleDeleted(s)
  \/ \E q \in Requests :
       \/ \E u \in Users : Authenticate(q, u)
       \/ Refuse(q)
       \/ Save(q)
       \/ \E l \in Listings :
            Create(q, l) \/ GetOwn(q, l) \/ Favorite(q, l) \/ Unfavorite(q, l)

Spec == Init /\ [][Next]_vars

(* The outbox redelivers what has not succeeded, and the projection of an  *)
(* account that exists arrives.                                            *)
Fairness ==
  /\ \A u \in Users : WF_vars(Arrive(u))
  /\ \A g \in Guests, s \in Members : WF_vars(HandleMerged(g, s))

FairSpec == Spec /\ Fairness

-----------------------------------------------------------------------------
(* Properties. *)

(* A merge counts as delivered only when nothing was left behind: all the  *)
(* guest had the moment before, saved or owned, is the survivor's.         *)
DeliveredMeansCarried ==
  [][\A g \in Guests, s \in Members :
       <<g, s>> \in owed /\ <<g, s>> \notin owed'
         => \A l \in Listings :
              /\ <<g, l>> \in favorites => <<s, l>> \in favorites'
              /\ owner[l] = g => owner'[l] = s]_vars

(* Nobody loses a saved listing but by his own request, with the listing   *)
(* itself, with his own account, or to the account that absorbed his.      *)
(* (A guest's account goes only when no merge is owed.)                    *)
FavoritesAreKept ==
  [][\A u \in Users, l \in Listings :
       <<u, l>> \in favorites /\ <<u, l>> \notin favorites'
         => \/ owner'[l] = NoOne
            \/ account[u] = "leaving"
            \/ account'[u] = "gone" /\ \A m \in owed : m[1] # u
            \/ \E s \in Members : <<u, s>> \in merged /\ <<s, l>> \in favorites'
            \/ \E q \in Requests : held[q] # Nothing /\ held[q].user = u
                                   /\ held'[q] = Nothing]_vars

(* A listing changes hands only from a guest to the member that absorbed   *)
(* it, or back, by a request that read the row before the merge.           *)
ChangesHandsByMerge ==
  [][\A l \in Listings :
       owner[l] \in Users /\ owner'[l] \notin {NoOne, owner[l]}
         => \/ <<owner[l], owner'[l]>> \in merged
            \/ \E q \in Requests :
                 /\ held[q] = [user |-> owner'[l], listing |-> l]
                 /\ held'[q] = Nothing]_vars

(* However late the survivor's account becomes known here, the redelivery  *)
(* of a merge comes to an end, unless the survivor itself leaves.          *)
MergeLands ==
  \A g \in Guests, s \in Members :
    <<g, s>> \in owed ~> (<<g, s>> \notin owed \/ account[s] \in {"leaving", "gone"})

-----------------------------------------------------------------------------
(* What the documentation says and overlapping requests break. *)

(* "carry the guest's favorites and listings over to it": what the member  *)
(* has taken over does not go back to the guest, whose row is deleted next.*)
CarriedStaysCarried ==
  [][\A g \in Guests, s \in Members, l \in Listings :
       <<g, s>> \in merged /\ owner[l] = s => owner'[l] # g]_vars
=============================================================================
