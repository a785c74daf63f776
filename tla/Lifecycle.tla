----------------------------- MODULE Lifecycle -----------------------------
(***************************************************************************)
(* The two state machines every other module speaks about: the lifecycle   *)
(* of a listing and the moderation axis, with the transition tables of     *)
(* models.py and the publication edges of views.py.  No state lives here.  *)
(***************************************************************************)

Statuses == {"draft", "pending", "published", "paused", "expired", "sold",
             "rejected", "blocked", "archived"}

ModerationStatuses ==
  {"not_submitted", "pending", "approved", "rejected", "needs_review"}

(* What a moderation.completed event may decide. *)
Decisions == {"approved", "rejected", "needs_review", "dismissed"}

(* The statuses a search index holds; entering or leaving the set is an    *)
(* index event.                                                            *)
Indexed == {"published"}

(* The statuses a row may hold with no category. *)
Categoryless == {"draft", "archived"}

(* LISTING_TRANSITIONS: the whole machine, enforced by transition_to. *)
Transitions ==
  [s \in Statuses |->
     CASE s = "draft"     -> {"pending", "archived"}
       [] s = "pending"   -> {"published", "rejected", "draft", "archived"}
       [] s = "published" -> {"paused", "expired", "sold", "blocked", "archived"}
       [] s = "paused"    -> {"published", "archived", "expired"}
       [] s = "expired"   -> {"pending", "published", "archived"}
       [] s = "sold"      -> {"archived", "published"}
       [] s = "rejected"  -> {"published", "draft", "archived"}
       [] s = "blocked"   -> {"published", "draft", "archived"}
       [] s = "archived"  -> {"draft", "pending", "published"}]

(* OWNER_TRANSITIONS: the edges an owner may ask for. *)
OwnerTransitions ==
  [s \in Statuses |->
     CASE s = "draft"     -> {"pending", "archived"}
       [] s = "pending"   -> {"draft", "archived"}
       [] s = "published" -> {"paused", "sold", "archived"}
       [] s = "paused"    -> {"published", "archived"}
       [] s = "expired"   -> {"pending", "archived"}
       [] s = "sold"      -> {"published", "archived"}
       [] s = "rejected"  -> {"draft", "archived"}
       [] s = "blocked"   -> {"draft", "archived"}
       [] s = "archived"  -> {"draft", "published"}]

(* Mutation: the edges before DRAFT -> PENDING and EXPIRED -> PENDING were *)
(* recognised as publications.                                             *)
RestoreOnly == {<<"archived", "published">>}

(* Owner edges that run the publish service instead of transition_to. *)
RestoreEdges ==
  {<<"archived", "published">>, <<"draft", "pending">>, <<"expired", "pending">>}

(* May POST /publish/ act on a listing in this status? *)
PublishableFrom(s) ==
  \/ s = "draft"
  \/ s \in Indexed
  \/ OwnerTransitions[s] \cap {"draft", "pending"} # {}

=============================================================================
