------------------------------ MODULE Listing ------------------------------
(***************************************************************************)
(* The listing aggregate: the row, the verdicts that reach it and the      *)
(* search index its events drive.  Every action is one committed request,  *)
(* event handler or host call; requests that overlap are the subject of    *)
(* module StaleWrites.                                                     *)
(*                                                                         *)
(* An index event is a signal: the indexer reacts to listing.published and *)
(* listing.updated by pulling the document, to listing.removed by dropping *)
(* it.  Row and event commit together (mutate_and_emit), so the pull is    *)
(* folded into the committing action.                                      *)
(***************************************************************************)
EXTENDS Lifecycle

CONSTANTS
  Listings,    \* row ids
  Users,       \* accounts
  OwnerOf,     \* the account that owns each id
  Contents,    \* what a draft may say
  Validated,   \* the contents services.publish.validate_draft accepts
  Promotable,  \* the contents services.publish.publish_listing accepts
  Gate,        \* MODERATION_GATE
  AutoApprove, \* AUTO_APPROVE_ON_PUBLISH
  RawWrites,   \* statuses a host assigns past the FSM (status = s; save())
  Blank,       \* the published side of a row that was never published
  NoDoc        \* what the index holds of a listing it does not serve

ASSUME OwnersAssumption == OwnerOf \in [Listings -> Users]
ASSUME ContentsAssumption ==
  /\ Validated \subseteq Contents
  /\ Promotable \subseteq Contents
  /\ Blank \notin Contents
ASSUME PolicyAssumption == Gate \in {"pre", "post"} /\ AutoApprove \in BOOLEAN
ASSUME RawWritesAssumption == RawWrites \subseteq Statuses \ {"pending"}

Row == [life     : {"absent", "live", "deleted"},  \* no row, or deleted_at unset / set
        status   : Statuses,
        mod      : ModerationStatuses,             \* moderation_status
        category : BOOLEAN,                        \* has_category
        draft    : Contents \cup {Blank},          \* the *_draft twins
        content  : Contents \cup {Blank},          \* the published columns
        search   : Contents \cup {Blank}]          \* what features_search was derived from

Absent == [life |-> "absent", status |-> "draft", mod |-> "not_submitted",
           category |-> FALSE, draft |-> Blank, content |-> Blank, search |-> Blank]

(* The part of build_search_document the properties tell apart. *)
Document(r) == [content |-> r.content, category |-> r.category, search |-> r.search]

Documents ==
  [content : Contents \cup {Blank}, category : BOOLEAN, search : Contents \cup {Blank}]

(* The moderation service's side: is there a case, and its last ruling. *)
Review == [case : {"none", "open", "ruled"},
           ruling : {"none", "approved", "rejected"}]
NoReview == [case |-> "none", ruling |-> "none"]

VARIABLES
  row,     \* Listings -> Row, the table
  index,   \* Listings -> the document the search index serves, or NoDoc
  review   \* Listings -> Review

vars == <<row, index, review>>

TypeOK ==
  /\ row \in [Listings -> Row]
  /\ index \in [Listings -> Documents \cup {NoDoc}]
  /\ review \in [Listings -> Review]

Init ==
  /\ row = [l \in Listings |-> Absent]
  /\ index = [l \in Listings |-> NoDoc]
  /\ review = [l \in Listings |-> NoReview]

-----------------------------------------------------------------------------
(* What a row is to others. *)

Public(r) == r.life = "live" /\ r.status \in Indexed

(* documents_by_keys: soft-deleted rows are absent, and the indexer keeps  *)
(* only documents in an indexed status.                                    *)
Pull(r) == IF Public(r) THEN Document(r) ELSE NoDoc

(* The index event of a status write that crosses the boundary. *)
Boundary(from, to) ==
  IF from \notin Indexed /\ to \in Indexed THEN "published"
  ELSE IF from \in Indexed /\ to \notin Indexed THEN "removed"
  ELSE "none"

(* Mutations of SaveSignal: without the content detector, without the      *)
(* boundary detector.                                                      *)
StatusOnlySignal(old, new) == Boundary(old.status, new.status)
ContentOnlySignal(old, new) ==
  IF new.status \in Indexed /\ new.content # old.content THEN "updated" ELSE "none"

(* The indexed columns of a save against those of the stored row. *)
ContentChanged(old, new) == Document(new) # Document(old)

(* Listing.save() with every column: the boundary detector first, then     *)
(* listing.updated when an indexed column of an indexed row moved.         *)
SaveSignal(old, new) ==
  IF Boundary(old.status, new.status) # "none" THEN Boundary(old.status, new.status)
  ELSE IF new.status \in Indexed /\ ContentChanged(old, new) THEN "updated"
  ELSE "none"

(* Commit row l as r together with the index event it carries. *)
Commit(l, r, signal) ==
  /\ row' = [row EXCEPT ![l] = r]
  /\ index' = [index EXCEPT ![l] =
                 IF signal \in {"published", "updated"} THEN Pull(r)
                 ELSE IF signal = "removed" THEN NoDoc
                 ELSE index[l]]

-----------------------------------------------------------------------------
(* The services the handlers share. *)

(* transition_to: the edge is in the machine and a category is present     *)
(* wherever the target needs one; moving to the same status is a no-op.    *)
CanMove(r, s) ==
  \/ s = r.status
  \/ s \in Transitions[r.status] /\ (s \in Categoryless \/ r.category)

(* What it writes on the row r from the instance h: the status, and, on    *)
(* the way into the index, features_search derived from the instance.      *)
MovedBy(r, h, s) ==
  IF s = h.status THEN r
  ELSE [r EXCEPT !.status = s, !.search = IF s \in Indexed THEN h.content ELSE @]

Moved(r, s) == MovedBy(r, r, s)

(* save() with every column derives features_search from features again. *)
Saved(r) == [r EXCEPT !.search = r.content]

(* apply_moderation: where the verdict takes the lifecycle. *)
VerdictTarget(r, decision) ==
  IF decision = "approved" /\ r.status \in {"pending", "blocked", "rejected"}
    THEN "published"
  ELSE IF decision = "rejected" /\ r.status = "pending" THEN "rejected"
  ELSE IF decision = "rejected" /\ r.status \in Indexed THEN "blocked"
  ELSE r.status

(* Mutation: a dismissed report written down as a moderation status. *)
RuledVerbatim(r, decision) ==
  [Moved(r, VerdictTarget(r, decision)) EXCEPT !.mod = decision]

Ruled(r, decision) ==
  IF decision = "dismissed" THEN r
  ELSE [Moved(r, VerdictTarget(r, decision)) EXCEPT !.mod = decision]

(* Mutation: the rejection read off moderation_status alone. *)
RejectedNow(r) == r.mod = "rejected"

(* publish_listing. *)
StandingRejection(r) == r.mod = "rejected" \/ r.status \in {"blocked", "rejected"}

MayPublish(r) == r.category /\ r.draft \in Promotable

Promoted(r) ==
  Saved([r EXCEPT !.content = r.draft,
                  !.mod = "pending",
                  !.status = IF r.status \in Indexed THEN r.status ELSE "pending"])

(* The row as it leaves publish_listing: the gate and AUTO_APPROVE answer  *)
(* only where no rejection stands.                                         *)
PublishedRow(r) ==
  IF StandingRejection(r) THEN Promoted(r)
  ELSE IF AutoApprove THEN Ruled(Promoted(r), "approved")
  ELSE IF r.status \notin Indexed /\ Gate = "post" THEN Moved(Promoted(r), "published")
  ELSE Promoted(r)

PublishListing(l) ==
  /\ MayPublish(row[l])
  /\ Commit(l, PublishedRow(row[l]), SaveSignal(row[l], PublishedRow(row[l])))
  /\ review' = [review EXCEPT ![l].case = "open"]

-----------------------------------------------------------------------------
(* The owner's requests.  _get_own hides soft-deleted rows. *)

(* create: a draft, with or without a category. *)
Create(l) ==
  /\ row[l].life = "absent"
  /\ \E d \in Contents, c \in BOOLEAN :
       Commit(l, [Absent EXCEPT !.life = "live", !.category = c, !.draft = d], "none")
  /\ UNCHANGED review

(* save-draft and update: the draft twins, and category_id which has none. *)
SaveDraft(l) ==
  /\ row[l].life = "live"
  /\ \E d \in Contents, c \in BOOLEAN :
       LET new == Saved([row[l] EXCEPT !.draft = d, !.category = c])
       IN Commit(l, new, SaveSignal(row[l], new))
  /\ UNCHANGED review

(* POST /publish/: the status guard, validate_draft, publish_listing. *)
Publish(l) ==
  /\ row[l].life = "live"
  /\ PublishableFrom(row[l].status)
  /\ row[l].draft \in Validated
  /\ PublishListing(l)

(* POST /transition/ on an edge that is a publication. *)
Resubmit(l) ==
  /\ row[l].life = "live"
  /\ \E s \in OwnerTransitions[row[l].status] :
       <<row[l].status, s>> \in RestoreEdges
  /\ PublishListing(l)

(* POST /transition/, /archive/ and /complete/ on every other owner edge. *)
OwnerMove(l, s) ==
  /\ row[l].life = "live"
  /\ s \in OwnerTransitions[row[l].status]
  /\ <<row[l].status, s>> \notin RestoreEdges
  /\ CanMove(row[l], s)
  /\ Commit(l, Moved(row[l], s), Boundary(row[l].status, s))
  /\ UNCHANGED review

(* DELETE: refused while published or pending; a soft delete otherwise. *)
Destroy(l) ==
  /\ row[l].life = "live"
  /\ row[l].status \notin {"published", "pending"}
  /\ Commit(l, [row[l] EXCEPT !.life = "deleted"], "none")
  /\ UNCHANGED review

-----------------------------------------------------------------------------
(* Events other services send. *)

(* moderation.completed, read through all_objects: soft-deleted rows too.  *)
(* A verdict whose lifecycle move is refused rolls back whole.             *)
Verdict(l, decision) ==
  /\ row[l].life # "absent"
  /\ review[l].case # "none"
  /\ CanMove(row[l], VerdictTarget(row[l], decision))
  /\ Commit(l, Ruled(row[l], decision),
            Boundary(row[l].status, Ruled(row[l], decision).status))
  /\ review' = IF decision \in {"approved", "rejected"}
               THEN [review EXCEPT ![l] = [case |-> "ruled", ruling |-> decision]]
               ELSE review

(* user.deleted: ListingsGDPRProvider.delete erases every row of the       *)
(* account, announcing the ones the index still serves.                    *)
Erase(u) ==
  LET mine == {l \in Listings : OwnerOf[l] = u /\ row[l].life # "absent"}
  IN /\ mine # {}
     /\ row' = [l \in Listings |-> IF l \in mine THEN Absent ELSE row[l]]
     /\ index' = [l \in Listings |->
                    IF l \in mine /\ Public(row[l]) THEN NoDoc ELSE index[l]]
     /\ review' = [l \in Listings |-> IF l \in mine THEN NoReview ELSE review[l]]

-----------------------------------------------------------------------------
(* Calls a host makes on the model itself. *)

(* transition_to("expired"): the TTL sweep belongs to the host. *)
HostExpire(l) ==
  /\ row[l].life = "live"
  /\ "expired" \in Transitions[row[l].status]
  /\ CanMove(row[l], "expired")
  /\ Commit(l, Moved(row[l], "expired"), Boundary(row[l].status, "expired"))
  /\ UNCHANGED review

(* listing.status = s; listing.save() *)
HostWrite(l, s) ==
  LET new == Saved([row[l] EXCEPT !.status = s])
  IN /\ row[l].life = "live"
     /\ Commit(l, new, SaveSignal(row[l], new))
     /\ UNCHANGED review

(* listing.delete(), in any status. *)
HostDelete(l) ==
  /\ row[l].life = "live"
  /\ Commit(l, [row[l] EXCEPT !.life = "deleted"],
            IF row[l].status \in Indexed THEN "removed" ELSE "none")
  /\ UNCHANGED review

(* listing.restore() *)
HostRestore(l) ==
  /\ row[l].life = "deleted"
  /\ Commit(l, [row[l] EXCEPT !.life = "live"],
            IF row[l].status \in Indexed THEN "published" ELSE "none")
  /\ UNCHANGED review

Next ==
  \/ \E l \in Listings :
       \/ Create(l)
       \/ SaveDraft(l)
       \/ Publish(l)
       \/ Resubmit(l)
       \/ \E s \in Statuses : OwnerMove(l, s)
       \/ Destroy(l)
       \/ \E d \in Decisions : Verdict(l, d)
       \/ HostExpire(l)
       \/ \E s \in RawWrites : HostWrite(l, s)
       \/ HostDelete(l)
       \/ HostRestore(l)
  \/ \E u \in Users : Erase(u)

Spec == Init /\ [][Next]_vars

-----------------------------------------------------------------------------
(* Properties. *)

(* The index and the table never disagree: a listing is served exactly     *)
(* while its row is live and published, with the content, the category and *)
(* the search column the row has.  This is what the paired row-and-event   *)
(* commits of save, transition_to, delete, restore and the erasure add up  *)
(* to.                                                                     *)
Agrees(l) ==
  IF Public(row[l])
    THEN /\ index[l] \in Documents
         /\ index[l].content = row[l].content
         /\ index[l].category = row[l].category
         /\ index[l].search = row[l].search
    ELSE index[l] = NoDoc

IndexAgrees == \A l \in Listings : Agrees(l)

(* "pending" is a claim about a queue: a row that says it waits for review *)
(* (on either axis) has an open moderation case.  publish_listing is the   *)
(* only way in, and it emits listing.submitted.                            *)
Waiting(r) == r.status = "pending" \/ r.mod = "pending"

PendingIsUnderReview ==
  \A l \in Listings : Waiting(row[l]) => review[l].case = "open"

(* The policies under which the moderator alone decides what is shown. *)
Moderated == Gate = "pre" /\ ~AutoApprove /\ RawWrites = {}

(* Under the pre gate nothing reaches the window, or a status on the far   *)
(* side of it, before a moderator has ruled on the listing once: archived, *)
(* expired and restored listings are no way round the gate.                *)
BeenLive == {"published", "paused", "sold", "expired", "blocked"}

NeverLiveUnreviewed ==
  Moderated =>
    \A l \in Listings : row[l].status \in BeenLive => review[l].ruling # "none"

(* Under the pre gate a row enters the window from anywhere but the shelf  *)
(* (paused, sold) only in the step that applies an approving verdict.      *)
EntersWindow(l) == row[l].status # "published" /\ row'[l].status = "published"

PublicationNeedsAVerdict ==
  [][Moderated =>
       \A l \in Listings :
         EntersWindow(l) /\ row[l].status \notin {"paused", "sold"}
           => review'[l].ruling = "approved" /\ row'[l].mod = "approved"]_vars

(* A takedown is the moderator's alone: a row becomes blocked only from    *)
(* published and only by a rejecting verdict (never by its owner).         *)
TakedownIsAVerdict ==
  [][\A l \in Listings :
       row[l].status # "blocked" /\ row'[l].status = "blocked" /\ "blocked" \notin RawWrites
         => /\ row[l].status = "published"
            /\ review'[l].ruling = "rejected" /\ row'[l].mod = "rejected"]_vars

(* Whatever the gate, a blocked or rejected row goes back to the window in *)
(* the step of an approving verdict and in no other: publishing it again   *)
(* neither answers the post gate nor AUTO_APPROVE.                         *)
OnlyAVerdictReinstates ==
  [][\A l \in Listings :
       EntersWindow(l) /\ row[l].status \in {"blocked", "rejected"}
                       /\ "published" \notin RawWrites
         => review'[l].ruling = "approved"]_vars

-----------------------------------------------------------------------------
(* What the documentation says and the code does not do. *)

(* "A listing that carries a standing rejection now waits for a verdict    *)
(* whatever the gate": a row with an open case whose last ruling was a     *)
(* rejection is not put back by anything but an approval.                  *)
WaitsForTheVerdict ==
  [][\A l \in Listings :
       EntersWindow(l) /\ review[l] = [case |-> "open", ruling |-> "rejected"]
         => review'[l].ruling = "approved"]_vars

(* "a rejecting verdict removes it from the public surface": no listing in *)
(* the window carries moderation_status rejected.                          *)
RejectedIsNotLive ==
  \A l \in Listings : Public(row[l]) => row[l].mod # "rejected"
=============================================================================
