---------------------------- MODULE StaleWrites ----------------------------
(***************************************************************************)
(* Requests that overlap on a listing.  A request reads the row into an    *)
(* instance, decides everything on that instance and writes later; nothing *)
(* locks the row in between and no column carries a version.  save-draft   *)
(* and publish write the whole instance back, after save() has read the    *)
(* stored row twice to decide the index event: its status, then its        *)
(* indexed columns.  transition_to, delete and apply_moderation write the  *)
(* columns they name, and decide the event from the status in the          *)
(* instance.                                                               *)
(*                                                                         *)
(* The row, the index, the case and every decision are those of module     *)
(* Listing: with one request at a time on each listing this module         *)
(* implements its Spec.                                                    *)
(***************************************************************************)
EXTENDS Listing

CONSTANTS
  Requests,   \* request threads and event consumers
  Overlap,    \* may two of them hold the same listing?
  Nothing     \* what a request holds before it reads

ASSUME OverlapAssumption == Overlap \in BOOLEAN

VARIABLE held   \* Requests -> the instance in the request's hands

staleVars == <<row, index, review, held>>

(* A verdict is an event: its consumer reads the row after a case on it    *)
(* was opened.  "seen" is what the two detectors of a save have read of    *)
(* the stored row so far.                                                  *)
Seen == [status : Statuses, content : Contents \cup {Blank}, category : BOOLEAN,
         search : Contents \cup {Blank}]

NothingSeen == [status |-> "draft", content |-> Blank, category |-> FALSE, search |-> Blank]

Instance == [listing : Listings, row : Row, hasCase : BOOLEAN,
             step : {"loaded", "status", "content"}, seen : Seen]

StaleTypeOK == TypeOK /\ held \in [Requests -> Instance \cup {Nothing}]

StaleInit == Init /\ held = [q \in Requests |-> Nothing]

-----------------------------------------------------------------------------
Busy(l) == \E p \in Requests : held[p] # Nothing /\ held[p].listing = l

(* Listing.objects.get / all_objects.get *)
Load(q, l) ==
  /\ held[q] = Nothing
  /\ row[l].life # "absent"
  /\ Overlap \/ ~Busy(l)
  /\ held' = [held EXCEPT ![q] =
               [listing |-> l, row |-> row[l], hasCase |-> review[l].case # "none",
                step |-> "loaded", seen |-> NothingSeen]]
  /\ UNCHANGED vars

Release(q) == held' = [held EXCEPT ![q] = Nothing]

(* The request is refused, or fails before its write. *)
Abandon(q) == held[q] # Nothing /\ Release(q) /\ UNCHANGED vars

(* POST: a row nobody else knows yet. *)
Open(l) == Create(l) /\ UNCHANGED held

(* _status_boundary_crossing: a save has begun. *)
ReadStatus(q) ==
  /\ held[q] # Nothing /\ held[q].step = "loaded" /\ held[q].row.life = "live"
  /\ held' = [held EXCEPT ![q].step = "status",
                          ![q].seen.status = row[held[q].listing].status]
  /\ UNCHANGED vars

(* _indexed_content_changed, asked of an instance in the index alone. *)
ReadContent(q) ==
  /\ held[q] # Nothing /\ held[q].step = "status" /\ held[q].row.status \in Indexed
  /\ LET stored == row[held[q].listing]
     IN held' = [held EXCEPT ![q].step = "content",
                  ![q].seen = [status |-> held[q].seen.status, content |-> stored.content,
                               category |-> stored.category, search |-> stored.search]]
  /\ UNCHANGED vars

(* serializer.save(): every column of the instance. *)
WriteDraft(l, h, seen) ==
  /\ \E d \in Contents, c \in BOOLEAN :
       LET new == Saved([h EXCEPT !.draft = d, !.category = c])
       IN Commit(l, new, SaveSignal(seen, new))
  /\ UNCHANGED review

(* publish_listing: a whole-row save(), then the policy's transition_to in *)
(* the same transaction.                                                   *)
PublishSignal(seen, h) ==
  IF PublishedRow(h).status # Promoted(h).status THEN "published"
  ELSE SaveSignal(seen, Promoted(h))

WritePublication(l, h, seen) ==
  /\ \/ PublishableFrom(h.status) /\ h.draft \in Validated
     \/ \E s \in OwnerTransitions[h.status] : <<h.status, s>> \in RestoreEdges
  /\ MayPublish(h)
  /\ Commit(l, PublishedRow(h), PublishSignal(seen, h))
  /\ review' = [review EXCEPT ![l].case = "open"]

(* transition_to: the owner's edge, or the host's TTL sweep. *)
WriteMove(l, h) ==
  /\ h.life = "live"
  /\ \E s \in Transitions[h.status] :
       /\ s \in OwnerTransitions[h.status] \/ s = "expired"
       /\ <<h.status, s>> \notin RestoreEdges
       /\ CanMove(h, s)
       /\ Commit(l, MovedBy(row[l], h, s), Boundary(h.status, s))
  /\ UNCHANGED review

(* Mutation: destroy without its refusal of a live or queued listing. *)
WriteAnyDelete(l, h) ==
  /\ h.life = "live"
  /\ Commit(l, [row[l] EXCEPT !.life = "deleted"], "none")
  /\ UNCHANGED review

(* delete, behind the refusal of destroy. *)
WriteDelete(l, h) ==
  /\ h.life = "live"
  /\ h.status \notin {"published", "pending"}
  /\ Commit(l, [row[l] EXCEPT !.life = "deleted"], "none")
  /\ UNCHANGED review

(* apply_moderation: moderation_status always, and what transition_to      *)
(* writes when the status moves.                                           *)
VerdictOn(r, h, d) ==
  [MovedBy(r, h, Ruled(h, d).status) EXCEPT !.mod = IF d = "dismissed" THEN @ ELSE d]

WriteVerdict(l, h) ==
  \E d \in Decisions :
    /\ CanMove(h, VerdictTarget(h, d))
    /\ Commit(l, VerdictOn(row[l], h, d), Boundary(h.status, Ruled(h, d).status))
    /\ review' = IF d \in {"approved", "rejected"}
                 THEN [review EXCEPT ![l] = [case |-> "ruled", ruling |-> d]]
                 ELSE review

(* The two writes of save(), and those that decide on the instance alone. *)
Save(l, h, seen) == WriteDraft(l, h, seen) \/ WritePublication(l, h, seen)

Update(l, h, hasCase) ==
  WriteMove(l, h) \/ WriteDelete(l, h) \/ (hasCase /\ WriteVerdict(l, h))

Write(q) ==
  /\ held[q] # Nothing
  /\ LET l == held[q].listing
         h == held[q].row
     IN \/ /\ held[q].step = IF h.status \in Indexed THEN "content" ELSE "status"
           /\ Save(l, h, held[q].seen)
        \/ held[q].step = "loaded" /\ Update(l, h, held[q].hasCase)
  /\ Release(q)

StaleNext ==
  \/ \E l \in Listings : Open(l)
  \/ \E q \in Requests :
       \/ \E l \in Listings : Load(q, l)
       \/ ReadStatus(q)
       \/ ReadContent(q)
       \/ Abandon(q)
       \/ Write(q)

StaleSpec == StaleInit /\ [][StaleNext]_staleVars

-----------------------------------------------------------------------------
(* Properties. *)

(* The pre gate needs no lock: however stale the instance a request writes *)
(* back, no listing shows that no moderator has ever ruled on.             *)
GateSurvivesOverlap == NeverLiveUnreviewed

(* The index loses a listing, keeps one, or shows what the row no longer   *)
(* says only in a write decided on something that has moved since it was   *)
(* read: deleted_at, by any write; the status in the instance, by a move,  *)
(* a delete or a verdict; what the two detectors read, by a save.  An      *)
(* instance that is stale in any other column costs content, never the     *)
(* agreement of table and index.                                           *)
StaleWrite(q) ==
  LET h == held[q]
      now == row[h.listing]
  IN \/ h.row.life # now.life
     \/ h.step = "loaded" /\ h.row.status # now.status
     \/ h.step # "loaded" /\ h.seen.status # now.status
     \/ h.step = "content" /\ Document(h.seen) # Document(now)

OnlyAStaleReadMisleadsTheIndex ==
  [][\A l \in Listings :
       Agrees(l) /\ ~Agrees(l)'
         => \E q \in Requests :
              /\ held[q] # Nothing /\ held'[q] = Nothing
              /\ held[q].listing = l /\ StaleWrite(q)]_staleVars

(* One request at a time on each listing, and every write is one of the    *)
(* atomic operations of module Listing.                                    *)
SerialRequestsAreAtomic == Spec

-----------------------------------------------------------------------------
(* What the docstrings say and overlapping requests break. *)

(* delete(): "so a deleted listing is never left in a search index". *)
DeletedIsNotInTheIndex ==
  \A l \in Listings : row[l].life = "deleted" => index[l] = NoDoc

(* A takedown is left through the owner's draft or archive edges, or       *)
(* reversed by an approving verdict.                                       *)
TakedownIsKept ==
  [][\A l \in Listings :
       row[l].status = "blocked" /\ row'[l].status = "published"
         => review'[l].ruling = "approved"]_staleVars
=============================================================================
