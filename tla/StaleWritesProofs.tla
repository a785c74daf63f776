------------------------- MODULE StaleWritesProofs -------------------------
(***************************************************************************)
(* What overlapping requests can and cannot do, for any number of them.    *)
(*                                                                         *)
(* The gate: an instance that has been live was read from a row somebody   *)
(* had ruled on, and rulings are never taken back, so writing the instance *)
(* again is harmless (HeldWasReviewed is the strengthening).               *)
(*                                                                         *)
(* The refinement: with one request at a time on a listing, the instance   *)
(* and the row are the same until the write (HeldIsCurrent).               *)
(*                                                                         *)
(* The index: a move, a delete or a verdict whose instance has the row's   *)
(* status, and a save whose detectors read what is still there, announce   *)
(* enough, however stale the instance is otherwise (FreshWriteAgrees).     *)
(***************************************************************************)
EXTENDS StaleWrites, ListingProofs

(* transition_to writes the status it was told, on whatever row it finds.  *)
LEMMA MovedByKeeps ==
  ASSUME NEW r \in Row, NEW h \in Row, NEW s \in Statuses
  PROVE  /\ MovedBy(r, h, s) \in Row
         /\ MovedBy(r, h, s).life = r.life /\ MovedBy(r, h, s).mod = r.mod
         /\ s # h.status => MovedBy(r, h, s).status = s
         /\ s = h.status => MovedBy(r, h, s) = r
BY DEF MovedBy, Row

(* So does apply_moderation, with the verdict beside it. *)
LEMMA VerdictOnKeeps ==
  ASSUME NEW r \in Row, NEW h \in Row, NEW d \in Decisions
  PROVE  /\ VerdictOn(r, h, d) \in Row
         /\ VerdictOn(r, h, d).life = r.life
         /\ Ruled(h, d).status # h.status => VerdictOn(r, h, d).status = Ruled(h, d).status
         /\ Ruled(h, d).status = h.status => /\ VerdictOn(r, h, d).status = r.status
                                             /\ Document(VerdictOn(r, h, d)) = Document(r)
<1> DEFINE m == MovedBy(r, h, Ruled(h, d).status)
<1>1. Ruled(h, d).status \in Statuses /\ (d = "dismissed" \/ d \in ModerationStatuses)
  BY RuledIsRow DEF Row, Decisions, ModerationStatuses
<1>2. /\ m \in Row /\ m.life = r.life
      /\ Ruled(h, d).status # h.status => m.status = Ruled(h, d).status
      /\ Ruled(h, d).status = h.status => m = r
  BY <1>1, MovedByKeeps
<1>3. VerdictOn(r, h, d) = [m EXCEPT !.mod = IF d = "dismissed" THEN @ ELSE d]
  BY DEF VerdictOn
<1> HIDE DEF m
<1> QED BY <1>1, <1>2, <1>3 DEF Row, Document

(* What may be written from the instance h, by a save whose detectors have *)
(* read "seen" or by one of the others.                                    *)
Written(l, h, seen) == Save(l, h, seen) \/ Update(l, h, TRUE)

(* The row a write leaves behind. *)
LEMMA WriteCases ==
  ASSUME NEW q \in Requests, Write(q)
  PROVE  /\ held[q] # Nothing
         /\ held' = [held EXCEPT ![q] = Nothing]
         /\ LET l == held[q].listing
                h == held[q].row
            IN \/ /\ held[q].step = IF h.status \in Indexed THEN "content" ELSE "status"
                  /\ Save(l, h, held[q].seen)
               \/ held[q].step = "loaded" /\ Update(l, h, held[q].hasCase)
         /\ Written(held[q].listing, held[q].row, held[q].seen)
BY DEF Write, Release, Written, Update

(* A write is a commit of a well typed row and review. *)
LEMMA WriteType ==
  ASSUME TypeOK, NEW l \in Listings, NEW h \in Row, NEW seen, Written(l, h, seen)
  PROVE  TypeOK'
<1>0. row[l] \in Row
  BY DEF TypeOK
<1>1. CASE WriteDraft(l, h, seen)
  <2>1. PICK d \in Contents, c \in BOOLEAN :
          Commit(l, Saved([h EXCEPT !.draft = d, !.category = c]),
                 SaveSignal(seen, Saved([h EXCEPT !.draft = d, !.category = c])))
    BY <1>1 DEF WriteDraft
  <2>2. Saved([h EXCEPT !.draft = d, !.category = c]) \in Row
    BY EditIsRow
  <2> QED BY <1>1, <2>1, <2>2, CommitType DEF WriteDraft, TypeOK
<1>2. CASE WritePublication(l, h, seen)
  <2>1. PublishedRow(h) \in Row
    BY PublishedRowIsRow
  <2>2. review' \in [Listings -> Review]
    BY <1>2 DEF WritePublication, TypeOK, Review
  <2> QED BY <1>2, <2>1, <2>2, CommitType DEF WritePublication, TypeOK
<1>3. CASE WriteMove(l, h)
  <2>1. PICK s \in Transitions[h.status] :
          Commit(l, MovedBy(row[l], h, s), Boundary(h.status, s))
    BY <1>3 DEF WriteMove
  <2>2. s \in Statuses
    BY <2>1 DEF Transitions, Row, Statuses
  <2>3. MovedBy(row[l], h, s) \in Row
    BY <1>0, <2>2, MovedByKeeps
  <2> QED BY <1>3, <2>1, <2>3, CommitType DEF WriteMove, TypeOK
<1>4. CASE WriteDelete(l, h)
  <2>1. [row[l] EXCEPT !.life = "deleted"] \in Row
    BY <1>0 DEF Row
  <2> QED BY <1>4, <2>1, CommitType DEF WriteDelete, TypeOK
<1>5. CASE WriteVerdict(l, h)
  <2>1. PICK d \in Decisions :
          /\ Commit(l, VerdictOn(row[l], h, d), Boundary(h.status, Ruled(h, d).status))
          /\ review' = IF d \in {"approved", "rejected"}
                       THEN [review EXCEPT ![l] = [case |-> "ruled", ruling |-> d]]
                       ELSE review
    BY <1>5 DEF WriteVerdict
  <2>2. VerdictOn(row[l], h, d) \in Row
    BY <1>0, VerdictOnKeeps
  <2>3. review' \in [Listings -> Review]
    BY <2>1 DEF TypeOK, Review
  <2> QED BY <2>1, <2>2, <2>3, CommitType DEF TypeOK
<1> QED BY <1>1, <1>2, <1>3, <1>4, <1>5 DEF Written, Save, Update

(* A create is well typed. *)
LEMMA OpenType ==
  ASSUME TypeOK, NEW l \in Listings, Create(l)
  PROVE  TypeOK'
<1>1. [Next]_vars
  BY DEF Next
<1> QED BY <1>1, TypeStep

(* Every step keeps the types, the instances in hand included. *)
LEMMA StaleTypeStep == StaleTypeOK /\ [StaleNext]_staleVars => StaleTypeOK'
<1> SUFFICES ASSUME StaleTypeOK, [StaleNext]_staleVars PROVE StaleTypeOK'
  OBVIOUS
<1> USE DEF StaleTypeOK
<1>1. CASE UNCHANGED staleVars
  BY <1>1 DEF staleVars, TypeOK
<1>2. ASSUME NEW l \in Listings, Open(l) PROVE StaleTypeOK'
  BY <1>2, OpenType DEF Open
<1>3. ASSUME NEW q \in Requests, NEW l \in Listings, Load(q, l) PROVE StaleTypeOK'
  <2>1. [listing |-> l, row |-> row[l], hasCase |-> review[l].case # "none",
         step |-> "loaded", seen |-> NothingSeen] \in Instance
    BY DEF Instance, TypeOK, Seen, NothingSeen, Statuses
  <2>2. TypeOK'
    BY <1>3 DEF Load, vars, TypeOK
  <2> QED BY <1>3, <2>1, <2>2 DEF Load
<1>4. ASSUME NEW q \in Requests, Abandon(q) PROVE StaleTypeOK'
  BY <1>4 DEF Abandon, Release, vars, TypeOK
<1>5. ASSUME NEW q \in Requests, Write(q) PROVE StaleTypeOK'
  <2>1. held[q] \in Instance /\ held' \in [Requests -> Instance \cup {Nothing}]
    BY <1>5, WriteCases
  <2>2. held[q].listing \in Listings /\ held[q].row \in Row
    BY <2>1 DEF Instance
  <2>3. TypeOK'
    BY <1>5, <2>2, WriteCases, WriteType
  <2> QED BY <2>1, <2>3
<1>6. ASSUME NEW q \in Requests, ReadStatus(q) PROVE StaleTypeOK'
  <2>1. held[q] \in Instance /\ row[held[q].listing].status \in Statuses
    BY <1>6 DEF ReadStatus, Instance, TypeOK, Row
  <2>2. [held[q] EXCEPT !.step = "status",
           !.seen.status = row[held[q].listing].status] \in Instance
    BY <2>1 DEF Instance, Seen
  <2> QED BY <1>6, <2>2 DEF ReadStatus, vars, TypeOK
<1>7. ASSUME NEW q \in Requests, ReadContent(q) PROVE StaleTypeOK'
  <2>1. held[q] \in Instance /\ row[held[q].listing] \in Row
    BY <1>7 DEF ReadContent, Instance, TypeOK
  <2> DEFINE stored == row[held[q].listing]
             new == [held[q] EXCEPT !.step = "content",
                       !.seen = [status |-> held[q].seen.status, content |-> stored.content,
                                 category |-> stored.category, search |-> stored.search]]
  <2>2. new \in Instance
    BY <2>1 DEF Instance, Seen, Row
  <2>3. held' = [held EXCEPT ![q] = new] /\ UNCHANGED vars
    BY <1>7 DEF ReadContent
  <2> HIDE DEF new
  <2> QED BY <2>2, <2>3 DEF vars, TypeOK
<1> QED BY <1>1, <1>2, <1>3, <1>4, <1>5, <1>6, <1>7 DEF StaleNext

(* Type correctness of the overlapping requests. *)
LEMMA StaleTypeCorrect == StaleSpec => []StaleTypeOK
<1>1. StaleInit => StaleTypeOK
  BY AbsentIsRow DEF StaleInit, StaleTypeOK, Init, TypeOK, NoReview, Review
<1> QED BY <1>1, StaleTypeStep, PTL DEF StaleSpec

-----------------------------------------------------------------------------
(* The gate. *)

HeldWasReviewed ==
  Moderated =>
    \A q \in Requests :
      held[q] # Nothing /\ held[q].row.status \in BeenLive
        => review[held[q].listing].ruling # "none"

GateInv == NeverLiveUnreviewed /\ HeldWasReviewed

(* What a write does to the status of its row, and to the rulings. *)
LEMMA WriteAxes ==
  ASSUME TypeOK, Moderated, NEW l \in Listings, NEW h \in Row, NEW seen, Written(l, h, seen)
  PROVE  /\ \A k \in Listings : k # l => row'[k] = row[k]
         /\ \A k \in Listings : review[k].ruling # "none" => review'[k].ruling # "none"
         /\ row'[l].status \in BeenLive =>
              \/ h.status \in BeenLive \/ row[l].status \in BeenLive
              \/ review'[l].ruling # "none"
<1>0. row[l] \in Row /\ \A k \in Listings : review[k] \in Review
  BY DEF TypeOK
<1>1. CASE WriteDraft(l, h, seen)
  <2>1. PICK d \in Contents, c \in BOOLEAN :
          Commit(l, Saved([h EXCEPT !.draft = d, !.category = c]),
                 SaveSignal(seen, Saved([h EXCEPT !.draft = d, !.category = c])))
    BY <1>1 DEF WriteDraft
  <2>2. Saved([h EXCEPT !.draft = d, !.category = c]).status = h.status
    BY EditIsRow
  <2> QED BY <1>1, <2>1, <2>2, CommitOne DEF WriteDraft
<1>2. CASE WritePublication(l, h, seen)
  <2>1. \A k \in Listings : row'[k] = IF k = l THEN PublishedRow(h) ELSE row[k]
    BY <1>2, CommitOne DEF WritePublication
  <2>2. PublishedRow(h).status \in BeenLive => h.status \in BeenLive
    BY PublishedRowStatus DEF Moderated, BeenLive
  <2>3. \A k \in Listings : review'[k].ruling = review[k].ruling
    BY <1>0, <1>2 DEF WritePublication, TypeOK, Review
  <2> QED BY <2>1, <2>2, <2>3
<1>3. CASE WriteMove(l, h)
  <2>1. PICK s \in Transitions[h.status] :
          /\ s \in OwnerTransitions[h.status] \/ s = "expired"
          /\ <<h.status, s>> \notin RestoreEdges
          /\ Commit(l, MovedBy(row[l], h, s), Boundary(h.status, s))
    BY <1>3 DEF WriteMove
  <2>2. h.status \in Statuses /\ s \in Statuses
    BY <2>1 DEF Transitions, Row, Statuses
  <2>3. s \in BeenLive => h.status \in BeenLive
    BY <2>1, <2>2, MoveTargets DEF LegalMove, Moderated
  <2>4. \A k \in Listings : row'[k] = IF k = l THEN MovedBy(row[l], h, s) ELSE row[k]
    BY <2>1, CommitOne
  <2>5. MovedBy(row[l], h, s).status \in {row[l].status, s}
    BY <1>0, <2>2, MovedByKeeps
  <2> QED BY <1>3, <2>3, <2>4, <2>5 DEF WriteMove
<1>4. CASE WriteDelete(l, h)
  <2>1. [row[l] EXCEPT !.life = "deleted"].status = row[l].status
    BY <1>0 DEF Row
  <2> QED BY <1>4, <2>1, CommitOne DEF WriteDelete
<1>5. CASE WriteVerdict(l, h)
  <2>1. PICK d \in Decisions :
          /\ Commit(l, VerdictOn(row[l], h, d), Boundary(h.status, Ruled(h, d).status))
          /\ review' = IF d \in {"approved", "rejected"}
                       THEN [review EXCEPT ![l] = [case |-> "ruled", ruling |-> d]]
                       ELSE review
    BY <1>5 DEF WriteVerdict
  <2>2. \A k \in Listings : row'[k] = IF k = l THEN VerdictOn(row[l], h, d) ELSE row[k]
    BY <2>1, CommitOne
  <2>3. CASE d \in {"approved", "rejected"}
    <3>1. review' = [review EXCEPT ![l] = [case |-> "ruled", ruling |-> d]]
      BY <2>1, <2>3
    <3>2. review'[l].ruling = d /\ d # "none"
      BY <2>3, <3>1 DEF TypeOK
    <3>3. \A k \in Listings : k # l => review'[k] = review[k]
      BY <3>1 DEF TypeOK
    <3> QED BY <2>2, <3>2, <3>3
  <2>4. CASE d \notin {"approved", "rejected"}
    <3>1. review' = review /\ Ruled(h, d).status = h.status
      BY <2>1, <2>4, RuledAxes
    <3>2. VerdictOn(row[l], h, d).status = row[l].status
      BY <1>0, <3>1, VerdictOnKeeps
    <3> QED BY <2>2, <3>1, <3>2
  <2> QED BY <2>3, <2>4
<1> QED BY <1>1, <1>2, <1>3, <1>4, <1>5 DEF Written, Save, Update

(* Every step keeps the gate, and what the instances in hand say of it. *)
LEMMA GateInvStep == StaleTypeOK /\ GateInv /\ [StaleNext]_staleVars => GateInv'
<1> SUFFICES ASSUME StaleTypeOK, GateInv, [StaleNext]_staleVars, Moderated
             PROVE  /\ \A l \in Listings :
                         row'[l].status \in BeenLive => review'[l].ruling # "none"
                    /\ \A q \in Requests :
                         held'[q] # Nothing /\ held'[q].row.status \in BeenLive
                           => review'[held'[q].listing].ruling # "none"
  BY DEF GateInv, NeverLiveUnreviewed, HeldWasReviewed, Moderated
<1>0. /\ TypeOK
      /\ \A l \in Listings : row[l].status \in BeenLive => review[l].ruling # "none"
      /\ \A q \in Requests :
           held[q] # Nothing =>
             /\ held[q].listing \in Listings /\ held[q].row \in Row
             /\ held[q].row.status \in BeenLive
                  => review[held[q].listing].ruling # "none"
  BY DEF StaleTypeOK, Instance, GateInv, NeverLiveUnreviewed, HeldWasReviewed
<1>1. CASE UNCHANGED staleVars
  BY <1>0, <1>1 DEF staleVars
<1>2. ASSUME NEW l \in Listings, Open(l)
      PROVE  /\ review' = review /\ held' = held
             /\ \A k \in Listings : row'[k].status \in BeenLive => row[k].status \in BeenLive
  <2>1. PICK d \in Contents, c \in BOOLEAN :
          Commit(l, [Absent EXCEPT !.life = "live", !.category = c, !.draft = d], "none")
    BY <1>2 DEF Open, Create
  <2>2. [Absent EXCEPT !.life = "live", !.category = c, !.draft = d].status = "draft"
    BY DEF Absent
  <2>3. review' = review /\ held' = held
    BY <1>2 DEF Open, Create
  <2>4. ASSUME NEW k \in Listings, row'[k].status \in BeenLive
        PROVE  row[k].status \in BeenLive
    <3> DEFINE new == [Absent EXCEPT !.life = "live", !.category = c, !.draft = d]
    <3>1. row'[k] = IF k = l THEN new ELSE row[k]
      BY <1>0, <2>1, CommitOne
    <3>2. new.status = "draft"
      BY <2>2
    <3> HIDE DEF new
    <3> QED BY <2>4, <3>1, <3>2 DEF BeenLive
  <2> QED BY <2>3, <2>4
<1>3. ASSUME NEW q \in Requests, NEW l \in Listings, Load(q, l)
      PROVE  /\ row' = row /\ review' = review
             /\ \A p \in Requests :
                  \/ held'[p] = held[p]
                  \/ held'[p].listing = l /\ held'[p].row = row[l]
  BY <1>3 DEF Load, vars, StaleTypeOK
<1>4. ASSUME NEW q \in Requests, Abandon(q)
      PROVE  /\ row' = row /\ review' = review
             /\ \A p \in Requests : held'[p] = held[p] \/ held'[p] = Nothing
  BY <1>4 DEF Abandon, Release, vars, StaleTypeOK
<1>5. ASSUME NEW q \in Requests, Write(q)
      PROVE  /\ \A p \in Requests : held'[p] = held[p] \/ held'[p] = Nothing
             /\ \A k \in Listings : review[k].ruling # "none" => review'[k].ruling # "none"
             /\ \A k \in Listings :
                  row'[k].status \in BeenLive => review'[k].ruling # "none"
  <2> DEFINE l == held[q].listing
             h == held[q].row
  <2>1. held[q] # Nothing /\ held' = [held EXCEPT ![q] = Nothing]
    BY <1>5, WriteCases
  <2>2. l \in Listings /\ h \in Row
        /\ (h.status \in BeenLive => review[l].ruling # "none")
    BY <1>0, <2>1
  <2>3. Written(l, h, held[q].seen)
    BY <1>5, WriteCases
  <2>4. \A p \in Requests : held'[p] = held[p] \/ held'[p] = Nothing
    BY <2>1 DEF StaleTypeOK
  <2> HIDE DEF l, h
  <2> QED BY <1>0, <2>2, <2>3, <2>4, WriteAxes
<1>6. ASSUME NEW q \in Requests, ReadStatus(q) \/ ReadContent(q)
      PROVE  /\ row' = row /\ review' = review
             /\ \A p \in Requests :
                  held'[p] # Nothing =>
                    /\ held[p] # Nothing
                    /\ held'[p].listing = held[p].listing /\ held'[p].row = held[p].row
  <2>1. held[q] # Nothing /\ held[q] \in Instance
    BY <1>6 DEF ReadStatus, ReadContent, StaleTypeOK
  <2> QED BY <1>6, <2>1 DEF ReadStatus, ReadContent, vars, StaleTypeOK, Instance
<1> QED BY <1>0, <1>1, <1>2, <1>3, <1>4, <1>5, <1>6 DEF StaleNext

(* Under the pre gate no listing is shown before a moderator has ruled on  *)
(* it, however many requests overlap on it and however old the instances   *)
(* are that they write back.                                               *)
THEOREM GateNeedsNoLock == StaleSpec => []GateSurvivesOverlap
<1>1. StaleInit => GateInv
  BY DEF StaleInit, Init, GateInv, NeverLiveUnreviewed, HeldWasReviewed, BeenLive, Absent
<1>2. GateInv => GateSurvivesOverlap
  BY DEF GateInv, GateSurvivesOverlap
<1> QED BY <1>1, <1>2, StaleTypeCorrect, GateInvStep, PTL DEF StaleSpec

-----------------------------------------------------------------------------
(* One request at a time. *)

HeldIsCurrent ==
  \A q \in Requests :
    held[q] # Nothing =>
      /\ held[q].row = row[held[q].listing]
      /\ held[q].row.life # "absent"
      /\ held[q].hasCase => review[held[q].listing].case # "none"
      /\ held[q].step # "loaded" =>
           held[q].row.life = "live" /\ held[q].seen.status = held[q].row.status
      /\ held[q].step = "content" => Document(held[q].seen) = Document(held[q].row)
      /\ \A p \in Requests :
           p # q /\ held[p] # Nothing => held[p].listing # held[q].listing

(* A save announces what its detectors' reading calls for, and reads the   *)
(* indexed columns only where they decide.                                 *)
LEMMA SeenSignal ==
  ASSUME NEW seen, NEW old, NEW new, seen.status = old.status,
         new.status \in Indexed => Document(seen) = Document(old)
  PROVE  SaveSignal(seen, new) = SaveSignal(old, new)
BY DEF SaveSignal, ContentChanged, Boundary

(* publish_listing saves a row of the instance's side of the boundary.     *)
LEMMA PromotedSide ==
  ASSUME NEW h \in Row
  PROVE  Promoted(h).status \in Indexed <=> h.status \in Indexed
<1>1. Promoted(h).status = IF h.status \in Indexed THEN h.status ELSE "pending"
  BY DEF Promoted, Saved, Row
<1> QED BY <1>1 DEF Indexed

LEMMA SeenPublishSignal ==
  ASSUME NEW seen, NEW old, NEW h \in Row, seen.status = old.status,
         h.status \in Indexed => Document(seen) = Document(old)
  PROVE  PublishSignal(seen, h) = PublishSignal(old, h)
BY SeenSignal, PromotedSide DEF PublishSignal

(* Of two rows of one status publish_listing shows the same document.      *)
LEMMA PublishedDocument ==
  ASSUME NEW h \in Row
  PROVE  /\ PublishedRow(h).status = Promoted(h).status
              => Document(PublishedRow(h)) = Document(Promoted(h))
         /\ PublishedRow(h).status \in {Promoted(h).status, "published"}
<1>1. Promoted(h) \in Row
  BY PromotedIsRow
<1>2. /\ Ruled(Promoted(h), "approved").status = Promoted(h).status
           => Document(Ruled(Promoted(h), "approved")) = Document(Promoted(h))
      /\ Ruled(Promoted(h), "approved").status \in {Promoted(h).status, "published"}
  BY <1>1, RuledKeeps DEF Decisions, VerdictTarget
<1>3. /\ Moved(Promoted(h), "published").status = "published"
      /\ Promoted(h).status = "published" => Moved(Promoted(h), "published") = Promoted(h)
  BY <1>1, MovedKeeps DEF Statuses
<1> QED BY <1>2, <1>3 DEF PublishedRow

(* publish_listing announces what the one step of Listing announces. *)
LEMMA PublishSignalIsSaveSignal ==
  ASSUME NEW r \in Row
  PROVE  PublishSignal(r, r) = SaveSignal(r, PublishedRow(r))
<1>1. /\ Promoted(r) \in Row
      /\ Promoted(r).status = IF r.status = "published" THEN "published" ELSE "pending"
  BY PromotedIsRow DEF Promoted, Saved, Row, Indexed
<1>2. CASE PublishedRow(r).status = Promoted(r).status
  <2>1. Document(PublishedRow(r)) = Document(Promoted(r))
    BY <1>2, PublishedDocument
  <2> QED BY <1>2, <2>1 DEF PublishSignal, SaveSignal, ContentChanged
<1>3. CASE PublishedRow(r).status # Promoted(r).status
  <2>1. r.status # "published" /\ PublishedRow(r).status = "published"
    BY <1>1, <1>3, PublishedDocument
  <2> QED BY <1>3, <2>1 DEF PublishSignal, SaveSignal, Boundary, Indexed
<1> QED BY <1>2, <1>3

(* A write whose instance is the row, and a save whose detectors have read *)
(* the row as it is, are operations of module Listing.                     *)
LEMMA CurrentWriteIsAtomic ==
  ASSUME TypeOK, NEW l \in Listings, row[l].life # "absent", NEW seen,
         \/ /\ row[l].life = "live" /\ Save(l, row[l], seen)
            /\ seen.status = row[l].status
            /\ row[l].status \in Indexed => Document(seen) = Document(row[l])
         \/ Update(l, row[l], review[l].case # "none")
  PROVE  Next
<1>0. row[l] \in Row
  BY DEF TypeOK
<1>1. CASE /\ row[l].life = "live" /\ WriteDraft(l, row[l], seen)
           /\ seen.status = row[l].status
           /\ row[l].status \in Indexed => Document(seen) = Document(row[l])
  <2>1. PICK d \in Contents, c \in BOOLEAN :
          Commit(l, Saved([row[l] EXCEPT !.draft = d, !.category = c]),
                 SaveSignal(seen, Saved([row[l] EXCEPT !.draft = d, !.category = c])))
    BY <1>1 DEF WriteDraft
  <2> DEFINE new == Saved([row[l] EXCEPT !.draft = d, !.category = c])
  <2>2. new.status = row[l].status
    BY <1>0, EditIsRow
  <2>3. Commit(l, new, SaveSignal(seen, new))
    BY <2>1
  <2> HIDE DEF new
  <2>4. Commit(l, new, SaveSignal(row[l], new))
    BY <1>1, <2>2, <2>3, SeenSignal
  <2>5. SaveDraft(l)
    BY <1>1, <2>4 DEF SaveDraft, WriteDraft, new
  <2> QED BY <2>5 DEF Next
<1>2. CASE /\ row[l].life = "live" /\ WritePublication(l, row[l], seen)
           /\ seen.status = row[l].status
           /\ row[l].status \in Indexed => Document(seen) = Document(row[l])
  <2>1. PublishSignal(seen, row[l]) = SaveSignal(row[l], PublishedRow(row[l]))
    BY <1>0, <1>2, SeenPublishSignal, PublishSignalIsSaveSignal
  <2>2. PublishListing(l)
    BY <1>2, <2>1 DEF WritePublication, PublishListing
  <2> QED BY <1>2, <2>2 DEF WritePublication, Publish, Resubmit, Next
<1>3. CASE WriteMove(l, row[l])
  <2>1. PICK s \in Transitions[row[l].status] :
          /\ s \in OwnerTransitions[row[l].status] \/ s = "expired"
          /\ <<row[l].status, s>> \notin RestoreEdges
          /\ CanMove(row[l], s)
          /\ Commit(l, MovedBy(row[l], row[l], s), Boundary(row[l].status, s))
    BY <1>3 DEF WriteMove
  <2>2. s \in Statuses
    BY <1>0, <2>1 DEF Transitions, Row, Statuses
  <2>3. OwnerMove(l, s) \/ HostExpire(l)
    BY <1>3, <2>1 DEF WriteMove, OwnerMove, HostExpire, Moved
  <2> QED BY <2>2, <2>3 DEF Next
<1>4. CASE WriteDelete(l, row[l])
  BY <1>4 DEF WriteDelete, Destroy, Next
<1>5. CASE review[l].case # "none" /\ WriteVerdict(l, row[l])
  <2>1. PICK d \in Decisions :
          /\ CanMove(row[l], VerdictTarget(row[l], d))
          /\ Commit(l, VerdictOn(row[l], row[l], d),
                    Boundary(row[l].status, Ruled(row[l], d).status))
          /\ review' = IF d \in {"approved", "rejected"}
                       THEN [review EXCEPT ![l] = [case |-> "ruled", ruling |-> d]]
                       ELSE review
    BY <1>5 DEF WriteVerdict
  <2>2. VerdictOn(row[l], row[l], d) = Ruled(row[l], d)
    <3>1. CASE d = "dismissed"
      BY <1>0, <3>1 DEF VerdictOn, MovedBy, Ruled, Row
    <3>2. CASE d # "dismissed"
      <4>1. Ruled(row[l], d).status = VerdictTarget(row[l], d)
        BY <1>0, <3>2, RuledKeeps
      <4> QED BY <3>2, <4>1 DEF VerdictOn, Ruled, Moved
    <3> QED BY <3>1, <3>2
  <2>3. Verdict(l, d)
    BY <1>5, <2>1, <2>2 DEF Verdict
  <2> QED BY <2>3 DEF Next
<1> QED BY <1>1, <1>2, <1>3, <1>4, <1>5 DEF Save, Update

(* A write changes one row, and closes no case. *)
LEMMA WriteOne ==
  ASSUME TypeOK, NEW l \in Listings, NEW h \in Row, NEW seen, Written(l, h, seen)
  PROVE  \A k \in Listings :
           /\ k # l => row'[k] = row[k]
           /\ review[k].case # "none" => review'[k].case # "none"
<1>1. ASSUME NEW r, NEW s, Commit(l, r, s), NEW k \in Listings, k # l
      PROVE  row'[k] = row[k]
  BY <1>1, CommitOne
<1>2. CASE WriteDraft(l, h, seen)
  BY <1>1, <1>2 DEF WriteDraft
<1>3. CASE WritePublication(l, h, seen)
  BY <1>1, <1>3 DEF WritePublication, TypeOK, Review
<1>4. CASE WriteMove(l, h)
  BY <1>1, <1>4 DEF WriteMove
<1>5. CASE WriteDelete(l, h)
  BY <1>1, <1>5 DEF WriteDelete
<1>6. CASE WriteVerdict(l, h)
  <2>1. \A k \in Listings : k # l => row'[k] = row[k]
    BY <1>1, <1>6 DEF WriteVerdict
  <2>2. \/ review' = review
        \/ \E d \in Decisions : review' = [review EXCEPT ![l] = [case |-> "ruled", ruling |-> d]]
    BY <1>6 DEF WriteVerdict
  <2>3. \A k \in Listings : review'[k] = review[k] \/ review'[k].case = "ruled"
    BY <2>2 DEF TypeOK
  <2> QED BY <2>1, <2>3
<1> QED BY <1>2, <1>3, <1>4, <1>5, <1>6 DEF Written, Save, Update

(* A detector's reading of the row the instance still is. *)
LEMMA HeldOneMore ==
  ASSUME StaleTypeOK, HeldIsCurrent, NEW q \in Requests, held[q] # Nothing,
         held[q].row.life = "live", NEW new,
         new.listing = held[q].listing, new.row = held[q].row,
         new.hasCase = held[q].hasCase, new.step # "loaded",
         new.seen.status = new.row.status,
         new.step = "content" => Document(new.seen) = Document(new.row),
         held' = [held EXCEPT ![q] = new], UNCHANGED vars
  PROVE  HeldIsCurrent' /\ [Next]_vars
<1>1. /\ held'[q] = new
      /\ \A p \in Requests : p # q => held'[p] = held[p]
      /\ row' = row /\ review' = review
  BY DEF StaleTypeOK, vars
<1>2. \A p \in Requests : held'[p] # Nothing =>
        held[p] # Nothing /\ held'[p].listing = held[p].listing
  BY <1>1
<1>3. ASSUME NEW p \in Requests, held'[p] # Nothing
      PROVE  /\ held'[p].row = row'[held'[p].listing]
             /\ held'[p].row.life # "absent"
             /\ held'[p].hasCase => review'[held'[p].listing].case # "none"
             /\ held'[p].step # "loaded" =>
                  held'[p].row.life = "live" /\ held'[p].seen.status = held'[p].row.status
             /\ held'[p].step = "content" => Document(held'[p].seen) = Document(held'[p].row)
  <2>1. CASE p = q
    BY <1>1, <2>1 DEF HeldIsCurrent
  <2>2. CASE p # q
    BY <1>1, <1>3, <2>2 DEF HeldIsCurrent
  <2> QED BY <2>1, <2>2
<1>4. ASSUME NEW p \in Requests, NEW o \in Requests, o # p,
             held'[p] # Nothing, held'[o] # Nothing
      PROVE  held'[o].listing # held'[p].listing
  BY <1>2, <1>4 DEF HeldIsCurrent
<1> QED BY <1>3, <1>4 DEF HeldIsCurrent

(* With one request per listing, every step is a step of Listing or a stutter. *)
LEMMA SerialStep ==
  ASSUME ~Overlap, StaleTypeOK, HeldIsCurrent, [StaleNext]_staleVars
  PROVE  HeldIsCurrent' /\ [Next]_vars
<1> USE DEF HeldIsCurrent
<1>0. \A q \in Requests : held[q] # Nothing => held[q].listing \in Listings
  BY DEF StaleTypeOK, Instance
<1>1. CASE UNCHANGED staleVars
  BY <1>1 DEF staleVars, vars
<1>2. ASSUME NEW l \in Listings, Open(l) PROVE HeldIsCurrent' /\ [Next]_vars
  <2>1. Next /\ held' = held /\ review' = review /\ row[l].life = "absent"
    BY <1>2 DEF Open, Create, Next
  <2>2. PICK d \in Contents, c \in BOOLEAN :
          Commit(l, [Absent EXCEPT !.life = "live", !.category = c, !.draft = d], "none")
    BY <1>2 DEF Open, Create
  <2>4. \A k \in Listings : k # l => row'[k] = row[k]
    BY <2>2, CommitOne DEF StaleTypeOK
  <2>3. \A q \in Requests : held[q] # Nothing => held[q].listing # l
    BY <2>1
  <2> QED BY <1>0, <2>1, <2>4, <2>3
<1>3. ASSUME NEW q \in Requests, NEW l \in Listings, Load(q, l)
      PROVE  HeldIsCurrent' /\ [Next]_vars
  <2>1. \A p \in Requests : held[p] # Nothing => held[p].listing # l
    BY <1>3 DEF Load, Busy
  <2>2. /\ row' = row /\ review' = review /\ index' = index
        /\ row[l].life # "absent"
        /\ held'[q] = [listing |-> l, row |-> row[l], hasCase |-> review[l].case # "none",
                        step |-> "loaded", seen |-> NothingSeen]
        /\ \A p \in Requests : p # q => held'[p] = held[p]
    BY <1>3 DEF Load, vars, StaleTypeOK
  <2>3. /\ held'[q].listing = l /\ held'[q].row = row[l] /\ held'[q].step = "loaded"
        /\ held'[q].hasCase => review[l].case # "none"
    <3> DEFINE c == review[l].case # "none"
    <3>1. held'[q] = [listing |-> l, row |-> row[l], hasCase |-> c,
                      step |-> "loaded", seen |-> NothingSeen]
      BY <2>2
    <3> HIDE DEF c
    <3>2. held'[q].hasCase = c
      BY <3>1
    <3>3. held'[q].hasCase => review[l].case # "none"
      BY <3>2, Zenon DEF c
    <3> QED BY <3>1, <3>3
  <2>4. [Next]_vars
    BY <2>2 DEF vars
  <2>5. ASSUME NEW p \in Requests, held'[p] # Nothing
        PROVE  /\ held'[p].row = row'[held'[p].listing]
               /\ held'[p].row.life # "absent"
               /\ held'[p].hasCase => review'[held'[p].listing].case # "none"
               /\ held'[p].step # "loaded" =>
                    held'[p].row.life = "live" /\ held'[p].seen.status = held'[p].row.status
               /\ held'[p].step = "content"
                    => Document(held'[p].seen) = Document(held'[p].row)
    BY <2>2, <2>3, <2>5
  <2>6. ASSUME NEW p \in Requests, NEW o \in Requests, o # p,
               held'[p] # Nothing, held'[o] # Nothing
        PROVE  held'[o].listing # held'[p].listing
    BY <2>1, <2>2, <2>3, <2>6
  <2> QED BY <2>4, <2>5, <2>6
<1>4. ASSUME NEW q \in Requests, Abandon(q) PROVE HeldIsCurrent' /\ [Next]_vars
  <2>1. /\ row' = row /\ review' = review /\ index' = index
        /\ \A p \in Requests : held'[p] = held[p] \/ held'[p] = Nothing
    BY <1>4 DEF Abandon, Release, vars, StaleTypeOK
  <2> QED BY <2>1 DEF vars
<1>5. ASSUME NEW q \in Requests, Write(q) PROVE HeldIsCurrent' /\ [Next]_vars
  <2> DEFINE l == held[q].listing
  <2>1. /\ held[q] # Nothing
        /\ held'[q] = Nothing
        /\ \A p \in Requests : p # q => held'[p] = held[p]
    BY <1>5, WriteCases DEF StaleTypeOK
  <2>2. /\ l \in Listings /\ held[q].row = row[l] /\ row[l].life # "absent"
        /\ row[l] \in Row
        /\ held[q].hasCase => review[l].case # "none"
        /\ \A p \in Requests : p # q /\ held[p] # Nothing => held[p].listing # l
    BY <1>0, <2>1 DEF StaleTypeOK, TypeOK
  <2> DEFINE seen == held[q].seen
  <2>3. \/ /\ row[l].life = "live" /\ Save(l, row[l], seen)
           /\ seen.status = row[l].status
           /\ row[l].status \in Indexed => Document(seen) = Document(row[l])
        \/ Update(l, row[l], review[l].case # "none")
    <3>1. CASE /\ held[q].step = IF row[l].status \in Indexed THEN "content" ELSE "status"
               /\ Save(l, row[l], seen)
      BY <2>1, <2>2, <3>1
    <3>2. CASE Update(l, row[l], held[q].hasCase)
      BY <2>2, <3>2 DEF Update
    <3> QED BY <1>5, <2>2, <3>1, <3>2, WriteCases
  <2>3a. Written(l, row[l], seen)
    BY <1>5, <2>2, WriteCases
  <2> HIDE DEF l, seen
  <2>4. Next
    BY <2>2, <2>3, CurrentWriteIsAtomic DEF StaleTypeOK
  <2>5. \A k \in Listings :
          /\ k # l => row'[k] = row[k]
          /\ review[k].case # "none" => review'[k].case # "none"
    BY <2>2, <2>3a, WriteOne DEF StaleTypeOK
  <2> QED BY <1>0, <2>1, <2>2, <2>4, <2>5 DEF l
<1>6. ASSUME NEW q \in Requests, ReadStatus(q) PROVE HeldIsCurrent' /\ [Next]_vars
  <2>1. held[q] # Nothing /\ held[q] \in Instance /\ held[q].row.life = "live"
    BY <1>6 DEF ReadStatus, StaleTypeOK
  <2>2. held[q].row = row[held[q].listing]
    BY <2>1
  <2> DEFINE new == [held[q] EXCEPT !.step = "status",
                       !.seen.status = row[held[q].listing].status]
  <2>3. /\ new.listing = held[q].listing /\ new.row = held[q].row
        /\ new.hasCase = held[q].hasCase /\ new.step = "status"
        /\ new.seen.status = new.row.status
    BY <2>1, <2>2 DEF Instance, Seen
  <2>4. held' = [held EXCEPT ![q] = new] /\ UNCHANGED vars
    BY <1>6 DEF ReadStatus
  <2> HIDE DEF new
  <2> QED BY <2>1, <2>3, <2>4, HeldOneMore
<1>7. ASSUME NEW q \in Requests, ReadContent(q) PROVE HeldIsCurrent' /\ [Next]_vars
  <2>1. /\ held[q] # Nothing /\ held[q] \in Instance /\ held[q].row.life = "live"
        /\ held[q].seen.status = held[q].row.status
    BY <1>7 DEF ReadContent, StaleTypeOK
  <2>2. held[q].row = row[held[q].listing]
    BY <2>1
  <2> DEFINE stored == row[held[q].listing]
             new == [held[q] EXCEPT !.step = "content",
                       !.seen = [status |-> held[q].seen.status, content |-> stored.content,
                                 category |-> stored.category, search |-> stored.search]]
  <2>3. /\ new.listing = held[q].listing /\ new.row = held[q].row
        /\ new.hasCase = held[q].hasCase /\ new.step = "content"
        /\ new.seen.status = new.row.status
        /\ Document(new.seen) = Document(new.row)
    BY <2>1, <2>2 DEF Instance, Document
  <2>4. held' = [held EXCEPT ![q] = new] /\ UNCHANGED vars
    BY <1>7 DEF ReadContent
  <2> HIDE DEF new
  <2> QED BY <2>1, <2>3, <2>4, HeldOneMore
<1> QED BY <1>1, <1>2, <1>3, <1>4, <1>5, <1>6, <1>7 DEF StaleNext

(* With one request at a time on each listing, every write of the split    *)
(* requests is one of the atomic operations of module Listing: whatever is *)
(* proved of its Spec holds of a deployment that serialises them.          *)
THEOREM SerialRefinement ==
  ASSUME ~Overlap
  PROVE  StaleSpec => SerialRequestsAreAtomic
<1>1. StaleInit => HeldIsCurrent /\ Init
  BY DEF StaleInit, HeldIsCurrent
<1>2. StaleTypeOK /\ HeldIsCurrent /\ [StaleNext]_staleVars => HeldIsCurrent' /\ [Next]_vars
  BY SerialStep
<1> QED BY <1>1, <1>2, StaleTypeCorrect, PTL DEF StaleSpec, SerialRequestsAreAtomic, Spec

-----------------------------------------------------------------------------
(* What misleads the index. *)

(* CommitAgrees of ListingProofs for one listing, whatever the others are. *)
LEMMA CommitKeepsAgreement ==
  ASSUME TypeOK, NEW l \in Listings, NEW r \in Row, NEW s,
         Commit(l, r, s), Heard(row[l], r, s)
  PROVE  \A k \in Listings : Agrees(k) => Agrees(k)'
<1> SUFFICES ASSUME NEW k \in Listings, Agrees(k) PROVE Agrees(k)'
  OBVIOUS
<1>1. row'[k] = IF k = l THEN r ELSE row[k]
  BY CommitOne
<1>2. index'[k] = IF k # l THEN index[k]
                  ELSE IF s \in {"published", "updated"} THEN Pull(r)
                  ELSE IF s = "removed" THEN NoDoc ELSE index[l]
  BY DEF Commit, TypeOK
<1>3. CASE k # l
  BY <1>1, <1>2, <1>3 DEF Agrees, Public
<1>4. CASE k = l /\ s \in {"published", "updated"}
  <2>1. /\ Document(r).content = r.content /\ Document(r).category = r.category
        /\ Document(r).search = r.search
    BY DEF Document
  <2> QED BY <1>1, <1>2, <1>4, <2>1, DocumentIsDocument DEF Agrees, Pull, Public
<1>5. CASE k = l /\ s = "removed" /\ ~Public(r)
  BY <1>1, <1>2, <1>5 DEF Agrees, Public
<1>6. CASE /\ k = l /\ s = "none"
           /\ Public(row[l]) <=> Public(r)
           /\ Public(r) => Document(r) = Document(row[l])
  <2>1. Public(r) => /\ r.content = row[l].content /\ r.category = row[l].category
                     /\ r.search = row[l].search
    BY <1>6, SameDocument
  <2> QED BY <1>1, <1>2, <1>6, <2>1 DEF Agrees, Public
<1> QED BY <1>3, <1>4, <1>5, <1>6 DEF Heard

(* What publish_listing announces is enough: a move into the index is      *)
(* told, and so is a save of a row that is in it already.                  *)
LEMMA PublicationHeard ==
  ASSUME NEW old \in Row, NEW h \in Row, h.life = old.life
  PROVE  Heard(old, PublishedRow(h), PublishSignal(old, h))
<1>0. Promoted(h).life = h.life
  BY DEF Promoted, Saved, Row
<1>1. /\ Promoted(h) \in Row /\ Promoted(h).life = old.life
      /\ PublishedRow(h) \in Row /\ PublishedRow(h).life = old.life
  BY <1>0, PromotedIsRow, PublishedRowIsRow, PublishedRowLife
<1>2. CASE PublishedRow(h).status # Promoted(h).status
  BY <1>2 DEF PublishSignal, Heard
<1>3. CASE PublishedRow(h).status = Promoted(h).status
  <2>1. Heard(old, Promoted(h), SaveSignal(old, Promoted(h)))
    BY <1>1, SaveHeard
  <2>2. Public(PublishedRow(h)) <=> Public(Promoted(h))
    BY <1>1, <1>3 DEF Public
  <2>3. /\ PublishSignal(old, h) = SaveSignal(old, Promoted(h))
        /\ Document(PublishedRow(h)) = Document(Promoted(h))
    BY <1>3, PublishedDocument DEF PublishSignal
  <2> QED BY <2>1, <2>2, <2>3 DEF Heard
<1> QED BY <1>2, <1>3

(* A write decided on nothing that has moved announces enough.             *)
LEMMA FreshWriteAgrees ==
  ASSUME TypeOK, NEW l \in Listings, NEW h \in Row, NEW seen, h.life = row[l].life,
         \/ /\ Save(l, h, seen) /\ seen.status = row[l].status
            /\ h.status \in Indexed => Document(seen) = Document(row[l])
         \/ Update(l, h, TRUE) /\ h.status = row[l].status
  PROVE  \A k \in Listings : Agrees(k) => Agrees(k)'
<1>0. row[l] \in Row
  BY DEF TypeOK
<1>1. CASE /\ WriteDraft(l, h, seen) /\ seen.status = row[l].status
           /\ h.status \in Indexed => Document(seen) = Document(row[l])
  <2>1. PICK d \in Contents, c \in BOOLEAN :
          Commit(l, Saved([h EXCEPT !.draft = d, !.category = c]),
                 SaveSignal(seen, Saved([h EXCEPT !.draft = d, !.category = c])))
    BY <1>1 DEF WriteDraft
  <2> DEFINE new == Saved([h EXCEPT !.draft = d, !.category = c])
  <2>2. new \in Row /\ new.life = row[l].life /\ new.status = h.status
    BY EditIsRow
  <2>3. Commit(l, new, SaveSignal(seen, new))
    BY <2>1
  <2> HIDE DEF new
  <2>4. Commit(l, new, SaveSignal(row[l], new))
    BY <1>1, <2>2, <2>3, SeenSignal
  <2> QED BY <1>0, <2>2, <2>4, SaveHeard, CommitKeepsAgreement
<1>2. CASE /\ WritePublication(l, h, seen) /\ seen.status = row[l].status
           /\ h.status \in Indexed => Document(seen) = Document(row[l])
  <2>1. Commit(l, PublishedRow(h), PublishSignal(row[l], h))
    BY <1>2, SeenPublishSignal DEF WritePublication
  <2> QED BY <1>0, <2>1, PublishedRowIsRow, PublicationHeard, CommitKeepsAgreement
<1>3. CASE WriteMove(l, h) /\ h.status = row[l].status
  <2>1. PICK s \in Transitions[h.status] :
          Commit(l, MovedBy(row[l], h, s), Boundary(h.status, s))
    BY <1>3 DEF WriteMove
  <2>2. s \in Statuses
    BY <2>1 DEF Transitions, Row, Statuses
  <2> DEFINE new == MovedBy(row[l], h, s)
  <2>3. /\ new \in Row /\ new.life = row[l].life /\ new.status = s
        /\ s = row[l].status => new = row[l]
    <3>1. h.status = row[l].status
      BY <1>3
    <3>2. /\ new \in Row /\ new.life = row[l].life
          /\ s # h.status => new.status = s
          /\ s = h.status => new = row[l]
      BY <1>0, <2>2, MovedByKeeps
    <3> HIDE DEF new
    <3> QED BY <3>1, <3>2
  <2>4. Commit(l, new, Boundary(row[l].status, new.status))
    BY <1>3, <2>1, <2>3
  <2> HIDE DEF new
  <2>5. Heard(row[l], new, Boundary(row[l].status, new.status))
    BY <1>0, <2>3, BoundaryHeard
  <2> QED BY <2>3, <2>4, <2>5, CommitKeepsAgreement
<1>4. CASE WriteDelete(l, h) /\ h.status = row[l].status
  <2>1. [row[l] EXCEPT !.life = "deleted"] \in Row /\ ~Public([row[l] EXCEPT !.life = "deleted"])
    BY <1>0 DEF Row, Public
  <2>2. ~Public(row[l])
    BY <1>4 DEF WriteDelete, Public, Indexed
  <2> QED BY <1>4, <2>1, <2>2, CommitKeepsAgreement DEF WriteDelete, Heard
<1>5. CASE WriteVerdict(l, h) /\ h.status = row[l].status
  <2>1. PICK d \in Decisions :
          Commit(l, VerdictOn(row[l], h, d), Boundary(h.status, Ruled(h, d).status))
    BY <1>5 DEF WriteVerdict
  <2> DEFINE new == VerdictOn(row[l], h, d)
  <2>2. /\ new \in Row /\ new.life = row[l].life /\ new.status = Ruled(h, d).status
        /\ new.status = row[l].status => Document(new) = Document(row[l])
    <3>1. h.status = row[l].status
      BY <1>5
    <3>2. /\ new \in Row /\ new.life = row[l].life
          /\ Ruled(h, d).status # h.status => new.status = Ruled(h, d).status
          /\ Ruled(h, d).status = h.status => /\ new.status = row[l].status
                                              /\ Document(new) = Document(row[l])
      BY <1>0, VerdictOnKeeps
    <3> HIDE DEF new
    <3> QED BY <3>1, <3>2
  <2>3. Commit(l, new, Boundary(row[l].status, new.status))
    BY <1>5, <2>1, <2>2
  <2> HIDE DEF new
  <2>4. Heard(row[l], new, Boundary(row[l].status, new.status))
    BY <1>0, <2>2, BoundaryHeard
  <2> QED BY <2>2, <2>3, <2>4, CommitKeepsAgreement
<1> QED BY <1>1, <1>2, <1>3, <1>4, <1>5 DEF Save, Update

StaleOn(l) ==
  \E q \in Requests :
    /\ held[q] # Nothing /\ held'[q] = Nothing
    /\ held[q].listing = l /\ StaleWrite(q)

LosesTheIndex(l) == Agrees(l) /\ ~Agrees(l)'

(* No step loses the index but a write decided on what has moved. *)
LEMMA StaleStep ==
  StaleTypeOK /\ [StaleNext]_staleVars
    => \A l \in Listings : LosesTheIndex(l) => StaleOn(l)
<1> SUFFICES ASSUME StaleTypeOK, [StaleNext]_staleVars,
                    NEW l \in Listings, Agrees(l), ~Agrees(l)'
             PROVE  StaleOn(l)
  BY DEF LosesTheIndex
<1>0. TypeOK
  BY DEF StaleTypeOK
<1>1. ASSUME row' = row, index' = index PROVE FALSE
  BY <1>1 DEF Agrees, Public
<1>2. CASE UNCHANGED staleVars
  BY <1>1, <1>2 DEF staleVars
<1>3. ASSUME NEW k \in Listings, Open(k) PROVE FALSE
  <2>1. PICK d \in Contents, c \in BOOLEAN :
          Commit(k, [Absent EXCEPT !.life = "live", !.category = c, !.draft = d], "none")
    BY <1>3 DEF Open, Create
  <2> DEFINE new == [Absent EXCEPT !.life = "live", !.category = c, !.draft = d]
  <2>2. new \in Row /\ new.status = "draft"
    BY AbsentIsRow DEF Row, Absent
  <2>3. ~Public(new) /\ ~Public(row[k])
    BY <1>3, <2>2 DEF Public, Indexed, Open, Create
  <2>4. Commit(k, new, "none") /\ Heard(row[k], new, "none")
    BY <2>1, <2>3 DEF Heard
  <2> HIDE DEF new
  <2> QED BY <1>0, <2>2, <2>4, CommitKeepsAgreement
<1>4. ASSUME NEW q \in Requests, NEW k \in Listings, Load(q, k) PROVE FALSE
  BY <1>1, <1>4 DEF Load, vars
<1>5. ASSUME NEW q \in Requests, Abandon(q) PROVE FALSE
  BY <1>1, <1>5 DEF Abandon, vars
<1>6. ASSUME NEW q \in Requests, Write(q) PROVE StaleOn(l)
  <2> DEFINE k == held[q].listing
             h == held[q].row
  <2>1. /\ held[q] # Nothing /\ held[q] \in Instance
        /\ held' = [held EXCEPT ![q] = Nothing]
    BY <1>6, WriteCases DEF StaleTypeOK
  <2>2. k \in Listings /\ h \in Row /\ held'[q] = Nothing
    BY <2>1 DEF Instance, StaleTypeOK
  <2>3. Written(k, h, held[q].seen)
    BY <1>6, WriteCases
  <2>4. k = l
    <3>1. SUFFICES ASSUME k # l PROVE FALSE
      OBVIOUS
    <3>2. row'[l] = row[l] /\ index'[l] = index[l]
      <4>1. PICK r, e : Commit(k, r, e)
        <5> HIDE DEF k, h
        <5> QED BY <2>3 DEF Written, Save, Update, WriteDraft, WritePublication, WriteMove,
                            WriteDelete, WriteVerdict
      <4> HIDE DEF k, h
      <4> QED BY <1>0, <2>2, <3>1, <4>1 DEF Commit, TypeOK
    <3> QED BY <3>2 DEF Agrees, Public
  <2>5. StaleWrite(q)
    <3> DEFINE seen == held[q].seen
    <3>1. \/ /\ held[q].step = IF h.status \in Indexed THEN "content" ELSE "status"
             /\ Save(k, h, seen)
          \/ held[q].step = "loaded" /\ Update(k, h, TRUE)
      BY <1>6, WriteCases DEF Update
    <3>2. \/ h.life # row[k].life
          \/ /\ held[q].step # "loaded"
             /\ \/ seen.status # row[k].status
                \/ held[q].step = "content" /\ Document(seen) # Document(row[k])
          \/ held[q].step = "loaded" /\ h.status # row[k].status
      <4>1. SUFFICES ASSUME h.life = row[k].life,
                            held[q].step # "loaded" => seen.status = row[k].status,
                            held[q].step = "content" => Document(seen) = Document(row[k]),
                            held[q].step = "loaded" => h.status = row[k].status
                     PROVE  FALSE
        BY Zenon
      <4>2. \/ /\ Save(k, h, seen) /\ seen.status = row[k].status
               /\ h.status \in Indexed => Document(seen) = Document(row[k])
            \/ Update(k, h, TRUE) /\ h.status = row[k].status
        BY <3>1, <4>1
      <4> HIDE DEF k, h, seen
      <4> QED BY <1>0, <2>2, <2>4, <4>1, <4>2, FreshWriteAgrees
    <3> QED BY <3>2 DEF StaleWrite
  <2> QED BY <2>1, <2>2, <2>4, <2>5 DEF StaleOn
<1>7. ASSUME NEW q \in Requests, ReadStatus(q) \/ ReadContent(q) PROVE FALSE
  BY <1>1, <1>7 DEF ReadStatus, ReadContent, vars
<1> QED BY <1>2, <1>3, <1>4, <1>5, <1>6, <1>7 DEF StaleNext

(* However many requests overlap, table and index part only in a write     *)
(* decided on something that has moved since it was read: deleted_at, the  *)
(* status a move went by, or what the detectors of a save had read.        *)
THEOREM OnlyStaleReads == StaleSpec => OnlyAStaleReadMisleadsTheIndex
<1>1. StaleTypeOK /\ [StaleNext]_staleVars =>
        [\A l \in Listings :
           Agrees(l) /\ ~Agrees(l)'
             => \E q \in Requests :
                  /\ held[q] # Nothing /\ held'[q] = Nothing
                  /\ held[q].listing = l /\ StaleWrite(q)]_staleVars
  BY StaleStep DEF LosesTheIndex, StaleOn
<1> QED BY <1>1, StaleTypeCorrect, PTL DEF StaleSpec, OnlyAStaleReadMisleadsTheIndex
=============================================================================
