--------------------------- MODULE ListingProofs ---------------------------
(***************************************************************************)
(* Theorems about Listing, for every set of listings, contents and         *)
(* accounts, both gates, AUTO_APPROVE on and off, and any raw writes the   *)
(* host makes.  Every proof is by the same argument: what a commit does to *)
(* one listing, stated once as a lemma, then one step per action.          *)
(***************************************************************************)
EXTENDS Listing, TLAPS

(* A lifecycle move leaves a well typed row. *)
LEMMA MovedIsRow ==
  ASSUME NEW r \in Row, NEW s \in Statuses
  PROVE  Moved(r, s) \in Row
BY DEF Moved, MovedBy, Row

(* A save of every column leaves one too. *)
LEMMA SavedIsRow ==
  ASSUME NEW r \in Row
  PROVE  /\ Saved(r) \in Row
         /\ Saved(r).life = r.life /\ Saved(r).status = r.status /\ Saved(r).mod = r.mod
BY DEF Saved, Row

(* An owner's edit. *)
LEMMA EditIsRow ==
  ASSUME NEW r \in Row, NEW d \in Contents, NEW c \in BOOLEAN
  PROVE  LET new == Saved([r EXCEPT !.draft = d, !.category = c])
         IN /\ new \in Row
            /\ new.life = r.life /\ new.status = r.status /\ new.mod = r.mod
BY DEF Saved, Row

(* A host's raw status. *)
LEMMA RawIsRow ==
  ASSUME NEW r \in Row, NEW s \in Statuses
  PROVE  LET new == Saved([r EXCEPT !.status = s])
         IN /\ new \in Row
            /\ new.life = r.life /\ new.status = s /\ new.mod = r.mod
BY DEF Saved, Row

(* So does a verdict. *)
LEMMA RuledIsRow ==
  ASSUME NEW r \in Row, NEW d \in Decisions
  PROVE  Ruled(r, d) \in Row
<1>1. VerdictTarget(r, d) \in Statuses
  BY DEF VerdictTarget, Row, Statuses
<1>2. CASE d = "dismissed"
  BY <1>2 DEF Ruled
<1>3. CASE d # "dismissed"
  <2>1. d \in ModerationStatuses
    BY <1>3 DEF Decisions, ModerationStatuses
  <2>2. Ruled(r, d) = [Moved(r, VerdictTarget(r, d)) EXCEPT !.mod = d]
    BY <1>3 DEF Ruled
  <2>3. Moved(r, VerdictTarget(r, d)) \in Row
    BY <1>1, MovedIsRow
  <2>4. QED
    BY <2>1, <2>2, <2>3 DEF Row
<1>4. QED
  BY <1>2, <1>3

(* So does the promotion of the draft twins. *)
LEMMA PromotedIsRow ==
  ASSUME NEW r \in Row
  PROVE  Promoted(r) \in Row
BY DEF Promoted, Saved, Row, Statuses, ModerationStatuses

(* So does publish_listing, gate and AUTO_APPROVE included. *)
LEMMA PublishedRowIsRow ==
  ASSUME NEW r \in Row
  PROVE  PublishedRow(r) \in Row
BY PromotedIsRow, RuledIsRow, MovedIsRow DEF PublishedRow, Decisions, Statuses

(* A row builds a well typed document. *)
LEMMA DocumentIsDocument ==
  ASSUME NEW r \in Row
  PROVE  Document(r) \in Documents
BY DEF Document, Documents, Row

(* An id without a row is well typed too. *)
LEMMA AbsentIsRow == Absent \in Row
BY DEF Absent, Row, Statuses, ModerationStatuses

(* A commit of a row leaves the table and the index well typed. *)
LEMMA CommitType ==
  ASSUME TypeOK, NEW l \in Listings, NEW r \in Row, NEW s, Commit(l, r, s)
  PROVE  /\ row' \in [Listings -> Row]
         /\ index' \in [Listings -> Documents \cup {NoDoc}]
<1>1. Pull(r) \in Documents \cup {NoDoc}
  BY DocumentIsDocument DEF Pull
<1>2. QED
  BY <1>1 DEF Commit, TypeOK

(* Every action of one listing is a commit of a row, with the case and the *)
(* ruling left typed.                                                      *)
LEMMA PublishListingType ==
  ASSUME TypeOK, NEW l \in Listings, PublishListing(l)
  PROVE  TypeOK'
<1>1. row[l] \in Row
  BY DEF TypeOK
<1>2. PublishedRow(row[l]) \in Row
  BY <1>1, PublishedRowIsRow
<1>3. row' \in [Listings -> Row] /\ index' \in [Listings -> Documents \cup {NoDoc}]
  BY <1>2, CommitType DEF PublishListing
<1>4. review' \in [Listings -> Review]
  BY DEF PublishListing, TypeOK, Review
<1>5. QED
  BY <1>3, <1>4 DEF TypeOK

(* Every step keeps the types. *)
LEMMA TypeStep == TypeOK /\ [Next]_vars => TypeOK'
<1> SUFFICES ASSUME TypeOK, [Next]_vars PROVE TypeOK'
  OBVIOUS
<1>1. ASSUME NEW l \in Listings, Create(l) PROVE TypeOK'
  <2>1. PICK d \in Contents, c \in BOOLEAN :
          Commit(l, [Absent EXCEPT !.life = "live", !.category = c, !.draft = d], "none")
    BY <1>1 DEF Create
  <2>2. [Absent EXCEPT !.life = "live", !.category = c, !.draft = d] \in Row
    BY AbsentIsRow DEF Row
  <2>3. QED
    BY <1>1, <2>1, <2>2, CommitType DEF Create, TypeOK
<1>2. ASSUME NEW l \in Listings, SaveDraft(l) PROVE TypeOK'
  <2>1. PICK d \in Contents, c \in BOOLEAN :
          Commit(l, Saved([row[l] EXCEPT !.draft = d, !.category = c]),
                 SaveSignal(row[l], Saved([row[l] EXCEPT !.draft = d, !.category = c])))
    BY <1>2 DEF SaveDraft
  <2>2. Saved([row[l] EXCEPT !.draft = d, !.category = c]) \in Row
    BY EditIsRow DEF TypeOK
  <2>3. QED
    BY <1>2, <2>1, <2>2, CommitType DEF SaveDraft, TypeOK
<1>3. ASSUME NEW l \in Listings, Publish(l) \/ Resubmit(l) PROVE TypeOK'
  BY <1>3, PublishListingType DEF Publish, Resubmit
<1>4. ASSUME NEW l \in Listings, NEW s \in Statuses, OwnerMove(l, s) PROVE TypeOK'
  BY <1>4, CommitType, MovedIsRow DEF OwnerMove, TypeOK
<1>5. ASSUME NEW l \in Listings, Destroy(l) \/ HostDelete(l) \/ HostRestore(l) PROVE TypeOK'
  <2>1. /\ [row[l] EXCEPT !.life = "deleted"] \in Row
        /\ [row[l] EXCEPT !.life = "live"] \in Row
    BY DEF Row, TypeOK
  <2>2. QED
    BY <1>5, <2>1, CommitType DEF Destroy, HostDelete, HostRestore, TypeOK
<1>6. ASSUME NEW l \in Listings, NEW d \in Decisions, Verdict(l, d) PROVE TypeOK'
  <2>1. row[l] \in Row
    BY DEF TypeOK
  <2>2. Ruled(row[l], d) \in Row
    BY <2>1, RuledIsRow
  <2>3. row' \in [Listings -> Row] /\ index' \in [Listings -> Documents \cup {NoDoc}]
    BY <1>6, <2>2, CommitType DEF Verdict
  <2>4. review' \in [Listings -> Review]
    BY <1>6 DEF Verdict, TypeOK, Review, Decisions
  <2>5. QED
    BY <2>3, <2>4 DEF TypeOK
<1>7. ASSUME NEW l \in Listings, HostExpire(l) PROVE TypeOK'
  BY <1>7, CommitType, MovedIsRow DEF HostExpire, TypeOK, Statuses
<1>8. ASSUME NEW l \in Listings, NEW s \in RawWrites, HostWrite(l, s) PROVE TypeOK'
  <2>1. Saved([row[l] EXCEPT !.status = s]) \in Row
    BY RawIsRow, RawWritesAssumption DEF TypeOK
  <2>2. QED
    BY <1>8, <2>1, CommitType DEF HostWrite, TypeOK
<1>9. ASSUME NEW u \in Users, Erase(u) PROVE TypeOK'
  <2> DEFINE mine == {l \in Listings : OwnerOf[l] = u /\ row[l].life # "absent"}
  <2>1. row' = [l \in Listings |-> IF l \in mine THEN Absent ELSE row[l]]
    BY <1>9 DEF Erase
  <2>2. index' = [l \in Listings |->
                    IF l \in mine /\ Public(row[l]) THEN NoDoc ELSE index[l]]
    BY <1>9 DEF Erase
  <2>3. review' = [l \in Listings |-> IF l \in mine THEN NoReview ELSE review[l]]
    BY <1>9 DEF Erase
  <2>4. NoReview \in Review
    BY DEF NoReview, Review
  <2> HIDE DEF mine
  <2>5. QED
    BY <2>1, <2>2, <2>3, <2>4, AbsentIsRow DEF TypeOK
<1>10. CASE UNCHANGED vars
  BY <1>10 DEF vars, TypeOK
<1>11. QED
  BY <1>1, <1>2, <1>3, <1>4, <1>5, <1>6, <1>7, <1>8, <1>9, <1>10 DEF Next

(* Type correctness: every column of every row, the index and the review   *)
(* records stay within their types, whatever requests and events arrive.   *)
THEOREM TypeCorrect == Spec => []TypeOK
<1>1. Init => TypeOK
  BY AbsentIsRow DEF Init, TypeOK, NoReview, Review
<1>2. QED
  BY <1>1, TypeStep, PTL DEF Spec

-----------------------------------------------------------------------------
(* The index.  A signal does justice to a commit when it makes the indexer *)
(* pull, or drops a row nobody may see, or there is nothing to say.        *)
Heard(old, new, signal) ==
  \/ signal \in {"published", "updated"}
  \/ signal = "removed" /\ ~Public(new)
  \/ /\ signal = "none"
     /\ Public(old) <=> Public(new)
     /\ Public(new) => Document(new) = Document(old)

(* A document tells its three columns apart. *)
LEMMA SameDocument ==
  ASSUME NEW r, NEW o, Document(r) = Document(o)
  PROVE  r.content = o.content /\ r.category = o.category /\ r.search = o.search
BY DEF Document

(* A commit whose signal was enough keeps table and index in agreement. *)
LEMMA CommitAgrees ==
  ASSUME TypeOK, IndexAgrees, NEW l \in Listings, NEW r \in Row, NEW s,
         Commit(l, r, s), Heard(row[l], r, s)
  PROVE  IndexAgrees'
<1> SUFFICES ASSUME NEW k \in Listings PROVE Agrees(k)'
  BY DEF IndexAgrees
<1>1. row' = [row EXCEPT ![l] = r]
  BY DEF Commit
<1>2. CASE k # l
  <2>1. row'[k] = row[k] /\ index'[k] = index[k]
    BY <1>1, <1>2 DEF Commit, TypeOK
  <2>2. QED
    BY <2>1 DEF IndexAgrees, Agrees, Public
<1>3. CASE k = l
  <2>1. row'[l] = r
    BY <1>1 DEF TypeOK
  <2>2. index'[l] = IF s \in {"published", "updated"} THEN Pull(r)
                    ELSE IF s = "removed" THEN NoDoc ELSE index[l]
    BY DEF Commit, TypeOK
  <2>3. CASE s \in {"published", "updated"}
    <3>1. index'[l] = Pull(r)
      BY <2>2, <2>3
    <3>2. /\ Document(r).content = r.content /\ Document(r).category = r.category
          /\ Document(r).search = r.search
      BY DEF Document
    <3>3. QED
      BY <1>3, <2>1, <3>1, <3>2, DocumentIsDocument DEF Agrees, Pull, Public
  <2>4. CASE s = "removed" /\ ~Public(r)
    BY <1>3, <2>1, <2>2, <2>4 DEF Agrees, Public
  <2>5. CASE /\ s = "none"
             /\ Public(row[l]) <=> Public(r)
             /\ Public(r) => Document(r) = Document(row[l])
    <3>1. index'[l] = index[l]
      BY <2>2, <2>5
    <3>2. Agrees(l)
      BY DEF IndexAgrees
    <3>3. Public(r) => /\ r.content = row[l].content /\ r.category = row[l].category
                       /\ r.search = row[l].search
      BY <2>5, SameDocument
    <3>4. QED
      BY <1>3, <2>1, <2>5, <3>1, <3>2, <3>3 DEF Agrees, Public
  <2>6. QED
    BY <2>3, <2>4, <2>5 DEF Heard
<1>4. QED
  BY <1>2, <1>3

(* What save() announces is enough, as long as it leaves deleted_at alone. *)
LEMMA SaveHeard ==
  ASSUME NEW old \in Row, NEW new \in Row, new.life = old.life
  PROVE  Heard(old, new, SaveSignal(old, new))
BY DEF Heard, SaveSignal, ContentChanged, Boundary, Public

(* What transition_to announces is enough for a write that leaves a row    *)
(* whose status stays as it is alone.                                      *)
LEMMA BoundaryHeard ==
  ASSUME NEW old \in Row, NEW new \in Row, new.life = old.life,
         new.status = old.status => Document(new) = Document(old)
  PROVE  Heard(old, new, Boundary(old.status, new.status))
BY DEF Heard, Boundary, Public, Indexed

(* A lifecycle move touches the status and the search column alone.        *)
LEMMA MovedKeeps ==
  ASSUME NEW r \in Row, NEW s \in Statuses
  PROVE  /\ Moved(r, s).life = r.life /\ Moved(r, s).content = r.content
         /\ Moved(r, s).category = r.category /\ Moved(r, s).status = s
         /\ Moved(r, s).mod = r.mod
         /\ s = r.status => Moved(r, s) = r
BY DEF Moved, MovedBy, Row

(* A verdict touches moderation_status, and the rest as a move does.       *)
LEMMA RuledKeeps ==
  ASSUME NEW r \in Row, NEW d \in Decisions
  PROVE  /\ Ruled(r, d).life = r.life /\ Ruled(r, d).content = r.content
         /\ Ruled(r, d).category = r.category
         /\ Ruled(r, d).status = r.status => Document(Ruled(r, d)) = Document(r)
         /\ d # "dismissed" => Ruled(r, d).mod = d /\ Ruled(r, d).status = VerdictTarget(r, d)
<1>1. VerdictTarget(r, d) \in Statuses
  BY DEF VerdictTarget, Row, Statuses
<1> DEFINE m == Moved(r, VerdictTarget(r, d))
<1>2. /\ m \in Row /\ m.life = r.life /\ m.content = r.content /\ m.category = r.category
      /\ m.status = VerdictTarget(r, d)
      /\ VerdictTarget(r, d) = r.status => m = r
  BY <1>1, MovedIsRow, MovedKeeps
<1>3. Ruled(r, d) = IF d = "dismissed" THEN r ELSE [m EXCEPT !.mod = d]
  BY DEF Ruled
<1> HIDE DEF m
<1>4. QED
  BY <1>2, <1>3 DEF Row, Document

(* publish_listing neither deletes nor restores. *)
LEMMA PublishedRowLife ==
  ASSUME NEW r \in Row
  PROVE  PublishedRow(r).life = r.life
<1>1. Promoted(r) \in Row /\ Promoted(r).life = r.life
  BY PromotedIsRow DEF Promoted, Saved, Row
<1>2. QED
  BY <1>1, RuledKeeps, MovedKeeps DEF PublishedRow, Statuses, Decisions

(* transition_to keeps the agreement. *)
LEMMA MoveAgrees ==
  ASSUME TypeOK, IndexAgrees, NEW l \in Listings, NEW s \in Statuses,
         Commit(l, Moved(row[l], s), Boundary(row[l].status, s))
  PROVE  IndexAgrees'
<1>1. row[l] \in Row /\ Moved(row[l], s) \in Row
  BY MovedIsRow DEF TypeOK
<1>2. Heard(row[l], Moved(row[l], s), Boundary(row[l].status, s))
  BY <1>1, BoundaryHeard, MovedKeeps DEF TypeOK, Row
<1>3. QED
  BY <1>1, <1>2, CommitAgrees

(* save() keeps the agreement. *)
LEMMA SaveAgrees ==
  ASSUME TypeOK, IndexAgrees, NEW l \in Listings, NEW r \in Row,
         r.life = row[l].life, Commit(l, r, SaveSignal(row[l], r))
  PROVE  IndexAgrees'
<1>1. row[l] \in Row
  BY DEF TypeOK
<1>2. QED
  BY <1>1, SaveHeard, CommitAgrees

(* Every step keeps table and index in agreement. *)
LEMMA IndexStep == TypeOK /\ IndexAgrees /\ [Next]_vars => IndexAgrees'
<1> SUFFICES ASSUME TypeOK, IndexAgrees, [Next]_vars PROVE IndexAgrees'
  OBVIOUS
<1> USE DEF TypeOK
<1>1. ASSUME NEW l \in Listings, Create(l) PROVE IndexAgrees'
  <2>1. PICK d \in Contents, c \in BOOLEAN :
          Commit(l, [Absent EXCEPT !.life = "live", !.category = c, !.draft = d], "none")
    BY <1>1 DEF Create
  <2> DEFINE new == [Absent EXCEPT !.life = "live", !.category = c, !.draft = d]
  <2>2. new \in Row /\ new.status = "draft"
    BY AbsentIsRow DEF Row, Absent
  <2>3. ~Public(new) /\ ~Public(row[l])
    BY <1>1, <2>2 DEF Public, Indexed, Create
  <2>4. Heard(row[l], new, "none")
    BY <2>3 DEF Heard
  <2>5. QED
    BY <2>1, <2>2, <2>4, CommitAgrees
<1>2. ASSUME NEW l \in Listings, SaveDraft(l) PROVE IndexAgrees'
  <2>1. PICK d \in Contents, c \in BOOLEAN :
          Commit(l, Saved([row[l] EXCEPT !.draft = d, !.category = c]),
                 SaveSignal(row[l], Saved([row[l] EXCEPT !.draft = d, !.category = c])))
    BY <1>2 DEF SaveDraft
  <2>2. /\ Saved([row[l] EXCEPT !.draft = d, !.category = c]) \in Row
        /\ Saved([row[l] EXCEPT !.draft = d, !.category = c]).life = row[l].life
    BY EditIsRow
  <2>3. QED
    BY <2>1, <2>2, SaveAgrees
<1>3. ASSUME NEW l \in Listings, Publish(l) \/ Resubmit(l) PROVE IndexAgrees'
  <2>1. PublishedRow(row[l]) \in Row /\ PublishedRow(row[l]).life = row[l].life
    BY PublishedRowIsRow, PublishedRowLife
  <2>2. Commit(l, PublishedRow(row[l]), SaveSignal(row[l], PublishedRow(row[l])))
    BY <1>3 DEF Publish, Resubmit, PublishListing
  <2>3. QED
    BY <2>1, <2>2, SaveAgrees
<1>4. ASSUME NEW l \in Listings, NEW s \in Statuses, OwnerMove(l, s) PROVE IndexAgrees'
  BY <1>4, MoveAgrees DEF OwnerMove
<1>5. ASSUME NEW l \in Listings, Destroy(l) \/ HostDelete(l) PROVE IndexAgrees'
  <2> DEFINE new == [row[l] EXCEPT !.life = "deleted"]
  <2>1. new \in Row /\ ~Public(new)
    BY DEF Row, Public
  <2>2. \/ Commit(l, new, "none") /\ ~Public(row[l])
        \/ Commit(l, new, "removed")
    BY <1>5 DEF Destroy, HostDelete, Public, Indexed
  <2>3. QED
    BY <2>1, <2>2, CommitAgrees DEF Heard
<1>6. ASSUME NEW l \in Listings, HostRestore(l) PROVE IndexAgrees'
  <2> DEFINE new == [row[l] EXCEPT !.life = "live"]
  <2>1. new \in Row /\ new.status = row[l].status /\ ~Public(row[l])
    BY <1>6 DEF Row, Public, HostRestore
  <2>2. \/ Commit(l, new, "none") /\ ~Public(new)
        \/ Commit(l, new, "published")
    BY <1>6, <2>1 DEF HostRestore, Public
  <2>3. QED
    BY <2>1, <2>2, CommitAgrees DEF Heard
<1>7. ASSUME NEW l \in Listings, NEW d \in Decisions, Verdict(l, d) PROVE IndexAgrees'
  <2>1. row[l] \in Row /\ Ruled(row[l], d) \in Row
    BY RuledIsRow
  <2>2. Heard(row[l], Ruled(row[l], d), Boundary(row[l].status, Ruled(row[l], d).status))
    BY <2>1, RuledKeeps, BoundaryHeard
  <2>3. QED
    BY <1>7, <2>1, <2>2, CommitAgrees DEF Verdict
<1>8. ASSUME NEW l \in Listings, HostExpire(l) PROVE IndexAgrees'
  BY <1>8, MoveAgrees DEF HostExpire, Statuses
<1>9. ASSUME NEW l \in Listings, NEW s \in RawWrites, HostWrite(l, s) PROVE IndexAgrees'
  <2>1. s \in Statuses
    BY RawWritesAssumption
  <2>2. /\ Saved([row[l] EXCEPT !.status = s]) \in Row
        /\ Saved([row[l] EXCEPT !.status = s]).life = row[l].life
    BY <2>1, RawIsRow
  <2>3. QED
    BY <1>9, <2>2, SaveAgrees DEF HostWrite
<1>10. ASSUME NEW u \in Users, Erase(u) PROVE IndexAgrees'
  <2> DEFINE mine == {l \in Listings : OwnerOf[l] = u /\ row[l].life # "absent"}
  <2>1. row' = [l \in Listings |-> IF l \in mine THEN Absent ELSE row[l]]
    BY <1>10 DEF Erase
  <2>2. index' = [l \in Listings |->
                    IF l \in mine /\ Public(row[l]) THEN NoDoc ELSE index[l]]
    BY <1>10 DEF Erase
  <2> SUFFICES ASSUME NEW k \in Listings PROVE Agrees(k)'
    BY DEF IndexAgrees
  <2>3. Agrees(k)
    BY DEF IndexAgrees
  <2> HIDE DEF mine
  <2>4. CASE k \in mine
    <3>1. row'[k] = Absent /\ ~Public(Absent)
      BY <2>1, <2>4 DEF Public, Absent
    <3>2. index'[k] = NoDoc
      BY <2>2, <2>3, <2>4 DEF Agrees
    <3>3. QED
      BY <3>1, <3>2 DEF Agrees, Public
  <2>5. CASE k \notin mine
    <3>1. row'[k] = row[k] /\ index'[k] = index[k]
      BY <2>1, <2>2, <2>5
    <3>2. QED
      BY <2>3, <3>1 DEF Agrees, Public
  <2>6. QED
    BY <2>4, <2>5
<1>11. CASE UNCHANGED vars
  BY <1>11 DEF vars, IndexAgrees, Agrees, Public
<1>12. QED
  BY <1>1, <1>2, <1>3, <1>4, <1>5, <1>6, <1>7, <1>8, <1>9, <1>10, <1>11 DEF Next

(* The row and its event never disagree: at every commit the search index  *)
(* serves exactly the live published rows, with their content and category *)
(* - under both gates, AUTO_APPROVE, raw status writes, soft deletes,      *)
(* restores and erasures.                                                  *)
THEOREM IndexNeverDisagrees == Spec => []IndexAgrees
<1>1. Init => IndexAgrees
  BY DEF Init, IndexAgrees, Agrees, Public, Absent
<1>2. QED
  BY <1>1, TypeCorrect, IndexStep, PTL DEF Spec

-----------------------------------------------------------------------------
(* The two axes.  What any step does to the status, the moderation status  *)
(* and the review of one listing, whichever action takes it.               *)
LegalMove(from, s) ==
  \/ s \in OwnerTransitions[from] /\ <<from, s>> \notin RestoreEdges
  \/ s = "expired" /\ s \in Transitions[from]
  \/ s \in RawWrites

Kept(l) ==
  row'[l].status = row[l].status /\ row'[l].mod = row[l].mod /\ review'[l] = review[l]

Fresh(l) == row'[l].status = "draft" /\ row'[l].mod = "not_submitted"

Submitted(l) ==
  row'[l] = PublishedRow(row[l]) /\ review'[l] = [review[l] EXCEPT !.case = "open"]

MovedTo(l, s) ==
  /\ LegalMove(row[l].status, s)
  /\ row'[l].status = s /\ row'[l].mod = row[l].mod /\ review'[l] = review[l]

RuledBy(l, d) ==
  /\ row'[l] = Ruled(row[l], d)
  /\ review'[l] = IF d \in {"approved", "rejected"}
                  THEN [case |-> "ruled", ruling |-> d] ELSE review[l]

StepOf(l) ==
  \/ Kept(l) \/ Fresh(l) \/ Submitted(l)
  \/ \E s \in Statuses : MovedTo(l, s)
  \/ \E d \in Decisions : RuledBy(l, d)

(* A commit changes one row. *)
LEMMA CommitOne ==
  ASSUME TypeOK, NEW l \in Listings, NEW k \in Listings, NEW r, NEW s, Commit(l, r, s)
  PROVE  row'[k] = IF k = l THEN r ELSE row[k]
BY DEF Commit, TypeOK

(* Whatever the step, each row changes in one of the ways RowStep lists. *)
LEMMA EveryStep ==
  ASSUME TypeOK, [Next]_vars, NEW k \in Listings
  PROVE  StepOf(k)
<1> USE DEF StepOf
<1>1. ASSUME NEW l \in Listings, Create(l) PROVE StepOf(k)
  <2>1. PICK d \in Contents, c \in BOOLEAN :
          Commit(l, [Absent EXCEPT !.life = "live", !.category = c, !.draft = d], "none")
    BY <1>1 DEF Create
  <2>2. row'[k] = IF k = l THEN [Absent EXCEPT !.life = "live", !.category = c, !.draft = d]
                  ELSE row[k]
    BY <2>1, CommitOne
  <2>3. QED
    BY <1>1, <2>2 DEF Create, Absent, Fresh, Kept
<1>2. ASSUME NEW l \in Listings, SaveDraft(l) PROVE StepOf(k)
  <2>1. PICK d \in Contents, c \in BOOLEAN :
          Commit(l, Saved([row[l] EXCEPT !.draft = d, !.category = c]),
                 SaveSignal(row[l], Saved([row[l] EXCEPT !.draft = d, !.category = c])))
    BY <1>2 DEF SaveDraft
  <2>2. row'[k] = IF k = l THEN Saved([row[l] EXCEPT !.draft = d, !.category = c]) ELSE row[k]
    BY <2>1, CommitOne
  <2>3. /\ Saved([row[l] EXCEPT !.draft = d, !.category = c]).status = row[l].status
        /\ Saved([row[l] EXCEPT !.draft = d, !.category = c]).mod = row[l].mod
    BY EditIsRow DEF TypeOK
  <2>4. QED
    BY <1>2, <2>2, <2>3 DEF SaveDraft, Kept
<1>3. ASSUME NEW l \in Listings, Publish(l) \/ Resubmit(l) PROVE StepOf(k)
  <2>1. PublishListing(l)
    BY <1>3 DEF Publish, Resubmit
  <2>2. row'[k] = IF k = l THEN PublishedRow(row[l]) ELSE row[k]
    BY <2>1, CommitOne DEF PublishListing
  <2>3. review'[k] = IF k = l THEN [review[l] EXCEPT !.case = "open"] ELSE review[k]
    BY <2>1 DEF PublishListing, TypeOK
  <2>4. QED
    BY <2>2, <2>3 DEF Submitted, Kept
<1>4. ASSUME NEW l \in Listings, NEW s \in Statuses, UNCHANGED review,
             NEW e, NEW r, r.status = s, r.mod = row[l].mod,
             Commit(l, r, e), LegalMove(row[l].status, s)
      PROVE  StepOf(k)
  <2>1. row'[k] = IF k = l THEN r ELSE row[k]
    BY <1>4, CommitOne
  <2>2. QED
    BY <1>4, <2>1 DEF MovedTo, Kept
<1>5. ASSUME NEW l \in Listings, Destroy(l) \/ HostDelete(l) \/ HostRestore(l)
      PROVE  StepOf(k)
  <2>1. PICK v \in {"live", "deleted"}, e \in {"none", "published", "removed"} :
          Commit(l, [row[l] EXCEPT !.life = v], e)
    BY <1>5 DEF Destroy, HostDelete, HostRestore
  <2>2. row'[k] = IF k = l THEN [row[l] EXCEPT !.life = v] ELSE row[k]
    BY <2>1, CommitOne
  <2>3. QED
    BY <1>5, <2>2 DEF Destroy, HostDelete, HostRestore, Kept, TypeOK, Row
<1>6. ASSUME NEW l \in Listings, NEW d \in Decisions, Verdict(l, d) PROVE StepOf(k)
  <2>1. row'[k] = IF k = l THEN Ruled(row[l], d) ELSE row[k]
    BY <1>6, CommitOne DEF Verdict
  <2>2. review'[k] = IF k = l /\ d \in {"approved", "rejected"}
                     THEN [case |-> "ruled", ruling |-> d] ELSE review[k]
    BY <1>6 DEF Verdict, TypeOK
  <2>3. QED
    BY <1>6, <2>1, <2>2 DEF RuledBy, Kept
<1>7. ASSUME NEW u \in Users, Erase(u) PROVE StepOf(k)
  <2> DEFINE mine == {l \in Listings : OwnerOf[l] = u /\ row[l].life # "absent"}
  <2>1. row' = [l \in Listings |-> IF l \in mine THEN Absent ELSE row[l]]
    BY <1>7 DEF Erase
  <2>2. review' = [l \in Listings |-> IF l \in mine THEN NoReview ELSE review[l]]
    BY <1>7 DEF Erase
  <2> HIDE DEF mine
  <2>3. QED
    BY <2>1, <2>2 DEF Fresh, Kept, Absent
<1>8. ASSUME NEW l \in Listings, NEW s \in Statuses, OwnerMove(l, s) PROVE StepOf(k)
  <2>1. /\ Moved(row[l], s).status = s
        /\ Moved(row[l], s).mod = row[l].mod
    BY MovedKeeps DEF TypeOK
  <2>2. QED
    BY <1>4, <1>8, <2>1 DEF OwnerMove, LegalMove
<1>9. ASSUME NEW l \in Listings, HostExpire(l) PROVE StepOf(k)
  <2>1. /\ Moved(row[l], "expired").status = "expired"
        /\ Moved(row[l], "expired").mod = row[l].mod
    BY MovedKeeps DEF TypeOK, Statuses
  <2>2. QED
    BY <1>4, <1>9, <2>1 DEF HostExpire, LegalMove, Statuses
<1>10. ASSUME NEW l \in Listings, NEW s \in RawWrites, HostWrite(l, s) PROVE StepOf(k)
  <2>1. /\ s \in Statuses
        /\ Saved([row[l] EXCEPT !.status = s]).status = s
        /\ Saved([row[l] EXCEPT !.status = s]).mod = row[l].mod
    BY RawIsRow, RawWritesAssumption DEF TypeOK
  <2>2. QED
    BY <1>4, <1>10, <2>1 DEF HostWrite, LegalMove
<1>11. CASE UNCHANGED vars
  BY <1>11 DEF vars, Kept
<1>12. QED
  BY <1>1, <1>2, <1>3, <1>5, <1>6, <1>7, <1>8, <1>9, <1>10, <1>11 DEF Next

(* What publish_listing may leave behind. *)
LEMMA PublishedRowStatus ==
  ASSUME NEW r \in Row
  PROVE  /\ PublishedRow(r).status \in {r.status, "pending", "published"}
         /\ PublishedRow(r).status = r.status => r.status \in {"pending", "published"}
         /\ StandingRejection(r) /\ r.status # "published"
              => PublishedRow(r).status = "pending"
         /\ Gate = "pre" /\ ~AutoApprove /\ r.status # "published"
              => PublishedRow(r).status = "pending"
<1>1. /\ Promoted(r) \in Row
      /\ Promoted(r).status = IF r.status = "published" THEN "published" ELSE "pending"
  BY PromotedIsRow DEF Promoted, Saved, Row, Indexed
<1>2. /\ Moved(Promoted(r), "published").status = "published"
      /\ Ruled(Promoted(r), "approved").status = "published"
  BY <1>1, MovedKeeps, RuledKeeps DEF VerdictTarget, Statuses, Decisions
<1>3. QED
  BY <1>1, <1>2, PolicyAssumption DEF PublishedRow, Indexed

(* Where an owner or the host may move a row without publishing it. *)
LEMMA MoveTargets ==
  ASSUME NEW from \in Statuses, NEW s \in Statuses, LegalMove(from, s)
  PROVE  /\ s # "pending"
         /\ s = "blocked" => s \in RawWrites
         /\ s = "published" => from \in {"paused", "sold"} \/ s \in RawWrites
         /\ s \in BeenLive => from \in BeenLive \/ s \in RawWrites
<1>1. CASE s \in OwnerTransitions[from] /\ <<from, s>> \notin RestoreEdges
  BY <1>1 DEF OwnerTransitions, RestoreEdges, Statuses, BeenLive
<1>2. CASE s = "expired" /\ s \in Transitions[from]
  BY <1>2 DEF Transitions, Statuses, BeenLive
<1>3. CASE s \in RawWrites
  BY <1>3, RawWritesAssumption
<1>4. QED
  BY <1>1, <1>2, <1>3 DEF LegalMove

(* What a verdict does to the two axes. *)
LEMMA RuledAxes ==
  ASSUME NEW r \in Row, NEW d \in Decisions
  PROVE  /\ d \in {"approved", "rejected"} => /\ Ruled(r, d).mod = d
                                            /\ Ruled(r, d).status # "pending"
         /\ d \notin {"approved", "rejected"} => Ruled(r, d).status = r.status
         /\ Ruled(r, d).mod = "pending" => r.mod = "pending"
         /\ Ruled(r, d).status = "published" /\ r.status # "published" => d = "approved"
         /\ Ruled(r, d).status = "blocked" /\ r.status # "blocked"
              => d = "rejected" /\ r.status = "published"
<1>1. CASE d = "dismissed"
  BY <1>1 DEF Ruled
<1>2. CASE d # "dismissed"
  BY <1>2, RuledKeeps DEF VerdictTarget, Row, Decisions, Indexed
<1>3. QED
  BY <1>1, <1>2

(* Every step keeps waiting rows under review. *)
LEMMA ReviewStep == TypeOK /\ PendingIsUnderReview /\ [Next]_vars => PendingIsUnderReview'
<1> SUFFICES ASSUME TypeOK, PendingIsUnderReview, [Next]_vars, NEW k \in Listings,
                    Waiting(row'[k])
             PROVE  review'[k].case = "open"
  BY DEF PendingIsUnderReview
<1> USE DEF Waiting
<1>1. row[k] \in Row /\ review[k] \in Review /\ (Waiting(row[k]) => review[k].case = "open")
  BY DEF TypeOK, PendingIsUnderReview
<1>2. CASE Kept(k)
  BY <1>1, <1>2 DEF Kept
<1>3. CASE Fresh(k)
  BY <1>3 DEF Fresh
<1>4. CASE Submitted(k)
  BY <1>1, <1>4 DEF Submitted, Review
<1>5. ASSUME NEW s \in Statuses, MovedTo(k, s) PROVE review'[k].case = "open"
  <2>1. s # "pending"
    BY <1>1, <1>5, MoveTargets DEF MovedTo, Row
  <2>2. QED
    BY <1>1, <1>5, <2>1 DEF MovedTo
<1>6. ASSUME NEW d \in Decisions, RuledBy(k, d) PROVE review'[k].case = "open"
  <2>1. d \notin {"approved", "rejected"}
    BY <1>1, <1>6, RuledAxes DEF RuledBy
  <2>2. QED
    BY <1>1, <1>6, <2>1, RuledAxes DEF RuledBy
<1>7. QED
  BY <1>2, <1>3, <1>4, <1>5, <1>6, EveryStep DEF StepOf

(* "pending" is never a claim about an empty queue: whatever route a row   *)
(* took there, the moderation service holds an open case for it.           *)
THEOREM PendingHasACase == Spec => []PendingIsUnderReview
<1>1. Init => PendingIsUnderReview
  BY DEF Init, PendingIsUnderReview, Waiting, Absent
<1>2. QED
  BY <1>1, TypeCorrect, ReviewStep, PTL DEF Spec

(* Every step keeps unreviewed rows out of the window. *)
LEMMA GateStep == TypeOK /\ NeverLiveUnreviewed /\ [Next]_vars => NeverLiveUnreviewed'
<1> SUFFICES ASSUME TypeOK, NeverLiveUnreviewed, [Next]_vars, Moderated,
                    NEW k \in Listings, row'[k].status \in BeenLive
             PROVE  review'[k].ruling # "none"
  BY DEF NeverLiveUnreviewed, Moderated
<1>1. /\ row[k] \in Row /\ review[k] \in Review
      /\ row[k].status \in BeenLive => review[k].ruling # "none"
  BY DEF TypeOK, NeverLiveUnreviewed
<1>2. CASE Kept(k)
  BY <1>1, <1>2 DEF Kept
<1>3. CASE Fresh(k)
  BY <1>3 DEF Fresh, BeenLive
<1>4. CASE Submitted(k)
  <2>1. row[k].status \in BeenLive
    BY <1>1, <1>4, PublishedRowStatus DEF Submitted, Moderated, BeenLive
  <2>2. QED
    BY <1>1, <1>4, <2>1 DEF Submitted, Review
<1>5. ASSUME NEW s \in Statuses, MovedTo(k, s) PROVE review'[k].ruling # "none"
  <2>1. row[k].status \in BeenLive
    BY <1>1, <1>5, MoveTargets DEF MovedTo, Row, Moderated
  <2>2. QED
    BY <1>1, <1>5, <2>1 DEF MovedTo
<1>6. ASSUME NEW d \in Decisions, RuledBy(k, d) PROVE review'[k].ruling # "none"
  BY <1>1, <1>6, RuledAxes DEF RuledBy
<1>7. QED
  BY <1>2, <1>3, <1>4, <1>5, <1>6, EveryStep DEF StepOf

(* The pre gate holds: nothing is live, or on the far side of having been  *)
(* live, that a moderator has not ruled on.                                *)
THEOREM GateHolds == Spec => []NeverLiveUnreviewed
<1>1. Init => NeverLiveUnreviewed
  BY DEF Init, NeverLiveUnreviewed, BeenLive, Absent
<1>2. QED
  BY <1>1, TypeCorrect, GateStep, PTL DEF Spec

(* How a step brings a row into the window. *)
LEMMA WindowStep ==
  ASSUME TypeOK, [Next]_vars, NEW k \in Listings, EntersWindow(k), "published" \notin RawWrites,
         \/ row[k].status \in {"blocked", "rejected"}
         \/ Moderated /\ row[k].status \notin {"paused", "sold"}
  PROVE  review'[k].ruling = "approved" /\ row'[k].mod = "approved"
<1> USE DEF EntersWindow
<1>1. row[k] \in Row
  BY DEF TypeOK
<1>2. ~Kept(k) /\ ~Fresh(k)
  BY DEF Kept, Fresh
<1>3. ~Submitted(k)
  BY <1>1, PublishedRowStatus DEF Submitted, StandingRejection, Moderated
<1>4. ASSUME NEW s \in Statuses PROVE ~MovedTo(k, s)
  BY <1>1, MoveTargets DEF MovedTo, Row
<1>5. PICK d \in Decisions : RuledBy(k, d)
  BY <1>2, <1>3, <1>4, EveryStep DEF StepOf
<1>6. d = "approved"
  BY <1>1, <1>5, RuledAxes DEF RuledBy
<1>7. QED
  BY <1>1, <1>5, <1>6, RuledAxes DEF RuledBy

(* Under the pre gate a row comes into the window off the shelf, or in the *)
(* step of an approving verdict.                                           *)
THEOREM PublicationIsAVerdict == Spec => PublicationNeedsAVerdict
<1>1. TypeOK /\ [Next]_vars =>
        [Moderated =>
           \A l \in Listings :
             EntersWindow(l) /\ row[l].status \notin {"paused", "sold"}
               => review'[l].ruling = "approved" /\ row'[l].mod = "approved"]_vars
  BY WindowStep DEF Moderated
<1>2. QED
  BY <1>1, TypeCorrect, PTL DEF Spec, PublicationNeedsAVerdict

(* Under any gate a blocked or rejected row comes back to the window only  *)
(* in the step of an approving verdict.                                    *)
THEOREM ReinstatementIsAVerdict == Spec => OnlyAVerdictReinstates
<1>1. TypeOK /\ [Next]_vars =>
        [\A l \in Listings :
           EntersWindow(l) /\ row[l].status \in {"blocked", "rejected"}
                           /\ "published" \notin RawWrites
             => review'[l].ruling = "approved"]_vars
  BY WindowStep
<1>2. QED
  BY <1>1, TypeCorrect, PTL DEF Spec, OnlyAVerdictReinstates

(* How a step makes a row blocked. *)
LEMMA TakedownStep ==
  ASSUME TypeOK, [Next]_vars, NEW k \in Listings, "blocked" \notin RawWrites,
         row[k].status # "blocked", row'[k].status = "blocked"
  PROVE  /\ row[k].status = "published"
         /\ review'[k].ruling = "rejected" /\ row'[k].mod = "rejected"
<1>1. row[k] \in Row
  BY DEF TypeOK
<1>2. ~Kept(k) /\ ~Fresh(k)
  BY DEF Kept, Fresh
<1>3. ~Submitted(k)
  BY <1>1, PublishedRowStatus DEF Submitted
<1>4. ASSUME NEW s \in Statuses PROVE ~MovedTo(k, s)
  BY <1>1, MoveTargets DEF MovedTo, Row
<1>5. PICK d \in Decisions : RuledBy(k, d)
  BY <1>2, <1>3, <1>4, EveryStep DEF StepOf
<1>6. d = "rejected" /\ row[k].status = "published"
  BY <1>1, <1>5, RuledAxes DEF RuledBy
<1>7. QED
  BY <1>1, <1>5, <1>6, RuledAxes DEF RuledBy

(* A row becomes blocked only from published and only by a rejecting       *)
(* verdict.                                                                *)
THEOREM BlockingIsAVerdict == Spec => TakedownIsAVerdict
<1>1. TypeOK /\ [Next]_vars =>
        [\A l \in Listings :
           row[l].status # "blocked" /\ row'[l].status = "blocked" /\ "blocked" \notin RawWrites
             => /\ row[l].status = "published"
                /\ review'[l].ruling = "rejected" /\ row'[l].mod = "rejected"]_vars
  BY TakedownStep
<1>2. QED
  BY <1>1, TypeCorrect, PTL DEF Spec, TakedownIsAVerdict

=============================================================================
