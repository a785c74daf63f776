------------------------------ MODULE Delivery ------------------------------
(***************************************************************************)
(* One listing and the messages that cross its boundary: the index events  *)
(* on their way to stapel-search, the export pages it reads, and the       *)
(* verdicts stapel-moderation sends.  Module Listing folds all of them     *)
(* into the committing step; here they are in flight: delivered late, in   *)
(* any order, and again after they have been handled.                      *)
(*                                                                         *)
(* Time is the clock of the database: every commit has its own             *)
(* millisecond.  What a document says is told apart by the instant of the  *)
(* change that made it.  The policy is the default one: the pre gate, no   *)
(* automatic approval (module Listing has the others).                     *)
(***************************************************************************)
EXTENDS Naturals, FiniteSets, Lifecycle

CONSTANTS
  Owners, Guest,   \* accounts, and the guest who wrote the listing
  MaxClock,        \* commits nobody waits for stop here
  MaxRulings,      \* how often the moderators rule
  NoPage           \* no export page is being applied

ASSUME DeliveryAssumption ==
  /\ Guest \in Owners
  /\ MaxClock \in Nat /\ MaxRulings \in Nat
  /\ NoPage \notin [document : [version : Nat, updated : Nat, owner : Owners,
                                mod : ModerationStatuses, public : BOOLEAN], seq : Nat]

VARIABLES
  row,      \* the listing
  clock,
  signals,  \* the index events there have been
  owed,     \* those stapel-search has not handled yet
  index,    \* its document of the listing, and the sequence number beside it
  page,     \* the listing's row of an export page it has read, not applied
  rulings,  \* the verdicts there have been
  unacked   \* those this module has not handled yet

vars == <<row, clock, signals, owed, index, page, rulings, unacked>>

Row == [status : Statuses, mod : ModerationStatuses, category : BOOLEAN,
        deleted : BOOLEAN, owner : Owners,
        version : Nat,   \* the instant of the last announced change
        updated : Nat]   \* updated_at
Documents == [version : Nat, updated : Nat, owner : Owners, mod : ModerationStatuses,
              public : BOOLEAN]
Entry == [document : Documents, seq : Nat]
Signal == [at : Nat, kind : {"changed", "removed"}]
Ruling == [at : Nat, decision : Decisions]

(* build_search_document. *)
Public(r) == ~r.deleted /\ r.status \in Indexed
Document(r) ==
  [version |-> IF Public(r) THEN r.version ELSE 0, updated |-> r.updated,
   owner |-> r.owner, mod |-> r.mod, public |-> Public(r)]

NotServed(d) == [d EXCEPT !.version = 0, !.public = FALSE]

Init ==
  /\ row = [status |-> "draft", mod |-> "not_submitted", category |-> TRUE,
            deleted |-> FALSE, owner |-> Guest, version |-> 0, updated |-> 0]
  /\ clock = 0
  /\ signals = {} /\ owed = {}
  /\ index = [document |-> Document(row), seq |-> 0]
  /\ page = NoPage
  /\ rulings = {} /\ unacked = {}

-----------------------------------------------------------------------------
(* A commit: updated_at and, if the change is one an index is told of, the *)
(* event that leaves with it.                                              *)

Now == clock + 1
Stamp(r) == [r EXCEPT !.updated = Now]
Emit(kind) ==
  /\ signals' = signals \cup {[at |-> Now, kind |-> kind]}
  /\ owed' = owed \cup {[at |-> Now, kind |-> kind]}
EmitNothing == UNCHANGED <<signals, owed>>

Announced(r) == [r EXCEPT !.version = Now]

Store(r, signal) ==
  /\ clock' = Now
  /\ IF signal = "none" THEN row' = r /\ EmitNothing
     ELSE row' = Announced(r) /\ Emit(signal)
  /\ UNCHANGED <<index, page>>

(* The event of a status write that crosses the index boundary, whether or *)
(* not the row is deleted.                                                 *)
Crossing(r) ==
  IF r.status \in Indexed /\ row.status \notin Indexed THEN "changed"
  ELSE IF row.status \in Indexed /\ r.status \notin Indexed THEN "removed"
  ELSE "none"

(* Listing.save of a row whose indexed columns moved, its status included. *)
StoreContent(r) ==
  Store(r, IF Crossing(r) = "none" /\ r.status \in Indexed THEN "changed" ELSE Crossing(r))

BeforeTheBound == clock < MaxClock
UNCHANGEDVerdicts == UNCHANGED <<rulings, unacked>>

-----------------------------------------------------------------------------
(* The owner. *)

Submitted ==
  Stamp([row EXCEPT !.status = IF @ \in Indexed THEN @ ELSE "pending", !.mod = "pending"])

(* A live listing whose promotion moves no indexed column is submitted     *)
(* again with no event: moderation_status and updated_at alone change.     *)
Publish(moved) ==
  /\ BeforeTheBound /\ ~row.deleted
  /\ row.category /\ PublishableFrom(row.status)
  /\ IF moved THEN StoreContent(Submitted) ELSE Store(Submitted, Crossing(Submitted))
  /\ UNCHANGEDVerdicts

(* save-draft: a whole save that moves the draft columns and updated_at.   *)
SaveDraft ==
  /\ BeforeTheBound /\ ~row.deleted
  /\ Store(Stamp(row), "none")
  /\ UNCHANGEDVerdicts

(* save-draft: category_id has no draft twin, and any owner may clear it.  *)
SetCategory ==
  /\ BeforeTheBound /\ ~row.deleted
  /\ StoreContent(Stamp([row EXCEPT !.category = ~row.category]))
  /\ UNCHANGEDVerdicts

CanMove(r, s) ==
  \/ s = r.status
  \/ s \in Transitions[r.status] /\ (s \in Categoryless \/ r.category)

OwnerMove(s) ==
  /\ BeforeTheBound /\ ~row.deleted
  /\ s \in OwnerTransitions[row.status]
  /\ <<row.status, s>> \notin RestoreEdges
  /\ CanMove(row, s)
  /\ Store(Stamp([row EXCEPT !.status = s]), Crossing([row EXCEPT !.status = s]))
  /\ UNCHANGEDVerdicts

-----------------------------------------------------------------------------
(* The host, management commands, other services. *)

Delete ==
  /\ BeforeTheBound /\ ~row.deleted
  /\ Store(Stamp([row EXCEPT !.deleted = TRUE]),
           IF row.status \in Indexed THEN "removed" ELSE "none")
  /\ UNCHANGEDVerdicts

(* Mutation: only the way out of the index is announced.                   *)
RestoreQuietly ==
  /\ BeforeTheBound /\ row.deleted
  /\ Store(Stamp([row EXCEPT !.deleted = FALSE]), "none")
  /\ UNCHANGEDVerdicts

Restore ==
  /\ BeforeTheBound /\ row.deleted
  /\ Store(Stamp([row EXCEPT !.deleted = FALSE]),
           IF row.status \in Indexed THEN "changed" ELSE "none")
  /\ UNCHANGEDVerdicts

(* Mutation: a queryset update of the projections. *)
ReprojectQuietly ==
  /\ BeforeTheBound /\ ~row.deleted
  /\ clock' = Now
  /\ row' = [row EXCEPT !.version = IF Public(row) THEN Now ELSE row.version]
  /\ EmitNothing
  /\ UNCHANGED <<index, page>> /\ UNCHANGEDVerdicts

(* reproject_listings: the projections move, and updated_at does not.      *)
Reproject ==
  /\ BeforeTheBound /\ ~row.deleted
  /\ StoreContent(row)
  /\ UNCHANGEDVerdicts

(* user.merged: a queryset update, past save and its detectors.            *)
Merge(u) ==
  /\ row.owner = Guest /\ u \in Owners \ {Guest}
  /\ row' = [row EXCEPT !.owner = u]
  /\ UNCHANGED <<clock, index, page>> /\ EmitNothing /\ UNCHANGEDVerdicts

-----------------------------------------------------------------------------
(* Verdicts. *)

(* A case is open once the listing has been submitted, and can be ruled on *)
(* again: a report, an appeal.                                             *)
Rule(decision) ==
  /\ BeforeTheBound /\ row.mod # "not_submitted"
  /\ Cardinality(rulings) < MaxRulings
  /\ rulings' = rulings \cup {[at |-> Now, decision |-> decision]}
  /\ unacked' = unacked \cup {[at |-> Now, decision |-> decision]}
  /\ clock' = Now
  /\ UNCHANGED <<row, index, page>> /\ EmitNothing

(* Mutation: a rejection blocks whatever is not pending. *)
VerdictTargetBlocks(r, decision) ==
  IF decision = "approved" /\ r.status \in {"pending", "blocked", "rejected"}
    THEN "published"
  ELSE IF decision = "rejected" THEN IF r.status = "pending" THEN "rejected" ELSE "blocked"
  ELSE r.status

VerdictTarget(r, decision) ==
  IF decision = "approved" /\ r.status \in {"pending", "blocked", "rejected"}
    THEN "published"
  ELSE IF decision = "rejected" /\ r.status = "pending" THEN "rejected"
  ELSE IF decision = "rejected" /\ r.status \in Indexed THEN "blocked"
  ELSE r.status

Ruled(r, decision) ==
  IF decision = "dismissed" THEN r
  ELSE Stamp([r EXCEPT !.mod = decision, !.status = VerdictTarget(r, decision)])

(* apply_moderation.  A lifecycle move that transition_to refuses raises:  *)
(* nothing is stored, the verdict is not acknowledged and comes again.     *)
Apply(m) ==
  /\ CanMove(row, VerdictTarget(row, m.decision))
  /\ Store(Ruled(row, m.decision), Crossing(Ruled(row, m.decision)))
  /\ unacked' = unacked \ {m}
  /\ UNCHANGED rulings

Deliver(m) == m \in unacked /\ Apply(m)
Redeliver(m) == m \in rulings \ unacked /\ BeforeTheBound /\ Apply(m)

-----------------------------------------------------------------------------
(* stapel-search: an event is a signal to pull the document; one older     *)
(* than what the index has heard of is dropped, and so is such a page.     *)

Newer(seq) == seq >= index.seq

Hear(s) ==
  /\ s \in signals
  /\ index' = IF ~Newer(s.at) THEN index
              ELSE [document |-> IF s.kind = "removed" THEN NotServed(Document(row))
                                 ELSE Document(row),
                    seq |-> s.at]
  /\ owed' = owed \ {s}
  /\ UNCHANGED <<row, clock, signals, page>> /\ UNCHANGEDVerdicts

(* export_page: sequence_of is updated_at. *)
ReadPage ==
  /\ page = NoPage /\ ~row.deleted
  /\ page' = [document |-> Document(row), seq |-> row.updated]
  /\ UNCHANGED <<row, clock, signals, owed, index>> /\ UNCHANGEDVerdicts

ApplyPage ==
  /\ page # NoPage
  /\ index' = IF Newer(page.seq) THEN page ELSE index
  /\ page' = NoPage
  /\ UNCHANGED <<row, clock, signals, owed>> /\ UNCHANGEDVerdicts

-----------------------------------------------------------------------------
Next ==
  \/ \E moved \in BOOLEAN : Publish(moved)
  \/ SaveDraft \/ SetCategory \/ \E s \in Statuses : OwnerMove(s)
  \/ Delete \/ Restore \/ Reproject \/ \E u \in Owners : Merge(u)
  \/ \E d \in Decisions : Rule(d)
  \/ \E m \in rulings : Deliver(m) \/ Redeliver(m)
  \/ \E s \in signals : Hear(s)
  \/ ReadPage \/ ApplyPage

Safe == Init /\ [][Next]_vars

(* Brokers redeliver what has not been acknowledged.                       *)
Fairness ==
  /\ WF_vars(\E s \in owed : Hear(s))
  /\ \A m \in [at : 1 .. MaxClock, decision : Decisions] : WF_vars(Deliver(m))

Spec == Safe /\ Fairness

-----------------------------------------------------------------------------
(* What is stored and in flight is what the code stores and sends, and     *)
(* nothing unacknowledged is unsent.                                       *)
TypeOK ==
  /\ row \in Row
  /\ clock \in Nat
  /\ signals \subseteq Signal /\ owed \subseteq signals
  /\ index \in Entry /\ page \in Entry \cup {NoPage}
  /\ rulings \subseteq Ruling /\ unacked \subseteq rulings

Current == Document(row).version

(* When stapel-search has handled every event, the index serves the        *)
(* listing exactly as it is announced, whatever pages and repeated events  *)
(* it has taken in between: the ordering guard over updated_at is enough,  *)
(* though re-projection does not move it.                                  *)
SettledIndexIsCurrent == owed = {} => index.document.version = Current

(* The index, as the replica the module promises.                          *)
Promise == INSTANCE Replica WITH
  Versions <- Nat, current <- Current,
  served <- index.document.version, settled <- owed = {}
IndexIsAReplica == Promise!Spec

Agrees ==
  index.document = IF Public(row) THEN Document(row) ELSE NotServed(index.document)

(* A document that agrees in every field goes wrong, with no event to mend *)
(* it, only by a merge (the owner), a draft saved (updated_at), a          *)
(* submission that moves no indexed column or a verdict that moves         *)
(* moderation_status alone (both of these), or by a page read before one.  *)
OnlySilentWritesMislead ==
  [][Agrees /\ owed = {} =>
       \/ Agrees'
       \/ owed' # {}
       \/ \E u \in Owners : Merge(u)
       \/ SaveDraft
       \/ row.status \in Indexed /\ Publish(FALSE)
       \/ ApplyPage /\ page.document.version = Current
       \/ \E m \in rulings : (Deliver(m) \/ Redeliver(m)) /\ row'.status = row.status]_vars

(* Every verdict is applied in the end, if the listing keeps a category    *)
(* from some time on: no order of the owner's and the moderators' moves    *)
(* leaves one that no redelivery can apply.                                *)
VerdictsAreApplied == <>[]row.category => \A d \in Decisions :
  []((\E m \in unacked : m.decision = d) => <>(\A m \in unacked : m.decision # d))

(* A rejecting verdict takes a live listing out of the window.             *)
RejectionRemovesTheListing ==
  []((Public(row) /\ \E m \in unacked : m.decision = "rejected") => <>~Public(row))
=============================================================================
