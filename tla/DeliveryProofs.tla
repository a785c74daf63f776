--------------------------- MODULE DeliveryProofs ---------------------------
(***************************************************************************)
(* That the index converges, however late, repeated or reordered what it   *)
(* is sent: for any number of commits, verdicts and owners.                *)
(*                                                                         *)
(* A document says the instant of the last announced change (Current), a   *)
(* sequence number is an instant too.  The argument is that whatever bears *)
(* a sequence number from that instant on also says that instant: then the *)
(* ordering guard can only let the right document win.                     *)
(***************************************************************************)
EXTENDS Delivery, TLAPS

(* A commit no index is told of: nothing it serves has changed.            *)
Silent ==
  /\ row' \in Row /\ row'.version = row.version /\ row'.updated <= Now
  /\ Public(row') = Public(row)
  /\ UNCHANGED <<signals, owed>>

(* A commit announced under its own instant.                               *)
Loud ==
  /\ row' \in Row /\ row'.version = Now /\ row'.updated <= Now
  /\ \E kind \in {"changed", "removed"} :
       Emit(kind) /\ (kind = "removed" => ~Public(row'))

Commit == clock' = Now /\ UNCHANGED <<index, page>> /\ (Silent \/ Loud)

OwnerStep ==
  \/ \E moved \in BOOLEAN : Publish(moved)
  \/ SaveDraft \/ SetCategory \/ \E s \in Statuses : OwnerMove(s)
  \/ Delete \/ Restore \/ Reproject

InTime ==
  /\ row.version <= clock /\ row.updated <= clock
  /\ index.seq <= clock /\ (page # NoPage => page.seq <= clock)
  /\ \A s \in signals : s.at <= row.version

Announcements ==
  /\ row.version > 0 => \E s \in signals : s.at = row.version
  /\ \A s \in signals : s.at = row.version /\ s.kind = "removed" => ~Public(row)

LateIsRight ==
  /\ index.seq >= row.version => index.document.version = Current
  /\ page # NoPage /\ page.seq >= row.version => page.document.version = Current

HeardIsCounted == \A s \in signals \ owed : index.seq >= s.at

IInv == TypeOK /\ InTime /\ Announcements /\ LateIsRight /\ HeardIsCounted

-----------------------------------------------------------------------------
(* Types. *)

LEMMA DocumentType == ASSUME NEW r \in Row PROVE Document(r) \in Documents
BY DEF Row, Documents, Document, Public, Indexed

LEMMA NotServedType == ASSUME NEW d \in Documents PROVE NotServed(d) \in Documents
BY DEF Documents, NotServed

LEMMA NoPageIsNoEntry == NoPage \notin Entry
BY DeliveryAssumption DEF Entry, Documents

LEMMA StampType ==
  ASSUME NEW r \in Row, clock \in Nat
  PROVE  /\ Stamp(r) \in Row /\ Announced(r) \in Row
         /\ Stamp(r).version = r.version /\ Announced(r).version = Now
         /\ Stamp(r).updated = Now /\ Announced(r).updated = r.updated
         /\ \A f \in {Stamp(r), Announced(r)} :
              /\ f.deleted = r.deleted /\ f.status = r.status
              /\ f.mod = r.mod /\ f.owner = r.owner
BY DEF Row, Stamp, Announced, Now

(* apply_moderation leaves a row of the two axes' statuses.                *)
LEMMA RuledType ==
  ASSUME NEW r \in Row, NEW d \in Decisions, clock \in Nat
  PROVE  /\ Ruled(r, d) \in Row /\ Ruled(r, d).version = r.version
         /\ Ruled(r, d).updated \in {r.updated, Now}
         /\ Ruled(r, d).deleted = r.deleted /\ Ruled(r, d).owner = r.owner
         /\ Ruled(r, d).status = VerdictTarget(r, d) \/ Ruled(r, d).status = r.status
<1>1. CASE d = "dismissed"
  BY <1>1 DEF Ruled
<1>2. CASE d # "dismissed"
  <2> DEFINE t == VerdictTarget(r, d)
  <2>1. t \in Statuses
    BY DEF VerdictTarget, Row, Statuses
  <2>2. d \in ModerationStatuses
    BY <1>2 DEF Decisions, ModerationStatuses
  <2>3. Ruled(r, d) = [[r EXCEPT !.mod = d, !.status = t] EXCEPT !.updated = Now]
    BY <1>2 DEF Ruled, Stamp
  <2>4. t = VerdictTarget(r, d)
    OBVIOUS
  <2> HIDE DEF t
  <2>5. Ruled(r, d) =
          [status |-> t, mod |-> d, category |-> r.category, deleted |-> r.deleted,
           owner |-> r.owner, version |-> r.version, updated |-> Now]
    BY <2>3 DEF Row
  <2> QED BY <2>1, <2>2, <2>4, <2>5 DEF Row, Now
<1> QED BY <1>1, <1>2

-----------------------------------------------------------------------------
(* Every write of the listing is a commit: silent where it changes nothing *)
(* that is served, loud otherwise.                                         *)

(* Store with the event the two detectors agree on.                        *)
LEMMA CrossingCommits ==
  ASSUME TypeOK, NEW r \in Row, r.version = row.version, r.updated <= Now,
         r.deleted = row.deleted, Store(r, Crossing(r))
  PROVE  Commit /\ (Crossing(r) # "none" => Loud)
<1>1. CASE Crossing(r) = "none"
  <2>1. row' = r /\ UNCHANGED <<signals, owed>>
    BY <1>1 DEF Store, EmitNothing
  <2>2. Public(r) = Public(row)
    BY <1>1 DEF Crossing, Public
  <2> QED BY <1>1, <2>1, <2>2 DEF Store, Commit, Silent
<1>2. CASE Crossing(r) # "none"
  <2>1. row' = Announced(r) /\ Emit(Crossing(r)) /\ Crossing(r) \in {"changed", "removed"}
    BY <1>2 DEF Store, Crossing
  <2>2. /\ row' \in Row /\ row'.version = Now /\ row'.updated = r.updated
        /\ row'.status = r.status
    BY <2>1, StampType DEF Announced, Row, TypeOK
  <2>3. Crossing(r) = "removed" => ~Public(row')
    BY <2>2 DEF Crossing, Public
  <2> QED BY <1>2, <2>1, <2>2, <2>3 DEF Store, Commit, Loud
<1> QED BY <1>1, <1>2

LEMMA ContentCommits ==
  ASSUME TypeOK, NEW r \in Row, r.version = row.version, r.updated <= Now,
         r.deleted = row.deleted, StoreContent(r)
  PROVE  Commit /\ (Public(row) => Loud)
<1>1. CASE Crossing(r) = "none" /\ r.status \in Indexed
  <2>1. row' = Announced(r) /\ Emit("changed") /\ clock' = Now /\ UNCHANGED <<index, page>>
    BY <1>1 DEF StoreContent, Store
  <2>2. /\ row' \in Row /\ row'.version = Now /\ row'.updated = r.updated
    BY <2>1, StampType DEF Announced, Row, TypeOK
  <2> QED BY <2>1, <2>2 DEF Commit, Loud
<1>2. CASE ~(Crossing(r) = "none" /\ r.status \in Indexed)
  <2>1. Store(r, Crossing(r))
    BY <1>2 DEF StoreContent
  <2>2. Commit /\ (Crossing(r) # "none" => Loud)
    BY <2>1, CrossingCommits
  <2>3. Public(row) => Crossing(r) = "removed"
    BY <1>2 DEF Public, Crossing
  <2> QED BY <2>2, <2>3
<1> QED BY <1>1, <1>2

(* The owner, the host and the re-projection: on a listing that is served, *)
(* only these two of their writes are silent.                              *)
Quiet ==
  \/ SaveDraft
  \/ row.status \in Indexed /\ Publish(FALSE)

LEMMA OwnerCommits ==
  ASSUME TypeOK, InTime, OwnerStep
  PROVE  /\ Commit /\ UNCHANGED <<rulings, unacked>>
         /\ Public(row) => Loud \/ Quiet
<1>0. row \in Row /\ clock \in Nat /\ row.updated <= Now /\ row.version < Now
  BY DEF TypeOK, InTime, Row, Now
<1>1. ASSUME NEW moved \in BOOLEAN, Publish(moved)
      PROVE  /\ Commit /\ UNCHANGED <<rulings, unacked>>
             /\ Public(row) => Loud \/ Quiet
  <2> DEFINE x == [row EXCEPT !.status = IF @ \in Indexed THEN @ ELSE "pending",
                              !.mod = "pending"]
  <2>0. x \in Row /\ x.version = row.version /\ x.deleted = row.deleted
    BY <1>0 DEF Row, Statuses, ModerationStatuses
  <2>01. Submitted = Stamp(x)
    BY DEF Submitted
  <2> HIDE DEF x
  <2>1. /\ Submitted \in Row /\ Submitted.version = row.version
        /\ Submitted.deleted = row.deleted /\ Submitted.updated <= Now
    BY <1>0, <2>0, <2>01, StampType DEF Now
  <2>2. CASE moved
    BY <1>1, <2>1, <2>2, ContentCommits DEF Publish, UNCHANGEDVerdicts
  <2>3. CASE ~moved
    <3>1. Store(Submitted, Crossing(Submitted)) /\ UNCHANGED <<rulings, unacked>>
      BY <1>1, <2>3 DEF Publish, UNCHANGEDVerdicts
    <3>2. moved = FALSE
      BY <2>3
    <3>3. Public(row) => Quiet
      BY <1>1, <3>2 DEF Quiet, Public
    <3> QED BY <2>1, <3>1, <3>3, CrossingCommits
  <2> QED BY <2>2, <2>3
<1>2. CASE SetCategory
  <2> DEFINE x == [row EXCEPT !.category = ~row.category]
  <2> DEFINE r == Stamp(x)
  <2>0. x \in Row /\ x.version = row.version /\ x.deleted = row.deleted
    BY <1>0 DEF Row
  <2>1. r \in Row /\ r.version = row.version /\ r.deleted = row.deleted /\ r.updated = Now
    BY <1>0, <2>0, StampType
  <2>2. StoreContent(r) /\ UNCHANGED <<rulings, unacked>>
    BY <1>2 DEF SetCategory, UNCHANGEDVerdicts
  <2> HIDE DEF r
  <2> QED BY <2>1, <2>2, ContentCommits DEF Now, TypeOK
<1>3. ASSUME NEW t \in Statuses, OwnerMove(t)
      PROVE  /\ Commit /\ UNCHANGED <<rulings, unacked>>
             /\ Public(row) => Loud
  <2> DEFINE x == [row EXCEPT !.status = t]
  <2> DEFINE r == Stamp(x)
  <2>0. /\ x \in Row /\ x.version = row.version /\ x.deleted = row.deleted
        /\ x.status = t /\ x.mod = row.mod /\ x.owner = row.owner
    BY <1>0 DEF Row
  <2>1. /\ r \in Row /\ r.version = row.version /\ r.deleted = row.deleted
        /\ r.updated = Now /\ r.status = t /\ r.mod = row.mod /\ r.owner = row.owner
    BY <1>0, <2>0, StampType
  <2>2. Crossing([row EXCEPT !.status = t]) = Crossing(r)
    BY <1>0, <2>1 DEF Crossing, Row
  <2>3. Store(r, Crossing(r)) /\ UNCHANGED <<rulings, unacked>>
    BY <1>3, <2>2 DEF OwnerMove, UNCHANGEDVerdicts
  <2> HIDE DEF r
  <2>4. Public(row) => t \notin Indexed
    BY <1>0, <1>3 DEF OwnerMove, OwnerTransitions, Public, Indexed, Statuses
  <2>5. Public(row) => Crossing(r) # "none"
    BY <2>1, <2>4 DEF Crossing, Public
  <2>6. r.updated <= Now
    BY <1>0, <2>1 DEF Now
  <2> QED BY <2>1, <2>3, <2>5, <2>6, CrossingCommits
<1>4. ASSUME NEW b \in BOOLEAN, row.deleted = ~b,
             NEW signal \in {"changed", "removed", "none"},
             signal = IF row.status \notin Indexed THEN "none"
                      ELSE IF b THEN "removed" ELSE "changed",
             Store(Stamp([row EXCEPT !.deleted = b]), signal)
      PROVE  Commit /\ (Public(row) => Loud)
  <2> DEFINE x == [row EXCEPT !.deleted = b]
  <2> DEFINE r == Stamp(x)
  <2>0. /\ x \in Row /\ x.version = row.version
        /\ x.deleted = b /\ x.status = row.status
    BY <1>0 DEF Row
  <2>1. /\ r \in Row /\ r.version = row.version /\ r.updated = Now
        /\ r.deleted = b /\ r.status = row.status
    BY <1>0, <2>0, StampType
  <2>2. CASE signal = "none"
    <3>1. row' = r /\ UNCHANGED <<signals, owed>> /\ clock' = Now /\ UNCHANGED <<index, page>>
      BY <1>4, <2>2 DEF Store, EmitNothing
    <3>2. ~Public(row) /\ ~Public(r)
      BY <1>4, <2>1, <2>2 DEF Public
    <3>3. r.updated <= Now
      BY <1>0, <2>1 DEF Now
    <3> HIDE DEF r
    <3>4. Public(row') <=> Public(row)
      BY <3>1, <3>2
    <3>5. Public(row') = Public(row)
      BY <3>4 DEF Public
    <3> QED BY <2>1, <3>1, <3>2, <3>3, <3>5 DEF Commit, Silent
  <2>3. CASE signal # "none"
    <3>1. row' = Announced(r) /\ Emit(signal) /\ clock' = Now /\ UNCHANGED <<index, page>>
      BY <1>4, <2>3 DEF Store
    <3> HIDE DEF r
    <3>2. /\ Announced(r) \in Row /\ Announced(r).version = Now /\ Announced(r).updated = Now
          /\ Announced(r).deleted = b
      BY <1>0, <2>1, StampType
    <3>3. signal = "removed" => ~Public(row')
      BY <1>4, <3>1, <3>2 DEF Public
    <3>4. Now <= Now
      BY <1>0 DEF Now
    <3> QED BY <1>4, <2>3, <3>1, <3>2, <3>3, <3>4 DEF Commit, Loud
  <2> QED BY <2>2, <2>3
<1>5. CASE Delete
  <2>1. row.deleted = ~TRUE
    BY <1>0, <1>5 DEF Delete, Row
  <2> QED BY <1>4, <1>5, <2>1 DEF Delete, UNCHANGEDVerdicts
<1>6. CASE Restore
  <2>1. row.deleted = ~FALSE
    BY <1>0, <1>6 DEF Restore, Row
  <2> QED BY <1>4, <1>6, <2>1 DEF Restore, UNCHANGEDVerdicts
<1>7. CASE Reproject
  BY <1>0, <1>7, ContentCommits DEF Reproject, UNCHANGEDVerdicts
<1>8. CASE SaveDraft
  <2> DEFINE r == Stamp(row)
  <2>1. /\ r \in Row /\ r.version = row.version /\ r.updated = Now
        /\ r.deleted = row.deleted /\ r.status = row.status
    BY <1>0, StampType
  <2>2. Store(r, "none") /\ UNCHANGED <<rulings, unacked>>
    BY <1>8 DEF SaveDraft, UNCHANGEDVerdicts
  <2> HIDE DEF r
  <2>3. Crossing(r) = "none" /\ r.updated <= Now
    BY <1>0, <2>1 DEF Crossing, Now
  <2>4. Store(r, Crossing(r))
    BY <2>2, <2>3
  <2> QED BY <1>8, <2>1, <2>2, <2>3, <2>4, CrossingCommits DEF Quiet
<1> QED BY <1>1, <1>2, <1>3, <1>5, <1>6, <1>7, <1>8 DEF OwnerStep

(* A verdict; on a listing that stays in the window it may be silent.      *)
LEMMA ApplyCommits ==
  ASSUME TypeOK, InTime, NEW m \in rulings, Apply(m)
  PROVE  /\ Commit /\ UNCHANGED rulings /\ unacked' = unacked \ {m}
         /\ Public(row) => Loud \/ row'.status = row.status
<1> DEFINE r == Ruled(row, m.decision)
<1>0. row \in Row /\ clock \in Nat /\ row.updated <= Now /\ m.decision \in Decisions
  BY DEF TypeOK, InTime, Row, Now, Ruling
<1>1. /\ r \in Row /\ r.version = row.version /\ r.deleted = row.deleted
      /\ r.updated \in {row.updated, Now}
  BY <1>0, RuledType
<1>2. r.updated <= Now
  BY <1>0, <1>1 DEF Now
<1>3. Store(r, Crossing(r))
  BY DEF Apply
<1>4. Crossing(r) = "none" => row' = r
  BY <1>3 DEF Store
<1> HIDE DEF r
<1>5. Commit /\ (Crossing(r) # "none" => Loud)
  BY <1>1, <1>2, <1>3, CrossingCommits
<1>6. Public(row) /\ Crossing(r) = "none" => r.status = row.status
  BY DEF Public, Crossing, Indexed
<1> QED BY <1>4, <1>5, <1>6 DEF Apply

-----------------------------------------------------------------------------
(* The invariant, shape by shape.                                          *)

LEMMA InitInv == Init => IInv
<1> SUFFICES ASSUME Init PROVE IInv
  OBVIOUS
<1>1. row \in Row /\ row.version = 0 /\ row.updated = 0 /\ ~Public(row)
  BY DeliveryAssumption DEF Init, Row, Statuses, ModerationStatuses, Public, Indexed
<1>2. Document(row) \in Documents /\ Document(row).version = 0
  BY <1>1, DocumentType DEF Document
<1> QED
  BY <1>1, <1>2 DEF Init, IInv, TypeOK, Entry, InTime, Announcements, LateIsRight,
                    HeardIsCounted, Current

(* What a commit leaves of the order of instants and of what they say.     *)
LEMMA CommitInv ==
  ASSUME IInv, Commit
  PROVE  /\ row' \in Row /\ clock' \in Nat /\ signals' \subseteq Signal
         /\ owed' \subseteq signals' /\ index' \in Entry /\ page' \in Entry \cup {NoPage}
         /\ (InTime /\ Announcements /\ LateIsRight /\ HeardIsCounted)'
<1>0. /\ row \in Row /\ clock \in Nat /\ index \in Entry /\ page \in Entry \cup {NoPage}
      /\ signals \subseteq Signal /\ owed \subseteq signals
      /\ index.seq \in Nat /\ (page # NoPage => page.seq \in Nat) /\ row.version \in Nat
      /\ \A s \in signals : s.at \in Nat
      /\ clock' = clock + 1 /\ index' = index /\ page' = page /\ row' \in Row
      /\ row'.updated <= clock + 1
  BY DEF IInv, TypeOK, Row, Entry, Signal, Commit, Silent, Loud, Now
<1>1. CASE Silent
  <2>1. /\ row'.version = row.version /\ Public(row') = Public(row)
        /\ signals' = signals /\ owed' = owed
    BY <1>1 DEF Silent
  <2>2. Current' = Current
    BY <2>1 DEF Current, Document
  <2> QED
    BY <1>0, <2>1, <2>2 DEF IInv, TypeOK, InTime, Announcements, LateIsRight, HeardIsCounted
<1>2. CASE Loud
  <2>1. PICK kind \in {"changed", "removed"} :
          Emit(kind) /\ (kind = "removed" => ~Public(row'))
    BY <1>2 DEF Loud
  <2> DEFINE new == [at |-> clock + 1, kind |-> kind]
  <2>2. signals' = signals \cup {new} /\ owed' = owed \cup {new} /\ row'.version = clock + 1
    BY <1>2, <2>1 DEF Emit, Now, Loud
  <2>3. new \in Signal /\ new.at = clock + 1 /\ new.kind = kind
    BY <1>0 DEF Signal
  <2> HIDE DEF new
  <2>4. \A s \in signals : s.at < clock + 1
    BY <1>0 DEF IInv, InTime
  <2>5. index.seq < clock + 1 /\ (page # NoPage => page.seq < clock + 1)
    BY <1>0 DEF IInv, InTime
  <2>6. InTime'
    BY <1>0, <2>2, <2>3, <2>4, <2>5 DEF InTime
  <2>7. Announcements'
    BY <1>0, <2>1, <2>2, <2>3, <2>4 DEF Announcements
  <2>8. LateIsRight'
    BY <1>0, <2>2, <2>5 DEF LateIsRight
  <2>9. HeardIsCounted'
    BY <1>0, <2>2 DEF HeardIsCounted, IInv
  <2> QED BY <1>0, <2>2, <2>3, <2>6, <2>7, <2>8, <2>9
<1> QED BY <1>1, <1>2 DEF Commit

(* Hearing of an event, late or again: what bears the instant of the last  *)
(* announcement was pulled from the row as it is, or removes it rightly.   *)
LEMMA HearInv ==
  ASSUME IInv, NEW s \in signals, Hear(s)
  PROVE  IInv'
<1>0. /\ row \in Row /\ clock \in Nat /\ index \in Entry /\ index.seq \in Nat
      /\ s \in Signal /\ s.at \in Nat /\ row.version \in Nat /\ s.at <= row.version
      /\ row.version <= clock
      /\ \A e \in signals : e.at \in Nat
  BY DEF IInv, TypeOK, InTime, Signal, Row, Entry
<1>1. /\ UNCHANGED <<row, clock, signals, page, rulings, unacked>>
      /\ owed' = owed \ {s} /\ Current' = Current
  BY DEF Hear, UNCHANGEDVerdicts, Current
<1>2. CASE Newer(s.at)
  <2> DEFINE d == IF s.kind = "removed" THEN NotServed(Document(row)) ELSE Document(row)
  <2>1. index' = [document |-> d, seq |-> s.at]
    BY <1>2 DEF Hear
  <2>2. d \in Documents
    BY <1>0, DocumentType, NotServedType
  <2>3. s.at = row.version => d.version = Current
    <3>1. CASE s.at = row.version /\ s.kind = "removed"
      <4>1. ~Public(row)
        BY <3>1 DEF IInv, Announcements
      <4>2. Document(row).version = 0
        BY <4>1 DEF Document
      <4>3. d.version = 0
        BY <1>0, <3>1, DocumentType DEF NotServed, Documents
      <4> QED BY <4>2, <4>3 DEF Current
    <3>2. CASE s.kind # "removed"
      BY <3>2 DEF Current
    <3> QED BY <3>1, <3>2
  <2> HIDE DEF d
  <2>4. index' \in Entry /\ index'.seq = s.at /\ index'.document = d
    BY <1>0, <2>1, <2>2 DEF Entry
  <2>5. s.at >= index.seq
    BY <1>2 DEF Newer
  <2>6. TypeOK'
    BY <1>1, <2>4 DEF IInv, TypeOK
  <2>7. InTime'
    BY <1>0, <1>1, <2>4 DEF IInv, InTime
  <2>8. Announcements'
    BY <1>1 DEF IInv, Announcements
  <2>9. LateIsRight'
    BY <1>0, <1>1, <2>3, <2>4 DEF IInv, LateIsRight
  <2>10. HeardIsCounted'
    BY <1>0, <1>1, <2>4, <2>5 DEF IInv, HeardIsCounted
  <2> QED BY <2>6, <2>7, <2>8, <2>9, <2>10 DEF IInv
<1>3. CASE ~Newer(s.at)
  <2>1. index' = index /\ index.seq >= s.at
    BY <1>0, <1>3 DEF Hear, Newer
  <2>2. TypeOK' /\ InTime' /\ Announcements' /\ LateIsRight'
    BY <1>1, <2>1 DEF IInv, TypeOK, InTime, Announcements, LateIsRight
  <2>3. HeardIsCounted'
    BY <1>1, <2>1 DEF IInv, HeardIsCounted
  <2> QED BY <2>2, <2>3 DEF IInv
<1> QED BY <1>2, <1>3

(* An export page is right when it is read, and stays right as long as its *)
(* sequence number is not overtaken by an announcement.                    *)
LEMMA PageInv ==
  ASSUME IInv, ReadPage \/ ApplyPage
  PROVE  IInv'
<1>0. /\ row \in Row /\ row.updated \in Nat /\ index \in Entry /\ index.seq \in Nat
      /\ page \in Entry \cup {NoPage} /\ \A e \in signals : e.at \in Nat
  BY DEF IInv, TypeOK, Row, Entry, Signal
<1>1. /\ UNCHANGED <<row, clock, signals, owed, rulings, unacked>> /\ Current' = Current
  BY DEF ReadPage, ApplyPage, UNCHANGEDVerdicts, Current
<1>2. CASE ReadPage
  <2>1. page' = [document |-> Document(row), seq |-> row.updated] /\ index' = index
    BY <1>2 DEF ReadPage
  <2>2. /\ page' \in Entry /\ page'.seq = row.updated
        /\ page'.document.version = Current
    BY <1>0, <2>1, DocumentType DEF Entry, Current
  <2>3. TypeOK' /\ InTime'
    BY <1>1, <2>1, <2>2 DEF IInv, TypeOK, InTime
  <2> QED BY <1>1, <2>1, <2>2, <2>3 DEF IInv, Announcements, LateIsRight, HeardIsCounted
<1>3. CASE ApplyPage
  <2>1. page # NoPage /\ page \in Entry /\ page.seq \in Nat /\ page' = NoPage
    BY <1>0, <1>3 DEF ApplyPage, Entry
  <2>2. \/ index' = page /\ page.seq >= index.seq
        \/ index' = index
    BY <1>3 DEF ApplyPage, Newer
  <2>3. TypeOK' /\ InTime'
    BY <1>0, <1>1, <2>1, <2>2 DEF IInv, TypeOK, InTime
  <2>4. LateIsRight'
    BY <1>1, <2>1, <2>2 DEF IInv, LateIsRight
  <2>5. HeardIsCounted'
    BY <1>0, <1>1, <2>1, <2>2 DEF IInv, HeardIsCounted
  <2> QED BY <1>1, <2>3, <2>4, <2>5 DEF IInv, Announcements
<1> QED BY <1>2, <1>3

(* user.merged moves the owner alone.                                      *)
LEMMA MergeInv ==
  ASSUME IInv, NEW u \in Owners, Merge(u)
  PROVE  IInv' /\ Current' = Current /\ UNCHANGED <<index, owed>>
<1>1. /\ row' = [row EXCEPT !.owner = u] /\ row \in Row
      /\ UNCHANGED <<clock, signals, owed, index, page, rulings, unacked>>
  BY DEF Merge, EmitNothing, UNCHANGEDVerdicts, IInv, TypeOK
<1>2. /\ row' \in Row /\ row'.version = row.version /\ row'.updated = row.updated
      /\ row'.deleted = row.deleted /\ row'.status = row.status
  BY <1>1 DEF Row
<1>3. Public(row') = Public(row)
  BY <1>2 DEF Public
<1>4. Current' = Current
  BY <1>2, <1>3 DEF Current, Document
<1> QED
  BY <1>1, <1>2, <1>3, <1>4 DEF IInv, TypeOK, InTime, Announcements, LateIsRight,
                                HeardIsCounted

(* A ruling is a commit of another service's: the row stays as it is.      *)
LEMMA RuleInv ==
  ASSUME IInv, NEW d \in Decisions, Rule(d)
  PROVE  IInv' /\ Current' = Current /\ UNCHANGED <<row, index, owed>>
<1>1. /\ UNCHANGED <<row, signals, owed, index, page>> /\ clock' = Now
      /\ rulings' = rulings \cup {[at |-> Now, decision |-> d]}
      /\ unacked' = unacked \cup {[at |-> Now, decision |-> d]}
      /\ clock \in Nat /\ row \in Row
  BY DEF Rule, EmitNothing, IInv, TypeOK
<1>2. Commit
  BY <1>1 DEF IInv, InTime, Commit, Silent, Now, Row
<1>3. rulings' \subseteq Ruling /\ unacked' \subseteq rulings'
  BY <1>1 DEF IInv, TypeOK, Ruling, Now
<1>4. Current' = Current
  BY <1>1 DEF Current
<1> QED BY <1>1, <1>2, <1>3, <1>4, CommitInv DEF IInv, TypeOK

(* What is applied is a verdict there has been.                            *)
LEMMA AppliedIsRuled ==
  ASSUME TypeOK, NEW m \in rulings, Deliver(m) \/ Redeliver(m)
  PROVE  Apply(m) /\ unacked \ {m} \subseteq rulings
BY DEF TypeOK, Deliver, Redeliver

LEMMA NextInv == IInv /\ [Next]_vars => IInv'
<1> SUFFICES ASSUME IInv, [Next]_vars PROVE IInv'
  OBVIOUS
<1>0. TypeOK /\ InTime
  BY DEF IInv
<1>1. CASE OwnerStep
  <2>1. Commit /\ UNCHANGED <<rulings, unacked>>
    BY <1>0, <1>1, OwnerCommits
  <2> QED BY <1>0, <2>1, CommitInv DEF IInv, TypeOK
<1>2. ASSUME NEW m \in rulings, Deliver(m) \/ Redeliver(m)
      PROVE  IInv'
  <2>1. Commit /\ UNCHANGED rulings /\ unacked' = unacked \ {m}
    BY <1>0, <1>2, AppliedIsRuled, ApplyCommits
  <2> QED BY <1>0, <2>1, CommitInv DEF IInv, TypeOK
<1>3. ASSUME NEW u \in Owners, Merge(u) PROVE IInv'
  BY <1>3, MergeInv
<1>4. ASSUME NEW d \in Decisions, Rule(d) PROVE IInv'
  BY <1>4, RuleInv
<1>5. ASSUME NEW s \in signals, Hear(s) PROVE IInv'
  BY <1>5, HearInv
<1>6. CASE ReadPage \/ ApplyPage
  BY <1>6, PageInv
<1>7. CASE UNCHANGED vars
  BY <1>7 DEF vars, IInv, TypeOK, InTime, Announcements, LateIsRight, HeardIsCounted, Current
<1> QED
  BY <1>1, <1>2, <1>3, <1>4, <1>5, <1>6, <1>7 DEF Next, OwnerStep

THEOREM Inv == Safe => []IInv
<1>1. Init => IInv
  BY InitInv
<1>2. IInv /\ [Next]_vars => IInv'
  BY NextInv
<1> QED BY <1>1, <1>2, PTL DEF Safe

-----------------------------------------------------------------------------
(* The theorems. *)

(* What is stored and in flight keeps its type, for any number of commits. *)
THEOREM TypeCorrect == Safe => []TypeOK
<1>1. IInv => TypeOK
  BY DEF IInv
<1> QED BY <1>1, Inv, PTL

(* Nothing owed: the last announcement has been heard.                     *)
LEMMA SettledHasHeard == ASSUME IInv, owed = {} PROVE index.seq >= row.version
<1>0. row.version \in Nat /\ index.seq \in Nat
  BY DEF IInv, TypeOK, Row, Entry
<1>1. CASE row.version = 0
  BY <1>0, <1>1
<1>2. CASE row.version > 0
  <2>1. PICK s \in signals : s.at = row.version
    BY <1>2 DEF IInv, Announcements
  <2>2. index.seq >= s.at
    BY <2>1 DEF IInv, HeardIsCounted
  <2> QED BY <2>1, <2>2
<1> QED BY <1>0, <1>1, <1>2

LEMMA SettledIsCurrent == IInv => SettledIndexIsCurrent
BY SettledHasHeard DEF SettledIndexIsCurrent, IInv, LateIsRight

(* An index that has heard every event serves the listing as it is         *)
(* announced, whatever the order, the repetitions and the pages.           *)
THEOREM SettledIndexConverges == Safe => []SettledIndexIsCurrent
BY SettledIsCurrent, Inv, PTL

(* What the listing's own writes do to the index, to what is owed and to   *)
(* the announced version.                                                  *)
LEMMA CommitOwes ==
  ASSUME IInv, Commit
  PROVE  /\ index' = index
         /\ Silent => Current' = Current /\ owed' = owed
         /\ Loud => owed' # {}
<1>1. Silent => Current' = Current /\ owed' = owed
  BY DEF Silent, Current, Document
<1>2. Loud => owed' # {}
  BY DEF Loud, Emit
<1> QED BY <1>1, <1>2 DEF Commit

(* The index as it is replicated is the index the module promises: it is   *)
(* wrong only while an event is on its way.                                *)
LEMMA InitIsReplicas == Init => Promise!Init
<1> SUFFICES ASSUME Init PROVE Promise!Init
  OBVIOUS
<1>1. Current \in Nat /\ index.document.version = Current
  <2>1. IInv
    BY InitInv
  <2>2. Document(row) \in Documents
    BY <2>1, DocumentType DEF IInv, TypeOK
  <2> QED BY <2>2 DEF Init, Current, Documents
<1>2. (owed = {}) = TRUE
  BY DEF Init
<1> QED BY <1>1, <1>2 DEF Promise!Init

LEMMA StepIsReplicas ==
  ASSUME IInv, IInv', SettledIndexIsCurrent, SettledIndexIsCurrent', [Next]_vars
  PROVE  [Promise!Next]_(Promise!vars)
<1>0. /\ Current \in Nat /\ Current' \in Nat /\ index'.document.version \in Nat
      /\ TypeOK /\ InTime
  <2>1. row \in Row /\ row' \in Row /\ index' \in Entry
    BY DEF IInv, TypeOK
  <2>2. Document(row) \in Documents /\ Document(row') \in Documents
    BY <2>1, DocumentType
  <2> QED BY <2>1, <2>2 DEF Current, Documents, Entry, IInv
<1>1. /\ owed = {} => index.document.version = Current
      /\ owed' = {} => index'.document.version = Current'
  BY DEF SettledIndexIsCurrent
<1>2. ASSUME Commit PROVE [Promise!Next]_(Promise!vars)
  <2>1. CASE Silent
    BY <1>2, <2>1, CommitOwes DEF Promise!vars
  <2>2. CASE Loud
    <3>1. index' = index /\ owed' # {}
      BY <1>2, <2>2, CommitOwes
    <3>2. (owed' = {}) = FALSE
      BY <3>1
    <3>3. Promise!Change
      BY <1>0, <3>1, <3>2 DEF Promise!Change
    <3> QED BY <3>3 DEF Promise!Next
  <2> QED BY <1>2, <2>1, <2>2 DEF Commit
<1>3. ASSUME Current' = Current, UNCHANGED <<index, owed>>
      PROVE  [Promise!Next]_(Promise!vars)
  BY <1>3 DEF Promise!vars
<1>4. ASSUME Current' = Current, owed' \subseteq owed
      PROVE  [Promise!Next]_(Promise!vars)
  <2>1. CASE owed = {}
    <3>1. owed' = {}
      BY <1>4, <2>1
    <3> QED BY <1>1, <1>4, <2>1, <3>1 DEF Promise!vars
  <2>2. CASE owed # {} /\ owed' # {}
    <3>1. (owed' = {}) = (owed = {}) /\ owed # {}
      BY <2>2
    <3>2. Promise!Serve
      BY <1>0, <1>4, <3>1 DEF Promise!Serve
    <3> QED BY <3>2 DEF Promise!Next
  <2>3. CASE owed # {} /\ owed' = {}
    <3>1. (owed' = {}) = TRUE /\ owed # {}
      BY <2>3
    <3>2. Promise!Settle
      BY <1>1, <1>4, <2>3, <3>1 DEF Promise!Settle
    <3> QED BY <3>2 DEF Promise!Next
  <2> QED BY <2>1, <2>2, <2>3
<1>5. CASE OwnerStep
  BY <1>0, <1>2, <1>5, OwnerCommits
<1>6. ASSUME NEW m \in rulings, Deliver(m) \/ Redeliver(m)
      PROVE  [Promise!Next]_(Promise!vars)
  BY <1>0, <1>2, <1>6, AppliedIsRuled, ApplyCommits
<1>7. ASSUME NEW u \in Owners, Merge(u) PROVE [Promise!Next]_(Promise!vars)
  BY <1>3, <1>7, MergeInv
<1>8. ASSUME NEW d \in Decisions, Rule(d) PROVE [Promise!Next]_(Promise!vars)
  BY <1>3, <1>8, RuleInv
<1>9. ASSUME NEW s \in signals, Hear(s) PROVE [Promise!Next]_(Promise!vars)
  <2>1. Current' = Current /\ owed' \subseteq owed
    BY <1>9 DEF Hear, Current
  <2> QED BY <1>4, <2>1
<1>10. CASE ReadPage \/ ApplyPage
  <2>1. Current' = Current /\ owed' \subseteq owed
    BY <1>10 DEF ReadPage, ApplyPage, Current
  <2> QED BY <1>4, <2>1
<1>11. CASE UNCHANGED vars
  BY <1>3, <1>11 DEF vars, Current
<1> QED
  BY <1>5, <1>6, <1>7, <1>8, <1>9, <1>10, <1>11 DEF Next, OwnerStep

(* Delivery implements Replica: the safety half, for every constant.       *)
THEOREM ImplementsReplica == Safe => Promise!Safe
<1>1. Init => Promise!Init
  BY InitIsReplicas
<1>2. /\ IInv /\ IInv' /\ SettledIndexIsCurrent /\ SettledIndexIsCurrent' /\ [Next]_vars
      => [Promise!Next]_(Promise!vars)
  BY StepIsReplicas
<1> QED BY <1>1, <1>2, Inv, SettledIsCurrent, PTL DEF Safe, Promise!Safe

-----------------------------------------------------------------------------
(* What an unannounced write can do to a document that agrees.             *)

Misled ==
  \/ Agrees'
  \/ owed' # {}
  \/ \E u \in Owners : Merge(u)
  \/ SaveDraft
  \/ row.status \in Indexed /\ Publish(FALSE)
  \/ ApplyPage /\ page.document.version = Current
  \/ \E m \in rulings : (Deliver(m) \/ Redeliver(m)) /\ row'.status = row.status

(* What is not served has nothing left to blank.                           *)
LEMMA NotServedIsBlank ==
  ASSUME NEW r \in Row, ~Public(r)
  PROVE  NotServed(Document(r)) = Document(r)
<1> DEFINE d == Document(r)
<1>1. d \in Documents /\ d.version = 0 /\ d.public = FALSE
  <2>1. d \in Documents
    BY DocumentType
  <2>2. d.version = 0 /\ ~d.public
    BY DEF Document
  <2> QED BY <2>1, <2>2 DEF Documents
<1> HIDE DEF d
<1>2. NotServed(d) = d
  BY <1>1 DEF NotServed, Documents
<1> QED BY <1>2 DEF d

LEMMA AgreementSurvives ==
  ASSUME Agrees, index' = index, ~Public(row), ~Public(row')
  PROVE  Agrees'
BY DEF Agrees

LEMMA StepMisleads ==
  ASSUME IInv, Next, Agrees, owed = {}
  PROVE  Misled
<1>0. /\ TypeOK /\ InTime /\ row \in Row /\ index.seq >= row.version
      /\ row.version \in Nat /\ index.seq \in Nat
  BY SettledHasHeard DEF IInv, TypeOK, Row, Entry
<1>1. CASE OwnerStep
  <2>1. Commit /\ (Public(row) => Loud \/ Quiet)
    BY <1>0, <1>1, OwnerCommits
  <2>2. CASE Loud
    BY <2>1, <2>2, CommitOwes DEF Misled
  <2>3. CASE Quiet
    BY <2>3 DEF Quiet, Misled
  <2>4. CASE ~Loud /\ ~Public(row)
    <3>1. Public(row') = Public(row) /\ index' = index
      BY <2>1, <2>4 DEF Commit, Silent
    <3> QED BY <2>4, <3>1, AgreementSurvives DEF Misled
  <2> QED BY <2>1, <2>2, <2>3, <2>4
<1>2. ASSUME NEW m \in rulings, Deliver(m) \/ Redeliver(m)
      PROVE  Misled
  <2>1. Commit /\ (Public(row) => Loud \/ row'.status = row.status)
    BY <1>0, <1>2, AppliedIsRuled, ApplyCommits
  <2>2. CASE Loud
    BY <2>1, <2>2, CommitOwes DEF Misled
  <2>3. CASE ~Loud /\ Public(row)
    BY <1>2, <2>1, <2>3 DEF Misled
  <2>4. CASE ~Loud /\ ~Public(row)
    <3>1. Public(row') = Public(row) /\ index' = index
      BY <2>1, <2>4 DEF Commit, Silent
    <3> QED BY <2>4, <3>1, AgreementSurvives DEF Misled
  <2> QED BY <2>2, <2>3, <2>4
<1>3. ASSUME NEW d \in Decisions, Rule(d) PROVE Misled
  <2>1. UNCHANGED <<row, index>>
    BY <1>3, RuleInv
  <2> QED BY <2>1 DEF Misled, Agrees
<1>4. ASSUME NEW s \in signals, Hear(s) PROVE Misled
  <2>0. row' = row
    BY <1>4 DEF Hear
  <2>1. CASE ~Newer(s.at)
    BY <1>4, <2>0, <2>1 DEF Hear, Misled, Agrees
  <2>2. CASE Newer(s.at) /\ Public(row)
    <3>1. s.kind # "removed"
      <4>1. s.at \in Nat /\ s.at <= row.version
        BY <1>4 DEF IInv, TypeOK, InTime, Signal
      <4>2. s.at = row.version
        BY <1>0, <2>2, <4>1 DEF Newer
      <4> QED BY <2>2, <4>2 DEF IInv, Announcements
    <3>2. index'.document = Document(row)
      BY <1>4, <2>2, <3>1 DEF Hear
    <3> QED BY <2>0, <2>2, <3>2 DEF Misled, Agrees
  <2>3. CASE Newer(s.at) /\ ~Public(row)
    <3>1. NotServed(Document(row)) = Document(row)
      BY <1>0, <2>3, NotServedIsBlank
    <3>2. index'.document = Document(row)
      BY <1>4, <2>3, <3>1 DEF Hear
    <3> QED BY <2>0, <2>3, <3>1, <3>2 DEF Misled, Agrees
  <2> QED BY <2>1, <2>2, <2>3
<1>5. CASE ReadPage
  BY <1>5 DEF ReadPage, Misled, Agrees
<1>6. CASE ApplyPage
  <2>1. CASE index' = index
    BY <1>6, <2>1 DEF ApplyPage, Misled, Agrees
  <2>2. CASE Newer(page.seq)
    <3>1. page # NoPage /\ page.seq \in Nat
      BY <1>6 DEF ApplyPage, IInv, TypeOK, Entry
    <3>2. page.seq >= row.version
      BY <1>0, <2>2, <3>1 DEF Newer
    <3>3. page.document.version = Current
      BY <3>1, <3>2 DEF IInv, LateIsRight
    <3> QED BY <1>6, <3>3 DEF Misled
  <2> QED BY <1>6, <2>1, <2>2 DEF ApplyPage
<1>7. ASSUME NEW u \in Owners, Merge(u) PROVE Misled
  BY <1>7 DEF Misled
<1> QED
  BY <1>1, <1>2, <1>3, <1>4, <1>5, <1>6, <1>7 DEF Next, OwnerStep

(* A document that agrees with the listing in every field is made wrong    *)
(* without an event only by a merge, by a draft saved, by a submission of  *)
(* a live listing that moves no indexed column, by a verdict that leaves   *)
(* the status alone, or by a page read before one.                         *)
THEOREM OnlySilentWrites == Safe => OnlySilentWritesMislead
<1>1. IInv /\ [Next]_vars => [Agrees /\ owed = {} => Misled]_vars
  BY StepMisleads
<1> QED BY <1>1, Inv, PTL DEF Safe, OnlySilentWritesMislead, Misled

=============================================================================
