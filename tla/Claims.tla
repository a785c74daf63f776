------------------------------- MODULE Claims -------------------------------
(***************************************************************************)
(* The CDN media one listing claims.  The claim is announced as a          *)
(* difference, old set against new, after the write it is about; nothing   *)
(* waits for the announcement, which may fail or be overtaken by another.  *)
(* Two commands write or claim outside save(): the retyping of references  *)
(* and the backfill of claims.                                             *)
(***************************************************************************)
EXTENDS Sequences, SequencesExt

CONSTANTS
  Refs,     \* references <type>/<hash>
  Retyped   \* those of the type being retyped -> the reference they become

ASSUME ClaimsAssumption ==
  /\ DOMAIN Retyped \subseteq Refs
  /\ \A r \in DOMAIN Retyped : Retyped[r] \in Refs \ DOMAIN Retyped

VARIABLES
  images, draft,  \* the published references, and the draft's
  standing,       \* "kept", soft-"deleted", or physically "gone"
  claims,         \* what stapel-cdn holds for the listing
  unsaid,         \* differences written and not announced, in that order
  retyping,       \* what the retyping read of the row
  claiming        \* what the backfill read of the row

claimsVars == <<images, draft, standing, claims, unsaid, retyping, claiming>>

Standings == {"kept", "deleted", "gone"}
References == [images : SUBSET Refs, draft : SUBSET Refs, standing : Standings]
Unread == [images |-> {}, draft |-> {}, standing |-> "gone"]

(* _cdn_refs_of: the photo an edit drops stays claimed while it is public. *)
ClaimsOf(r) == IF r.standing = "kept" THEN r.images \cup r.draft ELSE {}

Current == ClaimsOf([images |-> images, draft |-> draft, standing |-> standing])

(* apply_ref_sync, on stapel-cdn's side. *)
RefSync(held, said) == (held \ (said.old \ said.new)) \cup (said.new \ said.old)

ClaimsInit ==
  /\ images = {} /\ draft = {} /\ standing = "kept"
  /\ claims = {} /\ unsaid = <<>>
  /\ retyping = Unread /\ claiming = {}

ClaimsTypeOK ==
  /\ images \in SUBSET Refs /\ draft \in SUBSET Refs /\ standing \in Standings
  /\ claims \in SUBSET Refs
  /\ unsaid \in Seq([old : SUBSET Refs, new : SUBSET Refs])
  /\ retyping \in References
  /\ claiming \in SUBSET Refs

(* _sync_cdn_image_refs. *)
Say(old, new) ==
  unsaid' = IF old = new THEN unsaid ELSE Append(unsaid, [old |-> old, new |-> new])

WriteRefs(i, d, s) ==
  images' = i /\ draft' = d /\ standing' = s /\ UNCHANGED <<claims, retyping, claiming>>

(* The publisher of one difference reaches the bus, before or after those  *)
(* of other writes; or it does not, and save() swallows that.              *)
Announce(k) ==
  /\ claims' = RefSync(claims, unsaid[k])
  /\ unsaid' = RemoveAt(unsaid, k)
  /\ UNCHANGED <<images, draft, standing, retyping, claiming>>

Drop(k) ==
  /\ unsaid' = RemoveAt(unsaid, k)
  /\ UNCHANGED <<images, draft, standing, claims, retyping, claiming>>

(* listings_retype_image_refs reads every row before it writes the first.  *)
Rewritten(refs) == {IF r \in DOMAIN Retyped THEN Retyped[r] ELSE r : r \in refs}
Retype(r) == [r EXCEPT !.images = Rewritten(@), !.draft = Rewritten(@)]

RetypeRead ==
  /\ retyping = Unread /\ standing # "gone"
  /\ LET r == [images |-> images, draft |-> draft, standing |-> standing] IN
     Retype(r) # r /\ retyping' = r
  /\ UNCHANGED <<images, draft, standing, claims, unsaid, claiming>>

(* Mutation: the claims of retyped rows are left to the next save, as its  *)
(* other side effects are.                                                 *)
RetypeQuietly ==
  /\ retyping # Unread /\ retyping' = Unread
  /\ IF standing = "gone" THEN UNCHANGED <<images, draft>>
     ELSE images' = Retype(retyping).images /\ draft' = Retype(retyping).draft
  /\ UNCHANGED <<standing, claims, unsaid, claiming>>

RetypeWrite ==
  /\ retyping # Unread /\ retyping' = Unread
  /\ IF standing = "gone" THEN UNCHANGED <<images, draft>>
     ELSE images' = Retype(retyping).images /\ draft' = Retype(retyping).draft
  /\ Say(ClaimsOf(retyping), ClaimsOf(Retype(retyping)))
  /\ UNCHANGED <<standing, claims, claiming>>

(* backfill_cdn_refs: an addition, published for the row as it was read;   *)
(* a failure is counted and the pass goes on.                              *)
ClaimRead ==
  /\ claiming = {} /\ standing = "kept" /\ Current # {}
  /\ claiming' = Current
  /\ UNCHANGED <<images, draft, standing, claims, unsaid, retyping>>

ClaimPublish ==
  /\ claiming # {} /\ claiming' = {}
  /\ claims' \in {RefSync(claims, [old |-> {}, new |-> claiming]), claims}
  /\ UNCHANGED <<images, draft, standing, unsaid, retyping>>

ClaimsStep ==
  \/ \E k \in DOMAIN unsaid : Announce(k) \/ Drop(k)
  \/ RetypeWrite
  \/ ClaimPublish

-----------------------------------------------------------------------------
(* What stapel-cdn will hold once it has heard everything written so far,  *)
(* in that order: what is added, or held already, and not dropped after.   *)
KeptAfter(k, r) == \A j \in k + 1 .. Len(unsaid) : r \notin unsaid[j].old \ unsaid[j].new

WillHold ==
  {r \in Refs :
     \/ r \in claims /\ KeptAfter(0, r)
     \/ \E k \in DOMAIN unsaid : r \in unsaid[k].new \ unsaid[k].old /\ KeptAfter(k, r)}

Settled == WillHold = Current

(* A difference that adds what one before it drops, or drops what it adds. *)
Crosses(a, b) ==
  \/ (a.old \ a.new) \cap (b.new \ b.old) # {}
  \/ (a.new \ a.old) \cap (b.old \ b.new) # {}

Overtaken ==
  \E k \in DOMAIN unsaid :
    /\ unsaid' = RemoveAt(unsaid, k)
    /\ \E j \in 1 .. k - 1 : Crosses(unsaid[j], unsaid[k])

Dropped == claims' = claims /\ Len(unsaid') < Len(unsaid)

StaleRetype == RetypeWrite /\ retyping # [images |-> images, draft |-> draft, standing |-> standing]

StaleBackfill == ClaimPublish /\ ~(claiming \subseteq Current /\ unsaid = <<>>)
=============================================================================
