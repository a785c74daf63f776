------------------------------- MODULE Geohash -------------------------------
(***************************************************************************)
(* The two pairs of a listing, coordinates and the geohash stamped next to *)
(* them: the draft's, stamped by save(), and the published one, promoted   *)
(* from it.  stapel-geo may not answer, and then there is no geohash:      *)
(* "a stale/wrong geohash ... is worse than a blank one and is never kept  *)
(* on failure" (models.py).  backfill_geohashes fills the blanks later.    *)
(***************************************************************************)
CONSTANTS
  Places,  \* coordinates; a geohash is told apart by what it encodes
  NoPlace  \* no coordinates, or no geohash

ASSUME GeohashAssumption == NoPlace \notin Places

VARIABLES
  place, geo,             \* lat_draft and lon_draft, geohash_draft
  publicPlace, publicGeo, \* lat and lon, geohash
  batch                   \* the stamps the backfill will write, by pair

geohashVars == <<place, geo, publicPlace, publicGeo, batch>>

Anywhere == Places \cup {NoPlace}

GeohashInit ==
  /\ place = NoPlace /\ geo = NoPlace
  /\ publicPlace = NoPlace /\ publicGeo = NoPlace
  /\ batch = [pair \in {"draft", "public"} |-> NoPlace]

GeohashTypeOK ==
  /\ place \in Anywhere /\ geo \in Anywhere
  /\ publicPlace \in Anywhere /\ publicGeo \in Anywhere
  /\ batch \in [{"draft", "public"} -> Anywhere]

(* geo.geohash_encode, or no answer. *)
Encode(p) == {p, NoPlace}

(* Mutation: the geohash the row has is kept when there is no answer.      *)
KeepOnFailure(p, kept) == IF p = NoPlace THEN {NoPlace} ELSE {p, kept}

(* compute_geohash_draft. *)
ComputeGeohashDraft(p, kept) == Encode(p)

WritePlaces(p, g, pp, pg) ==
  place' = p /\ geo' = g /\ publicPlace' = pp /\ publicGeo' = pg /\ UNCHANGED batch

(* One row of one of backfill_geohashes' two populations: the pass reads   *)
(* it and encodes it, and writes the stamp with the rest of its batch.     *)
BackfillRead(pair) ==
  /\ batch[pair] = NoPlace
  /\ \/ pair = "draft" /\ place # NoPlace /\ geo = NoPlace
        /\ batch' = [batch EXCEPT !["draft"] = place]
     \/ pair = "public" /\ publicPlace # NoPlace /\ publicGeo = NoPlace
        /\ batch' = [batch EXCEPT !["public"] = publicPlace]
  /\ UNCHANGED <<place, geo, publicPlace, publicGeo>>

BackfillFlush(pair, there) ==
  /\ batch[pair] # NoPlace
  /\ batch' = [batch EXCEPT ![pair] = NoPlace]
  /\ geo' = IF there /\ pair = "draft" THEN batch[pair] ELSE geo
  /\ publicGeo' = IF there /\ pair = "public" THEN batch[pair] ELSE publicGeo
  /\ UNCHANGED <<place, publicPlace>>

-----------------------------------------------------------------------------
(* A geohash that names another place than the coordinates next to it.     *)
Misplaced(p, g) == g \notin {p, NoPlace}

WellPlaced == ~Misplaced(place, geo) /\ ~Misplaced(publicPlace, publicGeo)

(* The coordinates moved between the backfill's read and its write.        *)
LateStamp ==
  \/ BackfillFlush("draft", TRUE) /\ place # batch["draft"]
  \/ BackfillFlush("public", TRUE) /\ publicPlace # batch["public"]
=============================================================================
