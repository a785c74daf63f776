------------------------------ MODULE Reproject ------------------------------
(***************************************************************************)
(* The stored projections of listings while the catalogue moves: owners    *)
(* save, publish and move, the catalogue goes from revision to revision,   *)
(* the schema cache answers with any of them, and a management pass        *)
(* renames answered slugs (rename_feature_keys) or derives the projections *)
(* again (reproject_listings).                                             *)
(*                                                                         *)
(* A request reads a row and later writes it: every column, or those a     *)
(* transition names.  A pass reads its rows chunk by chunk and writes some *)
(* columns of each.  Neither locks the row, and a save reads the stored    *)
(* row again, before it writes, for the event alone.  The host approves    *)
(* automatically, so what publish_listing accepts is live.                 *)
(***************************************************************************)
EXTENDS Projections

CONSTANTS
  Listings,
  Drafts,          \* the contents an owner may create a row with, or save
  Schemas,         \* the revisions of the category, in order
  Renames,         \* the rename map of the rename pass
  Requests,        \* request threads
  RequireImage, RequireLocation, FreePrice,  \* host settings
  Idle,            \* no pass is running
  Nothing,         \* an idle request thread
  NoDocument,      \* the index has no such key
  MaxRequests, MaxPasses,  \* how many of each begin, bounds for TLC
  Unread, Failed   \* what is known of the schema before and after a failed call

IsDraft(d) ==
  /\ d = [features |-> d.features, category |-> d.category, place |-> d.place,
          image |-> d.image, description |-> d.description, zeroPrice |-> d.zeroPrice]
  /\ IsFiniteSet(DOMAIN d.features)

ASSUME ReprojectAssumption ==
  /\ ValidRenames(Renames)
  /\ \A d \in Drafts : IsDraft(d)
  /\ {RequireImage, RequireLocation, FreePrice} \subseteq BOOLEAN
  /\ Unread # Failed /\ {Unread, Failed} \cap DOMAIN Schemas = {}

(* A category knows its features by their slugs. *)
IsCategory(category) ==
  /\ category \in Seq(ToSet(category))
  /\ \A i \in DOMAIN category :
       {category[i].header, category[i].public, category[i].title, category[i].badge}
         \subseteq BOOLEAN
  /\ \A i, j \in DOMAIN category : category[i].slug = category[j].slug => i = j

ASSUME SchemasAssumption ==
  /\ Schemas \in Seq(ToSet(Schemas)) /\ Schemas # <<>>
  /\ \A rev \in DOMAIN Schemas : IsCategory(Schemas[rev].features)

VARIABLES
  row,      \* Listings -> draft, projections, status
  index,    \* Listings -> the document stapel-search holds
  schema,   \* the revision of the category in stapel-categories
  cached,   \* the revision this module's cache answers with
  work,     \* how many requests and how many passes have begun
  pass,     \* the management pass under way
  held      \* Requests -> what a request has in memory

vars == <<row, index, schema, cached, work, pass, held>>

(* "paused" stands for every status out of the window that a transition    *)
(* leads back from: the owner's resume, the verdict that reverses another. *)
Statuses == {"draft", "published", "paused", "archived"}

Init ==
  /\ row \in [Listings -> {[draft |-> d, projections |-> NoProjections, status |-> "draft"] :
                             d \in Drafts}]
  /\ index = [l \in Listings |-> NoDocument]
  /\ schema = 1 /\ cached = 1
  /\ work = [requests |-> 0, passes |-> 0] /\ pass = Idle
  /\ held = [q \in Requests |-> Nothing]

-----------------------------------------------------------------------------
(* The two doors of a publication (services/publish.py), each under the    *)
(* schema it reads.                                                        *)

Known(draft, rev) == draft.category /\ Schemas[rev].kind # "gone"

(* validate_dto_structured *)
FeaturesValid(draft, rev) ==
  /\ Schemas[rev].kind # "broken"
  /\ FieldFailures(Schemas[rev].features, draft.features) = {}

UnknownSlugResults(draft, rev) ==
  UnknownSlugs(Schemas[rev].features, draft.features)
ZeroPriceResult(draft) == draft.zeroPrice /\ ~FreePrice
MissingLocation(draft) == RequireLocation /\ ~draft.place
MissingImage(draft) == RequireImage /\ ~draft.image

(* Mutation: an answer the category does not know is let through. *)
ValidateStructuredOnly(draft, rev) ==
  /\ Known(draft, rev)
  /\ FeaturesValid(draft, rev)
  /\ ~ZeroPriceResult(draft)
  /\ ~MissingLocation(draft)
  /\ draft.description

ValidateDraft(draft, rev) ==
  /\ Known(draft, rev)
  /\ FeaturesValid(draft, rev)
  /\ UnknownSlugResults(draft, rev) = {}
  /\ ~ZeroPriceResult(draft)
  /\ ~MissingLocation(draft)
  /\ draft.description

(* Mutation: the second door does not look at the answers again. *)
PublishAcceptsAnswers(draft, rev) ==
  Known(draft, rev) /\ ~MissingLocation(draft) /\ ~MissingImage(draft)

(* What publish_listing itself refuses: validate_dto only sees a draft     *)
(* that answers something.                                                 *)
PublishAccepts(draft, rev) ==
  /\ Known(draft, rev)
  /\ \/ DOMAIN draft.features = {}
     \/ FeaturesValid(draft, rev) /\ UnknownSlugResults(draft, rev) = {}
  /\ ~MissingLocation(draft)
  /\ ~MissingImage(draft)

-----------------------------------------------------------------------------
(* The index hears of a commit and pulls the row as it is then.            *)

Pulled(r) ==
  IF r.status = "published" THEN SearchDocument(r.projections) ELSE NoDocument

(* Something other than the pass moved the ground it works on.             *)
Disturbed == IF pass = Idle THEN Idle ELSE [pass EXCEPT !.alone = FALSE]

-----------------------------------------------------------------------------
(* The owner, and the service that moves the listing.                      *)

BeginRequest ==
  work.requests < MaxRequests /\ work' = [work EXCEPT !.requests = @ + 1]

(* What the detectors of a save compare of the indexed columns.            *)
Content(r) == [projections |-> r.projections, category |-> r.draft.category]

(* "seen" is what they last read: at first, what the request loaded.       *)
(* "under" is the schema validate_draft read, where it is asked.           *)
Hold(q, l, door, under) ==
  /\ held[q] = Nothing
  /\ held' = [held EXCEPT ![q] =
       [listing |-> l, instance |-> row[l], door |-> door, under |-> under,
        step |-> "loaded", seen |-> [status |-> row[l].status, content |-> Content(row[l])]]]
  /\ BeginRequest
  /\ UNCHANGED <<row, index, schema, cached, pass>>

Load(q, l) == Hold(q, l, "save", Unread)

(* The publish endpoint asks validate_draft first; a draft it refuses goes *)
(* no further.                                                             *)
Validate(q, l) ==
  /\ row[l].status # "paused"
  /\ ValidateDraft(row[l].draft, cached)
  /\ Hold(q, l, "publish", cached)

(* The restore transition asks it nothing. *)
Restore(q, l) == row[l].status \in {"draft", "archived"} /\ Hold(q, l, "restore", Unread)

LoadToMove(q, l) == Hold(q, l, "move", Unread)

Holding(q, doors, step) == held[q] # Nothing /\ held[q].door \in doors /\ held[q].step = step
Answer(q) == held' = [held EXCEPT ![q] = Nothing]

(* features_search is derived again whenever a save may write features. *)
Rebuilt(p) == [p EXCEPT !.features_search = FeaturesSearch(p.features)]

(* A save begins: _status_boundary_crossing reads the stored status. *)
BeginSave(q, instance) ==
  /\ held' = [held EXCEPT ![q] =
       [held[q] EXCEPT !.instance = instance, !.step = "status",
                       !.seen = [held[q].seen EXCEPT !.status = row[held[q].listing].status]]]
  /\ UNCHANGED <<row, index, schema, cached, work, pass>>

SaveDraft(q, d) ==
  /\ Holding(q, {"save"}, "loaded")
  /\ BeginSave(q, [held[q].instance EXCEPT !.draft = d,
                                           !.projections = Rebuilt(held[q].instance.projections)])

Promoted(instance, rev) ==
  [draft |-> instance.draft,
   projections |-> BuildProjections(Schemas[rev].features, instance.draft.features),
   status |-> instance.status]

PublishListing(q) ==
  /\ Holding(q, {"publish", "restore"}, "loaded")
  /\ PublishAccepts(held[q].instance.draft, cached)
  /\ BeginSave(q, Promoted(held[q].instance, cached))

RefuseLate(q) ==
  /\ Holding(q, {"publish", "restore"}, "loaded")
  /\ ~PublishAccepts(held[q].instance.draft, cached)
  /\ Answer(q)
  /\ UNCHANGED <<row, index, schema, cached, work, pass>>

(* _indexed_content_changed, asked of a live instance. *)
ReadContent(q) ==
  /\ held[q] # Nothing /\ held[q].step = "status" /\ held[q].instance.status = "published"
  /\ held' = [held EXCEPT ![q] =
       [held[q] EXCEPT !.step = "content",
                       !.seen = [held[q].seen EXCEPT !.content = Content(row[held[q].listing])]]]
  /\ UNCHANGED <<row, index, schema, cached, work, pass>>

(* What is written: a publication ends in the window, with a save that     *)
(* keeps it there or one and a transition.                                 *)
Enters(h) == h.door # "save" /\ h.instance.status # "published"
Written(h) == IF Enters(h) THEN [h.instance EXCEPT !.status = "published"] ELSE h.instance

(* Mutation: only a row that enters or leaves the index is announced. *)
ToldAtTheBoundary(h) ==
  Enters(h) \/ (h.seen.status = "published") # (h.instance.status = "published")

Told(h) ==
  \/ Enters(h)
  \/ (h.seen.status = "published") # (h.instance.status = "published")
  \/ h.instance.status = "published" /\ Content(h.instance) # h.seen.content

Save(q) ==
  /\ held[q] # Nothing
  /\ held[q].step = IF held[q].instance.status = "published" THEN "content" ELSE "status"
  /\ LET h == held[q]
     IN /\ row' = [row EXCEPT ![h.listing] = Written(h)]
        /\ index' = IF Told(h) THEN [index EXCEPT ![h.listing] = Pulled(Written(h))] ELSE index
  /\ Answer(q)
  /\ pass' = Disturbed
  /\ UNCHANGED <<schema, cached, work>>

Moves ==
  [s \in Statuses |->
     CASE s = "draft"     -> {"archived"}
       [] s = "published" -> {"paused", "archived"}
       [] s = "paused"    -> {"published", "archived"}
       [] s = "archived"  -> {"draft"}]

(* transition_to: the status and, on the way in, the search column of the  *)
(* instance; the event goes by the instance's status.                      *)
Moved(r, instance, s) ==
  IF s = "published"
  THEN [r EXCEPT !.status = s,
                 !.projections = [r.projections EXCEPT
                   !.features_search = FeaturesSearch(instance.projections.features)]]
  ELSE [r EXCEPT !.status = s]

Move(q, s) ==
  /\ Holding(q, {"move"}, "loaded")
  /\ LET h == held[q]
         new == Moved(row[h.listing], h.instance, s)
     IN /\ s \in Moves[h.instance.status]
        /\ s \in {"published", "paused"} => h.instance.draft.category
        /\ row' = [row EXCEPT ![h.listing] = new]
        /\ index' = IF (s = "published") # (h.instance.status = "published")
                    THEN [index EXCEPT ![h.listing] = Pulled(new)] ELSE index
  /\ Answer(q)
  /\ pass' = Disturbed
  /\ UNCHANGED <<schema, cached, work>>

-----------------------------------------------------------------------------
(* The catalogue, and the cache behind it. *)

CatalogueMoves ==
  /\ schema + 1 \in DOMAIN Schemas
  /\ schema' = schema + 1
  /\ pass' = Disturbed
  /\ UNCHANGED <<row, index, cached, work, held>>

(* The entry named by the pointer: after an invalidation the one fetched   *)
(* next, after an event the one it names, after a race any that a worker   *)
(* had fetched (module CategoryCache).                                     *)
CacheAnswers(rev) ==
  /\ rev \in 1 .. schema /\ rev # cached
  /\ cached' = rev
  /\ UNCHANGED <<row, index, schema, work, pass, held>>

-----------------------------------------------------------------------------
(* The pass.  "alone" tells whether anything else has moved since it       *)
(* began.                                                                  *)

BeginPass == work.passes < MaxPasses /\ work' = [work EXCEPT !.passes = @ + 1]

NoRows == [l \in {} |-> l]

Begin(stage) ==
  [stage |-> stage, todo |-> Listings, chunk |-> NoRows, seen |-> NoRows,
   memo |-> Unread, touched |-> FALSE, alone |-> TRUE]

HasDraft(r) == DOMAIN r.draft.features # {}
HasProjection(r) == r.projections.features # <<>>

(* A rename, and the pass after it, is bounded to the categories named. *)
Scoped == pass.touched \/ pass.stage = "rename"

StartReproject ==
  /\ pass = Idle /\ BeginPass
  /\ pass' = Begin("project")
  /\ UNCHANGED <<row, index, schema, cached, held>>

(* A rename is proof that the schema moved: the cache is dropped, and the  *)
(* next answer is the catalogue's.                                         *)
StartRename ==
  /\ pass = Idle /\ BeginPass
  /\ cached' = schema
  /\ pass' = Begin("rename")
  /\ UNCHANGED <<row, index, schema, held>>

Running(stage) == pass # Idle /\ pass.stage = stage

InPopulation(r) ==
  /\ Scoped => r.draft.category
  /\ \/ HasDraft(r)
     \/ HasProjection(r) /\ pass.stage = "project"

(* Mutation: a fetched row stays on the list. *)
FetchAgain(c) ==
  /\ pass # Idle /\ DOMAIN pass.chunk = {} /\ c # {} /\ c \subseteq pass.todo
  /\ pass' = [pass EXCEPT
       !.chunk = [l \in {m \in c : InPopulation(row[m])} |-> row[l]]]
  /\ UNCHANGED <<row, index, schema, cached, work, held>>

(* One fetch of the iterator: rows as they are now, worked on later. *)
Fetch(c) ==
  /\ pass # Idle /\ DOMAIN pass.chunk = {} /\ c # {} /\ c \subseteq pass.todo
  /\ pass' = [pass EXCEPT
       !.todo = @ \ c,
       !.chunk = [l \in {m \in c : InPopulation(row[m])} |-> row[l]]]
  /\ UNCHANGED <<row, index, schema, cached, work, held>>

Rest(l) == [m \in DOMAIN pass.chunk \ {l} |-> pass.chunk[m]]

(* save(update_fields=["features_draft"]): nothing an index holds. *)
RenameRow(l) ==
  /\ Running("rename") /\ l \in DOMAIN pass.chunk
  /\ LET answers == pass.chunk[l].draft.features
         moved == Renamed(Renames, answers)
     IN /\ row' = IF moved = {} THEN row
                  ELSE [row EXCEPT ![l] = [row[l] EXCEPT !.draft =
                         [row[l].draft EXCEPT !.features = RenameDraft(Renames, answers)]]]
        /\ pass' = [pass EXCEPT !.chunk = Rest(l), !.touched = @ \/ moved # {}]
  /\ UNCHANGED <<index, schema, cached, work, held>>

Exhausted == pass.todo = {} /\ DOMAIN pass.chunk = {}

(* What moved is re-projected by the repair pass. *)
RenameEnds ==
  /\ Running("rename") /\ Exhausted
  /\ pass' = IF pass.touched
             THEN [Begin("project") EXCEPT !.touched = TRUE, !.alone = pass.alone]
             ELSE Idle
  /\ UNCHANGED <<row, index, schema, cached, work, held>>

(* _ConfigResolver: one answer, or one failure, for the whole run. *)
Resolved == IF pass.memo = Unread THEN {cached, Failed} ELSE {pass.memo}

Judged == {rev \in DOMAIN Schemas : Schemas[rev].kind = "ok"}
Unresolved(memo) == memo \notin {rev \in DOMAIN Schemas : Schemas[rev].kind # "gone"}

(* A row that is left alone: without a source, or not to be judged. *)
SkipRow(l) ==
  /\ Running("project") /\ l \in DOMAIN pass.chunk /\ DOMAIN pass.seen = {}
  /\ \/ /\ ~HasDraft(pass.chunk[l]) \/ ~pass.chunk[l].draft.category
        /\ pass' = [pass EXCEPT !.chunk = Rest(l)]
     \/ /\ HasDraft(pass.chunk[l]) /\ pass.chunk[l].draft.category
        /\ \E memo \in Resolved :
             /\ memo \notin Judged
             /\ pass' = [pass EXCEPT !.chunk = Rest(l),
                           !.memo = IF Unresolved(memo) THEN Failed ELSE memo]
  /\ UNCHANGED <<row, index, schema, cached, work, held>>

(* Mutation: a rejected answer is dropped, not preserved. *)
RepairedWithout(r, rev) ==
  LET category == Schemas[rev].features
      rejected == FieldFailures(category, r.draft.features)
  IN BuildProjections(category,
       [s \in DOMAIN r.draft.features \ rejected |-> r.draft.features[s]])

(* Mutation: a field that has a DAO is left as it is. *)
RepairedWhereMissing(r, rev) ==
  LET category == Schemas[rev].features
  IN BuildProjectionsPartial(category, r.draft.features,
       FieldFailures(category, r.draft.features)
         \cup {dao.slug : dao \in ToSet(r.projections.features)},
       r.projections.features)

Repaired(r, rev) ==
  LET category == Schemas[rev].features
  IN BuildProjectionsPartial(category, r.draft.features,
       FieldFailures(category, r.draft.features), r.projections.features)

(* Mutation: a row no buyer sees passes for current. *)
CurrentOrUnseen(r, rev) == r.status = "published" => Repaired(r, rev) = r.projections

Current(r, rev) == Repaired(r, rev) = r.projections

(* The row as fetched is compared with its repair.  If they differ the     *)
(* repair is saved: _indexed_content_changed reads the stored columns.     *)
CompareRow(l) ==
  /\ Running("project") /\ l \in DOMAIN pass.chunk /\ DOMAIN pass.seen = {}
  /\ HasDraft(pass.chunk[l]) /\ pass.chunk[l].draft.category
  /\ \E memo \in Resolved \cap Judged :
       pass' = IF Current(pass.chunk[l], memo)
               THEN [pass EXCEPT !.memo = memo, !.chunk = Rest(l)]
               ELSE [pass EXCEPT !.memo = memo, !.seen = [m \in {l} |-> row[m].projections]]
  /\ UNCHANGED <<row, index, schema, cached, work, held>>

(* save(update_fields=PROJECTION_FIELDS), by the status as fetched.        *)
ProjectRow(l) ==
  /\ Running("project") /\ l \in DOMAIN pass.seen
  /\ LET r == pass.chunk[l]
         p == Repaired(r, pass.memo)
         new == [row[l] EXCEPT !.projections = p]
     IN /\ row' = [row EXCEPT ![l] = new]
        /\ index' = IF r.status = "published" /\ p # pass.seen[l]
                    THEN [index EXCEPT ![l] = Pulled(new)] ELSE index
  /\ pass' = [pass EXCEPT !.chunk = Rest(l), !.seen = NoRows]
  /\ UNCHANGED <<schema, cached, work, held>>

PassEnds ==
  /\ Running("project") /\ Exhausted
  /\ pass' = Idle
  /\ UNCHANGED <<row, index, schema, cached, work, held>>

-----------------------------------------------------------------------------
Owner ==
  \/ \E q \in Requests, l \in Listings :
       Load(q, l) \/ Validate(q, l) \/ Restore(q, l) \/ LoadToMove(q, l)
  \/ \E q \in Requests, d \in Drafts : SaveDraft(q, d)
  \/ \E q \in Requests : PublishListing(q) \/ RefuseLate(q) \/ ReadContent(q) \/ Save(q)
  \/ \E q \in Requests, s \in Statuses : Move(q, s)

Pass ==
  \/ StartReproject \/ StartRename
  \/ \E c \in SUBSET Listings : Fetch(c)
  \/ \E l \in Listings : RenameRow(l) \/ SkipRow(l) \/ CompareRow(l) \/ ProjectRow(l)
  \/ RenameEnds \/ PassEnds

Next ==
  \/ Owner \/ Pass
  \/ CatalogueMoves \/ \E rev \in DOMAIN Schemas : CacheAnswers(rev)

Spec == Init /\ [][Next]_vars

-----------------------------------------------------------------------------
Answers == UNION {{d.features[s] : s \in DOMAIN d.features} : d \in Drafts}
SlugsInUse == UNION ({DOMAIN d.features : d \in Drafts} \cup {DOMAIN Renames}
                     \cup {{Renames[s] : s \in DOMAIN Renames}}
                     \cup {Slugs(Schemas[rev].features) : rev \in DOMAIN Schemas})
DaoType == [slug : SlugsInUse, answer : Answers \cup {NoAnswer}, header : BOOLEAN,
            public : BOOLEAN, title : BOOLEAN, badge : BOOLEAN, order : Nat]

RowOK(r) ==
  /\ r.status \in Statuses
  /\ DOMAIN r.draft.features \subseteq SlugsInUse
  /\ ToSet(r.projections.features) \subseteq DaoType

(* Rows, requests and the pass hold what the code stores in them; a pass   *)
(* never works on a row that is also still to be fetched.                  *)
TypeOK ==
  /\ \A l \in Listings : RowOK(row[l])
  /\ schema \in DOMAIN Schemas /\ cached \in 1 .. schema
  /\ \A q \in Requests : held[q] # Nothing =>
       /\ held[q].listing \in Listings /\ RowOK(held[q].instance)
       /\ held[q].under \in {Unread} \cup 1 .. schema
  /\ pass # Idle =>
       /\ DOMAIN pass.chunk \cup pass.todo \subseteq Listings
       /\ DOMAIN pass.chunk \cap pass.todo = {}
       /\ DOMAIN pass.seen \subseteq DOMAIN pass.chunk
       /\ \A l \in DOMAIN pass.chunk : RowOK(pass.chunk[l])
       /\ pass.memo \in {Unread, Failed} \cup 1 .. schema

CardAgrees(p) ==
  /\ p.features_title = FeaturesTitle(p.features)
  /\ p.features_badges = FeaturesBadges(p.features)
SearchAgrees(p) == p.features_search = FeaturesSearch(p.features)

StaleMove(q) ==
  /\ \E s \in Statuses : Move(q, s)
  /\ held[q].instance.projections.features # row[held[q].listing].projections.features

(* The attribute table, the title and the badges of a row are always one   *)
(* derivation, whichever of save, publish, repair and rename wrote them    *)
(* last.  So is the search column, until a move into the window writes it  *)
(* alone, from an instance read before the table was written; and whatever *)
(* writes the table next makes it one of them again.                       *)
ProjectionsAgree ==
  /\ [](\A l \in Listings : CardAgrees(row[l].projections))
  /\ [][\A l \in Listings :
          SearchAgrees(row[l].projections)
            \/ row'[l].projections.features # row[l].projections.features =>
          \/ SearchAgrees(row'[l].projections)
          \/ \E q \in Requests : StaleMove(q) /\ held[q].listing = l]_vars

(* What a pass is to repair: the rows it has fetched that have a source.   *)
Fetched ==
  IF ~Running("project") THEN {}
  ELSE {pass.chunk[l] : l \in {m \in DOMAIN pass.chunk : HasDraft(pass.chunk[m])}}

FieldsShown(p) == {dao.slug : dao \in {d \in ToSet(p.features) : ~d.header}}

(* A repair shows the answers the category accepts and, of those it        *)
(* rejects, the ones that were shown already: none is dropped, none added. *)
RepairKeepsRejectedFields ==
  \A r \in Fetched, rev \in Judged \cap {cached} :
    LET category == Schemas[rev].features
        known == DOMAIN r.draft.features \cap {category[i].slug : i \in Fields(category)}
        rejected == FieldFailures(category, r.draft.features)
    IN FieldsShown(Repaired(r, rev)) =
         (known \ rejected) \cup (FieldsShown(r.projections) \cap rejected)

(* The headings a repair shows are those of the sections with an accepted  *)
(* answer; a rejected answer that is kept does not keep its heading.  The  *)
(* slug of a stored heading may have become that of a rejected field: then *)
(* the heading is kept in its place.                                       *)
HeadingsFollowAcceptedAnswers ==
  \A r \in Fetched, rev \in Judged \cap {cached} :
    LET category == Schemas[rev].features
        rejected == FieldFailures(category, r.draft.features)
    IN Headings(Repaired(r, rev).features) =
         HeadingsToShow(category, DOMAIN r.draft.features \ rejected)
           \cup (Headings(r.projections.features) \cap rejected)

(* The two doors disagree on exactly this: an image only the second asks   *)
(* for; a description, a zero price, and required fields of a draft that   *)
(* answers nothing, only the first.                                        *)
DoorsAgree ==
  \A l \in Listings :
    LET d == row[l].draft
    IN /\ ValidateDraft(d, cached) => PublishAccepts(d, cached) \/ MissingImage(d)
       /\ PublishAccepts(d, cached) =>
            \/ ValidateDraft(d, cached)
            \/ ~d.description \/ ZeroPriceResult(d)
            \/ ~HasDraft(row[l])

(* A draft that passed validate_draft is refused by publish_listing only   *)
(* for an image, or because the schema served moved between the two.       *)
RefusedLateForAReason ==
  [][\A q \in Requests : RefuseLate(q) =>
       \/ held[q].door = "restore"
       \/ MissingImage(held[q].instance.draft)
       \/ held[q].under # cached]_vars

EndsAlone ==
  /\ Running("project") /\ Exhausted /\ pass.alone

(* A pass that ran alone and under the catalogue's schema leaves no row it *)
(* could still improve.                                                    *)
CleanPassLeavesNothingStale ==
  EndsAlone /\ pass.memo \in Judged \cap {schema}
  => \A l \in Listings :
       HasDraft(row[l]) /\ row[l].draft.category
         => row[l].projections = Repaired(row[l], schema)

(* After such a pass a value the catalogue now hides is still public only  *)
(* on a row without a source or a category, or as a rejected answer whose  *)
(* old DAO was kept.                                                       *)
OnlyExcusedValuesStayPublic ==
  EndsAlone /\ pass.memo \in Judged \cap {schema} =>
    \A l \in Listings, i \in DOMAIN Schemas[schema].features :
      LET feature == Schemas[schema].features[i]
          excused == FieldFailures(Schemas[schema].features, row[l].draft.features)
      IN ~feature.public /\ feature.slug \notin HiddenSlugs(row[l].projections)
           /\ feature.slug \in FieldsShown(row[l].projections)
         => ~HasDraft(row[l]) \/ ~row[l].draft.category \/ feature.slug \in excused

Carried(before, after) ==
  /\ Cardinality(DOMAIN after) = Cardinality(DOMAIN before)
  /\ \A s \in DOMAIN before :
       \/ s \in DOMAIN after /\ after[s] = before[s]
       \/ /\ s \in DOMAIN Renames /\ Renames[s] \notin DOMAIN before
          /\ Renames[s] \in DOMAIN after /\ after[Renames[s]] = before[s]

(* A rename loses and overwrites no answer of the draft it read; it undoes *)
(* a save only when that save came after the fetch.                        *)
RenameCarriesEveryAnswer ==
  [][\A l \in Listings :
       RenameRow(l) /\ pass.chunk[l].draft = row[l].draft
         => Carried(row[l].draft.features, row[l].draft.features')]_vars

IndexAgrees(l) == index[l] = Pulled(row[l])

(* The index is left behind only by a write decided on something that has  *)
(* moved since it was read: what its detectors saw, for a save and for the *)
(* pass; the status of the row as it was loaded, for a move and for the    *)
(* pass.                                                                   *)
StaleSave(q) ==
  LET h == held[q]
  IN \/ h.seen.status # row[h.listing].status
     \/ h.step = "content" /\ h.seen.content.projections # row[h.listing].projections

OnlyStaleReadsMisleadTheIndex ==
  [][\A l \in Listings : IndexAgrees(l) =>
       \/ IndexAgrees(l)'
       \/ \E q \in Requests : Save(q) /\ held[q].listing = l /\ StaleSave(q)
       \/ \E q \in Requests, s \in Statuses :
            Move(q, s) /\ held[q].listing = l /\ held[q].instance.status # row[l].status
       \/ /\ ProjectRow(l)
          /\ pass.chunk[l].status # row[l].status \/ pass.seen[l] # row[l].projections]_vars

-----------------------------------------------------------------------------
(* What a comment of rename_feature_keys says and a slower worker breaks:  *)
(* "the pass refuses to trust its own cache".                              *)
RenameRepairsUnderTheCatalogue ==
  EndsAlone /\ pass.touched /\ pass.memo \in Judged => pass.memo = schema
=============================================================================
