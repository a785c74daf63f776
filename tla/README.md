# TLA+ verification of stapel-listings

`stapel-listings` is the Django module that owns classified listings: their
drafts, their publication, what a moderator says about them, what a search index
is told, and what is kept beside a row and must follow it. This directory models
its protocols in TLA+, checks the models with TLC on small instances and proves
the main properties with TLAPS for all instances. Paths such as `models.py:1038`
are paths of the repository.

Contents: [inventory](#1-the-system) · [plan](#2-plan) ·
[modules](#3-modules-and-code) · [runs](#4-runs) · [fairness](#5-fairness) ·
[proofs](#6-proofs) · [disagreements](#7-disagreements-found) ·
[limits](#8-what-is-not-here)

## 1. The system

Everything runs in Django request threads, in consumers of events (delivered at
least once, in any order, by an outbox) and in management commands. They share
one database, in which a request reads a row, decides on the instance in its
memory and writes later **without a lock or a version column**, and one cache.

| component | state it keeps | operations | what makes it correct |
|---|---|---|---|
| **Lifecycle and moderation axis** (`models.py`) | `status`, `moderation_status`, `deleted_at`, the draft columns (`*_draft`) and the published ones | `transition_to`, `apply_moderation`, `save` with its two index detectors, `delete`, `restore`, `hard_delete` | every status is reached by an edge of the table; every change the index must hear of is announced in the same transaction |
| **Publish service** (`services/publish.py`) | none | `validate_draft`, `publish_listing`, `restore_listing` | the gate (`pre`/`post`), `AUTO_APPROVE` and a standing rejection decide together whether content goes live unseen; the two doors judge a draft alike |
| **Owner requests** (`views.py`, `serializers.py`) | none | create, save-draft, update, publish, transition, archive, complete, destroy | no route goes round the moderator |
| **Moderation seam** (`actions.py`, `events.py`) | none here; the case lives in stapel-moderation | emits `listing.submitted`, consumes `moderation.completed` | whoever waits is waited for; a takedown stays one; no verdict waits for ever |
| **Index events and pull** (`events.py`, `services/search_feed.py`) | the index, in stapel-search | `listing.published` / `updated` / `removed`; `documents_by_keys` | the index holds exactly the live published rows, as they are, whatever order the events arrive in |
| **Search export** (`services/search_feed.py`) | the consumer's cursor | `export_page` | a rebuild skips nothing, repeats nothing and ends |
| **Category schema cache** (`services/category_schema.py`) | per category a pointer and one entry per revision, in the shared cache | `get_feature_configs`, `_advance_pointer`, `note_changed`, `invalidate` | an answer is never filed under another revision; a stale one dies out |
| **Accounts and GDPR** (`actions.py`, `gdpr.py`) | `owner_id`, `Favorite` rows | `user.merged`, `user.deleted`, CASCADE | a merge loses nothing, an erasure takes only what is the account's |
| **Favorites** (`views.py`) | `Favorite` rows | favorite, unfavorite | a saved listing stays saved |
| **Features and passes** (`services/features.py`, `reproject.py`, `rename_features.py`) | four projections of the answers; a pass's chunk and its memo of the schema | pure builders; `reproject_listings`, `rename_feature_keys` | the columns are one derivation; a pass loses no answer, leaves nothing stale and makes nothing public that is hidden |
| **Engagement** (`services/engagement.py`) | `view_count`, `ListingView`, the dedup keys in the cache | `record_view` | at most one count per viewer and window; no count lost to a save |
| **CDN claims** (`models.py`, `services/cdn_refs_backfill.py`, `listings_retype_image_refs`) | claims, in stapel-cdn | a difference around each save; backfill, retype | what a row shows is claimed, nothing else is |
| **Geohash** (`models.py`, `services/geohash_backfill.py`) | `geohash`, `geohash_draft` | stamp on save, batched backfill | it belongs to the coordinates beside it |
| **Price, stock, location** (`services/pricing.py`, `services/location.py`) | columns | one-step computations | a failed provider keeps what was there |
| **Comm functions, reads, admin, configuration, code generation** | none | read-only or declarative | — |

How they interact:

```
 owner ──HTTP──> views ──> publish service ──> Listing.save / transition_to ──┐
                   │              │                        │ (one transaction) │ image refs,
                   │              │                        v                   │ old against new
                   │              └─> listing.submitted   outbox: listing.     v
                   │                        │       published/updated/removed  stapel-cdn
                   │                        v              │  late, again,     ^
                   │             stapel-moderation         │  in any order     │ retype, backfill
                   │                        │              v                   │
                   │  apply_moderation <─ moderation.completed     stapel-search
                   │                                          pull │      │ export_page
                   ├─ get_feature_configs ─> cache ─> categories   └──────┴──> search_feed
                   │      ^ category.changed    ^
                   │                            └── rename_feature_keys, reproject_listings
                   └─ retrieve ─> record_view: cache key, view_count, ListingView
 stapel-auth ──user.merged / user.deleted──> Favorite, Listing.owner, erasure
 stapel-geo  <──geohash_encode── Listing.save, backfill_geohashes
```

The behaviours that are hard here, each at its line in `PROJECT.json`
("hazards"): long legal sequences of owner and moderator steps that end in a
state nobody ruled on; five writers that each decide alone whether the index
must hear; two requests that overlap on a row; the several cache calls of one
schema read; the reads a save makes before it writes, outside the transaction that writes;
events and verdicts that are lost, repeated, late, overtaken or refused; a rebuild over a table that changes under it; passes that work on rows
they fetched a while ago; side effects computed before a write and announced
after it.

## 2. Plan

The order is by what would hurt most if it were wrong.

1. `Lifecycle`, `Listing` — the aggregate with its index and its moderation
   cases. *Done, with proofs.*
2. `StaleWrites` — overlapping requests; refines `Listing` when they do not
   overlap. *Done, with proofs.*
3. `CategoryCache`, `SearchExport`, `Accounts` — the three protocols next to the
   aggregate. *Done, with proofs.*
4. `Delivery` over the abstract `Replica` — the events, pages and verdicts that
   `Listing` folds into one step, in flight. *Done, with proofs.*
5. `Projections`, `Reproject` — the projections, the two doors of a publication and
   the two passes, under a catalogue that moves. *Done, with proofs.*
6. `Engagement`, `Claims`, `Geohash`, composed by `Upkeep` — what is kept beside a row,
   against the saves that overlap it. *Done, with proofs.*
7. Every safety property of the runs as a theorem; only liveness is left to TLC alone
   (section 6). *Done.*
8. Left: raw host writes in `StaleWrites`; the serializer's merge of draft metadata and
   its pair of countable and stock quantity.

## 3. Modules and code

One action stands for one committed handler unless the module says otherwise.
`PROJECT.json` maps every definition to its lines. Definitions whose comment
begins with *Mutation* are deliberate errors that show a property can fail;
nothing in the specifications uses them.

```
 Lifecycle <── Listing <── StaleWrites          Replica <·· Delivery (refines) ──> Lifecycle
                  ^ refined by StaleWrites without overlap
 Projections <── Reproject                      Engagement, Claims, Geohash <── Upkeep
 CategoryCache    SearchExport    Accounts      (each on its own)
```

### The aggregate

**`Lifecycle`** — no state: the statuses, `LISTING_TRANSITIONS`,
`OWNER_TRANSITIONS`, `RESTORE_EDGES`, `publishable_from`.

**`Listing`** — `row` is the table (absent, live or soft-deleted; both axes;
whether there is a category; the draft content, the published content and the search
column, which a transition into the window derives by itself), `index` what stapel-search serves, `review` what stapel-moderation has: a case
that was never opened, is open or is ruled, and the last ruling.

| action | code |
|---|---|
| `Create`, `SaveDraft`, `Publish`, `OwnerMove`, `Resubmit`, `Destroy` | the owner's endpoints; `Resubmit` is a `transition` on an edge that is a publication (`RESTORE_EDGES`) and so runs `publish_listing` |
| `Verdict` | `handle_moderation_completed` → `apply_moderation`; disabled where `transition_to` would raise and roll back |
| `Erase` | `ListingsGDPRProvider.delete` |
| `HostExpire`, `HostDelete`, `HostRestore`, `HostWrite` | calls a host application makes on the model: the TTL sweep, `delete()`, `restore()`, and `status = s; save()` for the statuses in `RawWrites` |

`Commit` is row and event in one transaction (`mutate_and_emit`), and the indexer's
pull in the same step: `SaveSignal` is `Listing.save`'s pair of detectors,
`Boundary` the one of `transition_to`. Contents are atoms; what the publish checks
accept is two sets, `Validated` (`validate_draft`) and `Promotable`
(`publish_listing`), because the restore edges ask only the second.

**`StaleWrites`** extends `Listing` with `held`, the instance each request has in
memory. `Load` reads it. A save-draft, update or publish then reads the stored row twice
more before it writes the whole instance, outside the transaction of the write: its status
(`ReadStatus`, `_status_boundary_crossing`) and, of a live instance, its indexed columns
(`ReadContent`, `_indexed_content_changed`); what it read (`seen`) decides the event. Moves, deletes and
verdicts decide **on the instance** and write the columns they name — a move into the window,
an approving verdict's too, also `features_search`, derived from the features in memory.
Each of these steps is an action of its own, so another request may commit between any two.
The constant `Overlap` says whether two requests may hold one listing. The
erasure, raw host writes and host deletes are left out here.

### What crosses the boundary

**`Replica`** — the abstract specification: while a change has not reached it an index
may serve anything; once every change has, it serves the row; and every change
does reach it.

**`Delivery`** — one listing, the index events there have been (`signals`) and those not yet
handled (`owed`), the index document with its sequence number, a row of an export
page read and not yet applied, the verdicts and those unacknowledged. Time is the
database's clock, a document is told apart by the instant of the change that made
it, so "the wrong document" is a number. The policy is the default one.

| action | code |
|---|---|
| `Publish(moved)` | as in `Listing`, with `updated_at`; a publication of a live listing that moves no indexed column (`moved` false) is stored and announces nothing (`services/publish.py:251-254`) |
| `SaveDraft` | a whole-row save of draft columns: `updated_at` moves, which the document carries (`services/search_feed.py:119`), and no event leaves |
| `SetCategory`, `OwnerMove`, `Delete`, `Restore` | as in `Listing`, with `updated_at` and an event of that instant |
| `Reproject` | `save(update_fields=PROJECTION_FIELDS)`: an event, and `updated_at` stays |
| `Merge` | the queryset update of `handle_user_merged`: neither event nor `updated_at` |
| `Rule`, `Deliver`, `Redeliver` | a moderator's ruling; `handle_moderation_completed` for the first time and again. Where `transition_to` raises, nothing is stored and the verdict stays unacknowledged |
| `Hear` | stapel-search (external): an event older than the index's sequence is dropped, else the document is pulled *as it is now* |
| `ReadPage`, `ApplyPage` | `export_page`, whose sequence is `updated_at`, and its late application |

**`CategoryCache`** — one category. Every `cache.get` and `cache.set` is a step:
`ReadPointer`, `ReadData`, `Call`, `Store`, `ReadForAdvance`, `Advance`;
`NoteChanged` is the event consumer, which enters `_advance_pointer` for any
revision ever announced, any number of times, in any order (a lost event is one
never taken). Both entry kinds expire. The code keys an id both as `int` and as
`str`: two independent instances of this module.

**`SearchExport`** — the keys of the table (free, being inserted, visible, deleted),
the rebuild's cursor and what it was handed. A key is allocated before its row
commits, so rows become visible out of key order. `stable` is a ghost: the keys
visible throughout.

**`Accounts`** — `account` (the account's row in this database: unknown yet, known,
absorbed, leaving, gone), `owner`, `favorites`, the merges `merged` and `owed`, and
the requests in flight, authenticated earlier and perhaps holding a listing they
will write back whole. `HandleMerged` is the one transaction of
`handle_user_merged`; where it raises `MergeTargetNotReady` it is disabled and the
event stays owed. stapel-auth is external: it deletes an absorbed row only after a
delivery succeeded, as the handler's docstring relies on.

### Features

**`Projections`** — no state: the builders of `services/features.py` as operators over
sequences of features and functions from slugs to answers. `NormalizeToDao` and
`FieldFailures` stand for stapel-attributes (external). A filtered list is a `Pick` of
indices in their order, a sort the arrangement of the indices by the sort key and then by
place, as a stable sort leaves them. `FilterEmptyHeaders` is the loop of `filter_empty_headers`
as the equation its result solves: whether entry *i* is kept depends on what was kept after
it, the loop runs from the last entry to the first, so there is one solution.
`RenameDraft` is one row of `rename_features`. `HeadingsToShow` is a second account of the heading
filter, to check it by: it looks at the category and the answers and never at the list.

**`Reproject`** — listings with draft, projections and status, the index, the catalogue's
revision (`schema`) and the one the cache answers with (`cached`), the pass under way
and what requests hold.

| action | code |
|---|---|
| `Load`, `SaveDraft` | a save-draft: the row read, the instance changed in memory |
| `Validate`, `Restore`, `PublishListing`, `RefuseLate` | the publish endpoint asks `validate_draft`, the restore transition does not; `publish_listing` judges the draft again, by its own checks and the schema of then |
| `BeginSave` (in the two above), `ReadContent`, `Save` | `Listing.save`: the two reads of its detectors, then every column and the event they call for; a publication that enters the window ends with a `transition_to` in the same transaction |
| `LoadToMove`, `Move` | `transition_to` on an instance read earlier: archive, pause, and back into the window (an owner's resume, an approving verdict), which writes the status and a `features_search` derived from the instance |
| `CatalogueMoves` | stapel-categories |
| `CacheAnswers` | the cache answers with any revision there has been, and may go back: a slow worker re-points it after an invalidation or over a newer one (`CategoryCache`) |
| `StartRename`, `StartReproject` | the two commands; a rename drops the pointer first (`invalidate`), so the next answer is the catalogue's until another worker says otherwise |
| `Fetch`, `SkipRow`, `RenameRow` | one fetch of the iterator, then its rows one by one, each saved with `update_fields` from the instance as fetched |
| `CompareRow`, `ProjectRow` | the repair of a row that differs from it: the read of the stored columns, then the write, by the status as fetched |
| `RenameEnds`, `PassEnds` | the repair that follows a rename that moved something; the end |

`pass.memo` is `_ConfigResolver`: one answer, or one failure, for the whole run.
`ValidateDraft` and `PublishAccepts` are the checks of the two doors. `SchemasAssumption` says
what a category is: a sequence of features, each with a slug of its own (the normalized DAOs are
keyed by slug) and with its flags. Nothing is assumed of the slugs across revisions: what was a
heading may become a field, or the reverse.

### What is kept beside a row

**`Engagement`** — `Open` is `cache.add` on the dedup key, `Count` the increment in SQL,
`Remember` the `ListingView`; `Fail` stops a request between any two of them, `Expire` ends a
window.

**`Claims`** — the references of the row, what stapel-cdn holds (external: `RefSync`), and
`unsaid`, the differences written and not announced. `Announce` takes any of them,
`Drop` loses one (`save()` swallows a failing publisher). `RetypeRead`/`RetypeWrite` is
`listings_retype_image_refs`, `ClaimRead`/`ClaimPublish` is `backfill_cdn_refs`.

**`Geohash`** — both coordinate pairs with their stamps; `ComputeGeohashDraft` may get no
answer; `BackfillRead`/`BackfillFlush` is one row of a batch.

**`Upkeep`** composes the three with the writer they share: a request that `Load`s the
row, changes the instance, reads the stored references once more (`Baseline`, as
`_stored_cdn_image_refs` does before the write) and writes every column (`WriteRow`) or only the
standing (`WriteStanding`); `RollBack` is a transaction that fails after the difference was
announced: a publication, a delete, a restore, or an erasure, whose `hard_delete` announces the release
inside the erasure's transaction (`gdpr.py:48-56`). Several requests overlap freely, on deletes, restores and erasures too.

**`MCListing`, `MCStaleWrites`, `MCSearchExport`, `MCReproject`, `MCUpkeep`** give TLC the
constants a `.cfg` cannot spell; **`MCOverlap`** adds a bound on how many requests begin. **`…Proofs`** hold the theorems.

## 4. Runs

Passing runs:

| run | question | bounds |
|---|---|---|
| `pre_gate` | Does the moderator alone decide what is shown, under the pre gate, whatever the owner, the erasure and the host's deletes do? | 1 listing, 3 contents, one of which only `publish_listing` accepts |
| `post_gate` | Do table and index agree under every writer, raw host writes to `archived` and `expired` included; who reinstates a takedown? | 2 listings of one account, 2 contents, symmetric |
| `overlap` | What survives two requests on one row in any order; what exactly misleads the index? | 1 listing, 2 requests, 2 contents, `MaxLoads` = 7 |
| `serial` | Is the split harmless when requests do not overlap, with `AUTO_APPROVE`? | 1 listing, 2 requests, 2 contents |
| `schema_cache` | Can a schema be served as another revision's, for how long, and when does the pointer go back? | 2 workers, 3 revisions |
| `export` | Does a rebuild skip, repeat, or go on for ever? | 5 keys; limits −1, 0, 1, 9 against a default of 2 and a ceiling of 3 |
| `accounts` | Does a merge carry everything and arrive; who can lose a favorite or a listing? | 1 guest, 2 members, 2 listings, 1 request |
| `delivery` | Does the index converge, what can mislead it for good, does every verdict land? | 2 owners, `MaxClock` = 5 commits, `MaxRulings` = 2; events and pages unbounded in delay and repetition |
| `reproject` | What do the projections say, what does a pass leave behind, where do the two doors part? | 1 listing, 1 request thread, 3 revisions, 4 drafts, `MaxRequests` = 3, `MaxPasses` = 1 |
| `upkeep` | Which overlaps cost a claim, a place or a count? | 2 requests, 2 opens, 2 viewers (1 signed in), 2 references (1 retyped), 2 places, `MaxWork` = 4, `MaxExpiries` = 1 |

Why the bounds are enough. No operation of the aggregate relates two listings but
the erasure, and no guard counts, so one listing is the whole state of
`pre_gate` and two show the erasure; of contents only sameness and membership in
the two sets matter, and two contents per class exercise both. Two requests are the
smallest overlap, and since a finished request reads again they also make the
longer chains, one stale write after another. `MaxLoads` bounds how many such reads there are in all
(`MCOverlap`): seven are three requests one after the other beside one that is held throughout, and
three more; `GateNeedsNoLock` and `OnlyStaleReads` hold without it. Three revisions are needed for a
downgrade that is overtaken in turn. Five keys make three pages of the default
size with rows on both sides of a cursor. Two members are a guest merged twice,
into different accounts.

`delivery`: five commits, besides the first delivery of each verdict, are a publication, two
rulings that contradict each other and two more moves of the owner, or four moves each with an
event of its own: enough for an event that is overtaken by two others, a page read before
either, and a verdict applied after its opposite. Redelivery of an acknowledged verdict counts as a commit and is bounded by
the clock with the rest; the first delivery of an unacknowledged one never is, so the bound
cannot stand in for an answer to the liveness question.

`reproject`: the three revisions of `MCReproject` are a field hidden, narrowed and made mandatory while a second is
merged into a third, then rules that cannot be evaluated (a category that is gone is, to both doors, like
a draft without one, and to the pass like a failed call; the run has these);
the drafts are empty, complete under the first revision and once renamed under the second, complete
under the first but for a description, and but for an image, with an answer whose rename collides. Three requests, one after another, are what it takes to publish a
row, take it out or change it, and put it back; any of their steps may fall between any two of the
pass, which a rename makes two passes. Two requests that overlap each other are in `overlap`, and in the
theorem `OnlyStaleReads` for any number of them. No operation relates two listings but the pass, which reads
them in chunks that only the order of the single row's steps can tell apart here.

`upkeep`: two writers and two background jobs is the smallest case where one difference
overtakes another it crosses. Its symmetry (requests, opens, places) is sound: the
run checks no liveness, and no definition tells two of them apart.

Where a proof exists the bound is of no importance. `CHECK_DEADLOCK FALSE` stands where the
bounds stop the system: in `Accounts` when every account is gone; in `Delivery`, `Reproject` and `Upkeep`
when the clock or the work is used up and nothing is in flight.

Runs that end in a violation, each of one sentence of the documentation
([section 7](#7-disagreements-found)): `laundering`, `unheeded`.

The properties worth a second look:

- `IndexAgrees` ties the table to the index over every writer; forgetting one boundary
  in any of them breaks it.
- `NeverLiveUnreviewed`, `PublicationNeedsAVerdict`, `TakedownIsAVerdict` say that the pre gate has no
  way round: not through `archived`, a restored row, the expired edge or a second
  publication.
- `OnlyAStaleReadMisleadsTheIndex` says what a missing lock may cost: table and index part only in a write
  decided on something that has moved since it was read, and which reads those are — `deleted_at`; the
  status in the instance, for a move, a delete or a verdict; what its two detectors read, for a save.
  The last is a window of its own: two saves of equal status, the second of which read the stored row
  before the first committed, leave the index behind (`models.py:739`, `752`).
  An instance stale in any other column costs content only. `OnlyStaleReadsMisleadTheIndex` is the same for the
  projections, with the pass beside the requests.
- `ProjectionsAgree` allows one way for the search column to part from the table beside it: a move
  into the window from an instance read before the table was written (`models.py:972-981`).
- `SerialRequestsAreAtomic` and `IndexIsAReplica` are the refinements: `StaleSpec` without overlap
  implements `Listing`'s `Spec`, `Delivery` implements `Replica` (liveness included).
- `OnlySilentWritesMislead` names what the ordering guard cannot mend: writes that send no event.
- `VerdictsAreApplied`: with a category kept from some time on, no order of moves leaves a verdict that
  no redelivery can apply. `unheeded` is the same question without that premise.
- `OnlyARaceDowngrades` states what `_advance_pointer` does guarantee, since it does not guarantee
  what its docstring says.
- `DeliveredMeansCarried`: the retry contract of `user.merged`.
- `CleanPassLeavesNothingStale`, `OnlyExcusedValuesStayPublic`: what an operator may conclude from a pass that
  ran alone, after a field was hidden, if it resolved the schema the catalogue has.
- `ClaimsFollowTheRow` compares the row with what stapel-cdn *will* hold once everything unsaid has been
  said, and lists the steps that may part the two.

## 5. Fairness

Safety runs assume none. Four specifications state it:

- `CategoryCache`: `WF(Resume(w))`, a function call that started runs to its end, and `WF(DataExpires(r))`,
  every data entry was set with `FEATURE_CONFIG_CACHE_TIMEOUT`. Nothing is assumed of requests, events
  or `category.changed`. A reader that re-fills an entry keeps it present, and the entry is
  then no longer stale; so weak fairness of the expiry is enough.
- `SearchExport`: `WF(ReadPage)`, a consumer that began a rebuild keeps asking. Nothing is assumed of the
  table. That rows are finitely many (`MaxKey`) is a bound: on a table that grows faster than it is read
  a rebuild need not end, there as here.
- `Accounts`: `WF(HandleMerged(g, s))`, the outbox redelivers what failed
  (`actions.py:28-36`), and `WF(Arrive(u))`, the projection of an existing account arrives.
- `Delivery`: `WF(\E s \in owed : Hear(s))` and `WF(Deliver(m))` for each verdict: the outbox and the broker
  redeliver what has not been acknowledged. Nothing is assumed of the owner, of moderators, of
  repeated deliveries or of export pages. A verdict that is refused is one whose `Deliver` is disabled; weak
  fairness is then owed nothing until it is enabled for good, which is why `VerdictsAreApplied` needs its
  premise.

## 6. Proofs

All theorems are about `Spec` (`StaleSpec`, `Safe`) with the constants left open, under the
`ASSUME`s of the modules only: disjoint model values, finite sets where something is counted, the ranges of the
settings. TLC evaluates them in the runs.

**`ListingProofs`.** `TypeOK` is inductive. `IndexAgrees` is inductive with it: the
heart is `CommitAgrees`, that a commit keeps the agreement of one listing if its
event is the one the old and the new row call for (`SaveHeard` and
`BoundaryHeard` show that each detector sends that event). `NeverLiveUnreviewed` and
`PendingIsUnderReview` are inductive with `TypeOK` as they stand; `EveryStep`, which writes down for
every action what row and case it leaves, is shared by them and by the three action
properties. Nothing depends on how many listings, accounts or contents there are, on
the sets the doors accept, or — but for the properties that name them — on gate,
`AUTO_APPROVE` and raw writes.

**`StaleWritesProofs`.** `GateNeedsNoLock` needs a strengthening: besides the row, every *instance in
flight* that has been live was read from a listing somebody had ruled on; since rulings
are not taken back, writing it again is harmless. `SerialRefinement` (assuming `~Overlap`) rests on
`HeldIsCurrent`: the instance and the row are the same until the write, and a write of a current
instance is one of `Listing`'s actions (`CurrentWriteIsAtomic`). The one place where they differ in form is the
publication, which saves and then moves: `PublishSignalIsSaveSignal`; of the detectors' reads, that they are the row (`HeldIsCurrent` has a part for each step of a
save). `OnlyStaleReads` is the converse of the overlap: a save whose detectors saw what the row still says, and a
move, delete or verdict on an instance with the row's status, announces enough, however stale the instance is
in every other column.

**`CategoryCacheProofs`.** The type invariant carries the fact that a worker past the provider has a
revision, so nothing is ever memoized without one; from it follow
`SchemaUnderItsRevision` and, step by step, `OnlyARaceDowngrades`.

**`SearchExportProofs`.** The strengthening `Behind`: what was handed out lies at or below the cursor,
and nothing stable was left behind there. It needs that the page size is positive, which is what
the clamp is for (`PageSizePositive`).

**`AccountsProofs`.** `TypeOK` includes the foreign keys (nobody owns or saved anything without a row) and is
inductive: every write for an account is guarded by the account's row, and the row goes with all
that points at it. `DeliveredMeansCarried` follows because only `HandleMerged` settles a
merge (`SettledByItsHandler`); `ChangesHandsByMerge` and `FavoritesAreKept` are one step per action.

**`DeliveryProofs`.** Every commit is either `Silent` (no event, and the announced version stays) or `Loud` (an event
of its own instant). The inductive invariant has four parts: all stamps lie in the past, and no event is newer
than the row's version (`InTime`); the row's version was announced, and a removal only of a row nobody may see
(`Announcements`); whatever bears a sequence number from that version on, document or page, says that version
(`LateIsRight`); what was handled is counted in the index's sequence (`HeardIsCounted`). When nothing is owed,
the announcement of the present version was handled, so the index is at least that late, so it is right:
`SettledIndexConverges`. `ImplementsReplica` maps each step to `Change`, `Serve`, `Settle` or a stutter of `Replica`.
`OnlySilentWrites` is one step per action; the document it compares carries `updated_at`, so every stamp that
sends no event is on its list.

**`ReprojectProofs`.** Two halves. The first is about the operators of `Projections`, for any category
and any answers:

- an arrangement of a set under a strict total order exists and is the only one (`ArrangedArranges`,
  `OnlyArrangement`), so a `Pick` follows its list (`PickFollows`) and `ByOrder` is the one list that sorts
  stably (`ByOrderSorts`, `OnlyByOrder`, `SortedByOrder`). Where an induction is wanted, a least counterexample is taken
  instead (`Least`, from the library's well-foundedness of `<` on the naturals);
- the equation of `FilterEmptyHeaders` has a solution (`FilterKeeps`, one entry more at a time, `OneMoreKept`), and in a
  list built from a category whatever solves it keeps a heading exactly if a field with an answer comes before the next heading
  but for those it is grouped with (`ShownLead`): that is `HeadingsToShow` (`FreshHeadings`);
- what a fresh build, a partial build and a repair show, as sets of slugs (`FreshHolds`, `FreshFields`, `Partial`,
  `RepairJoins`), and that all of them are tables derived alike (`FreshTable`, `JoinedTable`);
- a repair under the same schema repairs nothing more (`PartialAgain`: the join of rebuilt and preserved
  entries is already sorted, so sorting it again leaves it alone, `SortAgain`).

The second half carries three invariants through the steps. `IInv` says what rows, chunks, requests and the pass
*are*, and that what a request holds from the publish endpoint was accepted by `validate_draft` under the schema
it remembers. `TInv` says what they *hold*: the table, title and badges of every row, every fetched row and every instance in flight are
one derivation (`IsCard`), which `ProjectionsAgree` needs because each of them is written back over a row later; an
instance on its way into a save has the search column of its own table as well; and no revision is
remembered that there has not been. `Alone` is what a pass knows that nothing has disturbed:
the rows it fetched are still the rows there are, and those it is done with stay as it left them. Nothing is said of the
cache there: the memo is one revision throughout (`MemoStays`), and whether it is the catalogue's is a premise of the
property. From these:

- `Types`, `OneDerivation`: `TypeOK` and `ProjectionsAgree`, one step per action (`SaveWrites`, `MoveWrites` and
  `ProjectWrites` say what row each leaves, `OneSearchColumn` what the search column may do in a step);
- `RepairsKeepRejectedFields`, `HeadingsFollow`: instances of the operators' lemmas, on rows that `TInv` says are good;
- `CleanPasses`, `OnlyExcusedValues`: at the end of an undisturbed pass every row with a source and a category was
  repaired under the memo, and by `PartialAgain` repairing it again changes nothing; so it is what the catalogue's schema
  makes of it, and what that schema hides and judges is not public in it;
- `OnlyStaleReads` compares what each writer's detectors saw with the stored row, `LateRefusals` reads `HeldOK`,
  `DoorsDisagreeOnlySo` compares the two lists of checks;
- `RenamesLoseNothing`: `RenameDraft` is a bijection from the old slugs to the new (`RenamedSlugs`, `RenameCarries`), from
  `validate_renames` and the collision check alone; so the number of answers is kept as well.

Two properties were stated too loosely for every catalogue and were sharpened before they were proved. The slug
of an answer may be that of a heading of the revision at hand, which no repair shows as a field; and a stored heading
whose slug has become that of a rejected field is preserved in its place. TLC's revisions contain neither case;
`RepairKeepsRejectedFields` and `HeadingsFollowAcceptedAnswers` now say what happens then.

**`UpkeepProofs`.** `WindowsCountOnce`: opens counted plus opens still to be counted are no more than the windows there
have been (`Admitted`); `Open` opens a window and a pending open together, `Count` moves one from the second to
the first. `TheCountIsAFloor` adds to the property that an instance in memory holds a count of the past
(`CountsOfThePast`), so a whole-row save only ever lowers the count, and that whoever is about to be remembered was counted
(`RememberedAfter`). `OnlyLateStamps` is one step per action over the types.
`OnlyTheseLoseTheClaims`: a reference will be held once everything unsaid is said if its last mention adds it
(`KeptAfter`, `WillHold`). A write whose baseline is the stored row appends a difference from what will be held to what
the row shows; announcing a difference ahead of others that it does not cross changes no last mention. The steps that do neither are those the property lists.

Only model-checked: liveness (`StaleSchemaDiesOut`, `RebuildEnds`, `MergeLands`, `VerdictsAreApplied`, and the liveness half of
`IndexIsAReplica`), which is out of the prover's reach. Every other property of a passing run is a theorem.

## 7. Disagreements found

Two runs end in a counterexample to a sentence of the repository:

| run | the sentence | what the code does |
|---|---|---|
| `laundering` | `tests/test_publish_status_guard.py:7-8`: a listing with a standing rejection waits for a verdict whatever the gate | `publish_listing` overwrites the only record of the rejection: published from `blocked`, the listing waits, as promised, with `moderation_status` pending; published once more from `pending`, it carries no trace of the rejection and the post gate lets it in (`services/publish.py:261`). Withdrawing to draft between the two publications, or before the first, ends the same way; the run shows the shortest route |
| `unheeded` | `README.md:102-103`: a rejecting verdict removes it | the owner clears the category of a live listing (`serializers.py:616`); `transition_to` then refuses `blocked` (`models.py:958`), the handler raises and rolls back, and every redelivery does the same while the listing stays in the window |

Sentences that are stated as definitions the code violates, without a run of their own:

- `RejectedIsNotLive` (`Listing`), the same `README.md` sentence: a verdict on a paused or sold listing moves only
  the moderation axis, and the owner resumes it.
- `DeletedIsNotInTheIndex` (`StaleWrites`), `models.py:1056-1058`: `destroy` decides from the instance; a verdict that
  publishes in between leaves a ghost.
- `TakedownIsKept` (`StaleWrites`), `models.py:194-197`: a save-draft that read the row before a takedown writes
  `published` back.
- `RenameRepairsUnderTheCatalogue` (`Reproject`), `services/rename_features.py:246-247` (*the pass refuses to trust its
  own cache*): `invalidate` drops the pointer, a worker that fetched before the rename sets it again, and the
  repair resolves the retired schema.
- `CarriedStaysCarried` (`Accounts`), `schemas/consumes/user.merged.json:4`: a save that read the guest's listing before
  the merge writes the guest's `owner_id` back, and the row goes with the guest.

Others seen while modelling:

- `_advance_pointer` (`services/category_schema.py:80-89`) says *never downgrade it*; two workers
  between its get and its set do. `OnlyARaceDowngrades` is the property that holds.
- `models.py:657-659` says a stale geohash is worse than a blank one and never kept; the backfill's batch writes the stamp of
  coordinates that have moved since it read them (`OnlyALateStampMisplaces`).
- `models.py:350-357` says the sweeper never reaps a claimed photo; two overlapping saves, each announcing its own difference,
  can leave a shown photo unclaimed (the excused steps of `ClaimsFollowTheRow`).
- `models.py:704-707` re-derives `features_search` on every write that touches its source, so that it never goes stale; a transition into
  the window from an instance read before a pass writes it from the old table (`ProjectionsAgree`).
- `models.py:733-770`: the row and its event commit together, but what decides the event was read before the
  transaction began (`OnlyAStaleReadMisleadsTheIndex`, `OnlyStaleReadsMisleadTheIndex`).
- `models.py:306-308` says every status but draft and archived carries a category, enforced at two doors;
  save-draft and update clear it in any status.
- The restore edges of `POST /transition/` call `publish_listing` without `validate_draft`; `DoorsAgree` says exactly
  what that lets through.
- `moderation_status` is in the search document (`services/search_feed.py:102`) but not among the fields
  whose change is announced (`models.py:327`), and a re-projection does not move the `updated_at` that orders export
  pages: `OnlySilentWritesMislead` and `SettledIndexIsCurrent` say what follows, and what does not.
- A verdict names no version of the contents (`actions.py:79`): an approval is applied to whatever was submitted since.

## 8. What is not here

- **Price, stock and location; the location label and the expiry date a publication stamps.** One-step computations.
- **The serializers**, but for the columns they write: the merge of draft metadata, the pair of countable and
  stock quantity, shapes and messages. Field values are atoms; in `Reproject` an answer is accepted or not by
  the feature it answers.
- **Raw host writes, host deletes and the erasure in `StaleWrites`** (they overlap in `Upkeep`, on other columns).
- **Dry runs, reports and the subtree walk of the passes**, the decoration of cards, audience redaction.
- **Comm functions and HTTP reads, admin, configuration and code generation**: no state, no protocol.
- **The isolation of the database** beyond what is committed being what the next statement reads: each read a request
  decides on is a step of its own in `StaleWrites`, `Reproject` and `Upkeep`, each transaction's writes are one.
- In `Accounts`, destroys and index events (they are in `Listing`), and the version of a row beyond its owner. In
  `Delivery`, the post gate and `AUTO_APPROVE` (they are in `Listing`), and the erasure.
