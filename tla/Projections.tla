----------------------------- MODULE Projections -----------------------------
(***************************************************************************)
(* What a listing's four attribute projections are: the pure builders of   *)
(* services/features.py, over the answers of a draft and the features of a *)
(* category.                                                               *)
(*                                                                         *)
(* A category is a sequence of features in its own order, a draft a        *)
(* function from the slugs it answers to answers.  A DAO is what           *)
(* stapel-attributes makes of one answer: it carries the stamps of the     *)
(* feature it was made under, and keeps them until it is made again.       *)
(***************************************************************************)
EXTENDS Naturals, Sequences, FiniteSets, SequencesExt

CONSTANT NoAnswer   \* what a heading holds

(* The members of a finite set as R has them follow one another, each      *)
(* after as many as R puts before it; and a subsequence, by its indices.   *)
Arranged(I, R) ==
  [k \in 1 .. Cardinality(I) |->
     CHOOSE i \in I : Cardinality({j \in I : <<j, i>> \in R}) = k - 1]
InOrder(I) == Arranged(I, {p \in I \X I : p[1] < p[2]})
Pick(s, I) == LET at == InOrder(I) IN [k \in 1 .. Cardinality(I) |-> s[at[k]]]

(* Which fields of the category a draft can answer, and the rest. *)
Fields(category) == {i \in DOMAIN category : ~category[i].header}
Slugs(category) == {category[i].slug : i \in DOMAIN category}

-----------------------------------------------------------------------------
(* stapel-attributes, as this module uses it: an answer the category does  *)
(* not know is passed over; a field that is not public is stamped neither  *)
(* title nor badge; a heading needs no answer.                             *)

Dao(category, i, answers) ==
  LET feature == category[i]
  IN [slug   |-> feature.slug,
      answer |-> IF feature.header THEN NoAnswer ELSE answers[feature.slug],
      header |-> feature.header,
      public |-> feature.public,
      title  |-> feature.title /\ feature.public,
      badge  |-> feature.badge /\ feature.public,
      order  |-> i]

NormalizeToDao(category, answers) ==
  LET made == InOrder({i \in DOMAIN category :
                         category[i].header \/ category[i].slug \in DOMAIN answers})
  IN [k \in DOMAIN made |-> Dao(category, made[k], answers)]

(* validate_dto_structured: the fields the category rejects. *)
FieldFailures(category, answers) ==
  {category[i].slug : i \in
     {i \in Fields(category) :
        IF category[i].slug \in DOMAIN answers
        THEN answers[category[i].slug] \notin category[i].accepts
        ELSE category[i].required}}

(* The slugs only validate_dto refuses. *)
UnknownSlugs(category, answers) == DOMAIN answers \ Slugs(category)

-----------------------------------------------------------------------------
(* services/features.py. *)

(* A stable sort by "order". *)
ByOrder(list) ==
  LET before == {p \in (DOMAIN list) \X (DOMAIN list) :
                   \/ list[p[1]].order < list[p[2]].order
                   \/ list[p[1]].order = list[p[2]].order /\ p[1] < p[2]}
      at == Arranged(DOMAIN list, before)
  IN [k \in DOMAIN list |-> list[at[k]]]

ConsecutiveHeaderPairs(category) ==
  {<<category[i].slug, category[i + 1].slug>> : i \in
     {i \in 1 .. Len(category) - 1 : category[i].header /\ category[i + 1].header}}

(* Mutation: a heading is kept if anything at all follows it. *)
FilterTrailingHeaders(list, pairs) ==
  Pick(list, {i \in DOMAIN list : \E j \in DOMAIN list : i <= j /\ ~list[j].header})

(* The last kept first: a heading is kept if what comes next of what is    *)
(* kept is a field, or a heading it is paired with.                        *)
FilterEmptyHeaders(list, pairs) ==
  LET Following(i, kept) == {j \in kept : i < j /\ \A k \in kept : i < k => j <= k}
      Heads(i, j) == ~list[j].header \/ <<list[i].slug, list[j].slug>> \in pairs
      Keeps(kept) == {i \in DOMAIN list :
                        ~list[i].header \/ \E j \in Following(i, kept) : Heads(i, j)}
      fields == {i \in DOMAIN list : ~list[i].header}
      Candidates == {fields \cup some : some \in SUBSET (DOMAIN list \ fields)}
  IN Pick(list, CHOOSE kept \in Candidates : kept = Keeps(kept))

FeaturesList(daos, pairs) == FilterEmptyHeaders(ByOrder(daos), pairs)

FeaturesTitle(list) == Pick(list, {i \in DOMAIN list : list[i].title /\ list[i].public})
FeaturesBadges(list) == Pick(list, {i \in DOMAIN list : list[i].badge /\ list[i].public})
FeaturesSearch(list) ==
  {<<dao.slug, dao.answer>> : dao \in {d \in ToSet(list) : ~d.header /\ d.public}}

ProjectionsFromList(list) ==
  [features |-> list,
   features_title |-> FeaturesTitle(list),
   features_badges |-> FeaturesBadges(list),
   features_search |-> FeaturesSearch(list)]

BuildProjections(category, answers) ==
  LET daos == NormalizeToDao(category, answers)
      list == FeaturesList(daos, ConsecutiveHeaderPairs(category))
  IN IF DOMAIN answers = {} THEN ProjectionsFromList(<<>>)
     ELSE [ProjectionsFromList(list) EXCEPT !.features_search = FeaturesSearch(daos)]

(* Mutation: only the attribute table is given what was preserved. *)
PreserveInTheTableOnly(category, answers, skip, stored) ==
  LET fresh == BuildProjections(category,
                 [s \in DOMAIN answers \ skip |-> answers[s]])
      preserved == Pick(stored, {i \in DOMAIN stored : stored[i].slug \in skip})
  IN [fresh EXCEPT !.features = ByOrder(@ \o preserved)]

(* Every field anew except those to skip, which keep their stored DAO. *)
BuildProjectionsPartial(category, answers, skip, stored) ==
  LET fresh == BuildProjections(category,
                 [s \in DOMAIN answers \ skip |-> answers[s]])
      preserved == Pick(stored, {i \in DOMAIN stored : stored[i].slug \in skip})
  IN IF preserved = <<>> THEN fresh
     ELSE ProjectionsFromList(ByOrder(fresh.features \o preserved))

NoProjections == ProjectionsFromList(<<>>)

-----------------------------------------------------------------------------
(* services/search_feed.py: what an indexer is given of the four. *)

HiddenSlugs(p) == {dao.slug : dao \in {d \in ToSet(p.features) : ~d.public}}

Public(list) == Pick(list, {i \in DOMAIN list : list[i].public})

SearchDocument(p) ==
  [features_search |-> {v \in p.features_search : v[1] \notin HiddenSlugs(p)},
   features_title |-> Public(p.features_title),
   features_badges |-> Public(p.features_badges)]

-----------------------------------------------------------------------------
(* services/rename_features.py: what a rename does to one draft. *)

(* validate_renames. *)
ValidRenames(renames) ==
  /\ DOMAIN renames # {}
  /\ IsInjective(renames)
  /\ DOMAIN renames \cap {renames[s] : s \in DOMAIN renames} = {}

(* Mutation: nobody asks whether the new slug is taken. *)
CollidesNever(renames, answers, s) == FALSE

Collides(renames, answers, s) == renames[s] \in DOMAIN answers

Renamed(renames, answers) ==
  {s \in DOMAIN renames \cap DOMAIN answers : ~Collides(renames, answers, s)}

RenameDraft(renames, answers) ==
  LET moved == Renamed(renames, answers)
      slugs == (DOMAIN answers \ moved) \cup {renames[s] : s \in moved}
      from(t) == IF t \in DOMAIN answers THEN t
                 ELSE CHOOSE s \in moved : renames[s] = t
  IN [t \in slugs |-> answers[from(t)]]

-----------------------------------------------------------------------------
(* A second account of which headings are shown, to check the filter by: a *)
(* heading is shown if its section, or the last section of the run of      *)
(* headings it begins, has an answered field.                              *)
HeadingsToShow(category, answered) ==
  {category[i].slug : i \in {i \in DOMAIN category :
     \E m, j \in DOMAIN category :
       /\ i <= m /\ m < j
       /\ \A k \in i .. m : category[k].header
       /\ \A k \in m + 1 .. j : ~category[k].header
       /\ category[j].slug \in answered}}

Headings(list) == {dao.slug : dao \in {d \in ToSet(list) : d.header}}
=============================================================================
