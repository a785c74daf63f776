----------------------------- MODULE MCReproject -----------------------------
EXTENDS Reproject

Heading(s) == [slug |-> s, header |-> TRUE, public |-> TRUE, title |-> FALSE,
               badge |-> FALSE, required |-> FALSE, accepts |-> {}]
Field(s, public, title, required, accepts) ==
  [slug |-> s, header |-> FALSE, public |-> public, title |-> title,
   badge |-> ~title, required |-> required, accepts |-> accepts]
Revision(kind, features) == [kind |-> kind, features |-> features]

Vin(public, required, accepts) == Field("vin", public, TRUE, required, accepts)
Distance(s) == Field(s, FALSE, TRUE, FALSE, {"few", "many"})

Category(vin, distances) ==
  <<Heading("about"), Heading("identity"), vin, Heading("use")>> \o distances

(* The VIN is hidden, asked for and its format narrowed, and "km" merged   *)
(* into "mileage"; then the category's rules break.                        *)
Before == Category(Vin(TRUE, FALSE, {"old", "new"}), <<Distance("km"), Distance("mileage")>>)
After == Category(Vin(FALSE, TRUE, {"new"}), <<Distance("mileage")>>)

MCSchemas == <<Revision("ok", Before), Revision("ok", After), Revision("broken", After)>>

MCRenames == [s \in {"km"} |-> "mileage"]

Draft(features) ==
  [features |-> features, category |-> TRUE, place |-> TRUE, image |-> TRUE,
   description |-> TRUE, zeroPrice |-> FALSE]

Says(s, a) == [x \in {s} |-> a]

MCEmpty == [Draft([x \in {} |-> x]) EXCEPT !.category = FALSE]

(* Complete under the first revision and, once renamed, under the second;  *)
(* under the first, but for its description; under the first, but for its  *)
(* image, with a slug whose rename collides.                               *)
MCDrafts ==
  {MCEmpty,
   Draft(Says("vin", "new") @@ Says("km", "few")),
   [Draft(Says("vin", "old") @@ Says("mileage", "few")) EXCEPT !.description = FALSE],
   [Draft(Says("km", "few") @@ Says("mileage", "many")) EXCEPT !.image = FALSE]}
=============================================================================
