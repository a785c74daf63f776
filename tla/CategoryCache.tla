--------------------------- MODULE CategoryCache ---------------------------
(***************************************************************************)
(* services/category_schema.py for one category: the memo of its feature   *)
(* schema in the shared cache, where every get and set is a step of its    *)
(* own.  A pointer entry names the newest known revision and one data      *)
(* entry per revision holds that schema, so a schema is written here as    *)
(* the revision it belongs to.                                             *)
(*                                                                         *)
(* A worker is a request thread (or a management command) that resolves    *)
(* the schema, or the consumer of a category.changed event, delivered at   *)
(* least once and in any order.                                            *)
(***************************************************************************)
EXTENDS Naturals

CONSTANTS
  Workers,
  MaxRevision   \* bound: the revision after which the category is left alone

ASSUME MaxRevisionAssumption == MaxRevision \in Nat \ {0}

Revisions == 1 .. MaxRevision
None == 0       \* a cache miss
Entries == Revisions \cup {None}

VARIABLES
  current,    \* the revision the categories service is at
  announced,  \* the revisions category.changed events have named
  pointer,    \* cache: stapel_listings:catconf:rev:<id>
  data,       \* cache: stapel_listings:catconf:data:<id>:<revision>
  worker      \* what each worker is doing

vars == <<current, announced, pointer, data, worker>>

Worker == [pc    : {"idle", "reading", "found", "miss", "fetched", "advancing", "comparing"},
           rev   : Entries,   \* the revision in the worker's hands
           seen  : Entries]   \* the pointer as _advance_pointer read it

Idle == [pc |-> "idle", rev |-> None, seen |-> None]

(* Past the provider or the pointer a worker has a revision in hand. *)
Holds(pc) == pc \in {"found", "fetched", "advancing", "comparing"}

TypeOK ==
  /\ current \in Revisions
  /\ announced \subseteq Revisions
  /\ pointer \in Entries
  /\ data \in [Revisions -> Entries]
  /\ worker \in [Workers -> Worker]
  /\ \A w \in Workers : Holds(worker[w].pc) => worker[w].rev # None

Init ==
  /\ current = 1
  /\ announced = {}
  /\ pointer = None
  /\ data = [r \in Revisions |-> None]
  /\ worker = [w \in Workers |-> Idle]

Cache == <<pointer, data>>
Provider == <<current, announced>>

(* Worker w leaves pc `from`, its record becoming `new`. *)
Step(w, from, new) ==
  /\ worker[w].pc = from
  /\ worker' = [worker EXCEPT ![w] = new]

At(w, pc) == [worker[w] EXCEPT !.pc = pc]

-----------------------------------------------------------------------------
(* get_feature_configs *)

Request(w) ==
  /\ Step(w, "idle", [Idle EXCEPT !.pc = "reading"])
  /\ UNCHANGED <<Provider, Cache>>

ReadPointer(w) ==
  /\ Step(w, "reading",
          [At(w, IF pointer = None THEN "miss" ELSE "found") EXCEPT !.rev = pointer])
  /\ UNCHANGED <<Provider, Cache>>

ReadData(w) ==
  /\ Step(w, "found", IF data[worker[w].rev] = None THEN At(w, "miss") ELSE Idle)
  /\ UNCHANGED <<Provider, Cache>>

(* Mutation: a result without a revision memoized like the others. *)
CallAndMemoize(w) ==
  /\ \E r \in {current, None} : Step(w, "miss", [At(w, "fetched") EXCEPT !.rev = r])
  /\ UNCHANGED <<Provider, Cache>>

(* The categories.features call: the schema with its revision, or no       *)
(* revision, or an error; only the first is memoized.                      *)
Call(w) ==
  /\ \/ Step(w, "miss", [At(w, "fetched") EXCEPT !.rev = current])
     \/ Step(w, "miss", Idle)
  /\ UNCHANGED <<Provider, Cache>>

(* Mutation: the result stored under the revision the pointer names now.   *)
StoreUnderPointer(w) ==
  /\ Step(w, "fetched", At(w, "advancing"))
  /\ data' = IF pointer = None THEN data ELSE [data EXCEPT ![pointer] = worker[w].rev]
  /\ UNCHANGED <<Provider, pointer>>

Store(w) ==
  /\ Step(w, "fetched", At(w, "advancing"))
  /\ data' = [data EXCEPT ![worker[w].rev] = worker[w].rev]
  /\ UNCHANGED <<Provider, pointer>>

-----------------------------------------------------------------------------
(* _advance_pointer: a get, a comparison, a set *)

ReadForAdvance(w) ==
  /\ Step(w, "advancing", [At(w, "comparing") EXCEPT !.seen = pointer])
  /\ UNCHANGED <<Provider, Cache>>

(* Mutation: the set without the comparison. *)
AdvanceAlways(w) ==
  /\ Step(w, "comparing", Idle)
  /\ pointer' = worker[w].rev
  /\ UNCHANGED <<Provider, data>>

Advance(w) ==
  /\ Step(w, "comparing", Idle)
  /\ pointer' = IF worker[w].seen = None \/ worker[w].rev >= worker[w].seen
                THEN worker[w].rev ELSE pointer
  /\ UNCHANGED <<Provider, data>>

-----------------------------------------------------------------------------
(* The events, the resets, the passing of time. *)

(* The categories service moves on and says so. *)
Change ==
  /\ current < MaxRevision
  /\ current' = current + 1
  /\ announced' = announced \cup {current + 1}
  /\ UNCHANGED <<Cache, worker>>

(* handle_category_changed, for any event any number of times. *)
NoteChanged(w) ==
  /\ \E r \in announced : Step(w, "idle", [Idle EXCEPT !.pc = "advancing", !.rev = r])
  /\ UNCHANGED <<Provider, Cache>>

(* invalidate: an event without a revision, an operator, or a rename pass  *)
(* about to resolve the schema anew.                                       *)
Invalidate ==
  /\ pointer' = None
  /\ UNCHANGED <<Provider, data, worker>>

(* Mutation: FEATURE_CONFIG_CACHE_TIMEOUT lost on the way to cache.set. *)
NeverExpires(r) == FALSE /\ UNCHANGED vars

DataExpires(r) ==
  /\ data[r] # None
  /\ data' = [data EXCEPT ![r] = None]
  /\ UNCHANGED <<Provider, pointer, worker>>

PointerExpires ==
  /\ pointer # None
  /\ pointer' = None
  /\ UNCHANGED <<Provider, data, worker>>

Resume(w) ==
  \/ ReadPointer(w) \/ ReadData(w) \/ Call(w) \/ Store(w)
  \/ ReadForAdvance(w) \/ Advance(w)

Next ==
  \/ Change
  \/ Invalidate
  \/ PointerExpires
  \/ \E r \in Revisions : DataExpires(r)
  \/ \E w \in Workers : Request(w) \/ NoteChanged(w) \/ Resume(w)

Spec == Init /\ [][Next]_vars

(* A call that started runs to its end, and entries outlive no TTL. *)
Fairness ==
  /\ \A w \in Workers : WF_vars(Resume(w))
  /\ \A r \in Revisions : WF_vars(DataExpires(r))

FairSpec == Spec /\ Fairness

-----------------------------------------------------------------------------
(* Properties. *)

(* "Its result lands under its own (older) revision": the entry of a       *)
(* revision holds that revision's schema whatever moved mid-fetch, so a    *)
(* reader the pointer sends to revision r never gets the schema of another.*)
SchemaUnderItsRevision == \A r \in Revisions : data[r] \in {None, r}

(* The pointer goes back only when a worker's comparison was against a     *)
(* pointer that somebody has replaced since: _advance_pointer by itself    *)
(* never promotes an older revision.                                       *)
OnlyARaceDowngrades ==
  [][pointer' # None /\ pointer' < pointer
       => \E w \in Workers : /\ worker[w].pc = "comparing"
                             /\ worker[w].rev = pointer'
                             /\ worker[w].seen # pointer]_vars

(* What the next reader would be served is an older schema. *)
Stale == pointer # None /\ data[pointer] \notin {None, current}

(* Whatever events were lost, reordered or raced, once the category is     *)
(* left alone the old schema stops being served: within a TTL the reads    *)
(* are misses or the current schema, for good.                             *)
StaleSchemaDiesOut == <>[]~Stale
=============================================================================
