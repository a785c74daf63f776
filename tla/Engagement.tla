----------------------------- MODULE Engagement -----------------------------
(***************************************************************************)
(* services/engagement.py on one listing: an open is admitted once per     *)
(* viewer and window by a test-and-set in the cache, then counted on the   *)
(* row, then remembered for a viewer who is signed in.  The three are      *)
(* separate writes, and a worker may stop between any two of them.         *)
(***************************************************************************)
EXTENDS Naturals, FiniteSets

CONSTANTS
  Viewers,     \* what viewer_key tells apart
  SignedIn,    \* those it knows by their account
  Opens,       \* requests for the listing's page under way
  MaxExpiries, \* windows of a viewer that end, a bound for TLC
  NoOpen       \* nothing is under way

ASSUME EngagementAssumption ==
  /\ SignedIn \subseteq Viewers
  /\ IsFiniteSet(Opens) /\ MaxExpiries \in Nat
  /\ NoOpen \notin [viewer : Viewers, counted : BOOLEAN]

VARIABLES
  views,       \* view_count, as stored
  window,      \* the viewers whose dedup key is in the cache
  seen,        \* the viewers with a ListingView row
  opening,     \* Opens -> the admitted open under way
  expired,     \* Viewers -> how many of their windows have ended
  counted,     \* Viewers -> how many of their opens were counted
  overwritten  \* a save of the whole row has put back another count

engagementVars == <<views, window, seen, opening, expired, counted, overwritten>>

EngagementInit ==
  /\ views = 0 /\ overwritten = FALSE
  /\ window = {} /\ seen = {}
  /\ opening = [o \in Opens |-> NoOpen]
  /\ expired = [v \in Viewers |-> 0]
  /\ counted = [v \in Viewers |-> 0]

EngagementTypeOK ==
  /\ views \in Nat /\ overwritten \in BOOLEAN
  /\ window \subseteq Viewers /\ seen \subseteq SignedIn
  /\ opening \in [Opens -> [viewer : Viewers, counted : BOOLEAN] \cup {NoOpen}]
  /\ expired \in [Viewers -> 0 .. MaxExpiries]
  /\ counted \in [Viewers -> Nat]

Proceed(o, to) == opening' = [opening EXCEPT ![o] = to]

(* Mutation: cache.set, which succeeds whether or not the key is there.    *)
SetWindow(o, v) ==
  /\ opening[o] = NoOpen
  /\ window' = window \cup {v}
  /\ Proceed(o, [viewer |-> v, counted |-> FALSE])
  /\ UNCHANGED <<views, seen, expired, counted, overwritten>>

(* cache.add.  The owner, and an open nobody can be named for, are not     *)
(* among the viewers; an unpublished listing is not opened.                *)
Open(o, v) ==
  /\ opening[o] = NoOpen
  /\ v \notin window
  /\ window' = window \cup {v}
  /\ Proceed(o, [viewer |-> v, counted |-> FALSE])
  /\ UNCHANGED <<views, seen, expired, counted, overwritten>>

(* Mutation: a signed-in viewer's row is written first, and it is believed *)
(* to be the count.                                                        *)
CountOnceForAll(o) ==
  /\ opening[o] # NoOpen /\ ~opening[o].counted
  /\ views' = IF opening[o].viewer \in seen THEN views ELSE views + 1
  /\ counted' = [counted EXCEPT ![opening[o].viewer] = @ + 1]
  /\ Proceed(o, IF opening[o].viewer \in SignedIn
                THEN [viewer |-> opening[o].viewer, counted |-> TRUE] ELSE NoOpen)
  /\ UNCHANGED <<window, seen, expired, overwritten>>

(* Mutation: every viewer counted is remembered, guests too.               *)
CountAndRemember(o) ==
  /\ opening[o] # NoOpen /\ ~opening[o].counted
  /\ views' = views + 1
  /\ counted' = [counted EXCEPT ![opening[o].viewer] = @ + 1]
  /\ Proceed(o, [viewer |-> opening[o].viewer, counted |-> TRUE])
  /\ UNCHANGED <<window, seen, expired, overwritten>>

(* update(view_count=F("view_count") + 1) *)
Count(o) ==
  /\ opening[o] # NoOpen /\ ~opening[o].counted
  /\ views' = views + 1
  /\ counted' = [counted EXCEPT ![opening[o].viewer] = @ + 1]
  /\ Proceed(o, IF opening[o].viewer \in SignedIn
                THEN [viewer |-> opening[o].viewer, counted |-> TRUE] ELSE NoOpen)
  /\ UNCHANGED <<window, seen, expired, overwritten>>

(* update_or_create of the ListingView. *)
Remember(o) ==
  /\ opening[o] # NoOpen /\ opening[o].counted
  /\ seen' = seen \cup {opening[o].viewer}
  /\ Proceed(o, NoOpen)
  /\ UNCHANGED <<views, window, expired, counted, overwritten>>

(* A write fails, or the worker stops: what was done before stays.         *)
Fail(o) ==
  /\ opening[o] # NoOpen
  /\ Proceed(o, NoOpen)
  /\ UNCHANGED <<views, window, seen, expired, counted, overwritten>>

Expire(v) ==
  /\ v \in window /\ expired[v] < MaxExpiries
  /\ window' = window \ {v}
  /\ expired' = [expired EXCEPT ![v] = @ + 1]
  /\ UNCHANGED <<views, seen, opening, counted, overwritten>>

(* A save of every column puts back the count the instance was read with.  *)
WriteViews(read) ==
  /\ views' = read
  /\ overwritten' = (overwritten \/ read # views)
  /\ UNCHANGED <<window, seen, opening, expired, counted>>

EngagementStep ==
  \E o \in Opens : Count(o) \/ Remember(o) \/ Fail(o)

-----------------------------------------------------------------------------
(* However opens of one viewer overlap and whichever of them fail, a       *)
(* window counts once: the count is a floor and not a request log.         *)
AtMostOneCountPerWindow ==
  \A v \in Viewers : counted[v] <= expired[v] + 1

(* The opens that were counted, numbered for each viewer. *)
CountedOpens == UNION {{v} \X (1 .. counted[v]) : v \in Viewers}
Counted == Cardinality(CountedOpens)

(* The count is a floor: no save, retry or race makes it more than the     *)
(* opens that were counted, and until a save of the whole row has put      *)
(* another count back it is all of them.  Whoever is remembered has been   *)
(* counted.                                                                *)
CountIsAFloor ==
  /\ views <= Counted
  /\ ~overwritten => views = Counted
  /\ \A v \in seen : counted[v] > 0
=============================================================================
