------------------------ MODULE CategoryCacheProofs ------------------------
(***************************************************************************)
(* What module CategoryCache guarantees for any number of workers and of   *)
(* revisions.  The type invariant carries the one fact the rest needs: a   *)
(* worker past the provider has a revision in hand.                        *)
(***************************************************************************)
EXTENDS CategoryCache, TLAPS

USE MaxRevisionAssumption DEF Revisions, Entries, None

(* The steps of a worker, and the others. *)
WorkerStep(w) ==
  \/ Request(w) \/ NoteChanged(w)
  \/ ReadPointer(w) \/ ReadData(w) \/ Call(w) \/ Store(w)
  \/ ReadForAdvance(w) \/ Advance(w)

(* Next, by who takes the step. *)
LEMMA NextCases ==
  ASSUME Next
  PROVE  \/ Change \/ Invalidate \/ PointerExpires
         \/ \E r \in Revisions : DataExpires(r)
         \/ \E w \in Workers : WorkerStep(w)
BY DEF Next, WorkerStep, Resume

(* A worker's record stays well formed when one worker moves to a well     *)
(* formed record.                                                          *)
LEMMA StepKeepsWorkers ==
  ASSUME TypeOK, NEW w \in Workers, NEW from, NEW new \in Worker,
         Holds(new.pc) => new.rev # 0,
         Step(w, from, new)
  PROVE  /\ worker' \in [Workers -> Worker]
         /\ \A v \in Workers : Holds(worker'[v].pc) => worker'[v].rev # 0
BY DEF TypeOK, Step

(* Every step keeps the types. *)
LEMMA TypeInductive == TypeOK /\ [Next]_vars => TypeOK'
<1> SUFFICES ASSUME TypeOK, [Next]_vars PROVE TypeOK'
  OBVIOUS
<1>1. CASE UNCHANGED vars
  BY <1>1 DEF TypeOK, vars
<1>2. CASE Change
  BY <1>2 DEF TypeOK, Change, Cache
<1>3. CASE Invalidate \/ PointerExpires
  BY <1>3 DEF TypeOK, Invalidate, PointerExpires, Provider
<1>4. ASSUME NEW r \in Revisions, DataExpires(r) PROVE TypeOK'
  BY <1>4 DEF TypeOK, DataExpires, Provider
<1>5. ASSUME NEW w \in Workers, WorkerStep(w) PROVE TypeOK'
  <2>0. worker[w] \in Worker /\ (Holds(worker[w].pc) => worker[w].rev # 0)
    BY DEF TypeOK
  <2>1. CASE Request(w)
    <3>1. [Idle EXCEPT !.pc = "reading"] \in Worker
      BY DEF Idle, Worker
    <3>2. ~Holds([Idle EXCEPT !.pc = "reading"].pc)
      BY DEF Idle, Holds
    <3> QED BY <2>1, <3>1, <3>2, StepKeepsWorkers DEF Request, TypeOK, Provider, Cache
  <2>2. CASE NoteChanged(w)
    <3>1. PICK r \in announced : Step(w, "idle", [Idle EXCEPT !.pc = "advancing", !.rev = r])
      BY <2>2 DEF NoteChanged
    <3> DEFINE new == [Idle EXCEPT !.pc = "advancing", !.rev = r]
    <3>2a. r \in 1 .. MaxRevision /\ r # 0
      BY DEF TypeOK
    <3>2. new \in Worker /\ new.rev # 0
      BY <3>2a DEF Idle, Worker
    <3>3. Step(w, "idle", new)
      BY <3>1
    <3> HIDE DEF new
    <3> QED BY <2>2, <3>2, <3>3, StepKeepsWorkers DEF NoteChanged, TypeOK, Provider, Cache
  <2>3. CASE ReadPointer(w)
    <3> DEFINE new ==
          [At(w, IF pointer = None THEN "miss" ELSE "found") EXCEPT !.rev = pointer]
    <3>1. new \in Worker /\ (Holds(new.pc) => new.rev # 0)
      BY <2>0 DEF At, Worker, TypeOK, Holds
    <3>2. Step(w, "reading", new)
      BY <2>3 DEF ReadPointer
    <3> HIDE DEF new
    <3> QED BY <2>3, <3>1, <3>2, StepKeepsWorkers DEF ReadPointer, TypeOK, Provider, Cache
  <2>4. CASE ReadData(w)
    <3> DEFINE new == IF data[worker[w].rev] = None THEN At(w, "miss") ELSE Idle
    <3>1. Step(w, "found", new)
      BY <2>4 DEF ReadData
    <3>2. new \in Worker /\ ~Holds(new.pc)
      BY <2>0 DEF At, Idle, Worker, Holds
    <3> HIDE DEF new
    <3> QED BY <2>4, <3>1, <3>2, StepKeepsWorkers DEF ReadData, TypeOK, Provider, Cache
  <2>5. CASE Call(w)
    <3> DEFINE new == [At(w, "fetched") EXCEPT !.rev = current]
    <3>1a. current \in 1 .. MaxRevision /\ current # 0
      BY DEF TypeOK
    <3>1. new \in Worker /\ new.rev # 0
      BY <2>0, <3>1a DEF At, Worker
    <3>2. Idle \in Worker /\ ~Holds(Idle.pc)
      BY DEF Idle, Worker, Holds
    <3>3. Step(w, "miss", new) \/ Step(w, "miss", Idle)
      BY <2>5 DEF Call
    <3> HIDE DEF new
    <3> QED BY <2>5, <3>1, <3>2, <3>3, StepKeepsWorkers DEF Call, TypeOK, Provider, Cache
  <2>6. CASE Store(w)
    <3> DEFINE new == At(w, "advancing")
    <3>0. worker[w].pc = "fetched" /\ Step(w, "fetched", new)
      BY <2>6 DEF Store, Step
    <3>1. worker[w].rev \in Revisions
      BY <2>0, <3>0 DEF Holds, Worker
    <3>2. new \in Worker /\ new.rev # 0
      BY <2>0, <3>1 DEF At, Worker
    <3>3. data' \in [Revisions -> Entries]
      BY <2>6, <3>1 DEF Store, TypeOK
    <3> HIDE DEF new
    <3> QED BY <2>6, <3>0, <3>2, <3>3, StepKeepsWorkers DEF Store, TypeOK, Provider
  <2>7. CASE ReadForAdvance(w)
    <3> DEFINE new == [At(w, "comparing") EXCEPT !.seen = pointer]
    <3>0. worker[w].pc = "advancing" /\ Step(w, "advancing", new)
      BY <2>7 DEF ReadForAdvance, Step
    <3>1. new \in Worker /\ new.rev # 0
      BY <2>0, <3>0 DEF At, Worker, TypeOK, Holds
    <3> HIDE DEF new
    <3> QED BY <2>7, <3>0, <3>1, StepKeepsWorkers DEF ReadForAdvance, TypeOK, Provider, Cache
  <2>8. CASE Advance(w)
    <3>1. Idle \in Worker /\ ~Holds(Idle.pc)
      BY DEF Idle, Worker, Holds
    <3>2. pointer' \in Entries
      BY <2>0, <2>8 DEF Advance, TypeOK, Worker
    <3> QED BY <2>8, <3>1, <3>2, StepKeepsWorkers DEF Advance, TypeOK, Provider
  <2> QED BY <1>5, <2>1, <2>2, <2>3, <2>4, <2>5, <2>6, <2>7, <2>8 DEF WorkerStep
<1> QED BY <1>1, <1>2, <1>3, <1>4, <1>5, NextCases

(* Every entry, pointer and worker is what TypeOK says, for any number of  *)
(* workers: in particular nothing is memoized without a revision.          *)
THEOREM CacheTypeCorrect == Spec => []TypeOK
<1>1. Init => TypeOK
  BY DEF Init, TypeOK, Idle, Worker, Holds
<1> QED BY <1>1, TypeInductive, PTL DEF Spec

-----------------------------------------------------------------------------

(* Every step keeps each schema under its revision. *)
LEMMA SchemaInductive ==
  TypeOK /\ SchemaUnderItsRevision /\ [Next]_vars => SchemaUnderItsRevision'
<1> SUFFICES ASSUME TypeOK, SchemaUnderItsRevision, [Next]_vars
             PROVE  SchemaUnderItsRevision'
  OBVIOUS
<1>1. ASSUME data' = data PROVE SchemaUnderItsRevision'
  BY <1>1 DEF SchemaUnderItsRevision
<1>2. ASSUME NEW r \in Revisions, DataExpires(r) PROVE SchemaUnderItsRevision'
  BY <1>2 DEF DataExpires, SchemaUnderItsRevision, TypeOK
<1>3. ASSUME NEW w \in Workers, Store(w) PROVE SchemaUnderItsRevision'
  BY <1>3 DEF Store, SchemaUnderItsRevision, TypeOK
<1>4. ASSUME NEW w \in Workers, WorkerStep(w) PROVE data' = data \/ Store(w)
  BY <1>4 DEF WorkerStep, Request, NoteChanged, ReadPointer, ReadData, Call,
              ReadForAdvance, Advance, Cache
<1>5. CASE Change \/ Invalidate \/ PointerExpires \/ UNCHANGED vars
  BY <1>1, <1>5 DEF Change, Invalidate, PointerExpires, Cache, vars
<1> QED BY <1>1, <1>2, <1>3, <1>4, <1>5, NextCases

(* get_feature_configs never stores one revision's schema under another,   *)
(* whatever the other workers, the events and the TTL do mid-fetch.        *)
THEOREM SchemaStaysUnderItsRevision == Spec => []SchemaUnderItsRevision
<1>1. Init => SchemaUnderItsRevision
  BY DEF Init, SchemaUnderItsRevision
<1> QED BY <1>1, CacheTypeCorrect, SchemaInductive, PTL DEF Spec

-----------------------------------------------------------------------------

(* The action of OnlyARaceDowngrades. *)
RaceOnly ==
  pointer' # None /\ pointer' < pointer
    => \E w \in Workers : /\ worker[w].pc = "comparing"
                          /\ worker[w].rev = pointer'
                          /\ worker[w].seen # pointer

(* A step that moves the pointer back lost a race. *)
LEMMA StepRacesOnly == TypeOK /\ [Next]_vars => RaceOnly
<1> SUFFICES ASSUME TypeOK, [Next]_vars PROVE RaceOnly
  OBVIOUS
<1>1. ASSUME pointer' = pointer \/ pointer' = 0 PROVE RaceOnly
  BY <1>1 DEF RaceOnly, TypeOK
<1>2. ASSUME NEW w \in Workers, Advance(w) PROVE RaceOnly
  BY <1>2 DEF RaceOnly, Advance, Step, TypeOK, Worker
<1>3. ASSUME NEW w \in Workers, WorkerStep(w)
      PROVE  pointer' = pointer \/ pointer' = 0 \/ Advance(w)
  BY <1>3 DEF WorkerStep, Request, NoteChanged, ReadPointer, ReadData, Call,
              Store, ReadForAdvance, Cache
<1>4. CASE Change \/ Invalidate \/ PointerExpires \/ UNCHANGED vars
  BY <1>1, <1>4 DEF Change, Invalidate, PointerExpires, Cache, vars
<1>5. ASSUME NEW r \in Revisions, DataExpires(r) PROVE pointer' = pointer
  BY <1>5 DEF DataExpires
<1> QED BY <1>1, <1>2, <1>3, <1>4, <1>5, NextCases

(* _advance_pointer moves the pointer back only over a write it did not    *)
(* see: the comparison itself never lets an older revision through.        *)
THEOREM DowngradeIsARace == Spec => OnlyARaceDowngrades
<1>1. TypeOK /\ [Next]_vars => [RaceOnly]_vars
  BY StepRacesOnly
<1> QED BY <1>1, CacheTypeCorrect, PTL DEF Spec, OnlyARaceDowngrades, RaceOnly
=============================================================================
