------------------------ MODULE OptimizationRunProofs ------------------------
(***************************************************************************)
(* Proofs about the parameter sweep, for any finite set of combinations,   *)
(* pool and batch, with any number of resumes and mishaps.                 *)
(***************************************************************************)
EXTENDS OptimizationRun, FiniteSetTheorems, WellFoundedInduction, TLAPS

-----------------------------------------------------------------------------
(* Arithmetic: counting in batches. *)

\* Quotient and remainder are unique.
LEMMA RemainderUnique ==
  ASSUME NEW B \in Nat \ {0}, NEW p \in Nat, NEW q \in Nat,
         NEW s \in 0..(B - 1), NEW t \in 0..(B - 1), B * p + s = B * q + t
  PROVE  s = t
  <1>1. CASE p < q
    <2>1. q - p \in Nat /\ q - p >= 1 BY <1>1
    <2>2. B * q = B * p + B * (q - p) BY <2>1
    <2>3. B * (q - p) >= B BY <2>1
    <2> QED BY <2>2, <2>3
  <1>2. CASE q < p
    <2>1. p - q \in Nat /\ p - q >= 1 BY <1>2
    <2>2. B * p = B * q + B * (p - q) BY <2>1
    <2>3. B * (p - q) >= B BY <2>1
    <2> QED BY <2>2, <2>3
  <1> QED BY <1>1, <1>2

LEMMA LeastNumber ==
  ASSUME NEW S, S \subseteq Nat, S # {} PROVE \E c \in S : \A d \in S : c <= d
  <1> DEFINE R == OpToRel(<, Nat)
  <1>1. \E x \in S : \A y \in S : ~ (<<y, x>> \in R)
    BY NatLessThanWellFounded, WFMin
  <1>2. \A x, y \in Nat : y < x => <<y, x>> \in R
    BY DEF OpToRel
  <1> HIDE DEF R
  <1>3. PICK x \in S : \A y \in S : ~ (<<y, x>> \in R)
    BY <1>1
  <1>4. ASSUME NEW y \in S PROVE x <= y
    <2>1. x \in Nat /\ y \in Nat OBVIOUS
    <2>2. ~ (y < x) BY <2>1, <1>2, <1>3
    <2> QED BY <2>1, <2>2
  <1> QED BY <1>4

LEMMA RemainderIs ==
  ASSUME NEW n \in Nat, NEW B \in Nat \ {0}
  PROVE  /\ n \div B \in Nat /\ n % B \in 0..(B - 1)
         /\ n = B * (n \div B) + (n % B)
  OBVIOUS

\* Between two multiples of B the remainder grows with the number.
LEMMA NextRemainder ==
  ASSUME NEW n \in Nat, NEW B \in Nat \ {0}, (n + 1) % B # 0
  PROVE  (n + 1) % B = (n % B) + 1
  <1> DEFINE p == n \div B  r == n % B  q == (n + 1) \div B  s == (n + 1) % B
  <1>1. p \in Nat /\ r \in 0..(B - 1) /\ n = B * p + r
    BY RemainderIs
  <1>2. q \in Nat /\ s \in 0..(B - 1) /\ n + 1 = B * q + s
    <2>1. n + 1 \in Nat OBVIOUS
    <2> QED BY <2>1, RemainderIs
  <1> HIDE DEF p, r, q, s
  <1>3. CASE r + 1 < B
    <2>1. r + 1 \in 0..(B - 1) BY <1>1, <1>3
    <2>2. B * p + (r + 1) = B * q + s BY <1>1, <1>2
    <2>3. r + 1 = s BY <1>1, <1>2, <2>1, <2>2, RemainderUnique
    <2> QED BY <2>3 DEF r, s
  <1>4. CASE r + 1 = B
    <2>1. B * (p + 1) = B * p + B BY <1>1
    <2>2. B * (p + 1) + 0 = B * q + s BY <1>1, <1>2, <1>4, <2>1
    <2>3. p + 1 \in Nat /\ 0 \in 0..(B - 1) BY <1>1
    <2>4. s = 0 BY <1>2, <2>2, <2>3, RemainderUnique
    <2> QED BY <2>4 DEF s
  <1> QED BY <1>1, <1>3, <1>4

-----------------------------------------------------------------------------
(* The inductive invariant *)

Status == {"none", "pending"} \cup Active \cup Ended
Phase == {"none", "queued", "working", "saving"}

JobType == [phase : Phase, resume : BOOLEAN, todo : SUBSET Combos, pending : SUBSET Combos,
            results : [Combos -> Nat], count : Nat, cancel : BOOLEAN]

SweepTyped ==
  /\ row \in [status : Status, completed : Nat, results : [Combos -> Nat]]
  /\ sweepJob \in JobType

\* A job has its row to itself: while there is one, the row says so.
RowTellsJob ==
  /\ row.status = "running" => sweepJob.phase # "none"
  /\ sweepJob.phase # "none" => row.status \in Active

\* What is still to be done has no result yet, and is handed out once.
WorkIsNew ==
  /\ sweepJob.pending \cap sweepJob.todo = {}
  /\ \A c \in sweepJob.pending \cup sweepJob.todo : sweepJob.results[c] = 0

\* No combination is forgotten, unless the job was stopped.
NothingForgotten ==
  /\ sweepJob.phase \in {"working", "saving"} /\ ~sweepJob.cancel =>
       Combos \ Raising \subseteq Has(sweepJob.results) \cup sweepJob.pending \cup sweepJob.todo
  /\ sweepJob.phase = "saving" /\ ~sweepJob.cancel =>
       sweepJob.pending = {} /\ sweepJob.todo = {}

\* Only a job that is saving was stopped.
StopEndsWork == sweepJob.phase # "saving" => ~sweepJob.cancel

\* What is not saved was counted since the last multiple of Batch.
Unsaved == Has(sweepJob.results) \ Has(row.results)
UnsavedIsCounted ==
  sweepJob.phase = "working" => Cardinality(Unsaved) <= sweepJob.count % Batch

SweepInv ==
  /\ SweepTyped /\ RowTellsJob /\ WorkIsNew /\ NothingForgotten /\ UnsavedIsCounted
  /\ StopEndsWork /\ OneResultEach /\ CompletedCoversAll

-----------------------------------------------------------------------------
(* The job *)

LEMMA HasIsFinite ==
  ASSUME NEW bag \in [Combos -> Nat] PROVE Has(bag) \subseteq Combos /\ IsFiniteSet(Has(bag))
  <1>1. Has(bag) \subseteq Combos BY DEF Has
  <1> QED BY <1>1, SweepAssumption, FS_Subset

LEMMA NoneIsEmpty == None \in [Combos -> Nat] /\ Has(None) = {}
  BY DEF None, Has

\* The pool is filled from what is to be done.
LEMMA FirstIsPart == ASSUME NEW S \in SUBSET Combos PROVE First(S) \subseteq S
  BY DEF First

\* The iterator yields something new as long as there is something.
LEMMA NextIsPart ==
  ASSUME NEW S \in SUBSET Combos
  PROVE  NextCombo(S) \subseteq S /\ (NextCombo(S) = {} => S = {})
  <1>1. CASE S = {} BY <1>1 DEF NextCombo
  <1>2. CASE S # {}
    <2>1. \E c \in S : \A d \in S : c <= d BY <1>2, SweepAssumption, LeastNumber
    <2> QED BY <1>2, <2>1 DEF NextCombo
  <1> QED BY <1>1, <1>2

LEMMA InitSweep == SweepInit => SweepInv
  <1> SUFFICES ASSUME SweepInit PROVE SweepInv
    OBVIOUS
  <1> USE NoneIsEmpty DEF SweepInit, NoJob
  <1>1. \A c \in Combos : None[c] = 0 BY DEF None
  <1>2. SweepTyped BY DEF SweepTyped, JobType, Status, Phase
  <1> QED
    BY <1>1, <1>2 DEF SweepInv, RowTellsJob, WorkIsNew, NothingForgotten, UnsavedIsCounted, StopEndsWork,
       OneResultEach, CompletedCoversAll

\* The first steps of a job: the kept results are out of the work.
LEMMA JobStartsKeeps ==
  ASSUME SweepInv, NEW ok \in BOOLEAN, JobStarts(ok) PROVE SweepInv'
  <1> DEFINE kept == IF sweepJob.resume THEN row.results ELSE None
             todo == Todo(Has(kept))
  <1> USE NoneIsEmpty DEF SweepInv, SweepTyped, JobType, RowTellsJob, OneResultEach
  <1>1. kept \in [Combos -> Nat] /\ (\A c \in Combos : kept[c] <= 1)
    BY DEF None
  <1>2. todo \subseteq Combos /\ todo \cap Has(kept) = {} /\ Combos \subseteq todo \cup Has(kept)
    BY DEF Todo
  <1>3. \A c \in todo : kept[c] = 0
    BY <1>1, <1>2 DEF Has
  <1>4. First(todo) \subseteq todo
    BY <1>2, FirstIsPart
  <1>5. Has(kept) \ Has(row.results) = {}
    OBVIOUS
  <1>6. Cardinality(Has(kept)) \in Nat
    BY <1>1, HasIsFinite, FS_CardinalityType
  <1>7. CASE ok
    <2>a. row' = [row EXCEPT !.status = "running",
                             !.completed = IF sweepJob.resume THEN Cardinality(Has(kept)) ELSE @]
      BY <1>7 DEF JobStarts, kept
    <2>b. /\ sweepJob' = [sweepJob EXCEPT
               !.phase = IF todo = {} THEN "saving" ELSE "working", !.pending = First(todo),
               !.todo = todo \ First(todo), !.results = kept, !.count = Cardinality(Has(kept))]
      BY <1>7 DEF JobStarts, kept, todo
    <2> HIDE DEF kept, todo
    <2>1. /\ row' = [row EXCEPT !.status = "running", !.completed = row'.completed]
          /\ row'.completed \in Nat
          /\ sweepJob' = [sweepJob EXCEPT
               !.phase = IF todo = {} THEN "saving" ELSE "working", !.pending = First(todo),
               !.todo = todo \ First(todo), !.results = kept, !.count = Cardinality(Has(kept))]
      BY <1>6, <2>a, <2>b
    <2>2. SweepTyped'
      BY <1>1, <1>2, <1>4, <1>6, <2>1 DEF Status, Phase, Active
    <2>3. RowTellsJob' /\ CompletedCoversAll'
      BY <2>1 DEF CompletedCoversAll, Active
    <2>4. WorkIsNew'
      BY <1>3, <1>4, <2>1 DEF WorkIsNew
    <2>5. NothingForgotten'
      BY <1>2, <1>4, <2>1 DEF NothingForgotten
    <2>6. UnsavedIsCounted'
      <3>1. Unsaved' = {}
        BY <1>5, <2>1 DEF Unsaved
      <3>2. Batch \in Nat \ {0} BY SweepAssumption
      <3>3. (sweepJob.count)' \in Nat /\ (sweepJob.count)' % Batch \in 0..(Batch - 1)
        BY <2>2, <3>2, RemainderIs
      <3> QED BY <3>1, <3>2, <3>3, FS_EmptySet DEF UnsavedIsCounted
    <2>7. OneResultEach'
      BY <1>1, <2>1
    <2>8. StopEndsWork'
      BY <2>1 DEF StopEndsWork, JobStarts
    <2> QED BY <2>2, <2>3, <2>4, <2>5, <2>6, <2>7, <2>8
  <1>8. CASE ~ok
    <2>1. row' = [row EXCEPT !.status = "failed"] /\ sweepJob' = NoJob
      BY <1>8 DEF JobStarts
    <2> QED
      BY <2>1 DEF Status, Phase, Active, Ended, NoJob, WorkIsNew, NothingForgotten, UnsavedIsCounted,
         StopEndsWork, CompletedCoversAll, None
  <1> QED BY <1>7, <1>8

\* A combination ends: its result is new, and what is not saved grows by it at
\* most, as the count does.
LEMMA ComboEndsKeeps ==
  ASSUME SweepInv, NEW c \in Combos, ComboEnds(c) PROVE SweepInv'
  <1> DEFINE results == IF c \in Raising THEN sweepJob.results
                        ELSE [sweepJob.results EXCEPT ![c] = @ + 1]
             next == NextCombo(sweepJob.todo)
             pending == (sweepJob.pending \ {c}) \cup next
             stop == row.status = "cancelling"
             saved == Saved(results, sweepJob.count + 1)
  <1> USE DEF SweepInv, SweepTyped, JobType
  <1>1. /\ sweepJob.phase = "working" /\ c \in sweepJob.pending
        /\ row' = [row EXCEPT !.completed = sweepJob.count + 1, !.results = saved]
        /\ sweepJob' = [sweepJob EXCEPT
             !.results = results, !.count = @ + 1, !.cancel = stop,
             !.pending = IF stop THEN {} ELSE pending, !.todo = @ \ next,
             !.phase = IF stop \/ pending = {} THEN "saving" ELSE @]
    BY DEF ComboEnds
  <1>2. next \subseteq sweepJob.todo /\ (next = {} => sweepJob.todo = {})
    BY NextIsPart
  <1>3. results \in [Combos -> Nat] /\ (\A d \in Combos \ {c} : results[d] = sweepJob.results[d])
    OBVIOUS
  <1>4. sweepJob.results[c] = 0 /\ results[c] <= 1 /\ (c \notin Raising => results[c] = 1)
    BY <1>1 DEF WorkIsNew
  <1>5. saved \in {results, row.results}
    BY DEF Saved
  <1>6. \A d \in Combos : results[d] <= 1
    BY <1>3, <1>4 DEF OneResultEach
  <1>7. /\ Has(sweepJob.results) \subseteq Has(results)
        /\ Has(results) \subseteq Has(sweepJob.results) \cup {c}
        /\ c \notin Raising => c \in Has(results)
    BY <1>3, <1>4 DEF Has
  <1> HIDE DEF results, next, stop, saved
  <1>8. SweepTyped'
    <2>1. row' \in [status : Status, completed : Nat, results : [Combos -> Nat]]
      <3>1. saved \in [Combos -> Nat] BY <1>3, <1>5
      <3>2. sweepJob.count + 1 \in Nat OBVIOUS
      <3>3. row' = [row EXCEPT !.completed = sweepJob.count + 1, !.results = saved] BY <1>1
      <3> QED BY <3>1, <3>2, <3>3
    <2>2. pending \subseteq Combos /\ sweepJob.todo \ next \subseteq Combos /\ stop \in BOOLEAN
      BY <1>1, <1>2 DEF stop
    <2> HIDE DEF pending
    <2>3. sweepJob' \in JobType
      <3> DEFINE phase == IF stop \/ pending = {} THEN "saving" ELSE sweepJob.phase
                 rest == IF stop THEN {} ELSE pending
                 todo == sweepJob.todo \ next
      <3>1. phase \in Phase /\ rest \in SUBSET Combos /\ todo \in SUBSET Combos
            /\ sweepJob.count + 1 \in Nat
        BY <2>2 DEF Phase
      <3>2. sweepJob' = [sweepJob EXCEPT !.results = results, !.count = sweepJob.count + 1,
                           !.cancel = stop, !.pending = rest, !.todo = todo, !.phase = phase]
        BY <1>1
      <3>3. results \in [Combos -> Nat] BY <1>3
      <3> HIDE DEF phase, rest, todo
      <3> QED BY <2>2, <3>1, <3>2, <3>3
    <2> QED BY <2>1, <2>3
  <1>9. RowTellsJob'
    BY <1>1 DEF RowTellsJob
  <1>10. WorkIsNew'
    BY <1>1, <1>2, <1>3 DEF WorkIsNew
  <1>11. NothingForgotten'
    <2>1. sweepJob.phase \in {"working", "saving"}
      BY <1>1
    <2>2. CASE stop BY <1>1, <1>8, <2>2 DEF NothingForgotten
    <2>3. CASE ~stop
      <3>1. sweepJob'.pending = pending /\ sweepJob'.todo = sweepJob.todo \ next
            /\ sweepJob'.results = results
        BY <1>1, <2>3
      <3>2. sweepJob'.phase = "saving" => pending = {}
        BY <1>1, <2>3
      <3>3. pending = {} => next = {} /\ sweepJob.todo = {}
        BY <1>2
      <3>4. CASE sweepJob.cancel
        \* A job that was stopped does not work.
        BY <1>1, <3>4 DEF StopEndsWork
      <3>5. CASE ~sweepJob.cancel
        <4>1. Combos \ Raising \subseteq Has(sweepJob.results) \cup sweepJob.pending \cup sweepJob.todo
          BY <2>1, <3>5 DEF NothingForgotten
        <4>2. Combos \ Raising \subseteq Has(results) \cup pending \cup (sweepJob.todo \ next)
          BY <1>7, <4>1
        <4> QED BY <3>1, <3>2, <3>3, <4>2 DEF NothingForgotten
      <3> QED BY <3>4, <3>5
    <2> QED BY <2>2, <2>3
  <1>12. UnsavedIsCounted'
    <2> SUFFICES ASSUME sweepJob'.phase = "working"
                 PROVE  Cardinality(Unsaved') <= sweepJob'.count % Batch
      BY DEF UnsavedIsCounted
    <2>1. Batch \in Nat \ {0} BY SweepAssumption
    <2>2. sweepJob'.count = sweepJob.count + 1 /\ sweepJob.count \in Nat
      BY <1>1
    <2>3. /\ sweepJob.count % Batch \in 0..(Batch - 1)
          /\ (sweepJob.count + 1) % Batch \in 0..(Batch - 1)
      <3>1. sweepJob.count + 1 \in Nat BY <2>2
      <3> QED BY <2>1, <2>2, <3>1, RemainderIs
    <2>4. Unsaved' = Has(results) \ Has(saved)
      BY <1>1 DEF Unsaved
    <2>5. CASE (sweepJob.count + 1) % Batch = 0
      <3>1. saved = results \/ results = None
        BY <2>5 DEF Saved, saved
      <3>2. Unsaved' = {}
        BY <2>4, <3>1, NoneIsEmpty
      <3> QED BY <2>2, <2>3, <3>2, FS_EmptySet
    <2>6. CASE (sweepJob.count + 1) % Batch # 0
      <3>1. saved = row.results
        BY <2>6 DEF Saved, saved
      <3>2. Unsaved' \subseteq Unsaved \cup {c}
        BY <1>7, <2>4, <3>1 DEF Unsaved
      <3>3. IsFiniteSet(Unsaved)
        BY HasIsFinite, FS_Subset DEF Unsaved
      <3>4. Cardinality(Unsaved) \in Nat /\ IsFiniteSet(Unsaved \cup {c})
            /\ Cardinality(Unsaved \cup {c}) <= Cardinality(Unsaved) + 1
        <4>1. IsFiniteSet(Unsaved \cup {c})
              /\ (Cardinality(Unsaved \cup {c}) = Cardinality(Unsaved)
                  \/ Cardinality(Unsaved \cup {c}) = Cardinality(Unsaved) + 1)
          BY <3>3, FS_AddElement
        <4>2. Cardinality(Unsaved) \in Nat BY <3>3, FS_CardinalityType
        <4> QED BY <4>1, <4>2
      <3>5. Cardinality(Unsaved') <= Cardinality(Unsaved \cup {c})
            /\ Cardinality(Unsaved') \in Nat /\ Cardinality(Unsaved \cup {c}) \in Nat
        BY <3>2, <3>4, FS_Subset, FS_CardinalityType
      <3>6. Cardinality(Unsaved) <= sweepJob.count % Batch
        BY <1>1 DEF UnsavedIsCounted
      <3>7. (sweepJob.count + 1) % Batch = (sweepJob.count % Batch) + 1
        BY <2>1, <2>2, <2>6, NextRemainder
      <3> QED BY <2>2, <2>3, <3>4, <3>5, <3>6, <3>7
    <2> QED BY <2>5, <2>6
  <1>13. OneResultEach'
    BY <1>1, <1>5, <1>6 DEF OneResultEach
  <1>14. CompletedCoversAll'
    BY <1>1 DEF CompletedCoversAll, RowTellsJob, Active
  <1>15. StopEndsWork'
    BY <1>1 DEF StopEndsWork
  <1> QED BY <1>15, <1>8, <1>9, <1>10, <1>11, <1>12, <1>13, <1>14

\* The results of the job are those of the row in the end.
LEMMA JobEndsKeeps ==
  ASSUME SweepInv, JobEnds PROVE SweepInv'
  <1> USE DEF SweepInv, SweepTyped, JobType
  <1>1. /\ sweepJob.phase = "saving"
        /\ row' = [row EXCEPT !.status = EndStatus, !.results = sweepJob.results,
                              !.completed = IF sweepJob.cancel THEN @ ELSE Cardinality(Combos)]
        /\ sweepJob' = NoJob
    BY DEF JobEnds
  <1>2. Cardinality(Combos) \in Nat
    BY SweepAssumption, FS_CardinalityType
  <1>3. EndStatus \in {"cancelled", "completed"} /\ (EndStatus = "completed" => ~sweepJob.cancel)
    BY DEF EndStatus
  <1>4. SweepTyped'
    BY <1>1, <1>2, <1>3, NoneIsEmpty DEF NoJob, Status, Ended, Phase
  <1>5. RowTellsJob' /\ WorkIsNew' /\ NothingForgotten' /\ UnsavedIsCounted' /\ StopEndsWork'
    BY <1>1, <1>3 DEF NoJob, RowTellsJob, WorkIsNew, NothingForgotten, UnsavedIsCounted, StopEndsWork,
       Active, Ended, None
  <1>6. OneResultEach'
    BY <1>1 DEF OneResultEach, NoJob, None
  <1>7. CompletedCoversAll'
    BY <1>1, <1>3 DEF CompletedCoversAll, NothingForgotten
  <1> QED BY <1>4, <1>5, <1>6, <1>7

-----------------------------------------------------------------------------
(* The routes and the restart *)

\* Without a job there is nothing to keep of it.
LEMMA NoJobIsSound ==
  ASSUME SweepInv, NEW s \in Status, s # "running", s = "completed" => row.status = "completed",
         row' = [row EXCEPT !.status = s], sweepJob' = NoJob
  PROVE  SweepInv'
  BY NoneIsEmpty
  DEF SweepInv, SweepTyped, JobType, NoJob, Phase, None, RowTellsJob, WorkIsNew, NothingForgotten,
      UnsavedIsCounted, Unsaved, StopEndsWork, OneResultEach, CompletedCoversAll

\* A job is queued with an empty hand.
EmptyHand(j) ==
  j.phase = "queued" /\ j.todo = {} /\ j.pending = {} /\ j.results = None /\ ~j.cancel

LEMMA QueuedIsSound ==
  ASSUME SweepInv, NEW s \in {"pending", "running"}, row' = [row EXCEPT !.status = s],
         sweepJob' \in JobType, EmptyHand(sweepJob')
  PROVE  SweepInv'
  <1>1. SweepTyped'
    <2>1. row \in [status : Status, completed : Nat, results : [Combos -> Nat]]
      BY DEF SweepInv, SweepTyped, JobType
    <2>2. s \in Status BY DEF Status, Active
    <2>3. row' \in [status : Status, completed : Nat, results : [Combos -> Nat]]
      BY <2>1, <2>2
    <2> QED BY <2>3 DEF JobType, SweepTyped
  <1> USE DEF SweepInv, SweepTyped, JobType, EmptyHand
  <1>2. RowTellsJob' /\ StopEndsWork' /\ CompletedCoversAll'
    BY DEF RowTellsJob, StopEndsWork, CompletedCoversAll, Active
  <1>3. WorkIsNew' /\ NothingForgotten' /\ UnsavedIsCounted'
    BY DEF WorkIsNew, NothingForgotten, UnsavedIsCounted
  <1>4. OneResultEach' BY DEF OneResultEach, None
  <1> QED BY <1>1, <1>2, <1>3, <1>4

\* A stop request changes the status of an active run.
LEMMA StopIsSound ==
  ASSUME SweepInv, CancelTakes, row' = [row EXCEPT !.status = "cancelling"], UNCHANGED sweepJob
  PROVE  SweepInv'
  BY DEF CancelTakes, SweepInv, SweepTyped, JobType, Status, Active, RowTellsJob, WorkIsNew,
         NothingForgotten, UnsavedIsCounted, Unsaved, StopEndsWork, OneResultEach, CompletedCoversAll

LEMMA SameIsSound ==
  ASSUME SweepInv, UNCHANGED <<row, sweepJob>> PROVE SweepInv'
  BY DEF SweepInv, SweepTyped, JobType, RowTellsJob, WorkIsNew, NothingForgotten, UnsavedIsCounted, Unsaved,
         StopEndsWork, OneResultEach, CompletedCoversAll

\* Every step keeps the inductive invariant.
LEMMA SweepStep == SweepInv /\ [SweepNext]_sweepVars => SweepInv'
  <1> SUFFICES ASSUME SweepInv, [SweepNext]_sweepVars PROVE SweepInv'
    OBVIOUS
  <1>1. CASE SubmitRun
    <2>1. sweepJob' = [NoJob EXCEPT !.phase = "queued"] /\ row' = [row EXCEPT !.status = "pending"]
      BY <1>1 DEF SubmitRun
    <2>2. sweepJob' \in JobType /\ EmptyHand(sweepJob')
      BY <2>1, NoneIsEmpty DEF NoJob, JobType, EmptyHand, Phase
    <2> QED BY <2>1, <2>2, QueuedIsSound
  <1>2. CASE JobStep
    BY <1>2, JobStartsKeeps, ComboEndsKeeps, JobEndsKeeps DEF JobStep
  <1>3. CASE BackendRestarts
    <2>1. Recovered(row.status) \in Status /\ Recovered(row.status) # "running"
          /\ (Recovered(row.status) = "completed" => row.status = "completed")
      BY DEF Recovered, Status, Ended, SweepInv, SweepTyped, JobType
    <2> QED BY <1>3, <2>1, NoJobIsSound DEF BackendRestarts
  <1>4. ASSUME NEW b \in BOOLEAN, StopPosted(b) PROVE SweepInv'
    BY <1>4, StopIsSound, SameIsSound DEF StopPosted
  <1>5. ASSUME NEW b \in BOOLEAN, ResumePosted(b) PROVE SweepInv'
    <2>1. CASE ResumeTakes
      <3>1. row' = [row EXCEPT !.status = "running"]
            /\ sweepJob' = [NoJob EXCEPT !.phase = "queued", !.resume = TRUE]
        BY <1>5, <2>1 DEF ResumePosted
      <3>2. sweepJob' \in JobType /\ EmptyHand(sweepJob')
        BY <3>1, NoneIsEmpty DEF NoJob, JobType, EmptyHand, Phase
      <3> QED BY <3>1, <3>2, QueuedIsSound
    <2>2. CASE ~ResumeTakes
      BY <1>5, <2>2, SameIsSound DEF ResumePosted
    <2> QED BY <2>1, <2>2
  <1>6. CASE PageOpens \/ PollAgain \/ ClickStop \/ ClickResume \/ (\E b \in BOOLEAN : ResultsArrive(b))
             \/ (\E g \in gets : GetServed(g) \/ \E b \in BOOLEAN : GetArrives(g, b))
    BY <1>6, SameIsSound DEF PageOpens, PollAgain, ClickStop, ClickResume, ResultsArrive, GetServed, GetArrives
  <1>7. CASE UNCHANGED sweepVars
    BY <1>7, SameIsSound DEF sweepVars
  <1> QED BY <1>1, <1>2, <1>3, <1>4, <1>5, <1>6, <1>7 DEF SweepNext, PageWaits

\* However often a sweep is stopped, interrupted and resumed, it has each
\* result once, a completed one has them all, a crash loses fewer than a batch,
\* and a running one is worked on.
THEOREM SweepKeepsResults == SweepSpec => []SweepIsSound
  <1>1. SweepInv => SweepIsSound
    <2> SUFFICES ASSUME SweepInv PROVE SweepIsSound
      OBVIOUS
    <2>1. Batch \in Nat \ {0} /\ sweepJob.count \in Nat
      BY SweepAssumption DEF SweepInv, SweepTyped, JobType
    <2>2. sweepJob.count % Batch \in 0..(Batch - 1)
      BY <2>1, RemainderIs
    <2>3. Cardinality(Unsaved) \in Nat
      BY HasIsFinite, FS_Subset, FS_CardinalityType DEF Unsaved, SweepInv, SweepTyped, JobType
    <2>4. CrashLosesFew
      BY <2>1, <2>2, <2>3 DEF CrashLosesFew, SweepInv, UnsavedIsCounted, Unsaved
    <2> QED BY <2>4 DEF SweepInv, SweepIsSound, RunningIsWorkedOn, RowTellsJob
  <1> QED BY <1>1, InitSweep, SweepStep, PTL DEF SweepSpec
=============================================================================
