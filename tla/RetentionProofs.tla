--------------------------- MODULE RetentionProofs ---------------------------
(***************************************************************************)
(* Proofs about Retention, for every set of snapshots and hosts, every     *)
(* window and length of a week, and any number of runs: what thinning out  *)
(* leaves of a week, the numbers of a run and of the audit entries, and    *)
(* what a client sees that walks over the pages meanwhile.                 *)
(***************************************************************************)
EXTENDS Retention, CollectionsProofs, SequenceTheorems

Numbers   == [archived : Int, pruned : Int, retained : Int]
RunRecord == [strategy : Strategy \cup {"none"}, cutoff : Int,
              todo : SUBSET (SnapId \cup SUBSET SnapId), prune : SUBSET SnapId,
              counts : Numbers, promise : Numbers]

StoreOK ==
  /\ now \in Nat
  /\ Saved \subseteq SnapId /\ present \subseteq Saved
  /\ \A i \in Saved : born[i].day \in Nat

EligibleIn(S) == {i \in S : Eligible(i, run.cutoff)}

(* A run that archives has kept its promise but for what it has to visit.  *)
ArchivalOK ==
  /\ run.todo \subseteq present /\ run.prune = {}
  /\ run.counts.archived + Cardinality(EligibleIn(run.todo)) = run.promise.archived
  /\ run.counts.pruned = run.promise.pruned /\ run.counts.retained = run.promise.retained

(* What a run that thins out has left are groups of one host and week,     *)
(* with no snapshot in common.                                             *)
GroupsOK ==
  /\ \A g \in run.todo : g # {} /\ g \subseteq present \ run.prune
  /\ \A g \in run.todo : \A i, k \in g : SameWeek(i, k)
  /\ \A g, h \in run.todo : g # h => g \cap h = {}

(* What still has to go from the group in hand has a later one that stays. *)
Outlived(i) == \E k \in present \ run.prune : SameWeek(i, k) /\ born[k].day >= born[i].day
PruneOK == run.prune \subseteq present /\ \A i \in run.prune : Outlived(i)

(* It has kept its promise but for those groups, which keep one each.      *)
ThinningCounts ==
  /\ run.counts.archived = run.promise.archived
  /\ run.counts.retained + Cardinality(run.todo) = run.promise.retained
  /\ run.counts.pruned + Cardinality(run.prune) + Cardinality(UNION run.todo)
       = run.promise.pruned + Cardinality(run.todo)

RunOK ==
  /\ run \in RunRecord
  /\ run.strategy = "archive" => ArchivalOK
  /\ run.strategy # "archive" => GroupsOK /\ PruneOK /\ ThinningCounts

RetentionInv == StoreOK /\ RunOK /\ NoWeekLosesItsLatest

-----------------------------------------------------------------------------
LEMMA FiniteStore ==
  ASSUME StoreOK
  PROVE  IsFiniteSet(SnapId) /\ IsFiniteSet(present)
         /\ \A S \in SUBSET SnapId : IsFiniteSet(S) /\ Cardinality(S) \in Nat
<1>1. IsFiniteSet(SnapId)
  BY SnapshotsAssumption
<1>2. \A S \in SUBSET SnapId : IsFiniteSet(S) /\ Cardinality(S) \in Nat
  BY <1>1, FS_Subset, FS_CardinalityType
<1>3. present \in SUBSET SnapId
  BY DEF StoreOK
<1> QED
  BY <1>1, <1>2, <1>3

LEMMA FiniteRun ==
  ASSUME StoreOK, GroupsOK
  PROVE  /\ IsFiniteSet(run.todo) /\ Cardinality(run.todo) \in Nat
         /\ UNION run.todo \subseteq present
         /\ IsFiniteSet(UNION run.todo) /\ Cardinality(UNION run.todo) \in Nat
<1>1. IsFiniteSet(SUBSET present)
  BY FiniteStore, FS_SUBSET
<1>2. run.todo \in SUBSET SUBSET present
  BY DEF GroupsOK
<1>3. UNION run.todo \in SUBSET present
  BY <1>2
<1> QED
  BY <1>1, <1>2, <1>3, FiniteStore, FS_Subset, FS_CardinalityType

(* Host-weeks are a partition: non-empty, disjoint, and all of the set.    *)
LEMMA HostWeeksPartition ==
  ASSUME NEW S
  PROVE  /\ UNION HostWeeks(S) = S
         /\ \A g \in HostWeeks(S) : g # {} /\ g \subseteq S
         /\ \A g \in HostWeeks(S) : \A i, k \in g : SameWeek(i, k)
         /\ \A g, h \in HostWeeks(S) : g # h => g \cap h = {}
<1>1. \A i \in S : SameWeek(i, i)
  BY DEF SameWeek
<1>2. ASSUME NEW g \in HostWeeks(S)
      PROVE  g # {} /\ g \subseteq S /\ \A i, k \in g : SameWeek(i, k)
  <2>1. PICK j \in S : g = {k \in S : SameWeek(j, k)}
    BY DEF HostWeeks
  <2>2. j \in g
    BY <1>1, <2>1
  <2>3. \A i, k \in g : SameWeek(i, k)
    BY <2>1 DEF SameWeek
  <2> QED
    BY <2>1, <2>2, <2>3
<1>3. \A i \in S : {k \in S : SameWeek(i, k)} \in HostWeeks(S)
  BY DEF HostWeeks
<1>4. UNION HostWeeks(S) = S
  BY <1>1, <1>2, <1>3
<1>5. ASSUME NEW g \in HostWeeks(S), NEW h \in HostWeeks(S), g \cap h # {} PROVE g = h
  <2>1. PICK a \in S, b \in S : /\ g = {k \in S : SameWeek(a, k)}
                                /\ h = {k \in S : SameWeek(b, k)}
    BY DEF HostWeeks
  <2>2. PICK x \in S : SameWeek(a, x) /\ SameWeek(b, x)
    BY <1>5, <2>1
  <2>3. SameWeek(a, b) /\ SameWeek(b, a)
    BY <2>2 DEF SameWeek
  <2>4. \A k \in S : SameWeek(a, k) <=> SameWeek(b, k)
    BY <2>3 DEF SameWeek
  <2> QED
    BY <2>1, <2>4
<1> QED
  BY <1>2, <1>4, <1>5

-----------------------------------------------------------------------------
(* Nothing that was saved changes its host or day, nothing is pruned, and  *)
(* nothing archived: a snapshot is saved, a page read, or a day begins.    *)
BornAsBefore(i) == i \in Saved' /\ born'[i] = born[i]
Quiet ==
  /\ \A i \in Saved : BornAsBefore(i)
  /\ present \subseteq present' /\ archived' = archived /\ run' = run

LEMMA QuietRun ==
  ASSUME StoreOK, RunOK, Quiet
  PROVE  RunOK'
<1>1. \A i \in Saved : BornAsBefore(i)
  BY DEF Quiet
<1>2. \A i, k \in Saved : SameWeek(i, k)' <=> SameWeek(i, k)
  BY <1>1 DEF SameWeek, Week, BornAsBefore
<1>3. present \subseteq Saved /\ present \subseteq present' /\ archived' = archived /\ run' = run
  BY DEF StoreOK, Quiet
<1>4. run' \in RunRecord
  BY <1>3 DEF RunOK
<1>5. CASE run.strategy = "archive"
  <2>1. ArchivalOK
    BY <1>5 DEF RunOK
  <2>3. run.todo \subseteq Saved
    BY <1>3, <2>1 DEF ArchivalOK
  <2>5. EligibleIn(run.todo)' = EligibleIn(run.todo)
    BY <1>1, <1>3, <2>3 DEF EligibleIn, Eligible, BornAsBefore
  <2>6. ArchivalOK'
    BY <1>3, <2>1, <2>5 DEF ArchivalOK
  <2> QED
    BY <1>3, <1>4, <1>5, <2>6 DEF RunOK
<1>6. CASE run.strategy # "archive"
  <2>1. GroupsOK /\ PruneOK /\ ThinningCounts
    BY <1>6 DEF RunOK
  <2>2. GroupsOK'
    <3>1. \A g \in run.todo : g # {} /\ g \subseteq present' \ run'.prune /\ g \subseteq Saved
      BY <1>3, <2>1 DEF GroupsOK
    <3>2. \A g \in run.todo : \A i, k \in g : SameWeek(i, k)'
      BY <1>2, <2>1, <3>1 DEF GroupsOK
    <3>3. \A g, h \in run.todo : g # h => g \cap h = {}
      BY <2>1 DEF GroupsOK
    <3> QED
      BY <1>3, <3>1, <3>2, <3>3 DEF GroupsOK
  <2>3. PruneOK'
    <3>1. ASSUME NEW i \in run.prune PROVE Outlived(i)'
      <4>1. PICK k \in present \ run.prune : SameWeek(i, k) /\ born[k].day >= born[i].day
        BY <2>1 DEF PruneOK, Outlived
      <4>2. i \in Saved /\ k \in Saved
        BY <1>3, <2>1, <4>1 DEF PruneOK
      <4>3. SameWeek(i, k)' /\ born'[k].day >= born'[i].day /\ k \in present' \ run'.prune
        BY <1>1, <1>2, <1>3, <4>1, <4>2 DEF BornAsBefore
      <4> QED
        BY <4>3 DEF Outlived
    <3> QED
      BY <1>3, <2>1, <3>1 DEF PruneOK
  <2>4. ThinningCounts'
    BY <1>3, <2>1 DEF ThinningCounts
  <2> QED
    BY <1>3, <1>4, <1>6, <2>2, <2>3, <2>4 DEF RunOK
<1> QED
  BY <1>5, <1>6

(* What was as late as a snapshot of its week still is.                    *)
LEMMA QuietWeeks ==
  ASSUME StoreOK, Quiet, NoWeekLosesItsLatest, NEW i \in Saved
  PROVE  \E k \in present' : SameWeek(i, k)' /\ born'[k].day >= born'[i].day
<1>1. PICK k \in present : SameWeek(i, k) /\ born[k].day >= born[i].day
  BY DEF NoWeekLosesItsLatest
<1>2. BornAsBefore(i) /\ BornAsBefore(k) /\ k \in present'
  BY <1>1 DEF Quiet, StoreOK
<1> QED
  BY <1>1, <1>2 DEF BornAsBefore, SameWeek, Week

(* The part of the repository that goes on while a run works.              *)
LEMMA SnapStep ==
  ASSUME RetentionInv, SnapNext, run' = run
  PROVE  RetentionInv'
<1>0. StoreOK /\ RunOK /\ NoWeekLosesItsLatest
  BY DEF RetentionInv
<1>1. ASSUME NEW i \in SnapId, NEW h \in Host, NEW day \in 0..LastDay, SaveSnapshot(i, h, day)
      PROVE  RetentionInv'
  <2>1. /\ i \notin Saved /\ day \in Nat /\ archived' = archived /\ now' = now
        /\ present' = present \cup {i}
        /\ born' = [k \in Saved \cup {i} |-> IF k = i THEN [host |-> h, day |-> day] ELSE born[k]]
    BY <1>1 DEF SaveSnapshot
  <2>2. /\ Saved' = Saved \cup {i} /\ born'[i] = [host |-> h, day |-> day]
        /\ \A k \in Saved : born'[k] = born[k]
    BY <2>1 DEF Saved
  <2>3. Quiet
    BY <2>1, <2>2 DEF Quiet, BornAsBefore
  <2>4. StoreOK'
    BY <1>0, <2>1, <2>2 DEF StoreOK
  <2>5. \A k \in Saved : \E l \in present' : SameWeek(k, l)' /\ born'[l].day >= born'[k].day
    BY <1>0, <2>3, QuietWeeks
  <2>6. i \in present' /\ SameWeek(i, i)' /\ born'[i].day >= born'[i].day
    BY <2>1, <2>2 DEF SameWeek
  <2>7. NoWeekLosesItsLatest'
    BY <2>2, <2>5, <2>6 DEF NoWeekLosesItsLatest
  <2> QED
    BY <1>0, <2>3, <2>4, <2>7, QuietRun DEF RetentionInv
<1>2. ASSUME UNCHANGED storeVars, now' \in Nat PROVE RetentionInv'
  <2>1. Quiet /\ Saved' = Saved
    BY <1>2 DEF Quiet, storeVars, Saved, BornAsBefore
  <2>2. StoreOK'
    BY <1>0, <1>2 DEF StoreOK, storeVars, Saved
  <2>3. NoWeekLosesItsLatest'
    BY <1>0, <2>1, QuietWeeks DEF NoWeekLosesItsLatest
  <2> QED
    BY <1>0, <2>1, <2>2, <2>3, QuietRun DEF RetentionInv
<1>3. CASE NextDay
  BY <1>0, <1>2, <1>3 DEF NextDay, StoreOK
<1>4. CASE \E limit \in PageLimit : WalkStarts(limit) \/ WalkContinues(limit)
  BY <1>0, <1>2, <1>4 DEF WalkStarts, WalkContinues, StoreOK
<1> QED
  BY <1>1, <1>3, <1>4 DEF SnapNext

-----------------------------------------------------------------------------
LEMMA StoreSame ==
  ASSUME StoreOK, UNCHANGED <<now, born, present>> PROVE StoreOK' /\ Saved' = Saved
BY DEF StoreOK, Saved

LEMMA WeeksSame ==
  ASSUME NoWeekLosesItsLatest, UNCHANGED <<born, present>> PROVE NoWeekLosesItsLatest'
BY DEF NoWeekLosesItsLatest, Saved, SameWeek, Week

(* No run has nothing to do.                                               *)
LEMMA NoRunOK ==
  ASSUME run = NoRun PROVE RunOK
<1>1. /\ run.strategy = "none" /\ run.todo = {} /\ run.prune = {} /\ UNION run.todo = {}
      /\ run.counts = Zero /\ run.promise = Zero
  BY DEF NoRun
<1>2. run \in RunRecord
  BY DEF NoRun, RunRecord, Zero, Numbers
<1>3. Cardinality({}) = 0
  BY FS_EmptySet
<1>4. ThinningCounts
  BY <1>1, <1>3 DEF ThinningCounts, Zero
<1>5. GroupsOK /\ PruneOK
  BY <1>1 DEF GroupsOK, PruneOK
<1> QED
  BY <1>1, <1>2, <1>4, <1>5 DEF RunOK

(* A run starts with all of its promise to keep.                           *)
LEMMA StartStep ==
  ASSUME StoreOK, NEW strategy \in Strategy, NEW days \in RetentionDays,
         ExecuteStarts(strategy, days)
  PROVE  RunOK'
<1>1. PICK cutoff \in Int, S \in SUBSET present :
        /\ cutoff = now - days
        /\ S = {i \in present : Eligible(i, cutoff)}
  <2>1. now \in Int /\ days \in Int
    BY RetentionAssumption DEF StoreOK
  <2>2. now - days \in Int
    BY <2>1
  <2> QED
    BY <2>2
<1>2. UNCHANGED <<now, born, present, archived>>
  BY DEF ExecuteStarts, storeVars
<1>3. S = {i \in present : DryRunEligible(i, cutoff)}
  BY <1>1 DEF Eligible, DryRunEligible
<1>4. S \subseteq present /\ S \in SUBSET SnapId /\ Cardinality(S) \in Nat
      /\ present \in SUBSET SnapId
  <2>1. S \subseteq present /\ present \subseteq SnapId
    BY <1>1 DEF StoreOK
  <2> QED
    BY <2>1, FiniteStore
<1>5. HostWeeks(S) \in SUBSET SUBSET S /\ Cardinality(HostWeeks(S)) \in Nat
  <2>1. HostWeeks(S) \in SUBSET SUBSET S
    BY HostWeeksPartition
  <2>2. IsFiniteSet(SUBSET S)
    BY <1>4, FiniteStore, FS_SUBSET
  <2> QED
    BY <2>1, <2>2, FS_Subset, FS_CardinalityType
<1>6. /\ run'.strategy = strategy /\ run'.cutoff = cutoff /\ run'.prune = {}
      /\ run'.counts = Zero
      /\ run' = [NoRun EXCEPT !.strategy = strategy, !.cutoff = cutoff,
                   !.todo = run'.todo, !.promise = run'.promise]
      /\ strategy = "archive" => /\ run'.todo = present
                                 /\ run'.promise = [Zero EXCEPT !.archived = Cardinality(S)]
      /\ strategy # "archive" =>
           /\ run'.todo = HostWeeks(S)
           /\ run'.promise = [Zero EXCEPT !.pruned = Cardinality(S) - Cardinality(HostWeeks(S)),
                                          !.retained = Cardinality(HostWeeks(S))]
  BY <1>1, <1>3 DEF ExecuteStarts, DryRun, NoRun
<1>7. run' \in RunRecord
  <2>1. run'.todo \in SUBSET (SnapId \cup SUBSET SnapId)
    BY <1>4, <1>5, <1>6
  <2>2. Zero \in Numbers
    BY DEF Zero, Numbers
  <2>3. run'.promise \in Numbers
    <3>1. Cardinality(S) \in Int /\ Cardinality(HostWeeks(S)) \in Int
          /\ Cardinality(S) - Cardinality(HostWeeks(S)) \in Int
      BY <1>4, <1>5
    <3>2. ASSUME NEW n \in Int PROVE [Zero EXCEPT !.archived = n] \in Numbers
      BY DEF Zero, Numbers
    <3>3. ASSUME NEW n \in Int, NEW m \in Int
          PROVE  [Zero EXCEPT !.pruned = n, !.retained = m] \in Numbers
      <4>1. PICK z : z = [Zero EXCEPT !.pruned = n]
        OBVIOUS
      <4>2. z \in Numbers
        BY <4>1 DEF Zero, Numbers
      <4>3. [z EXCEPT !.retained = m] \in Numbers
        BY <4>2 DEF Numbers
      <4> QED
        BY <4>1, <4>3
    <3>4. CASE strategy = "archive"
      BY <1>6, <3>1, <3>2, <3>4
    <3>5. CASE strategy # "archive"
      <4>1. PICK n \in Int, m \in Int :
              /\ m = Cardinality(HostWeeks(S))
              /\ n = Cardinality(S) - Cardinality(HostWeeks(S))
        BY <3>1
      <4>2. run'.promise = [Zero EXCEPT !.pruned = n, !.retained = m]
        BY <1>6, <3>5, <4>1
      <4>3. [Zero EXCEPT !.pruned = n, !.retained = m] \in Numbers
        BY <3>3
      <4> QED
        BY <4>2, <4>3
    <3> QED
      BY <3>4, <3>5
  <2> QED
    BY <1>6, <2>1, <2>2, <2>3 DEF NoRun, RunRecord
<1>8. CASE strategy = "archive"
  <2>1. EligibleIn(run.todo)' = S
    BY <1>1, <1>2, <1>6, <1>8 DEF EligibleIn, Eligible
  <2>2. ArchivalOK'
    BY <1>2, <1>4, <1>6, <1>8, <2>1 DEF ArchivalOK, Zero
  <2> QED
    BY <1>6, <1>7, <1>8, <2>2 DEF RunOK
<1>9. CASE strategy # "archive"
  <2>1. GroupsOK' /\ PruneOK'
    <3>1. \A g \in HostWeeks(S) : g # {} /\ g \subseteq present
      BY <1>4, HostWeeksPartition
    <3>2. \A g \in HostWeeks(S) : \A i, k \in g : SameWeek(i, k)'
      BY <1>2, HostWeeksPartition DEF SameWeek, Week
    <3>3. \A g, h \in HostWeeks(S) : g # h => g \cap h = {}
      BY HostWeeksPartition
    <3> QED
      BY <1>2, <1>6, <1>9, <3>1, <3>2, <3>3 DEF GroupsOK, PruneOK
  <2>2. UNION run'.todo = S /\ Cardinality({}) = 0
    BY <1>6, <1>9, HostWeeksPartition, FS_EmptySet
  <2>3. ThinningCounts'
    <3>1. PICK n \in Nat, m \in Nat : n = Cardinality(S) /\ m = Cardinality(HostWeeks(S))
      BY <1>4, <1>5
    <3>2. /\ Cardinality(run'.todo) = m /\ Cardinality(UNION run'.todo) = n
          /\ Cardinality(run'.prune) = 0
      BY <1>6, <1>9, <2>2, <3>1
    <3>3. /\ run'.promise.archived = 0 /\ run'.promise.pruned = n - m
          /\ run'.promise.retained = m
      BY <1>6, <1>9, <3>1 DEF Zero
    <3>4. run'.counts.archived = 0 /\ run'.counts.pruned = 0 /\ run'.counts.retained = 0
      BY <1>6 DEF Zero
    <3> QED
      BY <3>1, <3>2, <3>3, <3>4 DEF ThinningCounts
  <2> QED
    BY <1>6, <1>7, <1>9, <2>1, <2>3 DEF RunOK
<1> QED
  BY <1>8, <1>9

(* A visit to a snapshot keeps its part of the promise.                    *)
LEMMA ArchiveStep ==
  ASSUME StoreOK, RunOK, NEW i \in present, NEW written \in Written, ArchiveNext(i, written)
  PROVE  RunOK'
<1>1. /\ run.strategy = "archive" /\ i \in run.todo /\ run \in RunRecord /\ ArchivalOK
      /\ UNCHANGED <<now, born, present>>
  BY DEF ArchiveNext, RunOK
<1>2. /\ run.todo \subseteq present /\ present \subseteq SnapId
      /\ run.counts \in Numbers /\ run.promise \in Numbers
  BY <1>1 DEF ArchivalOK, StoreOK, RunRecord
<1>0. PICK E : E = EligibleIn(run.todo)
  OBVIOUS
<1>3. IsFiniteSet(E) /\ Cardinality(E) \in Nat
  <2>1. E \in SUBSET SnapId
    BY <1>0, <1>2 DEF EligibleIn
  <2> QED
    BY <2>1, FiniteStore
<1>4. run.counts.archived + Cardinality(E) = run.promise.archived
  BY <1>0, <1>1 DEF ArchivalOK
<1>5. CASE Eligible(i, run.cutoff)
  <2>1. /\ run' = [run EXCEPT !.todo = @ \ {i}, !.counts.archived = @ + 1]
        /\ archived' = archived \cup {i}
    BY <1>5 DEF ArchiveNext
  <2>2. /\ run' \in RunRecord /\ run'.strategy = "archive" /\ run'.todo = run.todo \ {i}
        /\ run'.prune = run.prune /\ run'.cutoff = run.cutoff /\ run'.promise = run.promise
        /\ run'.counts.archived = run.counts.archived + 1
        /\ run'.counts.pruned = run.counts.pruned /\ run'.counts.retained = run.counts.retained
    <3>1. run.counts.archived + 1 \in Int
      BY <1>2 DEF Numbers
    <3>2. [run.counts EXCEPT !.archived = @ + 1] \in Numbers
      BY <1>2, <3>1 DEF Numbers
    <3>3. /\ run'.counts = [run.counts EXCEPT !.archived = @ + 1]
          /\ run'.strategy = "archive" /\ run'.todo = run.todo \ {i}
          /\ run'.prune = run.prune /\ run'.cutoff = run.cutoff /\ run'.promise = run.promise
      BY <1>1, <2>1 DEF RunRecord
    <3>4. run' \in RunRecord
      BY <1>1, <2>1, <3>2 DEF RunRecord
    <3> QED
      BY <1>2, <3>3, <3>4 DEF Numbers
  <2>3. EligibleIn(run.todo)' = E \ {i} /\ i \in E
    BY <1>0, <1>1, <1>5, <2>1, <2>2 DEF EligibleIn, Eligible
  <2>4. Cardinality(E \ {i}) = Cardinality(E) - 1
    BY <1>3, <2>3, FS_RemoveElement
  <2>5. ArchivalOK'
    <3>1. run.counts.archived \in Int
      BY <1>2 DEF Numbers
    <3>2. (run.counts.archived + 1) + Cardinality(E \ {i}) = run.promise.archived
      BY <1>3, <1>4, <2>4, <3>1
    <3> QED
      BY <1>1, <2>2, <2>3, <3>2 DEF ArchivalOK
  <2> QED
    BY <2>2, <2>5 DEF RunOK
<1>6. CASE ~Eligible(i, run.cutoff)
  <2>1. run' = [run EXCEPT !.todo = @ \ {i}] /\ archived' = archived
    BY <1>6 DEF ArchiveNext
  <2>2. /\ run' \in RunRecord /\ run'.strategy = "archive" /\ run'.todo = run.todo \ {i}
        /\ run'.prune = run.prune /\ run'.cutoff = run.cutoff /\ run'.promise = run.promise
        /\ run'.counts = run.counts
    BY <1>1, <2>1 DEF RunRecord, Numbers
  <2>3. EligibleIn(run.todo)' = E
    BY <1>0, <1>1, <1>6, <2>1, <2>2 DEF EligibleIn, Eligible
  <2>4. ArchivalOK'
    BY <1>0, <1>1, <2>2, <2>3 DEF ArchivalOK
  <2> QED
    BY <2>2, <2>4 DEF RunOK
<1> QED
  BY <1>5, <1>6

(* A week keeps its latest snapshot, and the others of it are on their way *)
(* out: each has one that stays and is as late.                            *)
LEMMA KeepStep ==
  ASSUME StoreOK, RunOK, NEW g \in run.todo, NEW i \in g, KeepLatest(g, i)
  PROVE  RunOK'
<1>1. /\ run.strategy = "downsample" /\ run.prune = {} /\ run \in RunRecord
      /\ GroupsOK /\ ThinningCounts /\ UNCHANGED <<now, born, present>>
      /\ i \in g /\ \A k \in g : born[k].day <= born[i].day
      /\ run' = [run EXCEPT !.todo = @ \ {g}, !.prune = g \ {i}, !.counts.retained = @ + 1]
  BY DEF KeepLatest, LatestOf, RunOK
<1>2. /\ g \subseteq present /\ present \subseteq SnapId /\ \A k, l \in g : SameWeek(k, l)
      /\ run.counts \in Numbers /\ run.promise \in Numbers
  BY <1>1 DEF GroupsOK, StoreOK, RunRecord
<1>3. /\ run' \in RunRecord /\ run'.strategy = "downsample"
      /\ run'.todo = run.todo \ {g} /\ run'.prune = g \ {i} /\ run'.promise = run.promise
      /\ run'.counts.archived = run.counts.archived /\ run'.counts.pruned = run.counts.pruned
      /\ run'.counts.retained = run.counts.retained + 1
  <2>1. run.counts.retained + 1 \in Int
    BY <1>2 DEF Numbers
  <2>2. [run.counts EXCEPT !.retained = @ + 1] \in Numbers /\ g \ {i} \in SUBSET SnapId
    BY <1>2, <2>1 DEF Numbers
  <2>3. /\ run'.counts = [run.counts EXCEPT !.retained = @ + 1]
        /\ run'.strategy = "downsample" /\ run'.todo = run.todo \ {g}
        /\ run'.prune = g \ {i} /\ run'.promise = run.promise
    BY <1>1 DEF RunRecord
  <2>4. run' \in RunRecord
    BY <1>1, <2>2 DEF RunRecord
  <2> QED
    BY <1>2, <2>3, <2>4 DEF Numbers
<1>4. \A h \in run.todo : h # g => h \cap g = {} /\ h # {} /\ h \subseteq present
  BY <1>1 DEF GroupsOK
<1>5. GroupsOK'
  <2>1. \A h \in run.todo \ {g} : h # {} /\ h \subseteq present \ (g \ {i})
    BY <1>4
  <2>2. \A h \in run.todo \ {g} : \A k, l \in h : SameWeek(k, l)'
    BY <1>1 DEF GroupsOK, SameWeek, Week
  <2>3. \A h, f \in run.todo \ {g} : h # f => h \cap f = {}
    BY <1>1 DEF GroupsOK
  <2> QED
    BY <1>1, <1>3, <2>1, <2>2, <2>3 DEF GroupsOK
<1>6. PruneOK'
  <2>1. \A k \in g \ {i} : Outlived(k)'
    BY <1>1, <1>2, <1>3 DEF Outlived, SameWeek, Week
  <2> QED
    BY <1>1, <1>2, <1>3, <2>1 DEF PruneOK
<1>7. ThinningCounts'
  <2> DEFINE rest == run.todo \ {g}
  <2>1. /\ UNION run.todo = g \cup UNION rest /\ g \cap UNION rest = {}
    BY <1>4
  <2>2. /\ IsFiniteSet(g) /\ IsFiniteSet(UNION rest)
        /\ Cardinality(g) \in Nat /\ Cardinality(UNION rest) \in Nat
    <3>1. g \in SUBSET SnapId /\ UNION rest \in SUBSET SnapId
      BY <1>2, <1>4
    <3> QED
      BY <3>1, FiniteStore
  <2>3. Cardinality({}) = 0
    BY FS_EmptySet
  <2>4. Cardinality(UNION run.todo) = Cardinality(g) + Cardinality(UNION rest)
    <3> HIDE DEF rest
    <3>1. PICK u : u = UNION rest
      OBVIOUS
    <3>2. Cardinality(g \cup u) = Cardinality(g) + Cardinality(u) - Cardinality(g \cap u)
      BY <2>2, <3>1, FS_Union
    <3>3. Cardinality(g \cup u) = Cardinality(g) + Cardinality(u) - 0
      BY <2>1, <2>3, <3>1, <3>2
    <3>4. Cardinality(g \cup u) = Cardinality(g) + Cardinality(u)
      BY <2>2, <3>1, <3>3
    <3>5. UNION run.todo = g \cup u
      BY <2>1, <3>1
    <3> QED
      BY <3>1, <3>4, <3>5, Zenon
  <2>5. /\ Cardinality(run.todo) \in Nat /\ Cardinality(rest) = Cardinality(run.todo) - 1
    BY <1>1, FiniteRun, FS_RemoveElement
  <2>6. Cardinality(g \ {i}) = Cardinality(g) - 1
    BY <1>1, <2>2, FS_RemoveElement
  <2>7. /\ run.counts.retained \in Int /\ run.counts.pruned \in Int
        /\ run.promise.retained \in Int /\ run.promise.pruned \in Int
    BY <1>2 DEF Numbers
  <2>8. /\ run.counts.archived = run.promise.archived
        /\ run.counts.retained + Cardinality(run.todo) = run.promise.retained
        /\ run.counts.pruned + 0 + Cardinality(UNION run.todo)
             = run.promise.pruned + Cardinality(run.todo)
    BY <1>1, <2>3 DEF ThinningCounts
  <2>9. (run.counts.retained + 1) + Cardinality(rest) = run.promise.retained
    BY <2>5, <2>7, <2>8
  <2>10. run.counts.pruned + Cardinality(g \ {i}) + Cardinality(UNION rest)
           = run.promise.pruned + Cardinality(rest)
    <3>1. PICK a, b, c, d : /\ a = Cardinality(g) /\ b = Cardinality(UNION rest)
                            /\ c = Cardinality(run.todo) /\ d = Cardinality(UNION run.todo)
      OBVIOUS
    <3>2. a \in Nat /\ b \in Nat /\ c \in Nat /\ d = a + b
      BY <2>2, <2>4, <2>5, <3>1
    <3>3. Cardinality(rest) = c - 1 /\ Cardinality(g \ {i}) = a - 1
      BY <2>5, <2>6, <3>1
    <3>4. run.counts.pruned + 0 + d = run.promise.pruned + c
      BY <2>8, <3>1
    <3>5. run.counts.pruned + (a - 1) + b = run.promise.pruned + (c - 1)
      BY <2>7, <3>2, <3>4
    <3> QED
      BY <3>1, <3>3, <3>5
  <2> QED
    BY <1>3, <2>8, <2>9, <2>10 DEF ThinningCounts
<1> QED
  BY <1>3, <1>5, <1>6, <1>7 DEF RunOK

(* What is pruned is in no group still to do, and has one that outlives it.*)
LEMMA PruneStep ==
  ASSUME StoreOK, RunOK, NoWeekLosesItsLatest, NEW i \in run.prune, PruneNext(i)
  PROVE  StoreOK' /\ RunOK' /\ NoWeekLosesItsLatest'
<1>1. /\ run \in RunRecord /\ present' = present \ {i} /\ UNCHANGED <<now, born, archived>>
      /\ run' = [run EXCEPT !.prune = @ \ {i}, !.counts.pruned = @ + 1]
  BY DEF PruneNext, RunOK
<1>2. run.strategy # "archive" /\ GroupsOK /\ PruneOK /\ ThinningCounts
  BY DEF RunOK, ArchivalOK
<1>3. run.counts \in Numbers /\ run.promise \in Numbers /\ run.prune \in SUBSET SnapId
  BY <1>1 DEF RunRecord
<1>4. /\ run' \in RunRecord /\ run'.strategy = run.strategy
      /\ run'.todo = run.todo /\ run'.prune = run.prune \ {i} /\ run'.promise = run.promise
      /\ run'.counts.archived = run.counts.archived
      /\ run'.counts.retained = run.counts.retained
      /\ run'.counts.pruned = run.counts.pruned + 1
  <2>1. run.counts.pruned + 1 \in Int
    BY <1>3 DEF Numbers
  <2>2. [run.counts EXCEPT !.pruned = @ + 1] \in Numbers
    BY <1>3, <2>1 DEF Numbers
  <2>3. /\ run'.counts = [run.counts EXCEPT !.pruned = @ + 1]
        /\ run'.strategy = run.strategy /\ run'.todo = run.todo
        /\ run'.prune = run.prune \ {i} /\ run'.promise = run.promise
    BY <1>1 DEF RunRecord
  <2>4. run' \in RunRecord
    BY <1>1, <1>3, <2>2 DEF RunRecord
  <2> QED
    BY <1>3, <2>3, <2>4 DEF Numbers
<1>5. StoreOK' /\ Saved' = Saved
  BY <1>1 DEF StoreOK, Saved
<1>6. GroupsOK'
  <2>1. \A g \in run.todo : g # {} /\ g \subseteq (present \ {i}) \ (run.prune \ {i})
    BY <1>2 DEF GroupsOK
  <2>2. \A g \in run.todo : \A k, l \in g : SameWeek(k, l)'
    BY <1>1, <1>2 DEF GroupsOK, SameWeek, Week
  <2> QED
    BY <1>1, <1>2, <1>4, <2>1, <2>2 DEF GroupsOK
<1>7. PruneOK'
  <2>1. ASSUME NEW k \in run.prune \ {i} PROVE Outlived(k)'
    <3>1. PICK l \in present \ run.prune : SameWeek(k, l) /\ born[l].day >= born[k].day
      BY <1>2 DEF PruneOK, Outlived
    <3>2. l \in present' \ (run.prune \ {i}) /\ SameWeek(k, l)'
      BY <1>1, <3>1 DEF SameWeek, Week
    <3> QED
      BY <1>1, <1>4, <3>1, <3>2 DEF Outlived
  <2> QED
    BY <1>1, <1>2, <1>4, <2>1 DEF PruneOK
<1>8. ThinningCounts'
  <2>1. /\ IsFiniteSet(run.prune) /\ Cardinality(run.prune) \in Nat
        /\ Cardinality(run.todo) \in Nat /\ Cardinality(UNION run.todo) \in Nat
    BY <1>2, <1>3, FiniteStore, FiniteRun
  <2>2. Cardinality(run.prune \ {i}) = Cardinality(run.prune) - 1
    BY <2>1, FS_RemoveElement
  <2>3. run.counts.pruned \in Int /\ run.promise.pruned \in Int
    BY <1>3 DEF Numbers
  <2>4. run.counts.pruned + Cardinality(run.prune) + Cardinality(UNION run.todo)
          = run.promise.pruned + Cardinality(run.todo)
    BY <1>2 DEF ThinningCounts
  <2>5. (run.counts.pruned + 1) + Cardinality(run.prune \ {i}) + Cardinality(UNION run.todo)
          = run.promise.pruned + Cardinality(run.todo)
    BY <2>1, <2>2, <2>3, <2>4
  <2> QED
    BY <1>2, <1>4, <2>5 DEF ThinningCounts
<1>9. NoWeekLosesItsLatest'
  <2>1. PICK k \in present \ run.prune : SameWeek(i, k) /\ born[k].day >= born[i].day
    BY <1>2 DEF PruneOK, Outlived
  <2>2. k \in present' /\ k \in Saved /\ i \in Saved /\ \A l \in Saved : born[l].day \in Nat
    BY <1>1, <1>2, <2>1 DEF PruneOK, StoreOK
  <2>3. ASSUME NEW j \in Saved PROVE \E l \in present' : SameWeek(j, l) /\ born[l].day >= born[j].day
    <3>1. PICK l \in present : SameWeek(j, l) /\ born[l].day >= born[j].day
      BY DEF NoWeekLosesItsLatest
    <3>2. CASE l # i
      BY <1>1, <3>1, <3>2
    <3>3. CASE l = i
      <4>1. SameWeek(j, k)
        BY <2>1, <3>1, <3>3 DEF SameWeek
      <4>2. born[k].day >= born[j].day
        BY <2>1, <2>2, <3>1, <3>3
      <4> QED
        BY <2>2, <4>1, <4>2
    <3> QED
      BY <3>2, <3>3
  <2> QED
    BY <1>1, <1>5, <2>3 DEF NoWeekLosesItsLatest, SameWeek, Week
<1> QED
  BY <1>2, <1>4, <1>5, <1>6, <1>7, <1>8, <1>9 DEF RunOK

LEMMA NextRetention == RetentionInv /\ [Next]_vars => RetentionInv'
<1> SUFFICES ASSUME RetentionInv, [Next]_vars PROVE RetentionInv'
  OBVIOUS
<1>0. StoreOK /\ RunOK /\ NoWeekLosesItsLatest
  BY DEF RetentionInv
<1>1. ASSUME NEW strategy \in Strategy, NEW days \in RetentionDays,
             ExecuteStarts(strategy, days)
      PROVE  RetentionInv'
  BY <1>0, <1>1, StartStep, StoreSame, WeeksSame DEF ExecuteStarts, storeVars, RetentionInv
<1>2. ASSUME NEW i \in present, NEW written \in Written, ArchiveNext(i, written)
      PROVE  RetentionInv'
  BY <1>0, <1>2, ArchiveStep, StoreSame, WeeksSame DEF ArchiveNext, RetentionInv
<1>3. CASE ArchiveAborts \/ ExecuteEnds
  <2>1. run' = NoRun /\ UNCHANGED <<now, born, present>>
    BY <1>3 DEF ArchiveAborts, ExecuteEnds, storeVars
  <2>2. RunOK'
    <3>1. (run = NoRun)' => RunOK'
      BY NoRunOK, PTL
    <3> QED
      BY <2>1, <3>1 DEF NoRun, Zero
  <2> QED
    BY <1>0, <2>1, <2>2, StoreSame, WeeksSame DEF RetentionInv
<1>4. ASSUME NEW g \in run.todo, NEW i \in g, KeepLatest(g, i) PROVE RetentionInv'
  BY <1>0, <1>4, KeepStep, StoreSame, WeeksSame DEF KeepLatest, RetentionInv
<1>5. ASSUME NEW i \in run.prune, PruneNext(i) PROVE RetentionInv'
  BY <1>0, <1>5, PruneStep DEF RetentionInv
<1>6. CASE SnapNext /\ UNCHANGED <<files, run, audit, runs, aborted>>
  BY <1>6, SnapStep
<1>7. CASE UNCHANGED vars
  <2>1. Quiet /\ UNCHANGED <<now, born, present>>
    BY <1>7 DEF vars, storeVars, Quiet, BornAsBefore, Saved
  <2> QED
    BY <1>0, <2>1, QuietRun, StoreSame, WeeksSame DEF RetentionInv
<1> QED
  BY <1>1, <1>2, <1>3, <1>4, <1>5, <1>6, <1>7 DEF Next, RunNext

LEMMA InitRetention == Init => RetentionInv
<1> SUFFICES ASSUME Init PROVE RetentionInv
  OBVIOUS
<1>1. Saved = {} /\ present = {} /\ now = 0 /\ run = NoRun
  <2>1. born = <<>> /\ DOMAIN <<>> = {}
    BY DEF Init, SnapInit
  <2> QED
    BY <2>1 DEF Init, SnapInit, Saved
<1> QED
  BY <1>1, NoRunOK DEF RetentionInv, StoreOK, NoWeekLosesItsLatest

(* However often snapshots are thinned out or archived, with whatever      *)
(* windows, and whatever is saved meanwhile, for every snapshot ever saved *)
(* one as late of its host and week is still there (the downsample loop of *)
(* Execute, retention/engine.go).                                          *)
THEOREM LatestOfEachWeekStays == Spec => []NoWeekLosesItsLatest
<1>1. RetentionInv => NoWeekLosesItsLatest
  BY DEF RetentionInv
<1>2. QED
  BY <1>1, InitRetention, NextRetention, PTL DEF Spec

(* A run ends with the numbers a dry run gave when it began, whatever is   *)
(* saved while it works (DryRun and Execute).                              *)
THEOREM DryRunPredicts == Spec => []DryRunIsExact
<1>1. RetentionInv => DryRunIsExact
  <2> SUFFICES ASSUME RunOK, run.todo = {}, run.prune = {} PROVE run.counts = run.promise
    BY DEF RetentionInv, DryRunIsExact
  <2>1. /\ run.counts \in Numbers /\ run.promise \in Numbers
        /\ Cardinality({}) = 0 /\ UNION {} = {} /\ EligibleIn({}) = {}
    BY FS_EmptySet DEF RunOK, RunRecord, EligibleIn
  <2>2. /\ run.counts.archived \in Int /\ run.counts.pruned \in Int
        /\ run.counts.retained \in Int /\ run.promise.archived \in Int
        /\ run.promise.pruned \in Int /\ run.promise.retained \in Int
    BY <2>1 DEF Numbers
  <2>3. /\ run.counts.archived = run.promise.archived /\ run.counts.pruned = run.promise.pruned
        /\ run.counts.retained = run.promise.retained
    <3>1. CASE run.strategy = "archive"
      <4>1. run.counts.archived + Cardinality(EligibleIn(run.todo)) = run.promise.archived
        BY <3>1 DEF RunOK, ArchivalOK
      <4>2. Cardinality(EligibleIn(run.todo)) = 0
        BY <2>1
      <4> QED
        BY <2>2, <3>1, <4>1, <4>2 DEF RunOK, ArchivalOK
    <3>2. CASE run.strategy # "archive"
      <4>1. ThinningCounts
        BY <3>2 DEF RunOK
      <4>2. /\ run.counts.archived = run.promise.archived
            /\ run.counts.retained + 0 = run.promise.retained
            /\ run.counts.pruned + 0 + 0 = run.promise.pruned + 0
        BY <2>1, <4>1 DEF ThinningCounts
      <4> QED
        BY <2>2, <4>2
    <3> QED
      BY <3>1, <3>2
  <2>4. ASSUME NEW c \in Numbers
        PROVE  c = [archived |-> c.archived, pruned |-> c.pruned, retained |-> c.retained]
    BY DEF Numbers
  <2> QED
    BY <2>1, <2>3, <2>4
<1>2. QED
  BY <1>1, InitRetention, NextRetention, PTL DEF Spec

-----------------------------------------------------------------------------
(* One more number, that many more strokes.                                *)
LEMMA OneMoreNumber ==
  ASSUME NEW f, NEW g, NEW n \in Nat, NEW k \in Nat, IsFiniteSet(Strokes(f)),
         DOMAIN f = 1..n, DOMAIN g = 1..(n + 1), \A i \in 1..n : g[i] = f[i], g[n + 1] = k
  PROVE  IsFiniteSet(Strokes(g)) /\ Total(g) = Total(f) + k /\ Total(f) \in Nat
<1> DEFINE last == {n + 1} \X (1..k)
<1>1. Strokes(g) = Strokes(f) \cup last
  <2>1. 1..(n + 1) = (1..n) \cup {n + 1}
    OBVIOUS
  <2>2. \A i \in 1..n : {i} \X (1..g[i]) = {i} \X (1..f[i])
    OBVIOUS
  <2>3. {{i} \X (1..g[i]) : i \in DOMAIN g} = {{i} \X (1..f[i]) : i \in DOMAIN f} \cup {last}
    BY <2>1, <2>2
  <2> HIDE DEF last
  <2> QED
    BY <2>3 DEF Strokes
<1>2. Strokes(f) \cap last = {}
  <2>1. ASSUME NEW x \in Strokes(f) PROVE x \notin last
    <3>1. PICK i \in 1..n : x \in {i} \X (1..f[i])
      BY DEF Strokes
    <3>2. x[1] = i /\ i # n + 1
      BY <3>1
    <3> QED
      BY <3>2
  <2> QED
    BY <2>1
<1>3. IsFiniteSet(last) /\ Cardinality(last) = k
  <2>1. IsFiniteSet({n + 1}) /\ Cardinality({n + 1}) = 1
    BY FS_Singleton
  <2>2. IsFiniteSet(1..k) /\ Cardinality(1..k) = k
    BY FS_Interval
  <2>3. PICK a, b : a = {n + 1} /\ b = 1..k
    OBVIOUS
  <2>4. IsFiniteSet(a \X b) /\ Cardinality(a \X b) = Cardinality(a) * Cardinality(b)
    BY <2>1, <2>2, <2>3, FS_Product
  <2>5. Cardinality(a) = 1 /\ Cardinality(b) = k
    BY <2>1, <2>2, <2>3
  <2>6. Cardinality(a \X b) = k
    BY <2>4, <2>5
  <2> QED
    BY <2>3, <2>4, <2>6
<1> HIDE DEF last
<1>4. /\ IsFiniteSet(Strokes(f) \cup last)
      /\ Cardinality(Strokes(f) \cup last) = Cardinality(Strokes(f)) + k - Cardinality({})
  <2>1. PICK s : s = Strokes(f)
    OBVIOUS
  <2>2. /\ IsFiniteSet(s \cup last)
        /\ Cardinality(s \cup last) = Cardinality(s) + Cardinality(last) - Cardinality(s \cap last)
    BY <1>3, <2>1, FS_Union
  <2> QED
    BY <1>2, <1>3, <2>1, <2>2
<1>5. Cardinality({}) = 0 /\ Cardinality(Strokes(f)) \in Nat
  BY FS_EmptySet, FS_CardinalityType
<1>6. Cardinality(Strokes(f) \cup last) = Cardinality(Strokes(f)) + k
  BY <1>4, <1>5
<1> QED
  BY <1>1, <1>4, <1>5, <1>6 DEF Total

(* The entries and the run in progress are numbers that can be added, and  *)
(* a run that archives removes nothing.                                    *)
EntriesOK ==
  /\ audit \in Seq(Counts) /\ run.counts \in Counts
  /\ IsFiniteSet(Strokes(Archivals)) /\ IsFiniteSet(Strokes(Prunings))
  /\ run.strategy = "archive" => run.counts.pruned = 0

AuditInv == archived \subseteq Saved /\ EntriesOK /\ AuditAccountsForEffects

LEMMA EntriesSame ==
  ASSUME UNCHANGED audit
  PROVE  /\ Strokes(Archivals)' = Strokes(Archivals) /\ Strokes(Prunings)' = Strokes(Prunings)
         /\ Total(Archivals)' = Total(Archivals) /\ Total(Prunings)' = Total(Prunings)
BY DEF Strokes, Total, Archivals, Prunings

LEMMA Effects ==
  ASSUME StoreOK, AuditInv
  PROVE  /\ IsFiniteSet(Saved \ present) /\ Cardinality(Saved \ present) \in Nat
         /\ IsFiniteSet(archived) /\ Cardinality(archived) \in Nat
         /\ Total(Archivals) \in Nat /\ Total(Prunings) \in Nat
         /\ run.counts.archived \in Nat /\ run.counts.pruned \in Nat
<1>1. Saved \ present \in SUBSET SnapId /\ archived \in SUBSET SnapId
  BY DEF StoreOK, AuditInv
<1>2. run.counts.archived \in Nat /\ run.counts.pruned \in Nat
  BY DEF AuditInv, EntriesOK, Counts
<1>3. Total(Archivals) \in Nat /\ Total(Prunings) \in Nat
  BY FS_CardinalityType DEF AuditInv, EntriesOK, Total
<1> QED
  BY <1>1, <1>2, <1>3, FiniteStore

(* Steps without an entry and without an effect. *)
LEMMA AuditQuiet ==
  ASSUME AuditInv, UNCHANGED <<audit, archived, aborted>>, archived \subseteq Saved',
         Saved' \ present' = Saved \ present, run'.counts = run.counts,
         run'.strategy = "archive" => run'.counts.pruned = 0
  PROVE  AuditInv'
BY EntriesSame DEF AuditInv, EntriesOK, AuditAccountsForEffects

LEMMA AuditArchive ==
  ASSUME StoreOK, RunOK, AuditInv, NEW i \in present, NEW written \in Written,
         ArchiveNext(i, written)
  PROVE  AuditInv'
<1>1. /\ run.strategy = "archive" /\ run \in RunRecord
      /\ UNCHANGED <<born, present, audit, aborted>> /\ Saved' = Saved
      /\ run.counts \in Counts /\ run.counts.pruned = 0
  BY DEF ArchiveNext, AuditInv, EntriesOK, Saved, RunOK
<1>2. CASE Eligible(i, run.cutoff)
  <2>1. /\ run' = [run EXCEPT !.todo = @ \ {i}, !.counts.archived = @ + 1]
        /\ archived' = archived \cup {i} /\ i \notin archived
    BY <1>2 DEF ArchiveNext, Eligible
  <2>2. run'.counts = [run.counts EXCEPT !.archived = @ + 1]
    BY <1>1, <2>1 DEF RunRecord
  <2>3. /\ run'.counts \in Counts /\ run'.counts.archived = run.counts.archived + 1
        /\ run'.counts.pruned = 0
    BY <1>1, <2>2 DEF Counts
  <2>4. Cardinality(archived') = Cardinality(archived) + 1
    BY <2>1, Effects, FS_AddElement
  <2>5. archived' \subseteq Saved'
    BY <1>1, <2>1 DEF AuditInv, StoreOK
  <2>6. EntriesOK'
    BY <1>1, <2>3, EntriesSame DEF AuditInv, EntriesOK
  <2>7. AuditAccountsForEffects'
    <3>1. PICK a, n, m : /\ a = Total(Archivals) /\ n = run.counts.archived
                         /\ m = Cardinality(archived)
      OBVIOUS
    <3>2. a \in Nat /\ n \in Nat /\ m \in Nat /\ a + n <= m /\ (~aborted => a + n = m)
      BY <3>1, Effects DEF AuditInv, AuditAccountsForEffects
    <3>3. a + (n + 1) <= m + 1 /\ (~aborted => a + (n + 1) = m + 1)
      BY <3>2
    <3>4. Total(Prunings) + 0 = Cardinality(Saved \ present)
      BY <1>1 DEF AuditInv, AuditAccountsForEffects
    <3> QED
      BY <1>1, <2>3, <2>4, <3>1, <3>3, <3>4, EntriesSame DEF AuditAccountsForEffects
  <2> QED
    BY <2>5, <2>6, <2>7 DEF AuditInv
<1>3. CASE ~Eligible(i, run.cutoff)
  <2>1. run' = [run EXCEPT !.todo = @ \ {i}] /\ archived' = archived
    BY <1>3 DEF ArchiveNext
  <2>2. run'.counts = run.counts
    BY <1>1, <2>1 DEF RunRecord
  <2> QED
    BY <1>1, <2>1, <2>2, AuditQuiet DEF AuditInv
<1> QED
  BY <1>2, <1>3

LEMMA AuditPrune ==
  ASSUME StoreOK, RunOK, AuditInv, NEW i \in run.prune, PruneNext(i)
  PROVE  AuditInv'
<1>1. /\ run \in RunRecord /\ present' = present \ {i}
      /\ UNCHANGED <<born, archived, audit, aborted>> /\ Saved' = Saved
      /\ run' = [run EXCEPT !.prune = @ \ {i}, !.counts.pruned = @ + 1]
      /\ run.counts \in Counts
  BY DEF PruneNext, RunOK, AuditInv, EntriesOK, Saved
<1>2. run.strategy # "archive" /\ i \in present
  BY DEF RunOK, ArchivalOK, PruneOK
<1>3. run'.counts = [run.counts EXCEPT !.pruned = @ + 1] /\ run'.strategy = run.strategy
  BY <1>1 DEF RunRecord
<1>4. /\ run'.counts \in Counts /\ run'.counts.pruned = run.counts.pruned + 1
      /\ run'.counts.archived = run.counts.archived
  BY <1>1, <1>3 DEF Counts
<1>5. Cardinality(Saved' \ present') = Cardinality(Saved \ present) + 1
  <2>1. Saved' \ present' = (Saved \ present) \cup {i} /\ i \notin Saved \ present
    BY <1>1, <1>2 DEF StoreOK
  <2> QED
    BY <2>1, Effects, FS_AddElement
<1>6. EntriesOK'
  BY <1>1, <1>2, <1>3, <1>4, EntriesSame DEF AuditInv, EntriesOK
<1>7. AuditAccountsForEffects'
  <2>1. PICK a, n, m : /\ a = Total(Prunings) /\ n = run.counts.pruned
                       /\ m = Cardinality(Saved \ present)
    OBVIOUS
  <2>2. a \in Nat /\ n \in Nat /\ m \in Nat /\ a + n = m
    BY <2>1, Effects DEF AuditInv, AuditAccountsForEffects
  <2>3. a + (n + 1) = m + 1
    BY <2>2
  <2>4. /\ Total(Archivals) + run.counts.archived <= Cardinality(archived)
        /\ ~aborted => Total(Archivals) + run.counts.archived = Cardinality(archived)
    BY DEF AuditInv, AuditAccountsForEffects
  <2> QED
    BY <1>1, <1>4, <1>5, <2>1, <2>3, <2>4, EntriesSame DEF AuditAccountsForEffects
<1> QED
  BY <1>1, <1>6, <1>7 DEF AuditInv

(* The context ends an archival: what it has done stays, without an entry. *)
LEMMA AuditAborts ==
  ASSUME StoreOK, AuditInv, ArchiveAborts
  PROVE  AuditInv'
<1>1. /\ run.strategy = "archive" /\ run.counts.pruned = 0 /\ run' = NoRun /\ aborted' = TRUE
      /\ UNCHANGED <<born, present, archived, audit>> /\ Saved' = Saved
  BY DEF ArchiveAborts, AuditInv, EntriesOK, storeVars, Saved
<1>2. /\ run'.counts \in Counts /\ run'.counts.archived = 0 /\ run'.counts.pruned = 0
      /\ run'.strategy = "none"
  BY <1>1 DEF NoRun, Zero, Counts
<1>3. Total(Archivals) <= Cardinality(archived) /\ Total(Archivals) + 0 = Total(Archivals)
  BY Effects DEF AuditInv, AuditAccountsForEffects
<1>4. AuditAccountsForEffects'
  BY <1>1, <1>2, <1>3, EntriesSame DEF AuditInv, AuditAccountsForEffects
<1>5. EntriesOK'
  BY <1>1, <1>2, EntriesSame DEF AuditInv, EntriesOK
<1> QED
  BY <1>1, <1>4, <1>5 DEF AuditInv

(* The entry takes over what the run accounted for.                        *)
LEMMA AuditEnds ==
  ASSUME StoreOK, AuditInv, ExecuteEnds
  PROVE  AuditInv'
<1>1. /\ audit' = Append(audit, run.counts) /\ run' = NoRun
      /\ UNCHANGED <<born, present, archived, aborted>> /\ Saved' = Saved
      /\ audit \in Seq(Counts) /\ run.counts \in Counts
      /\ IsFiniteSet(Strokes(Archivals)) /\ IsFiniteSet(Strokes(Prunings))
  BY DEF ExecuteEnds, AuditInv, EntriesOK, storeVars, Saved
<1>2. PICK n \in Nat : n = Len(audit)
  BY <1>1
<1>3. /\ audit' \in Seq(Counts) /\ DOMAIN audit = 1..n /\ DOMAIN audit' = 1..(n + 1)
      /\ \A i \in 1..n : audit'[i] = audit[i]
      /\ audit'[n + 1] = run.counts /\ n + 1 \in 1..(n + 1) /\ 1..n \subseteq 1..(n + 1)
  BY <1>1, <1>2
<1>4. run.counts.archived \in Nat /\ run.counts.pruned \in Nat
  BY Effects
<1>5. PICK f, g : f = Archivals /\ g = [i \in DOMAIN audit' |-> audit'[i].archived]
  OBVIOUS
<1>6. IsFiniteSet(Strokes(g)) /\ Total(g) = Total(f) + run.counts.archived /\ Total(f) \in Nat
  <2>1. /\ DOMAIN f = 1..n /\ DOMAIN g = 1..(n + 1) /\ IsFiniteSet(Strokes(f))
        /\ (\A i \in 1..n : g[i] = f[i]) /\ g[n + 1] = run.counts.archived
    BY <1>1, <1>3, <1>5 DEF Archivals
  <2> QED
    BY <1>4, <2>1, OneMoreNumber
<1>7. PICK p, q : p = Prunings /\ q = [i \in DOMAIN audit' |-> audit'[i].pruned]
  OBVIOUS
<1>8. IsFiniteSet(Strokes(q)) /\ Total(q) = Total(p) + run.counts.pruned /\ Total(p) \in Nat
  <2>1. /\ DOMAIN p = 1..n /\ DOMAIN q = 1..(n + 1) /\ IsFiniteSet(Strokes(p))
        /\ (\A i \in 1..n : q[i] = p[i]) /\ q[n + 1] = run.counts.pruned
    BY <1>1, <1>3, <1>7 DEF Prunings
  <2> QED
    BY <1>4, <2>1, OneMoreNumber
<1>9. /\ Strokes(Archivals)' = Strokes(g) /\ Strokes(Prunings)' = Strokes(q)
      /\ Total(Archivals)' = Total(g) /\ Total(Prunings)' = Total(q)
  BY <1>5, <1>7 DEF Strokes, Total, Archivals, Prunings
<1>10. /\ run'.counts \in Counts /\ run'.counts.archived = 0 /\ run'.counts.pruned = 0
       /\ run'.strategy = "none"
  BY <1>1 DEF NoRun, Zero, Counts
<1>11. Total(g) + 0 = Total(f) + run.counts.archived /\ Total(q) + 0 = Total(p) + run.counts.pruned
  BY <1>4, <1>6, <1>8
<1>12. AuditAccountsForEffects'
  BY <1>1, <1>5, <1>7, <1>9, <1>10, <1>11 DEF AuditInv, AuditAccountsForEffects
<1>13. EntriesOK'
  BY <1>3, <1>6, <1>8, <1>9, <1>10 DEF EntriesOK
<1> QED
  BY <1>1, <1>12, <1>13 DEF AuditInv

LEMMA AuditNext == RetentionInv /\ AuditInv /\ [Next]_vars => AuditInv'
<1> SUFFICES ASSUME RetentionInv, AuditInv, [Next]_vars PROVE AuditInv'
  OBVIOUS
<1>0. StoreOK /\ RunOK /\ archived \subseteq Saved /\ run \in RunRecord
  BY DEF RetentionInv, RunOK, AuditInv
<1>1. ASSUME NEW strategy \in Strategy, NEW days \in RetentionDays,
             ExecuteStarts(strategy, days)
      PROVE  AuditInv'
  <2>1. run'.counts = Zero /\ run.counts = Zero /\ Zero.pruned = 0
    BY <1>1 DEF ExecuteStarts, NoRun, Zero
  <2>2. UNCHANGED <<born, present, audit, archived, aborted>>
    BY <1>1 DEF ExecuteStarts, storeVars
  <2> QED
    BY <1>0, <2>1, <2>2, AuditQuiet DEF Saved
<1>2. ASSUME NEW i \in present, NEW written \in Written, ArchiveNext(i, written)
      PROVE  AuditInv'
  BY <1>0, <1>2, AuditArchive
<1>3. CASE ArchiveAborts
  BY <1>0, <1>3, AuditAborts
<1>4. ASSUME NEW g \in run.todo, NEW i \in g, KeepLatest(g, i) PROVE AuditInv'
  <2>1. /\ run' = [run EXCEPT !.todo = @ \ {g}, !.prune = g \ {i}, !.counts.retained = @ + 1]
        /\ run.strategy = "downsample" /\ UNCHANGED <<born, present, audit, archived, aborted>>
        /\ run.counts \in Counts
    BY <1>4 DEF KeepLatest, AuditInv, EntriesOK
  <2>2. run'.counts = [run.counts EXCEPT !.retained = @ + 1] /\ run'.strategy = "downsample"
    BY <1>0, <2>1 DEF RunRecord
  <2>3. /\ run'.counts \in Counts /\ run'.counts.archived = run.counts.archived
        /\ run'.counts.pruned = run.counts.pruned
    BY <2>1, <2>2 DEF Counts
  <2> QED
    BY <2>1, <2>2, <2>3, EntriesSame
    DEF AuditInv, EntriesOK, AuditAccountsForEffects, Saved
<1>5. ASSUME NEW i \in run.prune, PruneNext(i) PROVE AuditInv'
  BY <1>0, <1>5, AuditPrune
<1>6. CASE ExecuteEnds
  BY <1>0, <1>6, AuditEnds
<1>7. CASE SnapNext /\ UNCHANGED <<files, run, audit, runs, aborted>>
  <2>1. run.strategy = "archive" => run.counts.pruned = 0
    BY DEF AuditInv, EntriesOK
  <2>2. ASSUME NEW i \in SnapId, NEW h \in Host, NEW day \in 0..LastDay,
               SaveSnapshot(i, h, day)
        PROVE  AuditInv'
    <3>1. Saved' = Saved \cup {i} /\ i \notin Saved /\ present' = present \cup {i}
          /\ archived' = archived
      BY <2>2 DEF SaveSnapshot, Saved
    <3>2. Saved' \ present' = Saved \ present
      BY <1>0, <3>1 DEF StoreOK
    <3> QED
      BY <1>0, <1>7, <2>1, <3>1, <3>2, AuditQuiet
  <2>3. ASSUME UNCHANGED storeVars PROVE AuditInv'
    BY <1>0, <1>7, <2>1, <2>3, AuditQuiet DEF storeVars, Saved
  <2> QED
    BY <1>7, <2>2, <2>3 DEF SnapNext, NextDay, WalkStarts, WalkContinues
<1>8. CASE UNCHANGED vars
  <2>1. run.strategy = "archive" => run.counts.pruned = 0
    BY DEF AuditInv, EntriesOK
  <2> QED
    BY <1>0, <1>8, <2>1, AuditQuiet DEF vars, storeVars, Saved
<1> QED
  BY <1>1, <1>2, <1>3, <1>4, <1>5, <1>6, <1>7, <1>8 DEF Next, RunNext

LEMMA AuditInit == Init => AuditInv
<1> SUFFICES ASSUME Init PROVE AuditInv
  OBVIOUS
<1>1. Saved \ present = {} /\ archived = {}
  BY DEF Init, SnapInit, Saved
<1>2. /\ audit = <<>> /\ run.counts = Zero /\ run.strategy = "none"
      /\ Zero.archived = 0 /\ Zero.pruned = 0 /\ Zero \in Counts
  BY DEF Init, NoRun, Zero, Counts
<1>3. audit \in Seq(Counts) /\ DOMAIN audit = {}
  BY <1>2
<1>4. Strokes(Archivals) = {} /\ Strokes(Prunings) = {}
  BY <1>3 DEF Strokes, Archivals, Prunings
<1>5. EntriesOK
  BY <1>2, <1>3, <1>4, FS_EmptySet DEF EntriesOK
<1>6. Total(Archivals) = 0 /\ Total(Prunings) = 0 /\ Cardinality({}) = 0
  BY <1>4, FS_EmptySet DEF Total
<1>7. AuditAccountsForEffects
  <2>1. Cardinality(Saved \ present) = 0 /\ Cardinality(archived) = 0
    BY <1>1, <1>6
  <2>2. run.counts.archived = 0 /\ run.counts.pruned = 0
    BY <1>2
  <2> QED
    BY <1>6, <2>1, <2>2 DEF AuditAccountsForEffects
<1> QED
  BY <1>1, <1>5, <1>7 DEF AuditInv

(* Whatever runs there were, and however they ended, the audit entries and *)
(* the run in progress account for every snapshot that was removed, and    *)
(* for every one that lost its payload but those of archivals that were    *)
(* cut short (the AddAuditLog at the end of Execute).                      *)
THEOREM AuditIsExact == Spec => []AuditAccountsForEffects
<1>1. AuditInv => AuditAccountsForEffects
  BY DEF AuditInv
<1>2. QED
  BY <1>1, InitRetention, NextRetention, AuditInit, AuditNext, PTL DEF Spec

-----------------------------------------------------------------------------
(* What a walk has seen by the time the next page is asked for, while      *)
(* nothing is pruned: the list goes down in the order of the pages, and    *)
(* what was there at the start and is not in it comes after the cursor.    *)
Fields == {"open", "whole", "cursor", "start", "seen"}

SeenBy(w, i) == \E n \in DOMAIN w.seen : w.seen[n] = i

Descends(seen) ==
  /\ IsList(seen)
  /\ \A n \in DOMAIN seen : seen[n] \in present
  /\ \A m, n \in DOMAIN seen : m < n => ComesAfter(seen[n], seen[m])

Resumes(w) ==
  /\ Len(w.seen) \in DOMAIN w.seen /\ w.cursor = w.seen[Len(w.seen)]
  /\ \E k \in present : ComesAfter(k, w.cursor)
  /\ \A i \in w.start : SeenBy(w, i) \/ ComesAfter(i, w.cursor)

Proceeds(w) ==
  /\ Descends(w.seen) /\ w.start \subseteq present
  /\ w.open => Resumes(w)
  /\ ~w.open => \A i \in w.start : SeenBy(w, i)

IsWalk(w) == w = [f \in Fields |-> w[f]]

WalkInv == IsWalk(walk) /\ (walk.whole => Proceeds(walk))

(* The order of the pages is one of all the snapshots.                     *)
Before == [x \in present |-> {y \in present : Newer(y, x)}]

LEMMA PagesAreOrdered ==
  ASSUME StoreOK
  PROVE  /\ \A i, j \in present : Newer(i, j) <=> ComesAfter(j, i)
         /\ \A i \in present : ~ComesAfter(i, i)
         /\ \A i, j, k \in present :
              ComesAfter(i, j) /\ ComesAfter(j, k) => ComesAfter(i, k)
         /\ \A i, j \in present : i = j \/ ComesAfter(i, j) \/ ComesAfter(j, i)
<1>1. \A i \in present : i \in Nat /\ born[i].day \in Nat
  BY SnapshotsAssumption DEF StoreOK
<1>2. \A i, j \in present : Newer(i, j) <=> ComesAfter(j, i)
  BY <1>1 DEF Newer, ComesAfter
<1>3. \A i \in present : ~ComesAfter(i, i)
  BY <1>1 DEF ComesAfter
<1>4. ASSUME NEW i \in present, NEW j \in present, NEW k \in present,
             ComesAfter(i, j), ComesAfter(j, k)
      PROVE  ComesAfter(i, k)
  BY <1>1, <1>4 DEF ComesAfter
<1>5. \A i, j \in present : i = j \/ ComesAfter(i, j) \/ ComesAfter(j, i)
  BY <1>1 DEF ComesAfter
<1> QED
  BY <1>2, <1>3, <1>4, <1>5

LEMMA SortedLists ==
  ASSUME StoreOK
  PROVE  Enumerates(Sorted, present, Before)
<1>1. IsFiniteSet(present)
  BY FiniteStore
<1>2. OrdersAll(present, Before)
  <2>1. Before \in [present -> SUBSET present]
    BY DEF Before
  <2>2. \A x \in present : Before[x] = {y \in present : ComesAfter(x, y)}
    BY PagesAreOrdered DEF Before
  <2>3. \A x \in present : x \notin Before[x] /\ \A y \in Before[x] : Before[y] \subseteq Before[x]
    BY <2>2, PagesAreOrdered
  <2>4. \A x, y \in present : x = y \/ x \in Before[y] \/ y \in Before[x]
    BY <2>2, PagesAreOrdered
  <2> QED
    BY <1>1, <2>1, <2>3, <2>4 DEF OrdersAll
<1>3. \A n \in 1..Cardinality(present) :
        \E x \in present : Cardinality({y \in present : Newer(y, x)}) = n - 1
  <2>1. \A n \in 1..Cardinality(present) : \E x \in present : Cardinality(Before[x]) = n - 1
    BY <1>2, EveryPlaceIsTaken
  <2> QED
    BY <2>1 DEF Before
<1>4. \A n \in 1..Cardinality(present) :
        /\ Sorted[n] \in present
        /\ Cardinality({y \in present : Newer(y, Sorted[n])}) = n - 1
  BY <1>3 DEF Sorted, InOrder
<1>5. Sorted \in [1..Cardinality(present) -> present]
  BY <1>4 DEF Sorted, InOrder
<1>6. \A n \in 1..Cardinality(present) : Cardinality(Before[Sorted[n]]) = n - 1
  BY <1>4 DEF Before
<1> QED
  BY <1>2, <1>5, <1>6, PlacedInOrder

(* The list a page is taken from.                                          *)
Listed(all, n) ==
  /\ n \in Nat /\ all \in [1..n -> present] /\ Len(all) = n
  /\ \A i \in present : \E k \in 1..n : all[k] = i
  /\ \A i, j \in 1..n : i < j <=> ComesAfter(all[j], all[i])

LEMMA SortedIsListed ==
  ASSUME StoreOK PROVE \E n \in Nat : Listed(Sorted, n)
<1>1. PICK n, all : n = Cardinality(present) /\ all = Sorted
  OBVIOUS
<1>2. /\ n \in Nat /\ all \in [1..n -> present]
      /\ \A i \in present : \E k \in 1..n : all[k] = i
      /\ \A i, j \in 1..n : i < j <=> all[i] \in Before[all[j]]
  BY <1>1, SortedLists DEF Enumerates
<1>3. Len(all) = n
  <2>1. DOMAIN all = 1..n /\ all = [k \in DOMAIN all |-> all[k]]
    BY <1>2
  <2> QED
    BY <1>2, <2>1, MappedList
<1>4. \A i, j \in 1..n : i < j <=> ComesAfter(all[j], all[i])
  BY <1>2, PagesAreOrdered DEF Before
<1> QED
  BY <1>1, <1>2, <1>3, <1>4 DEF Listed

(* The place a page starts at divides the list at the cursor.              *)
StartsAt(all, n, cursor, from) ==
  /\ from \in Nat \ {0}
  /\ cursor = NoCursor => from = 1
  /\ cursor # NoCursor =>
       from <= n /\ \A k \in 1..n : from <= k <=> ComesAfter(all[k], cursor)

LEMMA PageStartDivides ==
  ASSUME StoreOK, NEW all, NEW n, Listed(all, n), NEW cursor,
         cursor = NoCursor \/ (cursor \in present /\ \E i \in present : ComesAfter(i, cursor))
  PROVE  StartsAt(all, n, cursor, PageStart(all, cursor))
<1> DEFINE after == {k \in DOMAIN all : cursor # NoCursor /\ ComesAfter(all[k], cursor)}
<1>1. /\ n \in Nat /\ DOMAIN all = 1..n /\ \A k \in 1..n : all[k] \in present
      /\ \A i \in present : \E k \in 1..n : all[k] = i
      /\ \A i, j \in 1..n : i < j <=> ComesAfter(all[j], all[i])
  BY DEF Listed
<1>2. CASE cursor = NoCursor
  <2>1. after = {}
    BY <1>2
  <2>2. PageStart(all, cursor) = 1
    BY <2>1 DEF PageStart
  <2> QED
    BY <1>2, <2>2 DEF StartsAt
<1>3. CASE cursor # NoCursor
  <2>1. after # {} /\ after \in SUBSET Nat /\ after \subseteq 1..n
    BY <1>1, <1>3
  <2>2. \E m \in after : \A k \in after : m <= k
    <3> HIDE DEF after
    <3> QED
      BY <2>1, Least
  <2>3. PICK from : from = PageStart(all, cursor)
    OBVIOUS
  <2>4. from \in after /\ \A k \in after : from <= k
    <3>1. PageStart(all, cursor) = CHOOSE m \in after : \A k \in after : m <= k
      BY <2>1 DEF PageStart
    <3> HIDE DEF after
    <3> QED
      BY <2>2, <2>3, <3>1
  <2>5. from \in 1..n /\ ComesAfter(all[from], cursor)
    BY <2>1, <2>4
  <2>6. ASSUME NEW k \in 1..n PROVE from <= k <=> ComesAfter(all[k], cursor)
    <3>1. ComesAfter(all[k], cursor) => from <= k
      BY <1>1, <1>3, <2>4
    <3>2. CASE from = k
      BY <2>5, <3>1, <3>2
    <3>3. CASE from < k
      <4>1. ComesAfter(all[k], all[from])
        BY <1>1, <2>5, <3>3
      <4>2. ComesAfter(all[k], cursor)
        BY <1>1, <1>3, <2>5, <4>1, PagesAreOrdered
      <4> QED
        BY <3>1, <4>2
    <3>4. CASE k < from
      <4>1. ~(from <= k)
        BY <1>1, <2>5, <3>4
      <4> QED
        BY <3>1, <4>1
    <3>5. from = k \/ from < k \/ k < from
      BY <1>1, <2>5
    <3> QED
      BY <3>2, <3>3, <3>4, <3>5
  <2> QED
    BY <1>1, <1>3, <2>3, <2>5, <2>6 DEF StartsAt
<1> QED
  BY <1>2, <1>3

(* What a page of a list is: the elements from a place on, up to a place.  *)
LEMMA PageOf ==
  ASSUME NEW all, NEW n, Listed(all, n), NEW from \in Nat \ {0}, NEW to \in 0..n
  PROVE  LET page == SubSeq(all, from, to) IN
         /\ IsList(page)
         /\ from <= to => Len(page) = to - from + 1
         /\ \A k \in DOMAIN page : from + k - 1 \in from..to /\ page[k] = all[from + k - 1]
         /\ \A j \in from..to : j - from + 1 \in DOMAIN page /\ page[j - from + 1] = all[j]
<1> PICK page : page = SubSeq(all, from, to)
  OBVIOUS
<1>1. n \in Nat /\ \A k \in 1..n : all[k] \in present
  BY DEF Listed
<1>2. \A k \in from..to : all[k] \in present
  <2> TAKE k \in from..to
  <2>1. k \in 1..n
    BY <1>1
  <2> QED
    BY <1>1, <2>1
<1>3. /\ page \in Seq(present) /\ Len(page) = IF from <= to THEN to - from + 1 ELSE 0
      /\ \A i \in 1..(to - from + 1) : page[i] = all[from + i - 1]
  BY <1>2, SubSeqProperties
<1>4. PICK l \in Nat : l = Len(page)
  BY <1>3
<1>5. DOMAIN page = 1..l /\ page = [i \in 1..l |-> page[i]]
  BY <1>3, <1>4
<1>6. /\ \A k \in 1..l : from + k - 1 \in from..to /\ k \in 1..(to - from + 1)
      /\ \A j \in from..to : /\ j - from + 1 \in 1..l /\ j - from + 1 \in 1..(to - from + 1)
                             /\ from + (j - from + 1) - 1 = j
  <2>1. from <= to => l = to - from + 1
    BY <1>3, <1>4
  <2>2. from > to => l = 0
    BY <1>3, <1>4
  <2> QED
    BY <1>4, <2>1, <2>2
<1>7. IsList(page)
  BY <1>5 DEF IsList
<1>8. \A k \in DOMAIN page : from + k - 1 \in from..to /\ page[k] = all[from + k - 1]
  BY <1>3, <1>5, <1>6
<1>9. \A j \in from..to : j - from + 1 \in DOMAIN page /\ page[j - from + 1] = all[j]
  BY <1>3, <1>5, <1>6
<1> QED
  BY <1>3, <1>7, <1>8, <1>9

(* The next page goes on where the walk stopped, or starts it.             *)
Starts(w) == w.cursor = NoCursor /\ w.seen = << >> /\ w.start = present

LEMMA PageTaken ==
  ASSUME NEW w, IsWalk(w), NEW limit
  PROVE  IsWalk(TakePage(w, limit)) /\ TakePage(w, limit).whole = w.whole
<1>1. DOMAIN w = Fields
  BY DEF IsWalk
<1> QED
  BY <1>1 DEF TakePage, IsWalk, Fields

LEMMA NextPage ==
  ASSUME StoreOK, NEW w, IsWalk(w),
         Starts(w) \/ (Descends(w.seen) /\ w.start \subseteq present /\ Resumes(w)),
         NEW limit \in PageLimit
  PROVE  Proceeds(TakePage(w, limit))
<1>0. PICK n \in Nat : Listed(Sorted, n)
  BY SortedIsListed
<1>1. PICK all : all = Sorted /\ Listed(all, n)
  BY <1>0
<1> DOMAIN w = Fields /\ w = [f \in Fields |-> w[f]]
  BY DEF IsWalk
<1>2. limit \in Nat \ {0} /\ Len(all) = n /\ \A i \in present : i # NoCursor
  BY <1>1, SnapshotsAssumption DEF Listed, StoreOK, NoCursor
<1>3. /\ \A k \in 1..n : all[k] \in present
      /\ \A i \in present : \E k \in 1..n : all[k] = i
      /\ \A i, j \in 1..n : i < j <=> ComesAfter(all[j], all[i])
  BY <1>1 DEF Listed
<1>4. PICK from : from = PageStart(all, w.cursor)
  OBVIOUS
<1>5. Descends(w.seen) /\ w.start \subseteq present
  BY ShortLists DEF Starts, Descends
<1>6. \/ w.cursor = NoCursor /\ DOMAIN w.seen = {}
      \/ /\ w.cursor \in present /\ w.cursor # NoCursor
         /\ \E i \in present : ComesAfter(i, w.cursor)
         /\ Len(w.seen) \in DOMAIN w.seen /\ w.cursor = w.seen[Len(w.seen)]
         /\ \A i \in w.start : SeenBy(w, i) \/ ComesAfter(i, w.cursor)
  BY <1>2, <1>5, ShortLists DEF Starts, Resumes, Descends
<1>7. StartsAt(all, n, w.cursor, from)
  BY <1>1, <1>4, <1>6, PageStartDivides
<1>8. from \in Nat \ {0}
  BY <1>7 DEF StartsAt
<1>9. PICK to \in 0..n : to = IF from + limit - 1 < n THEN from + limit - 1 ELSE n
  BY <1>1, <1>2, <1>8
<1>10. PICK page : page = SubSeq(all, from, to)
  OBVIOUS
<1>11. PICK v : v = TakePage(w, limit)
  OBVIOUS
<1>12. v.start = w.start /\ v.seen = w.seen \o page
  BY <1>1, <1>2, <1>4, <1>9, <1>10, <1>11 DEF TakePage, Fields
<1>13. from + limit - 1 < n => v.open = TRUE /\ v.cursor = Last(page)
  BY <1>1, <1>2, <1>4, <1>9, <1>10, <1>11 DEF TakePage, Fields
<1>14. ~(from + limit - 1 < n) => ~v.open
  BY <1>1, <1>2, <1>4, <1>8, <1>11 DEF TakePage, Fields
<1>15. /\ IsList(page)
       /\ from <= to => Len(page) = to - from + 1
       /\ \A k \in DOMAIN page : from + k - 1 \in from..to /\ page[k] = all[from + k - 1]
       /\ \A j \in from..to : j - from + 1 \in DOMAIN page /\ page[j - from + 1] = all[j]
  BY <1>1, <1>8, <1>10, PageOf
<1>16. PICK seen : seen = w.seen \o page
  OBVIOUS
<1>17. IsList(w.seen)
  BY <1>5 DEF Descends
<1>18. /\ IsList(seen) /\ Len(seen) = Len(w.seen) + Len(page)
       /\ DOMAIN seen = 1..(Len(w.seen) + Len(page))
       /\ \A i \in DOMAIN w.seen : seen[i] = w.seen[i]
       /\ \A i \in DOMAIN page : seen[Len(w.seen) + i] = page[i]
       /\ \A i \in DOMAIN seen : i \in DOMAIN w.seen \/ i - Len(w.seen) \in DOMAIN page
       /\ Len(w.seen) \in Nat /\ DOMAIN w.seen = 1..Len(w.seen)
       /\ Len(page) \in Nat /\ DOMAIN page = 1..Len(page)
  <2>1. PICK s : s = w.seen
    OBVIOUS
  <2>2. IsList(s)
    BY <1>17, <2>1
  <2>3. /\ IsList(s \o page) /\ Len(s \o page) = Len(s) + Len(page)
        /\ DOMAIN (s \o page) = 1..(Len(s) + Len(page))
        /\ \A i \in DOMAIN s : (s \o page)[i] = s[i]
        /\ \A i \in DOMAIN page : (s \o page)[Len(s) + i] = page[i]
        /\ \A i \in DOMAIN (s \o page) : i \in DOMAIN s \/ i - Len(s) \in DOMAIN page
    BY <1>15, <2>2, Concatenated
  <2>4. Len(s) \in Nat /\ DOMAIN s = 1..Len(s) /\ Len(page) \in Nat /\ DOMAIN page = 1..Len(page)
    BY <1>15, <2>2, ListDomain
  <2>5. seen = s \o page
    BY <1>16, <2>1
  <2> QED
    BY <2>1, <2>3, <2>4, <2>5
<1>19. /\ from \in Nat /\ \A k \in from..to : k \in 1..n /\ from <= k
       /\ w.cursor = NoCursor => from = 1 /\ DOMAIN w.seen = {}
       /\ w.cursor # NoCursor =>
            /\ \A k \in 1..n : from <= k <=> ComesAfter(all[k], w.cursor)
            /\ w.cursor \in present /\ w.cursor = w.seen[Len(w.seen)]
            /\ Len(w.seen) \in DOMAIN w.seen
            /\ \A i \in w.start : SeenBy(w, i) \/ ComesAfter(i, w.cursor)
  <2>1. \A k \in from..to : k \in 1..n /\ from <= k
    BY <1>8, <1>9
  <2> QED
    BY <1>6, <1>7, <1>8, <2>1 DEF StartsAt
<1>20. Descends(seen)
  <2>1. \A k \in DOMAIN page : page[k] \in present
    BY <1>3, <1>15, <1>19
  <2>2. \A k \in DOMAIN w.seen : w.seen[k] \in present
    BY <1>5 DEF Descends
  <2>3. ASSUME NEW k \in DOMAIN seen PROVE seen[k] \in present
    <3>1. CASE k \in DOMAIN w.seen
      BY <1>18, <2>2, <3>1
    <3>2. CASE k - Len(w.seen) \in DOMAIN page
      <4>1. k = Len(w.seen) + (k - Len(w.seen))
        BY <1>18
      <4> QED
        BY <1>18, <2>1, <3>2, <4>1
    <3> QED
      BY <1>18, <3>1, <3>2
  <2>4. ASSUME NEW k \in DOMAIN page, w.cursor # NoCursor PROVE ComesAfter(page[k], w.cursor)
    BY <1>15, <1>19, <2>4
  <2>5. ASSUME NEW k \in DOMAIN w.seen
        PROVE  w.cursor # NoCursor /\ (w.seen[k] = w.cursor \/ ComesAfter(w.cursor, w.seen[k]))
    <3>1. w.cursor # NoCursor /\ Len(w.seen) \in DOMAIN w.seen
      BY <1>19
    <3>2. k = Len(w.seen) \/ k < Len(w.seen)
      BY <1>18
    <3>3. k < Len(w.seen) => ComesAfter(w.seen[Len(w.seen)], w.seen[k])
      BY <1>5, <3>1 DEF Descends
    <3> QED
      BY <1>19, <3>1, <3>2, <3>3
  <2>6. ASSUME NEW k \in DOMAIN w.seen, NEW l \in DOMAIN page
        PROVE  ComesAfter(page[l], w.seen[k])
    <3>1. page[l] \in present /\ w.seen[k] \in present /\ w.cursor \in present
      BY <1>19, <2>1, <2>2, <2>5
    <3>2. ComesAfter(page[l], w.cursor)
      BY <2>4, <2>5
    <3> QED
      BY <2>5, <3>1, <3>2, PagesAreOrdered
  <2>7. ASSUME NEW k \in DOMAIN page, NEW l \in DOMAIN page, k < l
        PROVE  ComesAfter(page[l], page[k])
    <3>1. /\ from + k - 1 \in 1..n /\ from + l - 1 \in 1..n
          /\ page[k] = all[from + k - 1] /\ page[l] = all[from + l - 1]
      BY <1>15, <1>19
    <3>2. from + k - 1 < from + l - 1
      BY <1>18, <1>19, <2>7
    <3> QED
      BY <1>3, <3>1, <3>2
  <2>8. ASSUME NEW k \in DOMAIN seen, NEW l \in DOMAIN seen, k < l
        PROVE  ComesAfter(seen[l], seen[k])
    <3>1. k \in DOMAIN w.seen \/ k - Len(w.seen) \in DOMAIN page
      BY <1>18
    <3>2. l \in DOMAIN w.seen \/ l - Len(w.seen) \in DOMAIN page
      BY <1>18
    <3>3. k \in Int /\ l \in Int /\ Len(w.seen) \in Nat
      BY <1>18
    <3>4. k = Len(w.seen) + (k - Len(w.seen)) /\ l = Len(w.seen) + (l - Len(w.seen))
      BY <3>3
    <3>5. CASE l \in DOMAIN w.seen
      <4>1. k \in DOMAIN w.seen
        BY <1>18, <2>8, <3>5
      <4> QED
        BY <1>5, <1>18, <2>8, <3>5, <4>1 DEF Descends
    <3>6. CASE k \in DOMAIN w.seen /\ l - Len(w.seen) \in DOMAIN page
      BY <1>18, <2>6, <3>4, <3>6
    <3>7. CASE k - Len(w.seen) \in DOMAIN page /\ l - Len(w.seen) \in DOMAIN page
      <4>1. k - Len(w.seen) < l - Len(w.seen)
        BY <2>8, <3>3
      <4> QED
        BY <1>18, <2>7, <3>4, <3>7, <4>1
    <3> QED
      BY <3>1, <3>2, <3>5, <3>6, <3>7
  <2> QED
    BY <1>18, <2>3, <2>8 DEF Descends
<1>21. ASSUME NEW i \in w.start
       PROVE  (\E k \in DOMAIN seen : seen[k] = i) \/ \E k \in 1..n : to < k /\ all[k] = i
  <2>1. PICK k \in 1..n : all[k] = i
    BY <1>3, <1>5
  <2>2. CASE to < k
    BY <2>1, <2>2
  <2>3. CASE k \in from..to
    <3>1. k - from + 1 \in DOMAIN page /\ page[k - from + 1] = i
      BY <1>15, <2>1, <2>3
    <3>2. Len(w.seen) + (k - from + 1) \in DOMAIN seen
      <4>0. k - from + 1 \in Int
        BY <1>8
      <4>1. PICK a \in Nat, b \in Nat, c \in Int :
              a = Len(w.seen) /\ b = Len(page) /\ c = k - from + 1 /\ c \in 1..b
        <5>1. Len(w.seen) \in Nat /\ Len(page) \in Nat /\ k - from + 1 \in 1..Len(page)
          BY <1>18, <3>1
        <5> QED
          BY <4>0, <5>1
      <4>2. a + c \in 1..(a + b)
        BY <4>1
      <4> QED
        BY <1>18, <4>1, <4>2
    <3> QED
      BY <1>18, <3>1, <3>2
  <2>4. CASE k < from
    <3>1. w.cursor # NoCursor /\ ~(from <= k)
      BY <1>19, <2>4
    <3>2. SeenBy(w, i)
      BY <1>19, <2>1, <3>1
    <3>3. DOMAIN w.seen \subseteq DOMAIN seen
      BY <1>18
    <3> QED
      BY <1>18, <3>2, <3>3 DEF SeenBy
  <2> QED
    BY <1>19, <2>2, <2>3, <2>4
<1>22. CASE from + limit - 1 < n
  <2>1. to < n /\ from <= to /\ to + 1 \in 1..n /\ to \in 1..n /\ to \in from..to
    BY <1>2, <1>8, <1>9, <1>22
  <2>2. Len(page) = to - from + 1
    BY <1>15, <2>1
  <2>3. Len(page) \in DOMAIN page /\ page[Len(page)] = all[to]
    BY <1>15, <2>1, <2>2
  <2>4. v.cursor = all[to]
    BY <1>13, <1>22, <2>3 DEF Last
  <2>5. Len(seen) \in DOMAIN seen /\ seen[Len(seen)] = all[to]
    <3>1. PICK a \in Nat, b \in Nat : a = Len(w.seen) /\ b = Len(page) /\ b \in 1..b
      BY <1>18, <2>3
    <3>2. a + b \in 1..(a + b)
      BY <3>1
    <3> QED
      BY <1>18, <2>3, <3>1, <3>2
  <2>6. all[to + 1] \in present /\ ComesAfter(all[to + 1], all[to])
    BY <1>3, <2>1
  <2>7. ASSUME NEW i \in w.start PROVE SeenBy(v, i) \/ ComesAfter(i, v.cursor)
    <3>1. CASE \E k \in DOMAIN seen : seen[k] = i
      BY <1>12, <1>16, <3>1 DEF SeenBy
    <3>2. CASE \E k \in 1..n : to < k /\ all[k] = i
      BY <1>3, <2>1, <2>4, <3>2
    <3> QED
      BY <1>21, <3>1, <3>2
  <2>8. Resumes(v)
    BY <1>12, <1>16, <2>4, <2>5, <2>6, <2>7 DEF Resumes
  <2>9. Proceeds(v)
    BY <1>5, <1>12, <1>13, <1>16, <1>20, <1>22, <2>8 DEF Proceeds
  <2> QED
    BY <1>11, <1>12, <2>9
<1>23. CASE ~(from + limit - 1 < n)
  <2>1. to = n /\ \A k \in 1..n : ~(to < k)
    BY <1>9, <1>23
  <2>2. \A i \in w.start : SeenBy(v, i)
    BY <1>12, <1>16, <1>21, <2>1 DEF SeenBy
  <2>3. Proceeds(v)
    BY <1>5, <1>12, <1>14, <1>16, <1>20, <1>23, <2>2 DEF Proceeds
  <2> QED
    BY <1>11, <1>12, <2>3
<1> QED
  BY <1>22, <1>23

LEMMA WalkSame ==
  ASSUME WalkInv, UNCHANGED <<born, present, walk>> PROVE WalkInv'
<1>1. walk.whole' = walk.whole
  OBVIOUS
<1>2. Proceeds(walk) => Proceeds(walk)'
  BY DEF Proceeds, Descends, Resumes, SeenBy, ComesAfter
<1> QED
  BY <1>1, <1>2 DEF WalkInv

(* A snapshot that is saved meanwhile leaves all that was there in place.  *)
LEMMA WalkSaves ==
  ASSUME StoreOK, WalkInv, NEW i \in SnapId, NEW h \in Host, NEW day \in 0..LastDay,
         SaveSnapshot(i, h, day)
  PROVE  WalkInv'
<1>1. /\ i \notin Saved /\ present' = present \cup {i} /\ walk' = walk
      /\ \A k \in Saved : born'[k] = born[k]
  BY DEF SaveSnapshot, Saved
<1>2. \A k, l \in present : ComesAfter(k, l)' <=> ComesAfter(k, l)
  BY <1>1 DEF StoreOK, ComesAfter
<1>3. ASSUME Proceeds(walk) PROVE Proceeds(walk)'
  <2>1. /\ Descends(walk.seen) /\ walk.start \subseteq present
        /\ \A n \in DOMAIN walk.seen : walk.seen[n] \in present
    BY <1>3 DEF Proceeds, Descends
  <2>2. Descends(walk.seen)'
    BY <1>1, <1>2, <2>1 DEF Descends
  <2>3. walk.open => Resumes(walk)'
    <3> SUFFICES ASSUME walk.open PROVE Resumes(walk)'
      OBVIOUS
    <3>1. Resumes(walk)
      BY <1>3 DEF Proceeds
    <3>2. walk.cursor \in present
      BY <2>1, <3>1 DEF Resumes
    <3> QED
      BY <1>1, <1>2, <2>1, <3>1, <3>2 DEF Resumes, SeenBy
  <2>4. ~walk.open => \A k \in walk.start : SeenBy(walk, k)
    BY <1>3 DEF Proceeds
  <2> QED
    BY <1>1, <2>1, <2>2, <2>3, <2>4 DEF Proceeds, SeenBy
<1> QED
  BY <1>1, <1>3 DEF WalkInv

LEMMA WalkPages ==
  ASSUME StoreOK, WalkInv, NEW limit \in PageLimit,
         WalkStarts(limit) \/ WalkContinues(limit)
  PROVE  WalkInv'
<1>1. UNCHANGED <<born, present>>
  BY DEF WalkStarts, WalkContinues, storeVars
<1>2. PICK v : v = walk'
  OBVIOUS
<1>3. Proceeds(v)' <=> Proceeds(v)
  BY <1>1, <1>2 DEF Proceeds, Descends, Resumes, SeenBy, ComesAfter
<1>4. CASE WalkStarts(limit)
  <2>1. PICK w : w = [NoWalk EXCEPT !.start = present]
    OBVIOUS
  <2>2. /\ IsWalk(w)
        /\ w.cursor = NoCursor /\ w.seen = << >> /\ w.start = present
    BY <2>1 DEF NoWalk, Fields, IsWalk
  <2>3. v = TakePage(w, limit)
    BY <1>2, <1>4, <2>1 DEF WalkStarts
  <2>4. IsWalk(v) /\ Proceeds(v)
    BY <2>2, <2>3, PageTaken, NextPage DEF Starts
  <2> QED
    BY <1>2, <1>3, <2>4 DEF WalkInv
<1>5. CASE WalkContinues(limit)
  <2>1. v = TakePage(walk, limit) /\ walk.open
    BY <1>2, <1>5 DEF WalkContinues
  <2>2. IsWalk(walk) /\ (walk.whole => Proceeds(walk))
    BY DEF WalkInv
  <2>3. IsWalk(v) /\ v.whole = walk.whole
    BY <2>1, <2>2, PageTaken
  <2>4. walk.whole => Proceeds(v)
    BY <2>1, <2>2, NextPage DEF Proceeds
  <2> QED
    BY <1>2, <1>3, <2>3, <2>4 DEF WalkInv, IsWalk
<1> QED
  BY <1>4, <1>5

LEMMA WalkNext == RetentionInv /\ WalkInv /\ [Next]_vars => WalkInv'
<1> SUFFICES ASSUME RetentionInv, WalkInv, [Next]_vars PROVE WalkInv'
  OBVIOUS
<1>0. StoreOK
  BY DEF RetentionInv
<1>1. ASSUME NEW i \in run.prune, PruneNext(i) PROVE WalkInv'
  <2>1. PICK v : v = walk'
    OBVIOUS
  <2>2. v = [walk EXCEPT !.whole = FALSE] /\ walk = [f \in Fields |-> walk[f]]
    BY <1>1, <2>1 DEF PruneNext, WalkInv, IsWalk
  <2>3. IsWalk(v) /\ ~v.whole
    BY <2>2 DEF IsWalk, Fields
  <2> QED
    BY <2>1, <2>3 DEF WalkInv, IsWalk
<1>2. ASSUME NEW i \in SnapId, NEW h \in Host, NEW day \in 0..LastDay, SaveSnapshot(i, h, day)
      PROVE  WalkInv'
  BY <1>0, <1>2, WalkSaves
<1>3. ASSUME NEW limit \in PageLimit, WalkStarts(limit) \/ WalkContinues(limit)
      PROVE  WalkInv'
  BY <1>0, <1>3, WalkPages
<1>4. CASE NextDay
  BY <1>4, WalkSame DEF NextDay, storeVars
<1>5. CASE \E strategy \in Strategy, days \in RetentionDays : ExecuteStarts(strategy, days)
  BY <1>5, WalkSame DEF ExecuteStarts, storeVars
<1>6. CASE \E i \in present, written \in Written : ArchiveNext(i, written)
  BY <1>6, WalkSame DEF ArchiveNext
<1>7. CASE ArchiveAborts \/ ExecuteEnds
  BY <1>7, WalkSame DEF ArchiveAborts, ExecuteEnds, storeVars
<1>8. CASE \E g \in run.todo : run.strategy = "downsample" /\ \E i \in g : KeepLatest(g, i)
  BY <1>8, WalkSame DEF KeepLatest
<1>9. CASE UNCHANGED vars
  BY <1>9, WalkSame DEF vars, storeVars
<1> QED
  BY <1>1, <1>2, <1>3, <1>4, <1>5, <1>6, <1>7, <1>8, <1>9 DEF Next, RunNext, SnapNext

LEMMA WalkInit == Init => WalkInv
<1> SUFFICES ASSUME Init PROVE WalkInv
  OBVIOUS
<1>1. /\ IsWalk(walk) /\ walk.seen = << >> /\ walk.start = {} /\ walk.open = FALSE
  BY DEF Init, SnapInit, NoWalk, IsWalk, Fields
<1>2. Descends(walk.seen)
  BY <1>1, ShortLists DEF Descends
<1> QED
  BY <1>1, <1>2 DEF WalkInv, Proceeds

(* A client that walks over the pages, of whatever sizes, sees everything  *)
(* that was there when it began exactly once, whatever is saved, backdated *)
(* or archived meanwhile, unless something is pruned                       *)
(* (ListSnapshotsKeyset).                                                  *)
THEOREM WalksAreComplete == Spec => []WalkIsComplete
<1>1. RetentionInv /\ WalkInv => WalkIsComplete
  <2> SUFFICES ASSUME StoreOK, Proceeds(walk)
               PROVE  /\ \A i \in Saved : Sightings(i) <= 1
                      /\ ~walk.open => \A i \in walk.start : Sightings(i) = 1
    BY DEF RetentionInv, WalkInv, WalkIsComplete
  <2>1. \A m, n \in DOMAIN walk.seen : walk.seen[m] = walk.seen[n] => m = n
    <3>1. /\ IsList(walk.seen) /\ \A n \in DOMAIN walk.seen : walk.seen[n] \in present
          /\ \A m, n \in DOMAIN walk.seen : m < n => ComesAfter(walk.seen[n], walk.seen[m])
      BY DEF Proceeds, Descends
    <3>2. DOMAIN walk.seen = 1..Len(walk.seen) /\ Len(walk.seen) \in Nat
      BY <3>1, ListDomain
    <3>3. \A m, n \in DOMAIN walk.seen : m = n \/ m < n \/ n < m
      BY <3>2
    <3> QED
      BY <3>1, <3>3, PagesAreOrdered
  <2>2. ASSUME NEW i
        PROVE  /\ Sightings(i) \in {0, 1}
               /\ SeenBy(walk, i) => Sightings(i) = 1
    <3>1. PICK S : S = {n \in DOMAIN walk.seen : walk.seen[n] = i}
      OBVIOUS
    <3>2. CASE S = {}
      <4>1. Sightings(i) = 0
        BY <3>1, <3>2, FS_EmptySet DEF Sightings
      <4> QED
        BY <3>1, <3>2, <4>1 DEF SeenBy
    <3>3. CASE S # {}
      <4>1. PICK n : S = {n}
        BY <2>1, <3>1, <3>3
      <4>2. Sightings(i) = 1
        BY <3>1, <4>1, FS_Singleton DEF Sightings
      <4> QED
        BY <4>2
    <3> QED
      BY <3>2, <3>3
  <2> QED
    BY <2>2 DEF Proceeds
<1>2. QED
  BY <1>1, InitRetention, NextRetention, WalkInit, WalkNext, PTL DEF Spec
=============================================================================
