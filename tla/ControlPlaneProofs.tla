------------------------- MODULE ControlPlaneProofs -------------------------
(***************************************************************************)
(* Proofs about ControlPlane, for any jobs and endpoints, any length of    *)
(* the audit log, and cancellations and tier changes at any moment.        *)
(***************************************************************************)
EXTENDS ControlPlane, SequenceTheorems, TLAPS

Resource == Job \cup Endpoint \cup {"all", "named"}

Action ==
  {"SCAN_JOB_LAUNCHED", "ROLLOUT_TIER_PROMOTED", "ROLLOUT_TIER_BULK_ASSIGNED",
   "ENDPOINT_TIER_MODIFIED", "ENDPOINT_DELETED_INVENTORY"}

Entries == [n : Nat, action : Action, resource : Resource]

(* A job that is being created is nobody's yet, only a job that exists is  *)
(* cancelled, and a simulation that goes on has stages left.               *)
JobOK(j) ==
  /\ launch[j] = "idle" => status[j] = "absent" /\ sim[j] = "none"
  /\ cancel[j] = "found" => status[j] # "absent"
  /\ sim[j] # "done" => stage[j] < Stages

JobsOK ==
  /\ status \in [Job -> {"absent", "running", "completed", "cancelled"}]
  /\ stage \in [Job -> 0..Stages]
  /\ sim \in [Job -> {"none", "sleeping", "updating", "done"}]
  /\ launch \in [Job -> {"idle", "created", "done"}]
  /\ cancel \in [Job -> {"idle", "found"}]
  /\ \A j \in Job : JobOK(j)

LogOK ==
  /\ written \in 0..MaxWritten
  /\ auditLogs \in Seq(Entries)
  /\ \A i \in DOMAIN auditLogs : auditLogs[i].n \in 1..written

TiersOK == tier \in [Endpoint -> Tier]

CPInv == JobsOK /\ LogOK /\ TiersOK

-----------------------------------------------------------------------------
(* The audit log *)

LEMMA EntryType ==
  ASSUME NEW action \in Action, NEW resource \in Resource, written \in Nat
  PROVE  /\ Entry(action, resource) \in Entries
         /\ Entry(action, resource).n = written + 1
         /\ Entry(action, resource).resource = resource
BY DEF Entry, Entries

(* An entry at the front, with what the cut leaves of the log behind it.   *)
LEMMA AddKeepsLog ==
  ASSUME LogOK, NEW action \in Action, NEW resource \in Resource,
         AddAuditLog(action, resource)
  PROVE  LogOK'
<1> DEFINE e == Entry(action, resource)
           log == <<e>> \o auditLogs
<1>1. written \in Nat /\ MaxWritten \in Nat /\ MaxEntries \in Nat \ {0}
  BY AuditAssumption DEF LogOK
<1>2. written' = written + 1 /\ written' \in 0..MaxWritten
  BY <1>1 DEF AddAuditLog, EntryWritten
<1>3. e \in Entries /\ e.n = written + 1
  BY <1>1, EntryType
<1>4. auditLogs' = IF Len(log) > MaxEntries THEN SubSeq(log, 1, MaxEntries) ELSE log
  BY DEF AddAuditLog
<1> HIDE DEF e
<1>5. auditLogs \in Seq(Entries)
  BY DEF LogOK
<1>6. \A i \in DOMAIN auditLogs : auditLogs[i].n \in 1..written
  BY DEF LogOK
<1>7. <<e>> \in Seq(Entries) /\ Len(<<e>>) = 1 /\ <<e>>[1] = e
  BY <1>3
<1>8. log \in Seq(Entries) /\ Len(log) = 1 + Len(auditLogs)
  BY <1>5, <1>7, ConcatProperties
<1>9. ASSUME NEW i \in 1..Len(log) PROVE log[i].n \in 1..written'
  <2>1. CASE i = 1
    <3>1. log[i] = e
      BY <1>5, <1>7, <2>1, ConcatProperties
    <3> QED
      BY <1>1, <1>2, <1>3, <3>1
  <2>2. CASE i # 1
    <3>1. Len(auditLogs) \in Nat /\ i - 1 \in DOMAIN auditLogs
      BY <1>5, <1>8, <2>2
    <3>2. log[i] = auditLogs[i - 1]
      BY <1>5, <1>7, <1>8, <2>2, <3>1
    <3> QED
      BY <1>1, <1>2, <1>6, <3>1, <3>2
  <2> QED
    BY <2>1, <2>2
<1> HIDE DEF log
<1>10. CASE Len(log) > MaxEntries
  <2>1. auditLogs' = SubSeq(log, 1, MaxEntries)
    BY <1>4, <1>10
  <2>2. auditLogs' \in Seq(Entries) /\ Len(auditLogs') = MaxEntries
    BY <1>1, <1>8, <1>10, <2>1
  <2>3. \A i \in 1..MaxEntries : i \in 1..Len(log) /\ auditLogs'[i] = log[i]
    BY <1>1, <1>8, <1>10, <2>1
  <2> QED
    BY <1>2, <1>9, <2>2, <2>3 DEF LogOK
<1>11. CASE ~(Len(log) > MaxEntries)
  BY <1>2, <1>4, <1>8, <1>9, <1>11 DEF LogOK
<1> QED
  BY <1>10, <1>11

(* An entry at the end, the newest and so the one with the last number.    *)
LEMMA AppendKeepsLog ==
  ASSUME LogOK, NEW action \in Action, NEW resource \in Resource,
         AppendEntry(action, resource)
  PROVE  LogOK' /\ Last(auditLogs').resource = resource
<1> DEFINE e == Entry(action, resource)
<1>1. written \in Nat /\ MaxWritten \in Nat
  BY AuditAssumption DEF LogOK
<1>2. written' = written + 1 /\ written' \in 0..MaxWritten
  BY <1>1 DEF AppendEntry, EntryWritten
<1>3. e \in Entries /\ e.n = written + 1 /\ e.resource = resource
  BY <1>1, EntryType
<1>4. auditLogs' = Append(auditLogs, e)
  BY DEF AppendEntry
<1> HIDE DEF e
<1>5. auditLogs \in Seq(Entries) /\ \A i \in DOMAIN auditLogs : auditLogs[i].n \in 1..written
  BY DEF LogOK
<1>6. /\ auditLogs' \in Seq(Entries) /\ Len(auditLogs') = Len(auditLogs) + 1
      /\ Len(auditLogs) \in Nat /\ DOMAIN auditLogs = 1..Len(auditLogs)
  BY <1>3, <1>4, <1>5
<1>7. /\ auditLogs'[Len(auditLogs) + 1] = e
      /\ \A i \in 1..Len(auditLogs) : auditLogs'[i] = auditLogs[i]
  BY <1>3, <1>4, <1>5
<1>8. LogOK'
  BY <1>1, <1>2, <1>3, <1>5, <1>6, <1>7 DEF LogOK
<1>9. Last(auditLogs') = e
  BY <1>6, <1>7 DEF Last
<1> QED
  BY <1>3, <1>8, <1>9

-----------------------------------------------------------------------------
(* The jobs *)

LEMMA JobStep ==
  ASSUME CPInv, NEW j \in Job, JobNext(j)
  PROVE  CPInv'
<1> USE DEF Stages
<1>1. TiersOK'
  BY DEF CPInv, TiersOK, JobNext, CreateScanJob, AuditLaunch, StageBegins, StageEnds,
         CancelFinds, CancelWrites
<1>2. LogOK'
  <2>1. CASE AuditLaunch(j)
    BY <2>1, AddKeepsLog DEF AuditLaunch, CPInv, Action, Resource
  <2>2. CASE UNCHANGED auditVars
    BY <2>2 DEF CPInv, LogOK, auditVars
  <2> QED
    BY <2>1, <2>2 DEF JobNext, CreateScanJob, StageBegins, StageEnds, CancelFinds, CancelWrites
<1>3. JobsOK'
  <2>1. CASE CreateScanJob(j)
    BY <2>1 DEF CPInv, JobsOK, JobOK, CreateScanJob
  <2>2. CASE AuditLaunch(j)
    BY <2>2 DEF CPInv, JobsOK, JobOK, AuditLaunch
  <2>3. CASE StageBegins(j)
    BY <2>3 DEF CPInv, JobsOK, JobOK, StageBegins
  <2>4. CASE StageEnds(j)
    BY <2>4 DEF CPInv, JobsOK, JobOK, StageEnds
  <2>5. CASE CancelFinds(j)
    BY <2>5 DEF CPInv, JobsOK, JobOK, CancelFinds
  <2>6. CASE CancelWrites(j)
    BY <2>6 DEF CPInv, JobsOK, JobOK, CancelWrites
  <2> QED
    BY <2>1, <2>2, <2>3, <2>4, <2>5, <2>6 DEF JobNext
<1> QED
  BY <1>1, <1>2, <1>3 DEF CPInv

(* What a job's step does to a job that stands cancelled between two       *)
(* stages: only the end of its simulation, or another cancellation.        *)
LEMMA CancelledStays ==
  ASSUME CPInv, NEW j \in Job, JobNext(j),
         NEW k \in Job, status[k] = "cancelled", sim[k] # "updating"
  PROVE  status'[k] = "cancelled" /\ stage'[k] = stage[k] /\ sim'[k] # "updating"
<1>1. CASE CreateScanJob(j)
  BY <1>1 DEF CPInv, JobsOK, JobOK, CreateScanJob
<1>2. CASE AuditLaunch(j)
  BY <1>2 DEF AuditLaunch
<1>3. CASE StageBegins(j)
  BY <1>3 DEF CPInv, JobsOK, StageBegins
<1>4. CASE StageEnds(j)
  BY <1>4 DEF CPInv, JobsOK, StageEnds
<1>5. CASE CancelFinds(j)
  BY <1>5 DEF CancelFinds
<1>6. CASE CancelWrites(j)
  BY <1>6 DEF CPInv, JobsOK, CancelWrites
<1> QED
  BY <1>1, <1>2, <1>3, <1>4, <1>5, <1>6 DEF JobNext

-----------------------------------------------------------------------------
(* The tiers *)

LEMMA SetTierType ==
  ASSUME TiersOK, NEW S, NEW t \in Tier, SetTier(S, t)
  PROVE  TiersOK'
BY DEF TiersOK, SetTier

LEMMA RankMonotone ==
  ASSUME TiersOK, NEW t \in Tier, PromoteAll(t), NEW e \in Endpoint
  PROVE  Rank[tier'[e]] >= Rank[tier[e]]
<1>1. Rank["pilot"] = 1 /\ Rank["staged"] = 2 /\ Rank["full"] = 3
  BY DEF Rank
<1>2. tier[e] \in {"pilot", "staged", "full"}
  BY DEF TiersOK, Tier
<1>3. t \in {"staged", "full"} /\ tier'[e] = IF EarlierTier(e, t) THEN t ELSE tier[e]
  BY DEF PromoteAll, SetTier
<1> QED
  BY <1>1, <1>2, <1>3 DEF EarlierTier

(* An operation on tiers writes one entry and moves no job; only the       *)
(* promotion of every host is called so in its entry.                      *)
LEMMA TierStep ==
  ASSUME CPInv, TierNext
  PROVE  /\ CPInv'
         /\ UNCHANGED jobVars
         /\ \/ UNCHANGED tier
            \/ \E t \in Tier : PromoteAll(t)
            \/ Last(auditLogs').resource # "all"
<1> USE DEF CPInv, Action, Resource
<1>1. UNCHANGED jobVars
  BY DEF TierNext, PromoteAll, PromoteNamed, BulkAssign, UpdateTier, DeleteEndpoint
<1>2. JobsOK'
  BY <1>1 DEF JobsOK, JobOK, jobVars
<1>3. ASSUME NEW t \in Tier, PromoteAll(t)
      PROVE  LogOK' /\ TiersOK'
  <2>1. LogOK'
    BY <1>3, AppendKeepsLog DEF PromoteAll
  <2> QED
    BY <1>3, <2>1, SetTierType DEF PromoteAll
<1>4. ASSUME NEW S, NEW t \in Tier, PromoteNamed(S, t) \/ BulkAssign(S, t)
      PROVE  LogOK' /\ TiersOK' /\ Last(auditLogs').resource # "all"
  <2>1. LogOK' /\ Last(auditLogs').resource = "named"
    BY <1>4, AppendKeepsLog DEF PromoteNamed, BulkAssign
  <2> QED
    BY <1>4, <2>1, SetTierType DEF PromoteNamed, BulkAssign
<1>5. ASSUME NEW e \in Endpoint, NEW t \in Tier, UpdateTier(e, t)
      PROVE  LogOK' /\ TiersOK' /\ Last(auditLogs').resource # "all"
  <2>1. LogOK' /\ Last(auditLogs').resource = e
    BY <1>5, AppendKeepsLog DEF UpdateTier
  <2> QED
    BY <1>5, <2>1, SetTierType, ControlPlaneAssumption DEF UpdateTier
<1>6. ASSUME NEW e \in Endpoint, DeleteEndpoint(e)
      PROVE  LogOK' /\ TiersOK' /\ UNCHANGED tier
  <2>1. LogOK'
    BY <1>6, AddKeepsLog DEF DeleteEndpoint
  <2> QED
    BY <1>6, <2>1 DEF DeleteEndpoint, TiersOK
<1> QED
  BY <1>1, <1>2, <1>3, <1>4, <1>5, <1>6 DEF TierNext

-----------------------------------------------------------------------------
LEMMA InitInv == CPInit => CPInv
<1> SUFFICES ASSUME CPInit PROVE CPInv
  OBVIOUS
<1>1. JobsOK
  BY DEF CPInit, JobsOK, JobOK, Stages
<1>2. LogOK
  BY AuditAssumption DEF CPInit, AuditInit, LogOK
<1> QED
  BY <1>1, <1>2 DEF CPInv, TiersOK, CPInit

LEMMA StutterInv == CPInv /\ UNCHANGED vars => CPInv'
BY DEF CPInv, JobsOK, JobOK, LogOK, TiersOK, vars, auditVars, jobVars

LEMMA NextInv == CPInv /\ [CPNext]_vars => CPInv'
BY JobStep, TierStep, StutterInv DEF CPNext

LEMMA AlwaysInv == CPSpec => []CPInv
BY InitInv, NextInv, PTL DEF CPSpec

(* Every variable stays within its declared range, however jobs, their     *)
(* cancellations and the changes of tiers interleave.                      *)
THEOREM CPTypeCorrect == CPSpec => []CPTypeOK
<1>1. CPInv => CPTypeOK
  BY DEF CPInv, JobsOK, LogOK, TiersOK, CPTypeOK
<1> QED
  BY <1>1, AlwaysInv, PTL

(* A cancellation that finds no stage in the middle of its update stands:  *)
(* no stage of the simulation can begin, and none is under way to          *)
(* overwrite it (CancelScanJob against runMockScanSimulation).             *)
THEOREM CancellationStands == CPSpec => CancelledBetweenStagesIsFinal
<1> DEFINE Final == \A j \in Job : status[j] = "cancelled" /\ sim[j] # "updating" =>
                      status'[j] = "cancelled" /\ stage'[j] = stage[j] /\ sim'[j] # "updating"
<1>1. CPInv /\ CPNext => Final
  <2>1. CPInv /\ TierNext => Final
    BY TierStep DEF jobVars
  <2> QED
    BY <2>1, CancelledStays DEF CPNext
<1>2. CPInv /\ [CPNext]_vars => [Final]_vars
  BY <1>1
<1> HIDE DEF Final
<1>3. CPSpec => [][Final]_vars
  BY <1>2, AlwaysInv, PTL DEF CPSpec
<1> QED
  BY <1>3 DEF CancelledBetweenStagesIsFinal, Final

(* A promotion that names no host takes none back to an earlier tier, for  *)
(* any hosts in any tiers (PromoteEndpointsTier).                          *)
THEOREM PromotionClimbs == CPSpec => PromoteAllNeverDemotes
<1> DEFINE Promoted == /\ auditLogs' # auditLogs /\ Last(auditLogs').resource = "all"
                       /\ Last(auditLogs').n = written'
           Climbs == \A e \in Endpoint : Rank[tier'[e]] >= Rank[tier[e]]
<1>1. \A t \in Tier : Rank[t] >= Rank[t]
  BY DEF Rank, Tier
<1>2. CPInv /\ UNCHANGED tier => Climbs
  BY <1>1 DEF CPInv, TiersOK
<1>3. CPInv /\ CPNext => (Promoted => Climbs)
  <2> SUFFICES ASSUME CPInv, CPNext, Promoted PROVE Climbs
    OBVIOUS
  <2>1. CASE \E j \in Job : JobNext(j)
    <3>1. UNCHANGED tier
      BY <2>1 DEF JobNext, CreateScanJob, AuditLaunch, StageBegins, StageEnds, CancelFinds,
                  CancelWrites
    <3> QED
      BY <1>2, <3>1
  <2>2. CASE TierNext
    BY <1>2, <2>2, TierStep, RankMonotone DEF CPInv
  <2> QED
    BY <2>1, <2>2 DEF CPNext
<1>4. CPInv /\ [CPNext]_vars => [Promoted => Climbs]_vars
  BY <1>3
<1> HIDE DEF Promoted, Climbs
<1>5. CPSpec => [][Promoted => Climbs]_vars
  BY <1>4, AlwaysInv, PTL DEF CPSpec
<1> QED
  BY <1>5, PTL DEF PromoteAllNeverDemotes, Promoted, Climbs
=============================================================================
