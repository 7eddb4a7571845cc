----------------------------- MODULE ControlPlane -----------------------------
(***************************************************************************)
(* The control plane's scan jobs and rollout tiers, in                     *)
(* apps/api/internal/repository/repository.go and                          *)
(* apps/api/internal/handlers/handlers.go, with the audit log their        *)
(* operations write to.                                                    *)
(*                                                                         *)
(* In development a goroutine per scan job plays the scan in six stages,   *)
(* each under the repository's mutex.  CancelScanJob takes the mutex only  *)
(* to look the job up and writes to the job it got without it, so that the *)
(* write may fall between a stage's check and its update.                  *)
(***************************************************************************)
EXTENDS AuditTrail

CONSTANTS
  Job,      \* identifiers of scan jobs
  Endpoint, \* identifiers of endpoints
  Subnet,   \* the endpoints of one subnet or organizational unit
  isMock    \* whether CreateScanJob launches the simulation

ASSUME ControlPlaneAssumption ==
  /\ IsFiniteSet(Endpoint)
  /\ Subnet \subseteq Endpoint
  /\ "all" \notin Endpoint \* the mark of a promotion of every host
  /\ isMock \in BOOLEAN

VARIABLES
  status,  \* ScanJob.Status, "absent" for an ID not in r.scans
  stage,   \* stages of the simulation written to the job so far
  sim,     \* per job, its goroutine: none, sleeping, updating or done
  launch,  \* per job, the handler that creates it: idle, created or done
  cancel,  \* per job, a cancelling handler: idle or found
  tier     \* Endpoint.RolloutTier

jobVars == <<status, stage, sim, launch, cancel>>
vars    == <<auditVars, jobVars, tier>>

Tier == {"pilot", "staged", "full"}
Rank == [pilot |-> 1, staged |-> 2, full |-> 3]

(* The stages of a simulated scan; the host counts they write are left out. *)
Stages == 6

CPInit ==
  /\ AuditInit
  /\ status = [j \in Job |-> "absent"]
  /\ stage = [j \in Job |-> 0]
  /\ sim = [j \in Job |-> "none"]
  /\ launch = [j \in Job |-> "idle"]
  /\ cancel = [j \in Job |-> "idle"]
  /\ tier \in [Endpoint -> Tier]

(* Nobody holds r.mu for more than one step, but for a stage's update. *)
MutexFree == \A j \in Job : sim[j] # "updating"

-----------------------------------------------------------------------------
(* The CreateScanJob handler: the repository's CreateScanJob ... *)
CreateScanJob(j) ==
  /\ MutexFree
  /\ launch[j] = "idle"
  /\ launch' = [launch EXCEPT ![j] = "created"]
  /\ status' = [status EXCEPT ![j] = "running"]
  /\ sim' = [sim EXCEPT ![j] = IF isMock THEN "sleeping" ELSE "none"]
  /\ UNCHANGED <<auditVars, stage, cancel, tier>>

(* ... and then, as a second step, its audit entry. *)
AuditLaunch(j) ==
  /\ MutexFree
  /\ launch[j] = "created"
  /\ launch' = [launch EXCEPT ![j] = "done"]
  /\ AddAuditLog("SCAN_JOB_LAUNCHED", j)
  /\ UNCHANGED <<status, stage, sim, cancel, tier>>

(* Fault: a cancelled job is not looked for. *)
StageBeginsBlindly(j) ==
  /\ MutexFree /\ sim[j] = "sleeping"
  /\ sim' = [sim EXCEPT ![j] = "updating"]
  /\ UNCHANGED <<auditVars, status, stage, launch, cancel, tier>>

(* A stage of runMockScanSimulation: lock, and look for a cancellation. *)
StageBegins(j) ==
  /\ MutexFree
  /\ sim[j] = "sleeping"
  /\ sim' = [sim EXCEPT ![j] = IF status[j] = "cancelled" THEN "done" ELSE "updating"]
  /\ UNCHANGED <<auditVars, status, stage, launch, cancel, tier>>

(* Fault: the last stage does not complete the job. *)
StageEndsOpen(j) ==
  /\ sim[j] = "updating"
  /\ stage' = [stage EXCEPT ![j] = @ + 1]
  /\ sim' = [sim EXCEPT ![j] = IF stage'[j] = Stages THEN "done" ELSE "sleeping"]
  /\ UNCHANGED <<auditVars, status, launch, cancel, tier>>

(* ... update, and unlock; the last stage completes the job. *)
StageEnds(j) ==
  /\ sim[j] = "updating"
  /\ stage' = [stage EXCEPT ![j] = @ + 1]
  /\ IF stage'[j] = Stages
       THEN sim' = [sim EXCEPT ![j] = "done"] /\ status' = [status EXCEPT ![j] = "completed"]
       ELSE sim' = [sim EXCEPT ![j] = "sleeping"] /\ UNCHANGED status
  /\ UNCHANGED <<auditVars, launch, cancel, tier>>

(* The CancelScanJob handler: GetScanJob hands out the job itself ... *)
CancelFinds(j) ==
  /\ MutexFree
  /\ cancel[j] = "idle"
  /\ status[j] # "absent"
  /\ cancel' = [cancel EXCEPT ![j] = "found"]
  /\ UNCHANGED <<auditVars, status, stage, sim, launch, tier>>

(* ... and the handler writes to it, whatever its status and whoever holds *)
(* the mutex.                                                              *)
CancelWrites(j) ==
  /\ cancel[j] = "found"
  /\ cancel' = [cancel EXCEPT ![j] = "idle"]
  /\ status' = [status EXCEPT ![j] = "cancelled"]
  /\ UNCHANGED <<auditVars, stage, sim, launch, tier>>

-----------------------------------------------------------------------------
SetTier(S, t) == tier' = [e \in Endpoint |-> IF e \in S THEN t ELSE tier[e]]

(* Fault: full hosts are taken for hosts of an earlier tier. *)
EarlierTierAny(e, t) == tier[e] # t

(* The hosts PromoteEndpointsTier picks when the request names none. *)
EarlierTier(e, t) ==
  \/ t = "staged" /\ tier[e] = "pilot"
  \/ t = "full" /\ tier[e] \in {"staged", "pilot"}

(* PromoteEndpointsTier without IDs, subnet or unit. *)
PromoteAll(t) ==
  /\ MutexFree
  /\ t \in {"staged", "full"}
  /\ SetTier({e \in Endpoint : EarlierTier(e, t)}, t)
  /\ AppendEntry("ROLLOUT_TIER_PROMOTED", "all")
  /\ UNCHANGED jobVars

(* PromoteEndpointsTier for the named hosts: their tier is not looked at.  *)
PromoteNamed(S, t) ==
  /\ MutexFree
  /\ t \in {"staged", "full"}
  /\ SetTier(S, t)
  /\ AppendEntry("ROLLOUT_TIER_PROMOTED", "named")
  /\ UNCHANGED jobVars

(* BulkAssignEndpointsTier: any tier; a request that names no host changes *)
(* none.                                                                   *)
BulkAssign(S, t) ==
  /\ MutexFree
  /\ SetTier(S, t)
  /\ AppendEntry("ROLLOUT_TIER_BULK_ASSIGNED", "named")
  /\ UNCHANGED jobVars

(* UpdateEndpointRolloutTier. *)
UpdateTier(e, t) ==
  /\ MutexFree
  /\ SetTier({e}, t)
  /\ AppendEntry("ENDPOINT_TIER_MODIFIED", e)
  /\ UNCHANGED jobVars

(* The DeleteEndpoint handler writes its entry and deletes nothing. *)
DeleteEndpoint(e) ==
  /\ MutexFree
  /\ AddAuditLog("ENDPOINT_DELETED_INVENTORY", e)
  /\ UNCHANGED <<jobVars, tier>>

(* Hosts named by their IDs, or by their subnet or unit. *)
Named == {{e} : e \in Endpoint} \cup {Subnet, Endpoint}

JobNext(j) ==
  \/ CreateScanJob(j) \/ AuditLaunch(j)
  \/ StageBegins(j) \/ StageEnds(j)
  \/ CancelFinds(j) \/ CancelWrites(j)

TierNext ==
  \/ \E t \in Tier : PromoteAll(t) \/ \E S \in Named : PromoteNamed(S, t) \/ BulkAssign(S, t)
  \/ \E t \in Tier : BulkAssign({}, t)
  \/ \E e \in Endpoint : DeleteEndpoint(e) \/ \E t \in Tier : UpdateTier(e, t)

CPNext == (\E j \in Job : JobNext(j)) \/ TierNext

(* The goroutine of a job runs on: its sleeps end, and it gets the mutex. *)
CPFairness ==
  \A j \in Job : SF_vars(StageBegins(j)) /\ WF_vars(StageEnds(j))

CPSpec == CPInit /\ [][CPNext]_vars /\ CPFairness

-----------------------------------------------------------------------------
(* Every variable stays within its declared range. *)
CPTypeOK ==
  /\ written \in 0..MaxWritten
  /\ \A i \in DOMAIN auditLogs : auditLogs[i].n \in 1..written
  /\ status \in [Job -> {"absent", "running", "completed", "cancelled"}]
  /\ stage \in [Job -> 0..Stages]
  /\ sim \in [Job -> {"none", "sleeping", "updating", "done"}]
  /\ launch \in [Job -> {"idle", "created", "done"}]
  /\ cancel \in [Job -> {"idle", "found"}]
  /\ tier \in [Endpoint -> Tier]

(* A cancellation that does not fall into the update of a stage is final:  *)
(* the job stays cancelled, its progress stands still, and no stage that   *)
(* could overwrite it begins any more.                                     *)
CancelledBetweenStagesIsFinal ==
  [][\A j \in Job : status[j] = "cancelled" /\ sim[j] # "updating" =>
       status'[j] = "cancelled" /\ stage'[j] = stage[j] /\ sim'[j] # "updating"]_vars

(* A running job does not run for ever: the simulation completes it unless *)
(* it is cancelled.                                                        *)
JobsEnd ==
  \A j \in Job : isMock => (status[j] = "running" ~> status[j] \in {"completed", "cancelled"})

(* A promotion of everything never takes a host back to an earlier tier,   *)
(* though the other operations may.                                        *)
PromoteAllNeverDemotes ==
  [][(auditLogs' # auditLogs /\ Last(auditLogs').resource = "all"
       /\ Last(auditLogs').n = written') =>
     \A e \in Endpoint : Rank[tier'[e]] >= Rank[tier[e]]]_vars
=============================================================================
