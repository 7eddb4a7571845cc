------------------------------ MODULE JobQueue ------------------------------
(***************************************************************************)
(* The scan job queue of the control plane,                                *)
(* apps/api/internal/queue/job_queue.go: jobs split into one task per      *)
(* host, leased in batches to workers, completed, failed, retried, and     *)
(* reclaimed when a lease runs out.  Every method holds the queue's mutex  *)
(* from its first to its last line, so each one is a single action.        *)
(*                                                                         *)
(* Time is kept relative: leaseLeft[t] is LeaseExpiresAt minus the current *)
(* time, counted in ticks and floored at Expired.  A lease that ends at    *)
(* this very instant (0) is still good: the code reclaims with a strict    *)
(* LeaseExpiresAt.Before(now).                                             *)
(*                                                                         *)
(* The workers are the queue's clients.  A worker knows how long each      *)
(* lease it was handed has left, by its own reckoning (handleLeft).  The   *)
(* queue identifies a report by the task's ID alone, so a task that was    *)
(* ever handed out may also be reported late or twice; MaxLate bounds how  *)
(* many such reports a behaviour contains, and 0 makes every worker report *)
(* a handle at most once and within its lease.                             *)
(***************************************************************************)
EXTENDS Integers, FiniteSets

CONSTANTS
  Job,          \* identifiers of jobs
  Task,         \* identifiers of tasks (uuid.New in EnqueueJob)
  Worker,       \* identifiers of workers
  NoJob,        \* the job of a task that does not exist
  NoWorker,     \* LeasedByWorker = ""
  BatchSize,    \* the batch sizes workers ask for
  LeaseTicks,   \* the lease durations workers ask for, in ticks
  MaxRetries,   \* HostTask.MaxRetries
  MaxLate,      \* bound: reports made late or repeated
  MaxRestarts   \* bound: restarts of the API process

ASSUME QueueAssumption ==
  /\ IsFiniteSet(Task)
  /\ NoJob \notin Job
  /\ NoWorker \notin Worker
  /\ BatchSize \subseteq Int
  /\ LeaseTicks \subseteq Nat
  /\ MaxRetries \in Nat
  /\ MaxLate \in Nat
  /\ MaxRestarts \in Nat

VARIABLES
  status,         \* HostTask.Status, "absent" for an ID not in q.tasks
  taskJob,        \* HostTask.JobID
  retryCount,     \* HostTask.RetryCount
  leasedBy,       \* HostTask.LeasedByWorker
  leaseLeft,      \* HostTask.LeaseExpiresAt, relative to now
  jobStatus,      \* JobEntry.Status, "absent" for an ID not in q.jobs
  totalHosts,     \* JobEntry.TotalHosts
  scannedHosts,   \* JobEntry.ScannedHosts
  compliantHosts, \* JobEntry.CompliantHosts
  failedHosts,    \* JobEntry.FailedHosts
  issued,         \* task IDs uuid.New has returned so far
  handed,         \* task IDs LeaseBatch has handed to a worker so far
  handleLeft,     \* per worker and task, what is left of the lease it was handed
  late,           \* late or repeated reports made so far
  restarts        \* restarts of the API process so far

taskVars == <<status, taskJob, retryCount, leasedBy, leaseLeft>>
counters == <<scannedHosts, compliantHosts, failedHosts>>
jobVars  == <<jobStatus, totalHosts, counters>>
workVars == <<handed, handleLeft>>
vars     == <<taskVars, jobVars, issued, workVars, late, restarts>>

Expired == -1

TaskStatus == {"pending", "leased", "completed", "failed"}
Terminal   == {"completed", "failed"}
JobStatus  == {"queued", "in_progress", "completed"}

TasksOf(j)    == {t \in Task : taskJob[t] = j}
With(st)      == {t \in Task : status[t] = st}
Settled(j)    == {t \in TasksOf(j) : status[t] \in Terminal}

-----------------------------------------------------------------------------
EachTask(v) == [t \in Task |-> v]
EachJob(v)  == [j \in Job |-> v]

(* NewPersistentJobQueue: two empty maps. *)
Init ==
  /\ status = EachTask("absent")
  /\ taskJob = EachTask(NoJob)
  /\ retryCount = EachTask(0)
  /\ leasedBy = EachTask(NoWorker)
  /\ leaseLeft = EachTask(Expired)
  /\ jobStatus = EachJob("absent")
  /\ totalHosts = EachJob(0)
  /\ scannedHosts = EachJob(0)
  /\ compliantHosts = EachJob(0)
  /\ failedHosts = EachJob(0)
  /\ issued = {}
  /\ handed = {}
  /\ handleLeft = [w \in Worker |-> EachTask(Expired)]
  /\ late = 0
  /\ restarts = 0

(* EnqueueJob: a job under a fresh ID and one pending task per target host. *)
(* S may be empty: an empty target list is not refused.                     *)
EnqueueJob(j, S) ==
  /\ jobStatus[j] = "absent"
  /\ S \cap issued = {}
  /\ jobStatus' = [jobStatus EXCEPT ![j] = "queued"]
  /\ totalHosts' = [totalHosts EXCEPT ![j] = Cardinality(S)]
  /\ status' = [t \in Task |-> IF t \in S THEN "pending" ELSE status[t]]
  /\ taskJob' = [t \in Task |-> IF t \in S THEN j ELSE taskJob[t]]
  /\ retryCount' = [t \in Task |-> IF t \in S THEN 0 ELSE retryCount[t]]
  /\ issued' = issued \cup S
  /\ UNCHANGED <<leasedBy, leaseLeft, counters, workVars, late, restarts>>

(* How many tasks one LeaseBatch call leases when n are pending: the loop  *)
(* tests the batch size only after it has leased a task.                   *)
Granted(n, b) == IF b < 1 THEN 1 ELSE IF n < b THEN n ELSE b

(* The tasks L become this worker's, and their queued jobs start. *)
LeaseTo(w, d, L) ==
  /\ status' = [t \in Task |-> IF t \in L THEN "leased" ELSE status[t]]
  /\ leasedBy' = [t \in Task |-> IF t \in L THEN w ELSE leasedBy[t]]
  /\ leaseLeft' = [t \in Task |-> IF t \in L THEN d ELSE leaseLeft[t]]
  /\ jobStatus' = [j \in Job |->
       IF jobStatus[j] = "queued" /\ L \cap TasksOf(j) # {}
       THEN "in_progress" ELSE jobStatus[j]]
  /\ handed' = handed \cup L
  /\ handleLeft' = [handleLeft EXCEPT ![w] =
       [t \in Task |-> IF t \in L THEN d ELSE handleLeft[w][t]]]
  /\ UNCHANGED <<taskJob, retryCount, totalHosts, counters, issued, late, restarts>>

(* LeaseBatch: the loop ranges over a Go map, so any pending tasks may be  *)
(* the ones it leases.                                                     *)
LeaseBatch(w, b, d) ==
  /\ With("pending") # {}
  /\ \E L \in SUBSET With("pending") :
       /\ Cardinality(L) = Granted(Cardinality(With("pending")), b)
       /\ LeaseTo(w, d, L)

-----------------------------------------------------------------------------
(* A worker reports a task while its lease runs, which uses up the handle; *)
(* any other report of a task that was handed out is a late one.           *)
Reports(w, t) ==
  /\ t \in handed
  /\ \/ handleLeft[w][t] >= 0 /\ late' = late
     \/ handleLeft[w][t] = Expired /\ late < MaxLate /\ late' = late + 1
  /\ handleLeft' = [handleLeft EXCEPT ![w][t] = Expired]
  /\ UNCHANGED <<issued, handed, restarts>>

(* Fault: finalise one host too late. *)
FinalisedLate(j, settled) ==
  IF settled > totalHosts[j] THEN "completed" ELSE jobStatus[j]

(* The finalisation test shared by CompleteTask and FailTask, evaluated on *)
(* the job's counters after the increment.                                 *)
Finalised(j, settled) ==
  IF settled >= totalHosts[j] THEN "completed" ELSE jobStatus[j]

(* A report of an ID the queue does not know (any more) is an error. *)
ReportUnknown(w, t) ==
  /\ Reports(w, t)
  /\ status[t] = "absent"
  /\ UNCHANGED <<taskVars, jobVars>>

(* CompleteTask of a known task: neither its status nor its leaseholder is *)
(* looked at.                                                              *)
Complete(w, t, isCompliant) ==
  /\ Reports(w, t)
  /\ status[t] # "absent"
  /\ status' = [status EXCEPT ![t] = "completed"]
  /\ LET j == taskJob[t] IN
     /\ scannedHosts' = [scannedHosts EXCEPT ![j] = @ + 1]
     /\ compliantHosts' = [compliantHosts EXCEPT ![j] = IF isCompliant THEN @ + 1 ELSE @]
     /\ jobStatus' = [jobStatus EXCEPT ![j] =
          Finalised(j, scannedHosts[j] + 1 + failedHosts[j])]
  /\ UNCHANGED <<taskJob, retryCount, leasedBy, leaseLeft, totalHosts, failedHosts>>

CompleteTask(w, t, isCompliant) ==
  Complete(w, t, isCompliant) \/ ReportUnknown(w, t)

(* Fault: one retry too many. *)
RetriesLeftOffByOne(t) == retryCount[t] <= MaxRetries

(* FailTask retries a task while this holds. *)
RetriesLeft(t) == retryCount[t] < MaxRetries

(* FailTask while the task has retries left: back to pending, lease gone.  *)
FailRetry(w, t) ==
  /\ Reports(w, t)
  /\ status[t] # "absent"
  /\ RetriesLeft(t)
  /\ retryCount' = [retryCount EXCEPT ![t] = @ + 1]
  /\ status' = [status EXCEPT ![t] = "pending"]
  /\ leasedBy' = [leasedBy EXCEPT ![t] = NoWorker]
  /\ leaseLeft' = [leaseLeft EXCEPT ![t] = Expired]
  /\ UNCHANGED <<taskJob, jobVars>>

(* FailTask with a permanent error, or with the retries used up.           *)
FailForGood(w, t, retryable) ==
  /\ Reports(w, t)
  /\ status[t] # "absent"
  /\ ~(retryable /\ RetriesLeft(t))
  /\ status' = [status EXCEPT ![t] = "failed"]
  /\ LET j == taskJob[t] IN
     /\ failedHosts' = [failedHosts EXCEPT ![j] = @ + 1]
     /\ jobStatus' = [jobStatus EXCEPT ![j] =
          Finalised(j, scannedHosts[j] + failedHosts[j] + 1)]
  /\ UNCHANGED <<taskJob, retryCount, leasedBy, leaseLeft,
                 totalHosts, scannedHosts, compliantHosts>>

(* Fault: a host that failed for good is not counted. *)
FailTaskUncounted(w, t, retryable) ==
  \/ retryable /\ FailRetry(w, t)
  \/ /\ Reports(w, t)
     /\ status[t] # "absent" /\ ~(retryable /\ RetriesLeft(t))
     /\ status' = [status EXCEPT ![t] = "failed"]
     /\ UNCHANGED <<taskJob, retryCount, leasedBy, leaseLeft, jobVars>>

FailTask(w, t, retryable) ==
  \/ retryable /\ FailRetry(w, t)
  \/ FailForGood(w, t, retryable)
  \/ ReportUnknown(w, t)

-----------------------------------------------------------------------------
(* Faults: a lease reclaimed at its last instant, a settled task reclaimed, *)
(* a task out of retries never reclaimed.                                   *)
LeaseOverEarly(t)     == status[t] = "leased" /\ leaseLeft[t] <= 0
LeaseOverSettled(t)   == status[t] \notin {"absent", "pending"} /\ leaseLeft[t] < 0
LeaseOverRetryable(t) == status[t] = "leased" /\ leaseLeft[t] < 0 /\ RetriesLeft(t)

(* LeaseExpiresAt.Before(now) for a leased task. *)
LeaseOver(t) == status[t] = "leased" /\ leaseLeft[t] < 0

(* ReclaimExpiredLeases: every overdue task goes back to pending; its      *)
(* retry count is left as it is.                                           *)
ReclaimExpiredLeases ==
  /\ \E t \in Task : LeaseOver(t)
  /\ status' = [t \in Task |-> IF LeaseOver(t) THEN "pending" ELSE status[t]]
  /\ leasedBy' = [t \in Task |-> IF LeaseOver(t) THEN NoWorker ELSE leasedBy[t]]
  /\ leaseLeft' = [t \in Task |-> IF LeaseOver(t) THEN Expired ELSE leaseLeft[t]]
  /\ UNCHANGED <<taskJob, retryCount, jobVars, issued, workVars, late, restarts>>

Sooner(n) == IF n >= 0 THEN n - 1 ELSE Expired

(* Time passes while some lease is running. *)
Tick ==
  /\ \/ \E t \in Task : leaseLeft[t] >= 0
     \/ \E w \in Worker, t \in Task : handleLeft[w][t] >= 0
  /\ leaseLeft' = [t \in Task |-> Sooner(leaseLeft[t])]
  /\ handleLeft' = [w \in Worker |-> [t \in Task |-> Sooner(handleLeft[w][t])]]
  /\ UNCHANGED <<status, taskJob, retryCount, leasedBy, jobVars, issued, handed, late, restarts>>

(* A worker dies in the middle of a batch, and its leases are orphaned. *)
WorkerCrash(w) ==
  /\ \E t \in Task : handleLeft[w][t] >= 0
  /\ handleLeft' = [handleLeft EXCEPT ![w] = EachTask(Expired)]
  /\ UNCHANGED <<taskVars, jobVars, issued, handed, late, restarts>>

(* The API process restarts: the maps are rebuilt empty, the workers live  *)
(* on with the task IDs they were handed.                                  *)
ProcessRestart ==
  /\ restarts < MaxRestarts
  /\ restarts' = restarts + 1
  /\ status' = EachTask("absent")
  /\ taskJob' = EachTask(NoJob)
  /\ retryCount' = EachTask(0)
  /\ leasedBy' = EachTask(NoWorker)
  /\ leaseLeft' = EachTask(Expired)
  /\ jobStatus' = EachJob("absent")
  /\ totalHosts' = EachJob(0)
  /\ scannedHosts' = EachJob(0)
  /\ compliantHosts' = EachJob(0)
  /\ failedHosts' = EachJob(0)
  /\ UNCHANGED <<issued, workVars, late>>

Next ==
  \/ \E j \in Job, S \in SUBSET Task : EnqueueJob(j, S)
  \/ \E w \in Worker, b \in BatchSize, d \in LeaseTicks : LeaseBatch(w, b, d)
  \/ \E w \in Worker, t \in Task, c \in BOOLEAN : CompleteTask(w, t, c)
  \/ \E w \in Worker, t \in Task, r \in BOOLEAN : FailTask(w, t, r)
  \/ ReclaimExpiredLeases
  \/ Tick
  \/ \E w \in Worker : WorkerCrash(w)
  \/ ProcessRestart

Spec == Init /\ [][Next]_vars

-----------------------------------------------------------------------------
(* Every variable stays within its declared range. *)
TypeOK ==
  /\ status \in [Task -> TaskStatus \cup {"absent"}]
  /\ taskJob \in [Task -> Job \cup {NoJob}]
  /\ retryCount \in [Task -> 0..MaxRetries]
  /\ leasedBy \in [Task -> Worker \cup {NoWorker}]
  /\ leaseLeft \in [Task -> Nat \cup {Expired}]
  /\ jobStatus \in [Job -> JobStatus \cup {"absent"}]
  /\ totalHosts \in [Job -> Nat]
  /\ scannedHosts \in [Job -> Nat]
  /\ compliantHosts \in [Job -> Nat]
  /\ failedHosts \in [Job -> Nat]
  /\ issued \in SUBSET Task
  /\ handed \in SUBSET Task
  /\ handleLeft \in [Worker -> [Task -> Nat \cup {Expired}]]
  /\ late \in 0..MaxLate
  /\ restarts \in 0..MaxRestarts

(* The two tables and the workers' handles refer to each other properly: a *)
(* task exists exactly when it has a job, its job exists too, a handle is  *)
(* a task that was handed out, and a job that does not exist counts none.  *)
TablesAgree ==
  /\ \A t \in Task :
       /\ status[t] = "absent" <=> taskJob[t] = NoJob
       /\ status[t] # "absent" => t \in issued /\ jobStatus[taskJob[t]] # "absent"
       /\ t \in handed => t \in issued
       /\ \A w \in Worker : handleLeft[w][t] >= 0 => t \in handed
  /\ \A j \in Job : jobStatus[j] = "absent" =>
       scannedHosts[j] = 0 /\ failedHosts[j] = 0 /\ compliantHosts[j] = 0

(* A host is probed by one worker at a time: while a worker's own lease on *)
(* a task runs, the queue has that task leased to that worker until that   *)
(* very instant, so it can hand it to nobody else (LeaseBatch, Reclaim).   *)
(* Holds as long as no report is late; a restart forgets the task.         *)
LeaseIsExclusive ==
  \A w \in Worker, t \in Task : handleLeft[w][t] >= 0 =>
    \/ status[t] = "absent"
    \/ status[t] = "leased" /\ leasedBy[t] = w /\ leaseLeft[t] = handleLeft[w][t]

(* A job's total is the number of its tasks. *)
HostsCounted == \A j \in Job : totalHosts[j] = Cardinality(TasksOf(j))

(* The progress a job reports is the truth: its counters are the numbers   *)
(* of its hosts, of those completed and of those failed for good, whatever *)
(* was leased, reclaimed, retried or crashed on the way.                   *)
(* Holds as long as no report is late.                                     *)
TallyIsExact ==
  /\ HostsCounted
  /\ \A j \in Job :
       /\ scannedHosts[j] = Cardinality(TasksOf(j) \cap With("completed"))
       /\ failedHosts[j] = Cardinality(TasksOf(j) \cap With("failed"))
       /\ compliantHosts[j] <= scannedHosts[j]

(* Even with late and repeated reports a job never shows less progress     *)
(* than its hosts have made: the increments of CompleteTask and FailTask   *)
(* can count a host twice but never miss one.                              *)
TallyNeverLags ==
  \A j \in Job : scannedHosts[j] + failedHosts[j] >= Cardinality(Settled(j))

(* A job with hosts whose last host has settled is finalised there and     *)
(* then: no order of reports leaves it open.                               *)
SettledJobIsCompleted ==
  \A j \in Job : TasksOf(j) # {} /\ Settled(j) = TasksOf(j) => jobStatus[j] = "completed"

(* "If all tasks completed, finalize job" (the comment in CompleteTask):   *)
(* a job is shown completed only when each of its hosts has settled.       *)
CompletedJobIsSettled ==
  \A j \in Job : jobStatus[j] = "completed" => Settled(j) = TasksOf(j)

-----------------------------------------------------------------------------
(* What the queue promises its clients: each host of a job is settled once *)
(* and for good, and the job's progress follows (module ScanLedger).       *)
Ledger == INSTANCE ScanLedger WITH
  outcome <- [t \in Task |-> IF status[t] \in {"pending", "leased"} THEN "open" ELSE status[t]],
  hostsOf <- [j \in Job |-> TasksOf(j)],
  scanned <- scannedHosts,
  failed  <- failedHosts,
  done    <- [j \in Job |-> jobStatus[j] = "completed"]

(* The queue implements the ledger when no report is late and the process  *)
(* does not restart.                                                       *)
ImplementsLedger == Ledger!Spec

(* Some worker reports the task while its lease runs. *)
ReportInTime(t) ==
  \E w \in Worker :
    /\ handleLeft[w][t] >= 0
    /\ \/ \E c \in BOOLEAN : CompleteTask(w, t, c)
       \/ \E r \in BOOLEAN : FailTask(w, t, r)

(* The queue is passive: workers that keep asking for batches, a janitor   *)
(* that keeps reclaiming, and leases long enough that a host cannot        *)
(* outlive every one of them, are what its callers must provide.           *)
Fairness ==
  /\ WF_vars(\E w \in Worker, b \in BatchSize, d \in LeaseTicks : LeaseBatch(w, b, d))
  /\ WF_vars(ReclaimExpiredLeases)
  /\ WF_vars(Tick)
  /\ \A t \in Task : SF_vars(ReportInTime(t))

FairSpec == Spec /\ Fairness

(* A job with at least one host is eventually completed, however often     *)
(* workers crash, leases run out and reports come late, unless a restart   *)
(* forgets it.                                                             *)
JobFinishes ==
  \A j \in Job : TasksOf(j) # {} ~> jobStatus[j] \in {"completed", "absent"}
=============================================================================
