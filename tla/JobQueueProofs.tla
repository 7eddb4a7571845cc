--------------------------- MODULE JobQueueProofs ---------------------------
(***************************************************************************)
(* Machine-checked proofs about JobQueue, for every set of jobs, tasks and *)
(* workers and every value of the bounds.                                  *)
(***************************************************************************)
EXTENDS JobQueue, FiniteSetTheorems, TLAPS

(* The passing of one tick keeps a lease in its range and orders leases.   *)
LEMMA SoonerType ==
  ASSUME NEW n \in Nat \cup {Expired}
  PROVE  /\ Sooner(n) \in Nat \cup {Expired}
         /\ Sooner(n) >= 0 => n >= 0
BY DEF Sooner, Expired

(* What a report does to the handle and to the bound on late reports. *)
LEMMA ReportsType ==
  ASSUME TypeOK, NEW w \in Worker, NEW t \in Task, Reports(w, t)
  PROVE  /\ handleLeft' \in [Worker -> [Task -> Nat \cup {Expired}]]
         /\ late' \in 0..MaxLate
         /\ UNCHANGED <<issued, handed, restarts>>
BY QueueAssumption DEF TypeOK, Reports

(* A task that exists belongs to a job that exists. *)
LEMMA KnownTask ==
  ASSUME TypeOK, TablesAgree, NEW t \in Task, status[t] # "absent"
  PROVE  /\ taskJob[t] \in Job
         /\ jobStatus[taskJob[t]] \in JobStatus
BY QueueAssumption DEF TypeOK, TablesAgree

(* The variables keep their types under every operation of the queue. *)
LEMMA NextType == TypeOK /\ TablesAgree /\ [Next]_vars => TypeOK'
<1> SUFFICES ASSUME TypeOK, TablesAgree, [Next]_vars PROVE TypeOK'
  OBVIOUS
<1>1. ASSUME NEW j \in Job, NEW S \in SUBSET Task, EnqueueJob(j, S) PROVE TypeOK'
  <2>1. Cardinality(S) \in Nat
    BY QueueAssumption, FS_Subset, FS_CardinalityType
  <2>2. QED
    BY <1>1, <2>1, QueueAssumption
    DEF EnqueueJob, TypeOK, counters, workVars, TaskStatus, JobStatus
<1>2. ASSUME NEW w \in Worker, NEW b \in BatchSize, NEW d \in LeaseTicks, LeaseBatch(w, b, d)
      PROVE TypeOK'
  <2>1. PICK L \in SUBSET With("pending") : LeaseTo(w, d, L)
    BY <1>2 DEF LeaseBatch
  <2>2. d \in Nat /\ L \subseteq Task
    BY QueueAssumption DEF With
  <2>3. QED
    BY <2>1, <2>2, QueueAssumption DEF LeaseTo, TypeOK, counters, TaskStatus, JobStatus
<1>3. ASSUME NEW w \in Worker, NEW t \in Task, ReportUnknown(w, t) PROVE TypeOK'
  BY <1>3, ReportsType DEF ReportUnknown, TypeOK, taskVars, jobVars, counters
<1>4. ASSUME NEW w \in Worker, NEW t \in Task, NEW c \in BOOLEAN, Complete(w, t, c) PROVE TypeOK'
  <2>1. taskJob[t] \in Job
    BY <1>4, KnownTask DEF Complete
  <2>2. compliantHosts' \in [Job -> Nat]
    BY <1>4, <2>1 DEF Complete, TypeOK
  <2>3. scannedHosts' \in [Job -> Nat] /\ jobStatus' \in [Job -> JobStatus \cup {"absent"}]
    BY <1>4, <2>1 DEF Complete, TypeOK, Finalised, JobStatus
  <2>4. status' \in [Task -> TaskStatus \cup {"absent"}]
    BY <1>4 DEF Complete, TypeOK, TaskStatus
  <2>5. QED
    BY <1>4, <2>2, <2>3, <2>4, ReportsType DEF Complete, TypeOK
<1>5. ASSUME NEW w \in Worker, NEW t \in Task, FailRetry(w, t) PROVE TypeOK'
  BY <1>5, ReportsType, QueueAssumption DEF FailRetry, RetriesLeft, TypeOK, jobVars, counters, TaskStatus
<1>6. ASSUME NEW w \in Worker, NEW t \in Task, NEW r \in BOOLEAN, FailForGood(w, t, r)
      PROVE TypeOK'
  <2>1. taskJob[t] \in Job
    BY <1>6, KnownTask DEF FailForGood
  <2>2. failedHosts' \in [Job -> Nat] /\ jobStatus' \in [Job -> JobStatus \cup {"absent"}]
    BY <1>6, <2>1 DEF FailForGood, TypeOK, Finalised, JobStatus
  <2>3. status' \in [Task -> TaskStatus \cup {"absent"}]
    BY <1>6 DEF FailForGood, TypeOK, TaskStatus
  <2>4. QED
    BY <1>6, <2>2, <2>3, ReportsType DEF FailForGood, TypeOK
<1>7. CASE ReclaimExpiredLeases
  BY <1>7 DEF ReclaimExpiredLeases, TypeOK, jobVars, counters, workVars, TaskStatus
<1>8. CASE Tick
  BY <1>8, SoonerType DEF Tick, TypeOK, jobVars, counters
<1>9. ASSUME NEW w \in Worker, WorkerCrash(w) PROVE TypeOK'
  BY <1>9 DEF WorkerCrash, TypeOK, taskVars, jobVars, counters, EachTask
<1>10. CASE ProcessRestart
  BY <1>10, QueueAssumption DEF ProcessRestart, TypeOK, workVars, EachTask, EachJob, Expired
<1>11. CASE UNCHANGED vars
  BY <1>11 DEF vars, TypeOK, taskVars, jobVars, counters, workVars
<1> QED
  BY <1>1, <1>2, <1>3, <1>4, <1>5, <1>6, <1>7, <1>8, <1>9, <1>10, <1>11
  DEF Next, CompleteTask, FailTask

(* The tables keep agreeing under every operation of the queue. *)
LEMMA NextTables == TypeOK /\ TablesAgree /\ [Next]_vars => TablesAgree'
<1> SUFFICES ASSUME TypeOK, TablesAgree, [Next]_vars PROVE TablesAgree'
  OBVIOUS
<1>1. ASSUME NEW j \in Job, NEW S \in SUBSET Task, EnqueueJob(j, S) PROVE TablesAgree'
  BY <1>1, QueueAssumption DEF EnqueueJob, TypeOK, TablesAgree, counters, workVars
<1>2. ASSUME NEW w \in Worker, NEW b \in BatchSize, NEW d \in LeaseTicks, LeaseBatch(w, b, d)
      PROVE TablesAgree'
  <2>1. PICK L \in SUBSET With("pending") : LeaseTo(w, d, L)
    BY <1>2 DEF LeaseBatch
  <2>2. d \in Nat /\ L \subseteq Task /\ \A t \in L : status[t] = "pending"
    BY QueueAssumption DEF With
  <2>3. \A t \in Task : status[t] # "absent" => taskJob[t] \in Job
    BY KnownTask
  <2>4. QED
    BY <2>1, <2>2, <2>3, QueueAssumption DEF LeaseTo, TypeOK, TablesAgree, counters
<1>3. ASSUME NEW w \in Worker, NEW t \in Task, ReportUnknown(w, t) PROVE TablesAgree'
  BY <1>3 DEF ReportUnknown, Reports, TypeOK, TablesAgree, taskVars, jobVars, counters, Expired
<1>4. ASSUME NEW w \in Worker, NEW t \in Task, NEW c \in BOOLEAN, Complete(w, t, c)
      PROVE TablesAgree'
  <2>1. taskJob[t] \in Job /\ jobStatus[taskJob[t]] # "absent"
    BY <1>4, KnownTask DEF Complete, JobStatus
  <2>2. \A u \in Task : status'[u] = "absent" <=> status[u] = "absent"
    BY <1>4 DEF Complete, TypeOK
  <2>3. \A j \in Job : jobStatus'[j] = "absent" <=> jobStatus[j] = "absent"
    BY <1>4, <2>1 DEF Complete, TypeOK, Finalised
  <2>4. \A j \in Job : j # taskJob[t] => /\ scannedHosts'[j] = scannedHosts[j]
                                         /\ compliantHosts'[j] = compliantHosts[j]
    BY <1>4, <2>1 DEF Complete, TypeOK
  <2>5. \A u \in Task, v \in Worker : handleLeft'[v][u] >= 0 => handleLeft[v][u] >= 0
    BY <1>4 DEF Complete, Reports, TypeOK, Expired
  <2>6. \A u \in Task : taskJob[u] \in Job \/ taskJob[u] = NoJob
    BY DEF TypeOK
  <2>7. UNCHANGED <<taskJob, failedHosts, issued, handed>>
    BY <1>4, ReportsType DEF Complete
  <2>8. QED
    BY <2>1, <2>2, <2>3, <2>4, <2>5, <2>6, <2>7 DEF TablesAgree
<1>5. ASSUME NEW w \in Worker, NEW t \in Task, FailRetry(w, t) PROVE TablesAgree'
  BY <1>5 DEF FailRetry, Reports, TypeOK, TablesAgree, jobVars, counters, Expired
<1>6. ASSUME NEW w \in Worker, NEW t \in Task, NEW r \in BOOLEAN, FailForGood(w, t, r)
      PROVE TablesAgree'
  <2>1. taskJob[t] \in Job /\ jobStatus[taskJob[t]] # "absent"
    BY <1>6, KnownTask DEF FailForGood, JobStatus
  <2>2. \A u \in Task : status'[u] = "absent" <=> status[u] = "absent"
    BY <1>6 DEF FailForGood, TypeOK
  <2>3. \A j \in Job : jobStatus'[j] = "absent" <=> jobStatus[j] = "absent"
    BY <1>6, <2>1 DEF FailForGood, TypeOK, Finalised
  <2>4. \A j \in Job : j # taskJob[t] => failedHosts'[j] = failedHosts[j]
    BY <1>6, <2>1 DEF FailForGood, TypeOK
  <2>5. \A u \in Task, v \in Worker : handleLeft'[v][u] >= 0 => handleLeft[v][u] >= 0
    BY <1>6 DEF FailForGood, Reports, TypeOK, Expired
  <2>6. \A u \in Task : taskJob[u] \in Job \/ taskJob[u] = NoJob
    BY DEF TypeOK
  <2>7. UNCHANGED <<taskJob, scannedHosts, compliantHosts, issued, handed>>
    BY <1>6, ReportsType DEF FailForGood
  <2>8. QED
    BY <2>1, <2>2, <2>3, <2>4, <2>5, <2>6, <2>7 DEF TablesAgree
<1>7. CASE ReclaimExpiredLeases
  BY <1>7 DEF ReclaimExpiredLeases, LeaseOver, TypeOK, TablesAgree, jobVars, counters, workVars
<1>8. CASE Tick
  <2>1. \A w \in Worker, t \in Task : handleLeft'[w][t] >= 0 => handleLeft[w][t] >= 0
    BY <1>8 DEF Tick, TypeOK, Sooner, Expired
  <2>2. QED
    BY <1>8, <2>1 DEF Tick, TablesAgree, jobVars, counters
<1>9. ASSUME NEW w \in Worker, WorkerCrash(w) PROVE TablesAgree'
  BY <1>9 DEF WorkerCrash, TypeOK, TablesAgree, taskVars, jobVars, counters, EachTask, Expired
<1>10. CASE ProcessRestart
  BY <1>10 DEF ProcessRestart, TypeOK, TablesAgree, workVars, EachTask, EachJob
<1>11. CASE UNCHANGED vars
  BY <1>11 DEF vars, TablesAgree, taskVars, jobVars, counters, workVars
<1> QED
  BY <1>1, <1>2, <1>3, <1>4, <1>5, <1>6, <1>7, <1>8, <1>9, <1>10, <1>11
  DEF Next, CompleteTask, FailTask

(* Types and tables together are inductive (every operation of the queue). *)
THEOREM TypeCorrect == Spec => [](TypeOK /\ TablesAgree)
<1>1. Init => TypeOK /\ TablesAgree
  BY QueueAssumption DEF Init, TypeOK, TablesAgree, EachTask, EachJob, Expired
<1>2. QED
  BY <1>1, NextType, NextTables, PTL DEF Spec

-----------------------------------------------------------------------------
(* Any set of tasks is finite. *)
LEMMA TaskSets ==
  ASSUME NEW S \in SUBSET Task
  PROVE  IsFiniteSet(S) /\ Cardinality(S) \in Nat
BY QueueAssumption, FS_Subset, FS_CardinalityType

LEMMA TasksOfType == \A j \in Job : TasksOf(j) \in SUBSET Task /\ Settled(j) \in SUBSET TasksOf(j)
BY DEF TasksOf, Settled

(* What holds of a job's progress however late its reports are. *)
LateInv == HostsCounted /\ TallyNeverLags /\ SettledJobIsCompleted

(* A step that settles no task and counts nothing keeps LateInv. *)
LEMMA UncountedStep ==
  ASSUME TypeOK, LateInv,
         UNCHANGED <<taskJob, totalHosts, scannedHosts, failedHosts>>,
         \A t \in Task : status'[t] \in Terminal => status[t] \in Terminal,
         \A j \in Job : jobStatus[j] = "completed" => jobStatus'[j] = "completed"
  PROVE  LateInv'
<1>1. \A j \in Job : TasksOf(j)' = TasksOf(j) /\ Settled(j)' \subseteq Settled(j)
  BY DEF TasksOf, Settled
<1>2. \A j \in Job : Cardinality(Settled(j)') <= Cardinality(Settled(j))
  BY <1>1, TasksOfType, TaskSets, FS_Subset
<1>3. \A j \in Job : Cardinality(Settled(j)) \in Nat /\ Cardinality(Settled(j)') \in Nat
  BY <1>1, TasksOfType, TaskSets
<1>4. HostsCounted'
  BY <1>1 DEF LateInv, HostsCounted
<1>5. TallyNeverLags'
  BY <1>2, <1>3 DEF LateInv, TallyNeverLags, TypeOK
<1>6. SettledJobIsCompleted'
  BY <1>1, TasksOfType DEF LateInv, SettledJobIsCompleted
<1> QED
  BY <1>4, <1>5, <1>6 DEF LateInv

(* A step that settles a task and counts it once keeps LateInv. *)
LEMMA CountedStep ==
  ASSUME TypeOK, LateInv,
         NEW t \in Task, NEW st \in Terminal, taskJob[t] \in Job,
         status' = [status EXCEPT ![t] = st],
         UNCHANGED <<taskJob, totalHosts>>,
         scannedHosts' \in [Job -> Nat], failedHosts' \in [Job -> Nat],
         scannedHosts'[taskJob[t]] + failedHosts'[taskJob[t]]
           = scannedHosts[taskJob[t]] + failedHosts[taskJob[t]] + 1,
         \A k \in Job \ {taskJob[t]} : /\ scannedHosts'[k] = scannedHosts[k]
                                       /\ failedHosts'[k] = failedHosts[k],
         jobStatus' = [jobStatus EXCEPT ![taskJob[t]] =
           Finalised(taskJob[t], scannedHosts[taskJob[t]] + failedHosts[taskJob[t]] + 1)]
  PROVE  LateInv'
<1> DEFINE j == taskJob[t]
<1>1. \A k \in Job : TasksOf(k)' = TasksOf(k)
  BY DEF TasksOf
<1>2. Settled(j)' = Settled(j) \cup {t}
  <2>1. status'[t] = st
    BY DEF TypeOK
  <2>2. \A u \in Task \ {t} : status'[u] = status[u]
    BY DEF TypeOK
  <2>3. \A u \in Task : u \in Settled(j)' <=> taskJob[u] = j /\ status'[u] \in Terminal
    BY DEF Settled, TasksOf
  <2>4. \A u \in Task : u \in Settled(j) <=> taskJob[u] = j /\ status[u] \in Terminal
    BY DEF Settled, TasksOf
  <2>5. Settled(j)' \subseteq Task /\ Settled(j) \subseteq Task
    BY DEF Settled, TasksOf
  <2>6. QED
    BY <2>1, <2>2, <2>3, <2>4, <2>5
<1>3. \A k \in Job \ {j} : Settled(k)' = Settled(k)
  BY DEF Settled, TasksOf, TypeOK, Terminal
<1>4. Settled(j) \in SUBSET Task
  BY TasksOfType
<1>5. Cardinality(Settled(j)') <= Cardinality(Settled(j)) + 1 /\ Cardinality(Settled(j)) \in Nat
      /\ Cardinality(Settled(j)') \in Nat
  <2>1. IsFiniteSet(Settled(j)) /\ Cardinality(Settled(j)) \in Nat
    BY <1>4, TaskSets
  <2>2. \/ Cardinality(Settled(j) \cup {t}) = Cardinality(Settled(j)) + 1
        \/ Cardinality(Settled(j) \cup {t}) = Cardinality(Settled(j))
    BY <2>1, FS_AddElement
  <2>3. QED
    BY <1>2, <2>1, <2>2
<1>6. HostsCounted'
  BY <1>1 DEF LateInv, HostsCounted
<1>7. TallyNeverLags'
  <2> SUFFICES ASSUME NEW k \in Job
               PROVE scannedHosts'[k] + failedHosts'[k] >= Cardinality(Settled(k)')
    BY DEF TallyNeverLags
  <2>1. CASE k = j
    BY <1>5, <2>1 DEF LateInv, TallyNeverLags, TypeOK
  <2>2. CASE k # j
    BY <1>3, <2>2 DEF LateInv, TallyNeverLags
  <2> QED
    BY <2>1, <2>2
<1>8. SettledJobIsCompleted'
  <2> SUFFICES ASSUME NEW k \in Job, TasksOf(k)' # {}, Settled(k)' = TasksOf(k)'
               PROVE jobStatus'[k] = "completed"
    BY DEF SettledJobIsCompleted
  <2>1. CASE k = j
    <3>1. Cardinality(Settled(j)') = totalHosts[j]
      BY <1>1, <2>1 DEF LateInv, HostsCounted
    <3>2. scannedHosts[j] + failedHosts[j] + 1 >= totalHosts[j]
      BY <1>5, <3>1 DEF LateInv, TallyNeverLags, TypeOK
    <3>3. QED
      BY <2>1, <3>2 DEF Finalised, TypeOK
  <2>2. CASE k # j
    <3>1. jobStatus'[k] = jobStatus[k]
      BY <2>2 DEF TypeOK
    <3>2. QED
      BY <1>1, <1>3, <2>2, <3>1 DEF LateInv, SettledJobIsCompleted
  <2> QED
    BY <2>1, <2>2
<1> QED
  BY <1>6, <1>7, <1>8 DEF LateInv

(* LateInv is inductive relative to the types and the tables.  The counted *)
(* reports go through CountedStep, an enqueued job brings its own count,   *)
(* a restart empties everything, and no other step settles or counts.      *)
LEMMA NextLate == TypeOK /\ TablesAgree /\ LateInv /\ [Next]_vars => LateInv'
<1> SUFFICES ASSUME TypeOK, TablesAgree, LateInv, [Next]_vars PROVE LateInv'
  OBVIOUS
<1>1. ASSUME NEW j \in Job, NEW S \in SUBSET Task, EnqueueJob(j, S) PROVE LateInv'
  <2>1. \A k \in Job : TasksOf(k)' = IF k = j THEN S ELSE TasksOf(k)
    <3>1. \A t \in Task : taskJob[t] # j
      BY <1>1, QueueAssumption DEF EnqueueJob, TypeOK, TablesAgree
    <3>2. \A t \in S : taskJob[t] = NoJob
      BY <1>1 DEF EnqueueJob, TypeOK, TablesAgree
    <3>3. \A t \in Task : taskJob'[t] = IF t \in S THEN j ELSE taskJob[t]
      BY <1>1 DEF EnqueueJob
    <3>4. \A k \in Job, t \in Task : taskJob'[t] = k <=> IF k = j THEN t \in S ELSE taskJob[t] = k
      BY <3>1, <3>2, <3>3, QueueAssumption
    <3>5. QED
      BY <3>4 DEF TasksOf
  <2>2. \A t \in S : status'[t] = "pending" /\ status[t] = "absent"
    BY <1>1 DEF EnqueueJob, TypeOK, TablesAgree
  <2>3. \A t \in Task \ S : status'[t] = status[t]
    BY <1>1 DEF EnqueueJob
  <2>4. \A k \in Job : Settled(k)' = Settled(k)
    <3>1. \A k \in Job, t \in Task : t \in Settled(k)' <=> t \in TasksOf(k)' /\ status'[t] \in Terminal
      BY DEF Settled, TasksOf
    <3>2. \A k \in Job, t \in Task : t \in Settled(k) <=> t \in TasksOf(k) /\ status[t] \in Terminal
      BY DEF Settled, TasksOf
    <3>3. \A t \in TasksOf(j) : FALSE
      BY <1>1, QueueAssumption DEF EnqueueJob, TypeOK, TablesAgree, TasksOf
    <3>4. \A k \in Job : Settled(k)' \subseteq Task /\ Settled(k) \subseteq Task
      BY DEF Settled, TasksOf
    <3>5. \A k \in Job, t \in Task : t \in Settled(k)' <=> t \in Settled(k)
      BY <2>1, <2>2, <2>3, <3>1, <3>2, <3>3 DEF Terminal
    <3>6. QED
      BY <3>4, <3>5
  <2>5. HostsCounted'
    <3>1. \A k \in Job : totalHosts'[k] = IF k = j THEN Cardinality(S) ELSE totalHosts[k]
      BY <1>1 DEF EnqueueJob, TypeOK
    <3>2. QED
      BY <2>1, <3>1 DEF LateInv, HostsCounted
  <2>6. TallyNeverLags'
    BY <1>1, <2>4 DEF EnqueueJob, LateInv, TallyNeverLags, counters
  <2>7. SettledJobIsCompleted'
    <3> SUFFICES ASSUME NEW k \in Job, TasksOf(k)' # {}, Settled(k)' = TasksOf(k)'
                 PROVE jobStatus'[k] = "completed"
      BY DEF SettledJobIsCompleted
    <3>1. k # j
      <4>1. Settled(j) \cap S = {}
        BY <2>2 DEF Settled, Terminal
      <4>2. QED
        BY <2>1, <2>4, <4>1
    <3>2. QED
      BY <1>1, <2>1, <2>4, <3>1 DEF LateInv, SettledJobIsCompleted, EnqueueJob, TypeOK
  <2>8. QED
    BY <2>5, <2>6, <2>7 DEF LateInv
<1>2. ASSUME NEW w \in Worker, NEW b \in BatchSize, NEW d \in LeaseTicks, LeaseBatch(w, b, d)
      PROVE LateInv'
  <2>1. PICK L \in SUBSET With("pending") : LeaseTo(w, d, L)
    BY <1>2 DEF LeaseBatch
  <2>2. \A t \in Task : status'[t] \in Terminal => status[t] \in Terminal
    BY <2>1 DEF LeaseTo, Terminal
  <2>3. \A j \in Job : jobStatus[j] = "completed" => jobStatus'[j] = "completed"
    BY <2>1 DEF LeaseTo
  <2>4. UNCHANGED <<taskJob, totalHosts, scannedHosts, failedHosts>>
    BY <2>1 DEF LeaseTo, counters
  <2>5. QED
    BY <2>2, <2>3, <2>4, UncountedStep
<1>3. ASSUME NEW w \in Worker, NEW t \in Task, ReportUnknown(w, t) PROVE LateInv'
  BY <1>3, UncountedStep DEF ReportUnknown, taskVars, jobVars, counters
<1>4. ASSUME NEW w \in Worker, NEW t \in Task, NEW c \in BOOLEAN, Complete(w, t, c) PROVE LateInv'
  <2>1. taskJob[t] \in Job
    BY <1>4, KnownTask DEF Complete
  <2>2. scannedHosts' = [scannedHosts EXCEPT ![taskJob[t]] = @ + 1]
        /\ status' = [status EXCEPT ![t] = "completed"]
        /\ UNCHANGED <<taskJob, totalHosts, failedHosts>>
        /\ jobStatus' = [jobStatus EXCEPT ![taskJob[t]] =
             Finalised(taskJob[t], scannedHosts[taskJob[t]] + 1 + failedHosts[taskJob[t]])]
    BY <1>4 DEF Complete
  <2>3. scannedHosts[taskJob[t]] + 1 + failedHosts[taskJob[t]]
          = scannedHosts[taskJob[t]] + failedHosts[taskJob[t]] + 1
        /\ scannedHosts' \in [Job -> Nat] /\ failedHosts' \in [Job -> Nat]
        /\ scannedHosts'[taskJob[t]] = scannedHosts[taskJob[t]] + 1
        /\ \A k \in Job \ {taskJob[t]} : scannedHosts'[k] = scannedHosts[k]
    BY <2>1, <2>2 DEF TypeOK
  <2>4. scannedHosts'[taskJob[t]] + failedHosts'[taskJob[t]]
          = scannedHosts[taskJob[t]] + failedHosts[taskJob[t]] + 1
    BY <2>1, <2>2, <2>3 DEF TypeOK
  <2>5. jobStatus' = [jobStatus EXCEPT ![taskJob[t]] =
          Finalised(taskJob[t], scannedHosts[taskJob[t]] + failedHosts[taskJob[t]] + 1)]
    BY <2>2, <2>3
  <2>6. "completed" \in Terminal
    BY DEF Terminal
  <2>7. QED
    BY <2>1, <2>2, <2>3, <2>4, <2>5, <2>6, CountedStep
<1>5. ASSUME NEW w \in Worker, NEW t \in Task, FailRetry(w, t) PROVE LateInv'
  <2>1. \A u \in Task : status'[u] \in Terminal => status[u] \in Terminal
    BY <1>5 DEF FailRetry, TypeOK, Terminal
  <2>2. QED
    BY <1>5, <2>1, UncountedStep DEF FailRetry, jobVars, counters
<1>6. ASSUME NEW w \in Worker, NEW t \in Task, NEW r \in BOOLEAN, FailForGood(w, t, r)
      PROVE LateInv'
  <2>1. taskJob[t] \in Job
    BY <1>6, KnownTask DEF FailForGood
  <2>2. failedHosts' = [failedHosts EXCEPT ![taskJob[t]] = @ + 1]
        /\ status' = [status EXCEPT ![t] = "failed"]
        /\ UNCHANGED <<taskJob, totalHosts, scannedHosts>>
        /\ jobStatus' = [jobStatus EXCEPT ![taskJob[t]] =
             Finalised(taskJob[t], scannedHosts[taskJob[t]] + failedHosts[taskJob[t]] + 1)]
    BY <1>6 DEF FailForGood
  <2>3. scannedHosts' \in [Job -> Nat] /\ failedHosts' \in [Job -> Nat]
        /\ failedHosts'[taskJob[t]] = failedHosts[taskJob[t]] + 1
        /\ \A k \in Job \ {taskJob[t]} : failedHosts'[k] = failedHosts[k]
    BY <2>1, <2>2 DEF TypeOK
  <2>4. scannedHosts'[taskJob[t]] + failedHosts'[taskJob[t]]
          = scannedHosts[taskJob[t]] + failedHosts[taskJob[t]] + 1
    BY <2>1, <2>2, <2>3 DEF TypeOK
  <2>5. "failed" \in Terminal
    BY DEF Terminal
  <2>6. QED
    BY <2>1, <2>2, <2>3, <2>4, <2>5, CountedStep
<1>7. CASE ReclaimExpiredLeases
  <2>1. \A u \in Task : status'[u] \in Terminal => status[u] \in Terminal
    BY <1>7 DEF ReclaimExpiredLeases, Terminal
  <2>2. QED
    BY <1>7, <2>1, UncountedStep DEF ReclaimExpiredLeases, jobVars, counters
<1>8. CASE Tick
  BY <1>8, UncountedStep DEF Tick, jobVars, counters
<1>9. ASSUME NEW w \in Worker, WorkerCrash(w) PROVE LateInv'
  BY <1>9, UncountedStep DEF WorkerCrash, taskVars, jobVars, counters
<1>10. CASE ProcessRestart
  <2>1. \A j \in Job : TasksOf(j)' = {} /\ Settled(j)' = {}
    BY <1>10, QueueAssumption DEF ProcessRestart, TasksOf, Settled, EachTask
  <2>2. \A j \in Job : totalHosts'[j] = 0 /\ scannedHosts'[j] = 0 /\ failedHosts'[j] = 0
    BY <1>10 DEF ProcessRestart, EachJob
  <2>3. HostsCounted' /\ TallyNeverLags'
    <3>1. \A j \in Job : Cardinality(TasksOf(j)') = 0 /\ Cardinality(Settled(j)') = 0
      BY <2>1, FS_EmptySet
    <3>2. QED
      BY <2>2, <3>1 DEF HostsCounted, TallyNeverLags
  <2>4. SettledJobIsCompleted'
    BY <2>1 DEF SettledJobIsCompleted
  <2>5. QED
    BY <2>3, <2>4 DEF LateInv
<1>11. CASE UNCHANGED vars
  BY <1>11, UncountedStep DEF vars, taskVars, jobVars, counters
<1> QED
  BY <1>1, <1>2, <1>3, <1>4, <1>5, <1>6, <1>7, <1>8, <1>9, <1>10, <1>11
  DEF Next, CompleteTask, FailTask

(* No host a job has settled goes uncounted, and a job whose last host     *)
(* settles is finalised there and then, however late or often workers      *)
(* report (CompleteTask, FailTask).                                        *)
THEOREM ProgressNeverLags == Spec => [](TallyNeverLags /\ SettledJobIsCompleted)
<1>1. Init => LateInv
  <2> SUFFICES ASSUME Init PROVE LateInv
    OBVIOUS
  <2>1. \A j \in Job : TasksOf(j) = {} /\ Settled(j) = {}
    BY QueueAssumption DEF Init, TasksOf, Settled, EachTask
  <2>2. \A j \in Job : totalHosts[j] = 0 /\ scannedHosts[j] = 0 /\ failedHosts[j] = 0
    BY DEF Init, EachJob
  <2>3. HostsCounted /\ TallyNeverLags
    <3>1. \A j \in Job : Cardinality(TasksOf(j)) = 0 /\ Cardinality(Settled(j)) = 0
      BY <2>1, FS_EmptySet
    <3>2. QED
      BY <2>2, <3>1 DEF HostsCounted, TallyNeverLags
  <2>4. SettledJobIsCompleted
    BY <2>1 DEF SettledJobIsCompleted
  <2>5. QED
    BY <2>3, <2>4 DEF LateInv
<1>2. LateInv => TallyNeverLags /\ SettledJobIsCompleted
  BY DEF LateInv
<1>3. QED
  BY <1>1, <1>2, TypeCorrect, NextLate, PTL DEF Spec

-----------------------------------------------------------------------------
(* With timely workers: a report uses a handle whose lease still runs.     *)
LEMMA TimelyReport ==
  ASSUME TypeOK, TablesAgree, LeaseIsExclusive, MaxLate = 0,
         NEW w \in Worker, NEW t \in Task, Reports(w, t)
  PROVE  /\ handleLeft[w][t] >= 0
         /\ \A v \in Worker, u \in Task : handleLeft'[v][u] >= 0 =>
              handleLeft'[v][u] = handleLeft[v][u] /\ ~(v = w /\ u = t)
         /\ status[t] # "absent" =>
              /\ status[t] = "leased"
              /\ \A v \in Worker : handleLeft'[v][t] < 0
<1>1. handleLeft[w][t] >= 0
  BY QueueAssumption DEF Reports, TypeOK
<1>2. \A v \in Worker, u \in Task : handleLeft'[v][u] =
        IF v = w /\ u = t THEN Expired ELSE handleLeft[v][u]
  BY DEF Reports, TypeOK
<1>3. \A v \in Worker : handleLeft[v][t] \in Int /\ handleLeft'[v][t] \in Int
  BY <1>2 DEF TypeOK, Expired
<1>4. ASSUME status[t] # "absent" PROVE status[t] = "leased" /\ leasedBy[t] = w
  BY <1>1, <1>4 DEF LeaseIsExclusive
<1>5. ASSUME status[t] # "absent", NEW v \in Worker PROVE handleLeft'[v][t] < 0
  BY <1>2, <1>3, <1>4, <1>5 DEF LeaseIsExclusive, Expired
<1> QED
  BY <1>1, <1>2, <1>4, <1>5 DEF Expired

(* No operation breaks the exclusiveness of leases. *)
LEMMA NextExclusive ==
  MaxLate = 0 /\ TypeOK /\ TablesAgree /\ LeaseIsExclusive /\ [Next]_vars
    => LeaseIsExclusive'
<1> SUFFICES ASSUME MaxLate = 0, TypeOK, TablesAgree, LeaseIsExclusive, [Next]_vars,
                    NEW v \in Worker, NEW u \in Task, handleLeft'[v][u] >= 0
             PROVE  \/ status'[u] = "absent"
                    \/ /\ status'[u] = "leased" /\ leasedBy'[u] = v
                       /\ leaseLeft'[u] = handleLeft'[v][u]
  BY DEF LeaseIsExclusive
<1> DEFINE Owned == \/ status[u] = "absent"
                    \/ /\ status[u] = "leased" /\ leasedBy[u] = v
                       /\ leaseLeft[u] = handleLeft[v][u]
<1> DEFINE Goal == \/ status'[u] = "absent"
                   \/ /\ status'[u] = "leased" /\ leasedBy'[u] = v
                      /\ leaseLeft'[u] = handleLeft'[v][u]
<1>0. handleLeft[v][u] >= 0 => Owned
  BY DEF LeaseIsExclusive
<1>1. ASSUME NEW j \in Job, NEW S \in SUBSET Task, EnqueueJob(j, S) PROVE Goal
  <2>1. handleLeft[v][u] >= 0 /\ u \in issued
    BY <1>1 DEF EnqueueJob, workVars, TablesAgree
  <2>2. u \notin S
    BY <1>1, <2>1 DEF EnqueueJob
  <2>3. QED
    BY <1>0, <1>1, <2>1, <2>2 DEF EnqueueJob, workVars
<1>2. ASSUME NEW w \in Worker, NEW b \in BatchSize, NEW d \in LeaseTicks, LeaseBatch(w, b, d)
      PROVE Goal
  <2>1. PICK L \in SUBSET With("pending") : LeaseTo(w, d, L)
    BY <1>2 DEF LeaseBatch
  <2>2. CASE u \in L
    <3>1. status[u] = "pending"
      BY <2>2 DEF With
    <3>2. v = w
      BY <1>0, <2>1, <3>1 DEF LeaseTo, TypeOK
    <3>3. QED
      BY <2>1, <2>2, <3>2 DEF LeaseTo, TypeOK
  <2>3. CASE u \notin L
    BY <1>0, <2>1, <2>3 DEF LeaseTo, TypeOK
  <2> QED
    BY <2>2, <2>3
<1>3. ASSUME NEW w \in Worker, NEW t \in Task, Reports(w, t),
             \A x \in Task \ {t} : /\ status'[x] = status[x]
                                   /\ leasedBy'[x] = leasedBy[x]
                                   /\ leaseLeft'[x] = leaseLeft[x],
             status[t] = "absent" => status'[t] = "absent"
      PROVE Goal
  <2>1. handleLeft[v][u] >= 0 /\ handleLeft'[v][u] = handleLeft[v][u]
    BY <1>3, TimelyReport
  <2>2. CASE u = t
    <3>1. handleLeft'[v][t] \in Int
      BY <2>1, <2>2 DEF TypeOK, Expired
    <3>2. QED
      BY <1>3, <2>2, <3>1, TimelyReport
  <2>3. CASE u # t
    BY <1>0, <1>3, <2>1, <2>3
  <2> QED
    BY <2>2, <2>3
<1>4. ASSUME NEW w \in Worker, NEW t \in Task, ReportUnknown(w, t) PROVE Goal
  BY <1>3, <1>4 DEF ReportUnknown, taskVars
<1>5. ASSUME NEW w \in Worker, NEW t \in Task, NEW c \in BOOLEAN, Complete(w, t, c) PROVE Goal
  BY <1>3, <1>5 DEF Complete, TypeOK
<1>6. ASSUME NEW w \in Worker, NEW t \in Task, FailRetry(w, t) PROVE Goal
  BY <1>3, <1>6 DEF FailRetry, TypeOK
<1>7. ASSUME NEW w \in Worker, NEW t \in Task, NEW r \in BOOLEAN, FailForGood(w, t, r)
      PROVE Goal
  BY <1>3, <1>7 DEF FailForGood, TypeOK
<1>8. CASE ReclaimExpiredLeases
  <2>1. handleLeft'[v][u] = handleLeft[v][u]
    BY <1>8 DEF ReclaimExpiredLeases, workVars
  <2>2. ~LeaseOver(u)
    BY <1>0, <2>1 DEF LeaseOver, TypeOK, Expired
  <2>3. QED
    BY <1>0, <1>8, <2>1, <2>2 DEF ReclaimExpiredLeases
<1>9. CASE Tick
  <2>1. /\ handleLeft'[v][u] = Sooner(handleLeft[v][u]) /\ leaseLeft'[u] = Sooner(leaseLeft[u])
        /\ status'[u] = status[u] /\ leasedBy'[u] = leasedBy[u]
    BY <1>9 DEF Tick
  <2>2. handleLeft[v][u] >= 0
    BY <2>1, SoonerType DEF TypeOK
  <2>3. QED
    BY <1>0, <2>1, <2>2
<1>10. ASSUME NEW w \in Worker, WorkerCrash(w) PROVE Goal
  BY <1>0, <1>10 DEF WorkerCrash, TypeOK, taskVars, EachTask, Expired
<1>11. CASE ProcessRestart
  BY <1>11 DEF ProcessRestart, EachTask
<1>12. CASE UNCHANGED vars
  BY <1>0, <1>12 DEF vars, taskVars, workVars
<1> QED
  BY <1>1, <1>2, <1>4, <1>5, <1>6, <1>7, <1>8, <1>9, <1>10, <1>11, <1>12
  DEF Next, CompleteTask, FailTask

(* With workers that report within their leases, a host is probed by one   *)
(* worker at a time, through crashes, retries, expiries and restarts       *)
(* (LeaseBatch, ReclaimExpiredLeases).                                     *)
THEOREM LeasesAreExclusive ==
  ASSUME MaxLate = 0 PROVE Spec => []LeaseIsExclusive
<1>1. Init => LeaseIsExclusive
  BY DEF Init, LeaseIsExclusive, EachTask, Expired
<1>2. TypeOK /\ TablesAgree /\ LeaseIsExclusive /\ [Next]_vars => LeaseIsExclusive'
  BY NextExclusive
<1>3. QED
  BY <1>1, <1>2, TypeCorrect, PTL DEF Spec

-----------------------------------------------------------------------------
(* The tasks of job j with status st: what a counter of j should count. *)
Counted(j, st) == TasksOf(j) \cap With(st)

LEMMA CountedType == \A j \in Job, st \in Terminal :
  Counted(j, st) \in SUBSET Task /\ Counted(j, st) \subseteq Settled(j)
BY DEF Counted, TasksOf, With, Settled

(* The settled hosts of a job are those completed and those failed. *)
LEMMA SettledSplit ==
  \A j \in Job : Cardinality(Settled(j))
    = Cardinality(Counted(j, "completed")) + Cardinality(Counted(j, "failed"))
<1> SUFFICES ASSUME NEW j \in Job
             PROVE Cardinality(Settled(j))
               = Cardinality(Counted(j, "completed")) + Cardinality(Counted(j, "failed"))
  OBVIOUS
<1>1. Settled(j) = Counted(j, "completed") \cup Counted(j, "failed")
  BY DEF Settled, Counted, TasksOf, With, Terminal
<1>2. Counted(j, "completed") \cap Counted(j, "failed") = {}
  BY DEF Counted, With
<1>3. Counted(j, "completed") \in SUBSET Task /\ Counted(j, "failed") \in SUBSET Task
  BY DEF Counted, TasksOf
<1>4. /\ IsFiniteSet(Counted(j, "completed")) /\ IsFiniteSet(Counted(j, "failed"))
      /\ Cardinality(Counted(j, "completed")) \in Nat /\ Cardinality(Counted(j, "failed")) \in Nat
  BY <1>3, TaskSets
<1>5. Cardinality(Counted(j, "completed") \cap Counted(j, "failed")) = 0
  BY <1>2, FS_EmptySet
<1>6. Cardinality(Counted(j, "completed") \cup Counted(j, "failed"))
        = Cardinality(Counted(j, "completed")) + Cardinality(Counted(j, "failed"))
          - Cardinality(Counted(j, "completed") \cap Counted(j, "failed"))
  BY <1>4, FS_Union
<1>7. QED
  BY <1>1, <1>4, <1>5, <1>6

(* What holds of a job's progress as long as no report is late. *)
ExactInv == TallyIsExact /\ CompletedJobIsSettled

(* A step that settles and counts nothing keeps ExactInv. *)
LEMMA UncountedExact ==
  ASSUME TypeOK, ExactInv,
         UNCHANGED <<taskJob, totalHosts, scannedHosts, failedHosts, compliantHosts>>,
         \A t \in Task, st \in Terminal : status'[t] = st <=> status[t] = st,
         \A j \in Job : jobStatus'[j] = "completed" => jobStatus[j] = "completed"
  PROVE  ExactInv'
<1>1. \A j \in Job : TasksOf(j)' = TasksOf(j) /\ Settled(j)' = Settled(j)
  BY DEF TasksOf, Settled, Terminal
<1>2. With("completed")' = With("completed") /\ With("failed")' = With("failed")
  BY DEF With, Terminal
<1>3. TallyIsExact'
  BY <1>1, <1>2 DEF ExactInv, TallyIsExact, HostsCounted
<1>4. CompletedJobIsSettled'
  BY <1>1 DEF ExactInv, CompletedJobIsSettled
<1> QED
  BY <1>3, <1>4 DEF ExactInv

(* The counters' sum is the number of settled hosts, so the job's last     *)
(* open host is the one that brings the sum to the total.                  *)
LEMMA LastHost ==
  ASSUME TypeOK, TablesAgree, ExactInv, NEW t \in Task, status[t] = "leased",
         NEW j \in Job, j = taskJob[t]
  PROVE  /\ t \in TasksOf(j) \ Settled(j)
         /\ jobStatus[j] # "completed"
         /\ scannedHosts[j] + failedHosts[j] + 1 >= totalHosts[j]
              <=> Settled(j) \cup {t} = TasksOf(j)
<1>1. t \in TasksOf(j) \ Settled(j)
  BY DEF TasksOf, Settled, Terminal
<1>2. scannedHosts[j] + failedHosts[j] = Cardinality(Settled(j))
  BY SettledSplit DEF ExactInv, TallyIsExact, Counted
<1>3. totalHosts[j] = Cardinality(TasksOf(j))
  BY DEF ExactInv, TallyIsExact, HostsCounted
<1>4. /\ TasksOf(j) \in SUBSET Task /\ Settled(j) \in SUBSET Task
      /\ Settled(j) \cup {t} \in SUBSET TasksOf(j)
  BY <1>1, TasksOfType
<1>5. IsFiniteSet(TasksOf(j)) /\ IsFiniteSet(Settled(j))
      /\ Cardinality(TasksOf(j)) \in Nat /\ Cardinality(Settled(j)) \in Nat
  BY <1>4, TaskSets
<1>6. Cardinality(Settled(j) \cup {t}) = Cardinality(Settled(j)) + 1
  BY <1>1, <1>5, FS_AddElement
<1>7. /\ Cardinality(Settled(j) \cup {t}) <= Cardinality(TasksOf(j))
      /\ Cardinality(Settled(j) \cup {t}) = Cardinality(TasksOf(j))
           => Settled(j) \cup {t} = TasksOf(j)
  BY <1>4, <1>5, FS_Subset
<1>8. jobStatus[j] # "completed"
  BY <1>1 DEF ExactInv, CompletedJobIsSettled
<1> QED
  BY <1>1, <1>2, <1>3, <1>5, <1>6, <1>7, <1>8

(* A step that gives the leased task t of job j its final status. *)
Settles(t, j, st) ==
  /\ status[t] = "leased" /\ taskJob[t] = j
  /\ status' = [status EXCEPT ![t] = st]
  /\ taskJob' = taskJob

(* Settling a leased task adds it to one counted set and to no other. *)
LEMMA SettleSets ==
  ASSUME TypeOK, NEW t \in Task, NEW j \in Job, NEW st \in Terminal, Settles(t, j, st)
  PROVE  /\ \A k \in Job : TasksOf(k)' = TasksOf(k)
         /\ Settled(j)' = Settled(j) \cup {t}
         /\ \A k \in Job \ {j} : Settled(k)' = Settled(k)
         /\ Counted(j, st)' = Counted(j, st) \cup {t}
         /\ t \notin Counted(j, st)
         /\ \A k \in Job \ {j}, s \in Terminal : Counted(k, s)' = Counted(k, s)
         /\ \A s \in Terminal \ {st} : Counted(j, s)' = Counted(j, s)
<1>1. \A u \in Task : status'[u] = IF u = t THEN st ELSE status[u]
  BY DEF Settles, TypeOK
<1>2. \A k \in Job : TasksOf(k)' = TasksOf(k)
  BY DEF Settles, TasksOf
<1>3. \A k \in Job, s \in Terminal, u \in Task :
        /\ u \in Counted(k, s)' <=> taskJob[u] = k /\ status'[u] = s
        /\ u \in Counted(k, s) <=> taskJob[u] = k /\ status[u] = s
        /\ u \in Settled(k)' <=> taskJob[u] = k /\ status'[u] \in Terminal
        /\ u \in Settled(k) <=> taskJob[u] = k /\ status[u] \in Terminal
  BY DEF Settles, Counted, Settled, TasksOf, With
<1>4. \A k \in Job, s \in Terminal :
        /\ Counted(k, s)' \subseteq Task /\ Counted(k, s) \subseteq Task
        /\ Settled(k)' \subseteq Task /\ Settled(k) \subseteq Task
  BY DEF Counted, Settled, TasksOf
<1>5. status[t] = "leased" /\ taskJob[t] = j /\ "leased" \notin Terminal
  BY DEF Settles, Terminal
<1>6. ASSUME NEW k \in Job
      PROVE  /\ k = j => Settled(k)' = Settled(k) \cup {t}
             /\ k # j => Settled(k)' = Settled(k)
  <2>1. \A u \in Task : u \in Settled(k)' <=> u \in Settled(k) \/ (k = j /\ u = t)
    BY <1>1, <1>3, <1>5
  <2>2. QED
    BY <1>4, <2>1
<1>7. ASSUME NEW k \in Job, NEW s \in Terminal
      PROVE  /\ k = j /\ s = st => Counted(k, s)' = Counted(k, s) \cup {t}
             /\ ~(k = j /\ s = st) => Counted(k, s)' = Counted(k, s)
  <2>1. \A u \in Task :
          u \in Counted(k, s)' <=> u \in Counted(k, s) \/ (k = j /\ s = st /\ u = t)
    BY <1>1, <1>3, <1>5
  <2>2. QED
    BY <1>4, <2>1
<1>8. t \notin Counted(j, st)
  BY <1>3, <1>5
<1> QED
  BY <1>2, <1>6, <1>7, <1>8

(* A step that settles a leased task and counts it where it belongs keeps  *)
(* ExactInv.                                                               *)
LEMMA CountedExact ==
  ASSUME TypeOK, TablesAgree, ExactInv,
         NEW t \in Task, NEW j \in Job, NEW st \in Terminal,
         Settles(t, j, st), totalHosts' = totalHosts,
         scannedHosts' = [scannedHosts EXCEPT ![j] = IF st = "completed" THEN @ + 1 ELSE @],
         failedHosts' = [failedHosts EXCEPT ![j] = IF st = "failed" THEN @ + 1 ELSE @],
         \A k \in Job : \/ compliantHosts'[k] = compliantHosts[k]
                        \/ k = j /\ st = "completed" /\ compliantHosts'[k] = compliantHosts[k] + 1,
         jobStatus' = [jobStatus EXCEPT ![j] = Finalised(j, scannedHosts[j] + failedHosts[j] + 1)]
  PROVE  ExactInv'
<1>0. /\ \A k \in Job : TasksOf(k)' = TasksOf(k)
      /\ Settled(j)' = Settled(j) \cup {t}
      /\ \A k \in Job \ {j} : Settled(k)' = Settled(k)
      /\ Counted(j, st)' = Counted(j, st) \cup {t} /\ t \notin Counted(j, st)
      /\ \A k \in Job, s \in Terminal : ~(k = j /\ s = st) => Counted(k, s)' = Counted(k, s)
  BY SettleSets
<1>1. \A k \in Job : /\ scannedHosts[k] = Cardinality(Counted(k, "completed"))
                     /\ failedHosts[k] = Cardinality(Counted(k, "failed"))
  BY DEF ExactInv, TallyIsExact, Counted
<1>2. \A k \in Job, s \in Terminal :
        Cardinality(Counted(k, s)') = IF k = j /\ s = st THEN Cardinality(Counted(k, s)) + 1
                                      ELSE Cardinality(Counted(k, s))
  <2>1. IsFiniteSet(Counted(j, st))
    BY CountedType, TaskSets
  <2>2. Cardinality(Counted(j, st) \cup {t}) = Cardinality(Counted(j, st)) + 1
    BY <1>0, <2>1, FS_AddElement
  <2>4. Cardinality(Counted(j, st)') = Cardinality(Counted(j, st)) + 1
    BY <1>0, <2>2
  <2>5. ASSUME NEW k \in Job, NEW s \in Terminal, ~(k = j /\ s = st)
        PROVE  Cardinality(Counted(k, s)') = Cardinality(Counted(k, s))
    <3>1. Counted(k, s)' = Counted(k, s)
      BY <1>0, <2>5
    <3>2. QED
      BY <3>1
  <2>6. QED
    BY <2>4, <2>5
<1>3. \A k \in Job : /\ scannedHosts'[k] = Cardinality(Counted(k, "completed")')
                     /\ failedHosts'[k] = Cardinality(Counted(k, "failed")')
  BY <1>1, <1>2 DEF TypeOK, Terminal
<1>4. HostsCounted'
  BY <1>0 DEF ExactInv, TallyIsExact, HostsCounted
<1>5. \A k \in Job : compliantHosts'[k] <= scannedHosts'[k]
  <2> SUFFICES ASSUME NEW k \in Job PROVE compliantHosts'[k] <= scannedHosts'[k]
    OBVIOUS
  <2>1. compliantHosts[k] <= scannedHosts[k] /\ compliantHosts[k] \in Nat /\ scannedHosts[k] \in Nat
    BY DEF ExactInv, TallyIsExact, TypeOK
  <2>2. scannedHosts'[k] = IF k = j /\ st = "completed" THEN scannedHosts[k] + 1 ELSE scannedHosts[k]
    BY DEF TypeOK
  <2>3. QED
    BY <2>1, <2>2
<1>6. TallyIsExact'
  BY <1>3, <1>4, <1>5 DEF TallyIsExact, Counted
<1>7. CompletedJobIsSettled'
  <2> SUFFICES ASSUME NEW k \in Job, jobStatus'[k] = "completed"
               PROVE Settled(k)' = TasksOf(k)'
    BY DEF CompletedJobIsSettled
  <2>1. CASE k = j
    <3>1. scannedHosts[j] + failedHosts[j] + 1 >= totalHosts[j]
      BY <2>1, LastHost DEF Settles, Finalised, TypeOK
    <3>2. QED
      BY <1>0, <2>1, <3>1, LastHost DEF Settles
  <2>2. CASE k # j
    <3>1. jobStatus[k] = "completed"
      BY <2>2 DEF TypeOK
    <3>2. QED
      BY <1>0, <2>2, <3>1 DEF ExactInv, CompletedJobIsSettled
  <2> QED
    BY <2>1, <2>2
<1> QED
  BY <1>6, <1>7 DEF ExactInv

(* With timely workers, whatever is reported was leased when the report    *)
(* came: no host is settled twice.                                         *)
LEMMA LeasedAtReport ==
  ASSUME TypeOK, TablesAgree, LeaseIsExclusive, MaxLate = 0,
         NEW w \in Worker, NEW t \in Task, Reports(w, t), status[t] # "absent"
  PROVE  status[t] = "leased" /\ taskJob[t] \in Job
BY TimelyReport, KnownTask

(* No operation breaks the exactness of the tallies. *)
LEMMA NextExact ==
  ASSUME MaxLate = 0, TypeOK, TablesAgree, LeaseIsExclusive, ExactInv, [Next]_vars
  PROVE  ExactInv'
<1>1. ASSUME NEW j \in Job, NEW S \in SUBSET Task, EnqueueJob(j, S) PROVE ExactInv'
  <2>1. \A t \in S : status[t] = "absent" /\ taskJob[t] = NoJob
    BY <1>1 DEF EnqueueJob, TypeOK, TablesAgree
  <2>2. \A t \in Task : taskJob[t] # j
    BY <1>1, QueueAssumption DEF EnqueueJob, TypeOK, TablesAgree
  <2>3. \A t \in Task : /\ taskJob'[t] = IF t \in S THEN j ELSE taskJob[t]
                        /\ status'[t] = IF t \in S THEN "pending" ELSE status[t]
    BY <1>1 DEF EnqueueJob
  <2>4. TasksOf(j)' = S
    BY <2>2, <2>3 DEF TasksOf
  <2>5. \A k \in Job \ {j} : TasksOf(k)' = TasksOf(k)
    BY <2>1, <2>3, QueueAssumption DEF TasksOf
  <2>6. \A k \in Job, st \in Terminal : (TasksOf(k) \cap With(st))' = TasksOf(k) \cap With(st)
    <3> SUFFICES ASSUME NEW k \in Job, NEW st \in Terminal, NEW t \in Task
                 PROVE taskJob'[t] = k /\ status'[t] = st <=> taskJob[t] = k /\ status[t] = st
      BY DEF TasksOf, With
    <3>1. CASE t \in S
      BY <2>1, <2>3, <3>1 DEF Terminal
    <3>2. CASE t \notin S
      BY <2>3, <3>2
    <3> QED
      BY <3>1, <3>2
  <2>7. \A k \in Job : Settled(k)' = Settled(k)
    BY <2>6 DEF Settled, With, TasksOf
  <2>8. UNCHANGED <<scannedHosts, compliantHosts, failedHosts>>
        /\ jobStatus' = [jobStatus EXCEPT ![j] = "queued"]
        /\ totalHosts' = [totalHosts EXCEPT ![j] = Cardinality(S)]
    BY <1>1 DEF EnqueueJob, counters
  <2>9. HostsCounted'
    <3>1. \A k \in Job \ {j} : totalHosts'[k] = Cardinality(TasksOf(k)')
      BY <2>5, <2>8 DEF ExactInv, TallyIsExact, HostsCounted, TypeOK
    <3>2. totalHosts'[j] = Cardinality(TasksOf(j)')
      BY <2>4, <2>8 DEF TypeOK
    <3>3. QED
      BY <3>1, <3>2 DEF HostsCounted
  <2>10. \A k \in Job : /\ (TasksOf(k) \cap With("completed"))' = TasksOf(k) \cap With("completed")
                        /\ (TasksOf(k) \cap With("failed"))' = TasksOf(k) \cap With("failed")
    BY <2>6 DEF Terminal
  <2>11. TallyIsExact'
    BY <2>8, <2>9, <2>10 DEF ExactInv, TallyIsExact
  <2>12. CompletedJobIsSettled'
    BY <2>5, <2>7, <2>8 DEF ExactInv, CompletedJobIsSettled, TypeOK
  <2> QED
    BY <2>11, <2>12 DEF ExactInv
<1>2. ASSUME NEW w \in Worker, NEW b \in BatchSize, NEW d \in LeaseTicks, LeaseBatch(w, b, d)
      PROVE ExactInv'
  <2>1. PICK L \in SUBSET With("pending") : LeaseTo(w, d, L)
    BY <1>2 DEF LeaseBatch
  <2>2. \A t \in Task, st \in Terminal : status'[t] = st <=> status[t] = st
    BY <2>1 DEF LeaseTo, With, Terminal
  <2>3. \A j \in Job : jobStatus'[j] = "completed" => jobStatus[j] = "completed"
    BY <2>1 DEF LeaseTo
  <2>4. UNCHANGED <<taskJob, totalHosts, scannedHosts, failedHosts, compliantHosts>>
    BY <2>1 DEF LeaseTo, counters
  <2> QED
    BY <2>2, <2>3, <2>4, UncountedExact
<1>3. ASSUME NEW w \in Worker, NEW t \in Task, ReportUnknown(w, t) PROVE ExactInv'
  BY <1>3, UncountedExact DEF ReportUnknown, taskVars, jobVars, counters
<1>4. ASSUME NEW w \in Worker, NEW t \in Task, NEW c \in BOOLEAN, Complete(w, t, c)
      PROVE ExactInv'
  <2> DEFINE j == taskJob[t]
  <2>1. status[t] = "leased" /\ j \in Job
    BY <1>4, LeasedAtReport DEF Complete
  <2>2. Settles(t, j, "completed") /\ totalHosts' = totalHosts
    BY <1>4, <2>1 DEF Complete, Settles
  <2>3. scannedHosts[j] + 1 + failedHosts[j] = scannedHosts[j] + failedHosts[j] + 1
    BY <2>1 DEF TypeOK
  <2>4. jobStatus' = [jobStatus EXCEPT ![j] = Finalised(j, scannedHosts[j] + failedHosts[j] + 1)]
    BY <1>4, <2>3 DEF Complete
  <2>5. /\ scannedHosts' = [scannedHosts EXCEPT ![j] = scannedHosts[j] + 1]
        /\ failedHosts' = [failedHosts EXCEPT ![j] = failedHosts[j]]
    BY <1>4 DEF Complete, TypeOK
  <2>6. \A k \in Job : \/ compliantHosts'[k] = compliantHosts[k]
                       \/ k = j /\ compliantHosts'[k] = compliantHosts[k] + 1
    BY <1>4 DEF Complete, TypeOK
  <2>7. "completed" \in Terminal
    BY DEF Terminal
  <2> HIDE DEF j
  <2> QED
    BY <2>1, <2>2, <2>4, <2>5, <2>6, <2>7, CountedExact
<1>5. ASSUME NEW w \in Worker, NEW t \in Task, FailRetry(w, t) PROVE ExactInv'
  <2>1. \A u \in Task, st \in Terminal : status'[u] = st <=> status[u] = st
    BY <1>5, LeasedAtReport DEF FailRetry, TypeOK, Terminal
  <2> QED
    BY <1>5, <2>1, UncountedExact DEF FailRetry, jobVars, counters
<1>6. ASSUME NEW w \in Worker, NEW t \in Task, NEW r \in BOOLEAN, FailForGood(w, t, r)
      PROVE ExactInv'
  <2> DEFINE j == taskJob[t]
  <2>1. status[t] = "leased" /\ j \in Job
    BY <1>6, LeasedAtReport DEF FailForGood
  <2>2. Settles(t, j, "failed") /\ UNCHANGED <<totalHosts, compliantHosts>>
    BY <1>6, <2>1 DEF FailForGood, Settles
  <2>3. jobStatus' = [jobStatus EXCEPT ![j] = Finalised(j, scannedHosts[j] + failedHosts[j] + 1)]
    BY <1>6 DEF FailForGood
  <2>4. /\ scannedHosts' = [scannedHosts EXCEPT ![j] = scannedHosts[j]]
        /\ failedHosts' = [failedHosts EXCEPT ![j] = failedHosts[j] + 1]
    BY <1>6 DEF FailForGood, TypeOK
  <2>5. "failed" \in Terminal
    BY DEF Terminal
  <2> HIDE DEF j
  <2> QED
    BY <2>1, <2>2, <2>3, <2>4, <2>5, CountedExact
<1>7. CASE ReclaimExpiredLeases
  <2>1. \A u \in Task, st \in Terminal : status'[u] = st <=> status[u] = st
    BY <1>7 DEF ReclaimExpiredLeases, LeaseOver, Terminal
  <2> QED
    BY <1>7, <2>1, UncountedExact DEF ReclaimExpiredLeases, jobVars, counters
<1>8. CASE Tick
  BY <1>8, UncountedExact DEF Tick, jobVars, counters
<1>9. ASSUME NEW w \in Worker, WorkerCrash(w) PROVE ExactInv'
  BY <1>9, UncountedExact DEF WorkerCrash, taskVars, jobVars, counters
<1>10. CASE ProcessRestart
  <2>1. \A j \in Job : TasksOf(j)' = {} /\ Settled(j)' = {}
    BY <1>10, QueueAssumption DEF ProcessRestart, TasksOf, Settled, EachTask
  <2>2. \A j \in Job : /\ totalHosts'[j] = 0 /\ scannedHosts'[j] = 0
                       /\ failedHosts'[j] = 0 /\ compliantHosts'[j] = 0
    BY <1>10 DEF ProcessRestart, EachJob
  <2>3. \A j \in Job : /\ Cardinality(TasksOf(j)') = 0
                       /\ Cardinality((TasksOf(j) \cap With("completed"))') = 0
                       /\ Cardinality((TasksOf(j) \cap With("failed"))') = 0
    BY <2>1, FS_EmptySet
  <2>4. TallyIsExact'
    <3>1. HostsCounted'
      BY <2>2, <2>3 DEF HostsCounted
    <3>2. \A j \in Job : compliantHosts'[j] <= scannedHosts'[j]
      BY <2>2
    <3>3. QED
      BY <2>2, <2>3, <3>1, <3>2 DEF TallyIsExact
  <2> QED
    BY <2>1, <2>4 DEF ExactInv, CompletedJobIsSettled
<1>11. CASE UNCHANGED vars
  BY <1>11, UncountedExact DEF vars, taskVars, jobVars, counters
<1> QED
  BY <1>1, <1>2, <1>3, <1>4, <1>5, <1>6, <1>7, <1>8, <1>9, <1>10, <1>11
  DEF Next, CompleteTask, FailTask

LEMMA InitExact == Init => ExactInv
<1> SUFFICES ASSUME Init PROVE ExactInv
  OBVIOUS
<1>1. \A j \in Job : TasksOf(j) = {} /\ Settled(j) = {}
  BY QueueAssumption DEF Init, TasksOf, Settled, EachTask
<1>2. \A j \in Job : /\ totalHosts[j] = 0 /\ scannedHosts[j] = 0
                     /\ failedHosts[j] = 0 /\ compliantHosts[j] = 0
  BY DEF Init, EachJob
<1>3. \A j \in Job : /\ Cardinality(TasksOf(j)) = 0
                     /\ Cardinality(TasksOf(j) \cap With("completed")) = 0
                     /\ Cardinality(TasksOf(j) \cap With("failed")) = 0
  BY <1>1, FS_EmptySet
<1>4. TallyIsExact
  <2>1. HostsCounted
    BY <1>2, <1>3 DEF HostsCounted
  <2>2. \A j \in Job : compliantHosts[j] <= scannedHosts[j]
    BY <1>2
  <2>3. QED
    BY <1>2, <1>3, <2>1, <2>2 DEF TallyIsExact
<1> QED
  BY <1>1, <1>4 DEF ExactInv, CompletedJobIsSettled

(* With workers that report within their leases a job's counters are the   *)
(* numbers of its completed and of its failed hosts, and it is shown       *)
(* completed only once all of them have settled (CompleteTask, FailTask).  *)
THEOREM TalliesAreExact ==
  ASSUME MaxLate = 0 PROVE Spec => [](TallyIsExact /\ CompletedJobIsSettled)
<1>1. TypeOK /\ TablesAgree /\ LeaseIsExclusive /\ ExactInv /\ [Next]_vars => ExactInv'
  BY NextExact
<1>2. ExactInv => TallyIsExact /\ CompletedJobIsSettled
  BY DEF ExactInv
<1>3. QED
  BY <1>1, <1>2, InitExact, TypeCorrect, LeasesAreExclusive, PTL DEF Spec

(* A job whose last host settles is finalised in that very step, whatever  *)
(* late or repeated reports arrive (CompleteTask, FailTask).               *)
THEOREM LastHostFinalises == Spec => []SettledJobIsCompleted
BY ProgressNeverLags, PTL

-----------------------------------------------------------------------------
(* The queue implements the ledger: every operation opens a job, settles   *)
(* one of its open hosts, or leaves the ledger as it is.                   *)
(* Operations that open and settle nothing are invisible to the ledger. *)
LEMMA InvisibleStep ==
  ASSUME TypeOK, UNCHANGED <<taskJob, scannedHosts, failedHosts>>,
         \A t \in Task : \/ status'[t] = status[t]
                         \/ {status'[t], status[t]} \subseteq {"pending", "leased"},
         \A j \in Job : jobStatus'[j] = "completed" <=> jobStatus[j] = "completed"
  PROVE  UNCHANGED Ledger!vars
BY DEF Ledger!vars, TasksOf

(* EnqueueJob opens the job over hosts the ledger has not seen. *)
LEMMA EnqueueOpens ==
  ASSUME TypeOK, TablesAgree, NEW j \in Job, NEW S \in SUBSET Task, EnqueueJob(j, S)
  PROVE  Ledger!Open(j, S)
<1>1. \A t \in S : status[t] = "absent" /\ taskJob[t] = NoJob
  BY DEF EnqueueJob, TypeOK, TablesAgree
<1>2. \A t \in Task : taskJob[t] # j
  BY QueueAssumption DEF EnqueueJob, TypeOK, TablesAgree
<1>3. \A t \in Task : /\ taskJob'[t] = IF t \in S THEN j ELSE taskJob[t]
                      /\ status'[t] = IF t \in S THEN "pending" ELSE status[t]
  BY DEF EnqueueJob
<1>4. TasksOf(j) = {} /\ TasksOf(j)' = S
  BY <1>2, <1>3 DEF TasksOf
<1>5. \A k \in Job \ {j} : TasksOf(k)' = TasksOf(k)
  BY <1>1, <1>3, QueueAssumption DEF TasksOf
<1>6. [k \in Job |-> TasksOf(k)]' = [[k \in Job |-> TasksOf(k)] EXCEPT ![j] = S]
  BY <1>4, <1>5
<1>7. [t \in Task |-> IF status[t] \in {"pending", "leased"} THEN "open" ELSE status[t]]'
        = [t \in Task |-> IF t \in S THEN "open" ELSE
             [u \in Task |-> IF status[u] \in {"pending", "leased"} THEN "open" ELSE status[u]][t]]
  BY <1>3
<1>8. UNCHANGED <<scannedHosts, failedHosts>>
  BY DEF EnqueueJob, counters
<1>9. [k \in Job |-> jobStatus[k] = "completed"]' = [k \in Job |-> jobStatus[k] = "completed"]
  <2>1. \A k \in Job : jobStatus'[k] = "completed" <=> jobStatus[k] = "completed"
    BY DEF EnqueueJob, TypeOK
  <2>2. QED
    BY <2>1
<1>10. /\ [k \in Job |-> TasksOf(k)][j] = {}
       /\ \A t \in S : [u \in Task |-> IF status[u] \in {"pending", "leased"} THEN "open"
                                       ELSE status[u]][t] = "absent"
  BY <1>1, <1>4
<1> QED
  BY <1>6, <1>7, <1>8, <1>9, <1>10 DEF Ledger!Open

(* A report that settles a leased task settles that host in the ledger, and *)
(* the finalisation test of the queue is the ledger's: no other host open.  *)
LEMMA ReportSettles ==
  ASSUME TypeOK, TablesAgree, ExactInv,
         NEW t \in Task, NEW j \in Job, NEW st \in Terminal, Settles(t, j, st),
         scannedHosts' = [scannedHosts EXCEPT ![j] = IF st = "completed" THEN @ + 1 ELSE @],
         failedHosts' = [failedHosts EXCEPT ![j] = IF st = "failed" THEN @ + 1 ELSE @],
         jobStatus' = [jobStatus EXCEPT ![j] = Finalised(j, scannedHosts[j] + failedHosts[j] + 1)]
  PROVE  Ledger!Settle(j, t, st)
<1> DEFINE outcome == [u \in Task |-> IF status[u] \in {"pending", "leased"} THEN "open" ELSE status[u]]
<1> DEFINE hostsOf == [k \in Job |-> TasksOf(k)]
<1> DEFINE done == [k \in Job |-> jobStatus[k] = "completed"]
<1>1. t \in hostsOf[j] /\ outcome[t] = "open"
  BY DEF Settles, TasksOf
<1>2. outcome' = [outcome EXCEPT ![t] = st]
  BY DEF Settles, TypeOK, Terminal
<1>3. hostsOf' = hostsOf
  BY DEF Settles, TasksOf
<1>4. (\A u \in hostsOf[j] \ {t} : outcome[u] # "open") <=> Settled(j) \cup {t} = TasksOf(j)
  <2>1. \A u \in TasksOf(j) : outcome[u] # "open" <=> status[u] \in Terminal
    BY QueueAssumption DEF TasksOf, TypeOK, TaskStatus, Terminal, TablesAgree
  <2>2. \A u \in TasksOf(j) : status[u] \in Terminal <=> u \in Settled(j)
    BY DEF Settled
  <2>3. Settled(j) \subseteq TasksOf(j) /\ t \in TasksOf(j)
    BY <1>1, TasksOfType
  <2>4. hostsOf[j] = TasksOf(j)
    OBVIOUS
  <2> HIDE DEF hostsOf, outcome
  <2>5. QED
    BY <2>1, <2>2, <2>3, <2>4
<1>5. done' = [done EXCEPT ![j] = \A u \in hostsOf[j] \ {t} : outcome[u] # "open"]
  <2>1. jobStatus'[j] = "completed" <=> Settled(j) \cup {t} = TasksOf(j)
    BY LastHost DEF Settles, Finalised, TypeOK
  <2>2. \A k \in Job \ {j} : jobStatus'[k] = jobStatus[k]
    BY DEF TypeOK
  <2>3. done'[j] = (\A u \in hostsOf[j] \ {t} : outcome[u] # "open")
    BY <1>4, <2>1
  <2>4. QED
    BY <2>2, <2>3
<1> QED
  BY <1>1, <1>2, <1>3, <1>5 DEF Ledger!Settle

(* Each operation of the queue is a step of the ledger or leaves it alone. *)
LEMMA NextImplements ==
  ASSUME MaxLate = 0, MaxRestarts = 0,
         TypeOK, TablesAgree, LeaseIsExclusive, ExactInv, [Next]_vars
  PROVE  [Ledger!Next]_(Ledger!vars)
<1>1. ASSUME NEW j \in Job, NEW S \in SUBSET Task, EnqueueJob(j, S) PROVE Ledger!Next
  BY <1>1, EnqueueOpens DEF Ledger!Next
<1>2. ASSUME NEW w \in Worker, NEW b \in BatchSize, NEW d \in LeaseTicks, LeaseBatch(w, b, d)
      PROVE UNCHANGED Ledger!vars
  <2>1. PICK L \in SUBSET With("pending") : LeaseTo(w, d, L)
    BY <1>2 DEF LeaseBatch
  <2>2. \A t \in Task : \/ status'[t] = status[t]
                        \/ {status'[t], status[t]} \subseteq {"pending", "leased"}
    BY <2>1 DEF LeaseTo, With
  <2>3. \A j \in Job : jobStatus'[j] = "completed" <=> jobStatus[j] = "completed"
    BY <2>1 DEF LeaseTo
  <2>4. UNCHANGED <<taskJob, scannedHosts, failedHosts>>
    BY <2>1 DEF LeaseTo, counters
  <2> QED
    BY <2>2, <2>3, <2>4, InvisibleStep
<1>3. ASSUME NEW w \in Worker, NEW t \in Task, ReportUnknown(w, t) PROVE UNCHANGED Ledger!vars
  BY <1>3, InvisibleStep DEF ReportUnknown, taskVars, jobVars, counters
<1>4. ASSUME NEW w \in Worker, NEW t \in Task, NEW c \in BOOLEAN, Complete(w, t, c)
      PROVE Ledger!Next
  <2> DEFINE j == taskJob[t]
  <2>1. status[t] = "leased" /\ j \in Job
    BY <1>4, LeasedAtReport DEF Complete
  <2>2. Settles(t, j, "completed")
    BY <1>4, <2>1 DEF Complete, Settles
  <2>3. scannedHosts[j] + 1 + failedHosts[j] = scannedHosts[j] + failedHosts[j] + 1
    BY <2>1 DEF TypeOK
  <2>4. jobStatus' = [jobStatus EXCEPT ![j] = Finalised(j, scannedHosts[j] + failedHosts[j] + 1)]
    BY <1>4, <2>3 DEF Complete
  <2>5. /\ scannedHosts' = [scannedHosts EXCEPT ![j] = scannedHosts[j] + 1]
        /\ failedHosts' = [failedHosts EXCEPT ![j] = failedHosts[j]]
    BY <1>4 DEF Complete, TypeOK
  <2>6. "completed" \in Terminal
    BY DEF Terminal
  <2> HIDE DEF j
  <2>7. Ledger!Settle(j, t, "completed")
    BY <2>1, <2>2, <2>4, <2>5, <2>6, ReportSettles
  <2> QED
    BY <2>1, <2>7 DEF Ledger!Next
<1>5. ASSUME NEW w \in Worker, NEW t \in Task, FailRetry(w, t) PROVE UNCHANGED Ledger!vars
  <2>1. \A u \in Task : \/ status'[u] = status[u]
                        \/ {status'[u], status[u]} \subseteq {"pending", "leased"}
    BY <1>5, LeasedAtReport DEF FailRetry, TypeOK
  <2> QED
    BY <1>5, <2>1, InvisibleStep DEF FailRetry, jobVars, counters
<1>6. ASSUME NEW w \in Worker, NEW t \in Task, NEW r \in BOOLEAN, FailForGood(w, t, r)
      PROVE Ledger!Next
  <2> DEFINE j == taskJob[t]
  <2>1. status[t] = "leased" /\ j \in Job
    BY <1>6, LeasedAtReport DEF FailForGood
  <2>2. Settles(t, j, "failed")
    BY <1>6, <2>1 DEF FailForGood, Settles
  <2>3. jobStatus' = [jobStatus EXCEPT ![j] = Finalised(j, scannedHosts[j] + failedHosts[j] + 1)]
    BY <1>6 DEF FailForGood
  <2>4. /\ scannedHosts' = [scannedHosts EXCEPT ![j] = scannedHosts[j]]
        /\ failedHosts' = [failedHosts EXCEPT ![j] = failedHosts[j] + 1]
    BY <1>6 DEF FailForGood, TypeOK
  <2>5. "failed" \in Terminal
    BY DEF Terminal
  <2> HIDE DEF j
  <2>6. Ledger!Settle(j, t, "failed")
    BY <2>1, <2>2, <2>3, <2>4, <2>5, ReportSettles
  <2> QED
    BY <2>1, <2>6 DEF Ledger!Next
<1>7. CASE ReclaimExpiredLeases
  <2>1. \A u \in Task : \/ status'[u] = status[u]
                        \/ {status'[u], status[u]} \subseteq {"pending", "leased"}
    BY <1>7 DEF ReclaimExpiredLeases, LeaseOver
  <2> QED
    BY <1>7, <2>1, InvisibleStep DEF ReclaimExpiredLeases, jobVars, counters
<1>8. CASE Tick
  BY <1>8, InvisibleStep DEF Tick, jobVars, counters
<1>9. ASSUME NEW w \in Worker, WorkerCrash(w) PROVE UNCHANGED Ledger!vars
  BY <1>9, InvisibleStep DEF WorkerCrash, taskVars, jobVars, counters
<1>10. ~ProcessRestart
  BY QueueAssumption DEF ProcessRestart, TypeOK
<1>11. CASE UNCHANGED vars
  BY <1>11, InvisibleStep DEF vars, taskVars, jobVars, counters
<1> QED
  BY <1>1, <1>2, <1>3, <1>4, <1>5, <1>6, <1>7, <1>8, <1>9, <1>10, <1>11
  DEF Next, CompleteTask, FailTask

(* The queue keeps the ledger's promise as long as no report is late and   *)
(* the process is not restarted: each host of a job is settled once and    *)
(* for good, the tallies count the settled hosts, and the job is completed *)
(* by exactly the report that settles its last host.                       *)
THEOREM QueueImplementsLedger ==
  ASSUME MaxLate = 0, MaxRestarts = 0 PROVE Spec => ImplementsLedger
<1>1. Init => Ledger!Init
  <2> SUFFICES ASSUME Init PROVE Ledger!Init
    OBVIOUS
  <2>1. \A j \in Job : TasksOf(j) = {}
    BY QueueAssumption DEF Init, TasksOf, EachTask
  <2>2. QED
    BY <2>1 DEF Init, Ledger!Init, EachTask, EachJob
<1>2. TypeOK /\ TablesAgree /\ LeaseIsExclusive /\ ExactInv /\ [Next]_vars
        => [Ledger!Next]_(Ledger!vars) /\ ExactInv'
  BY NextImplements, NextExact
<1>3. QED
  BY <1>1, <1>2, InitExact, TypeCorrect, LeasesAreExclusive, PTL
  DEF Spec, ImplementsLedger, Ledger!Spec
=============================================================================
