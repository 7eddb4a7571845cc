----------------------------- MODULE ScanLedger -----------------------------
(***************************************************************************)
(* What a scan job queue promises, with no workers, leases or retries in   *)
(* it: a job opens with a set of hosts, every host is settled exactly once *)
(* (scanned or failed), the job's tallies count the settled hosts, and the *)
(* job is done from the step that settles its last host on.                *)
(***************************************************************************)
EXTENDS Integers, FiniteSets

CONSTANTS Job, Task

VARIABLES
  outcome,   \* per task: "absent", "open", "completed" or "failed"
  hostsOf,   \* per job, the tasks it consists of
  scanned,   \* per job, how many hosts were scanned
  failed,    \* per job, how many hosts failed for good
  done       \* per job, whether it is shown as completed

vars == <<outcome, hostsOf, scanned, failed, done>>

Init ==
  /\ outcome = [t \in Task |-> "absent"]
  /\ hostsOf = [j \in Job |-> {}]
  /\ scanned = [j \in Job |-> 0]
  /\ failed = [j \in Job |-> 0]
  /\ done = [j \in Job |-> FALSE]

(* A job opens over tasks nobody has used; with none it opens empty. *)
Open(j, S) ==
  /\ hostsOf[j] = {}
  /\ \A t \in S : outcome[t] = "absent"
  /\ hostsOf' = [hostsOf EXCEPT ![j] = S]
  /\ outcome' = [t \in Task |-> IF t \in S THEN "open" ELSE outcome[t]]
  /\ UNCHANGED <<scanned, failed, done>>

(* An open host of the job settles; the job is done iff it was the last. *)
Settle(j, t, result) ==
  /\ t \in hostsOf[j]
  /\ outcome[t] = "open"
  /\ outcome' = [outcome EXCEPT ![t] = result]
  /\ scanned' = [scanned EXCEPT ![j] = IF result = "completed" THEN @ + 1 ELSE @]
  /\ failed' = [failed EXCEPT ![j] = IF result = "failed" THEN @ + 1 ELSE @]
  /\ done' = [done EXCEPT ![j] = \A u \in hostsOf[j] \ {t} : outcome[u] # "open"]
  /\ UNCHANGED hostsOf

Next ==
  \/ \E j \in Job, S \in SUBSET Task : Open(j, S)
  \/ \E j \in Job, t \in Task, result \in {"completed", "failed"} : Settle(j, t, result)

Spec == Init /\ [][Next]_vars
=============================================================================
