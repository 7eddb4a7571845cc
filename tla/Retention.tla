------------------------------ MODULE Retention ------------------------------
(***************************************************************************)
(* The snapshot retention engine, apps/api/internal/retention/engine.go,   *)
(* on top of the repository's snapshots: snapshots older than a window are *)
(* archived to cold storage, or thinned out to one per host and week.      *)
(* Execute holds the engine's mutex, so that there is one run at a time,   *)
(* but the repository's mutex only call by call: snapshots are saved and   *)
(* pages are read between the steps of a run, which works on a copy of the *)
(* snapshot list taken at its start.                                       *)
(***************************************************************************)
EXTENDS Snapshots

CONSTANTS
  RetentionDays, \* the windows operators ask for, in days
  WeekLength,    \* days in a calendar week (ISOWeek)
  Written,       \* whether a file can be written: what may happen
  MaxRuns        \* bound: runs of Execute

ASSUME RetentionAssumption ==
  /\ RetentionDays \subseteq Nat \ {0}
  /\ WeekLength \in Nat \ {0}
  /\ Written \subseteq BOOLEAN
  /\ MaxRuns \in Nat

VARIABLES
  files,   \* the snapshots with a file on cold storage
  run,     \* the run of Execute that holds the mutex
  audit,   \* the SNAPSHOT_RETENTION_EXECUTED entries, oldest first
  runs,    \* runs started so far
  aborted  \* whether a run ended with its context and without an entry

vars == <<now, storeVars, walk, files, run, audit, runs, aborted>>

Strategy == {"archive", "downsample"}
Counts   == [archived : Nat, pruned : Nat, retained : Nat]
Zero     == [archived |-> 0, pruned |-> 0, retained |-> 0]

(* No run.  Of a run, todo holds the copies an archival has still to visit *)
(* or the host-week groups still to thin out, prune the snapshots still to *)
(* go in the group in hand, and promise what a dry run at its start says.  *)
NoRun == [strategy |-> "none", cutoff |-> 0, todo |-> {}, prune |-> {},
          counts |-> Zero, promise |-> Zero]

Init ==
  /\ SnapInit
  /\ files = {}
  /\ run = NoRun
  /\ audit = <<>>
  /\ runs = 0
  /\ aborted = FALSE

Week(i)        == born[i].day \div WeekLength
SameWeek(i, k) == born[i].host = born[k].host /\ Week(i) = Week(k)

(* Faults: the window's last day goes too; an archived snapshot goes again. *)
EligibleOnLastDay(i, cutoff)  == born[i].day <= cutoff /\ i \notin archived
EligibleAgain(i, cutoff)      == born[i].day < cutoff

(* snap.CreatedAt.Before(cutoffDate) && !snap.IsArchived, as Execute tests *)
(* it.  A copy's IsArchived is the flag at the start of the run; only runs *)
(* set it, and each one visits a snapshot once.                            *)
Eligible(i, cutoff) == born[i].day < cutoff /\ i \notin archived

(* The same test in DryRun. *)
DryRunEligible(i, cutoff) == born[i].day < cutoff /\ i \notin archived

(* hostWeeks: the eligible snapshots by host and calendar week. *)
HostWeeks(S) == {{k \in S : SameWeek(i, k)} : i \in S}

(* DryRun: what a run would do now. *)
DryRun(strategy, cutoff) ==
  LET S == {i \in present : DryRunEligible(i, cutoff)} IN
  IF strategy = "archive"
    THEN [Zero EXCEPT !.archived = Cardinality(S)]
    ELSE [Zero EXCEPT !.pruned = Cardinality(S) - Cardinality(HostWeeks(S)),
                      !.retained = Cardinality(HostWeeks(S))]

(* Execute starts: cutoff, copy of the list, groups. *)
ExecuteStarts(strategy, days) ==
  /\ run = NoRun
  /\ runs < MaxRuns
  /\ runs' = runs + 1
  /\ LET cutoff == now - days IN
     run' = [NoRun EXCEPT
       !.strategy = strategy,
       !.cutoff = cutoff,
       !.todo = IF strategy = "archive" THEN present
                ELSE HostWeeks({i \in present : Eligible(i, cutoff)}),
       !.promise = DryRun(strategy, cutoff)]
  /\ UNCHANGED <<now, storeVars, walk, files, audit, aborted>>

(* The archival loop visits a snapshot; an eligible one is written to cold *)
(* storage, if that works, and ArchiveSnapshotPayload clears its payload.  *)
ArchiveNext(i, written) ==
  /\ run.strategy = "archive"
  /\ i \in run.todo
  /\ IF Eligible(i, run.cutoff)
       THEN /\ files' = IF written THEN files \cup {i} ELSE files
            /\ archived' = archived \cup {i}
            /\ run' = [run EXCEPT !.todo = @ \ {i}, !.counts.archived = @ + 1]
       ELSE run' = [run EXCEPT !.todo = @ \ {i}] /\ UNCHANGED <<files, archived>>
  /\ UNCHANGED <<now, born, present, weekly, walk, audit, runs, aborted>>

(* The archival loop finds its request cancelled. *)
ArchiveAborts ==
  /\ run.strategy = "archive"
  /\ run.todo # {}
  /\ run' = NoRun
  /\ aborted' = TRUE
  /\ UNCHANGED <<now, storeVars, walk, files, audit, runs>>

LatestOf(g, i)  == i \in g /\ \A k \in g : born[k].day <= born[i].day
EarliestOf(g, i) == i \in g /\ \A k \in g : born[k].day >= born[i].day

(* Fault: the week keeps its first snapshot. *)
KeepFirst(g, i) ==
  /\ run.strategy = "downsample"
  /\ run.prune = {} /\ g \in run.todo /\ EarliestOf(g, i)
  /\ weekly' = weekly \cup {i}
  /\ run' = [run EXCEPT !.todo = @ \ {g}, !.prune = g \ {i}, !.counts.retained = @ + 1]
  /\ UNCHANGED <<now, born, present, archived, walk, files, audit, runs, aborted>>

(* The thinning loop takes up a group: MarkSnapshotWeeklyRetained for its  *)
(* latest snapshot.                                                        *)
KeepLatest(g, i) ==
  /\ run.strategy = "downsample"
  /\ run.prune = {}
  /\ g \in run.todo
  /\ LatestOf(g, i)
  /\ weekly' = weekly \cup {i}
  /\ run' = [run EXCEPT !.todo = @ \ {g}, !.prune = g \ {i}, !.counts.retained = @ + 1]
  /\ UNCHANGED <<now, born, present, archived, walk, files, audit, runs, aborted>>

(* PruneDownsampledSnapshot for the others, oldest first. *)
PruneNext(i) ==
  /\ EarliestOf(run.prune, i)
  /\ present' = present \ {i}
  /\ weekly' = weekly \ {i}
  /\ run' = [run EXCEPT !.prune = @ \ {i}, !.counts.pruned = @ + 1]
  /\ walk' = [walk EXCEPT !.whole = FALSE]
  /\ UNCHANGED <<now, born, archived, files, audit, runs, aborted>>

(* Execute ends: AddAuditLog, UpdateRetentionPolicyRunStats. *)
ExecuteEnds ==
  /\ run # NoRun
  /\ run.todo = {} /\ run.prune = {}
  /\ audit' = Append(audit, run.counts)
  /\ run' = NoRun
  /\ UNCHANGED <<now, storeVars, walk, files, runs, aborted>>

RunNext ==
  \/ \E strategy \in Strategy, days \in RetentionDays : ExecuteStarts(strategy, days)
  \/ \E i \in present, written \in Written : ArchiveNext(i, written)
  \/ ArchiveAborts
  \/ \E g \in run.todo : run.strategy = "downsample" /\ \E i \in g : KeepLatest(g, i)
  \/ \E i \in run.prune : PruneNext(i)
  \/ ExecuteEnds

Next == RunNext \/ (SnapNext /\ UNCHANGED <<files, run, audit, runs, aborted>>)

Spec == Init /\ [][Next]_vars

-----------------------------------------------------------------------------
(* Every variable stays within its declared range. *)
TypeOK ==
  /\ SnapTypeOK
  /\ files \subseteq Saved
  /\ run.strategy \in Strategy \cup {"none"}
  /\ run.counts \in Counts /\ run.promise \in Counts
  /\ run.prune \subseteq present
  /\ IF run.strategy = "archive" THEN run.todo \subseteq present
     ELSE \A g \in run.todo : g # {} /\ g \subseteq present
  /\ audit \in Seq(Counts)
  /\ runs \in 0..MaxRuns
  /\ aborted \in BOOLEAN

(* Thinning out never costs a week its latest snapshot of a host, however  *)
(* often it runs, with whatever windows, and whatever is saved meanwhile:  *)
(* for every snapshot ever saved one as late of that host and week is      *)
(* still there (KeepLatest, PruneNext).                                    *)
NoWeekLosesItsLatest ==
  \A i \in Saved : \E k \in present : SameWeek(i, k) /\ born[k].day >= born[i].day

(* What a number of the entries comes to: as many strokes for each. *)
Strokes(f) == UNION {{n} \X (1..f[n]) : n \in DOMAIN f}
Total(f)   == Cardinality(Strokes(f))
Archivals  == [n \in DOMAIN audit |-> audit[n].archived]
Prunings   == [n \in DOMAIN audit |-> audit[n].pruned]

(* The audit entries and the run in progress account for every snapshot    *)
(* that lost its payload or was removed, once each; the archivals of a run *)
(* that was cut short by its context are the only ones without an entry.   *)
AuditAccountsForEffects ==
  /\ Total(Prunings) + run.counts.pruned = Cardinality(Saved \ present)
  /\ Total(Archivals) + run.counts.archived <= Cardinality(archived)
  /\ ~aborted => Total(Archivals) + run.counts.archived = Cardinality(archived)

(* "DryRun calculates the exact impact of a retention policy": a run that  *)
(* starts right after a dry run ends with the numbers the dry run gave,    *)
(* whatever is saved while it works.                                       *)
DryRunIsExact ==
  run # NoRun /\ run.todo = {} /\ run.prune = {} => run.counts = run.promise

(* "archived to compressed gzip files (`.json.gz`) on cold storage"        *)
(* (RUNBOOK.md): a snapshot whose payload is cleared has its file.         *)
ArchivedIsOnColdStorage == archived \subseteq files
=============================================================================
