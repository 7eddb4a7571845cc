----------------------------- MODULE AuditTrail -----------------------------
(***************************************************************************)
(* The security audit log in the control plane's repository,               *)
(* apps/api/internal/repository/repository.go.  It has two kinds of        *)
(* writers: handlers call AddAuditLog, which puts its entry at the front   *)
(* and cuts the log to its first MaxEntries entries, and six operations of *)
(* the repository append theirs at the end, under the lock they hold       *)
(* anyway and without a cut.                                               *)
(***************************************************************************)
EXTENDS Integers, Sequences, SequencesExt

CONSTANTS
  MaxEntries, \* the cut (1000 in the code)
  MaxWritten  \* bound: entries written in a behaviour

ASSUME AuditAssumption == MaxEntries \in Nat \ {0} /\ MaxWritten \in Nat

VARIABLES
  auditLogs, \* the log, in its order in memory
  written    \* how many entries were written so far; the n-th has number n

auditVars == <<auditLogs, written>>

Entry(action, resource) == [n |-> written + 1, action |-> action, resource |-> resource]
EntryWritten == written < MaxWritten /\ written' = written + 1

AuditInit == auditLogs = <<>> /\ written = 0

(* AddAuditLog: newest first, and no more than MaxEntries. *)
AddAuditLog(action, resource) ==
  /\ EntryWritten
  /\ LET log == <<Entry(action, resource)>> \o auditLogs IN
     auditLogs' = IF Len(log) > MaxEntries THEN SubSeq(log, 1, MaxEntries) ELSE log

(* The entry of UpdateRolloutSettings, PromoteEndpointsTier,               *)
(* BulkAssignEndpointsTier, UpdateEndpointRolloutTier,                     *)
(* RecordTestAlertResult and UpdateSnapshotRetentionPolicy.                *)
AppendEntry(action, resource) ==
  /\ EntryWritten
  /\ auditLogs' = Append(auditLogs, Entry(action, resource))

Logged(n) == {i \in DOMAIN auditLogs : auditLogs[i].n = n}

-----------------------------------------------------------------------------
(* "Immutable audit log" (the comments on the appended entries): the log   *)
(* may forget its oldest entries, but never an entry for the sake of an    *)
(* older one.                                                              *)
NewestEntriesAreKept ==
  \A n \in 1..written : written - n < MaxEntries => Logged(n) # {}
=============================================================================
